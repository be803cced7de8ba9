------------------------------- MODULE MCQueue -------------------------------
(***************************************************************************)
(* Small instances of Queue for TLC: the sites, the first queues and the   *)
(* refusals that the configurations choose from.                           *)
(***************************************************************************)
EXTENDS Queue

\* A server without TLS that leaves every choice to the engine.
Plain ==
  [ssl |-> FALSE, ccsn |-> FALSE, sscn |-> FALSE, pretFeat |-> FALSE, local |-> FALSE,
   dataTLS |-> "AUTO", fxpTLS |-> "AUTO", pret |-> "AUTO", passive |-> "YES",
   fxpPassive |-> "AUTO", resume |-> "AUTO", resumeLast |-> "NO", skipEmpty |-> "YES",
   desiredType |-> "AUTO"]

\* Servers with TLS; the first two can be the client of a transfer.
TlsCcsn == [Plain EXCEPT !.ssl = TRUE, !.ccsn = TRUE]
TlsSscn == [Plain EXCEPT !.ssl = TRUE, !.sscn = TRUE, !.dataTLS = "YES"]
TlsOnly == [Plain EXCEPT !.ssl = TRUE]
Local   == [TlsOnly EXCEPT !.local = TRUE]

Pair(n, s) == [p \in Side |-> IF p = "N" THEN n ELSE s]

\* Neither site has TLS; the file is left for last when it can be resumed.
PlainSites ==
  Pair(Plain, [Plain EXCEPT !.resumeLast = "YES"])
\* A CCSN and an SSCN site; the source sends PRET.
TlsSites ==
  Pair([TlsCcsn EXCEPT !.pretFeat = TRUE], [TlsSscn EXCEPT !.resumeLast = "YES"])
\* A local source and a server where empty directories are created and which
\* opens data connections itself.
ListSites  ==
  Pair([Local EXCEPT !.fxpPassive = "NO"],
       [TlsOnly EXCEPT !.skipEmpty = "NO", !.passive = "NO"])

File(dir) ==
  [type |-> "FILE", north |-> TRUE, weight |-> 0, dir |-> dir,
   over |-> FALSE, rest |-> FALSE, ssize |-> TRUE]
Back(t) == [t EXCEPT !.north = FALSE]
Fresh(t) == [t EXCEPT !.over = TRUE]
Unsized(t) == [t EXCEPT !.ssize = FALSE]
MoveFirst(t) == [t EXCEPT !.weight = -1]
Directory(dir) == [File(dir) EXCEPT !.type = "DIRECTORY"]
StopItem(dir) == [File(dir) EXCEPT !.type = "STOP"]

TheDir == CHOOSE dir \in Dirs : TRUE
SubDir == CHOOSE dir \in Dirs : Dirs = {TheDir} \/ dir # TheDir

OneFile       == {<<File(TheDir)>>}
TwoFiles      == {<<Unsized(File(TheDir)), Back(Fresh(File(TheDir)))>>,
                  <<File(TheDir), File(SubDir)>>, <<Fresh(File(TheDir)), File(TheDir)>>}
ThereAndBack  == {<<Fresh(File(TheDir)), Fresh(File(SubDir)), Fresh(File(TheDir))>>}
OneDirectory  == {<<Directory(TheDir)>>}
Stoppable     == {<<Fresh(File(TheDir)), StopItem(TheDir), Back(File(TheDir))>>}

NewFile       == {Fresh(File(TheDir))}
Entries       == {File(TheDir), MoveFirst(File(TheDir)), Directory(SubDir)}
Places        == {First, Last, Default, Nth(1), Nth(2), Absent}

\* Every reply but a 4xx to CWD and MKD.
NotSoft == Refusal \ ({"CWD", "MKD"} \X {"soft"})

\* Replies that handler.c takes for success and session.c does not.
Inexact == {"CWD", "BINARY", "CCSN", "SSCN", "PRIVACY"} \X {"near"}
InexactCwd == {<<"CWD", "near">>}

\* Refusals that the engine takes for what they are.
HardRefusal == NotSoft \ Inexact

\* Refusals of servers that answer SIZE.
SizedRefusal == HardRefusal \ {<<"SIZE", "fail">>}

\* Replies after which no transfer is left half started.
CleanRefusal ==
  Inexact \cup
  ({"CWD", "MKD", "SIZE", "PASV", "PORT", "LIST", "BINARY", "CCSN", "SSCN", "PRIVACY"}
     \X {"fail"})
=============================================================================
