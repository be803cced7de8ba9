--------------------------------- MODULE Local ---------------------------------
(***************************************************************************)
(* The transfers of the local FTP server, a process of the engine's own    *)
(* that a session talks to through a pipe (engine/local.c), with the part  *)
(* of the session and of the queue that drives it (engine/session.c,       *)
(* engine/queue.c) and a peer at the other end of the data connection.     *)
(*                                                                         *)
(* A close is heard of at once: lion_close calls the handler of the handle *)
(* before another command is read from the pipe.                           *)
(***************************************************************************)
EXTENDS Naturals, Sequences

CONSTANT MaxJobs  \* bound: transfers and listings ever asked for

ASSUME LocalAssumption == MaxJobs \in Nat

\* What a session asks for: a file to store or to retrieve or a listing, with
\* PASV or PORT, PROT P or C, and from offset 0 or from a restart point.
\* Listings of a local site are always plain and from the beginning.
Job ==
  {j \in [kind: {"STOR", "RETR", "LIST"}, passive: BOOLEAN, secure: BOOLEAN, off: {0, 1}] :
     j.kind = "LIST" => ~j.secure /\ j.off = 0}
NoJob == [kind |-> "none", passive |-> FALSE, secure |-> FALSE, off |-> 0]

\* The server: local_data_ready, whether data_host is set, data_cmd, prot, rest;
\* the data connection, and whether its user_data is NULL; the file, whether its
\* reading is disabled and where it was opened; whether dirlist is at work.
Server ==
  [ready: 0 .. 2, host: BOOLEAN, cmd: {"NONE", "LIST", "STOR", "RETR", "WAITSSL"},
   prot: BOOLEAN, rest: {0, 1},
   data: {"null", "listen", "connecting", "tls", "up", "secure", "failed"},
   muted: BOOLEAN, file: {"null", "opening", "open"}, held: BOOLEAN, at: {0, 1},
   listing: BOOLEAN]

VARIABLES
  server,    \* the statics of local.c
  job, pc,   \* what the session asked for, and the reply it waits for
  onRest,    \* STATUS_ON_REST of the session
  pipe,      \* a command on its way to the server
  replies,   \* replies on their way to the session
  jobs,      \* how many were asked for
  began, odd \* of this job: whether it was begun; what was odd about its data:
             \* connected before the command, not secure, answered twice, or begun
             \* by the PORT of another

vars == <<server, job, pc, onRest, pipe, replies, jobs, began, odd>>
engine == <<job, pc, onRest, jobs>>

NewServer ==
  [ready |-> 0, host |-> FALSE, cmd |-> "NONE", prot |-> FALSE, rest |-> 0,
   data |-> "null", muted |-> FALSE, file |-> "null", held |-> FALSE, at |-> 0,
   listing |-> FALSE]

Init ==
  /\ server = NewServer /\ job = NoJob /\ pc = "idle" /\ onRest = FALSE
  /\ pipe = <<>> /\ replies = <<>> /\ jobs = 0 /\ began = FALSE /\ odd = {}

-----------------------------------------------------------------------------
(* local_data: called for PORT, for a transfer command and for a connection  *)
(* that is ready; the second call begins.                                    *)

\* Mutant: a file to retrieve is not held back until its connection is secure.
BeginUnheld(s) ==
  LET s1 == [s EXCEPT !.ready = 0, !.cmd = "NONE"]
  IN  CASE s.cmd \in {"STOR", "RETR"} -> [s1 EXCEPT !.file = "opening", !.held = FALSE]
        [] s.cmd = "LIST" -> [s1 EXCEPT !.listing = TRUE]
        [] OTHER -> s1

Begin(s) ==
  LET s1 == [s EXCEPT !.ready = 0]
      wait == s.cmd = "RETR" /\ s.prot /\ s.data # "secure"
  IN  CASE s.cmd \in {"STOR", "RETR"} ->
             [s1 EXCEPT !.file = "opening", !.held = wait,
                        !.cmd = IF wait THEN "WAITSSL" ELSE "NONE"]
        [] s.cmd = "LIST" -> [s1 EXCEPT !.listing = TRUE, !.cmd = "NONE"]
        [] OTHER -> [s1 EXCEPT !.cmd = "NONE"]

LocalData(s) ==
  CASE s.ready = 1 -> Begin(s)
    [] s.ready = 0 /\ s.host ->
         [s EXCEPT !.ready = 1, !.host = FALSE, !.data = "connecting", !.muted = FALSE]
    [] s.ready = 0 /\ ~s.host /\ s.cmd = "WAITSSL" /\ s.prot /\ s.file # "null" ->
         [s EXCEPT !.ready = 1, !.held = FALSE]
    [] OTHER -> [s EXCEPT !.ready = 1]

Begins(s) == s.ready = 1 /\ s.cmd \in {"STOR", "RETR", "LIST"}

\* LION_CONNECTION_CONNECTED of the data connection.
Connected(s) ==
  IF s.prot THEN [s EXCEPT !.data = "tls"] ELSE LocalData([s EXCEPT !.data = "up"])

\* LION_CONNECTION_CLOSED and LION_CONNECTION_LOST: the file is closed too.
DataGone(s) == [s EXCEPT !.data = "null", !.file = "null", !.held = FALSE, !.listing = FALSE]

Says(s, code) == IF s.muted THEN replies ELSE Append(replies, code)

-----------------------------------------------------------------------------
(* The session. *)

\* PROT as the transfer needs it, then PASV or PORT.
Start(j) ==
  /\ pc = "idle" /\ replies = <<>> /\ jobs < MaxJobs
  /\ jobs' = jobs + 1 /\ job' = j /\ began' = FALSE
  /\ odd' = IF ~j.passive /\ server.cmd \in {"LIST", "STOR", "RETR"} THEN {"stale"} ELSE {}
  /\ server' = [server EXCEPT !.prot = j.secure]
  /\ pipe' = <<IF j.passive THEN "PASV" ELSE "PORT">> /\ pc' = "227"
  /\ UNCHANGED <<onRest, replies>>

\* session_rest: REST 0 is sent only after a REST that was not.
Rest ==
  /\ pc = "350"
  /\ IF job.off = 1 \/ onRest
     THEN pipe' = <<"REST">> /\ pc' = "350_sent"
     ELSE pipe' = <<job.kind>> /\ pc' = "150"
  /\ onRest' = (job.off = 1)
  /\ UNCHANGED <<server, job, replies, jobs, began, odd>>

Transfer ==
  /\ pc = "150_ready"
  /\ pipe' = <<job.kind>> /\ pc' = "150"
  /\ UNCHANGED <<server, job, onRest, replies, jobs, began, odd>>

\* The replies are taken in order, whatever they were meant for.
Take ==
  /\ replies # <<>> /\ pc \notin {"350", "150_ready"} /\ pipe = <<>>
  /\ replies' = Tail(replies)
  /\ LET code == Head(replies)
     IN  pc' = CASE pc = "227" -> IF code = "550" THEN "idle" ELSE "350"
                 [] pc = "350_sent" -> IF code = "550" THEN "idle" ELSE "150_ready"
                 [] pc = "150" -> IF code = "150" THEN "226" ELSE "idle"
                 [] pc \in {"226", "225"} -> "idle"
                 [] pc = "idle" -> "idle"
  /\ UNCHANGED <<server, job, onRest, pipe, jobs, began, odd>>

\* The other side of the transfer was refused: ABOR, which forcebusy holds back
\* until the transfer is answered.
SendAbor ==
  /\ pc = "idle" /\ replies = <<>> /\ job.kind \in {"STOR", "RETR"}
  /\ pipe' = <<"ABOR">> /\ pc' = "225"
  /\ UNCHANGED <<server, job, onRest, replies, jobs, began, odd>>

-----------------------------------------------------------------------------
(* The commands, as the server reads them. *)

Reads(cmd) == pipe = <<cmd>> /\ pipe' = <<>> /\ UNCHANGED <<engine, odd>>

\* Mutant: the count of the transfer before is kept.
CmdPasvKept ==
  /\ Reads("PASV")
  /\ server' = [server EXCEPT !.host = FALSE, !.data = "listen", !.muted = FALSE]
  /\ replies' = Append(replies, "227")
  /\ UNCHANGED began

CmdPasv ==
  /\ Reads("PASV")
  /\ server' = [server EXCEPT !.ready = 0, !.host = FALSE, !.data = "listen", !.muted = FALSE]
  /\ replies' = Append(replies, "227")
  /\ UNCHANGED began

CmdPort ==
  /\ Reads("PORT")
  /\ server' = LocalData([server EXCEPT !.host = TRUE])
  /\ replies' = Append(replies, "200")
  /\ began' = Begins(server)

CmdRest ==
  /\ Reads("REST")
  /\ server' = [server EXCEPT !.rest = job.off]
  /\ replies' = Append(replies, "350")
  /\ UNCHANGED began

\* LIST, STOR and RETR are answered 150 whether they begin or not.
CmdTransfer ==
  /\ Reads(job.kind)
  /\ server' = LocalData([server EXCEPT !.cmd = job.kind])
  /\ began' = Begins([server EXCEPT !.cmd = job.kind])
  /\ replies' = Append(replies, "150")

CmdAbor ==
  /\ Reads("ABOR")
  /\ server' = IF server.data = "null" THEN server
               ELSE DataGone([server EXCEPT !.muted = TRUE])
  /\ replies' = Append(replies, "225")
  /\ UNCHANGED began

-----------------------------------------------------------------------------
(* The data connection.  A peer with which the server connects, or that       *)
(* connects, before the transfer command is read is early.                    *)

Early ==
  IF ~job.passive /\ (pc \notin {"150", "226"} \/ pipe # <<>>) THEN odd \cup {"early"} ELSE odd

Connect ==
  /\ server.data \in {"listen", "connecting"}
  /\ server' = Connected(server)
  /\ began' = (began \/ (~server.prot /\ Begins(server)))
  /\ odd' = Early
  /\ UNCHANGED <<engine, pipe, replies>>

Secured ==
  /\ server.data = "tls"
  /\ server' = LocalData([server EXCEPT !.data = "secure"])
  /\ began' = (began \/ Begins(server))
  /\ odd' = Early
  /\ UNCHANGED <<engine, pipe, replies>>

\* Nothing is done about a negotiation that fails.
SecureFailed ==
  /\ server.data = "tls"
  /\ server' = [server EXCEPT !.data = "failed"]
  /\ odd' = odd \cup {"insecure"}
  /\ UNCHANGED <<engine, pipe, replies, began>>

\* The peer is through with the data, or will not have them.  In the middle of
\* the negotiation that is a failure or a loss.
PeerCloses ==
  /\ server.data \in {"up", "secure", "failed"} /\ pc = "226"
  /\ server' = DataGone(server)
  /\ replies' = Says(server, "226")
  /\ UNCHANGED <<engine, pipe, began, odd>>

DataLost ==
  /\ server.data \in {"connecting", "tls", "up", "secure", "failed"} /\ pc = "226"
  /\ server' = DataGone(server)
  /\ replies' = Says(server, "550")
  /\ UNCHANGED <<engine, pipe, began, odd>>

-----------------------------------------------------------------------------
(* The file, or the listing. *)

FileOpen ==
  /\ server.file = "opening"
  /\ server' = [server EXCEPT !.file = "open", !.at = server.rest, !.rest = 0]
  /\ UNCHANGED <<engine, pipe, replies, began, odd>>

\* Mutant: the data connection that is closed answers too.
FileFailedLoud ==
  /\ server.file # "null"
  /\ server' = DataGone(server)
  /\ replies' = IF server.data = "null" THEN replies
                ELSE Append(Says(server, "226"), "550")
  /\ UNCHANGED <<engine, pipe, began, odd>>

\* Mutant: the connection is closed and nothing is answered.
FileFailedSilent ==
  /\ server.file # "null"
  /\ server' = DataGone([server EXCEPT !.muted = (server.data # "null")])
  /\ UNCHANGED <<engine, pipe, replies, began, odd>>

\* It cannot be opened, or written or read further.
FileFailed ==
  /\ server.file # "null"
  /\ server' = DataGone([server EXCEPT !.muted = (server.data # "null")])
  /\ replies' = IF server.data = "null" THEN replies ELSE Append(replies, "550")
  /\ UNCHANGED <<engine, pipe, began, odd>>

\* A file that is retrieved comes to its end, and so does the connection.
FileEnd ==
  /\ server.file = "open" /\ job.kind = "RETR" /\ ~server.held
  /\ server.data \in {"up", "secure", "failed", "connecting"}
  /\ server' = DataGone(server)
  /\ replies' = Says(server, "226")
  /\ UNCHANGED <<engine, pipe, began, odd>>

ListEnd ==
  /\ server.listing /\ server.data \in {"up", "connecting"}
  /\ server' = DataGone(server)
  /\ replies' = Says(server, "226")
  /\ UNCHANGED <<engine, pipe, began, odd>>

\* A listing that fails is answered, and its connection answers again.
ListFailed ==
  /\ server.listing /\ server.data \in {"up", "connecting"}
  /\ server' = DataGone(server)
  /\ replies' = Append(replies, "550") \o (IF server.muted THEN <<>> ELSE <<"226">>)
  /\ odd' = odd \cup {"twice"}
  /\ UNCHANGED <<engine, pipe, began>>

-----------------------------------------------------------------------------

SessionStep == (\E j \in Job : Start(j)) \/ Rest \/ Transfer \/ Take \/ SendAbor
Command == CmdPasv \/ CmdPort \/ CmdRest \/ CmdTransfer \/ CmdAbor
DataEvent == Connect \/ Secured \/ SecureFailed \/ PeerCloses \/ DataLost
FileEvent == FileOpen \/ FileFailed \/ FileEnd \/ ListEnd \/ ListFailed

Next == SessionStep \/ Command \/ DataEvent \/ FileEvent

Spec == Init /\ [][Next]_vars

\* The engine and the server go on, the peer connects and in the end closes,
\* and the helper ends its listing.
Fairness ==
  /\ WF_vars(Rest \/ Transfer \/ Take) /\ WF_vars(Command)
  /\ WF_vars(Connect) /\ WF_vars(Secured \/ SecureFailed) /\ WF_vars(PeerCloses)
  /\ WF_vars(FileOpen \/ FileFailed) /\ WF_vars(ListEnd \/ ListFailed)

FairSpec == Spec /\ Fairness

-----------------------------------------------------------------------------
(* Properties. *)

\* Every variable keeps its type.
TypeOK ==
  /\ server \in Server /\ job \in Job \cup {NoJob} /\ onRest \in BOOLEAN
  /\ pc \in {"idle", "227", "350", "350_sent", "150_ready", "150", "226", "225"}
  /\ Len(pipe) <= 1 /\ Len(replies) <= 3 /\ jobs \in 0 .. MaxJobs /\ began \in BOOLEAN
  /\ odd \subseteq {"early", "insecure", "twice", "stale"}

\* A transfer is answered once: what the session takes for the reply to a
\* command is one.  Two replies to a failed listing are the exception.
InStep ==
  /\ TypeOK
  /\ "twice" \notin odd =>
       /\ Len(replies) <= 2 /\ (Len(replies) = 2 => replies[1] = "150" /\ pc = "150")
       /\ (replies # <<>> => pc # "idle")
       /\ (pc = "225" /\ replies # <<>> => replies[Len(replies)] = "225" \/ pipe # <<>>)

\* "226 Transfer complete" is said of a transfer that was begun, unless its
\* negotiation failed or its PORT was connected before the command came.
CompleteIsReal ==
  \A i \in DOMAIN replies :
    replies[i] = "226" /\ odd \subseteq {"twice"} => began

\* A file is read or written from where this transfer asked for.
OffsetRight == server.file = "open" /\ "stale" \notin odd => server.at = job.off

\* Nothing of a file goes over a connection that PROT P has yet to secure.
NothingPlain ==
  server.file = "open" /\ job.kind = "RETR" /\ ~server.held /\ job.secure /\ "stale" \notin odd
    => server.data \in {"secure", "null"}

\* What is transferred goes from the right place and over the right connection.
TransferRight == OffsetRight /\ NothingPlain

\* A transfer is answered in the end.
Answered == pc = "150" ~> pc = "idle"
=============================================================================
