------------------------------- MODULE Commands -------------------------------
(***************************************************************************)
(* A user and one of its sessions: the commands of the API that act on a   *)
(* server (engine/command2.c), what the manager makes of them              *)
(* (engine/manager.c), the answers (handler_withuser of engine/handler.c), *)
(* and the listings whose entries, numbered by their place, later commands *)
(* may name by FID (engine/session.c, engine/data.c).  Nothing makes a     *)
(* user wait for an answer before it gives the next command.               *)
(*                                                                         *)
(* A path is the sequence of its names, after "." if it is relative.  The  *)
(* commands with which a listing sets its mode are those of Session.tla    *)
(* and are left out.                                                       *)
(***************************************************************************)
EXTENDS Integers, Sequences, SequencesExt

CONSTANT MaxAsks  \* bound: commands the user gives

ASSUME CommandsAssumption == MaxAsks \in Nat

Kind == {"QUOTE", "CWD", "PWD", "SIZE", "DELE", "MKD", "RMD", "SITE", "MDTM", "REN", "DIRLIST"}

\* The server: two directories, of which one holds the other, and a file whose
\* name is not the same when it is decoded.
Top == <<>>
Sub == <<"sub">>
Contents(dir) == IF dir = Top THEN {<<>>, <<"sub">>} ELSE {<<>>, <<"f+">>}

Name == {".", "sub", "f+", "f ", "own"}
Path == Seq(Name)
None == <<"none">>

\* "./", where a session begins; an entry that is listed there has it too.
Here == <<".">>
Relative(path) == path # <<>> /\ path[1] = "."

\* What a server that is in dir takes a path for.
Resolve(dir, path) == IF Relative(path) THEN dir \o Tail(path) ELSE path

\* The path that a user spells out in its commands on files, and the FIDs of
\* entries; 0 stands for a path.
Own == <<"own">>
Fid == 0 .. 2

\* misc_url_decode.
Decode(path) == [i \in DOMAIN path |-> IF path[i] = "f+" THEN "f " ELSE path[i]]

\* An entry of a listing: the fullpath it is given, and the one that it has.
Entry == [path: Path, real: Path]

\* A command of the session; meant is the file that the user has been shown.
Op == {"QUOTE", "CWD", "PWD", "pwd", "SIZE", "DELE", "MKD", "RMD", "SITE", "MDTM",
       "RNFR", "RNTO", "PASV", "LIST"}
Command == [op: Op, arg: Path, meant: Path]

\* A reply: "near" is a 2xx to CWD that is not 250; the server has gone there.
\* busy is forcebusy, from the 150 of a listing to its 226; data says that
\* data_handle is set, and then it is the newest connection; reply is
\* files_reply_id.
Code == {"ok", "near", "fail"}
Session ==
  [cmdq: Seq(Command), isidle: BOOLEAN, busy: BOOLEAN, data: BOOLEAN,
   pwd: Path, saved: Path \cup {None}, files: Seq(Entry), reply: {"none", "user", "queue"}]

\* A data connection, with the lines that the server still sends on it.
Connection == [reads: BOOLEAN, dir: Path, lines: UNION {Contents(d) : d \in {Top, Sub}}]

VARIABLES
  up,       \* the manager has a session
  s,
  cwd,      \* where the server is
  conns,    \* the data connections, the newest last
  rnfr,     \* MANAGER_USERFLAG_RNFR_OK
  told,     \* the listing that the user was shown last
  owes,     \* answers that the user still waits for, of each kind
  asks,
  odd       \* what happened that the user had better not have done

vars == <<up, s, cwd, conns, rnfr, told, owes, asks, odd>>

\* The server puts the session somewhere; session_new says "./", and of <local>
\* that it is the top.
Init ==
  /\ up = TRUE /\ cwd \in {Top, Sub} /\ conns = <<>> /\ rnfr = FALSE /\ told = <<>>
  /\ \E pwd \in {Here, Top} :
       s = [cmdq |-> <<>>, isidle |-> TRUE, busy |-> FALSE, data |-> FALSE,
            pwd |-> pwd, saved |-> None, files |-> <<>>, reply |-> "none"]
  /\ owes = [k \in Kind |-> 0] /\ asks = 0
  /\ odd = IF s.pwd \in {Here, cwd} THEN {} ELSE {"home"}

-----------------------------------------------------------------------------
(* The session. *)

Restart(r) == IF r.busy \/ ~r.isidle \/ r.cmdq = <<>> THEN r ELSE [r EXCEPT !.isidle = FALSE]

CmdqNew(r, cmd) == Restart([r EXCEPT !.cmdq = Append(@, cmd)])
Cmd(op) == [op |-> op, arg |-> Own, meant |-> Own]

\* session_getfid: the entry at that place of the list as it is now.
GetFid(fid) == IF fid = 0 THEN Own ELSE s.files[fid].path
Shown(fid) ==
  IF fid = 0 THEN Own ELSE IF fid \in DOMAIN told THEN told[fid].real ELSE s.files[fid].path

\* session_cwd: a session that is there, or was told to go there, is not sent, if
\* the path is absolute.
IsIn(r, path) == ~Relative(path) /\ path \in {r.pwd, r.saved}
SendCwd(r, path, meant) ==
  CmdqNew([r EXCEPT !.saved = path], [op |-> "CWD", arg |-> path, meant |-> meant])

\* session_dirlist: the files are released at once, the commands queued.
SendList(r) ==
  CmdqNew(CmdqNew([r EXCEPT !.files = <<>>, !.reply = "user"], Cmd("PASV")), Cmd("LIST"))

-----------------------------------------------------------------------------
(* The commands of the user. *)

Gives(kind, r) ==
  /\ up /\ asks < MaxAsks
  /\ asks' = asks + 1
  /\ s' = r
  /\ owes' = [owes EXCEPT ![kind] = @ + 1]
  /\ UNCHANGED <<up, cwd, conns, rnfr>>

Known(fid) == fid = 0 \/ fid \in DOMAIN s.files

\* A FID while entries arrive that the user has not been shown.
Early(fid) == IF fid # 0 /\ conns # <<>> THEN {"early"} ELSE {}
Coded(path) == IF Decode(path) # path THEN {"coded"} ELSE {}

\* A relative path behind a CWD that is not answered.
Behind(path) ==
  IF Relative(path) /\ (\E i \in DOMAIN s.cmdq : s.cmdq[i].op = "CWD") THEN {"hurry"} ELSE {}

OddFid(fid) == Early(fid) \cup Behind(GetFid(fid))

OnFile(op, fid) ==
  CmdqNew(s, [op |-> op, arg |-> GetFid(fid), meant |-> Shown(fid)])

Quote ==
  /\ Gives("QUOTE", CmdqNew(s, Cmd("QUOTE")))
  /\ UNCHANGED <<told, odd>>

Pwd ==
  /\ Gives("PWD", CmdqNew(s, Cmd("PWD")))
  /\ UNCHANGED <<told, odd>>

Mkd ==
  /\ Gives("MKD", CmdqNew(s, Cmd("MKD")))
  /\ UNCHANGED <<told, odd>>

Site ==
  /\ Gives("SITE", CmdqNew(s, Cmd("SITE")))
  /\ UNCHANGED <<told, odd>>

Size(fid) ==
  /\ Known(fid) /\ Gives("SIZE", OnFile("SIZE", fid))
  /\ odd' = odd \cup OddFid(fid)
  /\ UNCHANGED told

Rmd(fid) ==
  /\ Known(fid) /\ Gives("RMD", OnFile("RMD", fid))
  /\ odd' = odd \cup OddFid(fid)
  /\ UNCHANGED told

Mdtm(fid) ==
  /\ Known(fid) /\ Gives("MDTM", OnFile("MDTM", fid))
  /\ odd' = odd \cup OddFid(fid)
  /\ UNCHANGED told

\* The manager decodes the path, that of a FID too.
Dele(fid) ==
  /\ Known(fid)
  /\ Gives("DELE", CmdqNew(s, [op |-> "DELE", arg |-> Decode(GetFid(fid)),
                               meant |-> Shown(fid)]))
  /\ odd' = odd \cup OddFid(fid) \cup Coded(GetFid(fid))
  /\ UNCHANGED told

\* RNFR and RNTO are queued together.
Ren(fid) ==
  /\ Known(fid) /\ Gives("REN", CmdqNew(OnFile("RNFR", fid), Cmd("RNTO")))
  /\ odd' = odd \cup OddFid(fid)
  /\ UNCHANGED told

\* CWD is answered at once when it would change nothing.
Cwd(path, meant, coded) ==
  /\ IF IsIn(s, path)
     THEN /\ up /\ asks < MaxAsks
          /\ asks' = asks + 1
          /\ UNCHANGED <<up, s, cwd, conns, rnfr, owes>>
     ELSE Gives("CWD", SendCwd(s, path, meant))
  /\ odd' = odd \cup coded \cup IF s.cmdq # <<>> \/ conns # <<>> THEN {"hurry"} ELSE {}
  /\ UNCHANGED told

CwdFid(fid) ==
  /\ fid \in DOMAIN s.files
  /\ Cwd(Decode(GetFid(fid)), Shown(fid), Coded(GetFid(fid)))

\* Answered from the cache, if CACHEOK allows it and the session made the last
\* listing for the user, or with a listing, which needs to know where it is made.
Dirlist(cacheok) ==
  IF cacheok /\ s.files # <<>>
  THEN /\ up /\ asks < MaxAsks
       /\ asks' = asks + 1
       /\ IF s.reply = "user"
          THEN told' = s.files /\ UNCHANGED owes
          ELSE owes' = [owes EXCEPT !["DIRLIST"] = @ + 1] /\ UNCHANGED told
       /\ UNCHANGED <<up, s, cwd, conns, rnfr, odd>>
  ELSE /\ Gives("DIRLIST", SendList(s))
       /\ odd' = odd \cup Behind(s.saved)
       /\ UNCHANGED told

-----------------------------------------------------------------------------
(* Replies. *)

\* Mutant: a CWD that failed is remembered.
CwdReplyKept(r, ok) ==
  IF ok
  THEN [r EXCEPT !.pwd = IF r.saved # None THEN r.saved ELSE @, !.files = <<>>,
                 !.cmdq = Append(@, Cmd("pwd"))]
  ELSE r

\* SESSION_ST_RELAY_CWD: only 250 is right.
CwdReply(r, ok) ==
  IF ok
  THEN [r EXCEPT !.pwd = IF r.saved # None THEN r.saved ELSE @, !.files = <<>>,
                 !.cmdq = Append(@, Cmd("pwd"))]
  ELSE [r EXCEPT !.saved = None]

\* session_pwd_reply, of a user's PWD and of the one that follows CWD.
PwdReply(r, ok) ==
  [r EXCEPT !.pwd = IF ok THEN cwd ELSE IF r.saved # None THEN r.saved ELSE @]

\* Mutant: RNTO is answered whatever became of RNFR.
AnswerBoth(op, ok) ==
  CASE op \in {"pwd", "PASV", "LIST"} -> owes
    [] op = "RNFR" -> IF ok THEN owes ELSE [owes EXCEPT !["REN"] = @ - 1]
    [] op = "RNTO" -> [owes EXCEPT !["REN"] = @ - 1]
    [] OTHER -> [owes EXCEPT ![op] = @ - 1]

\* What handler_withuser tells the user: of RNFR its failure, of RNTO anything
\* once an RNFR has been right.
Answer(op, ok) ==
  CASE op \in {"pwd", "PASV", "LIST"} -> owes
    [] op = "RNFR" -> IF ok THEN owes ELSE [owes EXCEPT !["REN"] = @ - 1]
    [] op = "RNTO" -> IF rnfr THEN [owes EXCEPT !["REN"] = @ - 1] ELSE owes
    [] OTHER -> [owes EXCEPT ![op] = @ - 1]

\* What a reply does to the session.
Digest(r, cmd, ok) ==
  CASE cmd.op = "CWD" -> CwdReply(r, ok)
    [] cmd.op \in {"PWD", "pwd"} -> PwdReply(r, ok)
    [] cmd.op = "PASV" -> [r EXCEPT !.data = TRUE]
    [] cmd.op = "LIST" -> [r EXCEPT !.busy = TRUE]
    [] OTHER -> r

\* The oldest command is answered; a listing that is refused costs the session.
Reply(code) ==
  /\ up /\ ~s.isidle
  /\ LET cmd == Head(s.cmdq)
         ok == code = "ok"
         goes == cmd.op = "CWD" /\ code # "fail"
     IN  /\ cmd.op \in {"PASV", "LIST"} => ok
         /\ code = "near" => cmd.op = "CWD"
         /\ goes => Resolve(cwd, cmd.arg) \in {Top, Sub}
         /\ s' = Restart([Digest([s EXCEPT !.cmdq = Tail(@)], cmd, ok) EXCEPT !.isidle = TRUE])
         /\ cwd' = IF goes THEN Resolve(cwd, cmd.arg) ELSE cwd
         /\ rnfr' = (rnfr \/ (cmd.op = "RNFR" /\ ok))
         /\ owes' = Answer(cmd.op, ok)
         /\ odd' = odd \cup (IF cmd.op = "RNFR" /\ ~ok /\ rnfr THEN {"renamed"} ELSE {})
                       \cup (IF cmd.op = "PASV" /\ conns # <<>> THEN {"overlap"} ELSE {})
                       \cup (IF code = "near" THEN {"near"} ELSE {})
                       \cup (IF cmd.op \in {"PWD", "pwd"} /\ ~ok /\ Relative(s.saved)
                             THEN {"unsaid"} ELSE {})
         /\ CASE cmd.op = "PASV" ->
                   conns' = Append(conns, [reads |-> FALSE, dir |-> cwd, lines |-> <<>>])
              [] cmd.op = "LIST" /\ s.data ->
                   \E names \in Contents(cwd) :
                     conns' = [conns EXCEPT ![Len(conns)] =
                                 [reads |-> TRUE, dir |-> cwd, lines |-> names]]
              [] OTHER -> UNCHANGED conns
  /\ UNCHANGED <<up, told, asks>>

\* 226 to a listing, whether or not the data has been read.
ListEnd ==
  /\ up /\ s.busy
  /\ s' = Restart([s EXCEPT !.busy = FALSE])
  /\ UNCHANGED <<up, cwd, conns, rnfr, told, owes, asks, odd>>

\* A line of a listing: the entry is where the session believes to be.
Parse(i) ==
  /\ up /\ conns[i].reads /\ conns[i].lines # <<>>
  /\ LET name == Head(conns[i].lines)
     IN  s' = [s EXCEPT !.files = Append(@, [path |-> Append(s.pwd, name),
                                             real |-> Append(conns[i].dir, name)])]
  /\ conns' = [conns EXCEPT ![i].lines = Tail(@)]
  /\ UNCHANGED <<up, cwd, rnfr, told, owes, asks, odd>>

\* The server has closed the data connection: the user is shown the list.
DataClosed(i) ==
  /\ up /\ conns[i].reads /\ conns[i].lines = <<>>
  /\ conns' = RemoveAt(conns, i)
  /\ s' = [s EXCEPT !.data = FALSE]
  /\ told' = s.files
  /\ owes' = [owes EXCEPT !["DIRLIST"] = @ - 1]
  /\ UNCHANGED <<up, cwd, rnfr, asks, odd>>

\* GO, and QGRAB when the queue is idle again: it has left the session elsewhere,
\* with a listing of its own.
Lent ==
  /\ up /\ s.isidle /\ s.cmdq = <<>> /\ ~s.busy /\ conns = <<>> /\ "lent" \notin odd
  /\ cwd' \in {Top, Sub}
  /\ \E names \in Contents(cwd') :
       s' = [s EXCEPT !.pwd = cwd', !.saved = cwd', !.reply = "queue",
                      !.files = [i \in DOMAIN names |->
                        [path |-> Append(cwd', names[i]), real |-> Append(cwd', names[i])]]]
  /\ odd' = odd \cup {"lent"}
  /\ UNCHANGED <<up, conns, rnfr, told, owes, asks>>

\* DISCONNECT: no further answer is to be expected.
Lost ==
  /\ up
  /\ up' = FALSE
  /\ owes' = [k \in Kind |-> 0]
  /\ UNCHANGED <<s, cwd, conns, rnfr, told, asks, odd>>

-----------------------------------------------------------------------------

UserStep ==
  \/ Quote \/ Pwd \/ Mkd \/ Site
  \/ \E fid \in Fid :
       Size(fid) \/ Rmd(fid) \/ Mdtm(fid) \/ Dele(fid) \/ Ren(fid) \/ CwdFid(fid)
  \/ \E path \in {Top, Sub} : Cwd(path, path, {})
  \/ \E cacheok \in BOOLEAN : Dirlist(cacheok)

SessionStep == (\E code \in Code : Reply(code)) \/ ListEnd \/ Lost \/ Lent

DataStep == \E i \in DOMAIN conns : Parse(i) \/ DataClosed(i)

Next == UserStep \/ SessionStep \/ DataStep

Spec == Init /\ [][Next]_vars

-----------------------------------------------------------------------------
(* Properties. *)

\* Every variable keeps its type.
TypeOK ==
  /\ up \in BOOLEAN /\ s \in Session /\ cwd \in {Top, Sub} /\ rnfr \in BOOLEAN
  /\ conns \in Seq(Connection)
  /\ told \in Seq(Entry) /\ owes \in [Kind -> Int] /\ asks \in 0 .. MaxAsks
  /\ odd \subseteq {"home", "early", "coded", "hurry", "renamed", "overlap", "lent", "near",
                   "unsaid"}

\* A command that names a file by its FID is sent for the file that the user was
\* shown under it, as the server takes its path, and what a session has listed is
\* where its path says, if
\*   - it began where it believes to be;
\*   - its user gives no CWD before the answers to what it asked, no FID during a
\*     listing, and, behind a CWD, neither a FID whose path is relative nor, if
\*     that of the CWD is, DIRLIST;
\*   - no queue had the session meanwhile;
\*   - the server answers CWD with 250 or refuses it, and does not refuse PWD after
\*     a CWD to a relative path.
\* (Of a name that decoding changes DELE and CWD make another.)
RightFile ==
  odd \cap {"home", "hurry", "early", "lent", "coded", "near", "unsaid"} = {} =>
    /\ ~s.isidle => Resolve(cwd, Head(s.cmdq).arg) = Head(s.cmdq).meant
    /\ \A i \in DOMAIN s.files : Resolve(cwd, s.files[i].path) = s.files[i].real

\* A command is answered once: never twice, and when the session has nothing
\* left to do nobody waits for it.  Not so when a REN fails after one that did
\* not, when a listing overtakes the data of the one before, and when DIRLIST is
\* answered with what a queue has listed.
AnsweredOnce ==
  /\ TypeOK
  /\ odd \cap {"renamed", "overlap", "lent"} = {} =>
       \A k \in Kind :
         /\ owes[k] >= 0
         /\ s.cmdq = <<>> /\ ~s.busy /\ ~(\E i \in DOMAIN conns : conns[i].reads)
              => owes[k] = 0
=============================================================================
