------------------------------- MODULE Session -------------------------------
(***************************************************************************)
(* One FTP control connection (engine/session.c) after its login: the      *)
(* command queue that sends one command at a time, the flags that remember *)
(* what the server was last told, and what a reply does to them.           *)
(*                                                                         *)
(* The module has no variables.  A session is a record and every function  *)
(* of session.c that changes one is an operator from record to record; the *)
(* modules that own sessions decide when each is called.  Commands carry   *)
(* the event that their reply posts to the session's handler.              *)
(***************************************************************************)
EXTENDS Naturals, Sequences

CONSTANTS
  Dirs,        \* remote directories the items of the queue live in
  Parent,      \* a directory above one of Dirs that MKD may have to create
  Root,        \* where the server puts a session after the login
  Refusals     \* the replies servers give but the one asked for, a subset of Refusal below

\* "-" is the model's NULL, no directory.
ASSUME DirsAssumption ==
  /\ Parent \notin Dirs /\ Root \notin Dirs /\ Parent # Root
  /\ "-" \notin Dirs \cup {Parent, Root}

Path == Dirs \cup {Parent, Root}
YesNoAuto == {"YES", "NO", "AUTO"}

\* What the site table (sites.h) and FEAT say of a server.
Site ==
  [ssl: BOOLEAN, ccsn: BOOLEAN, sscn: BOOLEAN, pretFeat: BOOLEAN, local: BOOLEAN,
   dataTLS: YesNoAuto, fxpTLS: YesNoAuto, pret: YesNoAuto, passive: YesNoAuto,
   fxpPassive: YesNoAuto, resume: YesNoAuto, resumeLast: YesNoAuto,
   skipEmpty: YesNoAuto, desiredType: YesNoAuto]

\* The STATUS_ON_* bits whose change costs a command.
Flag == {"BINARY", "CCSN", "SSCN", "PRIVACY", "REST"}

\* QUEUE_EVENT_* of handler.h, less the QUEUE_EVENT_ prefix; "none" is no event.
Event ==
  {"none", "PHASE_1_SRC_CWD", "PHASE_1_DST_CWD", "PHASE_1_DST_MKD",
   "PHASE_1_DST_CWD2", "PHASE_2_SRC_SECURE", "PHASE_2_DST_SECURE",
   "PHASE_2_DISABLE", "PHASE_3_SRC_PROT", "PHASE_3_DST_PROT", "PHASE_4_TYPE",
   "PHASE_5_SRC_SIZE", "PHASE_5_DST_SIZE", "PHASE_6_PRET", "PHASE_7_PASV",
   "PHASE_8_PORT", "PHASE_9_SRC_REST", "PHASE_9_DST_REST", "PHASE_9_REST2",
   "PHASE_10_STOR", "PHASE_11_RETR", "PHASE_11_ABOR", "PHASE_12_NOOP",
   "DIRECTORY_PHASE_1_SRC_CWD", "DIRECTORY_PHASE_1_DST_CWD",
   "DIRECTORY_PHASE_2_DST_MKD"}

\* The two-reply commands remember the event of their second reply apart.
ReplyId ==
  {"none", "PHASE_12_SRC_226", "PHASE_12_DST_226",
   "DIRECTORY_PHASE_2_SRC_DIRLIST", "DIRECTORY_PHASE_2_DST_DIRLIST"}

Op == {"ON", "OFF", "CWD", "PWD", "MKD", "SIZE", "PRET", "PASV", "PORT",
       "STOR", "RETR", "ABOR", "NOOP", "QUIT", "LIST"}

\* A command that changes a flag, that names a directory, or neither.
Command ==
  [op: {"ON", "OFF"}, arg: Flag, ev: Event] \cup [op: {"CWD", "MKD"}, arg: Path, ev: Event]
  \cup [op: Op \ {"ON", "OFF", "CWD", "MKD"}, arg: {"-"}, ev: Event]

\* "ok" is the code the command asks for, "soft" a 4xx, "fail" a 5xx; "near" is
\* any other 2xx, which handler.c but not session.c takes for that code, and
\* "130" the one code that session.c, but not handler.c, takes for a started
\* transfer.
Code == {"ok", "near", "soft", "fail", "130"}

\* A session's record: "here" says that its manager points to it, "login" that
\* SESSION_ST_IDLE was reached; "cwd" is where the server is and "prot" whether its
\* data connections are private, pwd and STATUS_ON_PRIVACY what the session believes
\* of them, saved_cwd where it was last told to go; forcebusy
\* holds exactly in the two states that wait for the end of a transfer, so it
\* needs no field of its own.
SessionRec ==
  [here: BOOLEAN, login: BOOLEAN, isidle: BOOLEAN,
   state: {"IDLE", "RELAY_226", "DATA_FINISH"},
   cmdq: Seq(Command), replyId: ReplyId, status: SUBSET Flag,
   cwd: Path, prot: BOOLEAN, pwd: Path, saved: Path \cup {"-"}, data: BOOLEAN,
   files: BOOLEAN]

NewSession ==
  [here |-> TRUE, login |-> FALSE, isidle |-> FALSE, state |-> "IDLE",
   cmdq |-> <<>>, replyId |-> "none", status |-> {}, cwd |-> Root,
   prot |-> FALSE, pwd |-> Root, saved |-> "-", data |-> FALSE, files |-> FALSE]

NoSession == [NewSession EXCEPT !.here = FALSE]

-----------------------------------------------------------------------------
(* The command queue. *)

ForceBusy(s) == s.state # "IDLE"

\* True of a session in the middle of a file transfer too: its 150 was a reply.
\* A listing waits for its end in a state below SESSION_ST_IDLE.
IsIdle(s) ==
  s.here /\ s.cmdq = <<>> /\ s.login /\ s.isidle /\ s.state # "DATA_FINISH"

Restart(s) ==
  IF ~s.here \/ ForceBusy(s) \/ ~s.isidle \/ s.cmdq = <<>>
  THEN s
  ELSE [s EXCEPT !.isidle = FALSE]

CmdqNew(s, cmd) ==
  IF s.here THEN Restart([s EXCEPT !.cmdq = Append(@, cmd)]) ELSE s

Cmd(op, ev) == [op |-> op, arg |-> "-", ev |-> ev]

\* Whether a call that was answered from the cache posts an IDLE event.
IdleEvent(s) == IsIdle(s) /\ s.replyId = "none"

LoggedIn(s) == Restart([s EXCEPT !.login = TRUE, !.isidle = TRUE])

-----------------------------------------------------------------------------
(* Commands that are sent only when they would change something. *)

Cached(s, flag, on) == (flag \in s.status) = on

SetFlag(s, flag, on, ev) ==
  IF Cached(s, flag, on)
  THEN s
  ELSE CmdqNew(s, [op |-> IF on THEN "ON" ELSE "OFF", arg |-> flag, ev |-> ev])

\* CCSN and SSCN are not even looked at on a site that has them switched off.
Allows(site, feature) ==
  site.dataTLS # "NO" /\ (site.dataTLS = "AUTO" => feature)

Ccsn(site, s, on, ev) ==
  IF Allows(site, site.ccsn) THEN SetFlag(s, "CCSN", on, ev) ELSE s

Sscn(site, s, on, ev) ==
  IF Allows(site, site.sscn) THEN SetFlag(s, "SSCN", on, ev) ELSE s

\* Mutant: the restart point of the file before is kept.
RestOnlyOn(s, on, ev) ==
  IF on
  THEN CmdqNew(s, [op |-> "ON", arg |-> "REST", ev |-> ev])
  ELSE s

\* A non-zero restart point is always sent.
Rest(s, on, ev) ==
  IF on
  THEN CmdqNew(s, [op |-> "ON", arg |-> "REST", ev |-> ev])
  ELSE SetFlag(s, "REST", FALSE, ev)

\* A session that has just been told to go somewhere counts as being there.
IsIn(s, dir) == dir \in {s.pwd, s.saved}

Cwd(s, dir, ev) ==
  IF IsIn(s, dir) THEN s
  ELSE CmdqNew([s EXCEPT !.saved = dir], [op |-> "CWD", arg |-> dir, ev |-> ev])

Stor(s) ==
  CmdqNew([s EXCEPT !.replyId = "PHASE_12_DST_226"], Cmd("STOR", "PHASE_10_STOR"))

Retr(s) ==
  CmdqNew([s EXCEPT !.replyId = "PHASE_12_SRC_226"], Cmd("RETR", "PHASE_11_RETR"))

WantsPret(site) == site.pret = "YES" \/ (site.pret = "AUTO" /\ site.pretFeat)

Pret(site, s, ev) == IF WantsPret(site) THEN CmdqNew(s, Cmd("PRET", ev)) ELSE s

\* The privacy a directory listing asks for: none of a local site, nothing of
\* a site without TLS, else what data_TLS says.
ListProt(site, s) ==
  IF site.local
  THEN SetFlag(s, "PRIVACY", FALSE, "none")
  ELSE IF site.ssl
       THEN SetFlag(s, "PRIVACY", site.dataTLS # "NO", "none")
       ELSE s

\* The commands of a listing.  TYPE and PROT are queued with a state's number
\* as their event, of which no handler knows.
Dirlist(site, s, id) ==
  LET s0 == [s EXCEPT !.replyId = id, !.files = FALSE]
      s1 == SetFlag(s0, "BINARY", site.desiredType = "YES", "none")
      s2 == Sscn(site, Ccsn(site, s1, FALSE, "none"), FALSE, "none")
      s3 == ListProt(site, Rest(s2, FALSE, "none"))
      s4 == Pret(site, s3, "none")
      s5 == CmdqNew(s4, Cmd(IF site.passive = "NO" THEN "PORT" ELSE "PASV", "none"))
  IN  CmdqNew(s5, Cmd("LIST", "none"))

-----------------------------------------------------------------------------
(* Replies. *)

\* What servers may refuse or answer otherwise, by the name of the command or of its
\* flag; "226" is the end of a transfer.
Key(cmd) == IF cmd.op \in {"ON", "OFF"} THEN cmd.arg ELSE cmd.op

Refusal ==
  ({"CWD", "MKD"} \X {"soft", "fail"}) \cup ({"STOR", "RETR"} \X {"130", "fail"})
  \cup ((Flag \cup {"SIZE", "PASV", "PORT", "LIST", "226"}) \X {"fail"})
  \cup ({"CWD", "BINARY", "CCSN", "SSCN", "PRIVACY"} \X {"near"})

\* The codes a server can answer a command with, as far as they matter.
Codes(cmd) == {"ok"} \cup {code \in Code : <<Key(cmd), code>> \in Refusals}

\* A listing that cannot be started costs the connection.
Closes(cmd, code) ==
  /\ cmd.ev = "none" /\ code # "ok"
  /\ cmd.op \in {"PASV", "PORT", "LIST"}

\* What the server did, whatever 2xx it says so with.
Obeys(s, cmd, code) ==
  IF code \notin {"ok", "near"} THEN s
  ELSE [s EXCEPT !.cwd = IF cmd.op = "CWD" THEN cmd.arg ELSE @,
                 !.prot = IF Key(cmd) = "PRIVACY" THEN cmd.op = "ON" ELSE @]

\* What the session makes of the reply.  Only the code asked for, 250 for CWD and 200
\* for a flag, is taken for success.
Noted(s, cmd, code) ==
  CASE cmd.op = "ON" /\ code = "ok" -> [s EXCEPT !.status = @ \cup {cmd.arg}]
    [] cmd.op = "OFF" /\ code = "ok" -> [s EXCEPT !.status = @ \ {cmd.arg}]
    [] cmd.op = "CWD" /\ code = "ok" ->
         [s EXCEPT !.pwd = IF s.saved # "-" THEN s.saved ELSE @, !.files = FALSE,
                   !.cmdq = Append(@, Cmd("PWD", "none"))]
    [] cmd.op = "CWD" /\ code # "ok" -> [s EXCEPT !.saved = "-"]
    [] cmd.op = "PWD" -> [s EXCEPT !.pwd = s.cwd]
    [] cmd.op \in {"STOR", "RETR"} /\ code \in {"ok", "130"} ->
         [s EXCEPT !.state = "RELAY_226"]
    [] cmd.op = "PASV" /\ cmd.ev = "none" -> [s EXCEPT !.data = TRUE]
    [] cmd.op = "PORT" /\ cmd.ev = "none" -> [s EXCEPT !.data = TRUE]
    [] cmd.op = "LIST" -> [s EXCEPT !.state = "DATA_FINISH"]
    [] OTHER -> s

\* What the reply to the oldest command does before the handler hears of it.
Digest(s, cmd, code) == Noted(Obeys(s, cmd, code), cmd, code)

\* What the handler queues, at most one command, of which a CWD is remembered.
Given(s, more) ==
  [s EXCEPT !.cmdq = @ \o more,
            !.saved = IF more # <<>> /\ more[1].op = "CWD" THEN more[1].arg ELSE @]

\* Mutant: the next command is not sent.
AnsweredNoRestart(s, code, more) ==
  LET cmd == Head(s.cmdq)
      s1  == Digest([s EXCEPT !.cmdq = Tail(@)], cmd, code)
  IN  [Given(s1, more) EXCEPT !.isidle = TRUE]

\* The reply is taken, the handler may queue more, and the next is sent.
Answered(s, code, more) ==
  LET cmd == Head(s.cmdq)
      s1  == Digest([s EXCEPT !.cmdq = Tail(@)], cmd, code)
  IN  Restart([Given(s1, more) EXCEPT !.isidle = TRUE])

\* The end of a file transfer: forcebusy is dropped, the queue not restarted.
TransferEnded(s) == [s EXCEPT !.state = "IDLE", !.replyId = "none"]

\* The end of a listing: forcebusy is dropped and the queue restarted.
ListEnded(s) == Restart([s EXCEPT !.state = "IDLE"])

=============================================================================
