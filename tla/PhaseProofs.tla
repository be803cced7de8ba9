------------------------------ MODULE PhaseProofs ------------------------------
(***************************************************************************)
(* What the phases of a file may take for granted of the phases before     *)
(* them, while the replies of two servers come in any order: what is in    *)
(* flight is of this phase, and at the transfer both sides agree on        *)
(* privacy and offset, are secure if that was demanded, and the            *)
(* destination is where the item wants it.                                 *)
(***************************************************************************)
EXTENDS QueueProofs

\* No user adds a STOP item, which would take the place of the file in transfer.
NoStops == \A t \in NewItems : t.type # "STOP"

\* No server refuses a directory with a 4xx.
NoSoft == <<"CWD", "soft">> \notin Refusals /\ <<"MKD", "soft">> \notin Refusals

\* No server answers a command with a 2xx but the one it asks for, which handler.c takes
\* for success and session.c does not.
ExactCodes == \A r \in Refusals : r[2] # "near"

\* A site that can be the TLS client is one where the engine may tell it to.
ClientsTold == \A p \in Side : TurnsClient(SiteOf[p]) => SiteOf[p].dataTLS # "NO"

-----------------------------------------------------------------------------
(* What may be unanswered in a phase. *)

\* Commands by their event and name, or by their event and the flag they change.
Named(evs, ops) == {c \in Command : c.ev \in evs /\ c.op \in ops}
Flags(evs, flag) == {c \in Command : c.ev \in evs /\ c.op \in {"ON", "OFF"} /\ c.arg = flag}

\* Phases that begin when every command is answered and send nothing.
Calm ==
  {"ACTIVE", "FILE_START", "FILE_PHASE_1_START", "FILE_PHASE_2_START",
   "FILE_PHASE_2_DISABLE", "FILE_PHASE_4_START", "FILE_PHASE_8_START",
   "FILE_PHASE_9_START", "FILE_PHASE_11_START", "FILE_PHASE_12_START"}

\* What the source and what the destination are told in phase 1.
Goes  == Named({"PHASE_1_SRC_CWD", "none"}, {"CWD", "PWD"})
GoesOrMakes ==
  Named({"PHASE_1_DST_CWD", "PHASE_1_DST_CWD2"}, {"CWD"}) \cup Named({"PHASE_1_DST_MKD"}, {"MKD"})
  \cup Named({"none"}, {"PWD"})

Asked(st, p) ==
  CASE st \in Calm -> {}
    [] st = "FILE_PHASE_1_IDLE" -> IF p = src THEN Goes ELSE GoesOrMakes
    [] st = "FILE_PHASE_2_WAIT" -> Named({"PHASE_2_SRC_SECURE", "PHASE_2_DST_SECURE"}, {"ON"})
    [] st = "FILE_PHASE_3_START" -> Named({"PHASE_2_DISABLE"}, {"OFF"})
    [] st = "FILE_PHASE_3_WAIT" -> Flags({"PHASE_3_SRC_PROT", "PHASE_3_DST_PROT"}, "PRIVACY")
    [] st = "FILE_PHASE_5_START" -> Flags({"PHASE_4_TYPE"}, "BINARY")
    [] st \in {"FILE_PHASE_5_REST_WAIT", "FILE_PHASE_6_START"} ->
         Named({"PHASE_5_SRC_SIZE", "PHASE_5_DST_SIZE"}, {"SIZE"})
    [] st = "FILE_PHASE_7_START" -> Named({"PHASE_6_PRET"}, {"PRET"})
    [] st = "FILE_PHASE_7_WAIT" -> Named({"PHASE_7_PASV"}, {"PASV"})
    [] st = "FILE_PHASE_8_WAIT" -> Named({"PHASE_8_PORT"}, {"PORT"})
    [] st = "FILE_PHASE_9_REST" -> Flags({"PHASE_9_SRC_REST", "PHASE_9_DST_REST"}, "REST")
    [] st = "FILE_PHASE_10_START" -> Flags({"PHASE_9_REST2"}, "REST")
    [] st = "FILE_PHASE_10_WAIT" -> Named({"PHASE_10_STOR"}, {"STOR"})
    [] st = "FILE_PHASE_11_WAIT" -> Named({"PHASE_11_RETR"}, {"RETR"})
    [] OTHER -> Command

FlightInv == \A p \in Side : sess[p].cmdq \in Seq(Asked(state, p))

-----------------------------------------------------------------------------
\* Phases after the privacy was told, after TLS was settled, after CWD
Private ==
  {"FILE_PHASE_4_START", "FILE_PHASE_5_START",
   "FILE_PHASE_5_REST_WAIT", "FILE_PHASE_6_START", "FILE_PHASE_7_START",
   "FILE_PHASE_7_WAIT", "FILE_PHASE_8_START", "FILE_PHASE_8_WAIT",
   "FILE_PHASE_9_START", "FILE_PHASE_9_REST", "FILE_PHASE_10_START",
   "FILE_PHASE_10_WAIT"} \cup Transferring
Settled == Private \cup {"FILE_PHASE_3_START", "FILE_PHASE_3_WAIT"}
Placed == (Settled \ ({"FILE_PHASE_10_WAIT"} \cup Transferring))
   \cup {"FILE_PHASE_2_START", "FILE_PHASE_2_WAIT", "FILE_PHASE_2_DISABLE"}

Demanded == \E p \in Side : Demands(SiteOf[p])

SecureInv ==
  /\ state = "FILE_PHASE_2_WAIT" =>
       secure \/ Failed \/ ~BothHere \/ \E p \in Side : sess[p].cmdq # <<>>
  /\ state \in Settled => (Demanded => secure)

PrivacyInv ==
  /\ state = "FILE_PHASE_3_WAIT" =>
       \A p \in Side : \A i \in DOMAIN sess[p].cmdq : sess[p].cmdq[i].op = IF secure THEN "ON" ELSE "OFF"
  /\ state = "FILE_PHASE_3_WAIT" /\ secure =>
       \A p \in Side : sess[p].here =>
         Failed \/ sess[p].cmdq # <<>> \/ "PRIVACY" \in sess[p].status
  /\ state \in Private /\ secure =>
       \A p \in Side : sess[p].here => "PRIVACY" \in sess[p].status

Agrees(p) == ("REST" \in sess[p].status) = Top.rest

Restarts(p) ==
  /\ state = "FILE_PHASE_9_REST" =>
       /\ \A i \in DOMAIN sess[p].cmdq : sess[p].cmdq[i].op = IF Top.rest THEN "ON" ELSE "OFF"
       /\ Failed \/ sess[p].cmdq # <<>> \/ Agrees(p)
  /\ state = "FILE_PHASE_10_START" => Failed \/ (Agrees(p) /\ sess[p].cmdq = <<>>)
  /\ state = "FILE_PHASE_10_WAIT" => Failed \/ Agrees(p)
  /\ state \in Transferring => Agrees(p)

RestartInv == \A p \in Side : sess[p].here => Restarts(p)

\* A command that moves a session, or makes a directory to be moved to.
Steers == {"PHASE_1_DST_CWD", "PHASE_1_DST_CWD2", "PHASE_1_DST_MKD"}
Moves(c) == c.op = "CWD" \/ c.ev \in Steers

\* A session was told one move at most, which it remembers.
Belief(s) ==
  /\ \A i, j \in DOMAIN s.cmdq : Moves(s.cmdq[i]) /\ Moves(s.cmdq[j]) => i = j
  /\ \A i \in DOMAIN s.cmdq : s.cmdq[i].op = "CWD" => s.saved = s.cmdq[i].arg
  /\ (\A i \in DOMAIN s.cmdq : s.cmdq[i].op # "CWD") => s.saved \in {"-", s.cwd}

BeliefInv == \A p \in Side : sess[p].here => Belief(sess[p])

\* A session is where it believes to be, and its server keeps the privacy it believes.
Exact(s) == s.pwd = s.cwd /\ (s.prot <=> "PRIVACY" \in s.status)

ExactInv == \A p \in Side : sess[p].here => Exact(sess[p])

\* Of the destination in phase 1: it is there, has failed, or is on its way.
Heading ==
  LET q == sess[Dst].cmdq
  IN  /\ (\A i \in DOMAIN q : ~Moves(q[i])) => Failed \/ sess[Dst].cwd = Top.dir
      /\ \A i \in DOMAIN q :
           /\ q[i].ev = "PHASE_1_DST_CWD" => q[i].arg = Top.dir
           /\ q[i].ev \in {"PHASE_1_DST_CWD2", "PHASE_1_DST_MKD"} => (store => mkd > 0)
           /\ q[i].ev = "PHASE_1_DST_CWD2" /\ mkd = 0 => q[i].arg = Top.dir

PlaceInv ==
  /\ state = "FILE_PHASE_1_IDLE" /\ sess[Dst].here => Heading
  /\ state \in Placed /\ sess[Dst].here => sess[Dst].cwd = Top.dir
  /\ state = "FILE_PHASE_10_WAIT" \/ state \in Transferring => wire.to = Top.id
-----------------------------------------------------------------------------
(* What the operators of Session leave of a session.                         *)

\* Where it is, what it was told and what it believes stay.
Same(s, r) ==
  /\ r.here = s.here /\ r.status = s.status /\ r.prot = s.prot
  /\ r.cwd = s.cwd /\ r.pwd = s.pwd /\ r.saved = s.saved

\* The second replies of a file.
Ends226 == {"none", "PHASE_12_SRC_226", "PHASE_12_DST_226"}

\* A session that is ready to send has sent what it was given.
Sent(s) == s.here /\ s.isidle => s.cmdq = <<>>

\* So do its login and the transfer it may be in; the second reply it waits
\* for is that of a file if it is a new one; outside a transfer what it is given
\* is sent.
Kept(s, r) ==
  /\ Same(s, r) /\ r.login = s.login /\ r.state = s.state /\ r.data = s.data
  /\ r.replyId = s.replyId \/ r.replyId \in Ends226
  /\ s.state = "IDLE" /\ Sent(s) => Sent(r)

\* Commands of C at most are added.
Adds(s, r, C) ==
  r \in SessionRec /\ Kept(s, r) /\ (s.cmdq \in Seq(C) => r.cmdq \in Seq(C))

\* session_cmdq_restart keeps the queue.
LEMMA RestartIs ==
  ASSUME NEW s \in SessionRec
  PROVE  /\ Restart(s) \in SessionRec /\ Kept(s, Restart(s))
         /\ Restart(s).cmdq = s.cmdq
<1>1. Restart(s) = s \/ Restart(s) = [s EXCEPT !.isidle = FALSE]
  BY DEF Restart
<1> QED
  BY <1>1, RestartType DEF Kept, Same, Sent, SessionRec

\* Outside a transfer nothing is left unsent.
LEMMA RestartSends ==
  ASSUME NEW s \in SessionRec, s.state = "IDLE"
  PROVE  Sent(Restart(s))
<1>1. CASE ~s.here \/ ~s.isidle \/ s.cmdq = <<>>
  BY <1>1 DEF Restart, Sent
<1>2. CASE s.here /\ s.isidle /\ s.cmdq # <<>>
  <2>1. Restart(s) = [s EXCEPT !.isidle = FALSE]
    BY <1>2 DEF Restart, ForceBusy
  <2> QED
    BY <2>1 DEF Sent, SessionRec
<1> QED
  BY <1>1, <1>2

\* session_cmdq_new appends to it.
LEMMA CmdqNewIs ==
  ASSUME NEW s \in SessionRec, NEW cmd \in Command
  PROVE  /\ CmdqNew(s, cmd) \in SessionRec /\ Kept(s, CmdqNew(s, cmd))
         /\ s.here => CmdqNew(s, cmd).cmdq = Append(s.cmdq, cmd)
         /\ ~s.here => CmdqNew(s, cmd) = s
<1> DEFINE t == [s EXCEPT !.cmdq = Append(@, cmd)]
<1>1. Append(s.cmdq, cmd) \in Seq(Command)
  BY DEF SessionRec
<1>2. t \in SessionRec
  BY <1>1 DEF SessionRec
<1>3. /\ Same(s, t) /\ t.login = s.login /\ t.state = s.state /\ t.data = s.data
      /\ t.replyId = s.replyId /\ t.cmdq = Append(s.cmdq, cmd)
  BY DEF Same, SessionRec
<1>4. CmdqNew(s, cmd) = IF s.here THEN Restart(t) ELSE s
  BY DEF CmdqNew
<1> HIDE DEF t
<1>5. Kept(s, s)
  BY DEF Kept, Same
<1>6. Restart(t) \in SessionRec /\ Kept(t, Restart(t)) /\ Restart(t).cmdq = t.cmdq
      /\ (t.state = "IDLE" => Sent(Restart(t)))
  BY <1>2, RestartIs, RestartSends
<1>7. Kept(s, Restart(t))
  BY <1>3, <1>6 DEF Kept, Same
<1> QED
  BY <1>3, <1>4, <1>5, <1>6, <1>7

LEMMA CmdqNewAdds ==
  ASSUME NEW s \in SessionRec, NEW C, NEW cmd \in C, cmd \in Command
  PROVE  /\ Adds(s, CmdqNew(s, cmd), C)
         /\ s.here => CmdqNew(s, cmd).cmdq # <<>>
<1>1. s.cmdq \in Seq(C) => Append(s.cmdq, cmd) \in Seq(C)
  OBVIOUS
<1>2. Append(s.cmdq, cmd) # <<>>
  BY AppendProperties DEF SessionRec
<1> QED
  BY <1>1, <1>2, CmdqNewIs DEF Adds

\* What was added twice was added.
LEMMA AddsTwice ==
  ASSUME NEW C, NEW s, NEW r, NEW t, Adds(s, r, C), Adds(r, t, C)
  PROVE  Adds(s, t, C)
BY DEF Adds, Kept, Same

LEMMA AddsNone ==
  ASSUME NEW C, NEW s \in SessionRec
  PROVE  Adds(s, s, C)
BY DEF Adds, Kept, Same

\* A flag that is as it should be costs nothing.
LEMMA SetFlagAdds ==
  ASSUME NEW s \in SessionRec, NEW flag \in Flag, NEW on \in BOOLEAN, NEW ev \in Event, NEW C,
         [op |-> IF on THEN "ON" ELSE "OFF", arg |-> flag, ev |-> ev] \in C
  PROVE  /\ Adds(s, SetFlag(s, flag, on, ev), C)
         /\ SetFlag(s, flag, on, ev).cmdq # <<>> \/ (flag \in s.status) = on \/ ~s.here
<1> DEFINE cmd == [op |-> IF on THEN "ON" ELSE "OFF", arg |-> flag, ev |-> ev]
<1>1. cmd \in Command
  BY DEF Command, Op
<1>2. SetFlag(s, flag, on, ev) = IF (flag \in s.status) = on THEN s ELSE CmdqNew(s, cmd)
  BY DEF SetFlag, Cached
<1> HIDE DEF cmd
<1>3. cmd \in C
  BY DEF cmd
<1> QED
  BY <1>1, <1>2, <1>3, CmdqNewAdds, AddsNone

\* CCSN and SSCN are only sent where they are allowed.
LEMMA ClientAdds ==
  ASSUME NEW s \in SessionRec, NEW site, NEW on \in BOOLEAN, NEW ev \in Event, NEW C,
         \A flag \in {"CCSN", "SSCN"} :
           [op |-> IF on THEN "ON" ELSE "OFF", arg |-> flag, ev |-> ev] \in C
  PROVE  /\ Adds(s, Ccsn(site, s, on, ev), C) /\ Adds(s, Sscn(site, s, on, ev), C)
         /\ Allows(site, site.ccsn) =>
              Ccsn(site, s, on, ev).cmdq # <<>> \/ ("CCSN" \in s.status) = on \/ ~s.here
         /\ Allows(site, site.sscn) =>
              Sscn(site, s, on, ev).cmdq # <<>> \/ ("SSCN" \in s.status) = on \/ ~s.here
<1>1. "CCSN" \in Flag /\ "SSCN" \in Flag
  BY DEF Flag
<1>2. \A flag \in {"CCSN", "SSCN"} :
        /\ Adds(s, SetFlag(s, flag, on, ev), C)
        /\ SetFlag(s, flag, on, ev).cmdq # <<>> \/ (flag \in s.status) = on \/ ~s.here
  BY <1>1, SetFlagAdds
<1> QED
  BY <1>2, AddsNone DEF Ccsn, Sscn

\* A restart point is told; zero only to a server that has another.
LEMMA RestAdds ==
  ASSUME NEW s \in SessionRec, NEW on \in BOOLEAN, NEW ev \in Event, NEW C,
         [op |-> IF on THEN "ON" ELSE "OFF", arg |-> "REST", ev |-> ev] \in C
  PROVE  /\ Adds(s, Rest(s, on, ev), C)
         /\ Rest(s, on, ev).cmdq # <<>> \/ ("REST" \in s.status) = on \/ ~s.here
<1>1. "REST" \in Flag
  BY DEF Flag
<1>2. CASE on
  <2> DEFINE cmd == [op |-> "ON", arg |-> "REST", ev |-> ev]
  <2>1. cmd \in Command /\ cmd \in C /\ Rest(s, on, ev) = CmdqNew(s, cmd)
    BY <1>1, <1>2 DEF Command, Rest
  <2> HIDE DEF cmd
  <2> QED
    BY <2>1, CmdqNewAdds
<1>3. CASE ~on
  <2>1. Rest(s, on, ev) = SetFlag(s, "REST", FALSE, ev)
    BY <1>3 DEF Rest
  <2>2. [op |-> IF FALSE THEN "ON" ELSE "OFF", arg |-> "REST", ev |-> ev] \in C
    BY <1>3
  <2>3. /\ Adds(s, SetFlag(s, "REST", FALSE, ev), C)
        /\ SetFlag(s, "REST", FALSE, ev).cmdq # <<>> \/ ("REST" \in s.status) = FALSE \/ ~s.here
    BY <1>1, <2>2, SetFlagAdds
  <2> QED
    BY <1>3, <2>1, <2>3
<1> QED
  BY <1>2, <1>3

\* A command that is neither a flag's nor a directory's.
LEMMA CmdAdds ==
  ASSUME NEW s \in SessionRec, NEW op \in Op \ {"ON", "OFF", "CWD", "MKD"}, NEW ev \in Event,
         NEW C, Cmd(op, ev) \in C
  PROVE  /\ Adds(s, CmdqNew(s, Cmd(op, ev)), C)
         /\ s.here => CmdqNew(s, Cmd(op, ev)).cmdq # <<>>
BY CmdType, CmdqNewAdds

\* The event of a second reply is no part of what is kept.
LEMMA ReplyIdAdds ==
  ASSUME NEW s \in SessionRec, NEW id \in Ends226, NEW C,
         NEW r, r = [s EXCEPT !.replyId = id]
  PROVE  Adds(s, r, C)
<1>1. r \in SessionRec
  BY DEF SessionRec, Ends226, ReplyId
<1> QED
  BY <1>1 DEF Adds, Kept, Same, Sent, SessionRec

LEMMA FilesAdds ==
  ASSUME NEW s \in SessionRec, NEW files \in BOOLEAN, NEW C,
         NEW r, r = [s EXCEPT !.files = files]
  PROVE  Adds(s, r, C)
<1>1. r \in SessionRec
  BY DEF SessionRec
<1> QED
  BY <1>1 DEF Adds, Kept, Same, Sent, SessionRec

\* What a reply changes, by the command that it answers.
Pwd == Cmd("PWD", "none")

StatusAfter(s, cmd, code) ==
  CASE cmd.op = "ON" /\ code = "ok"  -> s.status \cup {cmd.arg}
    [] cmd.op = "OFF" /\ code = "ok" -> s.status \ {cmd.arg}
    [] OTHER -> s.status

Moved(cmd, code) == cmd.op = "CWD" /\ code = "ok"

\* Where a server goes and what privacy it keeps, whatever 2xx it says so with.
CwdAfter(s, cmd, code) ==
  IF cmd.op = "CWD" /\ code \in {"ok", "near"} THEN cmd.arg ELSE s.cwd
ProtAfter(s, cmd, code) ==
  IF Key(cmd) = "PRIVACY" /\ code \in {"ok", "near"} THEN cmd.op = "ON" ELSE s.prot

LEMMA ObeysIs ==
  ASSUME NEW s \in SessionRec, NEW cmd, NEW code, NEW r, r = Obeys(s, cmd, code)
  PROVE  /\ r.here = s.here /\ r.login = s.login /\ r.state = s.state /\ r.data = s.data
         /\ r.cmdq = s.cmdq /\ r.replyId = s.replyId /\ r.status = s.status
         /\ r.pwd = s.pwd /\ r.saved = s.saved
         /\ r.cwd = CwdAfter(s, cmd, code) /\ r.prot = ProtAfter(s, cmd, code)
<1>1. CASE code \in {"ok", "near"}
  BY <1>1 DEF Obeys, CwdAfter, ProtAfter, SessionRec
<1>2. CASE code \notin {"ok", "near"}
  BY <1>2 DEF Obeys, CwdAfter, ProtAfter
<1> QED
  BY <1>1, <1>2

LEMMA NotedIs ==
  ASSUME NEW s \in SessionRec, NEW cmd \in Command, NEW code, NEW r, r = Noted(s, cmd, code)
  PROVE  /\ r.here = s.here /\ r.status = StatusAfter(s, cmd, code)
         /\ r.cwd = s.cwd /\ r.prot = s.prot
         /\ r.cmdq = IF Moved(cmd, code) THEN Append(s.cmdq, Pwd) ELSE s.cmdq
         /\ r.pwd = CASE Moved(cmd, code) /\ s.saved # "-" -> s.saved
                      [] cmd.op = "PWD" -> s.cwd
                      [] OTHER -> s.pwd
         /\ r.saved = IF cmd.op = "CWD" /\ code # "ok" THEN "-" ELSE s.saved
<1>1. CASE cmd.op \in {"ON", "OFF"}
  <2>1. r = [s EXCEPT !.status = StatusAfter(s, cmd, code)]
    <3>1. s = [s EXCEPT !.status = s.status]
      BY DEF SessionRec
    <3> QED
      BY <1>1, <3>1 DEF Noted, StatusAfter
  <2> QED
    BY <1>1, <2>1 DEF Moved, SessionRec
<1>2. CASE Moved(cmd, code)
  <2>1. r = [s EXCEPT !.pwd = IF s.saved # "-" THEN s.saved ELSE s.pwd,
                      !.files = FALSE, !.cmdq = Append(s.cmdq, Pwd)]
    BY <1>2 DEF Noted, Moved, Pwd
  <2> QED
    BY <1>2, <2>1 DEF Moved, SessionRec, StatusAfter
<1>3. CASE cmd.op = "CWD" /\ code # "ok"
  <2>1. r = [s EXCEPT !.saved = "-"]
    BY <1>3 DEF Noted
  <2> QED
    BY <1>3, <2>1 DEF Moved, SessionRec, StatusAfter
<1>4. CASE cmd.op = "PWD"
  <2>1. r = [s EXCEPT !.pwd = s.cwd]
    BY <1>4 DEF Noted
  <2> QED
    BY <1>4, <2>1 DEF Moved, SessionRec, StatusAfter
<1>5. CASE cmd.op \notin {"ON", "OFF", "CWD", "PWD"}
  <2>1. cmd.op \notin {"STOR", "RETR", "PASV", "PORT", "LIST"} => r = s
    BY <1>5 DEF Noted
  <2>2. cmd.op \in {"STOR", "RETR"} => r \in {s, [s EXCEPT !.state = "RELAY_226"]}
    BY DEF Noted
  <2>3. cmd.op \in {"PASV", "PORT"} => r \in {s, [s EXCEPT !.data = TRUE]}
    BY DEF Noted
  <2>4. cmd.op = "LIST" => r = [s EXCEPT !.state = "DATA_FINISH"]
    BY DEF Noted
  <2> QED
    BY <1>5, <2>1, <2>2, <2>3, <2>4 DEF Moved, SessionRec, StatusAfter
<1> QED
  BY <1>1, <1>2, <1>3, <1>4, <1>5 DEF Moved


LEMMA DigestIs ==
  ASSUME NEW s \in SessionRec, NEW cmd \in Command, NEW code, NEW r, r = Digest(s, cmd, code)
  PROVE  /\ r.here = s.here /\ r.status = StatusAfter(s, cmd, code)
         /\ r.cmdq = IF Moved(cmd, code) THEN Append(s.cmdq, Pwd) ELSE s.cmdq
         /\ r.cwd = CwdAfter(s, cmd, code) /\ r.prot = ProtAfter(s, cmd, code)
         /\ r.pwd = CASE Moved(cmd, code) /\ s.saved # "-" -> s.saved
                      [] cmd.op = "PWD" -> s.cwd
                      [] OTHER -> s.pwd
         /\ r.saved = IF cmd.op = "CWD" /\ code # "ok" THEN "-" ELSE s.saved
<1> DEFINE u == Obeys(s, cmd, code)
<1>1. u \in SessionRec
  BY ObeysType
<1>2. /\ u.here = s.here /\ u.status = s.status /\ u.cmdq = s.cmdq /\ u.pwd = s.pwd
      /\ u.saved = s.saved /\ u.cwd = CwdAfter(s, cmd, code) /\ u.prot = ProtAfter(s, cmd, code)
  BY ObeysIs
<1>3. r = Noted(u, cmd, code)
  BY DEF Digest
<1> HIDE DEF u
<1>4. /\ r.here = u.here /\ r.status = StatusAfter(u, cmd, code)
      /\ r.cwd = u.cwd /\ r.prot = u.prot
      /\ r.cmdq = IF Moved(cmd, code) THEN Append(u.cmdq, Pwd) ELSE u.cmdq
      /\ r.pwd = CASE Moved(cmd, code) /\ u.saved # "-" -> u.saved
                   [] cmd.op = "PWD" -> u.cwd
                   [] OTHER -> u.pwd
      /\ r.saved = IF cmd.op = "CWD" /\ code # "ok" THEN "-" ELSE u.saved
  BY <1>1, <1>3, NotedIs
<1>5. StatusAfter(u, cmd, code) = StatusAfter(s, cmd, code)
  BY <1>2 DEF StatusAfter
<1>6. cmd.op = "PWD" => u.cwd = s.cwd
  BY <1>2 DEF CwdAfter
<1>7. r.pwd = CASE Moved(cmd, code) /\ s.saved # "-" -> s.saved
                [] cmd.op = "PWD" -> s.cwd
                [] OTHER -> s.pwd
  BY <1>2, <1>4, <1>6
<1> QED
  BY <1>2, <1>4, <1>5, <1>7

\* What a session is after an answer, when the handler has added to what it
\* is asked.
ReadTo(s, cmd, code, more, r) ==
  /\ r.here = s.here /\ r.status = StatusAfter(s, cmd, code)
  /\ r.cmdq = (IF Moved(cmd, code) THEN Append(Tail(s.cmdq), Pwd) ELSE Tail(s.cmdq)) \o more
  /\ r.cwd = CwdAfter(s, cmd, code) /\ r.prot = ProtAfter(s, cmd, code)
  /\ r.pwd = CASE Moved(cmd, code) /\ s.saved # "-" -> s.saved
               [] cmd.op = "PWD" -> s.cwd
               [] OTHER -> s.pwd
  /\ r.saved = CASE more # <<>> /\ more[1].op = "CWD" -> more[1].arg
                 [] ~(more # <<>> /\ more[1].op = "CWD") /\ cmd.op = "CWD" /\ code # "ok" -> "-"
                 [] OTHER -> s.saved

LEMMA AnsweredIs ==
  ASSUME NEW s \in SessionRec, s.cmdq # <<>>, NEW code, NEW more \in Seq(Command)
  PROVE  /\ Answered(s, code, more) \in SessionRec
         /\ ReadTo(s, Head(s.cmdq), code, more, Answered(s, code, more))
<1> DEFINE cmd == Head(s.cmdq)
           r == Answered(s, code, more)
<1> DEFINE s0 == [s EXCEPT !.cmdq = Tail(@)]
           s1 == Digest(s0, cmd, code)
           s2 == Given(s1, more)
           s3 == [s2 EXCEPT !.isidle = TRUE]
<1>1. cmd \in Command /\ Tail(s.cmdq) \in Seq(Command)
  BY HeadTailProperties DEF SessionRec
<1>2. s0 \in SessionRec
  BY <1>1 DEF SessionRec
<1>3. /\ s0.here = s.here /\ s0.status = s.status /\ s0.cmdq = Tail(s.cmdq)
      /\ s0.cwd = s.cwd /\ s0.prot = s.prot /\ s0.pwd = s.pwd /\ s0.saved = s.saved
  BY DEF SessionRec
<1>4. r = Restart(s3)
  BY DEF Answered
<1> HIDE DEF s0, r
<1>5. s1 \in SessionRec
  BY <1>1, <1>2, DigestType
<1>6. /\ s1.here = s.here /\ s1.status = StatusAfter(s, cmd, code)
      /\ s1.cmdq = IF Moved(cmd, code) THEN Append(Tail(s.cmdq), Pwd) ELSE Tail(s.cmdq)
      /\ s1.cwd = CwdAfter(s, cmd, code) /\ s1.prot = ProtAfter(s, cmd, code)
      /\ s1.pwd = CASE Moved(cmd, code) /\ s.saved # "-" -> s.saved
                    [] cmd.op = "PWD" -> s.cwd
                    [] OTHER -> s.pwd
      /\ s1.saved = IF cmd.op = "CWD" /\ code # "ok" THEN "-" ELSE s.saved
  <2>1. /\ StatusAfter(s0, cmd, code) = StatusAfter(s, cmd, code)
        /\ CwdAfter(s0, cmd, code) = CwdAfter(s, cmd, code)
        /\ ProtAfter(s0, cmd, code) = ProtAfter(s, cmd, code)
    BY <1>3 DEF StatusAfter, CwdAfter, ProtAfter
  <2> QED
    BY <1>1, <1>2, <1>3, <2>1, DigestIs
<1> HIDE DEF s1
<1>7. s2 \in SessionRec
  BY <1>5, GivenType
<1>8. /\ s2.here = s1.here /\ s2.status = s1.status /\ s2.cmdq = s1.cmdq \o more
      /\ s2.cwd = s1.cwd /\ s2.prot = s1.prot /\ s2.pwd = s1.pwd
      /\ s2.saved = IF more # <<>> /\ more[1].op = "CWD" THEN more[1].arg ELSE s1.saved
  BY <1>5 DEF Given, SessionRec
<1> HIDE DEF s2
<1>9. s3 \in SessionRec /\ Same(s2, s3) /\ s3.cmdq = s2.cmdq
  BY <1>7 DEF SessionRec, Same
<1> HIDE DEF s3
<1>10. r \in SessionRec /\ Same(s2, r) /\ r.cmdq = s2.cmdq
  BY <1>4, <1>9, RestartIs DEF Kept, Same
<1>11. /\ r.here = s.here /\ r.status = StatusAfter(s, cmd, code)
       /\ r.cmdq = s1.cmdq \o more /\ r.cwd = s1.cwd /\ r.prot = s1.prot /\ r.pwd = s1.pwd
       /\ r.saved = IF more # <<>> /\ more[1].op = "CWD" THEN more[1].arg ELSE s1.saved
  BY <1>6, <1>8, <1>10 DEF Same
<1>12. r.saved = CASE more # <<>> /\ more[1].op = "CWD" -> more[1].arg
                   [] ~(more # <<>> /\ more[1].op = "CWD") /\ cmd.op = "CWD" /\ code # "ok" -> "-"
                   [] OTHER -> s.saved
  BY <1>6, <1>11
<1>13. r.pwd = CASE Moved(cmd, code) /\ s.saved # "-" -> s.saved
                 [] cmd.op = "PWD" -> s.cwd
                 [] OTHER -> s.pwd
  BY <1>6, <1>11
<1>14. r \in SessionRec /\ ReadTo(s, cmd, code, more, r)
  BY <1>6, <1>10, <1>11, <1>12, <1>13 DEF ReadTo
<1> QED
  BY <1>14 DEF r

-----------------------------------------------------------------------------
(* What may be unanswered. *)

\* Commands that move nothing.
Still == {c \in Command : ~Moves(c)}

LEMMA AskedIs ==
  ASSUME NEW p
  PROVE  /\ \A st \in Calm : Asked(st, p) = {}
         /\ Asked("FILE_PHASE_1_IDLE", p) = IF p = src THEN Goes ELSE GoesOrMakes
         /\ Asked("FILE_PHASE_2_WAIT", p) =
              Named({"PHASE_2_SRC_SECURE", "PHASE_2_DST_SECURE"}, {"ON"})
         /\ Asked("FILE_PHASE_3_START", p) = Named({"PHASE_2_DISABLE"}, {"OFF"})
         /\ Asked("FILE_PHASE_3_WAIT", p) =
              Flags({"PHASE_3_SRC_PROT", "PHASE_3_DST_PROT"}, "PRIVACY")
         /\ Asked("FILE_PHASE_5_START", p) = Flags({"PHASE_4_TYPE"}, "BINARY")
         /\ \A st \in {"FILE_PHASE_5_REST_WAIT", "FILE_PHASE_6_START"} :
              Asked(st, p) = Named({"PHASE_5_SRC_SIZE", "PHASE_5_DST_SIZE"}, {"SIZE"})
         /\ Asked("FILE_PHASE_7_START", p) = Named({"PHASE_6_PRET"}, {"PRET"})
         /\ Asked("FILE_PHASE_7_WAIT", p) = Named({"PHASE_7_PASV"}, {"PASV"})
         /\ Asked("FILE_PHASE_8_WAIT", p) = Named({"PHASE_8_PORT"}, {"PORT"})
         /\ Asked("FILE_PHASE_9_REST", p) =
              Flags({"PHASE_9_SRC_REST", "PHASE_9_DST_REST"}, "REST")
         /\ Asked("FILE_PHASE_10_START", p) = Flags({"PHASE_9_REST2"}, "REST")
         /\ Asked("FILE_PHASE_10_WAIT", p) = Named({"PHASE_10_STOR"}, {"STOR"})
         /\ Asked("FILE_PHASE_11_WAIT", p) = Named({"PHASE_11_RETR"}, {"RETR"})
         /\ \A st \in State \ (FileState \cup {"ACTIVE"}) : Asked(st, p) = Command
<1>1. \A st \in Calm : Asked(st, p) = {}
  <2>1. TAKE st \in Calm
  <2> QED
    BY <2>1 DEF Asked, Calm
<1>2. \A st \in State \ (FileState \cup {"ACTIVE"}) : Asked(st, p) = Command
  <2>1. TAKE st \in State \ (FileState \cup {"ACTIVE"})
  <2>2. /\ st \notin Calm /\ st \notin {"FILE_PHASE_5_REST_WAIT", "FILE_PHASE_6_START"}
        /\ st \notin FileState
    BY <2>1 DEF Calm, FileState
  <2> QED
    BY <2>2 DEF Asked, FileState
<1> QED
  BY <1>1, <1>2 DEF Asked, Calm

\* Only in phase 1 of a file a session is told to move.
LEMMA AskedStill ==
  ASSUME NEW st \in (FileState \cup {"ACTIVE"}) \ {"FILE_PHASE_1_IDLE"}, NEW p
  PROVE  Asked(st, p) \subseteq Still
<1>1. \A c \in Command :
        (c.ev \notin Steers /\ c.op # "CWD") => c \in Still
  BY DEF Still, Moves, Steers
<1>2. \A evs, ops : evs \cap Steers = {} /\ "CWD" \notin ops =>
        Named(evs, ops) \subseteq Still
  BY <1>1 DEF Named
<1>3. \A evs, flag : evs \cap Steers = {} => Flags(evs, flag) \subseteq Still
  BY <1>1 DEF Flags
<1>4. CASE st \in Calm
  BY <1>4, AskedIs
<1>5. CASE st \in {"FILE_PHASE_2_WAIT", "FILE_PHASE_3_START", "FILE_PHASE_5_REST_WAIT",
                   "FILE_PHASE_6_START", "FILE_PHASE_7_START", "FILE_PHASE_7_WAIT",
                   "FILE_PHASE_8_WAIT", "FILE_PHASE_10_WAIT", "FILE_PHASE_11_WAIT"}
  BY <1>2, <1>5, AskedIs DEF Steers
<1>6. CASE st \in {"FILE_PHASE_3_WAIT", "FILE_PHASE_5_START", "FILE_PHASE_9_REST",
                   "FILE_PHASE_10_START"}
  BY <1>3, <1>6, AskedIs DEF Steers
<1> QED
  BY <1>4, <1>5, <1>6 DEF FileState, Calm

\* A call of queue_process leaves each session as it said, or the cleanup takes
\* away the one in a lost one's place.
LEMMA Leaves ==
  ASSUME NEW ss, Again(ss) \/ Sleep(ss) \/ (\E nodelay : Settle(ss, nodelay)), NEW p \in Side
  PROVE  (old[p] /\ sess'[p] = NoSession) \/ sess'[p] = ss[p]
<1>1. Again(ss) \/ Sleep(ss)
  BY DEF Settle
<1> QED
  BY <1>1 DEF Again, Sleep

\* What a call may do to the sessions when all is answered.
Told(st) ==
  \A p \in Side :
    \/ old[p] /\ sess'[p] = NoSession
    \/ Kept(sess[p], sess'[p]) /\ sess'[p].cmdq \in Seq(Asked(st, p) \cap Still)

Empties == \A p \in Side : sess[p].cmdq = <<>>

LEMMA ToldBy ==
  ASSUME Empties, NEW st, NEW C, \A p \in Side : C \subseteq Asked(st, p) \cap Still,
         NEW ss, \A p \in Side : Adds(sess[p], ss[p], C),
         Again(ss) \/ Sleep(ss) \/ (\E nodelay : Settle(ss, nodelay))
  PROVE  Told(st)
<1> SUFFICES ASSUME NEW p \in Side, ~(old[p] /\ sess'[p] = NoSession)
             PROVE  Kept(sess[p], sess'[p]) /\ sess'[p].cmdq \in Seq(Asked(st, p) \cap Still)
  BY DEF Told
<1>1. sess'[p] = ss[p]
  BY Leaves
<1>2. sess[p].cmdq = <<>> /\ <<>> \in Seq(C)
  BY DEF Empties
<1>3. Kept(sess[p], ss[p]) /\ ss[p].cmdq \in Seq(C)
  BY <1>2 DEF Adds
<1>4. Seq(C) \subseteq Seq(Asked(st, p) \cap Still)
  BY SeqMonotonic
<1> QED
  BY <1>1, <1>3, <1>4

\* When nothing is told.
LEMMA ToldNothing ==
  ASSUME SessionInv, Empties, NEW st, Again(sess) \/ Sleep(sess)
  PROVE  Told(st)
<1>1. \A p \in Side : Adds(sess[p], sess[p], {})
  BY AddsNone DEF SessionInv
<1> QED
  BY <1>1, ToldBy

LEMMA EmptyOnly == \A q \in Seq({}) : q = <<>>
<1> TAKE q \in Seq({})
<1>1. q # <<>> => Head(q) \in {}
  BY HeadTailProperties
<1> QED
  BY <1>1

\* A phase of a file begins when the sessions are idle, or has nothing to wait for.
LEMMA FilePassFrom ==
  ASSUME FilePass
  PROVE  BothIdle \/ state \in Calm
<1>1. BothIdle \/ \E st \in {"FILE_START", "FILE_PHASE_1_START", "FILE_PHASE_2_DISABLE"} : In(st)
  BY DEF FilePass, FileStart, Phase1Start, Phase1Idle, Phase2Plain, Phase2Local,
     Phase2Client, Phase2Wait, Phase2Disable, Phase3Start, Phase3Wait, Phase4Start,
     Phase5Start, Phase5RestWait, Phase6Start, Phase7Start, Phase7Wait, Phase8Start,
     Phase8Wait, Phase9Start, Phase9Rest, Phase10Start, Phase10Wait, Phase11Start,
     Phase11Wait, Phase12Start
<1> QED
  BY <1>1, InState DEF Calm

\* Everything is answered then.
LEMMA PassEmpties ==
  ASSUME FlightInv, FilePass
  PROVE  Empties
<1>1. BothIdle \/ state \in Calm
  BY FilePassFrom
<1>2. CASE BothIdle
  BY <1>2 DEF Empties, BothIdle, IsIdle
<1>3. CASE state \in Calm
  <2>1. \A p \in Side : sess[p].cmdq \in Seq({})
    BY <1>3, AskedIs DEF FlightInv
  <2> QED
    BY <2>1, EmptyOnly DEF Empties
<1> QED
  BY <1>1, <1>2, <1>3

-----------------------------------------------------------------------------
(* What the phases tell the sessions. *)

\* An item's phase works with the two sessions.
LEMMA TwoSides ==
  ASSUME IInv, NEW st \in FileState \cup DirectoryState, In(st)
  PROVE  /\ src \in Side /\ Dst \in Side /\ Dst # src /\ \A p \in Side : p \in {src, Dst}
         /\ \A p \in Side : sess[p] \in SessionRec
         /\ sess \in [Side -> SessionRec]
<1>1. src \in Side /\ Dst \in Side /\ Dst # src
  BY TwoSessions DEF IInv
<1>2. \A p \in Side : p \in {src, Dst}
  BY <1>1 DEF Side
<1>3. sess \in [Side -> SessionRec]
  BY DEF IInv, SessionInv
<1> QED
  BY <1>1, <1>2, <1>3

\* "PROT P" or "PROT C" goes to each side that is not at that level.
LEMMA Phase3Tells ==
  ASSUME IInv, Phase3Start,
         NEW C, C = {c \in Flags({"PHASE_3_SRC_PROT", "PHASE_3_DST_PROT"}, "PRIVACY") :
                       c.op = IF secure THEN "ON" ELSE "OFF"}
  PROVE  \E ss : /\ \E nodelay : Settle(ss, nodelay)
                 /\ \A p \in Side :
                      /\ Adds(sess[p], ss[p], C)
                      /\ ss[p].cmdq # <<>> \/ ("PRIVACY" \in sess[p].status) = secure
                         \/ ~sess[p].here
<1>0. In("FILE_PHASE_3_START") /\ "FILE_PHASE_3_START" \in FileState \cup DirectoryState
  BY DEF Phase3Start, FileState
<1>1. /\ src \in Side /\ Dst \in Side /\ Dst # src /\ \A p \in Side : p \in {src, Dst}
      /\ \A p \in Side : sess[p] \in SessionRec
      /\ sess \in [Side -> SessionRec]
  BY <1>0, TwoSides
<1>2. secure \in BOOLEAN /\ "PRIVACY" \in Flag /\ "PHASE_3_SRC_PROT" \in Event
      /\ "PHASE_3_DST_PROT" \in Event
  BY DEF IInv, FileInv, Flag, Event
<1>3. \A ev \in {"PHASE_3_SRC_PROT", "PHASE_3_DST_PROT"} :
        [op |-> IF secure THEN "ON" ELSE "OFF", arg |-> "PRIVACY", ev |-> ev] \in C
  BY <1>2 DEF Flags, Command
<1>4. \A p \in Side, ev \in {"PHASE_3_SRC_PROT", "PHASE_3_DST_PROT"} :
        /\ Adds(sess[p], SetFlag(sess[p], "PRIVACY", secure, ev), C)
        /\ SetFlag(sess[p], "PRIVACY", secure, ev).cmdq # <<>>
           \/ ("PRIVACY" \in sess[p].status) = secure \/ ~sess[p].here
  <2>1. TAKE p \in Side, ev \in {"PHASE_3_SRC_PROT", "PHASE_3_DST_PROT"}
  <2> QED
    BY <1>1, <1>2, <1>3, SetFlagAdds
<1> DEFINE a == SetFlag(sess[src], "PRIVACY", secure, "PHASE_3_SRC_PROT")
           b == SetFlag(sess[Dst], "PRIVACY", secure, "PHASE_3_DST_PROT")
           ss == [sess EXCEPT ![src] = a, ![Dst] = b]
<1>5. \E nodelay : Settle(ss, nodelay)
  BY <1>1 DEF Phase3Start
<1>6. ss[src] = a /\ ss[Dst] = b
  BY <1>1
<1> HIDE DEF ss
<1>7. \A p \in Side :
        /\ Adds(sess[p], ss[p], C)
        /\ ss[p].cmdq # <<>> \/ ("PRIVACY" \in sess[p].status) = secure
           \/ ~sess[p].here
  BY <1>1, <1>4, <1>6
<1> QED
  BY <1>5, <1>7

\* The restart point of the item goes to both sides.
LEMMA Phase9Tells ==
  ASSUME IInv, Phase9Start,
         NEW C, C = {c \in Flags({"PHASE_9_SRC_REST", "PHASE_9_DST_REST"}, "REST") :
                       c.op = IF Top.rest THEN "ON" ELSE "OFF"}
  PROVE  \E ss : /\ \E nodelay : Settle(ss, nodelay)
                 /\ \A p \in Side :
                      /\ Adds(sess[p], ss[p], C)
                      /\ ss[p].cmdq # <<>> \/ ("REST" \in sess[p].status) = Top.rest
                         \/ ~sess[p].here
<1>0. In("FILE_PHASE_9_START") /\ "FILE_PHASE_9_START" \in FileState \cup DirectoryState
  BY DEF Phase9Start, FileState
<1>1. /\ src \in Side /\ Dst \in Side /\ Dst # src /\ \A p \in Side : p \in {src, Dst}
      /\ \A p \in Side : sess[p] \in SessionRec
      /\ sess \in [Side -> SessionRec]
  BY <1>0, TwoSides
<1>2. Top.rest \in BOOLEAN /\ "REST" \in Flag /\ "PHASE_9_SRC_REST" \in Event
      /\ "PHASE_9_DST_REST" \in Event
  BY <1>0, TwoSessions DEF IInv, Flag, Event
<1>3. \A ev \in {"PHASE_9_SRC_REST", "PHASE_9_DST_REST"} :
        [op |-> IF Top.rest THEN "ON" ELSE "OFF", arg |-> "REST", ev |-> ev] \in C
  BY <1>2 DEF Flags, Command
<1>4. \A p \in Side, ev \in {"PHASE_9_SRC_REST", "PHASE_9_DST_REST"} :
        /\ Adds(sess[p], Rest(sess[p], Top.rest, ev), C)
        /\ Rest(sess[p], Top.rest, ev).cmdq # <<>>
           \/ ("REST" \in sess[p].status) = Top.rest \/ ~sess[p].here
  <2>1. TAKE p \in Side, ev \in {"PHASE_9_SRC_REST", "PHASE_9_DST_REST"}
  <2> QED
    BY <1>1, <1>2, <1>3, RestAdds
<1> DEFINE a == Rest(sess[src], Top.rest, "PHASE_9_SRC_REST")
           b == Rest(sess[Dst], Top.rest, "PHASE_9_DST_REST")
           ss == [sess EXCEPT ![src] = a, ![Dst] = b]
<1>5. \E nodelay : Settle(ss, nodelay)
  BY <1>1 DEF Phase9Start
<1>6. ss[src] = a /\ ss[Dst] = b
  BY <1>1
<1> HIDE DEF ss
<1>7. \A p \in Side :
        /\ Adds(sess[p], ss[p], C)
        /\ ss[p].cmdq # <<>> \/ ("REST" \in sess[p].status) = Top.rest
           \/ ~sess[p].here
  BY <1>1, <1>4, <1>6
<1> QED
  BY <1>5, <1>7

\* When one session is told something.
LEMMA ToldOne ==
  ASSUME SessionInv, Empties, NEW st, NEW C, \A p \in Side : C \subseteq Asked(st, p) \cap Still,
         NEW x \in Side, NEW r, Adds(sess[x], r, C),
         NEW ss, ss = [sess EXCEPT ![x] = r],
         Again(ss) \/ Sleep(ss) \/ (\E nodelay : Settle(ss, nodelay))
  PROVE  Told(st)
<1>1. \A p \in Side : sess[p] \in SessionRec
  BY DEF SessionInv
<1>2. \A p \in Side : Adds(sess[p], sess[p], C)
  BY <1>1, AddsNone
<1>3. \A p \in Side : ss[p] = IF p = x THEN r ELSE sess[p]
  BY DEF SessionInv
<1>4. \A p \in Side : Adds(sess[p], ss[p], C)
  BY <1>2, <1>3
<1> QED
  BY <1>4, ToldBy

\* CCSN and SSCN are switched off where they are on.
LEMMA ClientOffAdds ==
  ASSUME SessionInv, NEW p \in Side
  PROVE  Adds(sess[p], ClientOff(p), Named({"PHASE_2_DISABLE"}, {"OFF"}))
<1> DEFINE C == Named({"PHASE_2_DISABLE"}, {"OFF"})
           s1 == IF SiteOf[p].ccsn
                 THEN Ccsn(SiteOf[p], sess[p], FALSE, "PHASE_2_DISABLE") ELSE sess[p]
<1>1. "PHASE_2_DISABLE" \in Event /\ sess[p] \in SessionRec
  BY DEF Event, SessionInv
<1>2. \A flag \in {"CCSN", "SSCN"} :
        [op |-> IF FALSE THEN "ON" ELSE "OFF", arg |-> flag, ev |-> "PHASE_2_DISABLE"] \in C
  BY <1>1 DEF Named, Command, Flag
<1>3. ClientOff(p) = IF SiteOf[p].sscn
                     THEN Sscn(SiteOf[p], s1, FALSE, "PHASE_2_DISABLE") ELSE s1
  BY DEF ClientOff
<1> HIDE DEF C
<1>4. Adds(sess[p], s1, C)
  <2>1. Adds(sess[p], Ccsn(SiteOf[p], sess[p], FALSE, "PHASE_2_DISABLE"), C)
    BY <1>1, <1>2, ClientAdds
  <2> QED
    BY <1>1, <2>1, AddsNone
<1> HIDE DEF s1
<1>5. s1 \in SessionRec
  BY <1>4 DEF Adds
<1>6. Adds(s1, Sscn(SiteOf[p], s1, FALSE, "PHASE_2_DISABLE"), C)
  BY <1>1, <1>2, <1>5, ClientAdds
<1>7. Adds(sess[p], ClientOff(p), C)
  BY <1>3, <1>4, <1>6, AddsTwice
<1> QED
  BY <1>7 DEF C

\* "Phase 2": one side is told to be the TLS client, or is it already.
LEMMA Phase2Tells ==
  ASSUME IInv, Phase2Client
  PROVE  \E p \in Side, r \in SessionRec :
           /\ Adds(sess[p], r, Named({"PHASE_2_SRC_SECURE", "PHASE_2_DST_SECURE"}, {"ON"}))
           /\ \E nodelay : Settle([sess EXCEPT ![p] = r], nodelay)
           /\ ClientsTold => secure' \/ r.cmdq # <<>>
<1>0. In("FILE_PHASE_2_START") /\ "FILE_PHASE_2_START" \in FileState \cup DirectoryState
      /\ BothIdle
  BY DEF Phase2Client, FileState
<1>1. \A p \in Side : sess[p] \in SessionRec /\ sess[p].here
  BY <1>0, TwoSides DEF BothIdle, IsIdle
<1> DEFINE ev(p) == IF p = src THEN "PHASE_2_SRC_SECURE" ELSE "PHASE_2_DST_SECURE"
           flag(p) == IF SiteOf[p].ccsn THEN "CCSN" ELSE "SSCN"
           C == Named({"PHASE_2_SRC_SECURE", "PHASE_2_DST_SECURE"}, {"ON"})
           r(p) == IF SiteOf[p].ccsn THEN Ccsn(SiteOf[p], sess[p], TRUE, ev(p))
                   ELSE Sscn(SiteOf[p], sess[p], TRUE, ev(p))
           cached(p) == SiteOf[p].dataTLS # "NO" /\ Cached(sess[p], flag(p), TRUE)
<1>2. PICK p \in Side :
        /\ TurnsClient(SiteOf[p])
        /\ secure' = cached(p)
        /\ \E nodelay : Settle([sess EXCEPT ![p] = r(p)], nodelay)
  BY DEF Phase2Client, SessionInv, IInv
<1>3. SiteOf[p] \in Site /\ (ClientsTold => SiteOf[p].dataTLS # "NO")
  BY <1>2, QueueAssumption DEF ClientsTold
<1>4. ClientsTold =>
        IF SiteOf[p].ccsn THEN Allows(SiteOf[p], SiteOf[p].ccsn)
        ELSE Allows(SiteOf[p], SiteOf[p].sscn)
  BY <1>2, <1>3 DEF Allows, TurnsClient
<1>5. ev(p) \in Event
      /\ \A f \in {"CCSN", "SSCN"} :
           [op |-> IF TRUE THEN "ON" ELSE "OFF", arg |-> f, ev |-> ev(p)] \in C
  BY DEF Event, Named, Command, Flag
<1> HIDE DEF C, ev
<1>6. /\ Adds(sess[p], r(p), C)
      /\ ClientsTold => r(p).cmdq # <<>> \/ (flag(p) \in sess[p].status) = TRUE
  <2>1. /\ Adds(sess[p], Ccsn(SiteOf[p], sess[p], TRUE, ev(p)), C)
        /\ Adds(sess[p], Sscn(SiteOf[p], sess[p], TRUE, ev(p)), C)
        /\ Allows(SiteOf[p], SiteOf[p].ccsn) =>
             Ccsn(SiteOf[p], sess[p], TRUE, ev(p)).cmdq # <<>>
             \/ ("CCSN" \in sess[p].status) = TRUE \/ ~sess[p].here
        /\ Allows(SiteOf[p], SiteOf[p].sscn) =>
             Sscn(SiteOf[p], sess[p], TRUE, ev(p)).cmdq # <<>>
             \/ ("SSCN" \in sess[p].status) = TRUE \/ ~sess[p].here
    BY <1>1, <1>5, ClientAdds
  <2> QED
    BY <1>1, <1>4, <2>1
<1>7. r(p) \in SessionRec
  BY <1>6 DEF Adds
<1>8. ClientsTold => secure' \/ r(p).cmdq # <<>>
  BY <1>2, <1>3, <1>6 DEF Cached
<1> HIDE DEF r
<1> QED
  BY <1>2, <1>6, <1>7, <1>8 DEF C


\* Every phase but the first tells the sessions what the next waits for, and
\* moves neither.
LEMMA FilePassTold ==
  ASSUME IInv, FlightInv, FilePass, ~Phase1Start
  PROVE  Told(state')
<1>e. Empties /\ SessionInv /\ ListInv
  BY PassEmpties DEF IInv
<1>s. \A p \in Side : sess[p] \in SessionRec
  BY <1>e DEF SessionInv
<1>a. ASSUME NEW st \in (FileState \cup {"ACTIVE"}) \ {"FILE_PHASE_1_IDLE"}, NEW C,
             \A p : C = Asked(st, p)
      PROVE  \A p \in Side : C \subseteq Asked(st, p) \cap Still
  BY <1>a, AskedStill
<1>o. ASSUME NEW st \in State \ (FileState \cup {"ACTIVE"}), NEW C, C \subseteq Still
      PROVE  \A p \in Side : C \subseteq Asked(st, p) \cap Still
  BY <1>o, AskedIs DEF Still
<1>c. \A op \in Op \ {"ON", "OFF", "CWD", "MKD"}, ev \in Event :
        /\ Cmd(op, ev) \in Command /\ Cmd(op, ev).ev = ev /\ Cmd(op, ev).op = op
        /\ ev \notin Steers => Cmd(op, ev) \in Still
  <2>1. TAKE op \in Op \ {"ON", "OFF", "CWD", "MKD"}, ev \in Event
  <2>2. Cmd(op, ev) \in Command
    BY CmdType
  <2>3. Cmd(op, ev).ev = ev /\ Cmd(op, ev).op = op
    BY DEF Cmd
  <2> QED
    BY <2>1, <2>2, <2>3 DEF Still, Moves
<1>g. ASSUME NEW x \in Side, NEW op \in Op \ {"ON", "OFF", "CWD", "MKD"}, NEW ev \in Event,
             NEW C, Cmd(op, ev) \in C
      PROVE  Adds(sess[x], CmdqNew(sess[x], Cmd(op, ev)), C)
  BY <1>g, <1>s, CmdAdds
<1>1. CASE FileStart \/ Phase1Idle \/ Phase2Plain \/ Phase2Wait \/ Phase3Wait
           \/ Phase5RestWait \/ Phase7Wait \/ Phase8Wait \/ Phase10Wait
  <2>1. Again(sess)
    BY <1>1 DEF FileStart, Phase1Idle, Phase2Plain, Phase2Wait, Phase3Wait,
       Phase5RestWait, Phase7Wait, Phase8Wait, Phase10Wait
  <2> QED
    BY <1>e, <2>1, ToldNothing
<1>2. CASE Phase2Local \/ Phase2Disable
  <2> DEFINE C == Named({"PHASE_2_DISABLE"}, {"OFF"})
             ss == [p \in Side |-> ClientOff(p)]
  <2>1. state' \in {"FILE_PHASE_3_START", "ITEM_FAILED"} /\ Again(ss)
    BY <1>2 DEF Phase2Local, Phase2Disable
  <2>2. \A p \in Side : Adds(sess[p], ss[p], C)
    BY <1>e, ClientOffAdds
  <2>3. C \subseteq Still
    BY DEF Named, Still, Moves, Steers
  <2> HIDE DEF ss
  <2>4. \A p \in Side : C \subseteq Asked(state', p) \cap Still
    <3>1. CASE state' = "FILE_PHASE_3_START"
      BY <2>3, <3>1, AskedIs
    <3>2. CASE state' = "ITEM_FAILED"
      <4>1. state' \in State \ (FileState \cup {"ACTIVE"})
        BY <3>2 DEF State, FileState, LossBlind
      <4> QED
        BY <1>o, <2>3, <4>1
    <3> QED
      BY <2>1, <3>1, <3>2
  <2> QED
    BY <1>e, <2>1, <2>2, <2>4, ToldBy
<1>3. CASE Phase2Client
  <2> DEFINE C == Named({"PHASE_2_SRC_SECURE", "PHASE_2_DST_SECURE"}, {"ON"})
  <2>1. PICK x \in Side, r \in SessionRec :
          Adds(sess[x], r, C) /\ \E nodelay : Settle([sess EXCEPT ![x] = r], nodelay)
    BY <1>3, Phase2Tells
  <2>2. state' = "FILE_PHASE_2_WAIT" /\ state' \in FileState \ {"FILE_PHASE_1_IDLE"}
    BY <1>3 DEF Phase2Client, FileState
  <2>3. \A p \in Side : C \subseteq Asked(state', p) \cap Still
    BY <1>a, <2>2, AskedIs
  <2> HIDE DEF C
  <2> QED
    BY <1>e, <2>1, <2>3, ToldOne
<1>4. CASE Phase3Start
  <2> DEFINE C == {c \in Flags({"PHASE_3_SRC_PROT", "PHASE_3_DST_PROT"}, "PRIVACY") :
                       c.op = IF secure THEN "ON" ELSE "OFF"}
  <2>1. PICK ss : /\ \E nodelay : Settle(ss, nodelay)
                  /\ \A p \in Side : Adds(sess[p], ss[p], C)
    BY <1>4, Phase3Tells
  <2>2. state' = "FILE_PHASE_3_WAIT" /\ state' \in FileState \ {"FILE_PHASE_1_IDLE"}
    BY <1>4 DEF Phase3Start, FileState
  <2>3. \A p \in Side : C \subseteq Asked(state', p) \cap Still
    BY <2>2, AskedIs, AskedStill
  <2> HIDE DEF C
  <2> QED
    BY <1>e, <2>1, <2>3, ToldBy
<1>5. CASE Phase4Start
  <2> DEFINE C == Flags({"PHASE_4_TYPE"}, "BINARY")
             ss == [p \in Side |-> SetFlag(sess[p], "BINARY", TRUE, "PHASE_4_TYPE")]
  <2>1. "BINARY" \in Flag /\ "PHASE_4_TYPE" \in Event
        /\ [op |-> IF TRUE THEN "ON" ELSE "OFF", arg |-> "BINARY", ev |-> "PHASE_4_TYPE"] \in C
    BY DEF Flag, Event, Flags, Command
  <2>2. \A p \in Side : Adds(sess[p], ss[p], C)
    BY <1>s, <2>1, SetFlagAdds
  <2>3. state' = "FILE_PHASE_5_START" /\ state' \in FileState \ {"FILE_PHASE_1_IDLE"}
        /\ \E nodelay : Settle(ss, nodelay)
    BY <1>5 DEF Phase4Start, FileState
  <2>4. \A p \in Side : C \subseteq Asked(state', p) \cap Still
    BY <1>a, <2>3, AskedIs
  <2> HIDE DEF C, ss
  <2> QED
    BY <1>e, <2>2, <2>3, <2>4, ToldBy
<1>6. CASE Phase5Start
  <2> DEFINE C == Named({"PHASE_5_SRC_SIZE", "PHASE_5_DST_SIZE"}, {"SIZE"})
             s1 == [sess EXCEPT ![src] = CmdqNew(@, Cmd("SIZE", "PHASE_5_SRC_SIZE"))]
             s2 == [s1 EXCEPT ![Dst] = CmdqNew(@, Cmd("SIZE", "PHASE_5_DST_SIZE"))]
  <2>0. In("FILE_PHASE_5_START") /\ "FILE_PHASE_5_START" \in FileState \cup DirectoryState
    BY <1>6 DEF Phase5Start, FileState
  <2>1. /\ src \in Side /\ Dst \in Side /\ Dst # src /\ \A p \in Side : p \in {src, Dst}
        /\ sess \in [Side -> SessionRec]
    BY <2>0, TwoSides
  <2>2. "SIZE" \in Op \ {"ON", "OFF", "CWD", "MKD"}
        /\ \A ev \in {"PHASE_5_SRC_SIZE", "PHASE_5_DST_SIZE"} :
             ev \in Event /\ Cmd("SIZE", ev) \in C
    BY <1>c DEF Op, Event, Named
  <2>3. Sleep(s1) \/ Sleep(s2)
    BY <1>6 DEF Phase5Start
  <2>4. /\ s1[src] = CmdqNew(sess[src], Cmd("SIZE", "PHASE_5_SRC_SIZE")) /\ s1[Dst] = sess[Dst]
        /\ s2[src] = s1[src] /\ s2[Dst] = CmdqNew(sess[Dst], Cmd("SIZE", "PHASE_5_DST_SIZE"))
    BY <2>1
  <2> HIDE DEF C, s1, s2
  <2>5. \A p \in Side : Adds(sess[p], s1[p], C) /\ Adds(sess[p], s2[p], C)
    <3>1. /\ Adds(sess[src], s1[src], C) /\ Adds(sess[Dst], s1[Dst], C)
          /\ Adds(sess[Dst], s2[Dst], C)
      BY <1>g, <1>s, <2>1, <2>2, <2>4, AddsNone
    <3> QED
      BY <2>1, <2>4, <3>1
  <2>6. state' \in {"FILE_PHASE_5_REST_WAIT", "FILE_PHASE_6_START"}
        /\ state' \in FileState \ {"FILE_PHASE_1_IDLE"}
    BY <1>6 DEF Phase5Start, FileState
  <2>7. \A p \in Side : C \subseteq Asked(state', p) \cap Still
    BY <1>a, <2>6, AskedIs DEF C
  <2> QED
    BY <1>e, <2>3, <2>5, <2>7, ToldBy
<1>7. CASE Phase6Start
  <2> DEFINE C == Named({"PHASE_6_PRET"}, {"PRET"})
             ss == [p \in Side |-> Pret(SiteOf[p], sess[p], "PHASE_6_PRET")]
  <2>1. "PRET" \in Op \ {"ON", "OFF", "CWD", "MKD"} /\ "PHASE_6_PRET" \in Event
        /\ Cmd("PRET", "PHASE_6_PRET") \in C
    BY <1>c DEF Op, Event, Named
  <2>2. \A p \in Side : Adds(sess[p], ss[p], C)
    BY <1>g, <1>s, <2>1, AddsNone DEF Pret
  <2>3. state' = "FILE_PHASE_7_START" /\ state' \in FileState \ {"FILE_PHASE_1_IDLE"}
        /\ Again(ss)
    BY <1>7 DEF Phase6Start, FileState
  <2>4. \A p \in Side : C \subseteq Asked(state', p) \cap Still
    BY <1>a, <2>3, AskedIs
  <2> HIDE DEF C, ss
  <2> QED
    BY <1>e, <2>2, <2>3, <2>4, ToldBy
<1>8. CASE Phase7Start
  <2> DEFINE C == Named({"PHASE_7_PASV"}, {"PASV"})
  <2>0. In("FILE_PHASE_7_START") /\ "FILE_PHASE_7_START" \in FileState \cup DirectoryState
    BY <1>8 DEF Phase7Start, FileState
  <2>1. "PASV" \in Op \ {"ON", "OFF", "CWD", "MKD"} /\ "PHASE_7_PASV" \in Event
        /\ Cmd("PASV", "PHASE_7_PASV") \in C
    BY <1>c DEF Op, Event, Named
  <2>2. CASE stop
    BY <1>8, <1>e, <2>2, ToldNothing DEF Phase7Start
  <2>3. CASE ~stop
    <3>1. PICK x \in Side : Sleep([sess EXCEPT ![x] = CmdqNew(@, Cmd("PASV", "PHASE_7_PASV"))])
      BY <1>8, <2>0, <2>3, TwoSides DEF Phase7Start
    <3>2. state' = "FILE_PHASE_7_WAIT" /\ state' \in FileState \ {"FILE_PHASE_1_IDLE"}
      BY <1>8, <2>3 DEF Phase7Start, FileState
    <3>3. \A p \in Side : C \subseteq Asked(state', p) \cap Still
      BY <1>a, <3>2, AskedIs
    <3> HIDE DEF C
    <3>4. Adds(sess[x], CmdqNew(sess[x], Cmd("PASV", "PHASE_7_PASV")), C)
      BY <1>g, <2>1
    <3> QED
      BY <1>e, <3>1, <3>3, <3>4, ToldOne
  <2> QED
    BY <2>2, <2>3
<1>9. CASE Phase8Start
  <2> DEFINE C == Named({"PHASE_8_PORT"}, {"PORT"})
  <2>0. In("FILE_PHASE_8_START") /\ "FILE_PHASE_8_START" \in FileState \cup DirectoryState
    BY <1>9 DEF Phase8Start, FileState
  <2>1. "PORT" \in Op \ {"ON", "OFF", "CWD", "MKD"} /\ "PHASE_8_PORT" \in Event
        /\ Cmd("PORT", "PHASE_8_PORT") \in C
    BY <1>c DEF Op, Event, Named
  <2>2. PICK x \in Side : Sleep([sess EXCEPT ![x] = CmdqNew(@, Cmd("PORT", "PHASE_8_PORT"))])
    BY <1>9, <2>0, TwoSides DEF Phase8Start
  <2>3. state' = "FILE_PHASE_8_WAIT" /\ state' \in FileState \ {"FILE_PHASE_1_IDLE"}
    BY <1>9 DEF Phase8Start, FileState
  <2>4. \A p \in Side : C \subseteq Asked(state', p) \cap Still
    BY <1>a, <2>3, AskedIs
  <2> HIDE DEF C
  <2>5. Adds(sess[x], CmdqNew(sess[x], Cmd("PORT", "PHASE_8_PORT")), C)
    BY <1>g, <2>1
  <2> QED
    BY <1>e, <2>2, <2>4, <2>5, ToldOne
<1>10. CASE Phase9Start
  <2> DEFINE C == {c \in Flags({"PHASE_9_SRC_REST", "PHASE_9_DST_REST"}, "REST") :
                       c.op = IF Top.rest THEN "ON" ELSE "OFF"}
  <2>1. PICK ss : /\ \E nodelay : Settle(ss, nodelay)
                  /\ \A p \in Side : Adds(sess[p], ss[p], C)
    BY <1>10, Phase9Tells
  <2>2. state' = "FILE_PHASE_9_REST" /\ state' \in FileState \ {"FILE_PHASE_1_IDLE"}
    BY <1>10 DEF Phase9Start, FileState
  <2>3. \A p \in Side : C \subseteq Asked(state', p) \cap Still
    BY <2>2, AskedIs, AskedStill
  <2> HIDE DEF C
  <2> QED
    BY <1>e, <2>1, <2>3, ToldBy
<1>11. CASE Phase9Rest
  <2> DEFINE C == Flags({"PHASE_9_REST2"}, "REST")
             ss == [p \in Side |-> Rest(sess[p], FALSE, "PHASE_9_REST2")]
  <2>1. "PHASE_9_REST2" \in Event
        /\ [op |-> IF FALSE THEN "ON" ELSE "OFF", arg |-> "REST", ev |-> "PHASE_9_REST2"] \in C
    BY DEF Flag, Event, Flags, Command
  <2>2. \A p \in Side : Adds(sess[p], ss[p], C)
    BY <1>s, <2>1, RestAdds
  <2>3. state' = "FILE_PHASE_10_START" /\ state' \in FileState \ {"FILE_PHASE_1_IDLE"}
        /\ (Again(sess) \/ \E nodelay : Settle(ss, nodelay))
    BY <1>11 DEF Phase9Rest, FileState
  <2>4. \A p \in Side : C \subseteq Asked(state', p) \cap Still
    BY <1>a, <2>3, AskedIs
  <2> HIDE DEF C, ss
  <2> QED
    BY <1>e, <2>2, <2>3, <2>4, ToldBy, ToldNothing
<1>12. CASE Phase10Start
  <2> DEFINE C == Named({"PHASE_10_STOR"}, {"STOR"})
  <2>0. In("FILE_PHASE_10_START") /\ "FILE_PHASE_10_START" \in FileState \cup DirectoryState
    BY <1>12 DEF Phase10Start, FileState
  <2>1. CASE stop
    BY <1>12, <1>e, <2>1, ToldNothing DEF Phase10Start
  <2>2. CASE ~stop
    <3>1. Dst \in Side /\ Sleep([sess EXCEPT ![Dst] = Stor(@)])
      BY <1>12, <2>0, <2>2, TwoSides DEF Phase10Start
    <3>2. state' = "FILE_PHASE_10_WAIT" /\ state' \in FileState \ {"FILE_PHASE_1_IDLE"}
      BY <1>12, <2>2 DEF Phase10Start, FileState
    <3>3. \A p \in Side : C \subseteq Asked(state', p) \cap Still
      BY <1>a, <3>2, AskedIs
    <3>4. Adds(sess[Dst], Stor(sess[Dst]), C)
      <4> DEFINE t == [sess[Dst] EXCEPT !.replyId = "PHASE_12_DST_226"]
      <4>1. "STOR" \in Op \ {"ON", "OFF", "CWD", "MKD"} /\ "PHASE_10_STOR" \in Event
            /\ Cmd("STOR", "PHASE_10_STOR") \in C
        BY <1>c DEF Op, Event, Named
      <4>2. Stor(sess[Dst]) = CmdqNew(t, Cmd("STOR", "PHASE_10_STOR"))
        BY DEF Stor
      <4>3. "PHASE_12_DST_226" \in Ends226 /\ sess[Dst] \in SessionRec
        BY <1>s, <3>1 DEF Ends226
      <4> HIDE DEF C
      <4>4. Adds(sess[Dst], t, C)
        BY <4>3, ReplyIdAdds
      <4> HIDE DEF t
      <4>5. Adds(t, CmdqNew(t, Cmd("STOR", "PHASE_10_STOR")), C)
        BY <4>1, <4>4, CmdAdds DEF Adds
      <4> QED
        BY <4>2, <4>4, <4>5, AddsTwice
    <3> HIDE DEF C
    <3> QED
      BY <1>e, <3>1, <3>3, <3>4, ToldOne
  <2> QED
    BY <2>1, <2>2
<1>13. CASE Phase11Start
  <2> DEFINE C == Named({"PHASE_11_RETR"}, {"RETR"})
  <2>0. In("FILE_PHASE_11_START") /\ "FILE_PHASE_11_START" \in FileState \cup DirectoryState
    BY <1>13 DEF Phase11Start, FileState
  <2>1. src \in Side /\ Sleep([sess EXCEPT ![src] = Retr(@)])
    BY <1>13, <2>0, TwoSides DEF Phase11Start
  <2>2. state' = "FILE_PHASE_11_WAIT" /\ state' \in FileState \ {"FILE_PHASE_1_IDLE"}
    BY <1>13 DEF Phase11Start, FileState
  <2>3. \A p \in Side : C \subseteq Asked(state', p) \cap Still
    BY <1>a, <2>2, AskedIs
  <2>4. Adds(sess[src], Retr(sess[src]), C)
    <3> DEFINE t == [sess[src] EXCEPT !.replyId = "PHASE_12_SRC_226"]
    <3>1. "RETR" \in Op \ {"ON", "OFF", "CWD", "MKD"} /\ "PHASE_11_RETR" \in Event
          /\ Cmd("RETR", "PHASE_11_RETR") \in C
      BY <1>c DEF Op, Event, Named
    <3>2. Retr(sess[src]) = CmdqNew(t, Cmd("RETR", "PHASE_11_RETR"))
      BY DEF Retr
    <3>3. "PHASE_12_SRC_226" \in Ends226 /\ sess[src] \in SessionRec
      BY <1>s, <2>1 DEF Ends226
    <3> HIDE DEF C
    <3>4. Adds(sess[src], t, C)
      BY <3>3, ReplyIdAdds
    <3> HIDE DEF t
    <3>5. Adds(t, CmdqNew(t, Cmd("RETR", "PHASE_11_RETR")), C)
      BY <3>1, <3>4, CmdAdds DEF Adds
    <3> QED
      BY <3>2, <3>4, <3>5, AddsTwice
  <2> HIDE DEF C
  <2> QED
    BY <1>e, <2>1, <2>3, <2>4, ToldOne
<1>14. CASE Phase11Wait
  <2>0. In("FILE_PHASE_11_WAIT") /\ "FILE_PHASE_11_WAIT" \in FileState \cup DirectoryState
    BY <1>14 DEF Phase11Wait, FileState
  <2>1. CASE Again(sess)
    BY <1>e, <2>1, ToldNothing
  <2>2. CASE ~Again(sess)
    <3>1. Dst \in Side /\ state' = "ITEM_FAILED"
          /\ Sleep([sess EXCEPT ![Dst] = CmdqNew(@, Cmd("ABOR", "PHASE_11_ABOR"))])
      BY <1>14, <2>0, <2>2, TwoSides DEF Phase11Wait
    <3>2. "ABOR" \in Op \ {"ON", "OFF", "CWD", "MKD"} /\ "PHASE_11_ABOR" \in Event
      BY DEF Op, Event
    <3>3. Cmd("ABOR", "PHASE_11_ABOR") \in Still
      BY <1>c, <3>2 DEF Steers
    <3>4. state' \in State \ (FileState \cup {"ACTIVE"})
      BY <3>1 DEF State, FileState, LossBlind
    <3>5. \A p \in Side : Still \subseteq Asked(state', p) \cap Still
      BY <1>o, <3>4
    <3>6. Adds(sess[Dst], CmdqNew(sess[Dst], Cmd("ABOR", "PHASE_11_ABOR")), Still)
      BY <1>g, <3>1, <3>2, <3>3
    <3> QED
      BY <1>e, <3>1, <3>5, <3>6, ToldOne
  <2> QED
    BY <2>1, <2>2
<1>15. CASE Phase12Start
  <2>1. CASE Again(sess)
    BY <1>e, <2>1, ToldNothing
  <2>2. CASE ~Again(sess)
    <3> DEFINE ss == [p \in Side |-> CmdqNew(sess[p], Cmd("NOOP", "PHASE_12_NOOP"))]
    <3>1. state' = "REMOVE_ITEM" /\ Again(ss)
      BY <1>15, <2>2 DEF Phase12Start
    <3>2. "NOOP" \in Op \ {"ON", "OFF", "CWD", "MKD"} /\ "PHASE_12_NOOP" \in Event
      BY DEF Op, Event
    <3>3. Cmd("NOOP", "PHASE_12_NOOP") \in Still
      BY <1>c, <3>2 DEF Steers
    <3>4. state' \in State \ (FileState \cup {"ACTIVE"})
      BY <3>1 DEF State, FileState, LossBlind
    <3>5. \A p \in Side : Still \subseteq Asked(state', p) \cap Still
      BY <1>o, <3>4
    <3>6. \A p \in Side : Adds(sess[p], ss[p], Still)
      BY <1>g, <3>2, <3>3
    <3> HIDE DEF ss
    <3> QED
      BY <1>e, <3>1, <3>5, <3>6, ToldBy
  <2> QED
    BY <2>1, <2>2
<1> QED
  BY <1>1, <1>2, <1>3, <1>4, <1>5, <1>6, <1>7, <1>8, <1>9, <1>10, <1>11, <1>12, <1>13,
     <1>14, <1>15 DEF FilePass

-----------------------------------------------------------------------------
(* What moves a session. *)

LEMMA CwdIs ==
  ASSUME NEW s \in SessionRec, NEW dir \in Path, NEW ev \in Event
  PROVE  /\ Cwd(s, dir, ev) \in SessionRec
         /\ IsIn(s, dir) => Cwd(s, dir, ev) = s
         /\ ~IsIn(s, dir) =>
              /\ Kept([s EXCEPT !.saved = dir], Cwd(s, dir, ev))
              /\ Cwd(s, dir, ev).cmdq =
                   IF s.here THEN Append(s.cmdq, [op |-> "CWD", arg |-> dir, ev |-> ev])
                   ELSE s.cmdq
<1> DEFINE t == [s EXCEPT !.saved = dir]
           cmd == [op |-> "CWD", arg |-> dir, ev |-> ev]
           r == Cwd(s, dir, ev)
<1>1. t \in SessionRec
  BY DEF SessionRec
<1>2. /\ t.here = s.here /\ t.status = s.status /\ t.cwd = s.cwd /\ t.pwd = s.pwd
      /\ t.saved = dir /\ t.cmdq = s.cmdq
  BY DEF SessionRec
<1>3. cmd \in Command
  BY DEF Command
<1>4. r = IF IsIn(s, dir) THEN s ELSE CmdqNew(t, cmd)
  BY DEF Cwd
<1> HIDE DEF t, cmd, r
<1>6. /\ CmdqNew(t, cmd) \in SessionRec /\ Kept(t, CmdqNew(t, cmd))
      /\ t.here => CmdqNew(t, cmd).cmdq = Append(t.cmdq, cmd)
      /\ ~t.here => CmdqNew(t, cmd) = t
  BY <1>1, <1>3, CmdqNewIs
<1>7. /\ r \in SessionRec /\ (IsIn(s, dir) => r = s)
      /\ ~IsIn(s, dir) =>
           Kept(t, r) /\ r.cmdq = IF s.here THEN Append(s.cmdq, cmd) ELSE s.cmdq
  <2>1. Kept(t, t)
    BY DEF Kept, Same
  <2> QED
    BY <1>2, <1>4, <1>6, <2>1
<1> QED
  BY <1>7 DEF t, cmd, r

\* What is in a list of S, and nowhere else.
LEMMA InList ==
  ASSUME NEW S, NEW q \in Seq(S)
  PROVE  \A i \in DOMAIN q : q[i] \in S
BY ElementOfSeq

\* A session that waits for no move is where it believes and remembers to be.
LEMMA BeliefStill ==
  ASSUME NEW s \in SessionRec, NEW r, s.cmdq \in Seq(Still), r.cmdq \in Seq(Still),
         Same(s, r), Belief(s)
  PROVE  Belief(r)
<1>1. \A c \in Still : c.op # "CWD" /\ ~Moves(c)
  BY DEF Still, Moves
<1>2. \A i \in DOMAIN s.cmdq : s.cmdq[i].op # "CWD"
  BY <1>1, InList
<1>3. \A i \in DOMAIN r.cmdq : r.cmdq[i].op # "CWD" /\ ~Moves(r.cmdq[i])
  BY <1>1, InList
<1> QED
  BY <1>2, <1>3 DEF Belief, Same

\* A command that moves nothing may be added to what is unanswered.
LEMMA BeliefAppend ==
  ASSUME NEW s \in SessionRec, NEW r, NEW c \in Still, Same(s, r), Belief(s),
         r.cmdq = Append(s.cmdq, c)
  PROVE  Belief(r)
<1> DEFINE n == Len(s.cmdq)
<1>1. n \in Nat /\ DOMAIN s.cmdq = 1 .. n /\ DOMAIN r.cmdq = 1 .. n + 1
  BY DEF SessionRec, Still
<1>2. /\ \A i \in 1 .. n : r.cmdq[i] = s.cmdq[i]
      /\ r.cmdq[n + 1] = c
  BY DEF SessionRec, Still
<1>3. c.op # "CWD" /\ ~Moves(c)
  BY DEF Still, Moves
<1> HIDE DEF n
<1>4. \A i \in 1 .. n + 1 : i \in 1 .. n \/ i = n + 1
  BY <1>1
<1>5. \A i \in 1 .. n : i \in 1 .. n + 1
  BY <1>1
<1> QED
  BY <1>1, <1>2, <1>3, <1>4, <1>5, Zenon DEF Belief, Same

\* A session that is as before, with what it waits for.
LEMMA BeliefSame ==
  ASSUME NEW s, NEW r, Same(s, r), r.cmdq = s.cmdq, Belief(s)
  PROVE  Belief(r)
BY DEF Belief, Same

LEMMA BeliefNew == Belief(NewSession) /\ NewSession.here /\ ~NoSession.here
BY DEF Belief, NewSession, NoSession

\* "Change to the correct directory." (queue.c:1165): a session that is asked
\* nothing is told one move, or is there.
LEMMA CwdTells ==
  ASSUME NEW s \in SessionRec, NEW dir \in Dirs, NEW ev \in Event, s.here, s.cmdq = <<>>,
         Belief(s), NEW r, r = Cwd(s, dir, ev)
  PROVE  /\ r \in SessionRec /\ r.here /\ r.status = s.status /\ Belief(r)
         /\ \/ r.cmdq = <<>> /\ dir \in {r.pwd, r.cwd}
            \/ r.cmdq = <<[op |-> "CWD", arg |-> dir, ev |-> ev]>>
<1> DEFINE cmd == [op |-> "CWD", arg |-> dir, ev |-> ev]
           t == [s EXCEPT !.saved = dir]
<1>0. dir \in Path /\ dir # "-"
  BY DirsAssumption DEF Path
<1>c. /\ t.here = s.here /\ t.status = s.status /\ t.cwd = s.cwd /\ t.pwd = s.pwd
      /\ t.saved = dir /\ cmd.op = "CWD" /\ cmd.arg = dir
  BY DEF SessionRec
<1>d. /\ r \in SessionRec
      /\ IsIn(s, dir) => r = s
      /\ ~IsIn(s, dir) =>
           Kept(t, r) /\ r.cmdq = IF s.here THEN Append(s.cmdq, cmd) ELSE s.cmdq
  BY <1>0, CwdIs
<1>e. cmd = [op |-> "CWD", arg |-> dir, ev |-> ev]
  OBVIOUS
<1> HIDE DEF cmd, t
<1>1. CASE IsIn(s, dir)
  <2>1. r = s
    BY <1>1, <1>d
  <2>2. dir \in {s.pwd, s.cwd}
    BY <1>0, <1>1 DEF Belief, IsIn
  <2> QED
    BY <2>1, <2>2
<1>2. CASE ~IsIn(s, dir)
  <2>1. /\ r \in SessionRec /\ r.here /\ r.status = s.status /\ r.cwd = s.cwd /\ r.pwd = s.pwd
        /\ r.saved = dir /\ r.cmdq = Append(<<>>, cmd)
    BY <1>2, <1>c, <1>d DEF Kept, Same
  <2>2. r.cmdq = <<cmd>> /\ DOMAIN r.cmdq = {1} /\ r.cmdq[1] = cmd
    BY <2>1
  <2>3. Belief(r)
    BY <1>c, <2>1, <2>2 DEF Belief
  <2> QED
    BY <1>e, <2>1, <2>2, <2>3
<1> QED
  BY <1>1, <1>2

\* What the handler has the destination do, and on which replies.
LEMMA MoreIs ==
  ASSUME NEW s, NEW ev, NEW code
  PROVE  /\ Makes(s, ev, code) =>
              More(s, ev, code) = <<[op |-> "MKD", arg |-> NextMkd, ev |-> "PHASE_1_DST_MKD"]>>
         /\ ~Makes(s, ev, code) /\ Enters(s, ev, code) =>
              More(s, ev, code) = <<[op |-> "CWD", arg |-> LastMkd, ev |-> "PHASE_1_DST_CWD2"]>>
         /\ ~Makes(s, ev, code) /\ ~Enters(s, ev, code) => More(s, ev, code) = <<>>
         /\ ev \notin Steers => ~Makes(s, ev, code) /\ ~Enters(s, ev, code)
<1>1. Makes(s, ev, code) => ~Enters(s, ev, code)
  BY DEF Makes, Enters
<1> QED
  BY <1>1 DEF More, Makes, Enters, Steers

-----------------------------------------------------------------------------
(* What an event of a session changes. *)

\* A failed item stays failed and keeps what it was queued with, if it is there.
Blames ==
  items # <<>> =>
    /\ items' # <<>> /\ Head(items').id = Top.id /\ Head(items').dir = Top.dir
    /\ Head(items').rest = Top.rest
    /\ Failed => Failed'

\* An event that answers no command, or costs the session.
Quiet(p) ==
  /\ UNCHANGED <<secure, mkd, store>> /\ Blames
  /\ sess'[p] = NoSession \/ (Same(sess[p], sess'[p]) /\ sess'[p].cmdq = sess[p].cmdq)

\* An event that answers a command with a code.
Answers(p, cmd, code) ==
  LET s == Digest(sess[p], cmd, code)
  IN  /\ sess[p].here /\ sess[p].cmdq # <<>> /\ cmd = Head(sess[p].cmdq) /\ code \in Codes(cmd)
      /\ sess'[p] = Answered(sess[p], code, More(s, cmd.ev, Heard(code)))
      /\ items = <<>> => ~FollowsTop(s, cmd.ev, Heard(code))
      /\ items' = IF items = <<>> THEN items ELSE SetTop(TopAfter(cmd.ev, Heard(code)))
      /\ secure' = (secure \/ (Heard(code) = "ok" /\ cmd.ev \in {"PHASE_2_SRC_SECURE",
                                                                "PHASE_2_DST_SECURE"}))
      /\ mkd' = MkdAfter(s, cmd.ev, Heard(code))
      /\ store' = IF Makes(s, cmd.ev, Heard(code)) THEN mkd > 1 ELSE store

\* The end of a transfer or of a listing is charged to the first item.
LEMMA SecondBlames ==
  ASSUME IInv, loop = "poll", NEW id \in ReplyId, NEW code, items # <<>>,
         items' = SetTop(Second(id, code))
  PROVE  Blames
<1>1. Top \in Triable /\ Top \in Item /\ items \in Seq(Triable)
  BY PollingItems DEF IInv, Triable
<1>2. Second(id, code) \in Triable
  BY <1>1, SecondType
<1>3. /\ Second(id, code).id = Top.id /\ Second(id, code).dir = Top.dir
      /\ Second(id, code).rest = Top.rest
      /\ Top.sfail => Second(id, code).sfail
      /\ Top.dfail => Second(id, code).dfail
  BY <1>1 DEF Second, Item, ReplyId
<1>4. items' # <<>> /\ Head(items') = Second(id, code)
  <2>1. items' # <<>>
    BY <1>1, <1>2, HeadAndTail DEF SetTop
  <2> QED
    BY <1>1, <1>2, <2>1, HeadOfSetTop
<1> QED
  BY <1>3, <1>4 DEF Blames, Failed, Top

LEMMA BlamesNone ==
  ASSUME UNCHANGED items
  PROVE  Blames
BY DEF Blames, Failed, Top

\* Every event of a session is the one or the other.
LEMMA EventIs ==
  ASSUME IInv, NEW p \in Side, SessionEvent(p)
  PROVE  /\ UNCHANGED <<state, stop, src>> /\ loop = "poll" /\ wire'.to = wire.to
         /\ \A q \in Side \ {p} : sess'[q] = sess[q]
         /\ Quiet(p) \/ \E cmd, code : Answers(p, cmd, code)
<1>0. sess[p] \in SessionRec /\ sess \in [Side -> SessionRec] /\ p \in Side
  BY DEF IInv, SessionInv
<1>1. UNCHANGED <<state, stop, src>> /\ loop = "poll"
  BY DEF SessionEvent, Login, Reply, TransferEnd, ListingEnd, DataLine, DataClosed, Lost,
     Die, queueVars, Listing, Polling
<1>2. wire'.to = wire.to
  <2>1. \A g : [wire EXCEPT !.got = g].to = wire.to
    BY DEF IInv, WorldInv
  <2>2. wire' = wire \/ \E g : wire' = [wire EXCEPT !.got = g]
    BY DEF SessionEvent, Login, Reply, TransferEnd, ListingEnd, DataLine, DataClosed,
       Lost, Die, worldVars
  <2> QED
    BY <2>1, <2>2
<1>3. \A q \in Side \ {p} : sess'[q] = sess[q]
  <2>1. sess' = sess \/ \E r : sess' = [sess EXCEPT ![p] = r]
    BY DEF SessionEvent, Login, Reply, TransferEnd, ListingEnd, DataLine, DataClosed,
       Lost, Die, LoseSession
  <2> QED
    BY <1>0, <2>1
<1>k. Same(sess[p], sess[p])
  BY DEF Kept, Same
<1>4. CASE Reply(p)
  <2> DEFINE cmd == Head(sess[p].cmdq)
  <2>1. PICK code \in Codes(cmd) :
          \/ Closes(cmd, code) /\ LoseSession(p) /\ UNCHANGED <<listVars, fileVars>>
          \/ Die
          \/ Answers(p, cmd, code)
    BY <1>0, <1>4 DEF Reply, Answers, Die
  <2>2. LoseSession(p) /\ UNCHANGED <<listVars, fileVars>> => Quiet(p)
    BY <1>0, BlamesNone DEF LoseSession, listVars, fileVars, Quiet
  <2>3. Die => Quiet(p)
    BY <1>k, BlamesNone DEF Die, listVars, fileVars, Quiet
  <2> QED
    BY <1>1, <1>2, <1>3, <2>1, <2>2, <2>3
<1>5. CASE TransferEnd(p) \/ DataClosed(p)
  <2>1. sess[p].replyId \in ReplyId
    BY <1>0 DEF SessionRec
  <2>2. UNCHANGED items \/ (items # <<>> /\ \E code : items' = SetTop(Second(sess[p].replyId, code)))
    BY <1>5 DEF TransferEnd, DataClosed, Die, listVars
  <2>3. Blames
    BY <1>1, <2>1, <2>2, SecondBlames, BlamesNone
  <2>4. UNCHANGED fileVars
    BY <1>5 DEF TransferEnd, DataClosed, Die
  <2>5. sess'[p] \in {sess[p], TransferEnded(sess[p]), [sess[p] EXCEPT !.data = FALSE]}
    BY <1>0, <1>5 DEF TransferEnd, DataClosed, Die
  <2>6. /\ Same(sess[p], TransferEnded(sess[p])) /\ TransferEnded(sess[p]).cmdq = sess[p].cmdq
        /\ Same(sess[p], [sess[p] EXCEPT !.data = FALSE])
        /\ [sess[p] EXCEPT !.data = FALSE].cmdq = sess[p].cmdq
    BY <1>0 DEF Kept, Same, TransferEnded, SessionRec
  <2>7. Quiet(p)
    BY <1>k, <2>3, <2>4, <2>5, <2>6 DEF Quiet, fileVars
  <2> QED
    BY <1>1, <1>2, <1>3, <2>7
<1>6. CASE Login(p) \/ ListingEnd(p) \/ DataLine(p) \/ Lost(p)
  <2>1. UNCHANGED <<items, fileVars>>
    BY <1>6 DEF Login, ListingEnd, DataLine, Lost, listVars
  <2> DEFINE a == [sess[p] EXCEPT !.login = TRUE, !.isidle = TRUE]
             b == [sess[p] EXCEPT !.state = "IDLE"]
             c == [sess[p] EXCEPT !.files = TRUE]
  <2>2. sess'[p] \in {NoSession, Restart(a), Restart(b), c}
    BY <1>0, <1>6 DEF Login, ListingEnd, DataLine, Lost, LoseSession, LoggedIn, ListEnded
  <2>3. /\ Same(sess[p], a) /\ a.cmdq = sess[p].cmdq /\ a \in SessionRec
        /\ Same(sess[p], b) /\ b.cmdq = sess[p].cmdq /\ b \in SessionRec
        /\ Same(sess[p], c) /\ c.cmdq = sess[p].cmdq
    BY <1>0 DEF Kept, Same, SessionRec
  <2> HIDE DEF a, b, c
  <2>4. /\ Same(sess[p], Restart(a)) /\ Restart(a).cmdq = sess[p].cmdq
        /\ Same(sess[p], Restart(b)) /\ Restart(b).cmdq = sess[p].cmdq
    BY <2>3, RestartIs DEF Kept, Same
  <2>5. Quiet(p)
    BY <2>1, <2>2, <2>3, <2>4, BlamesNone DEF Quiet, fileVars
  <2> QED
    BY <1>1, <1>2, <1>3, <2>5
<1> QED
  BY <1>4, <1>5, <1>6 DEF SessionEvent

\* An answer is digested, and the handler may add to what is unanswered.
LEMMA AnswersIs ==
  ASSUME IInv, NEW p \in Side, NEW cmd, NEW code, Answers(p, cmd, code), loop = "poll"
  PROVE  /\ sess[p] \in SessionRec /\ sess[p].cmdq # <<>> /\ cmd = Head(sess[p].cmdq)
         /\ cmd \in Command /\ sess'[p] \in SessionRec /\ sess'[p].here
         /\ More(Digest(sess[p], cmd, code), cmd.ev, Heard(code)) \in Seq(Command)
         /\ ReadTo(sess[p], cmd, code, More(Digest(sess[p], cmd, code), cmd.ev, Heard(code)), sess'[p])
<1> DEFINE s == sess[p]
           more == More(Digest(s, cmd, code), cmd.ev, Heard(code))
<1>1. /\ s \in SessionRec /\ s.here /\ s.cmdq # <<>> /\ cmd = Head(s.cmdq)
      /\ sess'[p] = Answered(s, code, more)
      /\ items = <<>> => ~FollowsTop(Digest(s, cmd, code), cmd.ev, Heard(code))
  BY DEF Answers, IInv, SessionInv
<1>2. cmd \in Command
  BY <1>1, HeadTailProperties DEF SessionRec
<1>3. items # <<>> => Top \in Triable
  BY PollingItems DEF IInv
<1>4. more \in Seq(Command)
  BY <1>1, <1>3, MoreType
<1> HIDE DEF s, more
<1>5. sess'[p] \in SessionRec /\ ReadTo(s, cmd, code, more, sess'[p])
  BY <1>1, <1>4, AnsweredIs
<1>6. sess'[p].here
  BY <1>1, <1>5 DEF ReadTo
<1> QED
  BY <1>1, <1>2, <1>4, <1>5, <1>6 DEF s, more

\* An answer to what moves nothing makes no other command.
LEMMA StillAnswered ==
  ASSUME IInv, NEW p \in Side, NEW cmd \in Still, NEW code, Answers(p, cmd, code), loop = "poll"
  PROVE  /\ sess[p] \in SessionRec /\ sess'[p] \in SessionRec /\ sess'[p].here
         /\ sess[p].cmdq # <<>> /\ cmd = Head(sess[p].cmdq)
         /\ sess'[p].cmdq = Tail(sess[p].cmdq)
         /\ sess'[p].status = StatusAfter(sess[p], cmd, code)
         /\ sess'[p].cwd = sess[p].cwd /\ sess'[p].saved = sess[p].saved
         /\ sess'[p].prot = ProtAfter(sess[p], cmd, code)
         /\ sess'[p].pwd = IF cmd.op = "PWD" THEN sess[p].cwd ELSE sess[p].pwd
         /\ store' = store /\ (cmd.ev # "DIRECTORY_PHASE_1_DST_CWD" => mkd' = mkd)
<1> DEFINE s == sess[p]
           r == sess'[p]
           more == More(Digest(s, cmd, code), cmd.ev, Heard(code))
<1>1. cmd.op # "CWD" /\ cmd.ev \notin Steers
  BY DEF Still, Moves
<1>2. more = <<>> /\ ~Makes(Digest(s, cmd, code), cmd.ev, Heard(code))
  BY <1>1, MoreIs
<1>3. store' = store /\ (cmd.ev # "DIRECTORY_PHASE_1_DST_CWD" => mkd' = mkd)
  BY <1>2 DEF Answers, MkdAfter
<1>4. /\ s \in SessionRec /\ r \in SessionRec /\ r.here
      /\ s.cmdq # <<>> /\ cmd = Head(s.cmdq)
      /\ ReadTo(s, cmd, code, more, r)
  BY AnswersIs
<1> HIDE DEF s, r, more
<1>5. ~Moved(cmd, code)
  BY <1>1 DEF Moved
<1>6. /\ r.status = StatusAfter(s, cmd, code)
      /\ r.cmdq = Tail(s.cmdq) \o <<>> /\ r.cwd = s.cwd /\ r.saved = s.saved
      /\ r.prot = ProtAfter(s, cmd, code)
      /\ r.pwd = IF cmd.op = "PWD" THEN s.cwd ELSE s.pwd
  BY <1>1, <1>2, <1>4, <1>5 DEF ReadTo, CwdAfter
<1>7. Tail(s.cmdq) \o <<>> = Tail(s.cmdq)
  <2>1. Tail(s.cmdq) \in Seq(Command)
    BY <1>4, HeadTailProperties DEF SessionRec
  <2> QED
    BY <2>1, ConcatEmptySeq
<1> QED
  BY <1>3, <1>4, <1>6, <1>7 DEF s, r

-----------------------------------------------------------------------------
(* FlightInv is kept. *)

LEMMA AskedSame ==
  ASSUME NEW p, src' = src \/ state' # "FILE_PHASE_1_IDLE"
  PROVE  Asked(state, p)' = Asked(state', p)
BY DEF Asked

LEMMA FlightTold ==
  ASSUME Told(state'), src' = src \/ state' # "FILE_PHASE_1_IDLE"
  PROVE  FlightInv'
<1> SUFFICES ASSUME NEW p \in Side PROVE sess'[p].cmdq \in Seq(Asked(state', p))
  BY AskedSame DEF FlightInv
<1>1. CASE sess'[p] = NoSession
  BY <1>1 DEF NoSession, NewSession
<1>2. CASE sess'[p].cmdq \in Seq(Asked(state', p) \cap Still)
  <2>1. Seq(Asked(state', p) \cap Still) \subseteq Seq(Asked(state', p))
    BY SeqMonotonic
  <2> QED
    BY <1>2, <2>1
<1> QED
  BY <1>1, <1>2 DEF Told

LEMMA EventFlight ==
  ASSUME IInv, FlightInv, NEW p \in Side, SessionEvent(p)
  PROVE  FlightInv'
<1>1. /\ UNCHANGED <<state, stop, src>> /\ loop = "poll"
      /\ \A q \in Side \ {p} : sess'[q] = sess[q]
      /\ Quiet(p) \/ \E cmd, code : Answers(p, cmd, code)
  BY EventIs
<1>2. \A q \in Side : Asked(state, q)' = Asked(state, q)
  BY <1>1, AskedSame
<1> SUFFICES sess'[p].cmdq \in Seq(Asked(state, p))
  BY <1>1, <1>2 DEF FlightInv
<1> DEFINE C == Asked(state, p)
<1>3. sess[p].cmdq \in Seq(C)
  BY DEF FlightInv
<1>4. CASE Quiet(p)
  <2>1. CASE sess'[p] = NoSession
    BY <2>1 DEF NoSession, NewSession
  <2> QED
    BY <1>3, <1>4, <2>1 DEF Quiet
<1>5. CASE \E cmd, code : Answers(p, cmd, code)
  <2>1. PICK cmd, code : Answers(p, cmd, code)
    BY <1>5
  <2>2. sess[p].cmdq # <<>> /\ cmd = Head(sess[p].cmdq)
    BY <2>1 DEF Answers
  <2>3. cmd \in C /\ Tail(sess[p].cmdq) \in Seq(C)
    BY <1>3, <2>2, HeadTailProperties
  <2>4. CASE state \in (FileState \cup {"ACTIVE"}) \ {"FILE_PHASE_1_IDLE"}
    <3>1. cmd \in Still
      BY <2>3, <2>4, AskedStill
    <3>2. sess'[p].cmdq = Tail(sess[p].cmdq)
      BY <1>1, <2>1, <3>1, StillAnswered
    <3> QED
      BY <2>3, <3>2
  <2>5. CASE state \notin FileState \cup {"ACTIVE"}
    <3>1. C = Command
      BY <2>5, AskedIs DEF IInv, ListInv
    <3>2. sess'[p] \in SessionRec
      BY EventSessions DEF IInv, SessionInv
    <3> QED
      BY <3>1, <3>2 DEF SessionRec
  <2>6. CASE state = "FILE_PHASE_1_IDLE"
    <3> DEFINE more == More(Digest(sess[p], cmd, code), cmd.ev, Heard(code))
    <3>1. C = IF p = src THEN Goes ELSE GoesOrMakes
      BY <2>6, AskedIs
    <3>2. /\ cmd \in Command /\ more \in Seq(Command)
          /\ sess'[p].cmdq = (IF Moved(cmd, code) THEN Append(Tail(sess[p].cmdq), Pwd)
                              ELSE Tail(sess[p].cmdq)) \o more
      <4>1. /\ cmd \in Command /\ more \in Seq(Command)
            /\ ReadTo(sess[p], cmd, code, more, sess'[p])
        BY <1>1, <2>1, AnswersIs
      <4> HIDE DEF more
      <4> QED
        BY <4>1 DEF ReadTo
    <3>3. Pwd \in C
      <4>1. Pwd \in Command /\ Pwd.ev = "none" /\ Pwd.op = "PWD"
        BY CmdType DEF Pwd, Op, Event, Cmd
      <4> QED
        BY <3>1, <4>1 DEF Goes, GoesOrMakes, Named
    <3>4. more \in Seq(C)
      <4>1. CASE cmd.ev \notin Steers
        <5>1. more = <<>>
          BY <4>1, MoreIs
        <5> QED
          BY <5>1
      <4>2. CASE cmd.ev \in Steers
        <5>1. p # src
          BY <2>3, <3>1, <4>2 DEF Goes, Named, Steers
        <5>2. \A c \in Command :
                /\ c.op = "MKD" /\ c.ev = "PHASE_1_DST_MKD" => c \in C
                /\ c.op = "CWD" /\ c.ev = "PHASE_1_DST_CWD2" => c \in C
          BY <3>1, <5>1 DEF GoesOrMakes, Named
        <5>3. \/ more = <<>>
              \/ more = <<[op |-> "MKD", arg |-> NextMkd, ev |-> "PHASE_1_DST_MKD"]>>
              \/ more = <<[op |-> "CWD", arg |-> LastMkd, ev |-> "PHASE_1_DST_CWD2"]>>
          BY MoreIs
        <5> HIDE DEF more, C
        <5>4. CASE more # <<>>
          <6>1. PICK c : more = <<c>>
                         /\ \/ c.op = "MKD" /\ c.ev = "PHASE_1_DST_MKD"
                            \/ c.op = "CWD" /\ c.ev = "PHASE_1_DST_CWD2"
            BY <5>3, <5>4
          <6>2. c \in Command
            BY <3>2, <6>1, HeadTailProperties
          <6>3. c \in C
            BY <5>2, <6>1, <6>2
          <6> QED
            BY <6>1, <6>3
        <5>5. CASE more = <<>>
          BY <5>5
        <5> QED
          BY <5>4, <5>5
      <4> QED
        BY <4>1, <4>2
    <3> HIDE DEF more, C
    <3>5. Append(Tail(sess[p].cmdq), Pwd) \in Seq(C)
      BY <2>3, <3>3
    <3> QED
      BY <2>3, <3>2, <3>4, <3>5, ConcatProperties DEF C
  <2> QED
    BY <2>4, <2>5, <2>6
<1> QED
  BY <1>1, <1>4, <1>5

\* What a session makes of an order to move.
GoneTo(p, ev) ==
  \/ ~sess'[p].here /\ sess'[p].cmdq = <<>>
  \/ /\ sess[p].here /\ sess'[p].here /\ Belief(sess'[p]) /\ sess'[p].status = sess[p].status
     /\ \/ sess'[p].cmdq = <<>> /\ Top.dir \in {sess'[p].pwd, sess'[p].cwd}
        \/ sess'[p].cmdq = <<[op |-> "CWD", arg |-> Top.dir, ev |-> ev]>>

LEMMA CwdGoes ==
  ASSUME IInv, BeliefInv, Empties, NEW p \in Side, Top.dir \in Dirs, NEW ev \in Event,
         NEW r, r = Cwd(sess[p], Top.dir, ev), sess'[p] \in {NoSession, r}
  PROVE  GoneTo(p, ev)
<1>0. sess[p] \in SessionRec /\ sess[p].cmdq = <<>>
  BY DEF IInv, SessionInv, Empties
<1>1. CASE sess'[p] = NoSession
  BY <1>1 DEF GoneTo, NoSession, NewSession
<1>2. CASE sess'[p] = r /\ sess[p].here
  BY <1>0, <1>2, CwdTells DEF BeliefInv, GoneTo
<1>3. CASE sess'[p] = r /\ ~sess[p].here
  <2> DEFINE s == sess[p]
             dir == Top.dir
             t == [s EXCEPT !.saved = dir]
  <2>1. t.here = s.here
    BY <1>0 DEF SessionRec
  <2>2. dir \in Path
    BY DEF Path
  <2>3. IsIn(s, dir) => Cwd(s, dir, ev) = s
    BY <1>0, <2>2, CwdIs
  <2>4. ~IsIn(s, dir) => Kept(t, Cwd(s, dir, ev)) /\ Cwd(s, dir, ev).cmdq = s.cmdq
    BY <1>0, <1>3, <2>2, CwdIs
  <2>5. r = Cwd(s, dir, ev) /\ s.cmdq = <<>> /\ ~s.here
    BY <1>0, <1>3
  <2> HIDE DEF t, s, dir
  <2>6. r.here = s.here /\ r.cmdq = s.cmdq
    BY <2>1, <2>3, <2>4, <2>5 DEF Kept, Same
  <2> QED
    BY <1>3, <2>5, <2>6 DEF GoneTo
<1> QED
  BY <1>1, <1>2, <1>3

\* Phase 1 of a file and of a directory send each session to the item's.
LEMMA BothGo ==
  ASSUME IInv, BeliefInv, Empties, NEW st \in FileState \cup DirectoryState, In(st),
         NEW a \in Event, NEW b \in Event,
         NEW ss, ss = [sess EXCEPT ![src] = Cwd(@, Top.dir, a), ![Dst] = Cwd(@, Top.dir, b)],
         \E nodelay : Settle(ss, nodelay)
  PROVE  \A p \in Side : GoneTo(p, IF p = src THEN a ELSE b)
<1>1. /\ src \in Side /\ Dst \in Side /\ Dst # src /\ \A p \in Side : p \in {src, Dst}
      /\ sess \in [Side -> SessionRec]
  BY TwoSides
<1>2. Top.dir \in Dirs
  <2>1. Top \in Triable
    BY InPhase DEF IInv
  <2> QED
    BY <2>1 DEF Triable, Item
<1>3. ss[src] = Cwd(sess[src], Top.dir, a) /\ ss[Dst] = Cwd(sess[Dst], Top.dir, b)
  BY <1>1
<1>4. \A p \in Side : sess'[p] \in {NoSession, ss[p]}
  BY Leaves
<1>5. GoneTo(src, a)
  BY <1>1, <1>2, <1>3, <1>4, CwdGoes
<1>6. GoneTo(Dst, b)
  BY <1>1, <1>2, <1>3, <1>4, CwdGoes
<1>7. ASSUME NEW p \in Side PROVE GoneTo(p, IF p = src THEN a ELSE b)
  <2>1. CASE p = src
    BY <1>5, <2>1
  <2>2. CASE p = Dst
    BY <1>1, <1>6, <2>2
  <2> QED
    BY <1>1, <2>1, <2>2
<1> QED
  BY <1>7

LEMMA Phase1Goes ==
  ASSUME IInv, FlightInv, BeliefInv, Phase1Start
  PROVE  /\ state = "FILE_PHASE_1_START" /\ state' = "FILE_PHASE_1_IDLE" /\ items # <<>>
         /\ src \in Side /\ Dst \in Side /\ Dst # src
         /\ UNCHANGED <<src, items>>
         /\ \A p \in Side : GoneTo(p, IF p = src THEN "PHASE_1_SRC_CWD" ELSE "PHASE_1_DST_CWD")
<1>1. In("FILE_PHASE_1_START") /\ "FILE_PHASE_1_START" \in FileState \cup DirectoryState
  BY DEF Phase1Start, FileState
<1>2. /\ state = "FILE_PHASE_1_START" /\ items # <<>>
      /\ src \in Side /\ Dst \in Side /\ Dst # src
  BY <1>1, InPhase, TwoSides DEF IInv
<1>3. state' = "FILE_PHASE_1_IDLE" /\ UNCHANGED <<src, items>>
  BY DEF Phase1Start, listVars
<1>4. Empties
  BY PassEmpties DEF FilePass
<1>5. "PHASE_1_SRC_CWD" \in Event /\ "PHASE_1_DST_CWD" \in Event
  BY DEF Event
<1>6. PICK ss : /\ ss = [sess EXCEPT ![src] = Cwd(@, Top.dir, "PHASE_1_SRC_CWD"),
                                     ![Dst] = Cwd(@, Top.dir, "PHASE_1_DST_CWD")]
                /\ \E nodelay : Settle(ss, nodelay)
  BY DEF Phase1Start
<1>7. \A p \in Side : GoneTo(p, IF p = src THEN "PHASE_1_SRC_CWD" ELSE "PHASE_1_DST_CWD")
  BY <1>1, <1>4, <1>5, <1>6, BothGo
<1> QED
  BY <1>2, <1>3, <1>7

\* Whatever is unanswered when the queue is not in a phase of a file.
LEMMA FlightAny ==
  ASSUME IInv', state' \notin FileState \cup {"ACTIVE"}
  PROVE  FlightInv'
<1>1. state' \in State /\ \A p \in Side : sess'[p].cmdq \in Seq(Command)
  BY DEF IInv, ListInv, SessionInv, SessionRec
<1>2. \A p \in Side : Asked(state', p) = Command
  BY <1>1, AskedIs
<1>3. state' # "FILE_PHASE_1_IDLE"
  BY DEF FileState
<1> QED
  BY <1>1, <1>2, <1>3, AskedSame DEF FlightInv

LEMMA PassFlight ==
  ASSUME IInv, IInv', FlightInv, BeliefInv, Pass
  PROVE  FlightInv'
<1>e. \A S : <<>> \in Seq(S)
  OBVIOUS
<1>1. CASE FilePass /\ ~Phase1Start
  <2>1. src' = src
    BY <1>1 DEF FilePass, FileStart, Phase1Start, Phase1Idle, Phase2Plain, Phase2Local,
       Phase2Client, Phase2Wait, Phase2Disable, Phase3Start, Phase3Wait, Phase4Start,
       Phase5Start, Phase5RestWait, Phase6Start, Phase7Start, Phase7Wait, Phase8Start,
       Phase8Wait, Phase9Start, Phase9Rest, Phase10Start, Phase10Wait, Phase11Start,
       Phase11Wait, Phase12Start
  <2> QED
    BY <1>1, <2>1, FilePassTold, FlightTold
<1>2. CASE Phase1Start
  <2>1. /\ state' = "FILE_PHASE_1_IDLE" /\ UNCHANGED src /\ items # <<>>
        /\ \A p \in Side : GoneTo(p, IF p = src THEN "PHASE_1_SRC_CWD" ELSE "PHASE_1_DST_CWD")
    BY <1>2, Phase1Goes
  <2> SUFFICES ASSUME NEW p \in Side PROVE sess'[p].cmdq \in Seq(Asked(state', p))
    BY <2>1, AskedSame DEF FlightInv
  <2> DEFINE ev == IF p = src THEN "PHASE_1_SRC_CWD" ELSE "PHASE_1_DST_CWD"
             cmd == [op |-> "CWD", arg |-> Top.dir, ev |-> ev]
  <2>2. sess'[p].cmdq = <<>> \/ sess'[p].cmdq = <<cmd>>
    BY <2>1 DEF GoneTo
  <2>3. CASE sess'[p].cmdq = <<cmd>>
    <3>1. cmd \in Command
      <4>1. sess'[p].cmdq \in Seq(Command)
        BY DEF IInv, SessionInv, SessionRec
      <4> HIDE DEF cmd
      <4> QED
        BY <2>3, <4>1, HeadTailProperties
    <3>2. cmd \in Asked(state', p)
      BY <2>1, <3>1, AskedIs DEF Goes, GoesOrMakes, Named
    <3> HIDE DEF cmd
    <3> QED
      BY <2>3, <3>2
  <2> QED
    BY <1>e, <2>2, <2>3
<1>3. CASE StartNextItem \/ Active
  <2>1. sess' = sess
    BY <1>3 DEF StartNextItem, Active, Again
  <2>2. Empties
    <3>1. CASE StartNextItem
      BY <3>1 DEF StartNextItem, BothIdle, IsIdle, Empties
    <3>2. CASE Active
      <4>1. state \in Calm
        BY <3>2, InState DEF Active, Calm
      <4>2. \A p \in Side : sess[p].cmdq \in Seq({})
        BY <4>1, AskedIs DEF FlightInv
      <4> QED
        BY <4>2, EmptyOnly DEF Empties
    <3> QED
      BY <1>3, <3>1, <3>2
  <2> QED
    BY <1>e, <2>1, <2>2 DEF FlightInv, Empties
<1>4. CASE Waiting
  <2>1. UNCHANGED <<state, src>> /\ Sleep(sess)
    BY <1>4 DEF Waiting, queueVars
  <2>2. \A p \in Side : sess'[p] \in {NoSession, sess[p]}
    BY <2>1, Leaves
  <2>3. NoSession.cmdq = <<>>
    BY DEF NoSession, NewSession
  <2>4. \A p \in Side : sess'[p].cmdq \in Seq(Asked(state, p))
    BY <1>e, <2>2, <2>3 DEF FlightInv
  <2> QED
    BY <2>1, <2>4, AskedSame DEF FlightInv
<1>5. CASE ~(FilePass \/ StartNextItem \/ Active \/ Waiting)
  <2>1. state' \notin FileState \cup {"ACTIVE"}
    <3>1. CASE Idle
      BY <3>1, InState DEF Idle, FileState
    <3>2. CASE ~Idle
      BY <1>5, <3>2 DEF Pass, Start, IsConnected, ActiveEnd, DirectoryPass, DirectoryStart,
         DirectoryPhase1Idle, DirectoryPhase2Start, DirectoryPhase2Mkd,
         DirectoryPhase2Compare, ItemFailed, RequeueItem, ErrorItem, RemoveItem, Empty,
         NextItem, FileState
    <3> QED
      BY <3>1, <3>2
  <2> QED
    BY <2>1, FlightAny
<1>6. Phase1Start => FilePass
  BY DEF FilePass
<1> QED
  BY <1>1, <1>2, <1>3, <1>4, <1>5

LEMMA CommandFlight ==
  ASSUME IInv, IInv', FlightInv, Command2
  PROVE  FlightInv'
<1>1. state' \in {"START", "IDLE"} \/ UNCHANGED <<state, src, sess>>
  BY DEF Command2, Go, Stop, StopDrop, QAdd, QDel, QMove, queueVars
<1>2. CASE UNCHANGED <<state, src, sess>>
  BY <1>2, AskedSame DEF FlightInv
<1>3. CASE state' \in {"START", "IDLE"}
  BY <1>3, FlightAny DEF FileState
<1> QED
  BY <1>1, <1>2, <1>3

-----------------------------------------------------------------------------
(* BeliefInv is kept. *)

\* A listing's commands post no event, and none of them moves the session.
LEMMA DirlistAdds ==
  ASSUME NEW site \in Site, NEW s \in SessionRec,
         NEW id \in {"DIRECTORY_PHASE_2_SRC_DIRLIST", "DIRECTORY_PHASE_2_DST_DIRLIST"},
         NEW C, \A c \in Command : c.ev = "none" /\ c.op \notin {"CWD", "MKD"} => c \in C,
         NEW r, r = Dirlist(site, s, id)
  PROVE  /\ Same(s, r) /\ r.login = s.login /\ r.state = s.state
         /\ s.cmdq \in Seq(C) => r.cmdq \in Seq(C)
<1> DEFINE t0 == [s EXCEPT !.replyId = id]
           s0 == [t0 EXCEPT !.files = FALSE]
           s1 == SetFlag(s0, "BINARY", site.desiredType = "YES", "none")
           t1 == Ccsn(site, s1, FALSE, "none")
           s2 == Sscn(site, t1, FALSE, "none")
           t2 == Rest(s2, FALSE, "none")
           s3 == ListProt(site, t2)
           s4 == Pret(site, s3, "none")
           op5 == IF site.passive = "NO" THEN "PORT" ELSE "PASV"
           s5 == CmdqNew(s4, Cmd(op5, "none"))
<1>1. r = CmdqNew(s5, Cmd("LIST", "none"))
  <2>1. [s EXCEPT !.replyId = id, !.files = FALSE] = s0
    OBVIOUS
  <2> HIDE DEF s0
  <2> QED
    BY <2>1 DEF Dirlist
<1>2. \A flag \in Flag : \A on \in BOOLEAN :
        [op |-> IF on THEN "ON" ELSE "OFF", arg |-> flag, ev |-> "none"] \in C
  BY DEF Command, Event
<1>3. \A op \in Op \ {"ON", "OFF", "CWD", "MKD"} : Cmd(op, "none") \in C
  <2>1. TAKE op \in Op \ {"ON", "OFF", "CWD", "MKD"}
  <2>2. "none" \in Event
    BY DEF Event
  <2>3. Cmd(op, "none") \in Command
    BY <2>2, CmdType
  <2> QED
    BY <2>3 DEF Cmd
<1>4. /\ "BINARY" \in Flag /\ "CCSN" \in Flag /\ "SSCN" \in Flag /\ "REST" \in Flag
      /\ "PRIVACY" \in Flag /\ "none" \in Event /\ id \in ReplyId
      /\ (site.desiredType = "YES") \in BOOLEAN /\ (site.dataTLS # "NO") \in BOOLEAN
      /\ {"PRET", "PORT", "PASV", "LIST"} \subseteq Op \ {"ON", "OFF", "CWD", "MKD"}
  BY DEF Flag, Event, ReplyId, Op
<1> HIDE DEF t0, s0, s1, t1, s2, t2, s3, s4, s5
<1>5. /\ Same(s, t0) /\ t0.cmdq = s.cmdq /\ t0 \in SessionRec
      /\ t0.login = s.login /\ t0.state = s.state
  <2>1. t0 \in SessionRec
    BY <1>4 DEF t0, SessionRec
  <2> QED
    BY <2>1 DEF t0, Same, SessionRec
<1>6. Adds(t0, s0, C) /\ s0 \in SessionRec
  BY <1>5, FilesAdds DEF s0, Adds
<1>7. Adds(s0, s1, C) /\ s1 \in SessionRec
  <2>1. Adds(s0, s1, C)
    BY <1>2, <1>4, <1>6, SetFlagAdds DEF s1
  <2> QED
    BY <2>1 DEF Adds
<1>8. Adds(s1, t1, C) /\ t1 \in SessionRec
  <2>1. Adds(s1, t1, C)
    BY <1>2, <1>4, <1>7, ClientAdds DEF t1
  <2> QED
    BY <2>1 DEF Adds
<1>9. Adds(t1, s2, C) /\ s2 \in SessionRec
  <2>1. Adds(t1, s2, C)
    BY <1>2, <1>4, <1>8, ClientAdds DEF s2
  <2> QED
    BY <2>1 DEF Adds
<1>10. Adds(s2, t2, C) /\ t2 \in SessionRec
  <2>1. Adds(s2, t2, C)
    BY <1>2, <1>4, <1>9, RestAdds DEF t2
  <2> QED
    BY <2>1 DEF Adds
<1>11. Adds(t2, s3, C) /\ s3 \in SessionRec
  <2>1. \A on \in BOOLEAN : Adds(t2, SetFlag(t2, "PRIVACY", on, "none"), C)
    BY <1>2, <1>4, <1>10, SetFlagAdds
  <2>2. Adds(t2, s3, C)
    BY <1>4, <1>10, <2>1, AddsNone DEF s3, ListProt
  <2> QED
    BY <2>2 DEF Adds
<1>c. ASSUME NEW x \in SessionRec, NEW op \in Op \ {"ON", "OFF", "CWD", "MKD"}
      PROVE  /\ Adds(x, CmdqNew(x, Cmd(op, "none")), C)
             /\ CmdqNew(x, Cmd(op, "none")) \in SessionRec
  <2>1. Adds(x, CmdqNew(x, Cmd(op, "none")), C)
    BY <1>3, <1>4, CmdAdds
  <2> QED
    BY <2>1 DEF Adds
<1>12. Adds(s3, s4, C) /\ s4 \in SessionRec
  BY <1>4, <1>11, <1>c, AddsNone DEF s4, Pret
<1>13. Adds(s4, s5, C) /\ s5 \in SessionRec
  <2>1. op5 \in Op \ {"ON", "OFF", "CWD", "MKD"}
    BY <1>4
  <2> HIDE DEF op5
  <2> QED
    BY <1>12, <1>c, <2>1 DEF s5
<1>14. Adds(s5, CmdqNew(s5, Cmd("LIST", "none")), C)
  BY <1>4, <1>13, <1>c
<1>15. Adds(t0, s1, C)
  BY <1>6, <1>7, AddsTwice
<1>16. Adds(t0, t2, C)
  <2>1. Adds(t0, t1, C)
    BY <1>8, <1>15, AddsTwice
  <2>2. Adds(t0, s2, C)
    BY <1>9, <2>1, AddsTwice
  <2> QED
    BY <1>10, <2>2, AddsTwice
<1>17. Adds(t0, s5, C)
  <2>1. Adds(t0, s3, C)
    BY <1>11, <1>16, AddsTwice
  <2>2. Adds(t0, s4, C)
    BY <1>12, <2>1, AddsTwice
  <2> QED
    BY <1>13, <2>2, AddsTwice
<1>18. Adds(t0, CmdqNew(s5, Cmd("LIST", "none")), C)
  BY <1>14, <1>17, AddsTwice
<1> QED
  BY <1>1, <1>5, <1>18 DEF Adds, Kept, Same

\* What a call asks of an idle session, but to move.
Asks(p, C) ==
  \/ old[p] /\ sess'[p] = NoSession
  \/ /\ Same(sess[p], sess'[p]) /\ sess'[p].login = sess[p].login
     /\ sess'[p].state = sess[p].state /\ sess'[p].cmdq \in Seq(C)

\* The two listings of a directory.
LEMMA ListingAsks ==
  ASSUME IInv, DirectoryPhase2Start, NEW p \in Side,
         NEW C, \A c \in Command : c.ev = "none" /\ c.op \notin {"CWD", "MKD"} => c \in C
  PROVE  Asks(p, C)
<1> DEFINE a == "DIRECTORY_PHASE_2_SRC_DIRLIST"
           b == "DIRECTORY_PHASE_2_DST_DIRLIST"
           r1 == Dirlist(SrcSite, sess[src], a)
           r2 == Dirlist(DstSite, sess[Dst], b)
           s1 == [sess EXCEPT ![src] = r1]
           s2 == [s1 EXCEPT ![Dst] = r2]
<1>1. In("DIRECTORY_PHASE_2_START") /\ "DIRECTORY_PHASE_2_START" \in FileState \cup DirectoryState
      /\ \A q \in Side : sess[q].cmdq = <<>>
  BY DEF DirectoryPhase2Start, DirectoryState, BothIdle, IsIdle
<1>2. /\ src \in Side /\ Dst \in Side /\ Dst # src /\ p \in {src, Dst}
      /\ sess \in [Side -> SessionRec] /\ \A q \in Side : sess[q] \in SessionRec
  BY <1>1, TwoSides
<1>3. Sleep(s1) \/ Sleep(s2)
  <2>1. s2 = [s1 EXCEPT ![Dst] = Dirlist(DstSite, @, b)]
    BY <1>2
  <2> QED
    BY <2>1 DEF DirectoryPhase2Start
<1>4. SrcSite \in Site /\ DstSite \in Site
  BY <1>2, QueueAssumption DEF SrcSite, DstSite
<1>5. /\ Same(sess[src], r1) /\ r1.login = sess[src].login /\ r1.state = sess[src].state
      /\ sess[src].cmdq \in Seq(C) => r1.cmdq \in Seq(C)
  BY <1>2, <1>4, DirlistAdds
<1>6. /\ Same(sess[Dst], r2) /\ r2.login = sess[Dst].login /\ r2.state = sess[Dst].state
      /\ sess[Dst].cmdq \in Seq(C) => r2.cmdq \in Seq(C)
  BY <1>2, <1>4, DirlistAdds
<1>7. /\ s1[p] \in {sess[p], IF p = src THEN r1 ELSE r2}
      /\ s2[p] \in {sess[p], IF p = src THEN r1 ELSE r2}
  BY <1>2
<1> HIDE DEF r1, r2, s1, s2
<1>8. \/ old[p] /\ sess'[p] = NoSession
      \/ sess'[p] \in {sess[p], IF p = src THEN r1 ELSE r2}
  BY <1>3, <1>7, Leaves
<1>9. Same(sess[p], sess[p]) /\ \A q \in Side : sess[q].cmdq \in Seq(C)
  <2>1. <<>> \in Seq(C)
    OBVIOUS
  <2> QED
    BY <1>1, <2>1 DEF Same
<1>10. CASE sess'[p] = sess[p]
  BY <1>9, <1>10 DEF Asks
<1>11. CASE p = src /\ sess'[p] = r1
  BY <1>2, <1>5, <1>9, <1>11 DEF Asks
<1>12. CASE p = Dst /\ sess'[p] = r2
  BY <1>2, <1>6, <1>9, <1>12 DEF Asks
<1> QED
  BY <1>2, <1>8, <1>10, <1>11, <1>12 DEF Asks

\* A directory that the destination lacks and the source has nothing in.
LEMMA MkdAsks ==
  ASSUME IInv, DirectoryPhase2Mkd, NEW p \in Side,
         NEW C, \A c \in Command : c.ev = "DIRECTORY_PHASE_2_DST_MKD" /\ c.op = "MKD" => c \in C
  PROVE  Asks(p, C)
<1> DEFINE cmd == [op |-> "MKD", arg |-> Top.dir, ev |-> "DIRECTORY_PHASE_2_DST_MKD"]
           r == CmdqNew(sess[Dst], cmd)
           s1 == [sess EXCEPT ![Dst] = r]
<1>1. In("DIRECTORY_PHASE_2_MKD") /\ "DIRECTORY_PHASE_2_MKD" \in FileState \cup DirectoryState
      /\ \A q \in Side : sess[q].cmdq = <<>>
  BY DEF DirectoryPhase2Mkd, DirectoryState, BothIdle, IsIdle
<1>2. /\ Dst \in Side /\ Top \in Triable
      /\ sess \in [Side -> SessionRec] /\ \A q \in Side : sess[q] \in SessionRec
  BY <1>1, InPhase, TwoSides DEF IInv
<1>3. Sleep(sess) \/ Sleep(s1)
  BY DEF DirectoryPhase2Mkd
<1>4. cmd \in Command /\ cmd \in C
  <2>1. Top.dir \in Path
    BY <1>2 DEF Triable, Item, Path
  <2> QED
    BY <2>1 DEF Command, Event
<1> HIDE DEF cmd
<1>5. Adds(sess[Dst], r, C) /\ \A q \in Side : Adds(sess[q], sess[q], C)
  BY <1>2, <1>4, CmdqNewAdds, AddsNone
<1>6. s1[p] = IF p = Dst THEN r ELSE sess[p]
  BY <1>2
<1> HIDE DEF r, s1
<1>7. \/ old[p] /\ sess'[p] = NoSession
      \/ Adds(sess[p], sess'[p], C)
  BY <1>3, <1>5, <1>6, Leaves
<1>8. sess[p].cmdq \in Seq(C)
  <2>1. <<>> \in Seq(C)
    OBVIOUS
  <2> QED
    BY <1>1, <2>1
<1> QED
  BY <1>7, <1>8 DEF Adds, Kept, Asks

\* Calls that tell an idle pair nothing that moves it.
LEMMA BeliefTold ==
  ASSUME IInv, BeliefInv, Empties,
         \A p \in Side : \/ sess'[p] = NoSession
                         \/ Same(sess[p], sess'[p]) /\ sess'[p].cmdq \in Seq(Still)
  PROVE  BeliefInv'
<1> SUFFICES ASSUME NEW p \in Side, sess'[p].here PROVE Belief(sess'[p])
  BY DEF BeliefInv
<1>1. Same(sess[p], sess'[p]) /\ sess'[p].cmdq \in Seq(Still)
  BY BeliefNew
<1>2. sess[p] \in SessionRec /\ sess[p].here /\ Belief(sess[p])
  BY <1>1 DEF IInv, SessionInv, BeliefInv, Same
<1>3. sess[p].cmdq \in Seq(Still)
  <2>1. <<>> \in Seq(Still)
    OBVIOUS
  <2> QED
    BY <2>1 DEF Empties
<1> QED
  BY <1>1, <1>2, <1>3, BeliefStill

LEMMA BeliefLeft ==
  ASSUME BeliefInv, Again(sess) \/ Sleep(sess) \/ (\E nodelay : Settle(sess, nodelay))
  PROVE  BeliefInv'
<1>1. \A p \in Side : sess'[p] \in {NoSession, sess[p]}
  BY Leaves
<1> QED
  BY <1>1, BeliefNew DEF BeliefInv

LEMMA PwdStill == Pwd \in Command /\ Pwd \in Still
BY CmdType DEF Pwd, Op, Event, Cmd, Still, Moves, Steers

\* Behind a command that moves a session nothing does.
LEMMA TailStill ==
  ASSUME NEW q \in Seq(Command), q # <<>>, Moves(Head(q)),
         \A i, j \in DOMAIN q : Moves(q[i]) /\ Moves(q[j]) => i = j
  PROVE  Tail(q) \in Seq(Still)
<1> DEFINE t == Tail(q)
<1>1. /\ t \in Seq(Command) /\ Len(t) = Len(q) - 1 /\ Len(q) \in Nat \ {0}
      /\ Head(q) = q[1] /\ \A i \in 1 .. Len(t) : t[i] = q[i + 1]
  BY HeadTailProperties
<1>2. Len(t) \in Nat /\ DOMAIN t = 1 .. Len(t) /\ DOMAIN q = 1 .. Len(q)
  BY <1>1
<1>3. \A i \in 1 .. Len(t) : t[i] \in Still
  <2>1. TAKE i \in 1 .. Len(t)
  <2>2. i + 1 \in 1 .. Len(q) /\ 1 \in 1 .. Len(q) /\ i + 1 # 1
    BY <1>1, <1>2
  <2>3. ~Moves(q[i + 1])
    BY <1>1, <1>2, <2>2
  <2>4. t[i] \in Command
    BY <1>1, <1>2, ElementOfSeq
  <2> QED
    BY <1>1, <2>3, <2>4 DEF Still
<1> HIDE DEF t
<1>4. t \in Seq(Still)
  BY <1>1, <1>2, <1>3, SeqDef
<1> QED
  BY <1>4 DEF t

\* The handler adds one command at most, and a session remembers a CWD.
LEMMA BeliefMore ==
  ASSUME NEW base \in Seq(Still), NEW more \in Seq(Command),
         more = <<>> \/ \E c : more = <<c>>,
         NEW r, r.cmdq = base \o more,
         NEW x \in {"-", r.cwd},
         r.saved = IF more # <<>> /\ more[1].op = "CWD" THEN more[1].arg ELSE x
  PROVE  Belief(r)
<1>1. \A c \in Still : c.op # "CWD" /\ ~Moves(c)
  BY DEF Still, Moves
<1>2. CASE more = <<>>
  <2>1. r.cmdq = base
    BY <1>2, ConcatEmptySeq
  <2>2. \A i \in DOMAIN r.cmdq : r.cmdq[i].op # "CWD" /\ ~Moves(r.cmdq[i])
    BY <1>1, <2>1, InList
  <2> QED
    BY <1>2, <2>2 DEF Belief
<1>3. CASE \E c : more = <<c>>
  <2>1. PICK c : more = <<c>>
    BY <1>3
  <2> DEFINE n == Len(base)
  <2>2. n \in Nat /\ DOMAIN r.cmdq = 1 .. n + 1
        /\ (\A i \in 1 .. n : r.cmdq[i] = base[i]) /\ r.cmdq[n + 1] = c
    BY <2>1
  <2>3. \A i \in 1 .. n : r.cmdq[i].op # "CWD" /\ ~Moves(r.cmdq[i])
    <3>1. \A i \in 1 .. n : base[i] \in Still
      BY ElementOfSeq
    <3> QED
      BY <1>1, <2>2, <3>1
  <2> HIDE DEF n
  <2>4. \A i \in 1 .. n + 1 : (r.cmdq[i].op = "CWD" \/ Moves(r.cmdq[i])) => i = n + 1
    BY <2>2, <2>3
  <2>5. more # <<>> /\ more[1] = c
    BY <2>1
  <2>6. c.op = "CWD" => r.saved = c.arg
    BY <2>5
  <2>7. c.op # "CWD" => r.saved \in {"-", r.cwd}
    BY <2>5
  <2>8. n + 1 \in 1 .. n + 1
    BY <2>2
  <2> QED
    BY <2>2, <2>4, <2>6, <2>7, <2>8 DEF Belief
<1> QED
  BY <1>2, <1>3

\* An answer leaves a session with what it remembers of its moves.
LEMMA AnswerBelief ==
  ASSUME IInv, NEW p \in Side, NEW cmd, NEW code, Answers(p, cmd, code), loop = "poll",
         Belief(sess[p])
  PROVE  Belief(sess'[p])
<1> DEFINE s == sess[p]
           r == sess'[p]
           more == More(Digest(s, cmd, code), cmd.ev, Heard(code))
           t == Tail(s.cmdq)
           base == IF Moved(cmd, code) THEN Append(t, Pwd) ELSE t
<1>1. /\ s \in SessionRec /\ s.cmdq # <<>> /\ cmd = Head(s.cmdq) /\ cmd \in Command
      /\ r \in SessionRec /\ r.here /\ more \in Seq(Command) /\ ReadTo(s, cmd, code, more, r)
      /\ Belief(s)
  BY AnswersIs
<1>2. more = <<>> \/ \E c : more = <<c>>
  BY MoreIs
<1>3. cmd.ev \notin Steers => more = <<>>
  BY MoreIs
<1>q. /\ s.cmdq \in Seq(Command) /\ cmd = s.cmdq[1] /\ 1 \in DOMAIN s.cmdq
      /\ Len(s.cmdq) \in Nat /\ DOMAIN s.cmdq = 1 .. Len(s.cmdq)
      /\ t \in Seq(Command) /\ Len(t) = Len(s.cmdq) - 1
      /\ DOMAIN t = 1 .. Len(s.cmdq) - 1
      /\ \A i \in 1 .. Len(s.cmdq) - 1 : t[i] = s.cmdq[i + 1]
  <2>1. s.cmdq \in Seq(Command)
    BY <1>1 DEF SessionRec
  <2>2. Len(s.cmdq) \in Nat \ {0}
    BY <1>1, <2>1
  <2> QED
    BY <1>1, <2>1, <2>2, HeadTailProperties
<1> HIDE DEF s, r, more, t
<1>4. CASE Moves(cmd)
  <2>1. t \in Seq(Still)
    BY <1>1, <1>4, <1>q, TailStill DEF t, Belief
  <2>2. base \in Seq(Still)
    BY <2>1, PwdStill
  <2>3. r.cmdq = base \o more
    BY <1>1 DEF ReadTo, t
  <2> DEFINE x == IF cmd.op = "CWD" /\ code # "ok" THEN "-" ELSE s.saved
  <2>4. r.saved = IF more # <<>> /\ more[1].op = "CWD" THEN more[1].arg ELSE x
    BY <1>1 DEF ReadTo
  <2>5. x \in {"-", r.cwd}
    <3>1. CASE cmd.op = "CWD"
      <4>1. s.saved = cmd.arg /\ cmd.arg \in Path /\ cmd.arg # "-"
        <5>1. s.saved = cmd.arg
          BY <1>1, <1>q, <3>1 DEF Belief
        <5>2. cmd.arg \in Path
          BY <1>1, <3>1 DEF Command
        <5> QED
          BY <5>1, <5>2, DirsAssumption DEF Path
      <4>2. code = "ok" => r.cwd = cmd.arg
        BY <1>1, <3>1 DEF ReadTo, CwdAfter
      <4> QED
        BY <3>1, <4>1, <4>2
    <3>2. CASE cmd.op # "CWD"
      <4>2. r.cwd = s.cwd
        BY <1>1, <3>2 DEF ReadTo, CwdAfter
      <4>3. \A i \in DOMAIN s.cmdq : s.cmdq[i].op # "CWD"
        <5>1. TAKE i \in DOMAIN s.cmdq
        <5>2. CASE i = 1
          BY <1>q, <3>2, <5>2
        <5>3. CASE i # 1
          <6>1. ~(Moves(s.cmdq[1]) /\ Moves(s.cmdq[i]))
            BY <1>1, <1>q, <5>3 DEF Belief
          <6> QED
            BY <1>4, <1>q, <6>1 DEF Moves
        <5> QED
          BY <5>2, <5>3
      <4> QED
        BY <1>1, <3>2, <4>2, <4>3 DEF Belief
    <3> QED
      BY <3>1, <3>2
  <2> HIDE DEF x, base
  <2>6. Belief(r)
    BY <1>1, <1>2, <2>2, <2>3, <2>4, <2>5, BeliefMore
  <2> QED
    BY <2>6 DEF r
<1>5. CASE ~Moves(cmd)
  <2>1. cmd \in Still /\ cmd.op # "CWD"
    BY <1>1, <1>5 DEF Still, Moves
  <2>2. /\ r.cmdq = t /\ r.cwd = s.cwd /\ r.saved = s.saved
        /\ r.pwd = IF cmd.op = "PWD" THEN s.cwd ELSE s.pwd
    BY <2>1, StillAnswered DEF r, s, t
  <2>3. \A i \in DOMAIN t : i + 1 \in DOMAIN s.cmdq /\ t[i] = s.cmdq[i + 1] /\ i \in Nat
    BY <1>q
  <2>4. \A i, j \in DOMAIN t : Moves(t[i]) /\ Moves(t[j]) => i = j
    <3>1. TAKE i, j \in DOMAIN t
    <3>2. Moves(t[i]) /\ Moves(t[j]) => i + 1 = j + 1
      BY <1>1, <2>3 DEF Belief
    <3> QED
      BY <2>3, <3>2
  <2>5. \A i \in DOMAIN t : t[i].op = "CWD" => s.saved = t[i].arg
    BY <1>1, <2>3 DEF Belief
  <2>6. (\A i \in DOMAIN t : t[i].op # "CWD") => \A i \in DOMAIN s.cmdq : s.cmdq[i].op # "CWD"
    <3> SUFFICES ASSUME \A i \in DOMAIN t : t[i].op # "CWD", NEW i \in DOMAIN s.cmdq
                 PROVE  s.cmdq[i].op # "CWD"
      OBVIOUS
    <3>1. CASE i = 1
      BY <1>q, <2>1, <3>1
    <3>2. CASE i # 1
      <4>1. i - 1 \in DOMAIN t /\ t[i - 1] = s.cmdq[i]
        BY <1>q, <3>2
      <4> QED
        BY <4>1
    <3> QED
      BY <3>1, <3>2
  <2>7. Belief(r)
    BY <1>1, <2>2, <2>4, <2>5, <2>6 DEF Belief
  <2> QED
    BY <2>7 DEF r
<1> QED
  BY <1>4, <1>5

LEMMA EventBelief ==
  ASSUME IInv, BeliefInv, NEW p \in Side, SessionEvent(p)
  PROVE  BeliefInv'
<1>1. /\ loop = "poll" /\ \A q \in Side \ {p} : sess'[q] = sess[q]
      /\ Quiet(p) \/ \E cmd, code : Answers(p, cmd, code)
  BY EventIs
<1> SUFFICES ASSUME sess'[p].here PROVE Belief(sess'[p])
  BY <1>1 DEF BeliefInv
<1>2. CASE Quiet(p)
  <2>1. Same(sess[p], sess'[p]) /\ sess'[p].cmdq = sess[p].cmdq
    BY <1>2, BeliefNew DEF Quiet
  <2>2. Belief(sess[p])
    BY <2>1 DEF Kept, Same, BeliefInv
  <2> QED
    BY <2>1, <2>2, BeliefSame
<1>3. CASE \E cmd, code : Answers(p, cmd, code)
  <2>1. PICK cmd, code : Answers(p, cmd, code)
    BY <1>3
  <2>2. sess[p].here
    BY <2>1 DEF Answers
  <2> QED
    BY <1>1, <2>1, <2>2, AnswerBelief DEF BeliefInv
<1> QED
  BY <1>1, <1>2, <1>3

LEMMA PassBelief ==
  ASSUME IInv, FlightInv, BeliefInv, Pass
  PROVE  BeliefInv'
<1>s. sess \in [Side -> SessionRec] /\ \A p \in Side : sess[p] \in SessionRec
  BY DEF IInv, SessionInv
<1>n. <<>> \in Seq(Still)
  OBVIOUS
<1>1. CASE FilePass /\ ~Phase1Start
  <2>1. Told(state') /\ Empties
    BY <1>1, FilePassTold, PassEmpties
  <2>2. \A p \in Side : Seq(Asked(state', p) \cap Still) \subseteq Seq(Still)
    BY SeqMonotonic
  <2>3. \A p \in Side : \/ sess'[p] = NoSession
                        \/ Same(sess[p], sess'[p]) /\ sess'[p].cmdq \in Seq(Still)
    BY <2>1, <2>2 DEF Told, Kept
  <2> QED
    BY <2>1, <2>3, BeliefTold
<1>2. CASE Phase1Start
  BY <1>2, Phase1Goes DEF GoneTo, BeliefInv
<1>3. CASE DirectoryStart
  <2> DEFINE a == "DIRECTORY_PHASE_1_SRC_CWD"
             b == "DIRECTORY_PHASE_1_DST_CWD"
  <2>1. In("DIRECTORY_START") /\ "DIRECTORY_START" \in FileState \cup DirectoryState /\ Empties
    BY <1>3 DEF DirectoryStart, DirectoryState, BothIdle, IsIdle, Empties
  <2>2. a \in Event /\ b \in Event
    BY DEF Event
  <2>3. PICK ss : /\ ss = [sess EXCEPT ![src] = Cwd(@, Top.dir, a), ![Dst] = Cwd(@, Top.dir, b)]
                  /\ \E nodelay : Settle(ss, nodelay)
    BY <1>3 DEF DirectoryStart
  <2> HIDE DEF a, b
  <2>4. \A p \in Side : GoneTo(p, IF p = src THEN a ELSE b)
    BY <2>1, <2>2, <2>3, BothGo
  <2> QED
    BY <2>4 DEF GoneTo, BeliefInv
<1>4. CASE DirectoryPhase2Start
  <2>1. \A c \in Command : c.ev = "none" /\ c.op \notin {"CWD", "MKD"} => c \in Still
    BY DEF Still, Moves, Steers
  <2>2. \A p \in Side : Asks(p, Still)
    BY <1>4, <2>1, ListingAsks
  <2>3. Empties
    BY <1>4 DEF DirectoryPhase2Start, BothIdle, IsIdle, Empties
  <2> QED
    BY <2>2, <2>3, BeliefTold DEF Asks
<1>5. CASE DirectoryPhase2Mkd
  <2>1. \A c \in Command : c.ev = "DIRECTORY_PHASE_2_DST_MKD" /\ c.op = "MKD" => c \in Still
    BY DEF Still, Moves, Steers
  <2>2. \A p \in Side : Asks(p, Still)
    BY <1>5, <2>1, MkdAsks
  <2>3. Empties
    BY <1>5 DEF DirectoryPhase2Mkd, BothIdle, IsIdle, Empties
  <2> QED
    BY <2>2, <2>3, BeliefTold DEF Asks
<1>6. CASE IsConnected
  <2> DEFINE ss == [p \in Side |-> IF sess[p].here THEN sess[p] ELSE NewSession]
  <2>1. \E nodelay : Settle(ss, nodelay)
    BY <1>6 DEF IsConnected
  <2>2. \A p \in Side : sess'[p] \in {NoSession, ss[p]}
    BY <2>1, Leaves
  <2> QED
    BY <2>2, BeliefNew DEF BeliefInv
<1>7. CASE Empty
  <2> DEFINE cmd == Cmd("QUIT", "PHASE_12_NOOP")
             ss == [p \in Side |-> CmdqNew(sess[p], cmd)]
  <2>1. Sleep(ss)
    BY <1>7 DEF Empty
  <2>2. \A p \in Side : sess'[p] \in {NoSession, ss[p]}
    BY <2>1, Leaves
  <2>3. cmd \in Command /\ cmd \in Still
    BY CmdType DEF Op, Event, Cmd, Still, Moves, Steers
  <2> HIDE DEF cmd
  <2> SUFFICES ASSUME NEW p \in Side, sess'[p].here, sess'[p] = CmdqNew(sess[p], cmd)
               PROVE  Belief(sess'[p])
    BY <2>2, BeliefNew DEF BeliefInv
  <2>4. /\ Kept(sess[p], sess'[p])
        /\ sess[p].here => sess'[p].cmdq = Append(sess[p].cmdq, cmd)
    BY <1>s, <2>3, CmdqNewIs
  <2>5. sess[p].here /\ Belief(sess[p])
    BY <2>4 DEF Kept, Same, BeliefInv
  <2> QED
    BY <1>s, <2>3, <2>4, <2>5, BeliefAppend DEF Kept
<1>8. CASE Start \/ StartNextItem \/ ActiveEnd \/ Active \/ DirectoryPhase1Idle
           \/ DirectoryPhase2Compare \/ ItemFailed \/ RequeueItem \/ ErrorItem \/ RemoveItem
           \/ Idle \/ Waiting
  <2>1. Again(sess) \/ Sleep(sess)
    BY <1>8 DEF Start, StartNextItem, ActiveEnd, Active, DirectoryPhase1Idle,
       DirectoryPhase2Compare, ItemFailed, RequeueItem, ErrorItem, RemoveItem, NextItem,
       Idle, Waiting
  <2> QED
    BY <2>1, BeliefLeft
<1> QED
  BY <1>1, <1>2, <1>3, <1>4, <1>5, <1>6, <1>7, <1>8 DEF Pass, DirectoryPass

LEMMA CommandBelief ==
  ASSUME BeliefInv, Command2
  PROVE  BeliefInv'
<1>1. sess' = sess \/ sess' = [p \in Side |-> NoSession]
  BY DEF Command2, Go, Stop, StopDrop, QAdd, QDel, QMove
<1> QED
  BY <1>1, BeliefNew DEF BeliefInv

-----------------------------------------------------------------------------
(* What a call of queue_process leaves of a session. *)

\* A session is taken away in a lost one's place, opened, or stays as it was.
Stays(s, r) ==
  /\ r.here = s.here /\ r.login = s.login /\ r.state = s.state
  /\ r.cwd = s.cwd /\ r.pwd = s.pwd /\ r.prot = s.prot /\ r.status = s.status
Keeps(p) ==
  \/ old[p] /\ sess'[p] = NoSession
  \/ ~sess[p].here /\ sess'[p] = NewSession
  \/ Stays(sess[p], sess'[p])

LEMMA KeepsBy ==
  ASSUME NEW ss, Again(ss) \/ Sleep(ss) \/ (\E nodelay : Settle(ss, nodelay)), NEW p \in Side,
         Stays(sess[p], ss[p]) \/ (~sess[p].here /\ ss[p] = NewSession)
  PROVE  Keeps(p)
BY Leaves DEF Keeps

\* An order to move is one command more or none.
LEMMA CwdStays ==
  ASSUME NEW s \in SessionRec, NEW dir \in Path, NEW ev \in Event
  PROVE  Stays(s, Cwd(s, dir, ev))
<1> DEFINE t == [s EXCEPT !.saved = dir]
           r == Cwd(s, dir, ev)
<1>1. (IsIn(s, dir) => r = s) /\ (~IsIn(s, dir) => Kept(t, r))
  BY CwdIs
<1>2. /\ t.here = s.here /\ t.login = s.login /\ t.state = s.state
      /\ t.cwd = s.cwd /\ t.pwd = s.pwd /\ t.prot = s.prot /\ t.status = s.status
  BY DEF SessionRec
<1> HIDE DEF t, r
<1>3. Stays(s, r)
  BY <1>1, <1>2 DEF Stays, Kept, Same
<1> QED
  BY <1>3 DEF r

LEMMA BothStay ==
  ASSUME IInv, NEW st \in FileState \cup DirectoryState, In(st),
         NEW a \in Event, NEW b \in Event,
         NEW ss, ss = [sess EXCEPT ![src] = Cwd(@, Top.dir, a), ![Dst] = Cwd(@, Top.dir, b)],
         \E nodelay : Settle(ss, nodelay), NEW p \in Side
  PROVE  Keeps(p)
<1>1. /\ Dst # src /\ p \in {src, Dst} /\ sess \in [Side -> SessionRec] /\ Top \in Triable
  BY TwoSides, InPhase DEF IInv
<1>2. Top.dir \in Path
  BY <1>1 DEF Triable, Item, Path
<1>3. PICK ev \in Event : ss[p] = Cwd(sess[p], Top.dir, ev)
  BY <1>1
<1>4. Stays(sess[p], ss[p])
  BY <1>1, <1>2, <1>3, CwdStays
<1> QED
  BY <1>4, KeepsBy

LEMMA PassKeeps ==
  ASSUME IInv, FlightInv, Pass, NEW p \in Side
  PROVE  Keeps(p)
<1>s. sess[p] \in SessionRec /\ Stays(sess[p], sess[p])
  BY DEF IInv, SessionInv, Stays
<1>n. (Again(sess) \/ Sleep(sess)) => Keeps(p)
  BY <1>s, KeepsBy
<1>1. CASE Start \/ StartNextItem \/ ActiveEnd \/ Active \/ ItemFailed \/ RequeueItem
           \/ ErrorItem \/ RemoveItem \/ Idle \/ Waiting
  <2>1. Again(sess) \/ Sleep(sess)
    BY <1>1 DEF Start, StartNextItem, ActiveEnd, Active, ItemFailed, RequeueItem, ErrorItem,
       RemoveItem, NextItem, Idle, Waiting
  <2> QED
    BY <1>n, <2>1
<1>2. CASE IsConnected
  <2> DEFINE ss == [q \in Side |-> IF sess[q].here THEN sess[q] ELSE NewSession]
  <2>1. \E nodelay : Settle(ss, nodelay)
    BY <1>2 DEF IsConnected
  <2>2. ss[p] = IF sess[p].here THEN sess[p] ELSE NewSession
    OBVIOUS
  <2> HIDE DEF ss
  <2> QED
    BY <1>s, <2>1, <2>2, KeepsBy
<1>3. CASE Empty
  <2> DEFINE quit == Cmd("QUIT", "PHASE_12_NOOP")
             ss == [q \in Side |-> CmdqNew(sess[q], quit)]
  <2>1. Sleep(ss) /\ ss[p] = CmdqNew(sess[p], quit)
    BY <1>3 DEF Empty
  <2>2. quit \in Command
    BY CmdType DEF Op, Event
  <2> HIDE DEF ss, quit
  <2>3. Stays(sess[p], ss[p])
    BY <1>s, <2>1, <2>2, CmdqNewIs DEF Kept, Same, Stays
  <2> QED
    BY <2>1, <2>3, KeepsBy
<1>4. CASE FilePass /\ ~Phase1Start
  BY <1>4, FilePassTold DEF Told, Kept, Same, Keeps, Stays
<1>5. CASE Phase1Start
  <2>1. "PHASE_1_SRC_CWD" \in Event /\ "PHASE_1_DST_CWD" \in Event
    BY DEF Event
  <2>2. In("FILE_PHASE_1_START") /\ "FILE_PHASE_1_START" \in FileState \cup DirectoryState
    BY <1>5 DEF Phase1Start, FileState
  <2> QED
    BY <1>5, <2>1, <2>2, BothStay DEF Phase1Start
<1>6. CASE DirectoryStart
  <2>1. "DIRECTORY_PHASE_1_SRC_CWD" \in Event /\ "DIRECTORY_PHASE_1_DST_CWD" \in Event
    BY DEF Event
  <2>2. In("DIRECTORY_START") /\ "DIRECTORY_START" \in FileState \cup DirectoryState
    BY <1>6 DEF DirectoryStart, DirectoryState
  <2> QED
    BY <1>6, <2>1, <2>2, BothStay DEF DirectoryStart
<1>7. CASE DirectoryPhase2Start \/ DirectoryPhase2Mkd
  <2>1. \A c \in Command : c \in Command
    OBVIOUS
  <2>2. Asks(p, Command)
    BY <1>7, <2>1, ListingAsks, MkdAsks
  <2> QED
    BY <2>2 DEF Asks, Same, Keeps, Stays
<1>8. CASE DirectoryPhase1Idle \/ DirectoryPhase2Compare
  BY <1>n, <1>8 DEF DirectoryPhase1Idle, DirectoryPhase2Compare
<1> QED
  BY <1>1, <1>2, <1>3, <1>4, <1>5, <1>6, <1>7, <1>8, Zenon DEF Pass, DirectoryPass, FilePass

-----------------------------------------------------------------------------
(* ExactInv is kept, where every 2xx is the one asked for. *)

LEMMA ExactNew == Exact(NewSession) /\ ~NoSession.here
BY DEF Exact, NewSession, NoSession

LEMMA PassExact ==
  ASSUME IInv, FlightInv, ExactInv, Pass
  PROVE  ExactInv'
<1> SUFFICES ASSUME NEW p \in Side, sess'[p].here PROVE Exact(sess'[p])
  BY DEF ExactInv
<1>1. sess'[p] = NewSession \/ Stays(sess[p], sess'[p])
  BY PassKeeps, ExactNew DEF Keeps
<1> QED
  BY <1>1, ExactNew DEF ExactInv, Exact, Stays

LEMMA ExactCode ==
  ASSUME ExactCodes, NEW cmd, NEW code \in Codes(cmd)
  PROVE  code # "near"
<1>1. code = "ok" \/ <<Key(cmd), code>> \in Refusals
  BY DEF Codes
<1> QED
  BY <1>1 DEF ExactCodes

\* Only of CWD and of some flags is the code ever another.
LEMMA PlainCode ==
  ASSUME NEW cmd, Key(cmd) = "REST", NEW code \in Codes(cmd)
  PROVE  code # "near"
<1>1. code = "ok" \/ <<"REST", code>> \in Refusals
  BY DEF Codes
<1>2. <<"REST", "near">> \notin Refusal
  BY DEF Refusal
<1> QED
  BY <1>1, <1>2, QueueAssumption

LEMMA EventExact ==
  ASSUME ExactCodes, IInv, BeliefInv, ExactInv, NEW p \in Side, SessionEvent(p)
  PROVE  ExactInv'
<1>1. /\ loop = "poll" /\ \A q \in Side \ {p} : sess'[q] = sess[q]
      /\ Quiet(p) \/ \E cmd, code : Answers(p, cmd, code)
  BY EventIs
<1> SUFFICES ASSUME sess'[p].here PROVE Exact(sess'[p])
  BY <1>1 DEF ExactInv
<1>2. CASE Quiet(p)
  <2>1. Same(sess[p], sess'[p])
    BY <1>2, ExactNew DEF Quiet
  <2> QED
    BY <2>1 DEF Same, ExactInv, Exact
<1>3. CASE \E cmd, code : Answers(p, cmd, code)
  <2>1. PICK cmd, code : Answers(p, cmd, code)
    BY <1>3
  <2> DEFINE s == sess[p]
             r == sess'[p]
             more == More(Digest(s, cmd, code), cmd.ev, Heard(code))
  <2>2. /\ s \in SessionRec /\ s.cmdq # <<>> /\ cmd = Head(s.cmdq) /\ cmd \in Command
        /\ ReadTo(s, cmd, code, more, r)
    BY <1>1, <2>1, AnswersIs
  <2>3. Exact(s) /\ Belief(s) /\ code # "near"
    BY <2>1, ExactCode DEF Answers, ExactInv, BeliefInv
  <2> HIDE DEF s, r, more
  <2>4. cmd.op = "CWD" => s.saved = cmd.arg /\ cmd.arg # "-"
    <3>1. cmd = s.cmdq[1] /\ 1 \in DOMAIN s.cmdq
      BY <2>2 DEF SessionRec
    <3>2. cmd.op = "CWD" => cmd.arg \in Path
      BY <2>2 DEF Command
    <3> QED
      BY <2>3, <3>1, <3>2, DirsAssumption DEF Belief, Path
  <2>5. r.pwd = r.cwd
    <3>1. CASE cmd.op = "CWD" /\ code = "ok"
      BY <2>2, <2>4, <3>1 DEF ReadTo, CwdAfter, Moved
    <3>2. CASE ~(cmd.op = "CWD" /\ code = "ok")
      BY <2>2, <2>3, <3>2 DEF ReadTo, CwdAfter, Moved, Exact
    <3> QED
      BY <3>1, <3>2
  <2>6. r.prot <=> "PRIVACY" \in r.status
    <3>1. r.prot = ProtAfter(s, cmd, code) /\ r.status = StatusAfter(s, cmd, code)
      BY <2>2 DEF ReadTo
    <3>2. cmd.op # "PRIVACY"
      BY <2>2 DEF Command, Op
    <3>3. CASE code # "ok"
      BY <2>3, <3>1, <3>3 DEF ProtAfter, StatusAfter, Exact
    <3>4. CASE code = "ok" /\ cmd.op \notin {"ON", "OFF"}
      BY <2>3, <3>1, <3>2, <3>4 DEF ProtAfter, StatusAfter, Exact, Key
    <3>5. CASE code = "ok" /\ cmd.op \in {"ON", "OFF"}
      BY <2>3, <3>1, <3>5 DEF ProtAfter, StatusAfter, Exact, Key
    <3> QED
      BY <3>3, <3>4, <3>5
  <2> QED
    BY <2>5, <2>6 DEF Exact, r
<1> QED
  BY <1>1, <1>2, <1>3

LEMMA CommandExact ==
  ASSUME ExactInv, Command2
  PROVE  ExactInv'
<1>1. sess' = sess \/ sess' = [p \in Side |-> NoSession]
  BY DEF Command2, Go, Stop, StopDrop, QAdd, QDel, QMove
<1> QED
  BY <1>1, ExactNew DEF ExactInv

-----------------------------------------------------------------------------
(* What an answer does to the first item. *)

LEMMA AnswerAsked ==
  ASSUME FlightInv, NEW p \in Side, NEW cmd, NEW code, Answers(p, cmd, code)
  PROVE  /\ cmd \in Asked(state, p) /\ sess[p].cmdq # <<>> /\ cmd = Head(sess[p].cmdq)
         /\ code \in Codes(cmd)
BY HeadTailProperties DEF FlightInv, Answers

\* The item keeps what it was queued with and is charged with a refusal.
LEMMA AnswerBlames ==
  ASSUME IInv, NEW p \in Side, NEW cmd, NEW code, Answers(p, cmd, code), loop = "poll",
         items # <<>>
  PROVE  /\ items' # <<>> /\ Head(items').id = Top.id /\ Head(items').dir = Top.dir
         /\ Head(items').rest = Top.rest
         /\ FailsSrc(cmd.ev, Heard(code)) => Failed'
         /\ ~ClearsDst(cmd.ev, Heard(code)) => (Failed \/ FailsDst(cmd.ev, Heard(code)) => Failed')
<1> DEFINE x == TopAfter(cmd.ev, Heard(code))
<1>1. Top \in Triable /\ Top \in Item /\ items \in Seq(Triable)
  BY PollingItems DEF IInv, Triable
<1>2. x \in Triable
  BY <1>1, TopAfterType DEF IInv, WorldInv
<1>3. /\ x.id = Top.id /\ x.dir = Top.dir /\ x.rest = Top.rest
  BY <1>1 DEF TopAfter, Item
<1>4. /\ x.sfail = (Top.sfail \/ FailsSrc(cmd.ev, Heard(code)))
      /\ x.dfail = ((Top.dfail \/ FailsDst(cmd.ev, Heard(code))) /\ ~ClearsDst(cmd.ev, Heard(code)))
  BY <1>1 DEF TopAfter, Item
<1>5. items' = SetTop(x)
  BY DEF Answers
<1> HIDE DEF x
<1>6. items' # <<>> /\ Head(items') = x
  <2>1. items' # <<>>
    BY <1>1, <1>2, <1>5, HeadAndTail DEF SetTop
  <2> QED
    BY <1>1, <1>2, <1>5, <2>1, HeadOfSetTop
<1>7. Failed' = (x.sfail \/ x.dfail)
  BY <1>6 DEF Failed, Top
<1> QED
  BY <1>3, <1>4, <1>6, <1>7 DEF Failed

\* A file that works with its sessions keeps its item through every event.
LEMMA EventTop ==
  ASSUME IInv, NEW p \in Side, SessionEvent(p), state \in FileState
  PROVE  /\ items # <<>> /\ items' # <<>> /\ Top'.id = Top.id /\ Top'.dir = Top.dir
         /\ Top'.rest = Top.rest
<1>1. items # <<>>
  BY DEF IInv, ListInv, HeadPresent, Headed
<1>2. loop = "poll" /\ (Quiet(p) \/ \E cmd, code : Answers(p, cmd, code))
  BY EventIs
<1>3. CASE Quiet(p)
  BY <1>1, <1>3 DEF Quiet, Blames, Top
<1>4. CASE \E cmd, code : Answers(p, cmd, code)
  BY <1>1, <1>2, <1>4, AnswerBlames DEF Top
<1> QED
  BY <1>2, <1>3, <1>4

-----------------------------------------------------------------------------
(* SecureInv is kept. *)

LEMMA EventSecure ==
  ASSUME IInv, FlightInv, SecureInv, NEW p \in Side, SessionEvent(p)
  PROVE  SecureInv'
<1>1. /\ UNCHANGED <<state, stop, src>> /\ loop = "poll"
      /\ \A q \in Side \ {p} : sess'[q] = sess[q]
      /\ Quiet(p) \/ \E cmd, code : Answers(p, cmd, code)
  BY EventIs
<1>2. secure => secure'
  BY <1>1 DEF Quiet, Answers
<1>d. Demanded' = Demanded
  BY DEF Demanded
<1> SUFFICES ASSUME state = "FILE_PHASE_2_WAIT"
             PROVE  secure' \/ Failed' \/ ~BothHere' \/ \E q \in Side : sess'[q].cmdq # <<>>
  BY <1>1, <1>2, <1>d DEF SecureInv
<1>3. items # <<>>
  BY DEF IInv, ListInv, HeadPresent, Headed, FileState
<1>4. secure \/ Failed \/ ~BothHere \/ \E q \in Side : sess[q].cmdq # <<>>
  BY DEF SecureInv
<1>5. CASE Quiet(p)
  <2>1. Failed => Failed'
    BY <1>3, <1>5 DEF Quiet, Blames
  <2>2. CASE sess'[p] = NoSession
    BY <2>2, BeliefNew DEF BothHere
  <2>3. CASE Same(sess[p], sess'[p]) /\ sess'[p].cmdq = sess[p].cmdq
    <3>1. \A q \in Side : sess'[q].here = sess[q].here /\ sess'[q].cmdq = sess[q].cmdq
      BY <1>1, <2>3 DEF Kept, Same
    <3> QED
      BY <1>2, <1>4, <2>1, <3>1 DEF BothHere
  <2> QED
    BY <1>5, <2>2, <2>3 DEF Quiet
<1>6. CASE \E cmd, code : Answers(p, cmd, code)
  <2>1. PICK cmd, code : Answers(p, cmd, code)
    BY <1>6
  <2>2. cmd \in Named({"PHASE_2_SRC_SECURE", "PHASE_2_DST_SECURE"}, {"ON"})
    BY <2>1, AnswerAsked, AskedIs
  <2>3. cmd.ev \in {"PHASE_2_SRC_SECURE", "PHASE_2_DST_SECURE"}
    BY <2>2 DEF Named
  <2>4. Heard(code) = "ok" => secure'
    BY <2>1, <2>3 DEF Answers
  <2>5. Heard(code) # "ok" => FailsSrc(cmd.ev, Heard(code)) \/ FailsDst(cmd.ev, Heard(code))
    BY <2>3 DEF FailsSrc, FailsDst
  <2>6. ~ClearsDst(cmd.ev, Heard(code))
    BY <2>3 DEF ClearsDst
  <2> QED
    BY <1>1, <1>3, <2>1, <2>4, <2>5, <2>6, AnswerBlames
<1> QED
  BY <1>1, <1>5, <1>6

\* The phases that follow when the privacy was told.
Later ==
  \/ Phase3Wait \/ Phase4Start \/ Phase5Start \/ Phase5RestWait \/ Phase6Start
  \/ Phase7Start \/ Phase7Wait \/ Phase8Start \/ Phase8Wait \/ Phase9Start \/ Phase9Rest
  \/ Phase10Start \/ Phase10Wait \/ Phase11Start \/ Phase11Wait \/ Phase12Start

\* They come after one another, with the queue's view of TLS as it was.
LEMMA LaterIs ==
  ASSUME Later
  PROVE  /\ state \in Private \cup {"FILE_PHASE_3_WAIT"} /\ UNCHANGED <<secure, src, mkd, store>>
         /\ state = "FILE_PHASE_3_WAIT" => Phase3Wait
         /\ state' # "FILE_PHASE_3_WAIT"
<1>0. CASE Phase3Wait
  BY <1>0, InState DEF Phase3Wait, fileVars, Private
<1>1. CASE Phase4Start \/ Phase5Start \/ Phase5RestWait
  BY <1>1, InState DEF Phase4Start, Phase5Start, Phase5RestWait, fileVars, Private
<1>2. CASE Phase6Start \/ Phase7Start \/ Phase7Wait \/ Phase8Start
  BY <1>2, InState DEF Phase6Start, Phase7Start, Phase7Wait, Phase8Start, fileVars, Private
<1>3. CASE Phase8Wait \/ Phase9Start \/ Phase9Rest \/ Phase10Start
  BY <1>3, InState DEF Phase8Wait, Phase9Start, Phase9Rest, Phase10Start, fileVars, Private
<1>4. CASE Phase10Wait \/ Phase11Start \/ Phase11Wait \/ Phase12Start
  BY <1>4, InState DEF Phase10Wait, Phase11Start, Phase11Wait, Phase12Start, fileVars,
     Private, Transferring
<1> QED
  BY <1>0, <1>1, <1>2, <1>3, <1>4, Zenon DEF Later

\* What the other calls of queue_process lead to.
LEMMA NotLater ==
  ASSUME IInv, Pass, ~Later, ~Waiting
  PROVE  /\ state' \notin Private
         /\ state' = "FILE_PHASE_3_WAIT" => Phase3Start
         /\ state' = "FILE_PHASE_3_START" => Phase2Local \/ Phase2Wait \/ Phase2Disable
         /\ state' = "FILE_PHASE_2_WAIT" => Phase2Client
         /\ state' \in {"FILE_PHASE_2_START", "FILE_PHASE_2_DISABLE"} => Phase1Idle \/ Phase2Plain \/ Phase2Wait
         /\ state' = "FILE_PHASE_1_IDLE" => Phase1Start
<1>1. CASE FilePass
  <2>1. CASE FileStart \/ Phase1Start \/ Phase1Idle \/ Phase2Plain
    BY <2>1 DEF FileStart, Phase1Start, Phase1Idle, Phase2Plain, Private, Transferring
  <2>2. CASE Phase2Local \/ Phase2Client \/ Phase2Wait
    BY <2>2 DEF Phase2Local, Phase2Client, Phase2Wait, Private, Transferring
  <2>3. CASE Phase2Disable \/ Phase3Start
    BY <2>3 DEF Phase2Disable, Phase3Start, Private, Transferring
  <2> QED
    BY <1>1, <2>1, <2>2, <2>3, Zenon DEF FilePass, Later
<1>2. CASE Idle
  BY <1>2, InState DEF Idle, Private, Transferring
<1>a. CASE Active
  <2>1. state = "ACTIVE"
    BY <1>a, InState DEF Active
  <2>2. Top.type \in ItemType
    BY <2>1, HeadAndTail DEF IInv, ListInv, HeadPresent, Charged, Triable, Item, Top
  <2> QED
    BY <1>a, <2>2 DEF Active, ItemType, Private, Transferring
<1>3. CASE Start \/ IsConnected \/ StartNextItem \/ ActiveEnd \/ DirectoryPass
           \/ ItemFailed \/ RequeueItem \/ ErrorItem \/ RemoveItem \/ Empty
  BY <1>3 DEF Start, IsConnected, StartNextItem, ActiveEnd, DirectoryPass,
     DirectoryStart, DirectoryPhase1Idle, DirectoryPhase2Start, DirectoryPhase2Mkd,
     DirectoryPhase2Compare, ItemFailed, RequeueItem, ErrorItem, RemoveItem, Empty, NextItem,
     Private, Transferring
<1> QED
  BY <1>1, <1>2, <1>3, <1>a DEF Pass

LEMMA WaitingIs ==
  ASSUME Waiting
  PROVE  /\ UNCHANGED <<state, src, items, secure, mkd, store, wire>>
         /\ \A p \in Side : sess'[p] \in {NoSession, sess[p]}
<1>1. /\ UNCHANGED <<state, src, items, secure, mkd, store, wire>> /\ Sleep(sess)
  BY DEF Waiting, queueVars, listVars, fileVars, worldVars
<1> QED
  BY <1>1, Leaves

LEMMA PassSecure ==
  ASSUME ClientsTold, IInv, SecureInv, Pass
  PROVE  SecureInv'
<1>d. Demanded' = Demanded
  BY DEF Demanded
<1>w. "FILE_PHASE_2_WAIT" \notin Settled /\ Private \subseteq Settled
      /\ {"FILE_PHASE_3_START", "FILE_PHASE_3_WAIT"} \subseteq Settled
      /\ Settled = Private \cup {"FILE_PHASE_3_START", "FILE_PHASE_3_WAIT"}
  BY DEF Settled, Private, Transferring
<1>1. CASE Waiting
  <2>1. /\ UNCHANGED <<state, src, items, secure>>
        /\ \A p \in Side : sess'[p] \in {NoSession, sess[p]}
    BY <1>1, WaitingIs
  <2>2. Failed' = Failed
    BY <2>1 DEF Failed, Top
  <2>3. CASE \E p \in Side : sess'[p] = NoSession
    BY <1>d, <2>1, <2>3, BeliefNew DEF SecureInv, BothHere
  <2>4. CASE \A p \in Side : sess'[p] = sess[p]
    BY <1>d, <2>1, <2>2, <2>4 DEF SecureInv, BothHere
  <2> QED
    BY <2>1, <2>3, <2>4
<1>2. CASE Later /\ ~Waiting
  <2>1. state \in Settled /\ UNCHANGED secure
    BY <1>2, <1>w, LaterIs
  <2>2. state' # "FILE_PHASE_2_WAIT"
    BY <1>2 DEF Later, Phase3Wait, Phase4Start, Phase5Start, Phase5RestWait, Phase6Start,
       Phase7Start, Phase7Wait, Phase8Start, Phase8Wait, Phase9Start, Phase9Rest,
       Phase10Start, Phase10Wait, Phase11Start, Phase11Wait, Phase12Start
  <2> QED
    BY <1>d, <2>1, <2>2 DEF SecureInv
<1>3. CASE ~Later /\ ~Waiting
  <2>1. CASE Phase2Client
    <3>1. PICK p \in Side, r \in SessionRec :
            /\ \E nodelay : Settle([sess EXCEPT ![p] = r], nodelay)
            /\ secure' \/ r.cmdq # <<>>
      BY <2>1, Phase2Tells
    <3> DEFINE ss == [sess EXCEPT ![p] = r]
    <3>2. ss[p] = r
      BY DEF IInv, SessionInv
    <3>3. \E nodelay : Settle(ss, nodelay)
      BY <3>1
    <3> HIDE DEF ss
    <3>4. sess'[p] \in {NoSession, r}
      BY <3>2, <3>3, Leaves
    <3>5. state' = "FILE_PHASE_2_WAIT"
      BY <2>1 DEF Phase2Client
    <3>6. ~BothHere' \/ sess'[p] = r
      BY <3>4, BeliefNew DEF BothHere
    <3> QED
      BY <1>w, <3>1, <3>5, <3>6 DEF SecureInv
  <2>2. CASE state' = "FILE_PHASE_3_WAIT" /\ Phase3Start
    <3>1. state = "FILE_PHASE_3_START" /\ UNCHANGED secure
      BY <2>2, InState DEF Phase3Start, fileVars
    <3> QED
      BY <1>d, <1>w, <2>2, <3>1 DEF SecureInv
  <2>3. CASE state' = "FILE_PHASE_3_START" /\ Phase2Local
    <3>1. secure'
      BY <2>3 DEF Phase2Local
    <3> QED
      BY <1>w, <2>3, <3>1 DEF SecureInv
  <2>4. CASE state' = "FILE_PHASE_3_START" /\ Phase2Wait
    <3>1. state = "FILE_PHASE_2_WAIT" /\ UNCHANGED secure /\ BothIdle /\ ~Failed
      BY <2>4, InState DEF Phase2Wait, fileVars
    <3>2. secure
      BY <3>1 DEF SecureInv, BothIdle, BothHere, IsIdle
    <3> QED
      BY <1>w, <2>4, <3>1, <3>2 DEF SecureInv
  <2>5. CASE state' = "FILE_PHASE_3_START" /\ Phase2Disable
    <3>1. In("FILE_PHASE_2_DISABLE") /\ "FILE_PHASE_2_DISABLE" \in FileState \cup DirectoryState
      BY <2>5 DEF Phase2Disable, FileState
    <3>2. \A p \in Side : p \in {src, Dst}
      BY <3>1, TwoSides
    <3>3. ~Demands(SrcSite) /\ ~Demands(DstSite)
      BY <2>5 DEF Phase2Disable
    <3>4. ~Demanded
      BY <3>2, <3>3 DEF Demanded, SrcSite, DstSite
    <3> QED
      BY <1>d, <1>w, <2>5, <3>4 DEF SecureInv
  <2>6. CASE state' \notin Private \cup {"FILE_PHASE_3_START", "FILE_PHASE_3_WAIT", "FILE_PHASE_2_WAIT"}
    BY <1>w, <2>6 DEF SecureInv
  <2> QED
    BY <1>3, <2>1, <2>2, <2>3, <2>4, <2>5, <2>6, NotLater
<1> QED
  BY <1>1, <1>2, <1>3

\* The users leave the queue in its phase, with its first item, or take it out.
LEMMA CommandIs ==
  ASSUME NoStops, IInv, Command2, state' \in FileState
  PROVE  UNCHANGED <<state, src, sess, secure, mkd, store, wire, Top>>
<1>1. state' \in {"START", "IDLE"} \/ UNCHANGED <<state, src, sess, wire>>
  BY DEF Command2, Go, Stop, StopDrop, QAdd, QDel, QMove, queueVars
<1>2. UNCHANGED <<secure, mkd, store>>
  BY DEF Command2, Go, Stop, StopDrop, QAdd, QDel, QMove, fileVars
<1>3. UNCHANGED <<state, src, sess, wire>>
  BY <1>1 DEF FileState
<1>4. Top' = Top
  BY <1>3, CommandKeepsHead DEF IInv, NoStops, Top
<1> QED
  BY <1>2, <1>3, <1>4

LEMMA SettledFile ==
  /\ Settled \cup Placed \cup Private \cup Transferring \subseteq FileState
  /\ {"FILE_PHASE_1_IDLE", "FILE_PHASE_2_WAIT", "FILE_PHASE_10_WAIT", "FILE_PHASE_9_REST",
      "FILE_PHASE_10_START"} \subseteq FileState
BY DEF Settled, Placed, Private, Transferring, FileState

LEMMA CommandSecure ==
  ASSUME NoStops, IInv, SecureInv, Command2
  PROVE  SecureInv'
<1> SUFFICES ASSUME state' \in FileState PROVE SecureInv'
  BY SettledFile DEF SecureInv
<1>1. UNCHANGED <<state, src, sess, secure, Top>>
  BY CommandIs
<1> QED
  BY <1>1 DEF SecureInv, Failed, BothHere, Demanded

-----------------------------------------------------------------------------
(* PrivacyInv is kept. *)

\* Once the privacy is told, no command changes it, and none is about TLS.
LEMMA AskedPrivate ==
  ASSUME NEW st \in Private, NEW p, NEW cmd \in Asked(st, p)
  PROVE  /\ cmd.ev \notin {"PHASE_2_SRC_SECURE", "PHASE_2_DST_SECURE"}
         /\ cmd.op \in {"ON", "OFF"} => cmd.arg # "PRIVACY"
<1>1. CASE st \in Calm
  BY <1>1, AskedIs
<1>2. CASE st \in {"FILE_PHASE_5_START", "FILE_PHASE_9_REST", "FILE_PHASE_10_START"}
  BY <1>2, AskedIs DEF Flags
<1>3. CASE st \in {"FILE_PHASE_5_REST_WAIT", "FILE_PHASE_6_START", "FILE_PHASE_7_START",
                   "FILE_PHASE_7_WAIT", "FILE_PHASE_8_WAIT", "FILE_PHASE_10_WAIT",
                   "FILE_PHASE_11_WAIT"}
  BY <1>3, AskedIs DEF Named
<1> QED
  BY <1>1, <1>2, <1>3 DEF Private, Transferring, Calm

\* A reply in one of these phases leaves the session where it is.
LEMMA PrivateAnswered ==
  ASSUME IInv, FlightInv, state \in Private \cup {"FILE_PHASE_3_WAIT"}, loop = "poll",
         NEW p \in Side, NEW cmd, NEW code, Answers(p, cmd, code)
  PROVE  /\ cmd \in Asked(state, p) /\ cmd \in Still
         /\ sess[p].cmdq # <<>> /\ cmd = Head(sess[p].cmdq) /\ sess[p].here
         /\ sess'[p].cmdq = Tail(sess[p].cmdq) /\ sess'[p].cwd = sess[p].cwd
         /\ sess'[p].status = StatusAfter(sess[p], cmd, code)
         /\ UNCHANGED secure
<1>1. cmd \in Asked(state, p) /\ sess[p].here
  BY AnswerAsked DEF Answers
<1>2. cmd \in Still
  <2>1. state \in (FileState \cup {"ACTIVE"}) \ {"FILE_PHASE_1_IDLE"}
    BY DEF Private, Transferring, FileState
  <2> QED
    BY <1>1, <2>1, AskedStill
<1>3. cmd.ev \notin {"PHASE_2_SRC_SECURE", "PHASE_2_DST_SECURE"}
  <2>1. CASE state \in Private
    BY <1>1, <2>1, AskedPrivate
  <2>2. CASE state = "FILE_PHASE_3_WAIT"
    BY <1>1, <2>2, AskedIs DEF Flags
  <2> QED
    BY <2>1, <2>2
<1>4. UNCHANGED secure
  BY <1>3 DEF Answers, IInv, FileInv
<1> QED
  BY <1>1, <1>2, <1>4, StillAnswered

\* What is told of one thing only is answered of it only.
LEMMA TailOnly ==
  ASSUME NEW q \in Seq(Command), q # <<>>, NEW op, \A i \in DOMAIN q : q[i].op = op
  PROVE  Head(q).op = op /\ \A i \in DOMAIN Tail(q) : Tail(q)[i].op = op
<1>1. /\ Tail(q) \in Seq(Command) /\ Len(Tail(q)) = Len(q) - 1 /\ Len(q) \in Nat \ {0}
      /\ Head(q) = q[1] /\ \A i \in 1 .. Len(Tail(q)) : Tail(q)[i] = q[i + 1]
  BY HeadTailProperties
<1>2. DOMAIN Tail(q) = 1 .. Len(q) - 1 /\ DOMAIN q = 1 .. Len(q)
  BY <1>1
<1>3. \A i \in DOMAIN Tail(q) : i + 1 \in DOMAIN q
  BY <1>1, <1>2
<1> QED
  BY <1>1, <1>2, <1>3

LEMMA EventPrivacy ==
  ASSUME ExactCodes, IInv, FlightInv, PrivacyInv, NEW p \in Side, SessionEvent(p)
  PROVE  PrivacyInv'
<1>1. /\ UNCHANGED <<state, stop, src>> /\ loop = "poll"
      /\ \A q \in Side \ {p} : sess'[q] = sess[q]
      /\ Quiet(p) \/ \E cmd, code : Answers(p, cmd, code)
  BY EventIs
<1> SUFFICES ASSUME state \in Private \cup {"FILE_PHASE_3_WAIT"} PROVE PrivacyInv'
  BY <1>1 DEF PrivacyInv
<1>2. items # <<>>
  BY SettledFile DEF IInv, ListInv, HeadPresent, Headed, FileState
<1>w. "FILE_PHASE_3_WAIT" \notin Private
  BY DEF Private, Transferring
<1>3. CASE Quiet(p)
  <2>1. UNCHANGED secure /\ (Failed => Failed')
    BY <1>2, <1>3 DEF Quiet, Blames
  <2>2. CASE sess'[p] = NoSession
    <3>1. sess'[p].cmdq = <<>> /\ ~sess'[p].here
      BY <2>2 DEF NoSession, NewSession
    <3> QED
      BY <1>1, <2>1, <3>1 DEF PrivacyInv
  <2>3. CASE Same(sess[p], sess'[p]) /\ sess'[p].cmdq = sess[p].cmdq
    <3>1. \A q \in Side : /\ sess'[q].here = sess[q].here /\ sess'[q].cmdq = sess[q].cmdq
                          /\ sess'[q].status = sess[q].status
      BY <1>1, <2>3 DEF Kept, Same
    <3> QED
      BY <1>1, <2>1, <3>1 DEF PrivacyInv
  <2> QED
    BY <1>3, <2>2, <2>3 DEF Quiet
<1>4. CASE \E cmd, code : Answers(p, cmd, code)
  <2>1. PICK cmd, code : Answers(p, cmd, code)
    BY <1>4
  <2>2. /\ cmd \in Asked(state, p) /\ sess[p].cmdq # <<>> /\ cmd = Head(sess[p].cmdq)
        /\ sess[p].here /\ sess'[p].cmdq = Tail(sess[p].cmdq)
        /\ sess'[p].status = StatusAfter(sess[p], cmd, code) /\ UNCHANGED secure
    BY <1>1, <2>1, PrivateAnswered
  <2>3. CASE state \in Private
    <3>1. cmd.op \in {"ON", "OFF"} => cmd.arg # "PRIVACY"
      BY <2>2, <2>3, AskedPrivate
    <3>2. "PRIVACY" \in sess[p].status => "PRIVACY" \in sess'[p].status
      BY <2>2, <3>1 DEF StatusAfter
    <3> QED
      BY <1>1, <1>w, <2>2, <2>3, <3>2 DEF PrivacyInv
  <2>4. CASE state = "FILE_PHASE_3_WAIT"
    <3>1. cmd.ev \in {"PHASE_3_SRC_PROT", "PHASE_3_DST_PROT"} /\ cmd.arg = "PRIVACY"
      BY <2>2, <2>4, AskedIs DEF Flags
    <3>2. Failed => Failed'
      BY <1>1, <1>2, <2>1, <3>1, AnswerBlames DEF ClearsDst
    <3>h. Heard(code) = code
      BY <2>1, ExactCode DEF Answers, Heard
    <3>3. code # "ok" => Failed'
      <4>1. code # "ok" => FailsSrc(cmd.ev, Heard(code)) \/ FailsDst(cmd.ev, Heard(code))
        BY <3>1, <3>h DEF FailsSrc, FailsDst
      <4>2. ~ClearsDst(cmd.ev, Heard(code))
        BY <3>1 DEF ClearsDst
      <4> QED
        BY <1>1, <1>2, <2>1, <4>1, <4>2, AnswerBlames
    <3>4. /\ cmd.op = IF secure THEN "ON" ELSE "OFF"
          /\ \A i \in DOMAIN sess'[p].cmdq : sess'[p].cmdq[i].op = IF secure THEN "ON" ELSE "OFF"
      <4> DEFINE op == IF secure THEN "ON" ELSE "OFF"
      <4>1. \A i \in DOMAIN sess[p].cmdq : sess[p].cmdq[i].op = op
        BY <2>4 DEF PrivacyInv
      <4>2. sess[p].cmdq \in Seq(Command)
        BY DEF IInv, SessionInv, SessionRec
      <4> HIDE DEF op
      <4>3. cmd.op = op /\ \A i \in DOMAIN sess'[p].cmdq : sess'[p].cmdq[i].op = op
        BY <2>2, <4>1, <4>2, TailOnly
      <4> QED
        BY <4>3 DEF op
    <3>5. secure /\ code = "ok" => "PRIVACY" \in sess'[p].status
      BY <2>2, <3>1, <3>4 DEF StatusAfter
    <3>6. \A q \in Side \ {p} : sess'[q] = sess[q]
      BY <1>1
    <3>7. state' = "FILE_PHASE_3_WAIT" /\ secure' = secure
      BY <1>1, <2>2, <2>4
    <3>8. \A q \in Side : \A i \in DOMAIN sess'[q].cmdq :
             sess'[q].cmdq[i].op = IF secure THEN "ON" ELSE "OFF"
      BY <2>4, <3>4, <3>6 DEF PrivacyInv
    <3>9. secure => \A q \in Side : sess'[q].here =>
             Failed' \/ sess'[q].cmdq # <<>> \/ "PRIVACY" \in sess'[q].status
      BY <2>4, <3>2, <3>3, <3>5, <3>6 DEF PrivacyInv
    <3> QED
      BY <1>w, <3>7, <3>8, <3>9 DEF PrivacyInv
  <2> QED
    BY <2>3, <2>4
<1> QED
  BY <1>1, <1>3, <1>4

\* A later phase is a phase of a file but the first.
LEMMA LaterTold ==
  ASSUME IInv, FlightInv, Later
  PROVE  /\ Told(state') /\ Empties
         /\ \A p \in Side : \/ sess'[p] = NoSession
                            \/ /\ sess'[p].here = sess[p].here /\ sess'[p].cwd = sess[p].cwd
                               /\ sess'[p].status = sess[p].status
<1>1. FilePass
  BY DEF Later, FilePass
<1>2. ~Phase1Start
  <2>1. state # "FILE_PHASE_1_START"
    BY LaterIs DEF Private, Transferring
  <2> QED
    BY <2>1, InState DEF Phase1Start
<1>3. Told(state') /\ Empties
  BY <1>1, <1>2, FilePassTold, PassEmpties
<1> QED
  BY <1>3 DEF Told, Kept, Same

LEMMA PassPrivacy ==
  ASSUME IInv, FlightInv, PrivacyInv, Pass
  PROVE  PrivacyInv'
<1>w. "FILE_PHASE_3_WAIT" \notin Private
  BY DEF Private, Transferring
<1>n. NoSession.cmdq = <<>> /\ ~NoSession.here
  BY DEF NoSession, NewSession
<1>1. CASE Waiting
  <2>1. /\ UNCHANGED <<state, src, items, secure>>
        /\ \A p \in Side : sess'[p] \in {NoSession, sess[p]}
    BY <1>1, WaitingIs
  <2>2. Failed' = Failed
    BY <2>1 DEF Failed, Top
  <2> QED
    BY <1>n, <2>1, <2>2 DEF PrivacyInv
<1>2. CASE Later /\ ~Waiting
  <2>1. /\ state \in Private \cup {"FILE_PHASE_3_WAIT"} /\ UNCHANGED secure
        /\ state' # "FILE_PHASE_3_WAIT"
    BY <1>2, LaterIs
  <2> SUFFICES ASSUME state' \in Private, secure, NEW p \in Side, sess'[p].here
               PROVE  "PRIVACY" \in sess'[p].status
    BY <2>1 DEF PrivacyInv
  <2>2. sess[p].here /\ sess'[p].status = sess[p].status
    BY <1>2, <1>n, LaterTold
  <2>3. "PRIVACY" \in sess[p].status
    <3>1. CASE state \in Private
      BY <2>2, <3>1 DEF PrivacyInv
    <3>2. CASE state = "FILE_PHASE_3_WAIT"
      <4>1. Phase3Wait
        BY <1>2, <3>2, LaterIs
      <4>2. ~Failed
        BY <4>1 DEF Phase3Wait, Private, Transferring
      <4>3. sess[p].cmdq = <<>>
        BY <1>2, LaterTold DEF Empties
      <4> QED
        BY <2>2, <3>2, <4>2, <4>3 DEF PrivacyInv
    <3> QED
      BY <2>1, <3>1, <3>2
  <2> QED
    BY <2>2, <2>3
<1>3. CASE Phase3Start
  <2> DEFINE op == IF secure THEN "ON" ELSE "OFF"
             C == {c \in Flags({"PHASE_3_SRC_PROT", "PHASE_3_DST_PROT"}, "PRIVACY") : c.op = op}
  <2>1. PICK ss : /\ \E nodelay : Settle(ss, nodelay)
                  /\ \A p \in Side :
                       /\ Adds(sess[p], ss[p], C)
                       /\ ss[p].cmdq # <<>> \/ ("PRIVACY" \in sess[p].status) = secure
                          \/ ~sess[p].here
    BY <1>3, Phase3Tells
  <2>2. \A p \in Side : sess'[p] \in {NoSession, ss[p]}
    BY <2>1, Leaves
  <2>3. Empties /\ UNCHANGED secure /\ state' = "FILE_PHASE_3_WAIT"
    BY <1>3 DEF Phase3Start, fileVars, BothIdle, IsIdle, Empties
  <2>4. \A c \in C : c.op = op
    OBVIOUS
  <2> HIDE DEF C
  <2>5. ASSUME NEW p \in Side
        PROVE  /\ \A i \in DOMAIN sess'[p].cmdq : sess'[p].cmdq[i].op = op
               /\ secure /\ sess'[p].here =>
                    sess'[p].cmdq # <<>> \/ "PRIVACY" \in sess'[p].status
    <3>1. CASE sess'[p] = NoSession
      BY <1>n, <3>1
    <3>2. CASE sess'[p] = ss[p]
      <4>1. <<>> \in Seq(C)
        OBVIOUS
      <4>2. Kept(sess[p], sess'[p]) /\ sess'[p].cmdq \in Seq(C)
        BY <2>1, <2>3, <3>2, <4>1 DEF Adds, Empties
      <4>3. \A i \in DOMAIN sess'[p].cmdq : sess'[p].cmdq[i] \in C
        BY <4>2, InList
      <4> QED
        BY <2>1, <2>4, <3>2, <4>2, <4>3 DEF Kept, Same
    <3> QED
      BY <2>2, <3>1, <3>2
  <2> HIDE DEF op
  <2>6. op = IF secure' THEN "ON" ELSE "OFF"
    BY <2>3 DEF op
  <2> QED
    BY <1>w, <2>3, <2>5, <2>6 DEF PrivacyInv
<1>4. CASE ~Later /\ ~Waiting /\ ~Phase3Start
  BY <1>4, NotLater DEF PrivacyInv
<1> QED
  BY <1>1, <1>2, <1>3, <1>4

LEMMA CommandPrivacy ==
  ASSUME NoStops, IInv, PrivacyInv, Command2
  PROVE  PrivacyInv'
<1> SUFFICES ASSUME state' \in FileState PROVE PrivacyInv'
  <2>1. "FILE_PHASE_3_WAIT" \in FileState /\ Private \subseteq FileState
    BY SettledFile DEF Settled
  <2> QED
    BY <2>1 DEF PrivacyInv
<1>1. UNCHANGED <<state, src, sess, secure, Top>>
  BY CommandIs
<1> QED
  BY <1>1 DEF PrivacyInv, Failed

-----------------------------------------------------------------------------
(* RestartInv is kept. *)

\* Which phase leads to which.
LEMMA LaterFrom ==
  ASSUME Later
  PROVE  /\ state' = "FILE_PHASE_9_REST" => Phase9Start
         /\ state' = "FILE_PHASE_10_START" => Phase9Rest
         /\ state' = "FILE_PHASE_10_WAIT" => Phase10Start
         /\ state' = "FILE_PHASE_11_START" => Phase10Wait
         /\ state' = "FILE_PHASE_11_WAIT" => Phase11Start
         /\ state' = "FILE_PHASE_12_START" => Phase11Wait
<1>1. CASE Phase3Wait \/ Phase4Start \/ Phase5Start \/ Phase5RestWait
  BY <1>1 DEF Phase3Wait, Phase4Start, Phase5Start, Phase5RestWait
<1>2. CASE Phase6Start \/ Phase7Start \/ Phase7Wait \/ Phase8Start
  BY <1>2 DEF Phase6Start, Phase7Start, Phase7Wait, Phase8Start
<1>3. CASE Phase8Wait \/ Phase9Start \/ Phase9Rest \/ Phase10Start
  BY <1>3 DEF Phase8Wait, Phase9Start, Phase9Rest, Phase10Start
<1>4. CASE Phase10Wait \/ Phase11Start \/ Phase11Wait \/ Phase12Start
  BY <1>4 DEF Phase10Wait, Phase11Start, Phase11Wait, Phase12Start
<1> QED
  BY <1>1, <1>2, <1>3, <1>4, Zenon DEF Later

LEMMA RestartStates ==
  /\ {"FILE_PHASE_9_REST", "FILE_PHASE_10_START", "FILE_PHASE_10_WAIT"} \subseteq Private
  /\ Transferring \subseteq Private /\ Private \subseteq FileState
  /\ {"FILE_PHASE_9_REST", "FILE_PHASE_10_START", "FILE_PHASE_10_WAIT"} \cap Transferring = {}
BY DEF Private, Transferring, FileState

\* What keeps a session and does not clear a failure keeps its part.
LEMMA RestartsKept ==
  ASSUME NEW p \in Side, Restarts(p), UNCHANGED state, Top'.rest = Top.rest, Failed => Failed',
         sess'[p].status = sess[p].status, sess'[p].cmdq = sess[p].cmdq
  PROVE  Restarts(p)'
<1>1. Agrees(p)' = Agrees(p)
  BY DEF Agrees
<1> QED
  BY <1>1 DEF Restarts

LEMMA AnswerRestarts ==
  ASSUME IInv, FlightInv, RestartInv, loop = "poll", UNCHANGED state, state \in Private,
         NEW p \in Side, NEW cmd, NEW code, Answers(p, cmd, code),
         Top'.rest = Top.rest
  PROVE  Restarts(p)'
<1>0. items # <<>>
  BY RestartStates DEF IInv, ListInv, HeadPresent, Headed
<1>1. /\ cmd \in Asked(state, p) /\ sess[p].cmdq # <<>> /\ cmd = Head(sess[p].cmdq)
      /\ sess[p].here /\ sess'[p].cmdq = Tail(sess[p].cmdq)
      /\ sess'[p].status = StatusAfter(sess[p], cmd, code)
  BY PrivateAnswered
<1>2. Restarts(p)
  BY <1>1 DEF RestartInv
<1>3. /\ FailsSrc(cmd.ev, Heard(code)) => Failed'
      /\ ~ClearsDst(cmd.ev, Heard(code)) => (Failed \/ FailsDst(cmd.ev, Heard(code)) => Failed')
  BY <1>0, AnswerBlames
<1>4. CASE state = "FILE_PHASE_9_REST"
  <2>1. cmd.ev \in {"PHASE_9_SRC_REST", "PHASE_9_DST_REST"} /\ cmd.arg = "REST"
    BY <1>1, <1>4, AskedIs DEF Flags
  <2>h. Heard(code) = code
    <3>1. cmd.op \in {"ON", "OFF"}
      BY <1>1, <1>4, AskedIs DEF Flags
    <3>2. Key(cmd) = "REST" /\ code \in Codes(cmd)
      BY <2>1, <3>1 DEF Key, Answers
    <3> QED
      BY <3>2, PlainCode DEF Heard
  <2>2. code # "ok" => Failed'
    BY <1>3, <2>1, <2>h DEF FailsSrc, FailsDst, ClearsDst
  <2> DEFINE op == IF Top.rest THEN "ON" ELSE "OFF"
  <2>3. \A i \in DOMAIN sess[p].cmdq : sess[p].cmdq[i].op = op
    BY <1>2, <1>4 DEF Restarts
  <2>4. sess[p].cmdq \in Seq(Command)
    BY DEF IInv, SessionInv, SessionRec
  <2> HIDE DEF op
  <2>5. cmd.op = op /\ \A i \in DOMAIN sess'[p].cmdq : sess'[p].cmdq[i].op = op
    BY <1>1, <2>3, <2>4, TailOnly
  <2>6. op = IF Top'.rest THEN "ON" ELSE "OFF"
    BY DEF op
  <2>7. code = "ok" => Agrees(p)'
    <3>1. CASE Top.rest
      BY <1>1, <2>1, <2>5, <3>1 DEF StatusAfter, Agrees, op
    <3>2. CASE ~Top.rest
      <4>1. Top.rest = FALSE
        <5>1. Top \in Triable
          BY <1>0, PollingItems DEF IInv
        <5> QED
          BY <3>2, <5>1 DEF Triable, Item
      <4>2. Top'.rest = FALSE
        BY <4>1
      <4>3. code = "ok" => "REST" \notin sess'[p].status
        BY <1>1, <2>1, <2>5, <4>1 DEF StatusAfter, op
      <4>4. code = "ok" => ("REST" \in sess'[p].status) = FALSE
        BY <4>3
      <4> QED
        BY <4>2, <4>4, Zenon DEF Agrees
    <3> QED
      BY <3>1, <3>2
  <2> QED
    BY <1>4, <2>2, <2>5, <2>6, <2>7, RestartStates DEF Restarts
<1>5. CASE state = "FILE_PHASE_10_START"
  <2>1. cmd.ev = "PHASE_9_REST2"
    BY <1>1, <1>5, AskedIs DEF Flags
  <2>2. Failed
    BY <1>1, <1>2, <1>5 DEF Restarts
  <2> QED
    BY <1>3, <1>5, <2>1, <2>2, RestartStates DEF Restarts, ClearsDst
<1>6. CASE state = "FILE_PHASE_10_WAIT" \/ state \in Transferring
  <2>1. cmd.op \in {"STOR", "RETR"} /\ cmd.ev \in {"PHASE_10_STOR", "PHASE_11_RETR"}
    BY <1>1, <1>6, AskedIs DEF Named, Transferring, Calm
  <2>2. sess'[p].status = sess[p].status
    BY <1>1, <2>1 DEF StatusAfter
  <2>3. Agrees(p)' = Agrees(p)
    BY <2>2 DEF Agrees
  <2>4. Failed => Failed'
    BY <1>3, <2>1 DEF ClearsDst
  <2> QED
    BY <1>2, <1>6, <2>3, <2>4, RestartStates DEF Restarts
<1> QED
  BY <1>4, <1>5, <1>6 DEF Restarts

LEMMA EventRestart ==
  ASSUME IInv, FlightInv, RestartInv, NEW p \in Side, SessionEvent(p)
  PROVE  RestartInv'
<1>1. /\ UNCHANGED <<state, stop, src>> /\ loop = "poll"
      /\ \A q \in Side \ {p} : sess'[q] = sess[q]
      /\ Quiet(p) \/ \E cmd, code : Answers(p, cmd, code)
  BY EventIs
<1> SUFFICES ASSUME state \in Private, NEW q \in Side, sess'[q].here PROVE Restarts(q)'
  BY <1>1, RestartStates DEF RestartInv, Restarts
<1>2. items # <<>> /\ Top'.rest = Top.rest
  BY RestartStates, EventTop
<1>3. Failed => Failed'
  <2>1. CASE Quiet(p)
    BY <1>2, <2>1 DEF Quiet, Blames
  <2>2. CASE \E cmd, code : Answers(p, cmd, code)
    <3>1. PICK cmd, code : Answers(p, cmd, code)
      BY <2>2
    <3>2. cmd \in Still
      BY <1>1, <3>1, PrivateAnswered
    <3>3. cmd.ev # "DIRECTORY_PHASE_2_DST_MKD"
      <4>1. cmd \in Asked(state, p)
        BY <3>1, AnswerAsked
      <4> QED
        BY <4>1, AskedIs DEF Private, Transferring, Calm, Flags, Named
    <3>4. ~ClearsDst(cmd.ev, Heard(code))
      BY <3>2, <3>3 DEF ClearsDst, Still, Moves, Steers
    <3> QED
      BY <1>1, <1>2, <3>1, <3>4, AnswerBlames
  <2> QED
    BY <1>1, <2>1, <2>2
<1>4. CASE q # p
  BY <1>1, <1>2, <1>3, <1>4, RestartsKept DEF RestartInv
<1>5. CASE q = p /\ Quiet(p)
  <2>1. Same(sess[p], sess'[p]) /\ sess'[p].cmdq = sess[p].cmdq
    BY <1>5, BeliefNew DEF Quiet
  <2> QED
    BY <1>1, <1>2, <1>3, <1>5, <2>1, RestartsKept DEF RestartInv, Kept, Same
<1>6. CASE q = p /\ \E cmd, code : Answers(p, cmd, code)
  BY <1>1, <1>2, <1>6, AnswerRestarts
<1> QED
  BY <1>1, <1>4, <1>5, <1>6

\* STOR is sent for the item as it is, its counters cleared.
LEMMA Phase10Top ==
  ASSUME IInv, Phase10Start, state' = "FILE_PHASE_10_WAIT"
  PROVE  /\ Top'.rest = Top.rest /\ Top'.id = Top.id /\ Top'.dir = Top.dir
         /\ Failed' = Failed /\ items' # <<>>
<1>1. items # <<>> /\ items \in Seq(Triable) /\ Top \in Triable /\ Top \in Item
  <2>1. In("FILE_PHASE_10_START") /\ "FILE_PHASE_10_START" \in FileState \cup DirectoryState
    BY DEF Phase10Start, FileState
  <2> QED
    BY <2>1, InPhase DEF IInv, Triable
<1>0. Top \in Triable
  BY <1>1
<1>t. [Top EXCEPT !.sxfer = 0, !.dxfer = 0] \in Triable
  BY <1>0, CountersType, Zenon
<1> DEFINE x == [Top EXCEPT !.sxfer = 0, !.dxfer = 0]
<1>4. x \in Triable
  BY <1>t
<1>2. items' = SetTop(x)
  BY DEF Phase10Start
<1>3. /\ x.rest = Top.rest /\ x.id = Top.id /\ x.dir = Top.dir
      /\ x.sfail = Top.sfail /\ x.dfail = Top.dfail
  BY <1>1 DEF Item
<1> HIDE DEF x
<1>5. items' # <<>> /\ Head(items') = x
  <2>1. items' # <<>>
    BY <1>1, <1>2, <1>4, HeadAndTail DEF SetTop
  <2> QED
    BY <1>1, <1>2, <1>4, <2>1, HeadOfSetTop
<1> QED
  BY <1>3, <1>5 DEF Top, Failed

LEMMA PassRestart ==
  ASSUME IInv, FlightInv, RestartInv, Pass
  PROVE  RestartInv'
<1>n. NoSession.cmdq = <<>> /\ ~NoSession.here
  BY DEF NoSession, NewSession
<1>1. CASE Waiting
  <2>1. /\ UNCHANGED <<state, items>> /\ \A p \in Side : sess'[p] \in {NoSession, sess[p]}
    BY <1>1, WaitingIs
  <2>2. (Failed => Failed') /\ Top' = Top
    BY <2>1 DEF Failed, Top
  <2> SUFFICES ASSUME NEW p \in Side, sess'[p].here PROVE Restarts(p)'
    BY DEF RestartInv
  <2>3. sess'[p] = sess[p]
    BY <1>n, <2>1
  <2> QED
    BY <2>1, <2>2, <2>3, RestartsKept DEF RestartInv
<1>2. CASE Later /\ ~Waiting
  <2> SUFFICES ASSUME NEW p \in Side, sess'[p].here PROVE Restarts(p)'
    BY DEF RestartInv
  <2>1. /\ sess[p].here /\ sess'[p].status = sess[p].status /\ sess[p].cmdq = <<>>
        /\ Restarts(p) /\ sess'[p] # NoSession
    BY <1>2, <1>n, LaterTold DEF Empties, RestartInv
  <2>2. CASE state' = "FILE_PHASE_9_REST"
    <3>1. Phase9Start
      BY <1>2, <2>2, LaterFrom
    <3> DEFINE op == IF Top.rest THEN "ON" ELSE "OFF"
               C == {c \in Flags({"PHASE_9_SRC_REST", "PHASE_9_DST_REST"}, "REST") : c.op = op}
    <3>2. PICK ss : /\ \E nodelay : Settle(ss, nodelay)
                    /\ \A q \in Side :
                         /\ Adds(sess[q], ss[q], C)
                         /\ ss[q].cmdq # <<>> \/ ("REST" \in sess[q].status) = Top.rest
                            \/ ~sess[q].here
      BY <3>1, Phase9Tells
    <3>3. sess'[p] = ss[p]
      BY <2>1, <3>2, Leaves
    <3>4. \A c \in C : c.op = op
      OBVIOUS
    <3>5. Top' = Top
      BY <3>1 DEF Phase9Start, listVars, Top
    <3> HIDE DEF C
    <3>6. <<>> \in Seq(C)
      OBVIOUS
    <3>7. sess'[p].cmdq \in Seq(C)
      BY <2>1, <3>2, <3>3, <3>6 DEF Adds
    <3>8. \A i \in DOMAIN sess'[p].cmdq : sess'[p].cmdq[i].op = op
      BY <3>4, <3>7, InList
    <3>9. sess'[p].cmdq # <<>> \/ Agrees(p)'
      BY <2>1, <3>2, <3>3, <3>5 DEF Agrees
    <3> HIDE DEF op
    <3>10. op = IF Top'.rest THEN "ON" ELSE "OFF"
      BY <3>5 DEF op
    <3> QED
      BY <2>2, <3>8, <3>9, <3>10, RestartStates DEF Restarts
  <2>3. CASE state' = "FILE_PHASE_10_START"
    <3>1. Phase9Rest
      BY <1>2, <2>3, LaterFrom
    <3>2. state = "FILE_PHASE_9_REST" /\ UNCHANGED items
      BY <3>1, InState DEF Phase9Rest, listVars
    <3>3. Top' = Top /\ Failed' = Failed
      BY <3>2 DEF Top, Failed
    <3>4. ~Failed => sess' = sess
      BY <3>1 DEF Phase9Rest, Again
    <3>5. ~Failed => Agrees(p)
      BY <2>1, <3>2 DEF Restarts
    <3>6. Agrees(p)' = Agrees(p)
      BY <2>1, <3>3 DEF Agrees
    <3> QED
      BY <2>1, <2>3, <3>3, <3>4, <3>5, <3>6, RestartStates DEF Restarts
  <2>4. CASE state' = "FILE_PHASE_10_WAIT"
    <3>1. Phase10Start
      BY <1>2, <2>4, LaterFrom
    <3>2. state = "FILE_PHASE_10_START"
      BY <3>1, InState DEF Phase10Start
    <3>3. Failed' = Failed /\ Top'.rest = Top.rest
      BY <2>4, <3>1, Phase10Top
    <3>4. Agrees(p)' = Agrees(p)
      BY <2>1, <3>3 DEF Agrees
    <3> QED
      BY <2>1, <2>4, <3>2, <3>3, <3>4, RestartStates DEF Restarts
  <2>5. CASE state' \in Transferring
    <3>1. Phase10Wait \/ Phase11Start \/ Phase11Wait
      BY <1>2, <2>5, LaterFrom DEF Transferring
    <3>2. UNCHANGED items
      BY <3>1 DEF Phase10Wait, Phase11Start, Phase11Wait, listVars
    <3>3. Agrees(p)' = Agrees(p)
      BY <2>1, <3>2 DEF Agrees, Top
    <3>4. Agrees(p)
      <4>1. CASE Phase10Wait
        <5>1. state = "FILE_PHASE_10_WAIT" /\ ~Failed
          BY <2>5, <4>1, InState DEF Phase10Wait, Transferring
        <5> QED
          BY <2>1, <5>1 DEF Restarts
      <4>2. CASE Phase11Start \/ Phase11Wait
        <5>1. state \in Transferring
          BY <4>2, InState DEF Phase11Start, Phase11Wait, Transferring
        <5> QED
          BY <2>1, <5>1 DEF Restarts
      <4> QED
        BY <3>1, <4>1, <4>2
    <3> QED
      BY <2>5, <3>3, <3>4, RestartStates DEF Restarts
  <2> QED
    BY <2>2, <2>3, <2>4, <2>5 DEF Restarts
<1>3. CASE ~Later /\ ~Waiting
  <2>1. state' \notin Private
    BY <1>3, NotLater
  <2> QED
    BY <2>1, RestartStates DEF RestartInv, Restarts
<1> QED
  BY <1>1, <1>2, <1>3

LEMMA CommandRestart ==
  ASSUME NoStops, IInv, RestartInv, Command2
  PROVE  RestartInv'
<1> SUFFICES ASSUME state' \in FileState PROVE RestartInv'
  BY RestartStates DEF RestartInv, Restarts
<1>1. UNCHANGED <<state, src, sess, secure, Top>>
  BY CommandIs
<1> QED
  BY <1>1 DEF RestartInv, Restarts, Agrees, Failed

-----------------------------------------------------------------------------
(* PlaceInv is kept. *)

\* What the handler's addition has to be for the destination to be on its way.
LEMMA HeadingMore ==
  ASSUME NEW base \in Seq(Still), NEW more, UNCHANGED Dst, Top'.dir = Top.dir,
         sess'[Dst].cmdq = base \o more,
         \/ more = <<>> /\ (Failed' \/ sess'[Dst].cwd = Top.dir)
         \/ \E c \in Command :
              /\ more = <<c>> /\ c.ev \in {"PHASE_1_DST_CWD2", "PHASE_1_DST_MKD"}
              /\ store' => mkd' > 0
              /\ c.ev = "PHASE_1_DST_CWD2" /\ mkd' = 0 => c.arg = Top.dir
  PROVE  Heading'
<1> DEFINE q == sess'[Dst].cmdq
<1>1. \A c \in Still : ~Moves(c) /\ c.ev \notin Steers
  BY DEF Still, Moves
<1>2. CASE more = <<>> /\ (Failed' \/ sess'[Dst].cwd = Top.dir)
  <2>1. q = base
    BY <1>2, ConcatEmptySeq
  <2>2. \A i \in DOMAIN q : q[i].ev \notin Steers
    BY <1>1, <2>1, InList
  <2> QED
    BY <1>2, <2>2 DEF Heading, Steers
<1>3. CASE \E c \in Command :
             /\ more = <<c>> /\ c.ev \in {"PHASE_1_DST_CWD2", "PHASE_1_DST_MKD"}
             /\ store' => mkd' > 0
             /\ c.ev = "PHASE_1_DST_CWD2" /\ mkd' = 0 => c.arg = Top.dir
  <2>1. PICK c \in Command :
             /\ more = <<c>> /\ c.ev \in {"PHASE_1_DST_CWD2", "PHASE_1_DST_MKD"}
             /\ store' => mkd' > 0
             /\ c.ev = "PHASE_1_DST_CWD2" /\ mkd' = 0 => c.arg = Top.dir
    BY <1>3
  <2> DEFINE n == Len(base)
  <2>2. /\ n \in Nat /\ DOMAIN q = 1 .. n + 1
        /\ (\A i \in 1 .. n : q[i] = base[i]) /\ q[n + 1] = c
    BY <2>1
  <2>3. \A i \in 1 .. n : q[i].ev \notin Steers
    <3>1. \A i \in 1 .. n : base[i] \in Still
      BY ElementOfSeq
    <3> QED
      BY <1>1, <2>2, <3>1
  <2> HIDE DEF n, q
  <2>4. \A i \in DOMAIN q : q[i].ev \in Steers => q[i] = c
    BY <2>2, <2>3
  <2>5. n + 1 \in DOMAIN q /\ Moves(q[n + 1])
    BY <2>1, <2>2 DEF Moves, Steers
  <2>6. \A i \in DOMAIN q :
           /\ q[i].ev = "PHASE_1_DST_CWD" => q[i].arg = Top.dir
           /\ q[i].ev \in {"PHASE_1_DST_CWD2", "PHASE_1_DST_MKD"} => (store' => mkd' > 0)
           /\ q[i].ev = "PHASE_1_DST_CWD2" /\ mkd' = 0 => q[i].arg = Top.dir
    <3>1. TAKE i \in DOMAIN q
    <3>2. CASE q[i].ev \in Steers
      BY <2>1, <2>4, <3>2
    <3>3. CASE q[i].ev \notin Steers
      BY <3>3 DEF Steers
    <3> QED
      BY <3>2, <3>3
  <2> QED
    BY <2>5, <2>6 DEF Heading, q
<1> QED
  BY <1>2, <1>3

\* A directory is refused for good or not at all.
LEMMA HardCodes ==
  ASSUME NoSoft, ExactCodes, NEW cmd, cmd.op \in {"CWD", "MKD"}, NEW code \in Codes(cmd)
  PROVE  code \in {"ok", "fail"}
<1>1. code = "ok" \/ <<cmd.op, code>> \in Refusals
  BY DEF Codes, Key
<1>2. <<cmd.op, code>> \in Refusals => code \in {"soft", "fail", "near"}
  BY QueueAssumption DEF Refusal
<1>3. code # "near"
  BY ExactCode
<1> QED
  BY <1>1, <1>2, <1>3 DEF NoSoft

\* The destination has come to where it was told, or makes the next directory,
\* or enters the one it made.
LEMMA AnswerHeading ==
  ASSUME NoSoft, ExactCodes, IInv, FlightInv, BeliefInv, ExactInv, Heading,
         state = "FILE_PHASE_1_IDLE",
         loop = "poll", Dst # src, UNCHANGED Dst, Dst \in Side, items # <<>>,
         Top'.dir = Top.dir,
         NEW cmd, NEW code, Answers(Dst, cmd, code)
  PROVE  Heading'
<1> DEFINE s == sess[Dst]
           r == sess'[Dst]
           d == Digest(s, cmd, code)
           more == More(d, cmd.ev, Heard(code))
           t == Tail(s.cmdq)
           base == IF Moved(cmd, code) THEN Append(t, Pwd) ELSE t
<1>1. /\ s \in SessionRec /\ s.cmdq # <<>> /\ cmd = Head(s.cmdq) /\ cmd \in Command
      /\ more \in Seq(Command) /\ ReadTo(s, cmd, code, more, r)
  BY AnswersIs
<1>2. Belief(s) /\ code \in Codes(cmd) /\ Exact(s)
  BY DEF BeliefInv, ExactInv, Answers
<1>3. cmd \in GoesOrMakes
  BY AnswerAsked, AskedIs
<1>4. /\ mkd' = MkdAfter(d, cmd.ev, Heard(code))
      /\ store' = IF Makes(d, cmd.ev, Heard(code)) THEN mkd > 1 ELSE store
  BY DEF Answers
<1>5. mkd \in Nat /\ store \in BOOLEAN
  BY QueueAssumption DEF IInv, FileInv
<1>6. ~ClearsDst(cmd.ev, Heard(code)) => (Failed \/ FailsDst(cmd.ev, Heard(code)) => Failed')
  BY AnswerBlames
<1>q. /\ s.cmdq \in Seq(Command) /\ cmd = s.cmdq[1] /\ 1 \in DOMAIN s.cmdq
      /\ Len(s.cmdq) \in Nat /\ DOMAIN s.cmdq = 1 .. Len(s.cmdq)
      /\ DOMAIN t = 1 .. Len(s.cmdq) - 1
      /\ \A i \in 1 .. Len(s.cmdq) - 1 : t[i] = s.cmdq[i + 1]
  <2>1. s.cmdq \in Seq(Command)
    BY <1>1 DEF SessionRec
  <2>2. Len(s.cmdq) \in Nat \ {0}
    BY <1>1, <2>1
  <2> QED
    BY <1>1, <2>1, <2>2, HeadTailProperties
<1>h. /\ (\A i \in DOMAIN s.cmdq : ~Moves(s.cmdq[i])) => Failed \/ s.cwd = Top.dir
      /\ \A i \in DOMAIN s.cmdq :
           /\ s.cmdq[i].ev = "PHASE_1_DST_CWD" => s.cmdq[i].arg = Top.dir
           /\ s.cmdq[i].ev \in {"PHASE_1_DST_CWD2", "PHASE_1_DST_MKD"} => (store => mkd > 0)
           /\ s.cmdq[i].ev = "PHASE_1_DST_CWD2" /\ mkd = 0 => s.cmdq[i].arg = Top.dir
  BY DEF Heading
<1>i. /\ cmd.ev = "PHASE_1_DST_CWD" => cmd.arg = Top.dir
      /\ cmd.ev \in {"PHASE_1_DST_CWD2", "PHASE_1_DST_MKD"} => (store => mkd > 0)
      /\ cmd.ev = "PHASE_1_DST_CWD2" /\ mkd = 0 => cmd.arg = Top.dir
  BY <1>q, <1>h
<1>d. \A dir : IsIn(d, dir) => dir = d.pwd \/ dir = d.saved
  BY DEF IsIn
<1>e. cmd.op = "MKD" => d.pwd = s.pwd /\ d.saved = s.saved
  <2>1. d = Digest(s, cmd, code)
    OBVIOUS
  <2> HIDE DEF d
  <2>2. /\ d.pwd = CASE Moved(cmd, code) /\ s.saved # "-" -> s.saved
                     [] cmd.op = "PWD" -> s.cwd
                     [] OTHER -> s.pwd
        /\ d.saved = IF cmd.op = "CWD" /\ code # "ok" THEN "-" ELSE s.saved
    BY <1>1, <2>1, DigestIs
  <2> QED
    BY <2>2 DEF Moved
<1> HIDE DEF s, r, d, more, t
<1>7. CASE cmd.ev \in Steers
  <2>1. Moves(cmd)
    BY <1>7 DEF Moves
  <2>2. t \in Seq(Still)
    BY <1>1, <1>2, <1>q, <2>1, TailStill DEF t, Belief
  <2>3. base \in Seq(Still)
    BY <2>2, PwdStill
  <2>4. r.cmdq = base \o more
    BY <1>1 DEF ReadTo, t
  <2>5. cmd.op \in {"CWD", "MKD"} /\ cmd.arg \in Path
    BY <1>1, <1>3, <1>7 DEF GoesOrMakes, Named, Steers, Command
  <2>6. code \in {"ok", "fail"}
    BY <1>2, <2>5, HardCodes
  <2>7. CASE Makes(d, cmd.ev, Heard(code))
    <3>1. more = <<[op |-> "MKD", arg |-> NextMkd, ev |-> "PHASE_1_DST_MKD"]>>
      BY <2>7, MoreIs DEF more
    <3>2. PICK c : more = <<c>> /\ c.ev = "PHASE_1_DST_MKD"
      BY <3>1
    <3>3. c \in Command
      BY <1>1, <3>2, HeadTailProperties
    <3>4. mkd' = IF mkd > 1 THEN mkd - 1 ELSE 0
      BY <1>4, <2>7 DEF MkdAfter, Makes
    <3>5. store' => mkd' > 0
      <4>1. store' => mkd > 1
        BY <1>4, <2>7, Zenon
      <4>2. mkd > 1 => mkd' > 0
        BY <1>5, <3>4
      <4> QED
        BY <4>1, <4>2, Zenon
    <3> HIDE DEF base
    <3> QED
      BY <2>3, <2>4, <3>2, <3>3, <3>5, HeadingMore DEF r
  <2>8. CASE ~Makes(d, cmd.ev, Heard(code)) /\ Enters(d, cmd.ev, Heard(code))
    <3>1. more = <<[op |-> "CWD", arg |-> LastMkd, ev |-> "PHASE_1_DST_CWD2"]>>
      BY <2>8, MoreIs DEF more
    <3>2. PICK c : more = <<c>> /\ c.ev = "PHASE_1_DST_CWD2" /\ c.arg = LastMkd
      BY <3>1
    <3>3. c \in Command
      BY <1>1, <3>2, HeadTailProperties
    <3>4. mkd' = mkd /\ store' = store /\ cmd.ev = "PHASE_1_DST_MKD"
      BY <1>4, <2>8 DEF MkdAfter, Enters
    <3>5. store' => mkd' > 0
      BY <1>i, <3>4
    <3>6. mkd' = 0 => c.arg = Top.dir
      BY <1>5, <3>2, <3>4, <3>5 DEF LastMkd
    <3> HIDE DEF base
    <3> QED
      BY <2>3, <2>4, <3>2, <3>3, <3>5, <3>6, HeadingMore DEF r
  <2>9. CASE ~Makes(d, cmd.ev, Heard(code)) /\ ~Enters(d, cmd.ev, Heard(code))
    <3>1. more = <<>>
      BY <2>9, MoreIs DEF more
    <3>2. Failed' \/ r.cwd = Top.dir
      <4>1. CASE code = "fail"
        <5>1. FailsDst(cmd.ev, Heard(code)) /\ ~ClearsDst(cmd.ev, Heard(code))
          BY <1>7, <4>1 DEF FailsDst, ClearsDst, Steers, Heard
        <5> QED
          BY <1>6, <5>1
      <4>2. CASE code = "ok" /\ cmd.ev \in {"PHASE_1_DST_CWD", "PHASE_1_DST_CWD2"}
        <5>1. cmd.op = "CWD"
          BY <1>3, <4>2 DEF GoesOrMakes, Named
        <5>2. r.cwd = cmd.arg
          BY <1>1, <4>2, <5>1 DEF ReadTo, CwdAfter
        <5>3. cmd.ev = "PHASE_1_DST_CWD2" => mkd = 0
          BY <1>5, <2>9, <4>2 DEF Makes, Heard
        <5> QED
          BY <1>i, <4>2, <5>2, <5>3
      <4>3. CASE code = "ok" /\ cmd.ev = "PHASE_1_DST_MKD"
        <5>1. cmd.op = "MKD"
          BY <1>3, <4>3 DEF GoesOrMakes, Named
        <5>2. IsIn(d, LastMkd) /\ mkd = 0
          BY <1>5, <2>9, <4>3 DEF Makes, Enters, Heard
        <5>3. LastMkd = Top.dir
          BY <1>i, <4>3, <5>2 DEF LastMkd
        <5>4. Top.dir \in {s.pwd, s.saved}
          BY <1>d, <1>e, <5>1, <5>2, <5>3
        <5>5. \A i \in DOMAIN s.cmdq : s.cmdq[i].op # "CWD"
          <6>1. TAKE i \in DOMAIN s.cmdq
          <6>2. CASE i = 1
            BY <1>q, <5>1, <6>2
          <6>3. CASE i # 1
            <7>1. ~(Moves(s.cmdq[1]) /\ Moves(s.cmdq[i]))
              BY <1>2, <1>q, <6>3 DEF Belief
            <7> QED
              BY <1>q, <2>1, <7>1 DEF Moves
          <6> QED
            BY <6>2, <6>3
        <5>6. s.saved \in {"-", s.cwd} /\ s.pwd = s.cwd
          BY <1>2, <5>5 DEF Belief, Exact
        <5>7. Top.dir # "-"
          <6>1. Top \in Triable
            BY PollingItems DEF IInv
          <6>2. Top.dir \in Dirs
            BY <6>1 DEF Triable, Item
          <6> QED
            BY <6>2, DirsAssumption
        <5>8. r.cwd = s.cwd
          BY <1>1, <5>1 DEF ReadTo, CwdAfter
        <5> QED
          BY <5>4, <5>6, <5>7, <5>8
      <4> QED
        BY <1>7, <2>6, <4>1, <4>2, <4>3 DEF Steers
    <3> HIDE DEF base
    <3> QED
      BY <2>3, <2>4, <3>1, <3>2, HeadingMore DEF r
  <2> QED
    BY <2>7, <2>8, <2>9
<1>8. CASE cmd.ev \notin Steers
  <2>1. cmd.op = "PWD" /\ cmd.ev = "none"
    BY <1>3, <1>8 DEF GoesOrMakes, Named, Steers
  <2>2. cmd \in Still
    BY <1>1, <1>8, <2>1 DEF Still, Moves
  <2>3. /\ r.cmdq = t /\ r.cwd = s.cwd /\ store' = store /\ mkd' = mkd
    BY <2>1, <2>2, StillAnswered DEF r, s, t
  <2>4. Failed => Failed'
    BY <1>6, <2>1 DEF ClearsDst
  <2>5. \A i \in DOMAIN t : i + 1 \in DOMAIN s.cmdq /\ t[i] = s.cmdq[i + 1]
    BY <1>q
  <2>6. (\A i \in DOMAIN t : ~Moves(t[i])) => \A i \in DOMAIN s.cmdq : ~Moves(s.cmdq[i])
    <3> SUFFICES ASSUME \A i \in DOMAIN t : ~Moves(t[i]), NEW i \in DOMAIN s.cmdq
                 PROVE  ~Moves(s.cmdq[i])
      OBVIOUS
    <3>1. CASE i = 1
      BY <1>q, <2>2, <3>1 DEF Still
    <3>2. CASE i # 1
      <4>1. i - 1 \in DOMAIN t /\ t[i - 1] = s.cmdq[i]
        BY <1>q, <3>2
      <4> QED
        BY <4>1
    <3> QED
      BY <3>1, <3>2
  <2>7. /\ (\A i \in DOMAIN t : ~Moves(t[i])) => Failed' \/ r.cwd = Top.dir
        /\ \A i \in DOMAIN t :
             /\ t[i].ev = "PHASE_1_DST_CWD" => t[i].arg = Top.dir
             /\ t[i].ev \in {"PHASE_1_DST_CWD2", "PHASE_1_DST_MKD"} => (store => mkd > 0)
             /\ t[i].ev = "PHASE_1_DST_CWD2" /\ mkd = 0 => t[i].arg = Top.dir
    BY <1>h, <2>3, <2>4, <2>5, <2>6
  <2> QED
    BY <2>3, <2>7 DEF Heading, r
<1> QED
  BY <1>7, <1>8

\* What keeps the destination and does not clear a failure keeps its way.
LEMMA HeadingKept ==
  ASSUME Heading, UNCHANGED <<Dst, mkd, store>>, Top'.dir = Top.dir, Failed => Failed',
         sess'[Dst].cwd = sess[Dst].cwd, sess'[Dst].cmdq = sess[Dst].cmdq
  PROVE  Heading'
<1>1. sess'[Dst'].cwd = sess[Dst].cwd /\ sess'[Dst'].cmdq = sess[Dst].cmdq
  OBVIOUS
<1> QED
  BY <1>1 DEF Heading

LEMMA EventPlace ==
  ASSUME NoSoft, ExactCodes, IInv, FlightInv, BeliefInv, ExactInv, PlaceInv,
         NEW p \in Side, SessionEvent(p)
  PROVE  PlaceInv'
<1>1. /\ UNCHANGED <<state, stop, src>> /\ loop = "poll" /\ wire'.to = wire.to
      /\ \A q \in Side \ {p} : sess'[q] = sess[q]
      /\ Quiet(p) \/ \E cmd, code : Answers(p, cmd, code)
  BY EventIs
<1> SUFFICES ASSUME state \in FileState PROVE PlaceInv'
  BY <1>1, SettledFile DEF PlaceInv
<1>2. /\ items # <<>> /\ Top'.id = Top.id /\ Top'.dir = Top.dir
  BY EventTop
<1>3. src \in Side /\ Dst \in Side /\ Dst # src /\ Dst' = Dst
  BY <1>1 DEF IInv, ListInv, HeadPresent, Dst, Other, Side
<1>4. ASSUME state = "FILE_PHASE_1_IDLE", sess'[Dst].here
      PROVE  Heading'
  <2>1. CASE Quiet(p)
    <3>1. Failed => Failed' /\ UNCHANGED <<mkd, store>>
      BY <1>2, <2>1 DEF Quiet, Blames
    <3>2. sess'[Dst].cwd = sess[Dst].cwd /\ sess'[Dst].cmdq = sess[Dst].cmdq /\ sess[Dst].here
      <4>1. CASE Dst = p
        BY <1>4, <2>1, <4>1, BeliefNew DEF Quiet, Kept, Same
      <4>2. CASE Dst # p
        BY <1>1, <1>3, <1>4, <4>2
      <4> QED
        BY <4>1, <4>2
    <3>3. UNCHANGED <<mkd, store>>
      BY <2>1 DEF Quiet
    <3>4. Heading
      BY <1>4, <3>2 DEF PlaceInv
    <3> QED
      BY <1>2, <1>3, <3>1, <3>2, <3>3, <3>4, HeadingKept
  <2>2. CASE p = Dst /\ \E cmd, code : Answers(p, cmd, code)
    <3>1. PICK cmd, code : Answers(Dst, cmd, code)
      BY <2>2
    <3>2. sess[Dst].here
      BY <3>1 DEF Answers
    <3>3. Heading
      BY <1>4, <3>2 DEF PlaceInv
    <3> QED
      BY <1>1, <1>2, <1>3, <1>4, <3>1, <3>3, AnswerHeading
  <2>3. CASE p # Dst /\ \E cmd, code : Answers(p, cmd, code)
    <3>1. PICK cmd, code : Answers(p, cmd, code)
      BY <2>3
    <3>2. sess'[Dst] = sess[Dst]
      BY <1>1, <1>3, <2>3
    <3>3. p = src
      BY <1>3, <2>3 DEF Dst, Other, Side
    <3>4. cmd.ev \in {"PHASE_1_SRC_CWD", "none"}
      <4>1. cmd \in Asked(state, p)
        BY <3>1, AnswerAsked
      <4> QED
        BY <1>4, <3>3, <4>1, AskedIs DEF Goes, Named
    <3> DEFINE d == Digest(sess[p], cmd, code)
    <3>5. mkd' = MkdAfter(d, cmd.ev, Heard(code))
          /\ store' = IF Makes(d, cmd.ev, Heard(code)) THEN mkd > 1 ELSE store
      BY <3>1 DEF Answers
    <3> HIDE DEF d
    <3>6. ~Makes(d, cmd.ev, Heard(code))
      BY <3>4 DEF Makes
    <3>7. UNCHANGED <<mkd, store>>
      BY <3>4, <3>5, <3>6 DEF MkdAfter
    <3>8. Failed => Failed'
      BY <1>1, <1>2, <3>1, <3>4, AnswerBlames DEF ClearsDst
    <3>9. Heading
      BY <1>4, <3>2 DEF PlaceInv
    <3> QED
      BY <1>2, <1>3, <3>2, <3>7, <3>8, <3>9, HeadingKept
  <2> QED
    BY <1>1, <2>1, <2>2, <2>3
<1>5. ASSUME state \in Placed, sess'[Dst].here
      PROVE  sess'[Dst].cwd = Top.dir
  <2>1. sess'[Dst].cwd = sess[Dst].cwd /\ sess[Dst].here
    <3>1. CASE Dst # p
      BY <1>1, <1>3, <1>5, <3>1
    <3>2. CASE Dst = p /\ Quiet(p)
      BY <1>5, <3>2, BeliefNew DEF Quiet, Kept, Same
    <3>3. CASE Dst = p /\ \E cmd, code : Answers(p, cmd, code)
      <4>1. PICK cmd, code : Answers(Dst, cmd, code)
        BY <3>3
      <4>2. cmd \in Asked(state, Dst) /\ sess[Dst].here
        BY <1>3, <4>1, AnswerAsked DEF Answers
      <4>3. state \in (FileState \cup {"ACTIVE"}) \ {"FILE_PHASE_1_IDLE"}
        BY <1>5 DEF Placed, Settled, Private, Transferring, FileState
      <4>4. cmd \in Still
        BY <4>2, <4>3, AskedStill
      <4> QED
        BY <1>1, <1>3, <4>1, <4>2, <4>4, StillAnswered
    <3> QED
      BY <1>1, <3>1, <3>2, <3>3
  <2> QED
    BY <1>5, <2>1 DEF PlaceInv
<1> QED
  BY <1>1, <1>2, <1>3, <1>4, <1>5 DEF PlaceInv

\* The phases that write to their item leave it its directory.
LEMMA FilePassDir ==
  ASSUME IInv, FilePass
  PROVE  Top'.dir = Top.dir /\ Top'.id = Top.id
<1>a. PICK st \in FileState : In(st)
  BY DEF FilePass, FileStart, Phase1Start, Phase1Idle, Phase2Plain, Phase2Local,
     Phase2Client, Phase2Wait, Phase2Disable, Phase3Start, Phase3Wait, Phase4Start,
     Phase5Start, Phase5RestWait, Phase6Start, Phase7Start, Phase7Wait, Phase8Start,
     Phase8Wait, Phase9Start, Phase9Rest, Phase10Start, Phase10Wait, Phase11Start,
     Phase11Wait, Phase12Start, FileState
<1>0. Top \in Triable /\ Top \in Item /\ items # <<>> /\ items \in Seq(Triable)
  BY <1>a, InPhase DEF Triable, IInv
<1>s. ASSUME NEW x \in Triable, x.id = Top.id, x.dir = Top.dir, items' = SetTop(x)
      PROVE  Top'.dir = Top.dir /\ Top'.id = Top.id
  <2>1. Head(items') = x
    BY <1>0, <1>s, HeadOfSetTop
  <2> QED
    BY <1>s, <2>1 DEF Top
<1>1. CASE UNCHANGED items
  BY <1>1 DEF Top
<1>2. CASE Phase2Disable
  <2> DEFINE a == Top.sfail \/ Demands(SrcSite)
             b == Top.dfail \/ Demands(DstSite)
             x1 == [Top EXCEPT !.sfail = a]
             x == [x1 EXCEPT !.dfail = b]
  <2>1. items' = SetTop(x)
    BY <1>2 DEF Phase2Disable
  <2>2. a \in BOOLEAN /\ b \in BOOLEAN
    OBVIOUS
  <2>6. "none" \in Size /\ 0 \in 0 .. 3
    BY DEF Size
  <2> HIDE DEF a, b
  <2>3. x.id = Top.id /\ x.dir = Top.dir
    BY <1>0 DEF Item
  <2>4. x1 \in Triable
    BY <1>0, <2>2, <2>6, FieldType
  <2> HIDE DEF x1
  <2>5. x \in Triable
    BY <2>2, <2>4, <2>6, FieldType
  <2> HIDE DEF x
  <2> QED
    BY <1>s, <2>1, <2>3, <2>5
<1>3. CASE Phase5RestWait
  <2> DEFINE x == [Top EXCEPT !.requeued = TRUE]
             y == [Top EXCEPT !.rest = TRUE]
  <2>1. UNCHANGED items \/ items' = SetTop(x) \/ items' = SetTop(y)
    BY <1>3 DEF Phase5RestWait
  <2>2. x.id = Top.id /\ x.dir = Top.dir /\ y.id = Top.id /\ y.dir = Top.dir
    BY <1>0 DEF Item
  <2>3. x \in Triable /\ y \in Triable
    BY <1>0, MarkType, Zenon
  <2> HIDE DEF x, y
  <2> QED
    BY <1>1, <1>s, <2>1, <2>2, <2>3
<1>4. CASE Phase10Start
  <2>1. CASE state' = "FILE_PHASE_10_WAIT"
    BY <1>4, <2>1, Phase10Top
  <2>2. CASE state' # "FILE_PHASE_10_WAIT"
    BY <1>1, <1>4, <2>2 DEF Phase10Start
  <2> QED
    BY <2>1, <2>2
<1>5. FilePass => UNCHANGED items \/ Phase2Disable \/ Phase5RestWait \/ Phase10Start
  BY DEF FilePass, FileStart, Phase1Start, Phase1Idle, Phase2Plain, Phase2Local,
     Phase2Client, Phase2Wait, Phase3Start, Phase3Wait, Phase4Start, Phase5Start,
     Phase6Start, Phase7Start, Phase7Wait, Phase8Start, Phase8Wait, Phase9Start,
     Phase9Rest, Phase10Wait, Phase11Start, Phase11Wait, Phase12Start, listVars
<1> QED
  BY <1>1, <1>2, <1>3, <1>4, <1>5

\* A phase after CWD follows another, or the end of phase 1.
LEMMA PlacedFrom ==
  ASSUME IInv, Pass, ~Waiting, state' \in Placed
  PROVE  FilePass /\ ~Phase1Start /\ UNCHANGED src /\ (state \in Placed \/ Phase1Idle)
<1>p. Placed = {"FILE_PHASE_2_START", "FILE_PHASE_2_WAIT", "FILE_PHASE_2_DISABLE",
                "FILE_PHASE_3_START", "FILE_PHASE_3_WAIT", "FILE_PHASE_4_START",
                "FILE_PHASE_5_START", "FILE_PHASE_5_REST_WAIT", "FILE_PHASE_6_START",
                "FILE_PHASE_7_START", "FILE_PHASE_7_WAIT", "FILE_PHASE_8_START",
                "FILE_PHASE_8_WAIT", "FILE_PHASE_9_START", "FILE_PHASE_9_REST",
                "FILE_PHASE_10_START"}
  BY DEF Placed, Settled, Private, Transferring
<1>0. state # "FILE_PHASE_1_START" => ~Phase1Start
  BY InState DEF Phase1Start
<1>1. CASE Later
  <2>1. FilePass /\ UNCHANGED src
    BY <1>1, LaterIs DEF Later, FilePass
  <2>2. state \in Private \cup {"FILE_PHASE_3_WAIT"}
    BY <1>1, LaterIs
  <2>3. CASE state = "FILE_PHASE_10_WAIT" \/ state \in Transferring
    <3>1. Phase10Wait \/ Phase11Start \/ Phase11Wait \/ Phase12Start
      BY <1>1, <2>3, InState DEF Later, Transferring, Phase3Wait, Phase4Start, Phase5Start,
         Phase5RestWait, Phase6Start, Phase7Start, Phase7Wait, Phase8Start, Phase8Wait,
         Phase9Start, Phase9Rest, Phase10Start
    <3> QED
      BY <1>p, <3>1 DEF Phase10Wait, Phase11Start, Phase11Wait, Phase12Start
  <2>4. CASE state # "FILE_PHASE_10_WAIT" /\ state \notin Transferring
    <3>1. state \in Placed
      BY <2>2, <2>4 DEF Placed, Settled
    <3> QED
      BY <1>p, <1>0, <2>1, <3>1
  <2> QED
    BY <2>3, <2>4
<1>2. CASE ~Later
  <2>1. Phase1Idle \/ Phase2Plain \/ Phase2Local \/ Phase2Wait \/ Phase2Client
        \/ Phase2Disable \/ Phase3Start
    <3>1. state' \in {"FILE_PHASE_3_WAIT", "FILE_PHASE_3_START", "FILE_PHASE_2_WAIT",
                      "FILE_PHASE_2_START", "FILE_PHASE_2_DISABLE"}
      BY <1>2, NotLater DEF Placed, Settled
    <3> QED
      BY <1>2, <3>1, NotLater
  <2>2. FilePass
    BY <2>1 DEF FilePass
  <2>3. UNCHANGED src
    BY <2>1 DEF Phase1Idle, Phase2Plain, Phase2Local, Phase2Wait, Phase2Client,
       Phase2Disable, Phase3Start
  <2>4. CASE Phase1Idle
    <3>1. state = "FILE_PHASE_1_IDLE"
      BY <2>4, InState DEF Phase1Idle
    <3> QED
      BY <1>0, <2>2, <2>3, <2>4, <3>1
  <2>5. CASE Phase2Plain \/ Phase2Local \/ Phase2Wait \/ Phase2Client \/ Phase2Disable
             \/ Phase3Start
    <3>1. state \in {"FILE_PHASE_2_START", "FILE_PHASE_2_WAIT", "FILE_PHASE_2_DISABLE",
                     "FILE_PHASE_3_START"}
      BY <2>5, InState DEF Phase2Plain, Phase2Local, Phase2Wait, Phase2Client,
         Phase2Disable, Phase3Start
    <3> QED
      BY <1>p, <1>0, <2>2, <2>3, <3>1
  <2> QED
    BY <2>1, <2>4, <2>5
<1> QED
  BY <1>1, <1>2

\* A destination that is sent where the item belongs heads for it.
LEMMA GoneHeading ==
  ASSUME Dst \in Side, UNCHANGED <<Dst, items>>, sess'[Dst].here, Exact(sess'[Dst]),
         GoneTo(Dst, "PHASE_1_DST_CWD")
  PROVE  Heading'
<1> DEFINE c == [op |-> "CWD", arg |-> Top.dir, ev |-> "PHASE_1_DST_CWD"]
           q == sess'[Dst].cmdq
<1>1. (q = <<>> /\ sess'[Dst].cwd = Top.dir) \/ q = <<c>>
  BY DEF GoneTo, Exact
<1>2. Top' = Top
  BY DEF Top
<1>3. Moves(c)
  BY DEF Moves
<1>4. CASE q = <<>> /\ sess'[Dst].cwd = Top.dir
  <2>1. DOMAIN q = {}
    BY <1>4
  <2> HIDE DEF q
  <2>2. \A i \in DOMAIN q : FALSE
    BY <2>1
  <2> USE DEF q
  <2> QED
    BY <1>2, <1>4, <2>2 DEF Heading
<1>5. CASE q = <<c>>
  <2>1. DOMAIN q = {1} /\ q[1] = c
    BY <1>5
  <2>2. c.ev = "PHASE_1_DST_CWD" /\ c.arg = Top.dir
    OBVIOUS
  <2> HIDE DEF c
  <2> QED
    BY <1>2, <1>3, <2>1, <2>2 DEF Heading
<1> QED
  BY <1>1, <1>4, <1>5

LEMMA PassPlace ==
  ASSUME IInv, FlightInv, BeliefInv, ExactInv, PlaceInv, Pass
  PROVE  PlaceInv'
<1>n. ~NoSession.here
  BY BeliefNew
<1>p. {"FILE_PHASE_1_IDLE", "FILE_PHASE_10_WAIT"} \cap Placed = {}
      /\ Placed \cap Transferring = {}
  BY DEF Placed, Settled, Private, Transferring
<1>1. CASE Waiting
  <2>1. /\ UNCHANGED <<state, src, items, mkd, store, wire>>
        /\ \A p \in Side : sess'[p] \in {NoSession, sess[p]}
    BY <1>1, WaitingIs
  <2> SUFFICES ASSUME state \in FileState PROVE PlaceInv'
    BY <2>1, SettledFile DEF PlaceInv
  <2>2. Dst \in Side /\ Dst' = Dst /\ Top' = Top /\ Failed' = Failed
    BY <2>1 DEF IInv, ListInv, HeadPresent, Dst, Other, Side, Top, Failed
  <2>3. sess'[Dst].here => sess'[Dst] = sess[Dst]
    BY <1>n, <2>1, <2>2
  <2>4. ASSUME state = "FILE_PHASE_1_IDLE", sess'[Dst].here
        PROVE  Heading'
    <3>1. Heading
      BY <2>3, <2>4 DEF PlaceInv
    <3> QED
      BY <2>1, <2>2, <2>3, <2>4, <3>1, HeadingKept
  <2> QED
    BY <2>1, <2>2, <2>3, <2>4 DEF PlaceInv
<1>2. CASE ~Waiting
  <2>1. ASSUME state' = "FILE_PHASE_1_IDLE", sess'[Dst'].here
        PROVE  Heading'
    <3>1. Phase1Start
      <4>1. ~Later
        BY <2>1 DEF Later, Phase3Wait, Phase4Start, Phase5Start, Phase5RestWait, Phase6Start,
           Phase7Start, Phase7Wait, Phase8Start, Phase8Wait, Phase9Start, Phase9Rest,
           Phase10Start, Phase10Wait, Phase11Start, Phase11Wait, Phase12Start
      <4> QED
        BY <1>2, <2>1, <4>1, NotLater
    <3>2. /\ Dst \in Side /\ Dst # src /\ UNCHANGED <<src, items>>
          /\ \A p \in Side : GoneTo(p, IF p = src THEN "PHASE_1_SRC_CWD" ELSE "PHASE_1_DST_CWD")
      BY <3>1, Phase1Goes
    <3>3. GoneTo(Dst, "PHASE_1_DST_CWD")
      BY <3>2
    <3>4. Dst' = Dst
      BY <3>2 DEF Dst
    <3>5. Exact(sess'[Dst])
      BY <2>1, <3>2, <3>4, PassExact DEF ExactInv
    <3> QED
      BY <2>1, <3>2, <3>3, <3>4, <3>5, GoneHeading
  <2>2. ASSUME state' \in Placed, sess'[Dst'].here
        PROVE  sess'[Dst'].cwd = Top'.dir
    <3>1. FilePass /\ ~Phase1Start /\ UNCHANGED src /\ (state \in Placed \/ Phase1Idle)
      BY <1>2, <2>2, PlacedFrom
    <3>2. Dst' = Dst /\ Dst \in Side
      <4>1. state \in FileState
        BY <3>1, SettledFile, InState DEF Phase1Idle
      <4> QED
        BY <3>1, <4>1 DEF IInv, ListInv, HeadPresent, Dst, Other, Side
    <3>3. Top'.dir = Top.dir
      BY <3>1, FilePassDir
    <3>4. sess[Dst].here /\ sess'[Dst].cwd = sess[Dst].cwd
      <4>1. Told(state')
        BY <3>1, FilePassTold
      <4> QED
        BY <1>n, <2>2, <3>2, <4>1 DEF Told, Kept, Same
    <3>5. CASE state \in Placed
      BY <3>2, <3>3, <3>4, <3>5 DEF PlaceInv
    <3>6. CASE Phase1Idle
      <4>1. state = "FILE_PHASE_1_IDLE" /\ BothIdle
        BY <3>6, InState DEF Phase1Idle
      <4>2. ~Failed
        BY <2>2, <3>6 DEF Phase1Idle, Placed, Settled, Private, Transferring
      <4>3. Heading
        BY <3>4, <4>1 DEF PlaceInv
      <4>4. sess[Dst].cmdq = <<>>
        BY <3>2, <4>1 DEF BothIdle, IsIdle
      <4>5. sess[Dst].cwd = Top.dir
        BY <4>2, <4>3, <4>4 DEF Heading
      <4> QED
        BY <3>2, <3>3, <3>4, <4>5
    <3> QED
      BY <3>1, <3>5, <3>6
  <2>3. ASSUME state' = "FILE_PHASE_10_WAIT" \/ state' \in Transferring
        PROVE  wire'.to = Top'.id
    <3>1. Later
      <4>1. state' \in Private
        BY <2>3, RestartStates
      <4> QED
        BY <1>2, <4>1, NotLater
    <3>2. CASE state' = "FILE_PHASE_10_WAIT"
      <4>1. Phase10Start
        BY <3>1, <3>2, LaterFrom
      <4>2. state = "FILE_PHASE_10_START" /\ BothIdle
        BY <4>1, InState DEF Phase10Start
      <4>3. Top'.id = Top.id
        BY <3>2, <4>1, Phase10Top
      <4>4. Dst \in Side
        BY <4>2, SettledFile DEF IInv, ListInv, HeadPresent, Dst, Other, Side
      <4>5. sess[Dst].here
        BY <4>2, <4>4 DEF BothIdle, IsIdle
      <4>6. sess[Dst].cwd = Top.dir
        BY <4>2, <4>5 DEF PlaceInv, Placed, Settled, Private, Transferring
      <4>7. wire'.to = Top.id
        BY <3>2, <4>1, <4>6 DEF Phase10Start
      <4> QED
        BY <4>3, <4>7
    <3>3. CASE state' \in Transferring
      <4>1. Phase10Wait \/ Phase11Start \/ Phase11Wait
        BY <3>1, <3>3, LaterFrom DEF Transferring
      <4>2. UNCHANGED <<items, wire>>
        BY <4>1 DEF Phase10Wait, Phase11Start, Phase11Wait, listVars, worldVars
      <4>3. state = "FILE_PHASE_10_WAIT" \/ state \in Transferring
        BY <4>1, InState DEF Phase10Wait, Phase11Start, Phase11Wait, Transferring
      <4> QED
        BY <4>2, <4>3 DEF PlaceInv, Top
    <3> QED
      BY <2>3, <3>2, <3>3
  <2> QED
    BY <2>1, <2>2, <2>3 DEF PlaceInv
<1> QED
  BY <1>1, <1>2

LEMMA CommandPlace ==
  ASSUME NoStops, IInv, PlaceInv, Command2
  PROVE  PlaceInv'
<1> SUFFICES ASSUME state' \in FileState PROVE PlaceInv'
  BY SettledFile DEF PlaceInv
<1>1. UNCHANGED <<state, src, sess, mkd, store, wire, Top>>
  BY CommandIs
<1>2. Dst' = Dst /\ Failed' = Failed
  BY <1>1 DEF Dst, Failed
<1>3. Heading' = Heading
  BY <1>1, <1>2 DEF Heading
<1> QED
  BY <1>1, <1>2, <1>3 DEF PlaceInv

-----------------------------------------------------------------------------
(* The first state, and all of them. *)

LEMMA PhaseInit ==
  ASSUME Init
  PROVE  FlightInv /\ BeliefInv /\ ExactInv /\ SecureInv /\ PrivacyInv /\ RestartInv /\ PlaceInv
<1>1. state = "IDLE" /\ \A p \in Side : sess[p] = NewSession
  BY DEF Init
<1>2. "IDLE" \notin FileState
  BY DEF FileState
<1>3. SecureInv /\ PrivacyInv /\ RestartInv /\ PlaceInv
  <2>1. {"FILE_PHASE_3_WAIT"} \subseteq FileState
    BY DEF FileState
  <2> QED
    BY <1>1, <1>2, <2>1, SettledFile DEF SecureInv, PrivacyInv, RestartInv, Restarts, PlaceInv
<1>4. BeliefInv /\ ExactInv
  BY <1>1, BeliefNew, ExactNew DEF BeliefInv, ExactInv
<1>5. FlightInv
  <2>1. NewSession.cmdq = <<>> /\ \A S : <<>> \in Seq(S)
    BY DEF NewSession
  <2> QED
    BY <1>1, <2>1 DEF FlightInv
<1> QED
  BY <1>3, <1>4, <1>5

\* Nothing is told but what the phase asks for, and a session remembers where it was
\* last told to go.
LEMMA FlightBelief ==
  ASSUME IInv, IInv', FlightInv, BeliefInv, [Next]_vars
  PROVE  FlightInv' /\ BeliefInv'
<1>1. CASE Pass
  BY <1>1, PassFlight, PassBelief
<1>2. ASSUME NEW p \in Side, SessionEvent(p)
      PROVE  FlightInv' /\ BeliefInv'
  BY <1>2, EventFlight, EventBelief
<1>3. CASE Command2
  BY <1>3, CommandFlight, CommandBelief
<1>4. CASE UNCHANGED vars
  <2>1. UNCHANGED <<state, src, sess>>
    BY <1>4 DEF vars, queueVars
  <2>2. FlightInv'
    BY <2>1, AskedSame DEF FlightInv
  <2>3. BeliefInv'
    BY <2>1 DEF BeliefInv
  <2> QED
    BY <2>2, <2>3
<1> QED
  BY <1>1, <1>2, <1>3, <1>4 DEF Next

\* While a file is worked on, only commands of its phase are unanswered, and a session
\* that was told to move, once at a time, remembers where to; one that was not is where
\* it was last told to go or has forgotten it, whatever is answered, lost or done by users.
THEOREM PhaseInvariance == Spec => [](IInv /\ FlightInv /\ BeliefInv)
<1>1. Init => FlightInv /\ BeliefInv
  BY PhaseInit
<1>2. IInv /\ IInv' /\ FlightInv /\ BeliefInv /\ [Next]_vars => FlightInv' /\ BeliefInv'
  BY FlightBelief
<1> QED
  BY <1>1, <1>2, Invariance, PTL DEF Spec

\* ExactInv is kept.
LEMMA ExactNext ==
  ASSUME ExactCodes, IInv, FlightInv, BeliefInv, ExactInv, [Next]_vars
  PROVE  ExactInv'
<1>1. ASSUME NEW p \in Side, SessionEvent(p)
      PROVE  ExactInv'
  BY <1>1, EventExact
<1>2. CASE UNCHANGED vars
  <2>1. UNCHANGED sess
    BY <1>2 DEF vars
  <2> QED
    BY <2>1 DEF ExactInv
<1> QED
  BY <1>1, <1>2, PassExact, CommandExact DEF Next

\* Where every 2xx is the one asked for, a session is in the directory in which it believes
\* to be and its data connections are as private as it believes, whatever is refused,
\* lost or queued (session.c:1461-1514).
THEOREM AlwaysExact ==
  ASSUME ExactCodes
  PROVE  Spec => []ExactInv
<1>1. Init => ExactInv
  BY PhaseInit
<1>2. IInv /\ FlightInv /\ BeliefInv /\ ExactInv /\ [Next]_vars => ExactInv'
  BY ExactNext
<1> QED
  BY <1>1, <1>2, PhaseInvariance, PTL DEF Spec

LEMMA Stutter ==
  ASSUME UNCHANGED vars
  PROVE  UNCHANGED <<state, src, sess, items, secure, mkd, store, wire, Top, Dst, Failed>>
<1>1. UNCHANGED <<state, src, sess, items, secure, mkd, store, wire>>
  BY DEF vars, queueVars, listVars, fileVars, worldVars
<1> QED
  BY <1>1 DEF Top, Dst, Failed

LEMMA PrivacyNext ==
  ASSUME ExactCodes, NoStops, IInv, FlightInv, PrivacyInv, [Next]_vars
  PROVE  PrivacyInv'
<1>1. ASSUME NEW p \in Side, SessionEvent(p)
      PROVE  PrivacyInv'
  BY <1>1, EventPrivacy
<1>2. CASE UNCHANGED vars
  BY <1>2, Stutter DEF PrivacyInv
<1> QED
  BY <1>1, <1>2, PassPrivacy, CommandPrivacy DEF Next

LEMMA RestartNext ==
  ASSUME NoStops, IInv, FlightInv, RestartInv, [Next]_vars
  PROVE  RestartInv'
<1>1. ASSUME NEW p \in Side, SessionEvent(p)
      PROVE  RestartInv'
  BY <1>1, EventRestart
<1>2. CASE UNCHANGED vars
  BY <1>2, Stutter DEF RestartInv, Restarts, Agrees
<1> QED
  BY <1>1, <1>2, PassRestart, CommandRestart DEF Next

LEMMA SecureNext ==
  ASSUME NoStops, ClientsTold, IInv, FlightInv, SecureInv, [Next]_vars
  PROVE  SecureInv'
<1>1. ASSUME NEW p \in Side, SessionEvent(p)
      PROVE  SecureInv'
  BY <1>1, EventSecure
<1>2. CASE UNCHANGED vars
  BY <1>2, Stutter DEF SecureInv, BothHere, Demanded
<1> QED
  BY <1>1, <1>2, PassSecure, CommandSecure DEF Next

LEMMA PlaceNext ==
  ASSUME NoStops, NoSoft, ExactCodes, IInv, FlightInv, BeliefInv, ExactInv, PlaceInv,
         [Next]_vars
  PROVE  PlaceInv'
<1>1. ASSUME NEW p \in Side, SessionEvent(p)
      PROVE  PlaceInv'
  BY <1>1, EventPlace
<1>2. CASE UNCHANGED vars
  BY <1>2, Stutter DEF PlaceInv, Heading
<1> QED
  BY <1>1, <1>2, PassPlace, CommandPlace DEF Next

\* Unless a STOP item takes the place of the file that is being transferred, and where
\* PROT is only granted with the code it asks for, a secure transfer finds both servers
\* at privacy level P: the one of them that was lost or has refused PROT is found before
\* the transfer starts (queue.c:1452-1510).
THEOREM PrivacyAlwaysAgrees ==
  ASSUME NoStops, ExactCodes
  PROVE  Spec => []PrivacyAgrees
<1>1. Init => PrivacyInv /\ ExactInv
  BY PhaseInit
<1>2. IInv /\ IInv' /\ FlightInv /\ BeliefInv /\ PrivacyInv /\ ExactInv /\ [Next]_vars
         => PrivacyInv' /\ ExactInv'
  BY PrivacyNext, ExactNext
<1>3. PrivacyInv /\ ExactInv => PrivacyAgrees
  BY RestartStates DEF PrivacyInv, ExactInv, Exact, PrivacyAgrees, BothHere
<1> QED
  BY <1>1, <1>2, <1>3, PhaseInvariance, PTL DEF Spec

\* Unless a STOP item takes its place, both sides of a transfer start at the
\* offset of the item: REST was told to both, or taken back from both when one
\* refused it (queue.c:1868-1918).
THEOREM RestartAlwaysAgrees ==
  ASSUME NoStops
  PROVE  Spec => []RestartAgrees
<1>1. Init => RestartInv
  BY PhaseInit
<1>2. IInv /\ FlightInv /\ RestartInv /\ [Next]_vars => RestartInv'
  BY RestartNext
<1>3. RestartInv => RestartAgrees
  BY DEF RestartInv, Restarts, Agrees, RestartAgrees, BothHere
<1> QED
  BY <1>1, <1>2, <1>3, PhaseInvariance, PTL DEF Spec

\* Where the client side of a TLS transfer can be told to be it, a site that
\* demands secure data is in no transfer that is not (queue.c:1225-1430).
THEOREM AlwaysSecureIfDemanded ==
  ASSUME NoStops, ClientsTold
  PROVE  Spec => []SecureIfDemanded
<1>1. Init => SecureInv
  BY PhaseInit
<1>2. IInv /\ FlightInv /\ SecureInv /\ [Next]_vars => SecureInv'
  BY SecureNext
<1>3. IInv /\ SecureInv => SecureIfDemanded
  <2> SUFFICES ASSUME IInv, SecureInv, state \in Transferring,
                      Demands(SrcSite) \/ Demands(DstSite)
               PROVE  secure
    BY DEF SecureIfDemanded
  <2>1. state \in Settled /\ state \in FileState
    BY RestartStates DEF Settled
  <2>2. src \in Side /\ Dst \in Side
    BY <2>1 DEF IInv, ListInv, HeadPresent, Dst, Other, Side
  <2>3. Demanded
    BY <2>2 DEF Demanded, SrcSite, DstSite
  <2> QED
    BY <2>1, <2>3 DEF SecureInv
<1> QED
  BY <1>1, <1>2, <1>3, PhaseInvariance, PTL DEF Spec

\* Where no directory is refused with a 4xx, nor granted with a 2xx that the session
\* does not take for one, STOR is only sent to a destination that is in the directory
\* of the item, one that was there or was made (queue.c:1164-1215, handler.c:420-515,
\* session.c:1493-1513).
THEOREM StorAlwaysInPlace ==
  ASSUME NoStops, NoSoft, ExactCodes
  PROVE  Spec => []StorInPlace
<1>1. Init => PlaceInv /\ ExactInv
  BY PhaseInit
<1>2. IInv /\ IInv' /\ FlightInv /\ BeliefInv /\ PlaceInv /\ ExactInv /\ [Next]_vars
         => PlaceInv' /\ ExactInv'
  BY PlaceNext, ExactNext
<1>3. PlaceInv => StorInPlace
  BY DEF PlaceInv, StorInPlace
<1> QED
  BY <1>1, <1>2, <1>3, PhaseInvariance, PTL DEF Spec

\* A phase asks for nothing that another phase waits for.
LEMMA AskedAwaited ==
  ASSUME NEW st \in FileState, NEW p, NEW c \in Asked(st, p)
  PROVE  st \in Awaited(c.ev)
<1>1. st \in State
  BY DEF State
<1>2. CASE st \in Calm
  BY <1>2, AskedIs
<1>3. CASE st = "FILE_PHASE_1_IDLE"
  <2>1. c.ev \in {"PHASE_1_SRC_CWD", "PHASE_1_DST_CWD", "PHASE_1_DST_MKD",
                  "PHASE_1_DST_CWD2", "none"}
    BY <1>3, AskedIs DEF Goes, GoesOrMakes, Named
  <2> QED
    BY <1>1, <1>3, <2>1 DEF Awaited
<1>4. CASE st \in {"FILE_PHASE_2_WAIT", "FILE_PHASE_3_START", "FILE_PHASE_3_WAIT",
                   "FILE_PHASE_5_START"}
  <2>1. /\ st = "FILE_PHASE_2_WAIT" /\ c.ev \in {"PHASE_2_SRC_SECURE", "PHASE_2_DST_SECURE"}
        \/ c.ev \in {"PHASE_2_DISABLE", "PHASE_3_SRC_PROT", "PHASE_3_DST_PROT", "PHASE_4_TYPE"}
    BY <1>4, AskedIs DEF Named, Flags
  <2> QED
    BY <1>1, <2>1 DEF Awaited
<1>5. CASE st \in {"FILE_PHASE_5_REST_WAIT", "FILE_PHASE_6_START", "FILE_PHASE_7_START",
                   "FILE_PHASE_10_START"}
  <2>1. c.ev \in {"PHASE_5_SRC_SIZE", "PHASE_5_DST_SIZE", "PHASE_6_PRET", "PHASE_9_REST2"}
    BY <1>5, AskedIs DEF Named, Flags
  <2> QED
    BY <1>1, <2>1 DEF Awaited
<1>6. CASE st \in {"FILE_PHASE_7_WAIT", "FILE_PHASE_8_WAIT"}
  BY <1>6, AskedIs DEF Named, Awaited
<1>7. CASE st = "FILE_PHASE_9_REST"
  <2>1. c.ev \in {"PHASE_9_SRC_REST", "PHASE_9_DST_REST"}
    BY <1>7, AskedIs DEF Flags
  <2> QED
    BY <1>7, <2>1 DEF Awaited
<1>8. CASE st \in {"FILE_PHASE_10_WAIT", "FILE_PHASE_11_WAIT"}
  BY <1>8, AskedIs DEF Named, Awaited
<1> QED
  BY <1>2, <1>3, <1>4, <1>5, <1>6, <1>7, <1>8 DEF Calm, FileState

\* While a file is worked on, whatever was lost and whatever users do, a reply is
\* only taken for the phase that asked: the commands in flight are its own
\* (handler_queue, handler.c:335-874, charges the first item with every reply).
THEOREM AnswersAwaitedInFile == Spec => [](state \in FileState => AnswersAwaited)
<1>1. FlightInv => (state \in FileState => AnswersAwaited)
  <2> SUFFICES ASSUME FlightInv, state \in FileState, NEW p \in Side,
                      NEW i \in DOMAIN sess[p].cmdq
               PROVE  state \in Awaited(sess[p].cmdq[i].ev)
    BY DEF AnswersAwaited
  <2>1. sess[p].cmdq \in Seq(Asked(state, p))
    BY DEF FlightInv
  <2>2. sess[p].cmdq[i] \in Asked(state, p)
    BY <2>1, InList
  <2> QED
    BY <2>2, AskedAwaited
<1> QED
  BY <1>1, PhaseInvariance, PTL

-----------------------------------------------------------------------------
(* What is at the destination when a file is done. *)

\* No server refuses SIZE: the engine would go by the size of the try before.
SizesAnswered == <<"SIZE", "fail">> \notin Refusals

\* No directory is queued: its listing may end in the transfer of a file, which
\* counts that for the start of its own.
FilesOnly ==
  /\ \A t \in NewItems : t.type # "DIRECTORY"
  /\ \A ts \in FirstItems : \A i \in DOMAIN ts : ts[i].type # "DIRECTORY"

Unlisted == {item \in Item : item.type # "DIRECTORY"}

FilesInv ==
  /\ items \in Seq(Unlisted)
  /\ state \notin DirectoryState
  /\ \A p \in Side : sess[p].replyId \in Ends226

\* A command that is not sent before another is queued behind it.
Stuck(s) == s.isidle /\ s.cmdq # <<>> /\ s.state # "DATA_FINISH"

\* In phase 5 a transfer of before may still be under way; what its session is
\* told meanwhile is never sent.
AskInv ==
  state \in {"FILE_PHASE_5_REST_WAIT", "FILE_PHASE_6_START"} =>
    /\ \A p \in Side : sess[p].here =>
         sess[p].login /\ (sess[p].state = "RELAY_226" => sess[p].isidle)
    /\ sess[src].state = "RELAY_226" => sess[src].cmdq # <<>>

\* The answer to SIZE is what is there, unless the file waits for ever.
SizeInv ==
  state = "FILE_PHASE_5_REST_WAIT" =>
    /\ sess[Dst].state = "RELAY_226" => sess[Dst].cmdq # <<>>
    /\ \A i \in DOMAIN sess[Dst].cmdq : sess[Dst].cmdq[i].ev = "PHASE_5_DST_SIZE"
    /\ \/ \E p \in Side : ~sess[p].here \/ Stuck(sess[p])
       \/ sess[Dst].cmdq = <<>> => Top.dsize = remote[Top.id]

\* The source has no transfer of before when the destination is told to store.
Unbound ==
  {"FILE_PHASE_7_START", "FILE_PHASE_7_WAIT", "FILE_PHASE_8_START", "FILE_PHASE_8_WAIT",
   "FILE_PHASE_9_START", "FILE_PHASE_9_REST", "FILE_PHASE_10_START", "FILE_PHASE_10_WAIT",
   "FILE_PHASE_11_START"}
UnboundInv == state \in Unbound => sess[src].state # "RELAY_226"

\* From STOR on, the source is counted to two only by its own 226.
Sending == {"FILE_PHASE_10_WAIT"} \cup Transferring
Uncounted == Top.sfail \/ Top.sxfer <= 1
Unstarted == Top.sfail \/ Top.sxfer = 0

StoreInv ==
  /\ state = "FILE_PHASE_10_WAIT" =>
       /\ sess[src].cmdq = <<>> /\ wire.got \in {"wait", "cut"}
       /\ sess[Dst].cmdq \in {<<>>, <<Cmd("STOR", "PHASE_10_STOR")>>}
       /\ Uncounted
       /\ Unstarted \/ sess[Dst].cmdq = <<>>
  /\ state = "FILE_PHASE_11_START" => Uncounted

SendInv ==
  /\ state = "FILE_PHASE_11_WAIT" =>
       /\ sess[src].cmdq \in {<<>>, <<Cmd("RETR", "PHASE_11_RETR")>>}
       /\ sess[Dst].cmdq = <<>>
       /\ sess[src].cmdq # <<>> => sess[src].state # "RELAY_226" /\ Uncounted
  /\ state \in {"FILE_PHASE_11_WAIT", "FILE_PHASE_12_START"} =>
       /\ sess[src].state = "RELAY_226" => Uncounted
       /\ Uncounted \/ wire.got = "all"

ArriveInv ==
  state \in Sending =>
    /\ sess[Dst].replyId \in {"none", "PHASE_12_DST_226"}
    /\ wire.got = "all" => remote[wire.to] = "full"

FinishInv == state = "REMOVE_ITEM" => loop = "run" /\ (Top.type = "FILE" => remote[Top.id] = "full")

DoneInv == AskInv /\ SizeInv /\ UnboundInv /\ StoreInv /\ SendInv /\ ArriveInv /\ FinishInv

\* What a call does to the list of a queue that holds no directory.
LEMMA UnlistedTop ==
  ASSUME items \in Seq(Unlisted), NEW x \in Item, items # <<>>, x.type = Top.type
  PROVE  SetTop(x) \in Seq(Unlisted)
<1>1. Top \in Unlisted
  BY HeadAndTail DEF Top
<1>2. x \in Unlisted
  BY <1>1 DEF Unlisted
<1> QED
  BY <1>2, SetTopKeeps

\* So does one that writes to the first item.
LEMMA UnlistedSameHead ==
  ASSUME items \in Seq(Unlisted), items # <<>>, SameHead
  PROVE  items' \in Seq(Unlisted)
BY UnlistedTop DEF SameHead

\* queue_process puts no directory in the list and works on none.
LEMMA PassItems ==
  ASSUME IInv, items \in Seq(Unlisted), state \notin DirectoryState, Pass
  PROVE  items' \in Seq(Unlisted) /\ state' \notin DirectoryState
<1>0. /\ \A st \in FileState \cup {"IDLE", "START", "ISCONNECTED", "ITEM_FAILED", "ERROR_ITEM",
              "REQUEUE_ITEM", "ACTIVE", "START_NEXT_ITEM", "REMOVE_ITEM", "EMPTY"} :
           st \notin DirectoryState
      /\ Atoi(Default) \in Nat
  BY DEF FileState, DirectoryState, Atoi, Default
<1>l. ListInv
  BY DEF IInv
<1>1. CASE FilePass
  <2>1. SameHead /\ items # <<>>
    BY <1>1, <1>l, FilePassSameHead
  <2>2. state' \in FileState \cup {"ITEM_FAILED", "REQUEUE_ITEM", "REMOVE_ITEM", "IDLE"}
    BY <1>1 DEF FilePass, FileStart, Phase1Start, Phase1Idle, Phase2Plain, Phase2Local,
     Phase2Client, Phase2Wait, Phase2Disable, Phase3Start, Phase3Wait, Phase4Start,
     Phase5Start, Phase5RestWait, Phase6Start, Phase7Start, Phase7Wait, Phase8Start,
     Phase8Wait, Phase9Start, Phase9Rest, Phase10Start, Phase10Wait, Phase11Start,
     Phase11Wait, Phase12Start, FileState
  <2> QED
    BY <1>0, <2>1, <2>2, UnlistedSameHead
<1>2. CASE DirectoryPass
  <2>1. PICK st \in DirectoryState : In(st)
    BY <1>2 DEF DirectoryPass, DirectoryState, DirectoryStart, DirectoryPhase1Idle,
       DirectoryPhase2Start, DirectoryPhase2Mkd, DirectoryPhase2Compare
  <2>2. state \in DirectoryState
    BY <2>1, InState DEF DirectoryState
  <2> QED
    BY <2>2
<1>3. CASE Active
  <2>1. state = "ACTIVE" /\ items # <<>> /\ UNCHANGED items
    BY <1>3, <1>l, InState DEF Active, listVars, ListInv, HeadPresent
  <2>2. Top \in Unlisted
    BY <2>1, HeadAndTail DEF Top
  <2>3. Top.type \in {"FILE", "STOP"}
    BY <2>2 DEF Unlisted, Item, ItemType
  <2>4. state' \in {"FILE_START", "REMOVE_ITEM"}
    BY <1>3, <2>3 DEF Active
  <2> QED
    BY <1>0, <2>1, <2>4 DEF FileState
<1>4. CASE ItemFailed
  <2>1. items # <<>> /\ items \in Seq(Triable)
    BY <1>4, <1>l, InItemFailed DEF ItemFailed
  <2>2. Top \in Triable
    BY <2>1, HeadAndTail DEF Top
  <2>3. [Top EXCEPT !.soft = @ + 1] \in Item /\ [Top EXCEPT !.soft = @ + 1].type = Top.type
    BY <2>2 DEF Triable, Item
  <2>4. items' = SetTop([Top EXCEPT !.soft = @ + 1]) /\ state' \in {"ERROR_ITEM", "REQUEUE_ITEM"}
    BY <1>4 DEF ItemFailed
  <2> QED
    BY <1>0, <2>1, <2>3, <2>4, UnlistedTop
<1>5. CASE RequeueItem \/ ErrorItem \/ RemoveItem
  <2>1. state \in {"REQUEUE_ITEM", "ERROR_ITEM", "REMOVE_ITEM"} /\ items # <<>>
    BY <1>5, <1>l, InState DEF RequeueItem, ErrorItem, RemoveItem, ListInv, HeadPresent, Headed
  <2>2. Top \in Unlisted /\ Tail(items) \in Seq(Unlisted)
    BY <2>1, HeadAndTail DEF Top
  <2>3. Insert(Tail(items), Top, Default) \in Seq(Unlisted)
    <3> DEFINE rest == Tail(items)
    <3>1. rest \in Seq(Unlisted)
      BY <2>2
    <3> HIDE DEF rest
    <3>2. Insert(rest, Top, Default) \in Seq(Unlisted)
      BY <1>0, <2>2, <3>1, InsertKeeps
    <3> QED
      BY <3>2 DEF rest
  <2>4. /\ items' \in {Tail(items), Insert(Tail(items), Top, Default)}
        /\ state' \in {"IDLE", "START"}
    BY <1>5 DEF RequeueItem, ErrorItem, RemoveItem, NextItem
  <2> QED
    BY <1>0, <2>2, <2>3, <2>4
<1>6. CASE Start \/ IsConnected \/ StartNextItem \/ ActiveEnd \/ Empty \/ Idle \/ Waiting
  <2>1. /\ UNCHANGED items
        /\ state' \in {state, "EMPTY", "ISCONNECTED", "START_NEXT_ITEM", "ACTIVE", "IDLE"}
    BY <1>6 DEF Start, IsConnected, StartNextItem, ActiveEnd, Empty, Idle, Waiting, listVars,
       queueVars
  <2> QED
    BY <1>0, <2>1
<1> QED
  BY <1>1, <1>2, <1>3, <1>4, <1>5, <1>6 DEF Pass

\* Nor do the events of the sessions and the users' commands.
LEMMA EventItems ==
  ASSUME IInv, items \in Seq(Unlisted), NEW p \in Side, SessionEvent(p)
  PROVE  items' \in Seq(Unlisted) /\ UNCHANGED state
<1>1. UNCHANGED state
  BY EventIs
<1>2. CASE items # <<>>
  <2>1. SameHead
    BY <1>2, EventSameHead DEF IInv
  <2> QED
    BY <1>1, <1>2, <2>1, UnlistedSameHead
<1>3. CASE items = <<>>
  <2>1. UNCHANGED items
    BY <1>3 DEF SessionEvent, Login, Reply, Die, TransferEnd, ListingEnd, DataLine,
       DataClosed, Lost, listVars
  <2> QED
    BY <1>1, <2>1
<1> QED
  BY <1>2, <1>3

\* The commands of users put none in it, but for the items that QADD may add.
LEMMA CommandItems ==
  ASSUME FilesOnly, IInv, items \in Seq(Unlisted), state \notin DirectoryState, Command2
  PROVE  items' \in Seq(Unlisted) /\ state' \notin DirectoryState
<1>a. \A at \in AtChoices : Atoi(at) \in Nat
  BY QueueAssumption DEF At, Absent, Atoi
<1>n. Len(items) \in Nat
  OBVIOUS
<1>2. CASE Go \/ Stop \/ StopDrop
  BY <1>2 DEF Go, Stop, StopDrop, listVars, DirectoryState
<1>3. CASE \E t \in NewItems, at \in AtChoices : QAdd(t, at)
  <2>1. PICK t \in NewItems, at \in AtChoices : QAdd(t, at)
    BY <1>3
  <2> DEFINE x == NewItem(nextId, t)
  <2>2. nextId \in ItemId /\ t \in Template
    BY <2>1, QueueAssumption DEF QAdd, IInv, BookInv, ItemId
  <2>3. x \in Unlisted
    <3>1. x \in Item
      BY <2>2, NewItemType DEF Triable
    <3>2. x.type = t.type /\ t.type # "DIRECTORY"
      BY <2>1 DEF NewItem, FilesOnly
    <3> QED
      BY <3>1, <3>2 DEF Unlisted
  <2>4. Atoi(Place(t, at)) \in Nat
    BY <1>a DEF Place, Atoi, Last, Nth
  <2>5. items' = Insert(items, x, Place(t, at)) /\ UNCHANGED state
    BY <2>1 DEF QAdd, queueVars
  <2> HIDE DEF x
  <2> QED
    BY <2>3, <2>4, <2>5, InsertKeeps
<1>4. CASE \E pos \in 0 .. MaxItems - 1 : QDel(pos)
  <2>1. PICK pos \in 0 .. MaxItems - 1 : QDel(pos)
    BY <1>4
  <2>2. pos \in 0 .. Len(items) - 1
    BY <1>n, <2>1, QueueAssumption DEF QDel
  <2>3. items' = RemoveAtPos(items, pos) /\ UNCHANGED state
    BY <2>1 DEF QDel, queueVars
  <2> QED
    BY <2>2, <2>3, RemoveKeeps
<1>5. CASE \E from \in 0 .. MaxItems - 1 : \E to \in AtChoices : QMove(from, to)
  <2>1. PICK from \in 0 .. MaxItems - 1, to \in AtChoices : QMove(from, to)
    BY <1>5
  <2> DEFINE at == IF state # "IDLE" /\ Atoi(to) = 0 THEN Nth(1) ELSE to
             r == RemoveAtPos(items, from)
             x == items[from + 1]
  <2>2. from \in 0 .. Len(items) - 1
    BY <1>n, <2>1, QueueAssumption DEF QMove
  <2>3. r \in Seq(Unlisted) /\ x \in Unlisted
    <3>1. x \in Unlisted
      BY <1>n, <2>2, ElementOfSeq
    <3> QED
      BY <2>2, <3>1, RemoveKeeps
  <2>4. Atoi(at) \in Nat
    BY <1>a DEF Atoi, Nth
  <2>5. items' = Insert(r, x, at) /\ UNCHANGED state
    BY <2>1 DEF QMove, queueVars
  <2> HIDE DEF r, x, at
  <2> QED
    BY <2>3, <2>4, <2>5, InsertKeeps
<1> QED
  BY <1>2, <1>3, <1>4, <1>5 DEF Command2

\* The first queues hold none.
LEMMA ItemsInit ==
  ASSUME FilesOnly, Init
  PROVE  items \in Seq(Unlisted)
<1>1. PICK ts \in FirstItems : items = NewQueue(ts)
  BY DEF Init
<1>2. ts \in Seq(Template) /\ Len(ts) \in 0 .. MaxItems
  BY <1>1, QueueAssumption
<1>3. ASSUME NEW i \in 1 .. Len(ts)
      PROVE  NewItem(i, ts[i]) \in Unlisted
  <2>1. NewItem(i, ts[i]) \in Item
    BY <1>2, <1>3, NewItemType, ElementOfSeq, QueueAssumption DEF ItemId, Triable
  <2>2. NewItem(i, ts[i]).type = ts[i].type
    BY DEF NewItem
  <2>3. ts[i].type # "DIRECTORY"
    <3>1. i \in DOMAIN ts
      BY <1>2, <1>3
    <3> QED
      BY <1>1, <3>1 DEF FilesOnly
  <2> QED
    BY <2>1, <2>2, <2>3 DEF Unlisted
<1> QED
  BY <1>1, <1>2, <1>3 DEF NewQueue

-----------------------------------------------------------------------------
(* The second reply that a session waits for is that of a file.              *)

\* A new session, and none, wait for no second reply.
LEMMA EndsNew == NewSession.replyId \in Ends226 /\ NoSession.replyId \in Ends226
BY DEF NewSession, NoSession, Ends226

\* queue_process makes a session wait for that of a file only, outside directories.
LEMMA PassEnds ==
  ASSUME IInv, FlightInv, FilesInv, Pass
  PROVE  \A p \in Side : sess'[p].replyId \in Ends226
<1>s. \A p \in Side : sess[p] \in SessionRec /\ sess[p].replyId \in Ends226
  BY DEF IInv, SessionInv, FilesInv
<1>1. CASE FilePass /\ ~Phase1Start
  <2>1. Told(state')
    BY <1>1, FilePassTold
  <2> QED
    BY <1>s, <2>1, EndsNew DEF Told, Kept
<1>2. CASE Phase1Start
  <2> DEFINE a == "PHASE_1_SRC_CWD"
             b == "PHASE_1_DST_CWD"
  <2>1. In("FILE_PHASE_1_START") /\ "FILE_PHASE_1_START" \in FileState \cup DirectoryState
    BY <1>2 DEF Phase1Start, FileState
  <2>2. src \in Side /\ Dst \in Side /\ Dst # src /\ \A p \in Side : p \in {src, Dst}
        /\ sess \in [Side -> SessionRec] /\ Top.dir \in Path
    BY <2>1, TwoSides, TwoSessions DEF IInv
  <2>3. \A p \in Side : \A ev \in Event :
          Cwd(sess[p], Top.dir, ev).replyId \in Ends226
    <3>1. TAKE p \in Side
    <3>2. TAKE ev \in Event
    <3> DEFINE t == [sess[p] EXCEPT !.saved = Top.dir]
               r == Cwd(sess[p], Top.dir, ev)
    <3>3. IsIn(sess[p], Top.dir) => r = sess[p]
      BY <1>s, <2>2, CwdIs
    <3>4. ~IsIn(sess[p], Top.dir) => Kept(t, r)
      BY <1>s, <2>2, CwdIs
    <3>5. t.replyId = sess[p].replyId
      BY <1>s DEF SessionRec
    <3> HIDE DEF t, r
    <3>6. r.replyId \in Ends226
      BY <1>s, <3>3, <3>4, <3>5 DEF Kept
    <3> QED
      BY <3>6 DEF r
  <2>4. PICK ss : /\ ss = [sess EXCEPT ![src] = Cwd(@, Top.dir, a), ![Dst] = Cwd(@, Top.dir, b)]
                  /\ \E nodelay : Settle(ss, nodelay)
    BY <1>2 DEF Phase1Start
  <2>5. a \in Event /\ b \in Event
    BY DEF Event
  <2>6. ss[src] = Cwd(sess[src], Top.dir, a) /\ ss[Dst] = Cwd(sess[Dst], Top.dir, b)
    BY <2>2, <2>4
  <2>7. \A p \in Side : ss[p].replyId \in Ends226
    BY <2>2, <2>3, <2>5, <2>6
  <2>8. \A p \in Side : sess'[p] = NoSession \/ sess'[p] = ss[p]
    BY <2>4, Leaves
  <2> QED
    BY <2>7, <2>8, EndsNew
<1>3. CASE IsConnected
  <2> DEFINE ss == [p \in Side |-> IF sess[p].here THEN sess[p] ELSE NewSession]
  <2>1. \E nodelay : Settle(ss, nodelay)
    BY <1>3 DEF IsConnected
  <2>2. \A p \in Side : sess'[p] \in {NoSession, ss[p]}
    BY <2>1, Leaves
  <2> QED
    BY <1>s, <2>2, EndsNew
<1>4. CASE Empty
  <2> DEFINE cmd == Cmd("QUIT", "PHASE_12_NOOP")
             ss == [p \in Side |-> CmdqNew(sess[p], cmd)]
  <2>1. Sleep(ss)
    BY <1>4 DEF Empty
  <2>2. \A p \in Side : sess'[p] \in {NoSession, ss[p]}
    BY <2>1, Leaves
  <2>3. cmd \in Command
    BY CmdType DEF Op, Event
  <2> HIDE DEF cmd
  <2>4. \A p \in Side : Kept(sess[p], CmdqNew(sess[p], cmd))
    BY <1>s, <2>3, CmdqNewIs
  <2> QED
    BY <1>s, <2>2, <2>4, EndsNew DEF Kept
<1>5. CASE DirectoryPass
  <2>1. PICK st \in DirectoryState : In(st)
    BY <1>5 DEF DirectoryPass, DirectoryState, DirectoryStart, DirectoryPhase1Idle,
       DirectoryPhase2Start, DirectoryPhase2Mkd, DirectoryPhase2Compare
  <2>2. state \in DirectoryState
    BY <2>1, InState DEF DirectoryState
  <2> QED
    BY <2>2 DEF FilesInv
<1>6. CASE Start \/ StartNextItem \/ ActiveEnd \/ Active \/ ItemFailed \/ RequeueItem
           \/ ErrorItem \/ RemoveItem \/ Idle \/ Waiting
  <2>1. Again(sess) \/ Sleep(sess)
    BY <1>6 DEF Start, StartNextItem, ActiveEnd, Active, ItemFailed, RequeueItem, ErrorItem,
       RemoveItem, NextItem, Idle, Waiting
  <2>2. \A p \in Side : sess'[p] \in {NoSession, sess[p]}
    BY <2>1, Leaves
  <2> QED
    BY <1>s, <2>2, EndsNew
<1> QED
  BY <1>1, <1>2, <1>3, <1>4, <1>5, <1>6 DEF Pass

-----------------------------------------------------------------------------
(* The events of a session, by what they do to the file and its transfer.    *)

\* It is lost; it is told nothing and its transfer goes on; it takes a reply;
\* its transfer ends.
Gone(p) == sess'[p] = NoSession /\ old'[p] /\ UNCHANGED <<items, remote, wire>>

Calms(p) ==
  LET s == sess[p]
      r == sess'[p]
  IN  /\ UNCHANGED <<remote, wire>>
      /\ r.here = s.here /\ r.cmdq = s.cmdq /\ r.replyId = s.replyId
      /\ r.state = s.state \/ (s.state = "DATA_FINISH" /\ r.state = "IDLE")
      /\ s.login => r.login /\ (s.state # "DATA_FINISH" => r.isidle = s.isidle)
      /\ UNCHANGED items \/ (items # <<>> /\ items' = SetTop(Second(s.replyId, "fail")))

Takes(p, cmd, code) ==
  /\ Answers(p, cmd, code) /\ ~sess[p].isidle
  /\ wire' = IF cmd.op = "RETR" /\ code = "ok" THEN [wire EXCEPT !.got = "flow"] ELSE wire
  /\ remote' = Truncated(Digest(sess[p], cmd, code), cmd, code)

Ends(p, code, got) ==
  /\ sess[p].here /\ sess[p].state = "RELAY_226" /\ sess'[p] = TransferEnded(sess[p])
  /\ wire.got = "all" => got = "all"
  /\ wire.got \in {"wait", "cut"} => got = "cut"
  /\ sess[p].replyId = "PHASE_12_SRC_226" /\ code = "ok" => got = "all"
  /\ wire' = [wire EXCEPT !.got = got]
  /\ remote' = IF wire.to # 0 /\ got # wire.got
               THEN [remote EXCEPT ![wire.to] = IF got = "all" THEN "full" ELSE "part"]
               ELSE remote
  /\ items' = IF items = <<>> THEN items ELSE SetTop(Second(sess[p].replyId, code))

\* Every event of a session is one of the four.
LEMMA EventEither ==
  ASSUME IInv, NEW p \in Side, SessionEvent(p)
  PROVE  \/ Gone(p) \/ Calms(p)
         \/ \E cmd, code : Takes(p, cmd, code)
         \/ \E code, got : Ends(p, code, got)
<1>0. sess[p] \in SessionRec /\ sess \in [Side -> SessionRec] /\ p \in Side
  BY DEF IInv, SessionInv
<1>d. ASSUME UNCHANGED <<items, remote, wire, sess>> PROVE Calms(p)
  BY <1>d DEF Calms
<1>o. old \in [Side -> BOOLEAN]
  BY DEF IInv, SessionInv, WorldInv
<1>g. ASSUME LoseSession(p), UNCHANGED <<items, remote, wire>> PROVE Gone(p)
  BY <1>0, <1>g, <1>o DEF LoseSession, Gone
<1>1. CASE Reply(p)
  <2> DEFINE cmd == Head(sess[p].cmdq)
  <2>1. PICK code \in Codes(cmd) :
          \/ LoseSession(p) /\ UNCHANGED <<items, remote, wire>>
          \/ Die
          \/ Takes(p, cmd, code)
    BY <1>0, <1>1 DEF Reply, Answers, Takes, Die, listVars
  <2>2. Die => Calms(p)
    BY <1>d DEF Die, listVars
  <2> QED
    BY <1>g, <2>1, <2>2
<1>2. CASE TransferEnd(p)
  <2>1. PICK code \in {"ok", "fail"} :
          \E got \in CASE wire.got = "flow" -> {"all", "cut"}
                       [] wire.got = "wait" -> {"cut"}
                       [] OTHER -> {wire.got} :
            /\ sess[p].replyId = "PHASE_12_SRC_226" /\ code = "ok" => got = "all"
            /\ \/ Die
               \/ /\ wire' = [wire EXCEPT !.got = got]
                  /\ remote' = IF wire.to # 0 /\ got # wire.got
                               THEN [remote EXCEPT ![wire.to] =
                                       IF got = "all" THEN "full" ELSE "part"]
                               ELSE remote
                  /\ items' = IF items = <<>> THEN items
                              ELSE SetTop(Second(sess[p].replyId, code))
                  /\ sess' = [sess EXCEPT ![p] = TransferEnded(@)]
    BY <1>2 DEF TransferEnd
  <2>2. PICK got \in CASE wire.got = "flow" -> {"all", "cut"}
                       [] wire.got = "wait" -> {"cut"}
                       [] OTHER -> {wire.got} :
            /\ sess[p].replyId = "PHASE_12_SRC_226" /\ code = "ok" => got = "all"
            /\ \/ Die
               \/ /\ wire' = [wire EXCEPT !.got = got]
                  /\ remote' = IF wire.to # 0 /\ got # wire.got
                               THEN [remote EXCEPT ![wire.to] =
                                       IF got = "all" THEN "full" ELSE "part"]
                               ELSE remote
                  /\ items' = IF items = <<>> THEN items
                              ELSE SetTop(Second(sess[p].replyId, code))
                  /\ sess' = [sess EXCEPT ![p] = TransferEnded(@)]
    BY <2>1
  <2>3. /\ wire.got = "all" => got = "all"
        /\ wire.got \in {"wait", "cut"} => got = "cut"
    BY <2>2
  <2>4. sess[p].here /\ sess[p].state = "RELAY_226"
    BY <1>2 DEF TransferEnd
  <2>5. CASE Die
    BY <1>d, <2>5 DEF Die, listVars
  <2>6. CASE ~Die
    <3>1. sess'[p] = TransferEnded(sess[p])
      BY <1>0, <2>2, <2>6
    <3>2. Ends(p, code, got)
      BY <2>2, <2>3, <2>4, <2>6, <3>1 DEF Ends
    <3> QED
      BY <3>2
  <2> QED
    BY <2>5, <2>6
<1>3. CASE DataClosed(p)
  <2> DEFINE r == [sess[p] EXCEPT !.data = FALSE]
  <2>1. \/ Die
        \/ /\ UNCHANGED <<remote, wire>> /\ sess'[p] = r
           /\ UNCHANGED items \/ (items # <<>> /\ items' = SetTop(Second(sess[p].replyId, "fail")))
    BY <1>0, <1>3 DEF DataClosed, worldVars
  <2>2. /\ r.here = sess[p].here /\ r.cmdq = sess[p].cmdq /\ r.replyId = sess[p].replyId
        /\ r.state = sess[p].state /\ r.login = sess[p].login /\ r.isidle = sess[p].isidle
    BY <1>0 DEF SessionRec
  <2>3. Die => Calms(p)
    BY <1>d DEF Die, listVars
  <2> HIDE DEF r
  <2> QED
    BY <2>1, <2>2, <2>3 DEF Calms
<1>4. CASE Login(p)
  <2> DEFINE a == [sess[p] EXCEPT !.login = TRUE, !.isidle = TRUE]
  <2>1. ~sess[p].login /\ sess'[p] = Restart(a) /\ UNCHANGED <<items, remote, wire>>
    BY <1>0, <1>4 DEF Login, LoggedIn, listVars, worldVars
  <2>2. /\ Restart(a).here = sess[p].here /\ Restart(a).cmdq = sess[p].cmdq
        /\ Restart(a).replyId = sess[p].replyId /\ Restart(a).state = sess[p].state
    BY <1>0 DEF Restart, SessionRec
  <2> HIDE DEF a
  <2> QED
    BY <2>1, <2>2 DEF Calms
<1>5. CASE ListingEnd(p)
  <2> DEFINE b == [sess[p] EXCEPT !.state = "IDLE"]
  <2>1. /\ UNCHANGED <<items, remote, wire>> /\ sess[p].state = "DATA_FINISH"
        /\ LoseSession(p) \/ sess'[p] = Restart(b)
    BY <1>0, <1>5 DEF ListingEnd, ListEnded, listVars
  <2>2. /\ Restart(b).here = sess[p].here /\ Restart(b).cmdq = sess[p].cmdq
        /\ Restart(b).replyId = sess[p].replyId /\ Restart(b).state = "IDLE"
        /\ Restart(b).login = sess[p].login
    BY <1>0 DEF Restart, SessionRec
  <2> HIDE DEF b
  <2> QED
    BY <1>g, <2>1, <2>2 DEF Calms
<1>6. CASE DataLine(p)
  <2> DEFINE c == [sess[p] EXCEPT !.files = TRUE]
  <2>1. UNCHANGED <<items, remote, wire>> /\ sess'[p] = c
    BY <1>0, <1>6 DEF DataLine, listVars, worldVars
  <2>2. /\ c.here = sess[p].here /\ c.cmdq = sess[p].cmdq /\ c.replyId = sess[p].replyId
        /\ c.state = sess[p].state /\ c.login = sess[p].login /\ c.isidle = sess[p].isidle
    BY <1>0 DEF SessionRec
  <2> HIDE DEF c
  <2> QED
    BY <2>1, <2>2 DEF Calms
<1>7. CASE Lost(p)
  BY <1>7, <1>g DEF Lost, listVars
<1> QED
  BY <1>1, <1>2, <1>3, <1>4, <1>5, <1>6, <1>7 DEF SessionEvent

\* What the end of a file transfer, or of a listing's data channel, writes.
LEMMA SecondIs ==
  ASSUME Top \in Item, NEW id \in Ends226, NEW code, NEW x, x = Second(id, code)
  PROVE  /\ x \in Item /\ x.id = Top.id /\ x.dsize = Top.dsize
         /\ Top.sfail => x.sfail
         /\ id # "PHASE_12_SRC_226" => x.sxfer = Top.sxfer
         /\ id = "PHASE_12_SRC_226" /\ code # "ok" => x.sfail
<1>1. x \in Item
  <2>1. CASE id = "none"
    BY <2>1 DEF Second
  <2>2. CASE id = "PHASE_12_SRC_226"
    <3> DEFINE b == Top.sfail \/ code # "ok"
    <3>1. b \in BOOLEAN /\ Bump(Top.sxfer) \in 0 .. 3
      BY DEF Bump, Item
    <3>2. x = [Top EXCEPT !.sxfer = Bump(Top.sxfer), !.sfail = b]
      BY <2>2 DEF Second
    <3> HIDE DEF b
    <3>3. b = TRUE \/ b = FALSE
      BY <3>1
    <3>4. /\ [Top EXCEPT !.sxfer = Bump(Top.sxfer), !.sfail = TRUE] \in Item
          /\ [Top EXCEPT !.sxfer = Bump(Top.sxfer), !.sfail = FALSE] \in Item
      BY <3>1 DEF Item
    <3> QED
      BY <3>2, <3>3, <3>4
  <2>3. CASE id = "PHASE_12_DST_226"
    <3> DEFINE b == Top.dfail \/ code # "ok"
    <3>1. b \in BOOLEAN /\ Bump(Top.dxfer) \in 0 .. 3
      BY DEF Bump, Item
    <3>2. x = [Top EXCEPT !.dxfer = Bump(Top.dxfer), !.dfail = b]
      BY <2>3 DEF Second
    <3> HIDE DEF b
    <3>3. b = TRUE \/ b = FALSE
      BY <3>1
    <3>4. /\ [Top EXCEPT !.dxfer = Bump(Top.dxfer), !.dfail = TRUE] \in Item
          /\ [Top EXCEPT !.dxfer = Bump(Top.dxfer), !.dfail = FALSE] \in Item
      BY <3>1 DEF Item
    <3> QED
      BY <3>2, <3>3, <3>4
  <2> QED
    BY <2>1, <2>2, <2>3 DEF Ends226
<1>2. /\ x.id = Top.id /\ x.dsize = Top.dsize
      /\ Top.sfail => x.sfail
      /\ id # "PHASE_12_SRC_226" => x.sxfer = Top.sxfer
      /\ id = "PHASE_12_SRC_226" /\ code # "ok" => x.sfail
  BY DEF Second, Item, Ends226
<1> QED
  BY <1>1, <1>2

\* What a reply writes.
LEMMA TopAfterIs ==
  ASSUME Top \in Item, NEW ev, NEW code, NEW x, x = TopAfter(ev, code)
  PROVE  /\ x.id = Top.id
         /\ x.dsize = IF ev = "PHASE_5_DST_SIZE" /\ code = "ok" THEN remote[Top.id] ELSE Top.dsize
         /\ Top.sfail => x.sfail
         /\ x.sxfer = IF ev = "PHASE_10_STOR" /\ code = "ok" THEN Bump(Top.sxfer) ELSE Top.sxfer
BY DEF TopAfter, Item

\* A reply to none of the commands that start something leaves the session's
\* state, and every reply leaves its login and the second one.
LEMMA NotedKeeps ==
  ASSUME NEW s \in SessionRec, NEW cmd \in Command, NEW code, NEW r, r = Noted(s, cmd, code)
  PROVE  /\ r.replyId = s.replyId /\ r.login = s.login
         /\ cmd.op \notin {"STOR", "RETR", "LIST"} => r.state = s.state
         /\ cmd.op # "LIST" => r.state \in {s.state, "RELAY_226"}
<1>1. CASE cmd.op \in {"ON", "OFF"}
  <2>1. r = [s EXCEPT !.status = StatusAfter(s, cmd, code)]
    <3>1. s = [s EXCEPT !.status = s.status]
      BY DEF SessionRec
    <3> QED
      BY <1>1, <3>1 DEF Noted, StatusAfter
  <2> QED
    BY <1>1, <2>1 DEF SessionRec
<1>2. CASE Moved(cmd, code)
  <2>1. r = [s EXCEPT !.pwd = IF s.saved # "-" THEN s.saved ELSE s.pwd,
                      !.files = FALSE, !.cmdq = Append(s.cmdq, Pwd)]
    BY <1>2 DEF Noted, Moved, Pwd
  <2> QED
    BY <1>2, <2>1 DEF SessionRec
<1>3. CASE cmd.op = "CWD" /\ code # "ok"
  <2>1. r = [s EXCEPT !.saved = "-"]
    BY <1>3 DEF Noted
  <2> QED
    BY <1>3, <2>1 DEF SessionRec
<1>4. CASE cmd.op = "PWD"
  <2>1. r = [s EXCEPT !.pwd = s.cwd]
    BY <1>4 DEF Noted
  <2> QED
    BY <1>4, <2>1 DEF SessionRec
<1>5. CASE cmd.op \notin {"ON", "OFF", "CWD", "PWD"}
  <2>1. cmd.op \notin {"STOR", "RETR", "PASV", "PORT", "LIST"} => r = s
    BY <1>5 DEF Noted
  <2>2. cmd.op \in {"STOR", "RETR"} => r \in {s, [s EXCEPT !.state = "RELAY_226"]}
    BY DEF Noted
  <2>3. cmd.op \in {"PASV", "PORT"} => r \in {s, [s EXCEPT !.data = TRUE]}
    BY DEF Noted
  <2>4. cmd.op = "LIST" => r = [s EXCEPT !.state = "DATA_FINISH"]
    BY DEF Noted
  <2> QED
    BY <1>5, <2>1, <2>2, <2>3, <2>4 DEF SessionRec
<1> QED
  BY <1>1, <1>2, <1>3, <1>4, <1>5 DEF Moved

LEMMA DigestKeeps ==
  ASSUME NEW s \in SessionRec, NEW cmd \in Command, NEW code, NEW r, r = Digest(s, cmd, code)
  PROVE  /\ r.replyId = s.replyId /\ r.login = s.login
         /\ cmd.op \notin {"STOR", "RETR", "LIST"} => r.state = s.state
         /\ cmd.op # "LIST" => r.state \in {s.state, "RELAY_226"}
<1> DEFINE u == Obeys(s, cmd, code)
<1>1. u \in SessionRec /\ u.replyId = s.replyId /\ u.login = s.login /\ u.state = s.state
  BY ObeysType, ObeysIs
<1>2. r = Noted(u, cmd, code)
  BY DEF Digest
<1> HIDE DEF u
<1> QED
  BY <1>1, <1>2, NotedKeeps

\* So does the rest of the reply's handling.
LEMMA AnsweredKeeps ==
  ASSUME NEW s \in SessionRec, s.cmdq # <<>>, NEW code, NEW more \in Seq(Command),
         NEW r, r = Answered(s, code, more), NEW cmd, cmd = Head(s.cmdq)
  PROVE  /\ r.replyId = s.replyId /\ r.login = s.login
         /\ cmd.op \notin {"STOR", "RETR", "LIST"} => r.state = s.state
         /\ cmd.op # "LIST" => r.state \in {s.state, "RELAY_226"}
<1> DEFINE s0 == [s EXCEPT !.cmdq = Tail(@)]
           s1 == Digest(s0, cmd, code)
           s2 == Given(s1, more)
           s3 == [s2 EXCEPT !.isidle = TRUE]
<1>1. cmd \in Command /\ Tail(s.cmdq) \in Seq(Command)
  BY HeadTailProperties DEF SessionRec
<1>2. s0 \in SessionRec
  BY <1>1 DEF SessionRec
<1>3. s0.replyId = s.replyId /\ s0.login = s.login /\ s0.state = s.state
  BY DEF SessionRec
<1>4. r = Restart(s3)
  BY DEF Answered
<1> HIDE DEF s0
<1>5. s1 \in SessionRec
  BY <1>1, <1>2, DigestType
<1>6. /\ s1.replyId = s0.replyId /\ s1.login = s0.login
      /\ cmd.op \notin {"STOR", "RETR", "LIST"} => s1.state = s0.state
      /\ cmd.op # "LIST" => s1.state \in {s0.state, "RELAY_226"}
  BY <1>1, <1>2, DigestKeeps
<1> HIDE DEF s1
<1>7. s2 \in SessionRec
  BY <1>5, GivenType
<1>8. s2.replyId = s1.replyId /\ s2.login = s1.login /\ s2.state = s1.state
  BY <1>5 DEF Given, SessionRec
<1> HIDE DEF s2
<1>9. /\ s3 \in SessionRec /\ s3.replyId = s2.replyId /\ s3.login = s2.login
      /\ s3.state = s2.state
  BY <1>7 DEF SessionRec
<1> HIDE DEF s3
<1>10. /\ Restart(s3).replyId = s3.replyId /\ Restart(s3).login = s3.login
       /\ Restart(s3).state = s3.state
  BY <1>9 DEF Restart, SessionRec
<1> QED
  BY <1>3, <1>4, <1>6, <1>8, <1>9, <1>10

\* What a session in the later phases is after a reply.
LEMMA TakesKeeps ==
  ASSUME IInv, NEW p \in Side, NEW cmd, NEW code, Takes(p, cmd, code), loop = "poll"
  PROVE  /\ sess[p].here /\ sess'[p].here
         /\ sess'[p].replyId = sess[p].replyId /\ sess'[p].login = sess[p].login
         /\ cmd.op \notin {"STOR", "RETR", "LIST"} => sess'[p].state = sess[p].state
         /\ cmd.op # "LIST" => sess'[p].state \in {sess[p].state, "RELAY_226"}
<1> DEFINE more == More(Digest(sess[p], cmd, code), cmd.ev, Heard(code))
<1>1. Answers(p, cmd, code)
  BY DEF Takes
<1>2. /\ sess[p] \in SessionRec /\ sess[p].cmdq # <<>> /\ cmd = Head(sess[p].cmdq)
      /\ sess'[p].here /\ more \in Seq(Command)
  BY <1>1, AnswersIs
<1>3. sess[p].here /\ sess'[p] = Answered(sess[p], code, more)
  BY <1>1 DEF Answers
<1> HIDE DEF more
<1> QED
  BY <1>2, <1>3, AnsweredKeeps

\* What becomes of the first item.
LEMMA TopSet ==
  ASSUME IInv, items # <<>>, NEW x \in Item, items' = SetTop(x)
  PROVE  Top' = x
<1>1. items \in Seq(Item)
  BY ItemsType DEF IInv, ListInv
<1> QED
  BY <1>1, HeadOfSetTop DEF Top

\* While a file is worked on there is one.
LEMMA FileTop ==
  ASSUME IInv, state \in FileState, loop = "poll"
  PROVE  items # <<>> /\ Top \in Item
<1>1. items # <<>>
  BY DEF IInv, ListInv, HeadPresent, Headed
<1> QED
  BY <1>1, PollingItems DEF IInv, Triable

\* An event that tells the session nothing counts for nothing but a failure.
LEMMA CalmTop ==
  ASSUME IInv, FilesInv, state \in FileState, loop = "poll", NEW p \in Side, Calms(p)
  PROVE  /\ Top'.id = Top.id /\ Top'.dsize = Top.dsize
         /\ Uncounted => Uncounted'
         /\ Unstarted => Unstarted'
<1> DEFINE x == Second(sess[p].replyId, "fail")
<1>1. items # <<>> /\ Top \in Item
  BY FileTop
<1>2. sess[p].replyId \in Ends226
  BY DEF FilesInv
<1>3. /\ x \in Item /\ x.id = Top.id /\ x.dsize = Top.dsize
      /\ Top.sfail => x.sfail
      /\ x.sxfer = Top.sxfer \/ x.sfail
  BY <1>1, <1>2, SecondIs
<1>4. UNCHANGED items \/ items' = SetTop(x)
  BY DEF Calms
<1> HIDE DEF x
<1>5. Top' = Top \/ Top' = x
  BY <1>1, <1>3, <1>4, TopSet DEF Top
<1> QED
  BY <1>3, <1>5 DEF Uncounted, Unstarted

\* What a reply counts for.
LEMMA TakesTop ==
  ASSUME IInv, state \in FileState, loop = "poll", NEW p \in Side, NEW cmd, NEW code, code # "near",
         Takes(p, cmd, code)
  PROVE  /\ Top \in Item /\ Top'.id = Top.id
         /\ Top'.dsize = IF cmd.ev = "PHASE_5_DST_SIZE" /\ code = "ok" THEN remote[Top.id]
                         ELSE Top.dsize
         /\ Top.sfail => Top'.sfail
         /\ Top'.sxfer = IF cmd.ev = "PHASE_10_STOR" /\ code = "ok" THEN Bump(Top.sxfer)
                         ELSE Top.sxfer
<1>h. Heard(code) = code
  BY DEF Heard
<1> DEFINE x == TopAfter(cmd.ev, code)
<1>1. items # <<>> /\ Top \in Item /\ Top \in Triable
  BY FileTop, PollingItems DEF IInv
<1>2. x \in Item
  BY <1>1, TopAfterType DEF IInv, WorldInv, Triable
<1>3. items' = SetTop(x)
  BY <1>1, <1>h DEF Takes, Answers
<1>4. Top' = x
  <2> HIDE DEF x
  <2> QED
    BY <1>1, <1>2, <1>3, TopSet
<1> QED
  BY <1>1, <1>4, TopAfterIs

\* What the end of a transfer counts for.
LEMMA EndsTop ==
  ASSUME IInv, FilesInv, state \in FileState, loop = "poll", NEW p \in Side, NEW code, NEW got,
         Ends(p, code, got)
  PROVE  /\ Top'.id = Top.id /\ Top'.dsize = Top.dsize
         /\ Uncounted => Uncounted' \/ got = "all"
         /\ sess[p].replyId # "PHASE_12_SRC_226" =>
              (Uncounted => Uncounted') /\ (Unstarted => Unstarted')
<1> DEFINE id == sess[p].replyId
           x == Second(id, code)
<1>1. items # <<>> /\ Top \in Item
  BY FileTop
<1>2. id \in Ends226
  BY DEF FilesInv
<1>3. /\ x \in Item /\ x.id = Top.id /\ x.dsize = Top.dsize
      /\ Top.sfail => x.sfail
      /\ id # "PHASE_12_SRC_226" => x.sxfer = Top.sxfer
      /\ id = "PHASE_12_SRC_226" /\ code # "ok" => x.sfail
  BY <1>1, <1>2, SecondIs
<1>4. items' = SetTop(x) /\ (id = "PHASE_12_SRC_226" /\ code = "ok" => got = "all")
  BY <1>1 DEF Ends
<1>5. Top' = x
  <2> HIDE DEF x
  <2> QED
    BY <1>1, <1>3, <1>4, TopSet
<1> HIDE DEF x
<1> QED
  BY <1>3, <1>4, <1>5 DEF Uncounted, Unstarted

\* What becomes of a session whose transfer ends.
LEMMA EndsSession ==
  ASSUME IInv, NEW p \in Side, NEW code, NEW got, Ends(p, code, got)
  PROVE  /\ sess[p].here /\ sess'[p].here
         /\ sess[p].state = "RELAY_226" /\ sess'[p].state = "IDLE"
         /\ sess'[p].replyId = "none" /\ sess'[p].cmdq = sess[p].cmdq
         /\ sess'[p].login = sess[p].login /\ sess'[p].isidle = sess[p].isidle
<1>1. sess[p] \in SessionRec
  BY DEF IInv, SessionInv
<1> QED
  BY <1>1 DEF Ends, TransferEnded, SessionRec

\* No event makes a session wait for the end of a listing.
LEMMA EventEnds ==
  ASSUME IInv, FilesInv, NEW p \in Side, SessionEvent(p)
  PROVE  \A q \in Side : sess'[q].replyId \in Ends226
<1>1. loop = "poll" /\ \A q \in Side \ {p} : sess'[q] = sess[q]
  BY EventIs
<1>2. sess'[p].replyId \in Ends226
  <2>1. CASE Gone(p)
    BY <2>1, EndsNew DEF Gone
  <2>2. CASE Calms(p)
    BY <2>2 DEF Calms, FilesInv
  <2>3. ASSUME NEW cmd, NEW code, Takes(p, cmd, code)
        PROVE  sess'[p].replyId \in Ends226
    BY <1>1, <2>3, TakesKeeps DEF FilesInv
  <2>4. ASSUME NEW code, NEW got, Ends(p, code, got)
        PROVE  sess'[p].replyId \in Ends226
    BY <2>4, EndsSession DEF Ends226
  <2> QED
    BY <2>1, <2>2, <2>3, <2>4, EventEither
<1> QED
  BY <1>1, <1>2 DEF FilesInv

\* Nor does a command of a user.
LEMMA CommandEnds ==
  ASSUME FilesInv, Command2
  PROVE  \A p \in Side : sess'[p].replyId \in Ends226
<1>1. sess' = sess \/ sess' = [p \in Side |-> NoSession]
  BY DEF Command2, Go, Stop, StopDrop, QAdd, QDel, QMove
<1> QED
  BY <1>1, EndsNew DEF FilesInv

\* FilesInv is kept.
LEMMA FilesNext ==
  ASSUME FilesOnly, IInv, FlightInv, FilesInv, [Next]_vars
  PROVE  FilesInv'
<1>1. items \in Seq(Unlisted) /\ state \notin DirectoryState
  BY DEF FilesInv
<1>2. CASE Pass
  <2>1. items' \in Seq(Unlisted) /\ state' \notin DirectoryState
    BY <1>1, <1>2, PassItems
  <2>2. \A p \in Side : sess'[p].replyId \in Ends226
    BY <1>2, PassEnds
  <2> QED
    BY <2>1, <2>2 DEF FilesInv
<1>3. ASSUME NEW p \in Side, SessionEvent(p) PROVE FilesInv'
  <2>1. items' \in Seq(Unlisted) /\ UNCHANGED state
    BY <1>1, <1>3, EventItems
  <2>2. \A q \in Side : sess'[q].replyId \in Ends226
    BY <1>3, EventEnds
  <2> QED
    BY <1>1, <2>1, <2>2 DEF FilesInv
<1>4. CASE Command2
  <2>1. items' \in Seq(Unlisted) /\ state' \notin DirectoryState
    BY <1>1, <1>4, CommandItems
  <2>2. \A p \in Side : sess'[p].replyId \in Ends226
    BY <1>4, CommandEnds
  <2> QED
    BY <2>1, <2>2 DEF FilesInv
<1>5. CASE UNCHANGED vars
  BY <1>5 DEF vars, queueVars, listVars, FilesInv
<1> QED
  BY <1>2, <1>3, <1>4, <1>5 DEF Next

-----------------------------------------------------------------------------
(* DoneInv is kept. *)

\* A lost session is in no transfer.
LEMMA NoSessionIs ==
  /\ ~NoSession.here /\ NoSession.cmdq = <<>> /\ NoSession.state = "IDLE"
  /\ NoSession.replyId = "none"
BY DEF NoSession, NewSession

\* The states that DoneInv speaks of, but for the last one, work on a file.
Busy == {"FILE_PHASE_5_REST_WAIT", "FILE_PHASE_6_START"} \cup Unbound \cup Sending

\* The states that are told apart.
LEMMA BusyFile ==
  /\ Busy \subseteq FileState /\ "REMOVE_ITEM" \notin FileState
  /\ Unbound \subseteq Busy /\ Sending \subseteq Busy
  /\ {"FILE_PHASE_5_REST_WAIT", "FILE_PHASE_6_START", "FILE_PHASE_10_WAIT",
      "FILE_PHASE_11_START", "FILE_PHASE_11_WAIT", "FILE_PHASE_12_START"} \subseteq Busy
  /\ "REMOVE_ITEM" \notin Busy
BY DEF Busy, Unbound, Sending, Transferring, FileState

\* In the other states DoneInv says nothing.
LEMMA DoneElsewhere ==
  ASSUME state' \notin Busy \cup {"REMOVE_ITEM"}
  PROVE  DoneInv'
BY BusyFile DEF DoneInv, AskInv, SizeInv, UnboundInv, StoreInv, SendInv, ArriveInv, FinishInv

\* A session may be lost.
LEMMA DoneLeft ==
  ASSUME DoneInv, UNCHANGED <<state, src, Top, remote, wire>>,
         state = "REMOVE_ITEM" => UNCHANGED loop,
         state \in Busy => src \in Side /\ Dst \in Side,
         \A p \in Side : sess'[p] \in {NoSession, sess[p]}
  PROVE  DoneInv'
<1>1. CASE state \in Busy
  <2>0. src \in Side /\ Dst \in Side /\ Dst' = Dst
    BY <1>1 DEF Dst
  <2>1. AskInv'
    BY <2>0, NoSessionIs DEF DoneInv, AskInv
  <2>2. SizeInv'
    <3> SUFFICES ASSUME state = "FILE_PHASE_5_REST_WAIT" PROVE SizeInv'
      BY DEF SizeInv
    <3>1. /\ sess[Dst].state = "RELAY_226" => sess[Dst].cmdq # <<>>
          /\ \A i \in DOMAIN sess[Dst].cmdq : sess[Dst].cmdq[i].ev = "PHASE_5_DST_SIZE"
          /\ \/ \E p \in Side : ~sess[p].here \/ Stuck(sess[p])
             \/ sess[Dst].cmdq = <<>> => Top.dsize = remote[Top.id]
      BY DEF DoneInv, SizeInv
    <3>2. sess'[Dst].state = "RELAY_226" => sess'[Dst].cmdq # <<>>
      BY <2>0, <3>1, NoSessionIs
    <3>3. \A i \in DOMAIN sess'[Dst].cmdq : sess'[Dst].cmdq[i].ev = "PHASE_5_DST_SIZE"
      BY <2>0, <3>1, NoSessionIs
    <3>4. \/ \E p \in Side : ~sess'[p].here \/ Stuck(sess'[p])
          \/ sess'[Dst].cmdq = <<>> => Top'.dsize = remote'[Top'.id]
      <4>1. CASE \E p \in Side : sess'[p] = NoSession
        BY <4>1, NoSessionIs
      <4>2. CASE \A p \in Side : sess'[p] = sess[p]
        BY <2>0, <3>1, <4>2
      <4> QED
        BY <4>1, <4>2
    <3> QED
      BY <2>0, <3>2, <3>3, <3>4 DEF SizeInv, Stuck
  <2>3. UnboundInv'
    BY <2>0, NoSessionIs DEF DoneInv, UnboundInv
  <2>4. Uncounted' = Uncounted /\ Unstarted' = Unstarted
    BY DEF Uncounted, Unstarted
  <2>5. StoreInv'
    BY <2>0, <2>4, NoSessionIs DEF DoneInv, StoreInv
  <2>6. SendInv'
    BY <2>0, <2>4, NoSessionIs DEF DoneInv, SendInv
  <2>7. ArriveInv'
    BY <2>0, NoSessionIs DEF DoneInv, ArriveInv
  <2>8. FinishInv'
    BY <1>1, BusyFile DEF FinishInv
  <2> QED
    BY <2>1, <2>2, <2>3, <2>5, <2>6, <2>7, <2>8 DEF DoneInv
<1>2. CASE state = "REMOVE_ITEM"
  <2>1. FinishInv'
    BY <1>2 DEF DoneInv, FinishInv
  <2> QED
    BY <1>2, <2>1, BusyFile DEF DoneInv, AskInv, SizeInv, UnboundInv, StoreInv, SendInv, ArriveInv
<1>3. CASE state \notin Busy \cup {"REMOVE_ITEM"}
  BY <1>3, DoneElsewhere
<1> QED
  BY <1>1, <1>2, <1>3

\* What an event of one session leaves to the two of a file.
LEMMA EventSides ==
  ASSUME IInv, NEW p \in Side, SessionEvent(p), state \in Busy
  PROVE  /\ src \in Side /\ Dst \in Side /\ Dst # src /\ \A q \in Side : q \in {src, Dst}
         /\ UNCHANGED <<state, src, Dst>> /\ loop = "poll"
         /\ \A q \in Side \ {p} : sess'[q] = sess[q]
         /\ state \in FileState
<1>1. state \in FileState
  BY BusyFile
<1>2. src \in Side
  BY <1>1 DEF IInv, ListInv, HeadPresent
<1>3. UNCHANGED <<state, src>> /\ loop = "poll" /\ \A q \in Side \ {p} : sess'[q] = sess[q]
  BY EventIs
<1> QED
  BY <1>1, <1>2, <1>3 DEF Dst, Other, Side

\* An event that tells the session nothing.
LEMMA CalmDone ==
  ASSUME IInv, FilesInv, DoneInv, state \in Busy, NEW p \in Side, SessionEvent(p), Calms(p)
  PROVE  DoneInv'
<1>0. /\ src \in Side /\ Dst \in Side /\ Dst # src /\ \A q \in Side : q \in {src, Dst}
      /\ UNCHANGED <<state, src, Dst>> /\ loop = "poll"
      /\ \A q \in Side \ {p} : sess'[q] = sess[q]
      /\ state \in FileState
  BY EventSides
<1>1. /\ UNCHANGED <<remote, wire>>
      /\ Top'.id = Top.id /\ Top'.dsize = Top.dsize
      /\ Uncounted => Uncounted'
      /\ Unstarted => Unstarted'
  BY <1>0, CalmTop DEF Calms
<1>2. \A q \in Side :
        /\ sess'[q].here = sess[q].here /\ sess'[q].cmdq = sess[q].cmdq
        /\ sess'[q].replyId = sess[q].replyId
        /\ sess[q].login => sess'[q].login
        /\ sess[q].login /\ sess[q].state # "DATA_FINISH" => sess'[q].isidle = sess[q].isidle
        /\ \/ sess'[q].state = sess[q].state
           \/ sess[q].state = "DATA_FINISH" /\ sess'[q].state = "IDLE"
  BY <1>0 DEF Calms
<1>3. AskInv'
  BY <1>0, <1>2 DEF DoneInv, AskInv
<1>4. SizeInv'
  <2> SUFFICES ASSUME state = "FILE_PHASE_5_REST_WAIT" PROVE SizeInv'
    BY <1>0 DEF SizeInv
  <2>1. /\ sess[Dst].state = "RELAY_226" => sess[Dst].cmdq # <<>>
        /\ \A i \in DOMAIN sess[Dst].cmdq : sess[Dst].cmdq[i].ev = "PHASE_5_DST_SIZE"
        /\ \/ \E q \in Side : ~sess[q].here \/ Stuck(sess[q])
           \/ sess[Dst].cmdq = <<>> => Top.dsize = remote[Top.id]
        /\ \A q \in Side : sess[q].here => sess[q].login
    BY DEF DoneInv, SizeInv, AskInv
  <2>2. \A q \in Side : ~sess[q].here \/ Stuck(sess[q]) => ~sess'[q].here \/ Stuck(sess'[q])
    BY <1>2, <2>1 DEF Stuck
  <2>3. \/ \E q \in Side : ~sess'[q].here \/ Stuck(sess'[q])
        \/ sess'[Dst].cmdq = <<>> => Top'.dsize = remote'[Top'.id]
    BY <1>0, <1>1, <1>2, <2>1, <2>2
  <2> QED
    BY <1>0, <1>2, <2>1, <2>3 DEF SizeInv, Stuck
<1>5. UnboundInv'
  BY <1>0, <1>2 DEF DoneInv, UnboundInv
<1>6. StoreInv'
  BY <1>0, <1>1, <1>2 DEF DoneInv, StoreInv
<1>7. SendInv'
  BY <1>0, <1>1, <1>2 DEF DoneInv, SendInv
<1>8. ArriveInv'
  BY <1>0, <1>1, <1>2 DEF DoneInv, ArriveInv
<1>9. FinishInv'
  BY <1>0, BusyFile DEF FinishInv
<1> QED
  BY <1>3, <1>4, <1>5, <1>6, <1>7, <1>8, <1>9 DEF DoneInv

\* All of them come after the privacy was told.
LEMMA BusyPrivate == Busy \subseteq Private
BY DEF Busy, Unbound, Sending, Transferring, Private

\* SIZE is answered with a size.
LEMMA SizeCode ==
  ASSUME SizesAnswered, NEW cmd, cmd.op = "SIZE", NEW code \in Codes(cmd)
  PROVE  code = "ok"
<1>1. CASE code = "ok"
  BY <1>1
<1>2. CASE <<"SIZE", code>> \in Refusals
  <2>1. <<"SIZE", code>> \in Refusal
    BY <1>2, QueueAssumption
  <2>2. code = "fail"
    BY <2>1 DEF Refusal, Flag
  <2> QED
    BY <1>2, <2>2 DEF SizesAnswered
<1> QED
  BY <1>1, <1>2 DEF Codes, Key

\* What is of one event only is so without its first.
LEMMA TailEvents ==
  ASSUME NEW q \in Seq(Command), q # <<>>, NEW ev, \A i \in DOMAIN q : q[i].ev = ev
  PROVE  Head(q).ev = ev /\ \A i \in DOMAIN Tail(q) : Tail(q)[i].ev = ev
<1>1. /\ Tail(q) \in Seq(Command) /\ Len(Tail(q)) = Len(q) - 1 /\ Len(q) \in Nat \ {0}
      /\ Head(q) = q[1] /\ \A i \in 1 .. Len(Tail(q)) : Tail(q)[i] = q[i + 1]
  BY HeadTailProperties
<1>2. DOMAIN Tail(q) = 1 .. Len(q) - 1 /\ DOMAIN q = 1 .. Len(q)
  BY <1>1
<1>3. \A i \in DOMAIN Tail(q) : i + 1 \in DOMAIN q
  BY <1>1, <1>2
<1> QED
  BY <1>1, <1>2, <1>3

\* The only command is the last.
LEMMA OnlyOne ==
  ASSUME NEW x, NEW q, q \in {<<>>, <<x>>}, q # <<>>
  PROVE  Tail(q) = <<>>
<1>1. q = <<x>>
  OBVIOUS
<1>2. Len(<<x>>) = 1 /\ Tail(<<x>>) = <<>>
  OBVIOUS
<1> QED
  BY <1>1, <1>2, Zenon

\* A reply counts for what DoneInv says of it.
LEMMA TakesDone ==
  ASSUME SizesAnswered, ExactCodes, IInv, FlightInv, FilesInv, DoneInv, state \in Busy,
         NEW p \in Side, SessionEvent(p), NEW cmd, NEW code, Takes(p, cmd, code)
  PROVE  DoneInv'
<1>0. /\ src \in Side /\ Dst \in Side /\ Dst # src /\ \A q \in Side : q \in {src, Dst}
      /\ UNCHANGED <<state, src, Dst>> /\ loop = "poll"
      /\ \A q \in Side \ {p} : sess'[q] = sess[q]
      /\ state \in FileState
  BY EventSides
<1>n. code # "near"
  BY ExactCode DEF Takes, Answers
<1>1. /\ Top'.id = Top.id
      /\ Top'.dsize = IF cmd.ev = "PHASE_5_DST_SIZE" /\ code = "ok" THEN remote[Top.id]
                      ELSE Top.dsize
      /\ Top.sfail => Top'.sfail
      /\ Top'.sxfer = IF cmd.ev = "PHASE_10_STOR" /\ code = "ok" THEN Bump(Top.sxfer)
                      ELSE Top.sxfer
      /\ Top \in Item
  BY <1>0, <1>n, TakesTop
<1>2. /\ sess[p].here /\ sess'[p].here
      /\ sess'[p].replyId = sess[p].replyId /\ sess'[p].login = sess[p].login
      /\ cmd.op \notin {"STOR", "RETR", "LIST"} => sess'[p].state = sess[p].state
  BY <1>0, TakesKeeps
<1>3. Answers(p, cmd, code) /\ code \in Codes(cmd) /\ ~sess[p].isidle
  BY DEF Takes, Answers
<1>4. /\ cmd \in Asked(state, p) /\ sess[p].cmdq # <<>> /\ cmd = Head(sess[p].cmdq)
      /\ sess'[p].cmdq = Tail(sess[p].cmdq)
  BY <1>0, <1>3, BusyPrivate, PrivateAnswered
<1>5. /\ wire' = IF cmd.op = "RETR" /\ code = "ok" THEN [wire EXCEPT !.got = "flow"] ELSE wire
      /\ remote' = Truncated(Digest(sess[p], cmd, code), cmd, code)
  BY DEF Takes
<1>6. cmd.op # "STOR" => remote' = remote
  BY <1>5 DEF Truncated
<1>f. FinishInv'
  BY <1>0, BusyFile DEF FinishInv
<1>7. CASE state \in {"FILE_PHASE_5_REST_WAIT", "FILE_PHASE_6_START"}
  <2>1. cmd.op = "SIZE" /\ code = "ok"
    <3>1. cmd \in Named({"PHASE_5_SRC_SIZE", "PHASE_5_DST_SIZE"}, {"SIZE"})
      BY <1>4, <1>7, AskedIs
    <3> QED
      BY <1>3, <3>1, SizeCode DEF Named
  <2>2. sess'[p].state = sess[p].state /\ remote' = remote
    BY <1>2, <1>6, <2>1
  <2>3. \A q \in Side : sess[q].here =>
          sess[q].login /\ (sess[q].state = "RELAY_226" => sess[q].isidle)
    BY <1>7 DEF DoneInv, AskInv
  <2>4. sess'[p].state # "RELAY_226" /\ sess'[p].login
    BY <1>2, <1>3, <2>2, <2>3
  <2>5. AskInv'
    <3>1. \A q \in Side : sess'[q].here =>
            sess'[q].login /\ (sess'[q].state = "RELAY_226" => sess'[q].isidle)
      BY <1>0, <2>3, <2>4
    <3>2. sess'[src].state = "RELAY_226" => sess'[src].cmdq # <<>>
      BY <1>0, <1>7, <2>4 DEF DoneInv, AskInv
    <3> QED
      BY <1>0, <3>1, <3>2 DEF AskInv
  <2>6. SizeInv'
    <3> SUFFICES ASSUME state = "FILE_PHASE_5_REST_WAIT" PROVE SizeInv'
      BY <1>0 DEF SizeInv
    <3>1. /\ sess[Dst].state = "RELAY_226" => sess[Dst].cmdq # <<>>
          /\ \A i \in DOMAIN sess[Dst].cmdq : sess[Dst].cmdq[i].ev = "PHASE_5_DST_SIZE"
          /\ \/ \E q \in Side : ~sess[q].here \/ Stuck(sess[q])
             \/ sess[Dst].cmdq = <<>> => Top.dsize = remote[Top.id]
      BY DEF DoneInv, SizeInv
    <3>2. sess'[Dst].state = "RELAY_226" => sess'[Dst].cmdq # <<>>
      BY <1>0, <2>4, <3>1
    <3>3. \A i \in DOMAIN sess'[Dst].cmdq : sess'[Dst].cmdq[i].ev = "PHASE_5_DST_SIZE"
      <4>1. CASE p = Dst
        <5>1. sess[p].cmdq \in Seq(Command)
          BY DEF IInv, SessionInv, SessionRec
        <5> DEFINE q == sess[p].cmdq
        <5>2. \A i \in DOMAIN q : q[i].ev = "PHASE_5_DST_SIZE"
          BY <3>1, <4>1
        <5>3. \A i \in DOMAIN Tail(q) : Tail(q)[i].ev = "PHASE_5_DST_SIZE"
          <6> HIDE DEF q
          <6> QED
            BY <1>4, <5>1, <5>2, TailEvents DEF q
        <5>4. sess'[Dst].cmdq = Tail(q)
          BY <1>4, <4>1
        <5> HIDE DEF q
        <5> QED
          BY <5>3, <5>4
      <4>2. CASE p # Dst
        BY <1>0, <3>1, <4>2
      <4> QED
        BY <4>1, <4>2
    <3>4. \/ \E q \in Side : ~sess'[q].here \/ Stuck(sess'[q])
          \/ sess'[Dst].cmdq = <<>> => Top'.dsize = remote'[Top'.id]
      <4>1. CASE p = Dst
        <5>1. sess[p].cmdq \in Seq(Command)
          BY DEF IInv, SessionInv, SessionRec
        <5>2. cmd.ev = "PHASE_5_DST_SIZE"
          BY <1>4, <3>1, <4>1, <5>1, TailEvents
        <5> QED
          BY <1>1, <2>1, <2>2, <5>2
      <4>2. CASE p # Dst
        <5>1. sess'[Dst] = sess[Dst]
          BY <1>0, <4>2
        <5>2. CASE \E q \in Side : ~sess[q].here \/ Stuck(sess[q])
          <6>1. ~(~sess[p].here \/ Stuck(sess[p]))
            BY <1>2, <1>3 DEF Stuck
          <6>2. PICK q \in Side : ~sess[q].here \/ Stuck(sess[q])
            BY <5>2
          <6>3. sess'[q] = sess[q]
            BY <1>0, <6>1, <6>2
          <6> QED
            BY <6>2, <6>3
        <5>3. CASE sess[Dst].cmdq = <<>> => Top.dsize = remote[Top.id]
          BY <1>1, <2>1, <2>2, <5>1, <5>3
        <5> QED
          BY <3>1, <5>2, <5>3
      <4> QED
        BY <4>1, <4>2
    <3> QED
      BY <1>0, <3>2, <3>3, <3>4 DEF SizeInv, Stuck
  <2> QED
    BY <1>0, <1>7, <1>f, <2>5, <2>6 DEF DoneInv, UnboundInv, Unbound, StoreInv, SendInv, ArriveInv,
       Sending, Transferring
<1>8. CASE state \in Unbound \ {"FILE_PHASE_10_WAIT", "FILE_PHASE_11_START"}
  <2>1. cmd.op \notin {"STOR", "RETR", "LIST"}
    <3>1. CASE state \in Calm
      BY <1>4, <3>1, AskedIs
    <3>2. CASE state \in {"FILE_PHASE_9_REST", "FILE_PHASE_10_START"}
      BY <1>4, <3>2, AskedIs DEF Flags
    <3>3. CASE state \in {"FILE_PHASE_7_START", "FILE_PHASE_7_WAIT", "FILE_PHASE_8_WAIT"}
      BY <1>4, <3>3, AskedIs DEF Named
    <3> QED
      BY <1>8, <3>1, <3>2, <3>3 DEF Unbound, Calm
  <2>2. sess'[src].state = sess[src].state
    BY <1>0, <1>2, <2>1
  <2>3. UnboundInv'
    BY <1>0, <2>2 DEF DoneInv, UnboundInv
  <2> QED
    BY <1>0, <1>8, <1>f, <2>3 DEF DoneInv, AskInv, SizeInv, Unbound, StoreInv, SendInv, ArriveInv,
       Sending, Transferring
<1>9. CASE state = "FILE_PHASE_10_WAIT"
  <2>1. /\ sess[src].cmdq = <<>> /\ wire.got \in {"wait", "cut"}
        /\ sess[Dst].cmdq \in {<<>>, <<Cmd("STOR", "PHASE_10_STOR")>>}
        /\ Uncounted
        /\ Unstarted \/ sess[Dst].cmdq = <<>>
        /\ sess[src].state # "RELAY_226"
        /\ sess[Dst].replyId \in {"none", "PHASE_12_DST_226"}
    BY <1>9 DEF DoneInv, StoreInv, UnboundInv, Unbound, ArriveInv, Sending
  <2>2. p = Dst /\ sess'[src] = sess[src]
    BY <1>0, <1>4, <2>1
  <2>3. sess'[Dst].cmdq = <<>>
    BY <1>4, <2>1, <2>2, OnlyOne
  <2>4. cmd.op = "STOR"
    BY <1>4, <1>9, AskedIs DEF Named
  <2>5. wire' = wire
    BY <1>5, <2>4
  <2>6. Uncounted'
    <3>1. Unstarted
      BY <1>4, <2>1, <2>2
    <3> QED
      BY <1>1, <3>1 DEF Uncounted, Unstarted, Bump, Item
  <2>7. StoreInv'
    BY <1>0, <1>9, <2>1, <2>2, <2>3, <2>5, <2>6 DEF StoreInv
  <2>8. UnboundInv'
    BY <1>0, <2>1, <2>2 DEF UnboundInv
  <2>9. ArriveInv'
    BY <1>0, <1>2, <2>1, <2>2, <2>5 DEF ArriveInv
  <2> QED
    BY <1>0, <1>9, <1>f, <2>7, <2>8, <2>9 DEF DoneInv, AskInv, SizeInv, SendInv
<1>10. CASE state = "FILE_PHASE_11_WAIT"
  <2>1. /\ sess[src].cmdq \in {<<>>, <<Cmd("RETR", "PHASE_11_RETR")>>}
        /\ sess[Dst].cmdq = <<>>
        /\ sess[src].cmdq # <<>> => sess[src].state # "RELAY_226" /\ Uncounted
        /\ sess[Dst].replyId \in {"none", "PHASE_12_DST_226"}
        /\ wire.got = "all" => remote[wire.to] = "full"
    BY <1>10 DEF DoneInv, SendInv, ArriveInv, Sending, Transferring
  <2>2. p = src /\ sess'[Dst] = sess[Dst]
    BY <1>0, <1>4, <2>1
  <2>3. sess'[src].cmdq = <<>>
    BY <1>4, <2>1, <2>2, OnlyOne
  <2>4. cmd.op = "RETR" /\ cmd.ev = "PHASE_11_RETR"
    BY <1>4, <1>10, AskedIs DEF Named
  <2>5. remote' = remote /\ Uncounted'
    BY <1>1, <1>4, <1>6, <2>1, <2>2, <2>4 DEF Uncounted
  <2>6. wire' = wire \/ wire'.got = "flow"
    BY <1>5 DEF IInv, WorldInv
  <2>7. SendInv'
    BY <1>0, <1>10, <2>1, <2>2, <2>3, <2>5 DEF SendInv
  <2>8. ArriveInv'
    <3>1. sess'[Dst].replyId \in {"none", "PHASE_12_DST_226"}
      BY <2>1, <2>2
    <3>2. wire'.got = "all" => remote'[wire'.to] = "full"
      BY <2>1, <2>5, <2>6
    <3> QED
      BY <1>0, <3>1, <3>2 DEF ArriveInv
  <2> QED
    BY <1>0, <1>10, <1>f, <2>7, <2>8 DEF DoneInv, AskInv, SizeInv, StoreInv, UnboundInv, Unbound
<1>11. CASE state \in {"FILE_PHASE_11_START", "FILE_PHASE_12_START"}
  BY <1>4, <1>11, AskedIs DEF Calm
<1> QED
  BY <1>7, <1>8, <1>9, <1>10, <1>11 DEF Busy, Sending, Transferring

\* A transfer of a session ends.
LEMMA EndsDone ==
  ASSUME IInv, FilesInv, PlaceInv, DoneInv, state \in Busy,
         NEW p \in Side, SessionEvent(p), NEW code, NEW got, Ends(p, code, got)
  PROVE  DoneInv'
<1>0. /\ src \in Side /\ Dst \in Side /\ Dst # src /\ \A q \in Side : q \in {src, Dst}
      /\ UNCHANGED <<state, src, Dst>> /\ loop = "poll"
      /\ \A q \in Side \ {p} : sess'[q] = sess[q]
      /\ state \in FileState
  BY EventSides
<1>1. /\ Top'.id = Top.id /\ Top'.dsize = Top.dsize
      /\ Uncounted => Uncounted' \/ got = "all"
      /\ sess[p].replyId # "PHASE_12_SRC_226" =>
           (Uncounted => Uncounted') /\ (Unstarted => Unstarted')
  BY <1>0, EndsTop
<1>2. /\ sess[p].here /\ sess'[p].here
      /\ sess[p].state = "RELAY_226" /\ sess'[p].state = "IDLE"
      /\ sess'[p].replyId = "none" /\ sess'[p].cmdq = sess[p].cmdq
      /\ sess'[p].login = sess[p].login /\ sess'[p].isidle = sess[p].isidle
  BY EndsSession
<1>3. wire'.to = wire.to /\ wire'.got = got
  BY DEF Ends, IInv, WorldInv
<1>f. FinishInv'
  BY <1>0, BusyFile DEF FinishInv
<1>4. CASE state \in {"FILE_PHASE_5_REST_WAIT", "FILE_PHASE_6_START"}
  <2>1. /\ \A q \in Side : sess[q].here =>
             sess[q].login /\ (sess[q].state = "RELAY_226" => sess[q].isidle)
        /\ sess[src].state = "RELAY_226" => sess[src].cmdq # <<>>
    BY <1>4 DEF DoneInv, AskInv
  <2>2. AskInv'
    <3>1. \A q \in Side : sess'[q].here =>
            sess'[q].login /\ (sess'[q].state = "RELAY_226" => sess'[q].isidle)
      BY <1>0, <1>2, <2>1
    <3>2. sess'[src].state = "RELAY_226" => sess'[src].cmdq # <<>>
      BY <1>0, <1>2, <2>1
    <3> QED
      BY <1>0, <3>1, <3>2 DEF AskInv
  <2>3. SizeInv'
    <3> SUFFICES ASSUME state = "FILE_PHASE_5_REST_WAIT" PROVE SizeInv'
      BY <1>0 DEF SizeInv
    <3>1. /\ sess[Dst].state = "RELAY_226" => sess[Dst].cmdq # <<>>
          /\ \A i \in DOMAIN sess[Dst].cmdq : sess[Dst].cmdq[i].ev = "PHASE_5_DST_SIZE"
      BY DEF DoneInv, SizeInv
    <3>2. sess'[Dst].state = "RELAY_226" => sess'[Dst].cmdq # <<>>
      BY <1>0, <1>2, <3>1
    <3>3. \A i \in DOMAIN sess'[Dst].cmdq : sess'[Dst].cmdq[i].ev = "PHASE_5_DST_SIZE"
      BY <1>0, <1>2, <3>1
    <3>4. Stuck(sess'[p])
      BY <1>0, <1>2, <2>1, <3>1 DEF Stuck
    <3> QED
      BY <1>0, <3>2, <3>3, <3>4 DEF SizeInv, Stuck
  <2> QED
    BY <1>0, <1>4, <1>f, <2>2, <2>3 DEF DoneInv, UnboundInv, Unbound, StoreInv, SendInv, ArriveInv,
       Sending, Transferring
<1>u. UnboundInv'
  BY <1>0, <1>2 DEF DoneInv, UnboundInv
<1>5. CASE state \in Unbound \ ({"FILE_PHASE_10_WAIT"} \cup Transferring)
  BY <1>0, <1>5, <1>f, <1>u DEF DoneInv, AskInv, SizeInv, Unbound, StoreInv, SendInv, ArriveInv,
     Sending, Transferring
<1>6. CASE state \in Sending
  <2>1. /\ sess[Dst].replyId \in {"none", "PHASE_12_DST_226"}
        /\ wire.got = "all" => remote[wire.to] = "full"
    BY <1>6 DEF DoneInv, ArriveInv
  <2>2. p = Dst => (Uncounted => Uncounted') /\ (Unstarted => Unstarted') /\ sess'[src] = sess[src]
    BY <1>0, <1>1, <2>1
  <2>3. p # Dst => p = src /\ sess'[Dst] = sess[Dst]
    BY <1>0
  <2>4. /\ wire.got = "all" => got = "all"
        /\ wire.got \in {"wait", "cut"} => got = "cut"
    BY DEF Ends
  <2>5. ArriveInv'
    <3>1. sess'[Dst].replyId \in {"none", "PHASE_12_DST_226"}
      BY <1>2, <2>1, <2>3
    <3>2. wire.to \in ItemId /\ wire.to # 0 /\ remote \in [ItemId -> Size]
      <4>1. Top \in Item
        BY <1>0, FileTop
      <4>2. wire.to = Top.id
        BY <1>6 DEF PlaceInv, Sending
      <4> QED
        BY <4>1, <4>2 DEF Item, ItemId, IInv, WorldInv
    <3>3. ASSUME got = "all" PROVE remote'[wire.to] = "full"
      <4>1. CASE got = wire.got
        BY <2>1, <3>3, <4>1 DEF Ends
      <4>2. CASE got # wire.got
        <5>1. remote' = [remote EXCEPT ![wire.to] = "full"]
          BY <3>2, <3>3, <4>2 DEF Ends
        <5> QED
          BY <3>2, <5>1
      <4> QED
        BY <4>1, <4>2
    <3> QED
      BY <1>0, <1>3, <3>1, <3>3 DEF ArriveInv
  <2>6. CASE state \in {"FILE_PHASE_10_WAIT", "FILE_PHASE_11_START"}
    <3>1. p = Dst /\ sess'[src] = sess[src]
      BY <1>2, <2>2, <2>3, <2>6 DEF DoneInv, UnboundInv, Unbound
    <3>2. StoreInv'
      BY <1>0, <1>2, <1>3, <2>2, <2>4, <2>6, <3>1 DEF DoneInv, StoreInv
    <3> QED
      BY <1>0, <1>f, <1>u, <2>5, <2>6, <3>2 DEF DoneInv, AskInv, SizeInv, SendInv
  <2>7. CASE state \in {"FILE_PHASE_11_WAIT", "FILE_PHASE_12_START"}
    <3>1. sess[src].cmdq # <<>> /\ state = "FILE_PHASE_11_WAIT" => p = Dst
      BY <1>2, <2>3 DEF DoneInv, SendInv
    <3>2. sess'[src].state = "RELAY_226" => p = Dst /\ Uncounted
      BY <1>0, <1>2, <2>2, <2>3, <2>7 DEF DoneInv, SendInv
    <3>3. Uncounted' \/ wire'.got = "all"
      BY <1>1, <1>3, <2>4, <2>7 DEF DoneInv, SendInv
    <3>4. sess'[src].cmdq = sess[src].cmdq /\ sess'[Dst].cmdq = sess[Dst].cmdq
      BY <1>0, <1>2
    <3>5. sess[src].cmdq # <<>> /\ state = "FILE_PHASE_11_WAIT" =>
            sess'[src].state # "RELAY_226" /\ Uncounted'
      BY <2>2, <3>1 DEF DoneInv, SendInv
    <3>6. SendInv'
      BY <1>0, <2>2, <2>7, <3>2, <3>3, <3>4, <3>5 DEF DoneInv, SendInv
    <3> QED
      BY <1>0, <1>f, <1>u, <2>5, <2>7, <3>6 DEF DoneInv, AskInv, SizeInv, StoreInv
  <2> QED
    BY <1>6, <2>6, <2>7 DEF Sending, Transferring
<1> QED
  BY <1>4, <1>5, <1>6 DEF Busy, Sending

\* An event of a session.
LEMMA EventDone ==
  ASSUME SizesAnswered, ExactCodes, IInv, FlightInv, FilesInv, PlaceInv, DoneInv,
         NEW p \in Side, SessionEvent(p)
  PROVE  DoneInv'
<1>0. UNCHANGED <<state, src>> /\ loop = "poll" /\ \A q \in Side \ {p} : sess'[q] = sess[q]
  BY EventIs
<1>1. CASE state \notin Busy
  <2>1. state # "REMOVE_ITEM"
    BY <1>0 DEF DoneInv, FinishInv
  <2> QED
    BY <1>0, <1>1, <2>1, DoneElsewhere
<1>2. CASE state \in Busy
  <2>1. CASE Gone(p)
    <3>1. /\ Top' = Top /\ UNCHANGED <<remote, wire>>
          /\ \A q \in Side : sess'[q] \in {NoSession, sess[q]}
      BY <1>0, <2>1 DEF Gone, Top
    <3>2. src \in Side /\ Dst \in Side /\ state # "REMOVE_ITEM"
      BY <1>2, EventSides, BusyFile
    <3> QED
      BY <1>0, <3>1, <3>2, DoneLeft
  <2>2. CASE Calms(p)
    BY <1>2, <2>2, CalmDone
  <2>3. CASE \E cmd, code : Takes(p, cmd, code)
    BY <1>2, <2>3, TakesDone
  <2>4. CASE \E code, got : Ends(p, code, got)
    BY <1>2, <2>4, EndsDone
  <2> QED
    BY <2>1, <2>2, <2>3, <2>4, EventEither
<1> QED
  BY <1>1, <1>2

-----------------------------------------------------------------------------
(* queue_process keeps DoneInv. *)

\* A session that is idle is given a command: it is sent unless the session is
\* still in a transfer.
LEMMA IdleAsked ==
  ASSUME NEW s \in SessionRec, IsIdle(s), NEW cmd \in Command, NEW r, r = CmdqNew(s, cmd)
  PROVE  /\ r.here /\ r.login /\ r.state = s.state /\ r.cmdq = <<cmd>> /\ r.replyId = s.replyId
         /\ r.state = "RELAY_226" => r.isidle
<1> DEFINE t == [s EXCEPT !.cmdq = Append(@, cmd)]
<1>1. s.here /\ s.login /\ s.cmdq = <<>> /\ s.isidle
  BY DEF IsIdle
<1>2. Append(s.cmdq, cmd) = <<cmd>>
  BY <1>1
<1>3. /\ t.here /\ t.login /\ t.state = s.state /\ t.cmdq = <<cmd>> /\ t.isidle
      /\ t.replyId = s.replyId
  BY <1>1, <1>2 DEF SessionRec
<1>4. t \in SessionRec
  <2>1. Append(s.cmdq, cmd) \in Seq(Command)
    BY DEF SessionRec
  <2> QED
    BY <2>1 DEF SessionRec
<1>5. r = Restart(t)
  BY <1>1 DEF CmdqNew
<1> HIDE DEF t
<1>6. /\ Restart(t).here = t.here /\ Restart(t).login = t.login /\ Restart(t).state = t.state
      /\ Restart(t).cmdq = t.cmdq /\ Restart(t).replyId = t.replyId
      /\ t.state = "RELAY_226" => Restart(t).isidle = t.isidle
  BY <1>4 DEF Restart, ForceBusy, SessionRec
<1> QED
  BY <1>3, <1>5, <1>6

\* Of the later phases, what comes to each.
LEMMA LaterTo ==
  ASSUME Later
  PROVE  /\ state' = "FILE_PHASE_5_REST_WAIT" => Phase5Start
         /\ state' = "FILE_PHASE_6_START" => Phase5Start \/ Phase5RestWait
         /\ state' \in Unbound => state \in Unbound \/ Phase6Start
         /\ state' = "REMOVE_ITEM" => Phase5RestWait \/ Phase12Start
<1>1. CASE Phase3Wait \/ Phase4Start \/ Phase5Start \/ Phase5RestWait
  BY <1>1 DEF Phase3Wait, Phase4Start, Phase5Start, Phase5RestWait, Unbound
<1>2. CASE Phase6Start \/ Phase7Start \/ Phase7Wait \/ Phase8Start
  BY <1>2, InState DEF Phase6Start, Phase7Start, Phase7Wait, Phase8Start, Unbound
<1>3. CASE Phase8Wait \/ Phase9Start \/ Phase9Rest \/ Phase10Start
  BY <1>3, InState DEF Phase8Wait, Phase9Start, Phase9Rest, Phase10Start, Unbound
<1>4. CASE Phase10Wait \/ Phase11Start \/ Phase11Wait \/ Phase12Start
  BY <1>4, InState DEF Phase10Wait, Phase11Start, Phase11Wait, Phase12Start, Unbound
<1> QED
  BY <1>1, <1>2, <1>3, <1>4, Zenon DEF Later

\* The sizes are asked for.
LEMMA Phase5Done ==
  ASSUME IInv, Phase5Start
  PROVE  DoneInv'
<1> DEFINE a == Cmd("SIZE", "PHASE_5_SRC_SIZE")
           b == Cmd("SIZE", "PHASE_5_DST_SIZE")
           asks == ~Top.over /\ DstSite.resume # "NO"
           s1 == [sess EXCEPT ![src] = CmdqNew(@, a)]
           ss == IF asks THEN [s1 EXCEPT ![Dst] = CmdqNew(@, b)] ELSE s1
<1>1. /\ In("FILE_PHASE_5_START") /\ BothIdle /\ Sleep(ss) /\ src' = src
      /\ state' = IF asks THEN "FILE_PHASE_5_REST_WAIT" ELSE "FILE_PHASE_6_START"
  BY DEF Phase5Start
<1>2. /\ src \in Side /\ Dst \in Side /\ Dst # src /\ \A p \in Side : p \in {src, Dst}
      /\ sess \in [Side -> SessionRec]
  BY <1>1, TwoSides DEF FileState
<1>3. /\ a \in Command /\ b \in Command /\ b.ev = "PHASE_5_DST_SIZE"
      /\ <<a>> # <<>> /\ <<b>> # <<>>
  <2>1. /\ {"PHASE_5_SRC_SIZE", "PHASE_5_DST_SIZE"} \subseteq Event
        /\ "SIZE" \in Op \ {"ON", "OFF", "CWD", "MKD"}
    BY DEF Op, Event
  <2>2. a \in Command /\ b \in Command
    BY <2>1, CmdType
  <2>3. b.ev = "PHASE_5_DST_SIZE"
    BY DEF Cmd
  <2> QED
    BY <2>2, <2>3
<1>4. ss[src] = CmdqNew(sess[src], a) /\ ss[Dst] = IF asks THEN CmdqNew(sess[Dst], b) ELSE sess[Dst]
  BY <1>2
<1>5. \A p \in Side : sess'[p] \in {NoSession, ss[p]}
  BY <1>1, Leaves
<1>6. \A p \in Side : IsIdle(sess[p]) /\ sess[p] \in SessionRec
  BY <1>1, <1>2 DEF BothIdle
<1> HIDE DEF a, b, ss, s1, asks
<1>7. /\ ss[src].here /\ ss[src].login /\ ss[src].state = "RELAY_226" => ss[src].isidle
      /\ ss[src].login /\ ss[src].cmdq = <<a>>
  BY <1>2, <1>3, <1>4, <1>6, IdleAsked
<1>8. /\ ss[Dst].login /\ (ss[Dst].state = "RELAY_226" => ss[Dst].isidle)
      /\ asks => ss[Dst].cmdq = <<b>>
  <2>1. CASE asks
    BY <1>2, <1>3, <1>4, <1>6, <2>1, IdleAsked
  <2>2. CASE ~asks
    BY <1>2, <1>4, <1>6, <2>2 DEF IsIdle
  <2> QED
    BY <2>1, <2>2
<1>9. ss[src].state = "RELAY_226" => ss[src].isidle
  BY <1>2, <1>3, <1>4, <1>6, IdleAsked
<1>10. AskInv'
  <2>1. \A p \in Side : sess'[p].here =>
          sess'[p].login /\ (sess'[p].state = "RELAY_226" => sess'[p].isidle)
    BY <1>2, <1>5, <1>7, <1>8, <1>9, NoSessionIs
  <2>2. sess'[src].state = "RELAY_226" => sess'[src].cmdq # <<>>
    BY <1>2, <1>5, <1>7, NoSessionIs
  <2> QED
    BY <1>1, <2>1, <2>2 DEF AskInv
<1>11. SizeInv'
  <2> SUFFICES ASSUME state' = "FILE_PHASE_5_REST_WAIT" PROVE SizeInv'
    BY DEF SizeInv
  <2>1. ss[Dst].cmdq = <<b>> /\ Dst' = Dst
    BY <1>1, <1>8 DEF Dst
  <2>2. \/ sess'[Dst].cmdq = <<b>>
        \/ sess'[Dst].cmdq = <<>> /\ ~sess'[Dst].here /\ sess'[Dst].state = "IDLE"
    BY <1>2, <1>5, <2>1, NoSessionIs
  <2>3. \A i \in DOMAIN sess'[Dst].cmdq : sess'[Dst].cmdq[i].ev = "PHASE_5_DST_SIZE"
    BY <1>3, <2>2
  <2>4. sess'[Dst].state = "RELAY_226" => sess'[Dst].cmdq # <<>>
    BY <1>3, <2>2
  <2>5. ~sess'[Dst].here \/ sess'[Dst].cmdq # <<>>
    BY <2>2
  <2> QED
    BY <1>2, <2>1, <2>3, <2>4, <2>5 DEF SizeInv
<1> QED
  BY <1>1, <1>10, <1>11 DEF DoneInv, UnboundInv, Unbound, StoreInv, SendInv, ArriveInv, Sending,
     Transferring, FinishInv

\* The sizes are known: the transfer goes on, or the file is there.
LEMMA Phase5RestDone ==
  ASSUME IInv, DoneInv, Phase5RestWait
  PROVE  DoneInv'
<1>1. /\ state = "FILE_PHASE_5_REST_WAIT" /\ BothIdle /\ Again(sess) /\ UNCHANGED <<src, remote>>
      /\ state' \in {"REQUEUE_ITEM", "FILE_PHASE_6_START", "REMOVE_ITEM"}
      /\ state' = "REMOVE_ITEM" => Complete /\ UNCHANGED items
  BY InState DEF Phase5RestWait, worldVars
<1>2. /\ src \in Side /\ Dst \in Side
  BY TwoSides DEF Phase5RestWait, FileState
<1>3. \A p \in Side : IsIdle(sess[p])
  BY <1>1 DEF BothIdle
<1>4. sess' = sess /\ loop' = "run"
  BY <1>1 DEF Again
<1>5. AskInv'
  BY <1>1, <1>2, <1>3, <1>4 DEF DoneInv, AskInv, IsIdle
<1>6. FinishInv'
  <2> SUFFICES ASSUME state' = "REMOVE_ITEM" PROVE FinishInv'
    BY DEF FinishInv
  <2>1. Top.dsize = "full" /\ Top' = Top
    BY <1>1 DEF Complete, Top
  <2>2. Top.dsize = remote[Top.id]
    BY <1>1, <1>2, <1>3 DEF DoneInv, SizeInv, IsIdle, Stuck
  <2> QED
    BY <1>1, <1>4, <2>1, <2>2 DEF FinishInv
<1> QED
  BY <1>1, <1>5, <1>6 DEF DoneInv, SizeInv, UnboundInv, Unbound, StoreInv, SendInv, ArriveInv,
     Sending, Transferring

\* STOR is told.
LEMMA Phase10Done ==
  ASSUME IInv, FlightInv, DoneInv, Phase10Start, state' = "FILE_PHASE_10_WAIT"
  PROVE  StoreInv' /\ ArriveInv'
<1> DEFINE stor == Cmd("STOR", "PHASE_10_STOR")
           t == [sess[Dst] EXCEPT !.replyId = "PHASE_12_DST_226"]
           x == [Top EXCEPT !.sxfer = 0, !.dxfer = 0]
           ss == [sess EXCEPT ![Dst] = Stor(@)]
<1>1. /\ In("FILE_PHASE_10_START") /\ BothIdle /\ Sleep(ss) /\ src' = src
      /\ items' = SetTop(x) /\ wire'.got = "wait"
  BY DEF Phase10Start
<1>2. /\ src \in Side /\ Dst \in Side /\ Dst # src /\ sess \in [Side -> SessionRec] /\ Dst' = Dst
  BY <1>1, TwoSides DEF FileState, Dst
<1>3. \A p \in Side : IsIdle(sess[p])
  BY <1>1 DEF BothIdle
<1>4. ss[Dst] = CmdqNew(t, stor) /\ ss[src] = sess[src]
  BY <1>2 DEF Stor
<1>5. \A p \in Side : sess'[p] \in {NoSession, ss[p]}
  BY <1>1, Leaves
<1>6. stor \in Command
  BY CmdType DEF Op, Event
<1>7. t \in SessionRec /\ IsIdle(t) /\ t.replyId = "PHASE_12_DST_226"
  <2>1. "PHASE_12_DST_226" \in ReplyId
    BY DEF ReplyId
  <2> QED
    BY <1>2, <1>3, <2>1 DEF SessionRec, IsIdle
<1>8. Top' = x /\ x.sxfer = 0
  <2>1. items # <<>> /\ Top \in Triable /\ Top \in Item
    BY <1>1, InPhase DEF IInv, FileState, Triable
  <2>2. x \in Triable
    BY <2>1, CountersType, Zenon
  <2>3. x.sxfer = 0
    BY <2>1 DEF Item
  <2>4. x \in Item
    BY <2>2 DEF Triable
  <2> HIDE DEF x
  <2> QED
    BY <1>1, <2>1, <2>3, <2>4, TopSet
<1> HIDE DEF t, stor, ss, x
<1>9. ss[Dst].cmdq = <<stor>> /\ ss[Dst].replyId = "PHASE_12_DST_226"
  BY <1>4, <1>6, <1>7, IdleAsked
<1>10. ss[src].cmdq = <<>>
  BY <1>2, <1>3, <1>4 DEF IsIdle
<1>11. Uncounted' /\ Unstarted'
  BY <1>8 DEF Uncounted, Unstarted
<1>12. /\ sess'[src].cmdq = <<>>
       /\ sess'[Dst].cmdq \in {<<>>, <<stor>>}
       /\ sess'[Dst].replyId \in {"none", "PHASE_12_DST_226"}
  BY <1>2, <1>5, <1>9, <1>10, NoSessionIs
<1>13. StoreInv'
  BY <1>1, <1>2, <1>11, <1>12 DEF StoreInv, stor
<1>14. ArriveInv'
  BY <1>1, <1>2, <1>12 DEF ArriveInv
<1> QED
  BY <1>13, <1>14

\* RETR is told.
LEMMA Phase11Done ==
  ASSUME IInv, FlightInv, DoneInv, Phase11Start
  PROVE  SendInv' /\ ArriveInv'
<1> DEFINE retr == Cmd("RETR", "PHASE_11_RETR")
           t == [sess[src] EXCEPT !.replyId = "PHASE_12_SRC_226"]
           ss == [sess EXCEPT ![src] = Retr(@)]
<1>1. /\ state = "FILE_PHASE_11_START" /\ BothIdle /\ Sleep(ss)
      /\ UNCHANGED <<src, items, wire, remote>> /\ state' = "FILE_PHASE_11_WAIT"
  BY InState DEF Phase11Start, listVars, worldVars
<1>2. /\ src \in Side /\ Dst \in Side /\ Dst # src /\ sess \in [Side -> SessionRec]
  BY TwoSides DEF FileState, Phase11Start
<1>3. \A p \in Side : IsIdle(sess[p])
  BY <1>1 DEF BothIdle
<1>4. ss[src] = CmdqNew(t, retr) /\ ss[Dst] = sess[Dst]
  BY <1>2 DEF Retr
<1>5. \A p \in Side : sess'[p] \in {NoSession, ss[p]}
  BY <1>1, Leaves
<1>6. retr \in Command
  BY CmdType DEF Op, Event
<1>7. t \in SessionRec /\ IsIdle(t) /\ t.state = sess[src].state
  <2>1. "PHASE_12_SRC_226" \in ReplyId
    BY DEF ReplyId
  <2> QED
    BY <1>2, <1>3, <2>1 DEF SessionRec, IsIdle
<1> HIDE DEF t, retr, ss
<1>8. ss[src].cmdq = <<retr>> /\ ss[src].state = sess[src].state
  BY <1>4, <1>6, <1>7, IdleAsked
<1>9. ss[Dst].cmdq = <<>>
  BY <1>2, <1>3, <1>4 DEF IsIdle
<1>10. Top' = Top /\ Dst' = Dst
  BY <1>1 DEF Top, Dst
<1>11. Uncounted' /\ sess[src].state # "RELAY_226"
  BY <1>1, <1>10 DEF DoneInv, StoreInv, UnboundInv, Unbound, Uncounted
<1>12. /\ sess'[src].cmdq \in {<<>>, <<retr>>} /\ sess'[src].state # "RELAY_226"
       /\ sess'[Dst].cmdq = <<>>
  BY <1>2, <1>5, <1>8, <1>9, <1>11, NoSessionIs
<1>13. SendInv'
  BY <1>1, <1>10, <1>11, <1>12 DEF SendInv, retr
<1>14. ArriveInv'
  <2>1. /\ sess[Dst].replyId \in {"none", "PHASE_12_DST_226"}
        /\ wire.got = "all" => remote[wire.to] = "full"
    BY <1>1 DEF DoneInv, ArriveInv, Sending, Transferring
  <2>2. sess'[Dst].replyId \in {"none", "PHASE_12_DST_226"}
    BY <1>2, <1>4, <1>5, <2>1, NoSessionIs
  <2> QED
    BY <1>1, <1>10, <2>1, <2>2 DEF ArriveInv
<1> QED
  BY <1>13, <1>14

\* STOR or RETR was accepted.
LEMMA AcceptedDone ==
  ASSUME IInv, DoneInv, Phase10Wait \/ Phase11Wait,
         state' \in {"FILE_PHASE_11_START", "FILE_PHASE_12_START"}
  PROVE  DoneInv'
<1>1. /\ state \in {"FILE_PHASE_10_WAIT", "FILE_PHASE_11_WAIT"}
      /\ UNCHANGED <<src, items, wire, remote, sess>>
      /\ state = "FILE_PHASE_10_WAIT" => state' = "FILE_PHASE_11_START"
      /\ state = "FILE_PHASE_11_WAIT" => state' = "FILE_PHASE_12_START"
      /\ BothIdle
  BY InState DEF Phase10Wait, Phase11Wait, listVars, worldVars, Again
<1>2. Top' = Top /\ Dst' = Dst
  BY <1>1 DEF Top, Dst
<1>3. Uncounted' = Uncounted
  BY <1>2 DEF Uncounted
<1>4. ArriveInv'
  BY <1>1, <1>2 DEF DoneInv, ArriveInv, Sending, Transferring
<1>5. CASE state = "FILE_PHASE_10_WAIT"
  <2>1. StoreInv' /\ UnboundInv'
    BY <1>1, <1>3, <1>5 DEF DoneInv, StoreInv, UnboundInv, Unbound
  <2> QED
    BY <1>1, <1>4, <1>5, <2>1 DEF DoneInv, AskInv, SizeInv, SendInv, FinishInv
<1>6. CASE state = "FILE_PHASE_11_WAIT"
  <2>1. SendInv'
    BY <1>1, <1>3, <1>6 DEF DoneInv, SendInv
  <2> QED
    BY <1>1, <1>4, <1>6, <2>1 DEF DoneInv, AskInv, SizeInv, StoreInv, UnboundInv, Unbound, FinishInv
<1> QED
  BY <1>1, <1>5, <1>6

\* The two sides have reported.
LEMMA Phase12Done ==
  ASSUME IInv, PlaceInv, DoneInv, Phase12Start, state' = "REMOVE_ITEM"
  PROVE  DoneInv'
<1>1. /\ state = "FILE_PHASE_12_START" /\ BothEnded /\ ~Failed /\ loop' = "run"
      /\ UNCHANGED <<items, remote>>
  BY InState DEF Phase12Start, listVars, worldVars, Again
<1>2. Top' = Top
  BY <1>1 DEF Top
<1>3. ~Uncounted
  BY <1>1 DEF BothEnded, Failed, Uncounted
<1>4. remote[wire.to] = "full" /\ wire.to = Top.id
  BY <1>1, <1>3 DEF DoneInv, SendInv, ArriveInv, PlaceInv, Sending, Transferring
<1>5. FinishInv'
  BY <1>1, <1>2, <1>4 DEF FinishInv
<1> QED
  BY <1>5, BusyFile DEF DoneInv, AskInv, SizeInv, UnboundInv, StoreInv, SendInv, ArriveInv

\* The later phases of a file.
LEMMA LaterDone ==
  ASSUME IInv, FlightInv, PlaceInv, DoneInv, Later
  PROVE  DoneInv'
<1>u. state' \in Unbound => UnboundInv'
  <2> SUFFICES ASSUME state' \in Unbound PROVE UnboundInv'
    OBVIOUS
  <2>1. sess[src].state # "RELAY_226"
    <3>1. CASE state \in Unbound
      BY <3>1 DEF DoneInv, UnboundInv
    <3>2. CASE Phase6Start
      <4>1. state = "FILE_PHASE_6_START" /\ BothIdle /\ src \in Side
        BY <3>2, InState, TwoSides DEF Phase6Start, FileState
      <4> QED
        BY <4>1 DEF DoneInv, AskInv, BothIdle, IsIdle
    <3> QED
      BY <3>1, <3>2, LaterTo
  <2>2. Told(state') /\ src' = src
    BY LaterTold, LaterIs
  <2>3. src \in Side
    <3>1. state \in FileState
      BY LaterIs, RestartStates DEF FileState
    <3> QED
      BY <3>1 DEF IInv, ListInv, HeadPresent
  <2> QED
    BY <2>1, <2>2, <2>3, NoSessionIs DEF Told, Kept, UnboundInv
<1>1. CASE state' \in {"FILE_PHASE_5_REST_WAIT", "FILE_PHASE_6_START"}
  BY <1>1, LaterTo, Phase5Done, Phase5RestDone
<1>2. CASE state' \in Unbound \ {"FILE_PHASE_10_WAIT", "FILE_PHASE_11_START"}
  BY <1>2, <1>u DEF DoneInv, AskInv, SizeInv, Unbound, StoreInv, SendInv, ArriveInv,
     Sending, Transferring, FinishInv
<1>3. CASE state' = "FILE_PHASE_10_WAIT"
  <2>1. StoreInv' /\ ArriveInv'
    BY <1>3, LaterFrom, Phase10Done
  <2>2. UnboundInv'
    BY <1>3, <1>u DEF Unbound
  <2> QED
    BY <1>3, <2>1, <2>2 DEF DoneInv, AskInv, SizeInv, SendInv, FinishInv
<1>4. CASE state' \in {"FILE_PHASE_11_START", "FILE_PHASE_12_START"}
  BY <1>4, LaterFrom, AcceptedDone
<1>5. CASE state' = "FILE_PHASE_11_WAIT"
  <2>1. SendInv' /\ ArriveInv'
    BY <1>5, LaterFrom, Phase11Done
  <2> QED
    BY <1>5, <2>1 DEF DoneInv, AskInv, SizeInv, StoreInv, UnboundInv, Unbound, FinishInv
<1>6. CASE state' = "REMOVE_ITEM"
  BY <1>6, LaterTo, Phase5RestDone, Phase12Done
<1>7. CASE state' \notin Busy \cup {"REMOVE_ITEM"}
  BY <1>7, DoneElsewhere
<1> QED
  BY <1>1, <1>2, <1>3, <1>4, <1>5, <1>6, <1>7 DEF Busy, Sending, Transferring

\* Only a STOP item is done with otherwise.
LEMMA NotLaterDone ==
  ASSUME IInv, Pass, ~Later, ~Waiting
  PROVE  DoneInv'
<1>1. state' \notin Busy
  BY NotLater, BusyPrivate
<1>2. FinishInv'
  <2> SUFFICES ASSUME state' = "REMOVE_ITEM" PROVE FinishInv'
    BY DEF FinishInv
  <2>1. Active
    <3>1. CASE FilePass
      <4>1. CASE FileStart \/ Phase1Start \/ Phase1Idle \/ Phase2Plain
        BY <4>1 DEF FileStart, Phase1Start, Phase1Idle, Phase2Plain
      <4>2. CASE Phase2Local \/ Phase2Client \/ Phase2Wait
        BY <4>2 DEF Phase2Local, Phase2Client, Phase2Wait
      <4>3. CASE Phase2Disable \/ Phase3Start
        BY <4>3 DEF Phase2Disable, Phase3Start
      <4> QED
        BY <3>1, <4>1, <4>2, <4>3, Zenon DEF FilePass, Later
    <3>2. CASE Idle
      BY <3>2, InState DEF Idle
    <3>3. CASE Start \/ IsConnected \/ StartNextItem \/ ActiveEnd \/ DirectoryPass
               \/ ItemFailed \/ RequeueItem \/ ErrorItem \/ RemoveItem \/ Empty
      BY <3>3 DEF Start, IsConnected, StartNextItem, ActiveEnd, DirectoryPass,
         DirectoryStart, DirectoryPhase1Idle, DirectoryPhase2Start, DirectoryPhase2Mkd,
         DirectoryPhase2Compare, ItemFailed, RequeueItem, ErrorItem, RemoveItem, Empty, NextItem
    <3> QED
      BY <3>1, <3>2, <3>3 DEF Pass
  <2>2. Top' = Top /\ loop' = "run"
    BY <2>1 DEF Active, listVars, Top, Again
  <2>3. Top.type = "STOP"
    <3>1. state = "ACTIVE"
      BY <2>1, InState DEF Active
    <3>2. Top.type \in ItemType
      BY <3>1, HeadAndTail DEF IInv, ListInv, HeadPresent, Charged, Triable, Item, Top
    <3> QED
      BY <2>1, <3>2 DEF Active, ItemType
  <2> QED
    BY <2>2, <2>3 DEF FinishInv
<1> QED
  BY <1>1, <1>2, BusyFile DEF DoneInv, AskInv, SizeInv, UnboundInv, StoreInv, SendInv, ArriveInv

\* Every call of queue_process.
LEMMA PassDone ==
  ASSUME IInv, FlightInv, PlaceInv, DoneInv, Pass
  PROVE  DoneInv'
<1>1. CASE Waiting
  <2>1. /\ UNCHANGED <<state, src, items, wire>>
        /\ \A p \in Side : sess'[p] \in {NoSession, sess[p]}
    BY <1>1, WaitingIs
  <2>2. UNCHANGED remote /\ state # "REMOVE_ITEM"
    BY <1>1 DEF Waiting, worldVars, Effective, Unhurried, LossBlind
  <2>3. Top' = Top
    BY <2>1 DEF Top
  <2>4. state \in Busy => src \in Side /\ Dst \in Side
    <3> SUFFICES ASSUME state \in Busy PROVE src \in Side /\ Dst \in Side
      OBVIOUS
    <3>1. state \in FileState
      BY BusyFile
    <3>2. src \in Side
      BY <3>1 DEF IInv, ListInv, HeadPresent
    <3> QED
      BY <3>2 DEF Dst, Other, Side
  <2> QED
    BY <2>1, <2>2, <2>3, <2>4, DoneLeft
<1> QED
  BY <1>1, LaterDone, NotLaterDone

\* A command of a user leaves a file at work as it is, or the queue leaves it.
LEMMA CommandDone ==
  ASSUME NoStops, IInv, DoneInv, Command2
  PROVE  DoneInv'
<1>0. loop = "poll"
  BY DEF Command2, Go, Stop, StopDrop, QAdd, QDel, QMove, UserCommand, Polling
<1>1. CASE state' \in FileState
  <2>1. UNCHANGED <<state, src, sess, wire, Top>>
    BY <1>1, CommandIs
  <2>2. UNCHANGED remote
    BY DEF Command2, Go, Stop, StopDrop, QAdd, QDel, QMove
  <2>3. src \in Side /\ Dst \in Side
    BY <1>1, <2>1 DEF IInv, ListInv, HeadPresent, Dst, Other, Side
  <2>4. state # "REMOVE_ITEM"
    BY <1>0 DEF DoneInv, FinishInv
  <2> QED
    BY <2>1, <2>2, <2>3, <2>4, DoneLeft
<1>2. CASE state' \notin FileState
  <2>1. state # "REMOVE_ITEM"
    BY <1>0 DEF DoneInv, FinishInv
  <2>2. state' # "REMOVE_ITEM"
    BY <2>1 DEF Command2, Go, Stop, StopDrop, QAdd, QDel, QMove, queueVars
  <2> QED
    BY <1>2, <2>2, BusyFile, DoneElsewhere
<1> QED
  BY <1>1, <1>2

\* A queue that was not started has none done.
LEMMA DoneInit ==
  ASSUME FilesOnly, Init
  PROVE  FilesInv /\ DoneInv
<1>1. state = "IDLE" /\ \A p \in Side : sess[p] = NewSession
  BY DEF Init
<1>2. FilesInv
  BY <1>1, ItemsInit, EndsNew DEF FilesInv, DirectoryState
<1>3. "IDLE" \notin Busy \cup {"REMOVE_ITEM"}
  BY BusyFile DEF FileState
<1>4. DoneInv
  BY <1>1, <1>3, BusyFile DEF DoneInv, AskInv, SizeInv, UnboundInv, StoreInv, SendInv, ArriveInv,
     FinishInv
<1> QED
  BY <1>2, <1>4

\* DoneInv is kept.
LEMMA DoneNext ==
  ASSUME NoStops, SizesAnswered, ExactCodes, IInv, FlightInv, FilesInv, PlaceInv, DoneInv,
         [Next]_vars
  PROVE  DoneInv'
<1>1. ASSUME NEW p \in Side, SessionEvent(p)
      PROVE  DoneInv'
  BY <1>1, EventDone
<1>2. CASE UNCHANGED vars
  <2>1. UNCHANGED <<state, src, Top, Dst, Uncounted, Unstarted, sess, loop, wire, remote>>
    <3>1. UNCHANGED <<state, src, sess, loop, items, wire, remote>>
      BY <1>2 DEF vars, queueVars, listVars, worldVars
    <3> QED
      BY <3>1 DEF Top, Dst, Uncounted, Unstarted
  <2> QED
    BY <2>1 DEF DoneInv, AskInv, SizeInv, UnboundInv, StoreInv, SendInv, ArriveInv, FinishInv
<1> QED
  BY <1>1, <1>2, PassDone, CommandDone DEF Next

\* Where files only are queued, no directory is refused with a 4xx, no SIZE is
\* refused and every 2xx is the one asked for, a file leaves the queue as done
\* only when all of it is at the destination: the source's own 226 is the second
\* that is counted for it, and EQUALSIZE goes by an answer of this try
\* (queue.c:1560-1680 and 2068-2110, handler.c:590-604 and 690-822).
THEOREM DoneAlwaysComplete ==
  ASSUME NoStops, NoSoft, ExactCodes, SizesAnswered, FilesOnly
  PROVE  Spec => []DoneIsComplete
<1>1. Init => FilesInv /\ PlaceInv /\ DoneInv /\ ExactInv
  BY PhaseInit, DoneInit
<1>2. IInv /\ IInv' /\ FlightInv /\ BeliefInv /\ FilesInv /\ PlaceInv /\ DoneInv
         /\ ExactInv /\ [Next]_vars
         => FilesInv' /\ PlaceInv' /\ DoneInv' /\ ExactInv'
  <2> SUFFICES ASSUME IInv, IInv', FlightInv, BeliefInv, FilesInv, PlaceInv, DoneInv,
                      ExactInv, [Next]_vars
               PROVE  FilesInv' /\ PlaceInv' /\ DoneInv' /\ ExactInv'
    OBVIOUS
  <2>1. FilesInv'
    BY FilesNext
  <2>2. PlaceInv'
    BY PlaceNext
  <2>3. DoneInv'
    BY DoneNext
  <2>4. ExactInv'
    BY ExactNext
  <2> QED
    BY <2>1, <2>2, <2>3, <2>4
<1>3. DoneInv => DoneIsComplete
  BY DEF DoneInv, FinishInv, DoneIsComplete
<1> QED
  BY <1>1, <1>2, <1>3, PhaseInvariance, PTL DEF Spec

-----------------------------------------------------------------------------
(* An order to stop. *)

\* A queue that is called again before the next poll has not gone to START with
\* an order to stop on it: only a user's GO does, and a directory.
StopInv == loop = "run" /\ stop => state # "START"

\* A call that gives up the order, and what is left of it after any other.
LEMMA PassStop ==
  ASSUME FilesInv, StopInv, Pass
  PROVE  /\ StopInv'
         /\ loop = "run" /\ stop /\ ~stop' => state' = "IDLE"
<1>1. CASE Start
  <2>1. state = "START"
    BY <1>1, InState DEF Start
  <2>2. ~stop'
    BY <1>1 DEF Start
  <2> QED
    BY <2>1, <2>2 DEF StopInv
<1>2. CASE Active
  <2>1. ~stop
    BY <1>2 DEF Active
  <2>2. stop' => Top.type = "STOP"
    BY <1>2 DEF Active
  <2>3. stop' => state' = "REMOVE_ITEM"
    BY <1>2, <2>2 DEF Active
  <2> QED
    BY <2>1, <2>3 DEF StopInv
<1>3. CASE Idle
  <2>1. state' = "IDLE" /\ loop' = "poll"
    <3>1. state = "IDLE"
      BY <1>3, InState DEF Idle
    <3> QED
      BY <1>3, <3>1 DEF Idle, Sleep
  <2> QED
    BY <2>1 DEF StopInv
<1>4. CASE RequeueItem \/ ErrorItem \/ RemoveItem
  <2>1. UNCHANGED stop /\ state' = IF stop THEN "IDLE" ELSE "START"
    BY <1>4 DEF RequeueItem, ErrorItem, RemoveItem, NextItem
  <2> QED
    BY <2>1 DEF StopInv
<1>5. CASE Waiting
  <2>1. UNCHANGED stop /\ loop' = "poll"
    BY <1>5 DEF Waiting, Sleep, queueVars
  <2> QED
    BY <2>1 DEF StopInv
<1>6. CASE FilePass
  <2>1. UNCHANGED stop
    BY <1>6 DEF FilePass, FileStart, Phase1Start, Phase1Idle, Phase2Plain, Phase2Local,
       Phase2Client, Phase2Wait, Phase2Disable, Phase3Start, Phase3Wait, Phase4Start,
       Phase5Start, Phase5RestWait, Phase6Start, Phase7Start, Phase7Wait, Phase8Start,
       Phase8Wait, Phase9Start, Phase9Rest, Phase10Start, Phase10Wait, Phase11Start,
       Phase11Wait, Phase12Start
  <2>2. state' # "START"
    BY <1>6 DEF FilePass, FileStart, Phase1Start, Phase1Idle, Phase2Plain, Phase2Local,
       Phase2Client, Phase2Wait, Phase2Disable, Phase3Start, Phase3Wait, Phase4Start,
       Phase5Start, Phase5RestWait, Phase6Start, Phase7Start, Phase7Wait, Phase8Start,
       Phase8Wait, Phase9Start, Phase9Rest, Phase10Start, Phase10Wait, Phase11Start,
       Phase11Wait, Phase12Start
  <2> QED
    BY <2>1, <2>2 DEF StopInv
<1>7. CASE IsConnected \/ StartNextItem \/ ActiveEnd \/ ItemFailed \/ Empty
  <2>1. UNCHANGED stop /\ state' # "START"
    BY <1>7 DEF IsConnected, StartNextItem, ActiveEnd, ItemFailed, Empty
  <2> QED
    BY <2>1 DEF StopInv
<1>8. CASE DirectoryPass
  <2>1. PICK st \in DirectoryState : In(st)
    BY <1>8 DEF DirectoryPass, DirectoryState, DirectoryStart, DirectoryPhase1Idle,
       DirectoryPhase2Start, DirectoryPhase2Mkd, DirectoryPhase2Compare
  <2>2. state \in DirectoryState
    BY <2>1, InState DEF DirectoryState
  <2> QED
    BY <2>2 DEF FilesInv
<1> QED
  BY <1>1, <1>2, <1>3, <1>4, <1>5, <1>6, <1>7, <1>8 DEF Pass

\* What happens in the poll does not call the queue again.
LEMMA StopNext ==
  ASSUME FilesInv, StopInv, [Next]_vars
  PROVE  /\ StopInv'
         /\ loop = "run" /\ stop /\ ~stop' => state' = "IDLE"
<1>1. ASSUME NEW p \in Side, SessionEvent(p)
      PROVE  loop = "poll" /\ UNCHANGED loop
  BY <1>1 DEF SessionEvent, Login, Reply, TransferEnd, ListingEnd, DataLine, DataClosed, Lost,
     Polling, Listing, Die
<1>2. CASE Command2
  <2>1. loop = "poll" /\ UNCHANGED loop
    BY <1>2 DEF Command2, Go, Stop, StopDrop, QAdd, QDel, QMove, UserCommand, Polling
  <2> QED
    BY <2>1 DEF StopInv
<1>3. CASE UNCHANGED vars
  BY <1>3 DEF vars, queueVars, StopInv
<1>4. CASE \E p \in Side : SessionEvent(p)
  <2>1. loop = "poll" /\ UNCHANGED loop
    BY <1>1, <1>4
  <2> QED
    BY <2>1 DEF StopInv
<1>5. CASE Pass
  BY <1>5, PassStop
<1>6. Pass \/ Command2 \/ (\E p \in Side : SessionEvent(p)) \/ UNCHANGED vars
  BY DEF Next
<1> QED
  BY <1>2, <1>3, <1>4, <1>5, <1>6

\* Where files only are queued, a queue at work takes an order to stop back only
\* by going idle: START, which forgets it, is not entered with one (queue.c:1007-1012,
\* 1082-1101, 2568-2575, 2613-2620, 2658-2665 and 2692-2698).
THEOREM StopAlwaysKept ==
  ASSUME FilesOnly
  PROVE  Spec => StopKept
<1>1. Init => FilesInv /\ StopInv
  BY DoneInit DEF Init, StopInv
<1>2. IInv /\ FlightInv /\ BeliefInv /\ FilesInv /\ StopInv /\ [Next]_vars
         => /\ FilesInv' /\ StopInv'
            /\ [loop = "run" /\ stop /\ ~stop' => state' = "IDLE"]_vars
  BY FilesNext, StopNext
<1> QED
  BY <1>1, <1>2, PhaseInvariance, PTL DEF Spec, StopKept

-----------------------------------------------------------------------------
(* What is given to a session is sent. *)

\* No connection is lost, and a transfer that was begun is carried through: no
\* server refuses REST, STOR or RETR or fails to finish.
Reliable ==
  /\ MaxLost = 0
  /\ \A key \in {"REST", "STOR", "RETR", "226"}, code \in Code : <<key, code>> \notin Refusals

\* No user sends GO to a queue at work.
NoRestarts == "REGO" \notin UserOps

\* Outside a transfer no session is in one, nor is asked for one.
Ordinary ==
  {c \in Command : c.op \notin {"STOR", "RETR", "LIST"} /\ (c.op \in {"PASV", "PORT"} => c.ev # "none")}
Mild(s) == s.state = "IDLE" /\ s.cmdq \in Seq(Ordinary) /\ Sent(s)
QuietInv == state \notin Sending => \A p \in Side : Mild(sess[p])

\* What takes the place of a lost session does not log in.
StaleInv == \A p \in Side : old[p] => ~sess[p].login /\ (loop = "poll" => ~sess[p].here)

\* Nor does any session list.
OldInv ==
  \A p \in Side :
    /\ ~sess[p].data
    /\ old[p] => ~sess[p].login /\ (loop = "poll" => ~sess[p].here)

\* From phase 9 on nothing fails.
Late == {"FILE_PHASE_9_START", "FILE_PHASE_9_REST", "FILE_PHASE_10_START"} \cup Sending
LateInv ==
  state \in Late => ~Failed /\ \A p \in Side : sess[p].here /\ sess[p].login /\ ~old[p]

\* A session has been sent a command; is in a transfer; has nothing to do.
Ordered(s, cmd, id) == s.cmdq = <<cmd>> /\ s.state = "IDLE" /\ ~s.isidle /\ s.replyId = id
Opened(s, id) == s.cmdq = <<>> /\ s.state = "RELAY_226" /\ s.replyId = id
Rests(s) == s.cmdq = <<>> /\ s.state = "IDLE"

\* The steps of a transfer: STOR is sent and accepted, RETR is sent and accepted,
\* and then each side reports the end.
TheStor == Cmd("STOR", "PHASE_10_STOR")
TheRetr == Cmd("RETR", "PHASE_11_RETR")
Count(a, b) == Top.sxfer = a /\ Top.dxfer = b

StorTold ==
  /\ Ordered(sess[Dst], TheStor, "PHASE_12_DST_226") /\ Rests(sess[src])
  /\ Count(0, 0) /\ wire.got = "wait"
StorTaken ==
  /\ Opened(sess[Dst], "PHASE_12_DST_226") /\ Rests(sess[src])
  /\ Count(1, 0) /\ wire.got = "wait"
RetrTold ==
  /\ Opened(sess[Dst], "PHASE_12_DST_226") /\ Ordered(sess[src], TheRetr, "PHASE_12_SRC_226")
  /\ Count(1, 0) /\ wire.got = "wait"
SrcFlows ==
  \/ Opened(sess[src], "PHASE_12_SRC_226") /\ Top.sxfer = 1
  \/ Rests(sess[src]) /\ Top.sxfer = 2
DstFlows ==
  \/ Opened(sess[Dst], "PHASE_12_DST_226") /\ Top.dxfer = 1
  \/ Rests(sess[Dst]) /\ Top.dxfer = 2
Flows == wire.got \in {"flow", "all"} /\ SrcFlows /\ DstFlows

RelayInv ==
  /\ state = "FILE_PHASE_10_WAIT" => StorTold \/ StorTaken
  /\ state = "FILE_PHASE_11_START" => StorTaken
  /\ state = "FILE_PHASE_11_WAIT" => RetrTold \/ Flows
  /\ state = "FILE_PHASE_12_START" => Flows

SentInv == OldInv /\ QuietInv /\ LateInv /\ RelayInv

\* The states by their names.
LEMMA SendingIs ==
  /\ Sending = {"FILE_PHASE_10_WAIT", "FILE_PHASE_11_START", "FILE_PHASE_11_WAIT",
                "FILE_PHASE_12_START"}
  /\ Late = {"FILE_PHASE_9_START", "FILE_PHASE_9_REST", "FILE_PHASE_10_START",
             "FILE_PHASE_10_WAIT", "FILE_PHASE_11_START", "FILE_PHASE_11_WAIT",
             "FILE_PHASE_12_START"}
  /\ Late \subseteq FileState /\ Sending \subseteq Late /\ Late \subseteq Private
BY DEF Sending, Late, Transferring, FileState, Private

\* A session that was just opened, and one that was lost, have nothing to do.
LEMMA MildNew ==
  /\ Mild(NewSession) /\ Mild(NoSession) /\ ~NewSession.data /\ ~NoSession.data
  /\ ~NewSession.login /\ ~NoSession.login
BY DEF Mild, Sent, NewSession, NoSession

\* A session that is ready to send has sent what it was given.
LEMMA SentIs ==
  ASSUME IInv, QuietInv, RelayInv
  PROVE  NothingUnsent
<1> SUFFICES ASSUME NEW p \in Side, sess[p].here, sess[p].isidle, ~ForceBusy(sess[p])
             PROVE  sess[p].cmdq = <<>>
  BY DEF NothingUnsent
<1>1. CASE state \notin Sending
  BY <1>1 DEF QuietInv, Mild, Sent
<1>2. CASE state \in Sending
  <2>1. state \in FileState
    BY <1>2, SendingIs
  <2>2. src \in Side /\ p \in {src, Dst}
    BY <2>1 DEF IInv, ListInv, HeadPresent, Dst, Other, Side
  <2>3. StorTold \/ StorTaken \/ RetrTold \/ Flows
    BY <1>2, SendingIs DEF RelayInv
  <2> QED
    BY <2>2, <2>3 DEF StorTold, StorTaken, RetrTold, Flows, SrcFlows, DstFlows, Ordered, Opened,
       Rests
<1> QED
  BY <1>1, <1>2

\* No reply in a transfer is other than the one asked for.
LEMMA SureCode ==
  ASSUME Reliable, NEW key \in {"REST", "STOR", "RETR", "226"}
  PROVE  \A code \in Code : <<key, code>> \notin Refusals
BY DEF Reliable

\* A session outside a transfer stays outside when it is told ordinary things.
LEMMA MildAdds ==
  ASSUME NEW s \in SessionRec, Mild(s), NEW r, Adds(s, r, Ordinary)
  PROVE  Mild(r) /\ r.login = s.login /\ r.data = s.data
BY DEF Mild, Adds, Kept

\* What the phases of a file ask for outside a transfer is ordinary.
LEMMA AskedOrdinary ==
  ASSUME NEW st \in (FileState \cup {"ACTIVE"}) \ Sending, NEW p
  PROVE  Asked(st, p) \subseteq Ordinary
<1>1. \A evs, ops : ops \cap {"STOR", "RETR", "LIST"} = {}
        /\ ("none" \notin evs \/ ops \cap {"PASV", "PORT"} = {})
        => Named(evs, ops) \subseteq Ordinary
  BY DEF Named, Ordinary
<1>2. \A evs, flag : Flags(evs, flag) \subseteq Ordinary
  BY DEF Flags, Ordinary
<1>3. CASE st \in Calm
  BY <1>3, AskedIs
<1>4. CASE st = "FILE_PHASE_1_IDLE"
  <2>1. Goes \subseteq Ordinary /\ GoesOrMakes \subseteq Ordinary
    BY <1>1 DEF Goes, GoesOrMakes
  <2> QED
    BY <1>4, <2>1, AskedIs
<1>5. CASE st \in {"FILE_PHASE_2_WAIT", "FILE_PHASE_3_START", "FILE_PHASE_5_REST_WAIT",
                   "FILE_PHASE_6_START", "FILE_PHASE_7_START", "FILE_PHASE_7_WAIT",
                   "FILE_PHASE_8_WAIT"}
  BY <1>1, <1>5, AskedIs
<1>6. CASE st \in {"FILE_PHASE_3_WAIT", "FILE_PHASE_5_START", "FILE_PHASE_9_REST",
                   "FILE_PHASE_10_START"}
  BY <1>2, <1>6, AskedIs
<1> QED
  BY <1>3, <1>4, <1>5, <1>6, SendingIs DEF FileState, Calm

\* An ordinary answer leaves a session outside a transfer, and the next command
\* is sent.
LEMMA AnsweredMild ==
  ASSUME NEW s \in SessionRec, Mild(s), s.cmdq # <<>>, NEW code, NEW more \in Seq(Ordinary),
         NEW r, r = Answered(s, code, more)
  PROVE  Mild(r) /\ r.login = s.login /\ r.data = s.data
<1> DEFINE cmd == Head(s.cmdq)
           s0 == [s EXCEPT !.cmdq = Tail(@)]
           s1 == Digest(s0, cmd, code)
           s2 == Given(s1, more)
           s3 == [s2 EXCEPT !.isidle = TRUE]
<1>1. /\ cmd \in Ordinary /\ Tail(s.cmdq) \in Seq(Ordinary)
      /\ cmd \in Command /\ Tail(s.cmdq) \in Seq(Command)
  BY HeadTailProperties DEF SessionRec, Mild
<1>2. s0 \in SessionRec
  BY <1>1 DEF SessionRec
<1>3. s0.cmdq = Tail(s.cmdq) /\ s0.data = s.data
  BY DEF SessionRec
<1>4. r = Restart(s3)
  BY DEF Answered
<1>5. more \in Seq(Command)
  <2>1. Seq(Ordinary) \subseteq Seq(Command)
    BY SeqMonotonic DEF Ordinary
  <2> QED
    BY <2>1
<1>6. r.login = s.login /\ r.state = "IDLE"
  BY <1>1, <1>5, AnsweredKeeps DEF Mild, Ordinary
<1>7. r \in SessionRec /\ ReadTo(s, cmd, code, more, r)
  BY <1>5, AnsweredIs
<1> HIDE DEF s0
<1>8. s1 \in SessionRec /\ s1.data = s0.data
  <2> DEFINE u == Obeys(s0, cmd, code)
  <2>0. u \in SessionRec /\ u.data = s0.data /\ s1 = Noted(u, cmd, code)
    BY <1>1, <1>2, ObeysType, ObeysIs DEF Digest
  <2> HIDE DEF u
  <2>1. s1 \in SessionRec
    BY <1>1, <1>2, DigestType
  <2> HIDE DEF s1
  <2>2. cmd.op \notin {"PASV", "PORT"} \/ cmd.ev # "none"
    BY <1>1 DEF Ordinary
  <2>3. CASE cmd.op \in {"ON", "OFF"}
    <3>1. u = [u EXCEPT !.status = u.status]
      BY <2>0 DEF SessionRec
    <3>2. s1 = [u EXCEPT !.status = StatusAfter(u, cmd, code)]
      BY <2>0, <2>3, <3>1 DEF Noted, StatusAfter
    <3> QED
      BY <2>0, <2>1, <3>2 DEF SessionRec
  <2>4. CASE cmd.op \notin {"ON", "OFF"}
    <3> DEFINE moved == [u EXCEPT !.pwd = IF u.saved # "-" THEN u.saved ELSE u.pwd,
                           !.files = FALSE, !.cmdq = Append(u.cmdq, Pwd)]
    <3>1. s1 \in {u, moved, [u EXCEPT !.saved = "-"], [u EXCEPT !.pwd = u.cwd]}
      <4>1. CASE cmd.op = "CWD" /\ code = "ok"
        BY <2>0, <4>1 DEF Noted, Pwd
      <4>2. CASE cmd.op = "CWD" /\ code # "ok"
        BY <2>0, <4>2 DEF Noted
      <4>3. CASE cmd.op = "PWD"
        BY <2>0, <4>3 DEF Noted
      <4>4. CASE cmd.op \notin {"CWD", "PWD"}
        <5>1. cmd.op \notin {"STOR", "RETR", "LIST"}
          BY <1>1 DEF Ordinary
        <5>2. s1 = u
          BY <2>0, <2>2, <2>4, <4>4, <5>1 DEF Noted
        <5> QED
          BY <5>2
      <4> QED
        BY <4>1, <4>2, <4>3, <4>4
    <3> QED
      BY <2>0, <2>1, <3>1 DEF SessionRec
  <2> QED
    BY <2>3, <2>4
<1> HIDE DEF s1
<1>9. s2 \in SessionRec
  BY <1>5, <1>8, GivenType
<1>10. s2.data = s1.data
  BY <1>8 DEF Given, SessionRec
<1> HIDE DEF s2
<1>11. s3 \in SessionRec /\ s3.data = s2.data
  BY <1>9 DEF SessionRec
<1> HIDE DEF s3
<1>12. Restart(s3).data = s3.data /\ s3.state = Restart(s3).state
  BY <1>11, RestartIs DEF Kept
<1>13. Sent(r)
  BY <1>4, <1>6, <1>11, <1>12, RestartSends
<1>14. r.cmdq \in Seq(Ordinary)
  <2>1. Pwd \in Ordinary
    BY PwdStill DEF Pwd, Cmd, Ordinary
  <2>2. (IF Moved(cmd, code) THEN Append(Tail(s.cmdq), Pwd) ELSE Tail(s.cmdq)) \in Seq(Ordinary)
    BY <1>1, <2>1
  <2> QED
    BY <1>7, <2>2 DEF ReadTo
<1> QED
  BY <1>3, <1>4, <1>6, <1>8, <1>10, <1>11, <1>12, <1>13, <1>14 DEF Mild

\* STOR and RETR that are accepted open the transfer.
LEMMA AnsweredOpens ==
  ASSUME NEW s \in SessionRec, NEW cmd \in {TheStor, TheRetr}, s.cmdq = <<cmd>>,
         NEW r, r = Answered(s, "ok", <<>>)
  PROVE  /\ r.cmdq = <<>> /\ r.state = "RELAY_226" /\ r.replyId = s.replyId /\ r.login = s.login
         /\ r.data = s.data /\ r.here = s.here
<1> DEFINE s0 == [s EXCEPT !.cmdq = <<>>]
           s1 == [s0 EXCEPT !.state = "RELAY_226"]
           s2 == Given(s1, <<>>)
           s3 == [s2 EXCEPT !.isidle = TRUE]
<1>1. cmd = Head(s.cmdq) /\ Tail(s.cmdq) = <<>> /\ cmd.op \in {"STOR", "RETR"}
  BY DEF TheStor, TheRetr, Cmd
<1>2. s0 \in SessionRec
  <2>1. <<>> \in Seq(Command)
    OBVIOUS
  <2> QED
    BY <2>1 DEF SessionRec
<1>3. /\ s0.cmdq = <<>> /\ s0.replyId = s.replyId /\ s0.login = s.login /\ s0.data = s.data
      /\ s0.here = s.here
  BY DEF SessionRec
<1>4. r = Restart([Given(Digest(s0, cmd, "ok"), <<>>) EXCEPT !.isidle = TRUE])
  <2>1. s0 = [s EXCEPT !.cmdq = Tail(@)]
    BY <1>1
  <2> HIDE DEF s0
  <2> QED
    BY <1>1, <2>1 DEF Answered
<1> HIDE DEF s0
<1>5. Digest(s0, cmd, "ok") = s1
  <2>1. Obeys(s0, cmd, "ok") = s0
    <3>1. cmd.op # "CWD" /\ Key(cmd) # "PRIVACY"
      BY <1>1 DEF Key
    <3>2. s0 = [s0 EXCEPT !.cwd = s0.cwd, !.prot = s0.prot]
      BY <1>2 DEF SessionRec
    <3> QED
      BY <3>1, <3>2 DEF Obeys
  <2> QED
    BY <1>1, <2>1 DEF Digest, Noted
<1>6. /\ s1 \in SessionRec /\ s1.state = "RELAY_226" /\ s1.cmdq = s0.cmdq /\ s1.replyId = s0.replyId
      /\ s1.login = s0.login /\ s1.data = s0.data /\ s1.here = s0.here
  BY <1>2 DEF SessionRec
<1>7. r = Restart(s3)
  BY <1>4, <1>5
<1> HIDE DEF s1
<1>8. /\ s2.state = s1.state /\ s2.replyId = s1.replyId /\ s2.login = s1.login
      /\ s2.data = s1.data /\ s2.here = s1.here /\ s2.cmdq = <<>> /\ s2 \in SessionRec
  <2>1. s1.cmdq \o <<>> = <<>> /\ <<>> \in Seq(Command)
    BY <1>3, <1>6
  <2>2. s2 \in SessionRec
    BY <1>6, <2>1, GivenType
  <2>3. s2 = [s1 EXCEPT !.cmdq = <<>>, !.saved = s1.saved]
    BY <1>6, <2>1 DEF Given
  <2> HIDE DEF s2
  <2> QED
    BY <1>6, <2>2, <2>3 DEF SessionRec
<1> HIDE DEF s2
<1>9. /\ s3.state = s2.state /\ s3.replyId = s2.replyId /\ s3.login = s2.login
      /\ s3.data = s2.data /\ s3.here = s2.here /\ s3.cmdq = s2.cmdq
  BY <1>8 DEF SessionRec
<1>10. Restart(s3) = s3
  BY <1>8, <1>9 DEF Restart
<1> QED
  BY <1>3, <1>6, <1>7, <1>8, <1>9, <1>10

-----------------------------------------------------------------------------
(* What the events of a session leave of SentInv. *)

\* Every event needs a session, which in the poll takes no lost one's place.
LEMMA EventHeld ==
  ASSUME IInv, StaleInv, NEW p \in Side, SessionEvent(p)
  PROVE  /\ sess[p].here /\ ~old[p] /\ loop = "poll" /\ UNCHANGED <<loop, state, stop, src>>
         /\ \A q \in Side \ {p} : sess'[q] = sess[q] /\ old'[q] = old[q]
         /\ UNCHANGED old \/ LoseSession(p)
<1>1. /\ sess[p].here /\ loop = "poll" /\ UNCHANGED <<loop, state, stop, src>>
  BY DEF SessionEvent, Login, Reply, TransferEnd, ListingEnd, DataLine, DataClosed, Lost,
     Polling, Listing, Die, queueVars
<1>2. ~old[p]
  BY <1>1 DEF StaleInv
<1>3. \A q \in Side \ {p} : sess'[q] = sess[q]
  BY EventIs
<1>4. old' = old \/ LoseSession(p)
  <2>1. Login(p) \/ Reply(p) \/ TransferEnd(p) => old' = old \/ LoseSession(p)
    BY DEF Login, Reply, TransferEnd, Die
  <2>2. ListingEnd(p) \/ DataLine(p) \/ DataClosed(p) \/ Lost(p)
          => old' = old \/ LoseSession(p)
    BY DEF ListingEnd, DataLine, DataClosed, Lost, Die
  <2> QED
    BY <2>1, <2>2, Zenon DEF SessionEvent
<1>5. old \in [Side -> BOOLEAN]
  BY DEF IInv, SessionInv, WorldInv
<1>6. \A q \in Side \ {p} : old'[q] = old[q]
  BY <1>4, <1>5 DEF LoseSession
<1> QED
  BY <1>1, <1>2, <1>3, <1>4, <1>6

LEMMA EventHere ==
  ASSUME IInv, OldInv, NEW p \in Side, SessionEvent(p)
  PROVE  sess[p].here /\ ~old[p] /\ loop = "poll" /\ UNCHANGED <<loop, state, stop, src>>
         /\ \A q \in Side \ {p} : sess'[q] = sess[q] /\ old'[q] = old[q]
<1>1. StaleInv
  BY DEF OldInv, StaleInv
<1> QED
  BY <1>1, EventHeld

\* Outside a transfer it leaves the session mild.
LEMMA EventMild ==
  ASSUME IInv, OldInv, QuietInv, state \notin Sending, NEW p \in Side, SessionEvent(p)
  PROVE  /\ Mild(sess'[p]) /\ ~sess'[p].data
         /\ sess'[p] = NoSession \/ UNCHANGED old
<1>0. sess[p] \in SessionRec /\ sess \in [Side -> SessionRec] /\ Mild(sess[p]) /\ ~sess[p].data
  BY DEF IInv, SessionInv, QuietInv, OldInv
<1>u. CASE UNCHANGED <<sess, old>>
  BY <1>0, <1>u
<1>l. CASE LoseSession(p)
  BY <1>0, <1>l, MildNew DEF LoseSession
<1>1. CASE Login(p)
  <2> DEFINE a == [sess[p] EXCEPT !.login = TRUE, !.isidle = TRUE]
  <2>1. sess'[p] = Restart(a) /\ UNCHANGED old
    BY <1>0, <1>1 DEF Login, LoggedIn
  <2>2. a \in SessionRec /\ a.state = sess[p].state /\ a.cmdq = sess[p].cmdq /\ a.data = sess[p].data
    BY <1>0 DEF SessionRec
  <2> HIDE DEF a
  <2>3. /\ Kept(a, Restart(a)) /\ Restart(a).cmdq = a.cmdq
        /\ a.state = "IDLE" => Sent(Restart(a))
    BY <2>2, RestartIs, RestartSends
  <2> QED
    BY <1>0, <2>1, <2>2, <2>3 DEF Mild, Kept
<1>2. CASE Reply(p)
  <2> DEFINE cmd == Head(sess[p].cmdq)
  <2>0. LoseSession(p) \/ Die \/ UNCHANGED old
    BY <1>2 DEF Reply
  <2>1. PICK code \in Codes(cmd) :
          \/ LoseSession(p) /\ UNCHANGED <<items, remote, wire>>
          \/ Die
          \/ Takes(p, cmd, code)
    BY <1>0, <1>2 DEF Reply, Answers, Takes, Die, listVars
  <2>2. CASE Die
    BY <1>u, <2>2 DEF Die
  <2>3. CASE Takes(p, cmd, code) /\ UNCHANGED old
    <3> DEFINE more == More(Digest(sess[p], cmd, code), cmd.ev, Heard(code))
    <3>1. Answers(p, cmd, code) /\ loop = "poll"
      BY <2>3, EventHere DEF Takes
    <3>2. sess'[p] = Answered(sess[p], code, more) /\ sess[p].cmdq # <<>>
      BY <3>1 DEF Answers
    <3>3. more \in Seq(Command)
      BY <3>1, AnswersIs
    <3>4. \/ more = <<>>
          \/ more = <<[op |-> "MKD", arg |-> NextMkd, ev |-> "PHASE_1_DST_MKD"]>>
          \/ more = <<[op |-> "CWD", arg |-> LastMkd, ev |-> "PHASE_1_DST_CWD2"]>>
      BY MoreIs
    <3> HIDE DEF more, cmd
    <3>5. more \in Seq(Ordinary)
      <4>1. CASE more = <<>>
        BY <4>1
      <4>2. CASE more # <<>>
        <5>1. PICK c : more = <<c>> /\ c.op \in {"MKD", "CWD"}
          BY <3>4, <4>2
        <5>2. c \in Command
          BY <3>3, <5>1, HeadTailProperties
        <5>3. c \in Ordinary
          BY <5>1, <5>2 DEF Ordinary
        <5> QED
          BY <5>1, <5>3
      <4> QED
        BY <4>1, <4>2
    <3>6. Mild(sess'[p]) /\ sess'[p].data = sess[p].data
      BY <1>0, <3>2, <3>5, AnsweredMild
    <3> QED
      BY <1>0, <2>3, <3>6
  <2> QED
    BY <1>l, <2>0, <2>1, <2>2, <2>3
<1>3. CASE TransferEnd(p) \/ ListingEnd(p)
  BY <1>0, <1>3 DEF TransferEnd, ListingEnd, Mild
<1>4. CASE DataLine(p) \/ DataClosed(p)
  BY <1>0, <1>4 DEF DataLine, DataClosed, Listing
<1>5. CASE Lost(p)
  BY <1>5, <1>l DEF Lost
<1> QED
  BY <1>1, <1>2, <1>3, <1>4, <1>5 DEF SessionEvent

\* Of what is asked from phase 9 on nothing can be refused or costs the session.
LEMMA LateAsked ==
  ASSUME NEW st \in Late, NEW p, NEW c \in Asked(st, p)
  PROVE  Key(c) \in {"REST", "STOR", "RETR"} /\ c.ev # "none" /\ c.op # "QUIT" /\ c.ev \notin Steers
<1>1. CASE st \in {"FILE_PHASE_9_START", "FILE_PHASE_11_START", "FILE_PHASE_12_START"}
  <2>1. st \in Calm
    BY <1>1 DEF Calm
  <2> QED
    BY <2>1, AskedIs
<1>2. CASE st \in {"FILE_PHASE_9_REST", "FILE_PHASE_10_START"}
  <2>1. c \in Flags({"PHASE_9_SRC_REST", "PHASE_9_DST_REST"}, "REST") \cup Flags({"PHASE_9_REST2"}, "REST")
    BY <1>2, AskedIs
  <2> QED
    BY <2>1 DEF Flags, Key, Steers
<1>3. CASE st \in {"FILE_PHASE_10_WAIT", "FILE_PHASE_11_WAIT"}
  <2>1. c \in Named({"PHASE_10_STOR"}, {"STOR"}) \cup Named({"PHASE_11_RETR"}, {"RETR"})
    BY <1>3, AskedIs
  <2> QED
    BY <2>1 DEF Named, Key, Steers
<1> QED
  BY <1>1, <1>2, <1>3, SendingIs

\* So the servers accept, and report the end of what they have sent.
LEMMA LateEvent ==
  ASSUME Reliable, IInv, FlightInv, OldInv, QuietInv, LateInv, RelayInv, state \in Late,
         NEW p \in Side, SessionEvent(p)
  PROVE  /\ UNCHANGED old
         /\ \/ UNCHANGED <<sess, items, wire>>
            \/ \E cmd : Takes(p, cmd, "ok")
            \/ Ends(p, "ok", "all") /\ wire.got \in {"flow", "all"}
<1>0. /\ sess[p] \in SessionRec /\ sess \in [Side -> SessionRec]
      /\ sess[p].here /\ sess[p].login /\ ~sess[p].data /\ ~Failed
  BY DEF IInv, SessionInv, LateInv, OldInv
<1>q. sess[p].cmdq # <<>> => Head(sess[p].cmdq) \in Asked(state, p)
  BY HeadTailProperties DEF FlightInv
<1>r. state \in Sending \/ sess[p].state = "IDLE"
  BY DEF QuietInv, Mild
<1>w. state \in Sending => StorTold \/ StorTaken \/ RetrTold \/ Flows
  BY SendingIs DEF RelayInv
<1>s. state \in Sending => src \in Side /\ p \in {src, Dst}
  <2> SUFFICES ASSUME state \in Sending PROVE src \in Side /\ p \in {src, Dst}
    OBVIOUS
  <2>1. state \in FileState
    BY SendingIs
  <2> QED
    BY <2>1 DEF IInv, ListInv, HeadPresent, Dst, Other, Side
<1>1. CASE Reply(p)
  <2> DEFINE cmd == Head(sess[p].cmdq)
  <2>1. cmd \in Asked(state, p)
    BY <1>1, <1>q DEF Reply
  <2>2. Key(cmd) \in {"REST", "STOR", "RETR"} /\ cmd.ev # "none"
    BY <2>1, LateAsked
  <2>3. \A code \in Codes(cmd) : code = "ok"
    BY <2>2, SureCode DEF Codes
  <2>4. ~Closes(cmd, "ok")
    BY DEF Closes
  <2>5. Die \/ (Takes(p, cmd, "ok") /\ UNCHANGED old)
    BY <1>0, <1>1, <2>3, <2>4 DEF Reply, Answers, Takes, Die, listVars
  <2>6. Die => UNCHANGED <<sess, items, wire, old>>
    BY DEF Die, listVars
  <2> QED
    BY <2>5, <2>6
<1>2. CASE TransferEnd(p)
  <2>1. state \in Sending
    BY <1>2, <1>r DEF TransferEnd
  <2>2. <<"226", "fail">> \notin Refusals
    BY SureCode DEF Code
  <2>3. wire.got \in {"wait", "flow", "all"}
    BY <1>w, <2>1 DEF StorTold, StorTaken, RetrTold, Flows
  <2>4. wire.got = "wait" => RetrComing
    <3>1. wire.got = "wait" => StorTold \/ StorTaken \/ RetrTold
      BY <1>w, <2>1 DEF Flows
    <3>2. state = "FILE_PHASE_12_START" => Flows
      BY DEF RelayInv
    <3> QED
      BY <1>0, <2>1, <3>2, SendingIs DEF RetrComing, Flows
  <2>5. PICK code \in {"ok", "fail"} :
          \E got \in CASE wire.got = "flow" -> {"all", "cut"}
                       [] wire.got = "wait" -> {"cut"}
                       [] OTHER -> {wire.got} :
            /\ (IF \/ wire.got = "flow" /\ got = "cut"
                   \/ wire.got = "wait" /\ RetrComing
                   \/ got = "all" /\ code = "fail"
                THEN 1 ELSE 0) = 1 => <<"226", "fail">> \in Refusals
            /\ \/ Die
               \/ /\ wire' = [wire EXCEPT !.got = got]
                  /\ remote' = IF wire.to # 0 /\ got # wire.got
                               THEN [remote EXCEPT ![wire.to] =
                                       IF got = "all" THEN "full" ELSE "part"]
                               ELSE remote
                  /\ items' = IF items = <<>> THEN items
                              ELSE SetTop(Second(sess[p].replyId, code))
                  /\ sess' = [sess EXCEPT ![p] = TransferEnded(@)]
                  /\ UNCHANGED old
    BY <1>2 DEF TransferEnd
  <2>6. PICK got \in CASE wire.got = "flow" -> {"all", "cut"}
                       [] wire.got = "wait" -> {"cut"}
                       [] OTHER -> {wire.got} :
            /\ ~(wire.got = "flow" /\ got = "cut") /\ ~(wire.got = "wait" /\ RetrComing)
            /\ ~(got = "all" /\ code = "fail")
            /\ \/ Die
               \/ /\ wire' = [wire EXCEPT !.got = got]
                  /\ remote' = IF wire.to # 0 /\ got # wire.got
                               THEN [remote EXCEPT ![wire.to] =
                                       IF got = "all" THEN "full" ELSE "part"]
                               ELSE remote
                  /\ items' = IF items = <<>> THEN items
                              ELSE SetTop(Second(sess[p].replyId, code))
                  /\ sess' = [sess EXCEPT ![p] = TransferEnded(@)]
                  /\ UNCHANGED old
    BY <2>2, <2>5
  <2>7. wire.got \in {"flow", "all"} /\ got = "all" /\ code = "ok"
    BY <2>3, <2>4, <2>6
  <2>8. CASE Die
    BY <2>8 DEF Die, listVars
  <2>9. CASE ~Die
    <3>1. sess[p].state = "RELAY_226" /\ sess'[p] = TransferEnded(sess[p]) /\ UNCHANGED old
      BY <1>0, <1>2, <2>6, <2>9 DEF TransferEnd
    <3>2. Ends(p, "ok", "all")
      BY <1>0, <2>6, <2>7, <2>9, <3>1 DEF Ends
    <3> QED
      BY <2>7, <3>1, <3>2
  <2> QED
    BY <2>8, <2>9
<1>3. CASE ListingEnd(p)
  <2>1. sess[p].state = "DATA_FINISH"
    BY <1>3 DEF ListingEnd
  <2> QED
    BY <1>r, <1>s, <1>w, <2>1 DEF StorTold, StorTaken, RetrTold, Flows, SrcFlows, DstFlows, Ordered,
       Opened, Rests
<1>4. CASE Login(p) \/ DataLine(p) \/ DataClosed(p)
  BY <1>0, <1>4 DEF Login, DataLine, DataClosed, Listing
<1>5. CASE Lost(p)
  <2>1. ~(sess[p].cmdq # <<>> /\ Head(sess[p].cmdq).op = "QUIT")
    BY <1>q, LateAsked
  <2>2. lost < MaxLost /\ MaxLost = 0 /\ lost \in 0 .. MaxLost
    BY <1>5, <2>1 DEF Lost, Reliable, IInv, BookInv
  <2> QED
    BY <2>2
<1> QED
  BY <1>1, <1>2, <1>3, <1>4, <1>5 DEF SessionEvent


\* An accepted command counts for the transfer that it starts, and fails nothing.
LEMMA TakesOk ==
  ASSUME IInv, state \in FileState, loop = "poll", NEW p \in Side, NEW cmd, Takes(p, cmd, "ok")
  PROVE  /\ Failed' => Failed
         /\ Top'.sxfer = IF cmd.ev = "PHASE_10_STOR" THEN Bump(Top.sxfer) ELSE Top.sxfer
         /\ Top'.dxfer = IF cmd.ev = "PHASE_11_RETR" THEN Bump(Top.dxfer) ELSE Top.dxfer
<1> DEFINE x == TopAfter(cmd.ev, "ok")
<1>1. items # <<>> /\ Top \in Item /\ Top \in Triable
  BY FileTop, PollingItems DEF IInv
<1>2. x \in Item
  BY <1>1, TopAfterType DEF IInv, WorldInv, Triable
<1>3. items' = SetTop(x)
  BY <1>1 DEF Takes, Answers, Heard
<1>4. Top' = x
  <2> HIDE DEF x
  <2> QED
    BY <1>1, <1>2, <1>3, TopSet
<1>5. /\ x.sfail => Top.sfail
      /\ x.dfail => Top.dfail
      /\ x.sxfer = IF cmd.ev = "PHASE_10_STOR" THEN Bump(Top.sxfer) ELSE Top.sxfer
      /\ x.dxfer = IF cmd.ev = "PHASE_11_RETR" THEN Bump(Top.dxfer) ELSE Top.dxfer
  BY <1>1 DEF TopAfter, FailsSrc, FailsDst, Item
<1> HIDE DEF x
<1> QED
  BY <1>4, <1>5 DEF Failed

\* So does the end of a transfer.
LEMMA EndsOk ==
  ASSUME IInv, state \in FileState, loop = "poll", NEW p \in Side, Ends(p, "ok", "all"),
         NEW id \in {"PHASE_12_SRC_226", "PHASE_12_DST_226"}, sess[p].replyId = id
  PROVE  /\ Failed' => Failed
         /\ Top'.sxfer = IF id = "PHASE_12_SRC_226" THEN Bump(Top.sxfer) ELSE Top.sxfer
         /\ Top'.dxfer = IF id = "PHASE_12_DST_226" THEN Bump(Top.dxfer) ELSE Top.dxfer
<1> DEFINE x == Second(id, "ok")
<1>1. items # <<>> /\ Top \in Item
  BY FileTop
<1>2. x \in Item
  BY <1>1, SecondIs DEF Ends226
<1>3. items' = SetTop(x)
  BY <1>1 DEF Ends
<1>4. Top' = x
  <2> HIDE DEF x
  <2> QED
    BY <1>1, <1>2, <1>3, TopSet
<1>5. /\ x.sfail => Top.sfail
      /\ x.dfail => Top.dfail
      /\ x.sxfer = IF id = "PHASE_12_SRC_226" THEN Bump(Top.sxfer) ELSE Top.sxfer
      /\ x.dxfer = IF id = "PHASE_12_DST_226" THEN Bump(Top.dxfer) ELSE Top.dxfer
  BY <1>1 DEF Second, Item
<1> HIDE DEF x
<1> QED
  BY <1>4, <1>5 DEF Failed

\* What is asked of a session in a transfer takes it one step further.
LEMMA RelayTakes ==
  ASSUME IInv, SentInv, state \in Sending, NEW p \in Side, SessionEvent(p),
         NEW cmd, Takes(p, cmd, "ok")
  PROVE  RelayInv' /\ sess'[p].data = sess[p].data
<1>0. /\ state \in FileState /\ loop = "poll" /\ UNCHANGED <<state, src>>
      /\ \A q \in Side \ {p} : sess'[q] = sess[q]
  BY SendingIs, EventHere DEF SentInv
<1>1. src \in Side /\ Dst \in Side /\ Dst # src /\ \A q \in Side : q \in {src, Dst}
  BY <1>0 DEF IInv, ListInv, HeadPresent, Dst, Other, Side
<1>2. Dst' = Dst
  BY <1>0 DEF Dst
<1>3. /\ sess[p].cmdq # <<>> /\ cmd = Head(sess[p].cmdq) /\ sess[p] \in SessionRec
      /\ sess'[p] = Answered(sess[p], "ok", More(Digest(sess[p], cmd, "ok"), cmd.ev, "ok"))
      /\ wire' = IF cmd.op = "RETR" THEN [wire EXCEPT !.got = "flow"] ELSE wire
  BY DEF Takes, Answers, Heard, IInv, SessionInv
<1>4. \/ state = "FILE_PHASE_10_WAIT" /\ StorTold /\ p = Dst
      \/ state = "FILE_PHASE_11_WAIT" /\ RetrTold /\ p = src
  <2>1. \/ state = "FILE_PHASE_10_WAIT" /\ (StorTold \/ StorTaken)
        \/ StorTaken
        \/ state = "FILE_PHASE_11_WAIT" /\ (RetrTold \/ Flows)
        \/ Flows
    BY SendingIs DEF SentInv, RelayInv
  <2>2. ~StorTaken /\ ~Flows
    BY <1>1, <1>3 DEF StorTaken, Flows, SrcFlows, DstFlows, Opened, Rests
  <2> QED
    BY <1>1, <1>3, <2>1, <2>2 DEF StorTold, RetrTold, Opened, Rests
<1>5. cmd \in {TheStor, TheRetr} /\ sess[p].cmdq = <<cmd>>
      /\ cmd = IF p = Dst THEN TheStor ELSE TheRetr
  <2>1. sess[p].cmdq = <<IF p = Dst THEN TheStor ELSE TheRetr>>
    BY <1>1, <1>4 DEF StorTold, RetrTold, Ordered
  <2> QED
    BY <1>3, <2>1
<1>6. sess'[p] = Answered(sess[p], "ok", <<>>)
  <2>1. cmd.ev \notin Steers
    BY <1>5 DEF TheStor, TheRetr, Cmd, Steers
  <2>2. More(Digest(sess[p], cmd, "ok"), cmd.ev, "ok") = <<>>
    BY <2>1 DEF More, Makes, Enters, Steers
  <2> QED
    BY <1>3, <2>2
<1>7. Opened(sess'[p], sess[p].replyId) /\ sess'[p].data = sess[p].data
  BY <1>3, <1>5, <1>6, AnsweredOpens DEF Opened
<1>8. /\ Top'.sxfer = IF cmd.ev = "PHASE_10_STOR" THEN Bump(Top.sxfer) ELSE Top.sxfer
      /\ Top'.dxfer = IF cmd.ev = "PHASE_11_RETR" THEN Bump(Top.dxfer) ELSE Top.dxfer
  BY <1>0, TakesOk
<1>9. CASE state = "FILE_PHASE_10_WAIT" /\ StorTold /\ p = Dst
  <2>1. cmd.ev = "PHASE_10_STOR" /\ cmd.op = "STOR"
    BY <1>5, <1>9 DEF TheStor, Cmd
  <2>2. wire' = wire /\ Count(1, 0)'
    BY <1>3, <1>8, <1>9, <2>1 DEF StorTold, Count, Bump
  <2>3. StorTaken'
    BY <1>0, <1>1, <1>2, <1>7, <1>9, <2>2 DEF StorTold, StorTaken, Ordered, Opened, Rests
  <2> QED
    BY <1>0, <1>7, <1>9, <2>3 DEF RelayInv
<1>10. CASE state = "FILE_PHASE_11_WAIT" /\ RetrTold /\ p = src
  <2>1. cmd.ev = "PHASE_11_RETR" /\ cmd.op = "RETR"
    BY <1>1, <1>5, <1>10 DEF TheRetr, Cmd
  <2>2. wire'.got = "flow"
    BY <1>3, <2>1 DEF IInv, WorldInv
  <2>3. Count(1, 1)'
    BY <1>8, <1>10, <2>1 DEF RetrTold, Count, Bump
  <2>4. Flows'
    BY <1>0, <1>1, <1>2, <1>7, <1>10, <2>2, <2>3 DEF RetrTold, Flows, SrcFlows, DstFlows, Ordered,
       Opened, Count
  <2> QED
    BY <1>0, <1>7, <1>10, <2>4 DEF RelayInv
<1> QED
  BY <1>4, <1>9, <1>10

\* The end of what flows is counted on its side.
LEMMA RelayEnds ==
  ASSUME IInv, SentInv, state \in Sending, NEW p \in Side, SessionEvent(p),
         Ends(p, "ok", "all"), wire.got \in {"flow", "all"}
  PROVE  RelayInv' /\ (Failed' => Failed)
<1>0. /\ state \in FileState /\ loop = "poll" /\ UNCHANGED <<state, src>>
      /\ \A q \in Side \ {p} : sess'[q] = sess[q]
  BY SendingIs, EventHere DEF SentInv
<1>1. src \in Side /\ Dst \in Side /\ Dst # src /\ \A q \in Side : q \in {src, Dst}
  BY <1>0 DEF IInv, ListInv, HeadPresent, Dst, Other, Side
<1>2. Dst' = Dst
  BY <1>0 DEF Dst
<1>3. state \in {"FILE_PHASE_11_WAIT", "FILE_PHASE_12_START"} /\ Flows
  <2>1. ~StorTold /\ ~StorTaken /\ ~RetrTold
    BY DEF StorTold, StorTaken, RetrTold
  <2> QED
    BY <2>1, SendingIs DEF SentInv, RelayInv
<1>4. /\ sess[p].state = "RELAY_226" /\ sess'[p].state = "IDLE" /\ sess'[p].cmdq = sess[p].cmdq
  BY EndsSession
<1>5. \/ p = src /\ Opened(sess[src], "PHASE_12_SRC_226") /\ Top.sxfer = 1
      \/ p = Dst /\ Opened(sess[Dst], "PHASE_12_DST_226") /\ Top.dxfer = 1
  BY <1>1, <1>3, <1>4 DEF Flows, SrcFlows, DstFlows, Rests
<1>6. sess[p].replyId \in {"PHASE_12_SRC_226", "PHASE_12_DST_226"}
  BY <1>5 DEF Opened
<1>7. /\ Failed' => Failed
      /\ Top'.sxfer = IF sess[p].replyId = "PHASE_12_SRC_226" THEN Bump(Top.sxfer) ELSE Top.sxfer
      /\ Top'.dxfer = IF sess[p].replyId = "PHASE_12_DST_226" THEN Bump(Top.dxfer) ELSE Top.dxfer
  BY <1>0, <1>6, EndsOk
<1>8. wire'.got = "all"
  BY DEF Ends, IInv, WorldInv
<1>9. Rests(sess'[p])
  BY <1>4, <1>5 DEF Opened, Rests
<1>10. SrcFlows'
  BY <1>0, <1>1, <1>3, <1>5, <1>7, <1>9 DEF Flows, SrcFlows, Opened, Bump
<1>11. DstFlows'
  BY <1>0, <1>1, <1>2, <1>3, <1>5, <1>7, <1>9 DEF Flows, DstFlows, Opened, Bump
<1>12. Flows'
  BY <1>8, <1>10, <1>11 DEF Flows
<1> QED
  BY <1>0, <1>3, <1>7, <1>12 DEF RelayInv

\* The events of a session keep SentInv.
LEMMA EventSent ==
  ASSUME Reliable, IInv, FlightInv, SentInv, NEW p \in Side, SessionEvent(p)
  PROVE  SentInv'
<1>0. /\ sess[p].here /\ ~old[p] /\ loop = "poll" /\ UNCHANGED <<loop, state, stop, src>>
      /\ \A q \in Side \ {p} : sess'[q] = sess[q] /\ old'[q] = old[q]
  BY EventHere DEF SentInv
<1>1. CASE state \notin Sending
  <2>1. /\ Mild(sess'[p]) /\ ~sess'[p].data
        /\ sess'[p] = NoSession \/ UNCHANGED old
    BY <1>1, EventMild DEF SentInv
  <2>2. OldInv'
    <3>1. ~NoSession.login /\ ~NoSession.here
      BY NoSessionIs, MildNew
    <3> QED
      BY <1>0, <2>1, <3>1 DEF SentInv, OldInv
  <2>3. QuietInv'
    BY <1>0, <1>1, <2>1 DEF SentInv, QuietInv
  <2>4. RelayInv'
    BY <1>0, <1>1, SendingIs DEF RelayInv
  <2>5. LateInv'
    <3> SUFFICES ASSUME state \in Late PROVE LateInv'
      BY <1>0 DEF LateInv
    <3>1. /\ ~Failed /\ \A q \in Side : sess[q].here /\ sess[q].login /\ ~old[q]
      BY DEF SentInv, LateInv
    <3>2. /\ UNCHANGED old
          /\ \/ UNCHANGED <<sess, items, wire>>
             \/ \E cmd : Takes(p, cmd, "ok")
             \/ Ends(p, "ok", "all") /\ wire.got \in {"flow", "all"}
      BY LateEvent DEF SentInv
    <3>3. ~Ends(p, "ok", "all")
      BY <1>1, EndsSession DEF SentInv, QuietInv, Mild
    <3>4. CASE UNCHANGED <<sess, items, wire>>
      BY <1>0, <3>1, <3>2, <3>4 DEF LateInv, Failed, Top
    <3>5. ASSUME NEW cmd, Takes(p, cmd, "ok") PROVE LateInv'
      <4>1. ~Failed'
        BY <1>0, <3>1, <3>5, TakesOk, SendingIs
      <4>2. sess'[p].here /\ sess'[p].login
        BY <1>0, <3>1, <3>5, TakesKeeps
      <4> QED
        BY <1>0, <3>1, <3>2, <4>1, <4>2 DEF LateInv
    <3> QED
      BY <3>2, <3>3, <3>4, <3>5
  <2> QED
    BY <2>2, <2>3, <2>4, <2>5 DEF SentInv
<1>2. CASE state \in Sending
  <2>0. state \in Late /\ state \in FileState
    BY <1>2, SendingIs
  <2>1. /\ ~Failed /\ \A q \in Side : sess[q].here /\ sess[q].login /\ ~old[q] /\ ~sess[q].data
    BY <2>0 DEF SentInv, LateInv, OldInv
  <2>2. /\ UNCHANGED old
        /\ \/ UNCHANGED <<sess, items, wire>>
           \/ \E cmd : Takes(p, cmd, "ok")
           \/ Ends(p, "ok", "all") /\ wire.got \in {"flow", "all"}
    BY <2>0, LateEvent DEF SentInv
  <2>k. ASSUME RelayInv', ~Failed', sess'[p].here, sess'[p].login, ~sess'[p].data
        PROVE  SentInv'
    <3>1. OldInv' /\ QuietInv' /\ LateInv'
      BY <1>0, <1>2, <2>1, <2>2, <2>k DEF OldInv, QuietInv, LateInv
    <3> QED
      BY <2>k, <3>1 DEF SentInv
  <2>3. CASE UNCHANGED <<sess, items, wire>>
    <3>1. Top' = Top /\ Dst' = Dst
      BY <1>0, <2>3 DEF Top, Dst
    <3>2. RelayInv'
      <4>1. /\ StorTold' = StorTold /\ StorTaken' = StorTaken /\ RetrTold' = RetrTold
            /\ Flows' = Flows
        BY <1>0, <2>3, <3>1 DEF StorTold, StorTaken, RetrTold, Flows, SrcFlows, DstFlows, Count
      <4> QED
        BY <1>0, <4>1 DEF SentInv, RelayInv
    <3> QED
      BY <2>1, <2>3, <2>k, <3>1, <3>2 DEF Failed
  <2>4. ASSUME NEW cmd, Takes(p, cmd, "ok") PROVE SentInv'
    <3>1. RelayInv' /\ sess'[p].data = sess[p].data
      BY <1>2, <2>4, RelayTakes
    <3>2. ~Failed' /\ sess'[p].here /\ sess'[p].login
      BY <1>0, <2>0, <2>1, <2>4, TakesOk, TakesKeeps
    <3> QED
      BY <2>1, <2>k, <3>1, <3>2
  <2>5. CASE Ends(p, "ok", "all") /\ wire.got \in {"flow", "all"}
    <3>1. RelayInv' /\ ~Failed'
      BY <1>2, <2>1, <2>5, RelayEnds
    <3>2. sess'[p].here /\ sess'[p].login
      BY <2>1, <2>5, EndsSession
    <3>3. ~sess'[p].data
      BY <2>1, <2>5 DEF Ends, TransferEnded, IInv, SessionInv, SessionRec
    <3> QED
      BY <2>k, <3>1, <3>2, <3>3
  <2> QED
    BY <2>2, <2>3, <2>4, <2>5
<1> QED
  BY <1>1, <1>2

\* So do the commands of the users: GO finds the queue at rest, and a STOP|DROP
\* that closes both sessions leaves nothing given to either.
LEMMA CommandSent ==
  ASSUME NoStops, NoRestarts, IInv, SentInv, Command2
  PROVE  SentInv'
<1>0. old \in [Side -> BOOLEAN] /\ loop' = loop
  BY DEF IInv, SessionInv, Command2, Go, Stop, StopDrop, QAdd, QDel, QMove
<1>1. CASE StopDrop /\ BothHere
  <2>1. \A p \in Side : sess'[p] = NoSession
    BY <1>1 DEF StopDrop
  <2>2. state' \notin Late /\ state' \notin Sending
    BY <1>1, SendingIs DEF StopDrop
  <2>3. OldInv' /\ QuietInv'
    BY <1>0, <2>1, MildNew, NoSessionIs DEF OldInv, QuietInv
  <2> QED
    BY <2>2, <2>3, SendingIs DEF SentInv, LateInv, RelayInv
<1>2. CASE ~(StopDrop /\ BothHere)
  <2>1. UNCHANGED <<sess, old, wire>> /\ (UNCHANGED <<state, src>> \/ Go)
    BY <1>2 DEF Command2, Go, Stop, StopDrop, QAdd, QDel, QMove, queueVars
  <2>2. OldInv'
    BY <1>0, <2>1 DEF SentInv, OldInv
  <2>3. CASE Go
    <3>1. state = "IDLE" /\ state' = "START"
      BY <2>3 DEF Go, UserCommand, NoRestarts
    <3>2. state \notin Sending /\ state' \notin Late
      BY <3>1, SendingIs
    <3> QED
      BY <2>1, <2>2, <3>2, SendingIs DEF SentInv, QuietInv, LateInv, RelayInv
  <2>4. CASE UNCHANGED <<state, src>>
    <3>1. QuietInv'
      BY <2>1, <2>4 DEF SentInv, QuietInv
    <3>2. CASE state \in Late
      <4>1. Top' = Top /\ Dst' = Dst
        BY <2>4, <3>2, SendingIs, CommandIs DEF Dst
      <4>2. LateInv'
        BY <2>1, <2>4, <4>1 DEF SentInv, LateInv, Failed
      <4>3. /\ StorTold' = StorTold /\ StorTaken' = StorTaken /\ RetrTold' = RetrTold
            /\ Flows' = Flows
        BY <2>1, <2>4, <4>1 DEF StorTold, StorTaken, RetrTold, Flows, SrcFlows, DstFlows, Count
      <4>4. RelayInv'
        BY <2>4, <4>3 DEF SentInv, RelayInv
      <4> QED
        BY <2>2, <3>1, <4>2, <4>4 DEF SentInv
    <3>3. CASE state \notin Late
      BY <2>2, <2>4, <3>1, <3>3, SendingIs DEF SentInv, LateInv, RelayInv
    <3> QED
      BY <3>2, <3>3
  <2> QED
    BY <2>1, <2>3, <2>4
<1> QED
  BY <1>1, <1>2

-----------------------------------------------------------------------------
(* What the calls of queue_process leave of SentInv. *)

\* What is told to a session that waits for nothing is sent at once.
LEMMA OrderedBy ==
  ASSUME NEW s \in SessionRec, IsIdle(s), s.state = "IDLE", NEW cmd \in Command,
         NEW id \in ReplyId, NEW r, r = CmdqNew([s EXCEPT !.replyId = id], cmd)
  PROVE  Ordered(r, cmd, id) /\ r.here /\ r.login /\ r.data = s.data
<1> DEFINE t == [s EXCEPT !.replyId = id]
           u == [t EXCEPT !.cmdq = Append(@, cmd)]
<1>1. s.here /\ s.login /\ s.cmdq = <<>> /\ s.isidle
  BY DEF IsIdle
<1>2. /\ t \in SessionRec /\ t.here /\ t.login /\ t.cmdq = <<>> /\ t.isidle /\ t.state = "IDLE"
      /\ t.replyId = id /\ t.data = s.data
  BY <1>1 DEF SessionRec
<1>3. r = Restart(u)
  BY <1>2 DEF CmdqNew
<1> HIDE DEF t
<1>4. Append(t.cmdq, cmd) = <<cmd>> /\ Append(t.cmdq, cmd) \in Seq(Command)
  BY <1>2
<1>5. /\ u \in SessionRec /\ u.here /\ u.login /\ u.cmdq = <<cmd>> /\ u.isidle /\ u.state = "IDLE"
      /\ u.replyId = id /\ u.data = s.data
  BY <1>2, <1>4 DEF SessionRec
<1> HIDE DEF u
<1>6. <<cmd>> # <<>>
  OBVIOUS
<1>7. r = [u EXCEPT !.isidle = FALSE]
  BY <1>3, <1>5, <1>6 DEF Restart, ForceBusy
<1> QED
  BY <1>5, <1>7 DEF Ordered, SessionRec

\* From phase 9 on no session is found lost, nor taken for an old one.
LEMMA LateSleep ==
  ASSUME SentInv, state \in Late, NEW ss,
         Again(ss) \/ Sleep(ss) \/ (\E nodelay : Settle(ss, nodelay))
  PROVE  \A p \in Side : sess'[p] = ss[p] /\ ~old'[p]
<1>1. Again(ss) \/ Sleep(ss)
  BY DEF Settle
<1>2. \A p \in Side : ~old[p]
  BY DEF SentInv, LateInv
<1> QED
  BY <1>1, <1>2 DEF Again, Sleep

\* From phase 9 on the phases come after one another.
LEMMA LateActions ==
  ASSUME SentInv, state \in Late, Pass
  PROVE  \/ Waiting \/ Phase9Start \/ Phase9Rest \/ Phase10Start \/ Phase10Wait \/ Phase11Start
         \/ Phase11Wait \/ Phase12Start
<1>1. Effective = state
  BY DEF SentInv, LateInv, BothHere, Effective
<1>2. \A st : In(st) => st \in Late
  BY <1>1 DEF In
<1>3. ~(Start \/ IsConnected \/ StartNextItem \/ ActiveEnd \/ Active \/ ItemFailed \/ RequeueItem)
  BY <1>2, SendingIs DEF Start, IsConnected, StartNextItem, ActiveEnd, Active, ItemFailed,
     RequeueItem
<1>4. ~(ErrorItem \/ RemoveItem \/ Empty \/ Idle \/ DirectoryPass)
  BY <1>2, SendingIs DEF ErrorItem, RemoveItem, Empty, Idle, DirectoryPass, DirectoryStart,
     DirectoryPhase1Idle, DirectoryPhase2Start, DirectoryPhase2Mkd, DirectoryPhase2Compare
<1>5. ~(FileStart \/ Phase1Start \/ Phase1Idle \/ Phase2Plain \/ Phase2Local \/ Phase2Client
        \/ Phase2Wait \/ Phase2Disable \/ Phase3Start)
  <2>1. ~(FileStart \/ Phase1Start \/ Phase1Idle \/ Phase2Plain)
    BY <1>2, SendingIs DEF FileStart, Phase1Start, Phase1Idle, Phase2Plain
  <2>2. ~(Phase2Local \/ Phase2Wait \/ Phase2Disable \/ Phase3Start)
    BY <1>2, SendingIs DEF Phase2Local, Phase2Wait, Phase2Disable, Phase3Start
  <2>3. Phase2Client => In("FILE_PHASE_2_START")
    BY DEF Phase2Client
  <2>4. ~In("FILE_PHASE_2_START")
    BY <1>2, SendingIs
  <2> QED
    BY <2>1, <2>2, <2>3, <2>4
<1>6. ~(Phase3Wait \/ Phase4Start \/ Phase5Start \/ Phase5RestWait \/ Phase6Start
        \/ Phase7Start \/ Phase7Wait \/ Phase8Start \/ Phase8Wait)
  BY <1>2, SendingIs DEF Phase3Wait, Phase4Start, Phase5Start, Phase5RestWait, Phase6Start,
     Phase7Start, Phase7Wait, Phase8Start, Phase8Wait
<1> QED
  BY <1>3, <1>4, <1>5, <1>6, Zenon DEF Pass, FilePass

\* What is left to show of a step that begins from phase 9 on.
LEMMA LateLeaves ==
  ASSUME SentInv, state \in Late, NEW ss,
         Again(ss) \/ Sleep(ss) \/ (\E nodelay : Settle(ss, nodelay)),
         \A p \in Side : ss[p].here /\ ss[p].login /\ ~ss[p].data,
         state' \in Late => ~Failed',
         state' \notin Sending => \A p \in Side : Mild(ss[p]),
         RelayInv'
  PROVE  SentInv'
<1>1. \A p \in Side : sess'[p] = ss[p] /\ ~old'[p]
  BY LateSleep
<1>2. OldInv' /\ QuietInv' /\ LateInv'
  BY <1>1 DEF OldInv, QuietInv, LateInv
<1> QED
  BY <1>2 DEF SentInv

\* The restart point is told, and a refused one, of which there is none, is
\* taken back.
LEMMA RestSent ==
  ASSUME IInv, SentInv, Phase9Start \/ Phase9Rest
  PROVE  SentInv'
<1>1. state \in {"FILE_PHASE_9_START", "FILE_PHASE_9_REST"}
  BY InState DEF Phase9Start, Phase9Rest
<1>2. state \in Late /\ state \notin Sending
  BY <1>1, SendingIs
<1>3. \A p \in Side : /\ sess[p].here /\ sess[p].login /\ ~sess[p].data /\ Mild(sess[p])
                      /\ sess[p] \in SessionRec
  BY <1>2 DEF SentInv, LateInv, OldInv, QuietInv, IInv, SessionInv
<1>4. ~Failed /\ UNCHANGED items
  BY <1>2 DEF SentInv, LateInv, Phase9Start, Phase9Rest, listVars
<1>5. ~Failed'
  BY <1>4 DEF Failed, Top
<1>6. state' \in {"FILE_PHASE_9_REST", "FILE_PHASE_10_START"}
  BY DEF Phase9Start, Phase9Rest
<1>7. state' \notin Sending
  BY <1>6, SendingIs
<1>8. RelayInv'
  BY <1>7, SendingIs DEF RelayInv
<1>9. CASE Phase9Rest
  <2>1. Again(sess)
    BY <1>4, <1>9 DEF Phase9Rest
  <2> QED
    BY <1>2, <1>3, <1>5, <1>8, <2>1, LateLeaves
<1>10. CASE Phase9Start
  <2> DEFINE C == {c \in Flags({"PHASE_9_SRC_REST", "PHASE_9_DST_REST"}, "REST") :
                     c.op = IF Top.rest THEN "ON" ELSE "OFF"}
  <2>1. PICK ss : /\ \E nodelay : Settle(ss, nodelay)
                  /\ \A p \in Side : Adds(sess[p], ss[p], C)
    <3> HIDE DEF C
    <3>1. C = {c \in Flags({"PHASE_9_SRC_REST", "PHASE_9_DST_REST"}, "REST") :
                 c.op = IF Top.rest THEN "ON" ELSE "OFF"}
      BY DEF C
    <3>2. \E ss : /\ \E nodelay : Settle(ss, nodelay)
                  /\ \A p \in Side :
                       /\ Adds(sess[p], ss[p], C)
                       /\ ss[p].cmdq # <<>> \/ ("REST" \in sess[p].status) = Top.rest
                          \/ ~sess[p].here
      BY <1>10, <3>1, Phase9Tells
    <3> QED
      BY <3>2
  <2>2. C \subseteq Ordinary
    BY DEF Flags, Ordinary
  <2>3. \A p \in Side : sess[p].cmdq = <<>>
    BY <1>10 DEF Phase9Start, BothIdle, IsIdle
  <2> HIDE DEF C
  <2>4. \A p \in Side : ss[p].cmdq \in Seq(Ordinary)
    <3> TAKE p \in Side
    <3>1. <<>> \in Seq(C)
      OBVIOUS
    <3>2. ss[p].cmdq \in Seq(C)
      BY <2>1, <2>3, <3>1 DEF Adds
    <3>3. Seq(C) \subseteq Seq(Ordinary)
      BY <2>2, SeqMonotonic
    <3> QED
      BY <3>2, <3>3
  <2>5. \A p \in Side : ss[p].here /\ ss[p].login /\ ~ss[p].data /\ Mild(ss[p])
    BY <1>3, <2>1, <2>4 DEF Adds, Kept, Same, Mild
  <2> QED
    BY <1>2, <1>5, <1>8, <2>1, <2>5, LateLeaves
<1> QED
  BY <1>9, <1>10

\* STOR is told.
LEMMA StorSent ==
  ASSUME IInv, SentInv, Phase10Start
  PROVE  SentInv'
<1> DEFINE x == [Top EXCEPT !.sxfer = 0, !.dxfer = 0]
           ss == [sess EXCEPT ![Dst] = Stor(@)]
<1>1. /\ In("FILE_PHASE_10_START") /\ BothIdle /\ src' = src
      /\ "FILE_PHASE_10_START" \in FileState \cup DirectoryState
  BY DEF Phase10Start, FileState
<1>2. state = "FILE_PHASE_10_START"
  BY <1>1, InState
<1>3. state \in Late /\ state \notin Sending
  BY <1>2, SendingIs
<1>4. \A p \in Side : /\ sess[p].here /\ sess[p].login /\ ~sess[p].data /\ Mild(sess[p])
                      /\ sess[p] \in SessionRec /\ IsIdle(sess[p])
  BY <1>1, <1>3 DEF SentInv, LateInv, OldInv, QuietInv, IInv, SessionInv, BothIdle
<1>5. ~Failed
  BY <1>3 DEF SentInv, LateInv
<1>6. /\ src \in Side /\ Dst \in Side /\ Dst # src /\ \A p \in Side : p \in {src, Dst}
      /\ sess \in [Side -> SessionRec]
  BY <1>1, TwoSides
<1>7. CASE stop
  <2>1. Sleep(sess) /\ state' = "IDLE"
    BY <1>7 DEF Phase10Start
  <2>2. state' \notin Late /\ state' \notin Sending
    BY <2>1, SendingIs
  <2>3. RelayInv'
    BY <2>2, SendingIs DEF RelayInv
  <2> QED
    BY <1>3, <1>4, <2>1, <2>2, <2>3, LateLeaves
<1>8. CASE ~stop
  <2>1. /\ Sleep(ss) /\ items' = SetTop(x) /\ wire'.got = "wait"
        /\ state' = "FILE_PHASE_10_WAIT"
    BY <1>8 DEF Phase10Start
  <2>2. /\ ss[Dst] = CmdqNew([sess[Dst] EXCEPT !.replyId = "PHASE_12_DST_226"], TheStor)
        /\ ss[src] = sess[src]
    BY <1>6 DEF Stor, TheStor
  <2>3. TheStor \in Command /\ "PHASE_12_DST_226" \in ReplyId
    BY CmdType DEF TheStor, Op, Event, ReplyId
  <2>4. /\ Ordered(ss[Dst], TheStor, "PHASE_12_DST_226") /\ ss[Dst].here /\ ss[Dst].login
        /\ ss[Dst].data = sess[Dst].data
    <3>1. sess[Dst] \in SessionRec /\ IsIdle(sess[Dst]) /\ sess[Dst].state = "IDLE"
      BY <1>4, <1>6 DEF Mild
    <3> HIDE DEF ss
    <3> QED
      BY <2>2, <2>3, <3>1, OrderedBy
  <2>5. Rests(ss[src])
    BY <1>4, <1>6, <2>2 DEF IsIdle, Mild, Rests
  <2>6. Top' = x /\ x.sxfer = 0 /\ x.dxfer = 0 /\ x.sfail = Top.sfail /\ x.dfail = Top.dfail
    <3>1. items # <<>> /\ Top \in Triable /\ Top \in Item
      BY <1>1, InPhase DEF IInv, Triable
    <3>2. x \in Triable
      BY <3>1, CountersType, Zenon
    <3>3. x.sxfer = 0 /\ x.dxfer = 0 /\ x.sfail = Top.sfail /\ x.dfail = Top.dfail
      BY <3>1 DEF Item
    <3>4. x \in Item
      BY <3>2 DEF Triable
    <3> HIDE DEF x, ss
    <3> QED
      BY <2>1, <3>1, <3>3, <3>4, TopSet
  <2> HIDE DEF x, ss
  <2>7. \A p \in Side : ss[p].here /\ ss[p].login /\ ~ss[p].data
    BY <1>4, <1>6, <2>2, <2>4
  <2>8. ~Failed'
    BY <1>5, <2>6 DEF Failed
  <2>9. \A p \in Side : sess'[p] = ss[p]
    BY <1>3, <2>1, LateSleep
  <2>10. StorTold'
    <3>1. Dst' = Dst
      BY <1>1 DEF Dst
    <3> QED
      BY <1>1, <1>6, <2>1, <2>4, <2>5, <2>6, <2>9, <3>1 DEF StorTold, Count
  <2>11. RelayInv'
    BY <2>1, <2>10 DEF RelayInv
  <2>12. state' \in Sending
    BY <2>1, SendingIs
  <2> QED
    BY <1>3, <2>1, <2>7, <2>8, <2>11, <2>12, LateLeaves
<1> QED
  BY <1>7, <1>8

\* STOR was accepted, RETR is told, RETR was accepted.
LEMMA RetrSent ==
  ASSUME IInv, SentInv, Phase10Wait \/ Phase11Start \/ Phase11Wait
  PROVE  SentInv'
<1>1. /\ state \in {"FILE_PHASE_10_WAIT", "FILE_PHASE_11_START", "FILE_PHASE_11_WAIT"}
      /\ In(state) /\ BothIdle /\ UNCHANGED <<src, items, wire>>
  BY InState DEF Phase10Wait, Phase11Start, Phase11Wait, listVars, worldVars
<1>2. state \in Late /\ state \in FileState
  BY <1>1, SendingIs
<1>3. \A p \in Side : /\ sess[p].here /\ sess[p].login /\ ~sess[p].data
                      /\ sess[p] \in SessionRec /\ IsIdle(sess[p])
  BY <1>1, <1>2 DEF SentInv, LateInv, OldInv, IInv, SessionInv, BothIdle
<1>4. ~Failed
  BY <1>2 DEF SentInv, LateInv
<1>5. /\ src \in Side /\ Dst \in Side /\ Dst # src /\ \A p \in Side : p \in {src, Dst}
      /\ sess \in [Side -> SessionRec]
  BY <1>1, <1>2, TwoSides
<1>6. Top' = Top /\ Dst' = Dst
  BY <1>1 DEF Top, Dst
<1>7. ~Failed'
  BY <1>4, <1>6 DEF Failed
<1>8. ~StorTold /\ ~RetrTold
  <2>1. sess[src].cmdq = <<>> /\ sess[Dst].cmdq = <<>>
    BY <1>3, <1>5 DEF IsIdle
  <2> QED
    BY <2>1 DEF StorTold, RetrTold, Ordered
<1>9. CASE Phase10Wait
  <2>1. state = "FILE_PHASE_10_WAIT" /\ state' = "FILE_PHASE_11_START" /\ Again(sess)
    BY <1>4, <1>9, InState DEF Phase10Wait
  <2>2. StorTaken'
    <3>1. StorTaken
      BY <1>8, <2>1 DEF SentInv, RelayInv
    <3> QED
      BY <1>1, <1>6, <2>1, <3>1 DEF StorTaken, Count, Again
  <2>3. RelayInv'
    BY <2>1, <2>2 DEF RelayInv
  <2>4. state' \in Sending
    BY <2>1, SendingIs
  <2> QED
    BY <1>2, <1>3, <1>7, <2>1, <2>3, <2>4, LateLeaves
<1>10. CASE Phase11Wait
  <2>1. state = "FILE_PHASE_11_WAIT" /\ state' = "FILE_PHASE_12_START" /\ Again(sess)
    BY <1>4, <1>10, InState DEF Phase11Wait
  <2>2. Flows'
    <3>1. Flows
      BY <1>8, <2>1 DEF SentInv, RelayInv
    <3> QED
      BY <1>1, <1>6, <2>1, <3>1 DEF Flows, SrcFlows, DstFlows, Again
  <2>3. RelayInv'
    BY <2>1, <2>2 DEF RelayInv
  <2>4. state' \in Sending
    BY <2>1, SendingIs
  <2> QED
    BY <1>2, <1>3, <1>7, <2>1, <2>3, <2>4, LateLeaves
<1>11. CASE Phase11Start
  <2> DEFINE ss == [sess EXCEPT ![src] = Retr(@)]
  <2>1. state = "FILE_PHASE_11_START" /\ state' = "FILE_PHASE_11_WAIT" /\ Sleep(ss)
    BY <1>11, InState DEF Phase11Start
  <2>2. StorTaken
    BY <2>1 DEF SentInv, RelayInv
  <2>3. /\ ss[src] = CmdqNew([sess[src] EXCEPT !.replyId = "PHASE_12_SRC_226"], TheRetr)
        /\ ss[Dst] = sess[Dst]
    BY <1>5 DEF Retr, TheRetr
  <2>4. TheRetr \in Command /\ "PHASE_12_SRC_226" \in ReplyId
    BY CmdType DEF TheRetr, Op, Event, ReplyId
  <2> HIDE DEF ss
  <2>5. /\ Ordered(ss[src], TheRetr, "PHASE_12_SRC_226") /\ ss[src].here /\ ss[src].login
        /\ ss[src].data = sess[src].data
    <3>1. sess[src] \in SessionRec /\ IsIdle(sess[src]) /\ sess[src].state = "IDLE"
      BY <1>3, <1>5, <2>2 DEF StorTaken, Rests
    <3> QED
      BY <2>3, <2>4, <3>1, OrderedBy
  <2>6. \A p \in Side : ss[p].here /\ ss[p].login /\ ~ss[p].data
    BY <1>3, <1>5, <2>3, <2>5
  <2>7. \A p \in Side : sess'[p] = ss[p]
    BY <1>2, <2>1, LateSleep
  <2>8. RetrTold'
    BY <1>1, <1>5, <1>6, <2>2, <2>3, <2>5, <2>7 DEF StorTaken, RetrTold, Count
  <2>9. RelayInv'
    BY <2>1, <2>8 DEF RelayInv
  <2>10. state' \in Sending
    BY <2>1, SendingIs
  <2> QED
    BY <1>2, <1>7, <2>1, <2>6, <2>9, <2>10, LateLeaves
<1> QED
  BY <1>9, <1>10, <1>11

\* Both sides have reported the end, and wait for nothing.
LEMMA EndSent ==
  ASSUME IInv, SentInv, Phase12Start
  PROVE  SentInv'
<1> DEFINE noop == Cmd("NOOP", "PHASE_12_NOOP")
           ss == [p \in Side |-> CmdqNew(sess[p], noop)]
<1>1. state = "FILE_PHASE_12_START" /\ BothIdle /\ BothEnded
  BY InState DEF Phase12Start
<1>2. state \in Late /\ state \in FileState
  BY <1>1, SendingIs
<1>3. \A p \in Side : sess[p].here /\ sess[p].login /\ ~sess[p].data /\ sess[p] \in SessionRec
  BY <1>2 DEF SentInv, LateInv, OldInv, IInv, SessionInv
<1>4. state' = "REMOVE_ITEM" /\ Again(ss)
  BY <1>2 DEF SentInv, LateInv, Phase12Start
<1>5. src \in Side /\ Dst \in Side /\ \A p \in Side : p \in {src, Dst}
  BY <1>2 DEF IInv, ListInv, HeadPresent, Dst, Other, Side
<1>6. \A p \in Side : Mild(sess[p])
  <2>1. Flows
    BY <1>1 DEF SentInv, RelayInv
  <2>2. Rests(sess[src]) /\ Rests(sess[Dst])
    BY <1>1, <2>1 DEF BothEnded, Flows, SrcFlows, DstFlows
  <2>3. <<>> \in Seq(Ordinary)
    OBVIOUS
  <2> QED
    BY <1>5, <2>2, <2>3 DEF Rests, Mild, Sent
<1>7. noop \in Command /\ noop \in Ordinary
  <2>1. noop \in Command /\ noop.op = "NOOP"
    BY CmdType DEF Op, Event, Cmd
  <2> QED
    BY <2>1 DEF Ordinary
<1> HIDE DEF noop
<1>8. \A p \in Side : /\ ss[p].here /\ Mild(ss[p]) /\ ss[p].login = sess[p].login
                      /\ ss[p].data = sess[p].data
  <2> TAKE p \in Side
  <2>1. Adds(sess[p], CmdqNew(sess[p], noop), Ordinary)
    BY <1>3, <1>7, CmdqNewAdds
  <2> QED
    BY <1>3, <1>6, <2>1, MildAdds DEF Adds, Kept, Same
<1> HIDE DEF ss
<1>9. state' \notin Late /\ RelayInv'
  BY <1>4, SendingIs DEF RelayInv
<1> QED
  BY <1>2, <1>3, <1>4, <1>8, <1>9, LateLeaves

\* From phase 9 on.
LEMMA LatePass ==
  ASSUME IInv, SentInv, state \in Late, Pass
  PROVE  SentInv'
<1>1. CASE Waiting
  <2>1. Sleep(sess) /\ UNCHANGED <<state, src, items, wire>>
    BY <1>1 DEF Waiting, queueVars, listVars, worldVars
  <2>2. Top' = Top /\ Dst' = Dst
    BY <2>1 DEF Top, Dst
  <2>3. \A p \in Side : sess'[p] = sess[p] /\ ~old'[p]
    BY <2>1, LateSleep
  <2>4. src \in Side /\ Dst \in Side
    <3>1. state \in FileState
      BY SendingIs
    <3> QED
      BY <3>1 DEF IInv, ListInv, HeadPresent, Dst, Other, Side
  <2>5. /\ StorTold' = StorTold /\ StorTaken' = StorTaken /\ RetrTold' = RetrTold
        /\ Flows' = Flows
    BY <2>1, <2>2, <2>3, <2>4 DEF StorTold, StorTaken, RetrTold, Flows, SrcFlows, DstFlows, Count
  <2>6. RelayInv'
    BY <2>1, <2>5 DEF SentInv, RelayInv
  <2>7. OldInv' /\ QuietInv' /\ LateInv'
    BY <2>1, <2>2, <2>3 DEF SentInv, OldInv, QuietInv, LateInv, Failed
  <2> QED
    BY <2>6, <2>7 DEF SentInv
<1> QED
  BY <1>1, LateActions, RestSent, StorSent, RetrSent, EndSent

\* Where files only are queued no call works on a directory.
LEMMA NoDirectories ==
  ASSUME FilesInv
  PROVE  ~DirectoryPass
<1> SUFFICES ASSUME DirectoryPass PROVE FALSE
  OBVIOUS
<1>1. PICK st \in DirectoryState : In(st)
  BY DEF DirectoryPass, DirectoryState, DirectoryStart, DirectoryPhase1Idle,
     DirectoryPhase2Start, DirectoryPhase2Mkd, DirectoryPhase2Compare
<1>2. state \in DirectoryState
  BY <1>1, InState DEF DirectoryState
<1> QED
  BY <1>2 DEF FilesInv

\* Before phase 9 the queue gets there only when phase 8 is answered.
LEMMA EarlyTo ==
  ASSUME IInv, state \notin Late, Pass, state' \in Late
  PROVE  Phase8Wait
<1>1. ~Waiting
  BY WaitingIs
<1>2. Later
  BY <1>1, NotLater, SendingIs
<1>3. state' \notin Late \ {"FILE_PHASE_9_START"}
  <2>1. ~(Phase9Start \/ Phase9Rest \/ Phase10Start \/ Phase10Wait \/ Phase11Start \/ Phase11Wait)
    BY InState, SendingIs DEF Phase9Start, Phase9Rest, Phase10Start, Phase10Wait, Phase11Start,
       Phase11Wait
  <2> QED
    BY <1>2, <2>1, LaterFrom, SendingIs
<1>4. state' = "FILE_PHASE_9_START"
  BY <1>3, SendingIs
<1>5. CASE Phase3Wait \/ Phase4Start \/ Phase5Start \/ Phase5RestWait
  BY <1>4, <1>5 DEF Phase3Wait, Phase4Start, Phase5Start, Phase5RestWait
<1>6. CASE Phase6Start \/ Phase7Start \/ Phase7Wait \/ Phase8Start
  BY <1>4, <1>6 DEF Phase6Start, Phase7Start, Phase7Wait, Phase8Start
<1>7. CASE Phase9Start \/ Phase9Rest \/ Phase10Start
  BY <1>4, <1>7 DEF Phase9Start, Phase9Rest, Phase10Start
<1>8. CASE Phase10Wait \/ Phase11Start \/ Phase11Wait \/ Phase12Start
  BY <1>4, <1>8 DEF Phase10Wait, Phase11Start, Phase11Wait, Phase12Start
<1> QED
  BY <1>2, <1>5, <1>6, <1>7, <1>8, Zenon DEF Later

\* The sessions that took the place of lost ones are dropped before a poll.
LEMMA PassOld ==
  ASSUME Pass
  PROVE  (loop' = "run" /\ UNCHANGED old) \/ \A p \in Side : ~old'[p]
<1>1. ASSUME NEW ss, Again(ss) \/ Sleep(ss) \/ (\E nodelay : Settle(ss, nodelay))
      PROVE  (loop' = "run" /\ UNCHANGED old) \/ \A p \in Side : ~old'[p]
  BY <1>1 DEF Again, Sleep, Settle
<1>2. CASE Start \/ IsConnected \/ StartNextItem \/ ActiveEnd \/ Active \/ ItemFailed \/ Empty
  BY <1>1, <1>2 DEF Start, IsConnected, StartNextItem, ActiveEnd, Active, ItemFailed, Empty
<1>3. CASE RequeueItem \/ ErrorItem \/ RemoveItem \/ Idle \/ Waiting
  BY <1>1, <1>3 DEF RequeueItem, ErrorItem, RemoveItem, NextItem, Idle, Waiting
<1>4. CASE FilePass
  <2>1. CASE FileStart \/ Phase1Start \/ Phase1Idle \/ Phase2Plain \/ Phase2Local \/ Phase2Wait
    BY <1>1, <2>1 DEF FileStart, Phase1Start, Phase1Idle, Phase2Plain, Phase2Local, Phase2Wait
  <2>2. CASE Phase2Client
    BY <1>1, <2>2 DEF Phase2Client
  <2>3. CASE Phase2Disable \/ Phase3Start \/ Phase3Wait \/ Phase4Start \/ Phase5Start
             \/ Phase5RestWait \/ Phase6Start
    BY <1>1, <2>3 DEF Phase2Disable, Phase3Start, Phase3Wait, Phase4Start, Phase5Start,
       Phase5RestWait, Phase6Start
  <2>4. CASE Phase7Start \/ Phase7Wait \/ Phase8Start \/ Phase8Wait \/ Phase9Start \/ Phase9Rest
    BY <1>1, <2>4 DEF Phase7Start, Phase7Wait, Phase8Start, Phase8Wait, Phase9Start, Phase9Rest
  <2>5. CASE Phase10Start \/ Phase10Wait \/ Phase11Start \/ Phase11Wait \/ Phase12Start
    BY <1>1, <2>5 DEF Phase10Start, Phase10Wait, Phase11Start, Phase11Wait, Phase12Start
  <2> QED
    BY <1>4, <2>1, <2>2, <2>3, <2>4, <2>5, Zenon DEF FilePass
<1>5. CASE DirectoryPass
  <2>1. CASE DirectoryPhase2Start
    BY <1>1, <2>1 DEF DirectoryPhase2Start
  <2>2. CASE ~DirectoryPhase2Start
    BY <1>1, <1>5, <2>2 DEF DirectoryPass, DirectoryStart, DirectoryPhase1Idle, DirectoryPhase2Mkd,
       DirectoryPhase2Compare
  <2> QED
    BY <2>1, <2>2
<1> QED
  BY <1>2, <1>3, <1>4, <1>5, Zenon DEF Pass

\* What is told in phase 1 is sent.
LEMMA CwdMild ==
  ASSUME NEW s \in SessionRec, Mild(s), NEW dir \in Path, NEW ev \in Event,
         NEW r, r = Cwd(s, dir, ev)
  PROVE  Mild(r) /\ r.login = s.login /\ r.data = s.data
<1> DEFINE t == [s EXCEPT !.saved = dir]
           cmd == [op |-> "CWD", arg |-> dir, ev |-> ev]
<1>1. /\ IsIn(s, dir) => r = s
      /\ ~IsIn(s, dir) => /\ Kept(t, r)
                          /\ r.cmdq = IF s.here THEN Append(s.cmdq, cmd) ELSE s.cmdq
  BY CwdIs
<1>2. /\ t.here = s.here /\ t.isidle = s.isidle /\ t.cmdq = s.cmdq /\ t.state = s.state
      /\ t.login = s.login /\ t.data = s.data
  BY DEF SessionRec
<1>3. cmd \in Ordinary
  BY DEF Ordinary, Command
<1> HIDE DEF t, cmd
<1>4. Append(s.cmdq, cmd) \in Seq(Ordinary)
  BY <1>3 DEF Mild
<1>5. CASE ~IsIn(s, dir)
  <2>1. Kept(t, r) /\ r.cmdq \in Seq(Ordinary)
    BY <1>1, <1>4, <1>5 DEF Mild
  <2>2. Sent(t)
    BY <1>2 DEF Mild, Sent
  <2> QED
    BY <1>2, <2>1, <2>2 DEF Mild, Kept
<1> QED
  BY <1>1, <1>5

\* A session that a call leaves as it should before phase 9.
Fair(p) == Mild(sess'[p]) /\ ~sess'[p].data /\ (sess'[p].login => sess[p].login)

LEMMA FairLeaves ==
  ASSUME NEW ss, Again(ss) \/ Sleep(ss) \/ (\E nodelay : Settle(ss, nodelay)), NEW p \in Side,
         ss[p] = NewSession \/ (Mild(ss[p]) /\ ~ss[p].data /\ (ss[p].login => sess[p].login))
  PROVE  Fair(p)
<1>1. sess'[p] = NoSession \/ sess'[p] = ss[p]
  BY Leaves
<1> QED
  BY <1>1, MildNew DEF Fair

\* A file's phase before the ninth.
LEMMA EarlyFile ==
  ASSUME IInv, FlightInv, SentInv, state \notin Late, FilePass, NEW p \in Side
  PROVE  Fair(p)
<1>0. /\ \A q \in Side : sess[q] \in SessionRec /\ Mild(sess[q]) /\ ~sess[q].data
      /\ state \notin Sending /\ sess \in [Side -> SessionRec]
  BY SendingIs DEF SentInv, QuietInv, OldInv, IInv, SessionInv
<1>n. (Again(sess) \/ Sleep(sess)) => Fair(p)
  BY <1>0, FairLeaves
<1>1. CASE Phase1Start
  <2> DEFINE ss == [sess EXCEPT ![src] = Cwd(@, Top.dir, "PHASE_1_SRC_CWD"),
                                ![Dst] = Cwd(@, Top.dir, "PHASE_1_DST_CWD")]
  <2>1. /\ In("FILE_PHASE_1_START") /\ \E nodelay : Settle(ss, nodelay)
        /\ "FILE_PHASE_1_START" \in FileState \cup DirectoryState
    BY <1>1 DEF Phase1Start, FileState
  <2>2. /\ src \in Side /\ Dst \in Side /\ Dst # src /\ p \in {src, Dst} /\ Top.dir \in Path
    BY <2>1, TwoSessions, TwoSides DEF IInv
  <2>3. "PHASE_1_SRC_CWD" \in Event /\ "PHASE_1_DST_CWD" \in Event
    BY DEF Event
  <2>4. PICK ev \in Event : ss[p] = Cwd(sess[p], Top.dir, ev)
    BY <1>0, <2>2, <2>3
  <2> HIDE DEF ss
  <2>5. Mild(ss[p]) /\ ss[p].login = sess[p].login /\ ss[p].data = sess[p].data
    BY <1>0, <2>2, <2>4, CwdMild
  <2> QED
    BY <1>0, <2>1, <2>5, FairLeaves
<1>2. CASE Phase2Disable
  <2> DEFINE ss == [q \in Side |-> ClientOff(q)]
             C == Named({"PHASE_2_DISABLE"}, {"OFF"})
  <2>1. Again(ss)
    BY <1>2 DEF Phase2Disable
  <2>2. ss[p] = ClientOff(p) /\ Adds(sess[p], ClientOff(p), C)
    BY ClientOffAdds DEF IInv
  <2>3. C \subseteq Ordinary
    BY DEF Named, Ordinary
  <2>4. sess[p].cmdq = <<>>
    BY PassEmpties DEF Empties
  <2> HIDE DEF ss, C
  <2>5. ss[p].cmdq \in Seq(Ordinary)
    <3>1. <<>> \in Seq(C)
      OBVIOUS
    <3>2. ss[p].cmdq \in Seq(C)
      BY <2>2, <2>4, <3>1 DEF Adds
    <3>3. Seq(C) \subseteq Seq(Ordinary)
      BY <2>3, SeqMonotonic
    <3> QED
      BY <3>2, <3>3
  <2>6. Mild(ss[p]) /\ ss[p].login = sess[p].login /\ ss[p].data = sess[p].data
    BY <1>0, <2>2, <2>5 DEF Adds, Kept, Mild
  <2> QED
    BY <1>0, <2>1, <2>6, FairLeaves
<1>3. CASE ~Phase1Start /\ state' \in FileState
  <2>1. state' \notin Sending
    <3>1. ~Phase8Wait \/ state' \in {"ITEM_FAILED", "FILE_PHASE_9_START"}
      BY DEF Phase8Wait
    <3>2. Pass
      BY DEF Pass
    <3> QED
      BY <3>1, <3>2, EarlyTo, SendingIs
  <2>2. Told(state')
    BY <1>3, FilePassTold
  <2>3. CASE sess'[p] = NoSession
    BY <2>3, MildNew DEF Fair
  <2>4. CASE Kept(sess[p], sess'[p]) /\ sess'[p].cmdq \in Seq(Asked(state', p) \cap Still)
    <3>1. Asked(state', p) \subseteq Ordinary
      BY <1>3, <2>1, AskedOrdinary
    <3>2. Seq(Asked(state', p) \cap Still) \subseteq Seq(Ordinary)
      BY <3>1, SeqMonotonic
    <3>3. sess'[p].cmdq \in Seq(Ordinary)
      BY <2>4, <3>2
    <3> QED
      BY <1>0, <2>4, <3>3 DEF Fair, Mild, Kept
  <2> QED
    BY <2>2, <2>3, <2>4 DEF Told
<1>4. CASE ~Phase2Disable /\ state' \notin FileState
  <2>1. ~(FileStart \/ Phase1Start \/ Phase2Plain \/ Phase2Local)
    BY <1>4 DEF FileStart, Phase1Start, Phase2Plain, Phase2Local, FileState
  <2>2. ~(Phase2Client \/ Phase2Wait)
    BY <1>4 DEF Phase2Client, Phase2Wait, FileState
  <2>3. ~(Phase3Start \/ Phase3Wait \/ Phase4Start \/ Phase5Start \/ Phase6Start \/ Phase8Start)
    BY <1>4 DEF Phase3Start, Phase3Wait, Phase4Start, Phase5Start, Phase6Start, Phase8Start,
       FileState
  <2>4. ~(Phase9Start \/ Phase9Rest \/ Phase10Start \/ Phase10Wait)
    BY InState, SendingIs DEF Phase9Start, Phase9Rest, Phase10Start, Phase10Wait
  <2>5. ~(Phase11Start \/ Phase11Wait \/ Phase12Start)
    BY InState, SendingIs DEF Phase11Start, Phase11Wait, Phase12Start
  <2>6. Phase1Idle \/ Phase5RestWait \/ Phase7Start \/ Phase7Wait \/ Phase8Wait
    BY <1>4, <2>1, <2>2, <2>3, <2>4, <2>5, Zenon DEF FilePass
  <2>7. Again(sess) \/ Sleep(sess)
    BY <1>4, <2>6 DEF Phase1Idle, Phase5RestWait, Phase7Start, Phase7Wait, Phase8Wait, FileState
  <2> QED
    BY <1>n, <2>7
<1> QED
  BY <1>1, <1>2, <1>3, <1>4

\* Any other call before phase 9.
LEMMA EarlyOther ==
  ASSUME IInv, FilesInv, SentInv, state \notin Late, Pass, ~FilePass, NEW p \in Side
  PROVE  Fair(p)
<1>0. /\ \A q \in Side : sess[q] \in SessionRec /\ Mild(sess[q]) /\ ~sess[q].data
  BY SendingIs DEF SentInv, QuietInv, OldInv, IInv, SessionInv
<1>n. (Again(sess) \/ Sleep(sess)) => Fair(p)
  BY <1>0, FairLeaves
<1>1. CASE Start \/ StartNextItem \/ ActiveEnd \/ Active \/ ItemFailed \/ RequeueItem
           \/ ErrorItem \/ RemoveItem \/ Idle \/ Waiting
  <2>1. Again(sess) \/ Sleep(sess)
    BY <1>1 DEF Start, StartNextItem, ActiveEnd, Active, ItemFailed, RequeueItem, ErrorItem,
       RemoveItem, NextItem, Idle, Waiting
  <2> QED
    BY <1>n, <2>1
<1>2. CASE IsConnected
  <2> DEFINE ss == [q \in Side |-> IF sess[q].here THEN sess[q] ELSE NewSession]
  <2>1. \E nodelay : Settle(ss, nodelay)
    BY <1>2 DEF IsConnected
  <2>2. ss[p] \in {sess[p], NewSession}
    OBVIOUS
  <2> HIDE DEF ss
  <2> QED
    BY <1>0, <2>1, <2>2, FairLeaves
<1>3. CASE Empty
  <2> DEFINE quit == Cmd("QUIT", "PHASE_12_NOOP")
             ss == [q \in Side |-> CmdqNew(sess[q], quit)]
  <2>1. Sleep(ss) /\ ss[p] = CmdqNew(sess[p], quit)
    BY <1>3 DEF Empty
  <2>2. quit \in Command /\ quit \in Ordinary
    <3>1. quit \in Command /\ quit.op = "QUIT"
      BY CmdType DEF Op, Event, Cmd
    <3> QED
      BY <3>1 DEF Ordinary
  <2> HIDE DEF ss, quit
  <2>3. Adds(sess[p], CmdqNew(sess[p], quit), Ordinary)
    BY <1>0, <2>2, CmdqNewAdds
  <2>4. Mild(ss[p]) /\ ss[p].login = sess[p].login /\ ss[p].data = sess[p].data
    BY <1>0, <2>1, <2>3, MildAdds
  <2> QED
    BY <1>0, <2>1, <2>4, FairLeaves
<1>5. ~DirectoryPass
  BY NoDirectories
<1> QED
  BY <1>1, <1>2, <1>3, <1>5, Zenon DEF Pass

\* Before phase 9.
LEMMA EarlyPass ==
  ASSUME IInv, FlightInv, FilesInv, SentInv, state \notin Late, Pass
  PROVE  SentInv'
<1>1. \A p \in Side : Fair(p)
  BY EarlyFile, EarlyOther
<1>2. (loop' = "run" /\ UNCHANGED old) \/ \A p \in Side : ~old'[p]
  BY PassOld
<1>3. OldInv'
  <2> SUFFICES ASSUME NEW p \in Side, old'[p]
               PROVE  ~sess'[p].login /\ loop' # "poll"
    BY <1>1 DEF OldInv, Fair
  <2>1. loop' = "run" /\ old[p]
    BY <1>2
  <2> QED
    BY <1>1, <2>1 DEF SentInv, OldInv, Fair
<1>4. QuietInv'
  BY <1>1 DEF QuietInv, Fair
<1>5. CASE state' \notin Late
  BY <1>3, <1>4, <1>5, SendingIs DEF SentInv, LateInv, RelayInv
<1>6. CASE state' \in Late
  <2>1. Phase8Wait
    BY <1>6, EarlyTo
  <2>2. BothIdle /\ Again(sess) /\ ~Failed /\ UNCHANGED items /\ state' = "FILE_PHASE_9_START"
    BY <1>6, <2>1, SendingIs DEF Phase8Wait, listVars
  <2>3. \A p \in Side : sess[p].here /\ sess[p].login
    BY <2>2 DEF BothIdle, IsIdle
  <2>4. LateInv'
    BY <2>2, <2>3 DEF SentInv, OldInv, LateInv, Again, Failed, Top
  <2>5. RelayInv'
    BY <2>2 DEF RelayInv
  <2> QED
    BY <1>3, <1>4, <2>4, <2>5 DEF SentInv
<1> QED
  BY <1>5, <1>6

LEMMA SentInit ==
  ASSUME Init
  PROVE  SentInv
<1>1. /\ state = "IDLE" /\ \A p \in Side : sess[p] = NewSession /\ ~old[p]
  BY DEF Init
<1>2. "IDLE" \notin Late
  BY SendingIs
<1>3. OldInv /\ QuietInv
  BY <1>1, MildNew DEF OldInv, QuietInv
<1> QED
  BY <1>1, <1>2, <1>3, SendingIs DEF SentInv, LateInv, RelayInv

\* SentInv is kept.
LEMMA SentNext ==
  ASSUME NoStops, Reliable, NoRestarts, IInv, FlightInv, FilesInv, SentInv, [Next]_vars
  PROVE  SentInv'
<1>1. ASSUME NEW p \in Side, SessionEvent(p)
      PROVE  SentInv'
  BY <1>1, EventSent
<1>2. CASE UNCHANGED vars
  <2>1. UNCHANGED <<state, src, sess, loop, items, wire, old>>
    BY <1>2 DEF vars, queueVars, listVars, worldVars
  <2>2. UNCHANGED <<Top, Dst, Failed, StorTold, StorTaken, RetrTold, Flows>>
    <3>1. Top' = Top /\ Dst' = Dst
      BY <2>1 DEF Top, Dst
    <3> QED
      BY <2>1, <3>1 DEF Failed, StorTold, StorTaken, RetrTold, Flows, SrcFlows, DstFlows, Count
  <2> QED
    BY <2>1, <2>2 DEF SentInv, OldInv, QuietInv, LateInv, RelayInv
<1> QED
  BY <1>1, <1>2, EarlyPass, LatePass, CommandSent DEF Next

\* A session that is ready to send has sent what it was given, as long as no
\* connection is lost, every transfer that was begun is carried through, files
\* only are queued and GO finds the queue at rest ("once it cleared, isidle means we
\* will finally send the next command", session.c:500-501).  The end of a transfer
\* clears forcebusy and does not restart the queue (session.c:1554): nothing may be
\* given to a session before it, and these are the ways in which something is.
THEOREM AlwaysSent ==
  ASSUME NoStops, FilesOnly, Reliable, NoRestarts
  PROVE  Spec => []NothingUnsent
<1>1. Init => FilesInv /\ SentInv
  BY DoneInit, SentInit
<1>2. IInv /\ FlightInv /\ BeliefInv /\ FilesInv /\ SentInv /\ [Next]_vars
         => FilesInv' /\ SentInv'
  BY FilesNext, SentNext
<1>3. IInv /\ SentInv => NothingUnsent
  BY SentIs DEF SentInv
<1> QED
  BY <1>1, <1>2, <1>3, PhaseInvariance, PTL DEF Spec

-----------------------------------------------------------------------------
(* Outside a file's phases too a reply is taken for what waits for it.       *)

\* What every state waits for.
Loose == {c \in Command : Awaited(c.ev) = State}

\* States of a queue at work that wait for less.
Picky ==
  {"ACTIVE", "DIRECTORY_START", "DIRECTORY_PHASE_1_IDLE", "DIRECTORY_PHASE_2_START",
   "DIRECTORY_PHASE_2_COMPARE"}

\* What may be unanswered outside the phases of a file.
AskedElse(st) ==
  CASE st \in {"ACTIVE", "DIRECTORY_START", "DIRECTORY_PHASE_2_START"} -> {}
    [] st = "DIRECTORY_PHASE_1_IDLE" ->
         Named({"DIRECTORY_PHASE_1_SRC_CWD", "DIRECTORY_PHASE_1_DST_CWD"}, {"CWD"}) \cup {Pwd}
    [] st = "DIRECTORY_PHASE_2_COMPARE" -> Named({"DIRECTORY_PHASE_2_DST_MKD"}, {"MKD"})
    [] OTHER -> Loose

ElseInv == state \notin FileState => \A p \in Side : sess[p].cmdq \in Seq(AskedElse(state))

\* But while it lists a directory, a queue at work on an item has both sessions.
Steady == FileState \cup Picky
Holds(s) == s.here /\ s.login /\ s.state # "DATA_FINISH"
SteadyInv == state \in Steady => \A p \in Side : Holds(sess[p]) /\ ~old[p]

AwaitInv == ElseInv /\ SteadyInv /\ StaleInv

LEMMA AskedElseIs ==
  /\ \A st \in {"ACTIVE", "DIRECTORY_START", "DIRECTORY_PHASE_2_START"} : AskedElse(st) = {}
  /\ AskedElse("DIRECTORY_PHASE_1_IDLE") =
       Named({"DIRECTORY_PHASE_1_SRC_CWD", "DIRECTORY_PHASE_1_DST_CWD"}, {"CWD"}) \cup {Pwd}
  /\ AskedElse("DIRECTORY_PHASE_2_COMPARE") = Named({"DIRECTORY_PHASE_2_DST_MKD"}, {"MKD"})
  /\ \A st : st \notin Picky => AskedElse(st) = Loose
<1>1. \A st \in {"ACTIVE", "DIRECTORY_START", "DIRECTORY_PHASE_2_START"} : AskedElse(st) = {}
  BY DEF AskedElse
<1>2. \A st : st \notin Picky => AskedElse(st) = Loose
  <2>1. TAKE st
  <2> QED
    BY DEF AskedElse, Picky
<1> QED
  BY <1>1, <1>2 DEF AskedElse

\* The events that every state waits for, and those of a file's first phase.
LEMMA AwaitedIs ==
  /\ \A ev \in {"none", "PHASE_2_DISABLE", "PHASE_11_ABOR", "PHASE_12_NOOP"} : Awaited(ev) = State
  /\ \A ev \in Steers : Awaited(ev) # State
<1>1. \A ev \in {"none", "PHASE_2_DISABLE", "PHASE_11_ABOR", "PHASE_12_NOOP"} : Awaited(ev) = State
  BY DEF Awaited
<1>2. \A ev \in Steers : Awaited(ev) = {"FILE_PHASE_1_IDLE"}
  BY DEF Awaited, Steers
<1>3. "IDLE" \in State
  BY DEF State, LossBlind
<1> QED
  BY <1>1, <1>2, <1>3

LEMMA PwdLoose == Pwd \in Loose
<1>1. Pwd.ev = "none"
  BY DEF Pwd, Cmd
<1> QED
  BY <1>1, AwaitedIs, PwdStill DEF Loose

\* What is asked outside a file's phases is waited for, and is answered with
\* no other order.
LEMMA ElseIs ==
  ASSUME NEW st \in State \ FileState, NEW c \in AskedElse(st)
  PROVE  /\ c \in Command /\ st \in Awaited(c.ev) /\ c.ev \notin Steers
         /\ c.op = "CWD" => Pwd \in AskedElse(st)
<1>1. CASE st \notin Picky
  <2>1. c \in Loose /\ AskedElse(st) = Loose
    BY <1>1, AskedElseIs
  <2>2. c \in Command /\ Awaited(c.ev) = State
    BY <2>1 DEF Loose
  <2> QED
    BY <2>1, <2>2, AwaitedIs, PwdLoose
<1>2. CASE st = "DIRECTORY_PHASE_1_IDLE"
  <2>1. c \in Named({"DIRECTORY_PHASE_1_SRC_CWD", "DIRECTORY_PHASE_1_DST_CWD"}, {"CWD"})
        \/ c = Pwd
    BY <1>2, AskedElseIs
  <2>2. CASE c = Pwd
    <3>1. c \in Loose
      BY <2>2, PwdLoose
    <3> QED
      BY <1>2, <2>2, <3>1, AskedElseIs, AwaitedIs DEF Loose
  <2>3. CASE c \in Named({"DIRECTORY_PHASE_1_SRC_CWD", "DIRECTORY_PHASE_1_DST_CWD"}, {"CWD"})
    <3>1. c \in Command /\ c.ev \in {"DIRECTORY_PHASE_1_SRC_CWD", "DIRECTORY_PHASE_1_DST_CWD"}
      BY <2>3 DEF Named
    <3>2. st \in Awaited(c.ev) /\ c.ev \notin Steers
      BY <1>2, <3>1 DEF Awaited, Steers
    <3> QED
      BY <1>2, <3>1, <3>2, AskedElseIs
  <2> QED
    BY <2>1, <2>2, <2>3
<1>3. CASE st = "DIRECTORY_PHASE_2_COMPARE"
  <2>1. c \in Command /\ c.ev = "DIRECTORY_PHASE_2_DST_MKD" /\ c.op = "MKD"
    BY <1>3, AskedElseIs DEF Named
  <2>2. st \in Awaited(c.ev) /\ c.ev \notin Steers
    BY <1>3, <2>1 DEF Awaited, Steers
  <2> QED
    BY <2>1, <2>2
<1>4. CASE st \in {"ACTIVE", "DIRECTORY_START", "DIRECTORY_PHASE_2_START"}
  BY <1>4, AskedElseIs
<1> QED
  BY <1>1, <1>2, <1>3, <1>4 DEF Picky

\* Commands that cost no session.
Harmless ==
  {c \in Command : c.op \notin {"LIST", "QUIT"} /\ (c.op \in {"PASV", "PORT"} => c.ev # "none")}

LEMMA AskedHarmless ==
  ASSUME NEW st \in FileState, NEW p
  PROVE  Asked(st, p) \subseteq Harmless
<1>1. \A evs, ops : /\ ops \cap {"LIST", "QUIT"} = {}
                    /\ "none" \notin evs \/ ops \cap {"PASV", "PORT"} = {}
        => Named(evs, ops) \subseteq Harmless
  BY DEF Named, Harmless
<1>2. \A evs, flag : Flags(evs, flag) \subseteq Harmless
  BY DEF Flags, Harmless
<1>3. CASE st \in Calm
  BY <1>3, AskedIs
<1>4. CASE st = "FILE_PHASE_1_IDLE"
  <2>1. Goes \subseteq Harmless /\ GoesOrMakes \subseteq Harmless
    BY <1>1 DEF Goes, GoesOrMakes
  <2> QED
    BY <1>4, <2>1, AskedIs
<1>5. CASE st \in {"FILE_PHASE_2_WAIT", "FILE_PHASE_3_START", "FILE_PHASE_5_REST_WAIT",
                   "FILE_PHASE_6_START", "FILE_PHASE_7_START", "FILE_PHASE_7_WAIT",
                   "FILE_PHASE_8_WAIT", "FILE_PHASE_10_WAIT", "FILE_PHASE_11_WAIT"}
  BY <1>1, <1>5, AskedIs
<1>6. CASE st \in {"FILE_PHASE_3_WAIT", "FILE_PHASE_5_START", "FILE_PHASE_9_REST",
                   "FILE_PHASE_10_START"}
  BY <1>2, <1>6, AskedIs
<1> QED
  BY <1>3, <1>4, <1>5, <1>6 DEF FileState, Calm

\* A queue at work on an item asks for nothing else, but in a listing.
LEMMA SteadyAsked ==
  ASSUME IInv, FlightInv, ElseInv, state \in Steady, NEW p \in Side, sess[p].cmdq # <<>>
  PROVE  Head(sess[p].cmdq) \in Harmless
<1> DEFINE c == Head(sess[p].cmdq)
<1>1. CASE state \in FileState
  <2>1. sess[p].cmdq \in Seq(Asked(state, p))
    BY DEF FlightInv
  <2>2. c \in Asked(state, p)
    BY <2>1, HeadTailProperties
  <2> QED
    BY <1>1, <2>2, AskedHarmless
<1>2. CASE state \notin FileState
  <2>1. state \in Picky /\ sess[p].cmdq \in Seq(AskedElse(state))
    BY <1>2 DEF Steady, ElseInv
  <2>2. c \in AskedElse(state)
    BY <2>1, HeadTailProperties
  <2>3. state \in State \ FileState
    BY <1>2 DEF IInv, ListInv
  <2>4. c \in Command
    BY <2>2, <2>3, ElseIs
  <2>5. Pwd.op = "PWD"
    BY DEF Pwd, Cmd
  <2>6. c.op \in {"CWD", "PWD", "MKD"}
    BY <2>1, <2>2, <2>5, AskedElseIs DEF Picky, Named
  <2> QED
    BY <2>4, <2>6 DEF Harmless
<1> QED
  BY <1>1, <1>2

\* No event costs it a session.
LEMMA EventSteady ==
  ASSUME MaxLost = 0, IInv, FlightInv, AwaitInv, state \in Steady, NEW p \in Side, SessionEvent(p)
  PROVE  UNCHANGED old /\ Holds(sess'[p])
<1>0. /\ loop = "poll" /\ ~old[p] /\ sess[p] \in SessionRec /\ old \in [Side -> BOOLEAN]
      /\ Holds(sess[p]) /\ ElseInv
  BY EventHeld DEF AwaitInv, SteadyInv, IInv, SessionInv
<1>1. ~(lost < MaxLost)
  BY DEF IInv, BookInv
<1>2. sess[p].cmdq # <<>> => Head(sess[p].cmdq) \in Harmless
  BY <1>0, SteadyAsked
<1>3. UNCHANGED old
  <2>1. CASE Login(p) \/ TransferEnd(p) \/ DataLine(p) \/ DataClosed(p)
    BY <2>1 DEF Login, TransferEnd, DataLine, DataClosed, Die
  <2>2. CASE ListingEnd(p)
    BY <1>0, <2>2 DEF ListingEnd, Holds
  <2>3. CASE Lost(p)
    BY <1>1, <1>2, <2>3 DEF Lost, Harmless
  <2>4. CASE Reply(p)
    <3>1. sess[p].cmdq # <<>>
      BY <2>4 DEF Reply
    <3>2. \A code : ~Closes(Head(sess[p].cmdq), code)
      BY <1>2, <3>1 DEF Closes, Harmless
    <3> QED
      BY <2>4, <3>2 DEF Reply, Die
  <2> QED
    BY <2>1, <2>2, <2>3, <2>4 DEF SessionEvent
<1>4. CASE Gone(p)
  BY <1>0, <1>3, <1>4 DEF Gone
<1>5. CASE Calms(p)
  BY <1>0, <1>3, <1>5 DEF Calms, Holds
<1>6. ASSUME NEW cmd, NEW code, Takes(p, cmd, code) PROVE Holds(sess'[p])
  <2>1. cmd = Head(sess[p].cmdq) /\ sess[p].cmdq # <<>>
    BY <1>6 DEF Takes, Answers
  <2>2. cmd.op # "LIST"
    BY <1>2, <2>1 DEF Harmless
  <2>3. /\ sess'[p].here /\ sess'[p].login = sess[p].login
        /\ sess'[p].state \in {sess[p].state, "RELAY_226"}
    BY <1>0, <1>6, <2>2, TakesKeeps
  <2> QED
    BY <1>0, <2>3 DEF Holds
<1>7. ASSUME NEW code, NEW got, Ends(p, code, got) PROVE Holds(sess'[p])
  BY <1>0, <1>7, EndsSession DEF Holds
<1> QED
  BY <1>3, <1>4, <1>5, <1>6, <1>7, EventEither

\* An answer outside a file's phases leaves what is asked there.
LEMMA EventElse ==
  ASSUME IInv, ElseInv, state \notin FileState, NEW p \in Side, SessionEvent(p)
  PROVE  sess'[p].cmdq \in Seq(AskedElse(state))
<1> DEFINE C == AskedElse(state)
<1>0. /\ loop = "poll" /\ sess[p].cmdq \in Seq(C) /\ state \in State \ FileState
  BY EventIs DEF ElseInv, IInv, ListInv
<1>1. CASE Gone(p)
  BY <1>1 DEF Gone, NoSession, NewSession
<1>2. CASE Calms(p)
  BY <1>0, <1>2 DEF Calms
<1>3. ASSUME NEW code, NEW got, Ends(p, code, got) PROVE sess'[p].cmdq \in Seq(C)
  BY <1>0, <1>3, EndsSession
<1>4. ASSUME NEW cmd, NEW code, Takes(p, cmd, code) PROVE sess'[p].cmdq \in Seq(C)
  <2> DEFINE more == More(Digest(sess[p], cmd, code), cmd.ev, Heard(code))
  <2>1. Answers(p, cmd, code)
    BY <1>4 DEF Takes
  <2>2. /\ sess[p].cmdq # <<>> /\ cmd = Head(sess[p].cmdq)
        /\ ReadTo(sess[p], cmd, code, more, sess'[p])
    BY <1>0, <2>1, AnswersIs
  <2>3. cmd \in C /\ Tail(sess[p].cmdq) \in Seq(C)
    BY <1>0, <2>2, HeadTailProperties
  <2>4. cmd.ev \notin Steers /\ (cmd.op = "CWD" => Pwd \in C)
    BY <1>0, <2>3, ElseIs
  <2>5. more = <<>>
    BY <2>4, MoreIs
  <2> DEFINE rest == IF Moved(cmd, code) THEN Append(Tail(sess[p].cmdq), Pwd)
                     ELSE Tail(sess[p].cmdq)
  <2> HIDE DEF more, C
  <2>6. sess'[p].cmdq = rest \o <<>>
    BY <2>2, <2>5 DEF ReadTo
  <2>7. Moved(cmd, code) => Append(Tail(sess[p].cmdq), Pwd) \in Seq(C)
    BY <2>3, <2>4 DEF Moved
  <2>8. rest \in Seq(C)
    BY <2>3, <2>7
  <2> HIDE DEF rest
  <2>9. rest \o <<>> = rest
    BY <2>8, ConcatEmptySeq
  <2> QED
    BY <2>6, <2>8, <2>9
<1> QED
  BY <1>1, <1>2, <1>3, <1>4, EventEither

LEMMA EventAwait ==
  ASSUME MaxLost = 0, IInv, FlightInv, AwaitInv, NEW p \in Side, SessionEvent(p)
  PROVE  AwaitInv'
<1>0. /\ ~old[p] /\ UNCHANGED <<loop, state>>
      /\ \A q \in Side \ {p} : sess'[q] = sess[q] /\ old'[q] = old[q]
      /\ UNCHANGED old \/ sess'[p] = NoSession
  <2>1. sess \in [Side -> SessionRec]
    BY DEF IInv, SessionInv
  <2>2. /\ ~old[p] /\ UNCHANGED <<loop, state>>
        /\ \A q \in Side \ {p} : sess'[q] = sess[q] /\ old'[q] = old[q]
        /\ UNCHANGED old \/ LoseSession(p)
    BY EventHeld DEF AwaitInv
  <2>3. LoseSession(p) => sess'[p] = NoSession
    BY <2>1 DEF LoseSession
  <2> QED
    BY <2>2, <2>3
<1>1. ElseInv'
  <2> SUFFICES ASSUME state \notin FileState, NEW q \in Side
               PROVE  sess'[q].cmdq \in Seq(AskedElse(state))
    BY <1>0 DEF ElseInv
  <2>1. CASE q = p
    BY <2>1, EventElse DEF AwaitInv
  <2>2. CASE q # p
    BY <1>0, <2>2 DEF AwaitInv, ElseInv
  <2> QED
    BY <2>1, <2>2
<1>2. SteadyInv'
  <2> SUFFICES ASSUME state \in Steady, NEW q \in Side
               PROVE  Holds(sess'[q]) /\ ~old'[q]
    BY <1>0 DEF SteadyInv
  <2>1. Holds(sess[q]) /\ ~old[q]
    BY DEF AwaitInv, SteadyInv
  <2>2. CASE q = p
    BY <2>1, <2>2, EventSteady
  <2>3. CASE q # p
    BY <1>0, <2>1, <2>3
  <2> QED
    BY <2>2, <2>3
<1>3. StaleInv'
  <2> SUFFICES ASSUME NEW q \in Side, old'[q]
               PROVE  ~sess'[q].login /\ (loop' = "poll" => ~sess'[q].here)
    BY DEF StaleInv
  <2>1. ~NoSession.login /\ ~NoSession.here
    BY DEF NoSession, NewSession
  <2>2. CASE q = p
    BY <1>0, <2>1, <2>2
  <2>3. CASE q # p
    BY <1>0, <2>3 DEF AwaitInv, StaleInv
  <2> QED
    BY <2>2, <2>3
<1> QED
  BY <1>1, <1>2, <1>3 DEF AwaitInv

\* GO finds the queue at rest, and STOP|DROP leaves no session.
LEMMA CommandAwait ==
  ASSUME NoRestarts, AwaitInv, Command2
  PROVE  AwaitInv'
<1>1. CASE StopDrop /\ BothHere
  <2>1. state' = "IDLE" /\ \A p \in Side : sess'[p] = NoSession
    BY <1>1 DEF StopDrop
  <2>2. state' \notin Steady
    BY <2>1 DEF Steady, FileState, Picky
  <2>3. NoSession.cmdq = <<>> /\ ~NoSession.login /\ ~NoSession.here
    BY DEF NoSession, NewSession
  <2>4. <<>> \in Seq(AskedElse("IDLE"))
    OBVIOUS
  <2>5. ElseInv'
    BY <2>1, <2>3, <2>4 DEF ElseInv
  <2> QED
    BY <2>1, <2>2, <2>3, <2>5 DEF AwaitInv, SteadyInv, StaleInv
<1>2. CASE Go
  <2>1. state = "IDLE" /\ state' = "START" /\ UNCHANGED <<loop, sess, old>>
    BY <1>2 DEF Go, UserCommand, NoRestarts
  <2>2. {"IDLE", "START"} \cap Steady = {}
    BY DEF Steady, FileState, Picky
  <2>3. AskedElse("IDLE") = Loose /\ AskedElse("START") = Loose
    BY AskedElseIs DEF Picky
  <2>4. ElseInv'
    BY <2>1, <2>2, <2>3 DEF AwaitInv, ElseInv, Steady
  <2> QED
    BY <2>1, <2>2, <2>4 DEF AwaitInv, SteadyInv, StaleInv
<1>3. CASE ~(StopDrop /\ BothHere) /\ ~Go
  <2>1. UNCHANGED <<loop, state, sess, old>>
    BY <1>3 DEF Command2, Stop, StopDrop, QAdd, QDel, QMove, queueVars
  <2> QED
    BY <2>1 DEF AwaitInv, ElseInv, SteadyInv, StaleInv
<1> QED
  BY <1>1, <1>2, <1>3

-----------------------------------------------------------------------------
(* What the calls of queue_process leave of AwaitInv. *)

LEMMA AdoptLoose ==
  ASSUME NEW st, st \notin FileState \cup Picky, NEW q \in Seq(Loose)
  PROVE  q \in Seq(AskedElse(st))
BY AskedElseIs

\* Nothing is told to sessions that have answered everything.
LEMMA StillEmpty ==
  ASSUME Empties, Again(sess) \/ Sleep(sess), NEW p \in Side
  PROVE  sess'[p].cmdq = <<>>
<1>1. sess'[p] = NoSession \/ sess'[p] = sess[p]
  BY Leaves
<1>2. NoSession.cmdq = <<>>
  BY DEF NoSession, NewSession
<1> QED
  BY <1>1, <1>2 DEF Empties

LEMMA StillLoose ==
  ASSUME Again(sess) \/ Sleep(sess), NEW p \in Side, NEW C, sess[p].cmdq \in Seq(C)
  PROVE  sess'[p].cmdq \in Seq(C)
<1>1. sess'[p] = NoSession \/ sess'[p] = sess[p]
  BY Leaves
<1>2. NoSession.cmdq = <<>> /\ <<>> \in Seq(C)
  BY DEF NoSession, NewSession
<1> QED
  BY <1>1, <1>2

LEMMA AddsLoose ==
  ASSUME NEW ss, Again(ss) \/ Sleep(ss), NEW p \in Side,
         Adds(sess[p], ss[p], Loose), sess[p].cmdq \in Seq(Loose)
  PROVE  sess'[p].cmdq \in Seq(Loose)
<1>1. sess'[p] = NoSession \/ sess'[p] = ss[p]
  BY Leaves
<1>2. NoSession.cmdq = <<>> /\ <<>> \in Seq(Loose)
  BY DEF NoSession, NewSession
<1> QED
  BY <1>1, <1>2 DEF Adds

\* A call that leaves a file leaves no more than a switch of TLS, ABOR or NOOP
\* unanswered.
LEMMA FileLeft ==
  ASSUME IInv, FlightInv, FilePass, state' \notin FileState, NEW p \in Side
  PROVE  state' \notin Picky /\ sess'[p].cmdq \in Seq(Loose)
<1>0. /\ Empties /\ sess \in [Side -> SessionRec] /\ sess[p] \in SessionRec
      /\ sess[p].cmdq \in Seq(Loose)
  <2>1. <<>> \in Seq(Loose)
    OBVIOUS
  <2> QED
    BY <2>1, PassEmpties DEF Empties, IInv, SessionInv
<1>1. CASE Phase2Disable
  <2> DEFINE ss == [q \in Side |-> ClientOff(q)]
             C == Named({"PHASE_2_DISABLE"}, {"OFF"})
  <2>1. Again(ss) /\ state' = "ITEM_FAILED"
    BY <1>1 DEF Phase2Disable, FileState
  <2>2. ss[p] = ClientOff(p) /\ Adds(sess[p], ClientOff(p), C)
    BY ClientOffAdds DEF IInv
  <2>3. C \subseteq Loose
    BY AwaitedIs DEF Named, Loose
  <2>4. Seq(C) \subseteq Seq(Loose)
    BY <2>3, SeqMonotonic
  <2> HIDE DEF ss, C
  <2>5. ss[p].cmdq \in Seq(C)
    <3>1. <<>> \in Seq(C)
      OBVIOUS
    <3> QED
      BY <1>0, <2>2, <3>1 DEF Adds, Empties
  <2>6. Adds(sess[p], ss[p], Loose)
    BY <2>2, <2>4, <2>5 DEF Adds
  <2> QED
    BY <1>0, <2>1, <2>6, AddsLoose DEF Picky
<1>2. CASE Phase11Wait
  <2> DEFINE abor == Cmd("ABOR", "PHASE_11_ABOR")
             s1 == [sess EXCEPT ![Dst] = CmdqNew(sess[Dst], abor)]
  <2>1. In("FILE_PHASE_11_WAIT") /\ "FILE_PHASE_11_WAIT" \in FileState \cup DirectoryState
    BY <1>2 DEF Phase11Wait, FileState
  <2>2. Sleep(s1) /\ state' = "ITEM_FAILED"
    BY <1>0, <1>2 DEF Phase11Wait, FileState
  <2>3. abor \in Command /\ abor.ev = "PHASE_11_ABOR"
    BY CmdType DEF Op, Event, Cmd
  <2>4. abor \in Loose
    BY <2>3, AwaitedIs DEF Loose
  <2>5. s1[p] = IF p = Dst THEN CmdqNew(sess[Dst], abor) ELSE sess[p]
    BY <1>0
  <2> HIDE DEF s1, abor
  <2>6. Adds(sess[p], s1[p], Loose)
    BY <1>0, <2>3, <2>4, <2>5, CmdqNewAdds, AddsNone
  <2> QED
    BY <1>0, <2>2, <2>6, AddsLoose DEF Picky
<1>3. CASE Phase12Start
  <2> DEFINE noop == Cmd("NOOP", "PHASE_12_NOOP")
             s1 == [q \in Side |-> CmdqNew(sess[q], noop)]
  <2>1. (Again(s1) \/ Again(sess)) /\ state' \in {"ITEM_FAILED", "REMOVE_ITEM"}
    BY <1>3 DEF Phase12Start
  <2>3. noop \in Command /\ noop.ev = "PHASE_12_NOOP"
    BY CmdType DEF Op, Event, Cmd
  <2>4. noop \in Loose
    BY <2>3, AwaitedIs DEF Loose
  <2>5. s1[p] = CmdqNew(sess[p], noop)
    OBVIOUS
  <2> HIDE DEF s1, noop
  <2>6. Adds(sess[p], s1[p], Loose) /\ Adds(sess[p], sess[p], Loose)
    BY <1>0, <2>3, <2>4, <2>5, CmdqNewAdds, AddsNone
  <2>7. sess'[p].cmdq \in Seq(Loose)
    BY <1>0, <2>1, <2>6, AddsLoose
  <2> QED
    BY <2>1, <2>7 DEF Picky
<1>4. CASE ~(Phase2Disable \/ Phase11Wait \/ Phase12Start)
  <2>1. ~(FileStart \/ Phase1Start \/ Phase2Plain \/ Phase2Local)
    BY DEF FileStart, Phase1Start, Phase2Plain, Phase2Local, FileState
  <2>2. ~(Phase2Client \/ Phase2Wait \/ Phase3Start \/ Phase3Wait \/ Phase4Start)
    BY DEF Phase2Client, Phase2Wait, Phase3Start, Phase3Wait, Phase4Start, FileState
  <2>3. ~(Phase5Start \/ Phase6Start \/ Phase8Start)
    BY DEF Phase5Start, Phase6Start, Phase8Start, FileState
  <2>4. ~(Phase9Start \/ Phase9Rest \/ Phase11Start)
    BY DEF Phase9Start, Phase9Rest, Phase11Start, FileState
  <2>5. \/ Phase1Idle \/ Phase5RestWait \/ Phase7Start \/ Phase7Wait \/ Phase8Wait
        \/ Phase10Start \/ Phase10Wait
    BY <1>4, <2>1, <2>2, <2>3, <2>4, Zenon DEF FilePass
  <2>6. Again(sess) \/ Sleep(sess)
    BY <2>5 DEF Phase1Idle, Phase5RestWait, Phase7Start, Phase7Wait, Phase8Wait, Phase10Start,
       Phase10Wait, FileState
  <2>7. state' \in {"ITEM_FAILED", "REQUEUE_ITEM", "REMOVE_ITEM", "IDLE"}
    BY <2>5 DEF Phase1Idle, Phase5RestWait, Phase7Start, Phase7Wait, Phase8Wait, Phase10Start,
       Phase10Wait, FileState
  <2>8. sess'[p].cmdq \in Seq(Loose)
    BY <1>0, <2>6, StillLoose
  <2> QED
    BY <2>7, <2>8 DEF Picky
<1> QED
  BY <1>1, <1>2, <1>3, <1>4

\* Where no call works on a file or a directory.
LEMMA OffWork ==
  ASSUME ElseInv, SteadyInv,
         Start \/ IsConnected \/ ItemFailed \/ RequeueItem \/ ErrorItem \/ RemoveItem
           \/ Empty \/ Idle,
         NEW p \in Side
  PROVE  sess[p].cmdq \in Seq(Loose) /\ state' \notin Picky
<1>1. state \notin Steady
  <2>1. CASE ItemFailed
    <3>1. state = "ITEM_FAILED" \/ ~BothHere
      BY <2>1 DEF ItemFailed, In, Effective
    <3>2. state \in Steady => BothHere
      BY DEF SteadyInv, Holds, BothHere
    <3> QED
      BY <3>1, <3>2 DEF Steady, FileState, Picky
  <2>2. CASE ~ItemFailed
    <3>1. state \in {"START", "ISCONNECTED", "REQUEUE_ITEM", "ERROR_ITEM", "REMOVE_ITEM",
                     "EMPTY", "IDLE"}
      BY <2>2, InState DEF Start, IsConnected, RequeueItem, ErrorItem, RemoveItem, Empty, Idle
    <3> QED
      BY <3>1 DEF Steady, FileState, Picky
  <2> QED
    BY <2>1, <2>2
<1>2. sess[p].cmdq \in Seq(Loose)
  BY <1>1, AskedElseIs DEF ElseInv, Steady
<1>3. state' \notin Picky
  <2>1. CASE Idle
    BY <1>1, <2>1 DEF Idle, Steady
  <2>2. CASE ~Idle
    BY <2>2 DEF Start, IsConnected, ItemFailed, RequeueItem, ErrorItem, RemoveItem, Empty,
       NextItem, Picky
  <2> QED
    BY <2>1, <2>2
<1> QED
  BY <1>2, <1>3

LEMMA PassElse ==
  ASSUME IInv, FlightInv, BeliefInv, AwaitInv, Pass
  PROVE  ElseInv'
<1> SUFFICES ASSUME state' \notin FileState, NEW p \in Side
             PROVE  sess'[p].cmdq \in Seq(AskedElse(state'))
  BY DEF ElseInv
<1>0. ElseInv /\ SteadyInv /\ sess \in [Side -> SessionRec] /\ sess[p] \in SessionRec
  BY DEF AwaitInv, IInv, SessionInv
<1>1. CASE FilePass
  BY <1>1, FileLeft, AdoptLoose
<1>2. CASE Waiting
  <2>1. state' = state /\ Sleep(sess)
    BY <1>2 DEF Waiting, queueVars
  <2>2. sess[p].cmdq \in Seq(AskedElse(state))
    BY <1>0, <2>1 DEF ElseInv
  <2>3. sess'[p].cmdq \in Seq(AskedElse(state))
    BY <2>1, <2>2, StillLoose
  <2> QED
    BY <2>1, <2>3
<1>3. CASE Start \/ ItemFailed \/ RequeueItem \/ ErrorItem \/ RemoveItem \/ Idle
  <2>1. sess[p].cmdq \in Seq(Loose) /\ state' \notin Picky
    BY <1>0, <1>3, OffWork
  <2>2. Again(sess) \/ Sleep(sess)
    BY <1>3 DEF Start, ItemFailed, RequeueItem, ErrorItem, RemoveItem, NextItem, Idle
  <2>3. sess'[p].cmdq \in Seq(Loose)
    BY <2>1, <2>2, StillLoose
  <2> QED
    BY <2>1, <2>3, AdoptLoose
<1>4. CASE IsConnected
  <2> DEFINE ss == [q \in Side |-> IF sess[q].here THEN sess[q] ELSE NewSession]
  <2>1. sess[p].cmdq \in Seq(Loose) /\ state' \notin Picky
    BY <1>0, <1>4, OffWork
  <2>2. \E nodelay : Settle(ss, nodelay)
    BY <1>4 DEF IsConnected
  <2>3. ss[p] \in {sess[p], NewSession}
    OBVIOUS
  <2> HIDE DEF ss
  <2>4. sess'[p] \in {sess[p], NewSession, NoSession}
    BY <2>2, <2>3, Leaves
  <2>5. NewSession.cmdq = <<>> /\ NoSession.cmdq = <<>> /\ <<>> \in Seq(Loose)
    BY DEF NewSession, NoSession
  <2>6. sess'[p].cmdq \in Seq(Loose)
    BY <2>1, <2>4, <2>5
  <2> QED
    BY <2>1, <2>6, AdoptLoose
<1>5. CASE Empty
  <2> DEFINE quit == Cmd("QUIT", "PHASE_12_NOOP")
             s1 == [q \in Side |-> CmdqNew(sess[q], quit)]
  <2>1. sess[p].cmdq \in Seq(Loose) /\ state' \notin Picky
    BY <1>0, <1>5, OffWork
  <2>2. Sleep(s1)
    BY <1>5 DEF Empty
  <2>3. quit \in Command /\ quit.ev = "PHASE_12_NOOP"
    BY CmdType DEF Op, Event, Cmd
  <2>4. quit \in Loose
    BY <2>3, AwaitedIs DEF Loose
  <2>5. s1[p] = CmdqNew(sess[p], quit)
    OBVIOUS
  <2> HIDE DEF s1, quit
  <2>6. Adds(sess[p], s1[p], Loose)
    BY <1>0, <2>3, <2>4, <2>5, CmdqNewAdds
  <2>7. sess'[p].cmdq \in Seq(Loose)
    BY <2>1, <2>2, <2>6, AddsLoose
  <2> QED
    BY <2>1, <2>7, AdoptLoose
<1>6. CASE StartNextItem \/ ActiveEnd \/ Active \/ DirectoryPhase1Idle \/ DirectoryPhase2Compare
  <2>1. Empties
    <3>1. CASE ActiveEnd \/ Active
      <4>1. state = "ACTIVE"
        BY <3>1, InState DEF ActiveEnd, Active
      <4>2. state \notin FileState
        BY <4>1 DEF FileState
      <4>3. \A q \in Side : sess[q].cmdq \in Seq({})
        BY <1>0, <4>1, <4>2, AskedElseIs DEF ElseInv
      <4> QED
        BY <4>3, EmptyOnly DEF Empties
    <3>2. CASE ~(ActiveEnd \/ Active)
      BY <1>6, <3>2 DEF StartNextItem, DirectoryPhase1Idle, DirectoryPhase2Compare, BothIdle,
         IsIdle, Empties
    <3> QED
      BY <3>1, <3>2
  <2>2. Again(sess) \/ Sleep(sess)
    BY <1>6 DEF StartNextItem, ActiveEnd, Active, DirectoryPhase1Idle, DirectoryPhase2Compare
  <2>3. sess'[p].cmdq = <<>>
    BY <2>1, <2>2, StillEmpty
  <2> QED
    BY <2>3
<1>7. CASE DirectoryStart
  <2> DEFINE a == "DIRECTORY_PHASE_1_SRC_CWD"
             b == "DIRECTORY_PHASE_1_DST_CWD"
             ev == IF p = src THEN a ELSE b
             cmd == [op |-> "CWD", arg |-> Top.dir, ev |-> ev]
  <2>1. /\ In("DIRECTORY_START") /\ "DIRECTORY_START" \in FileState \cup DirectoryState
        /\ Empties /\ state' = "DIRECTORY_PHASE_1_IDLE"
    BY <1>7 DEF DirectoryStart, DirectoryState, BothIdle, IsIdle, Empties
  <2>2. a \in Event /\ b \in Event
    BY DEF Event
  <2>3. PICK ss : /\ ss = [sess EXCEPT ![src] = Cwd(@, Top.dir, a), ![Dst] = Cwd(@, Top.dir, b)]
                  /\ \E nodelay : Settle(ss, nodelay)
    BY <1>7 DEF DirectoryStart
  <2>4. cmd \in Named({a, b}, {"CWD"})
    <3>1. Top.dir \in Path
      BY <2>1, InPhase DEF IInv, Triable, Item, Path
    <3>2. "CWD" \in Op
      BY DEF Op
    <3> QED
      BY <2>2, <3>1, <3>2 DEF Named, Command
  <2>5. cmd \in AskedElse(state')
    BY <2>1, <2>4, AskedElseIs
  <2> HIDE DEF a, b
  <2>6. GoneTo(p, ev)
    BY <2>1, <2>2, <2>3, BothGo
  <2>7. sess'[p].cmdq = <<>> \/ sess'[p].cmdq = <<cmd>>
    BY <2>6 DEF GoneTo
  <2> HIDE DEF cmd
  <2>8. <<cmd>> \in Seq(AskedElse(state')) /\ <<>> \in Seq(AskedElse(state'))
    BY <2>5
  <2> QED
    BY <2>7, <2>8
<1>8. CASE DirectoryPhase2Start
  <2>1. \A c \in Command : c.ev = "none" /\ c.op \notin {"CWD", "MKD"} => c \in Loose
    BY AwaitedIs DEF Loose
  <2>2. Asks(p, Loose)
    BY <1>8, <2>1, ListingAsks
  <2>3. NoSession.cmdq = <<>> /\ <<>> \in Seq(Loose)
    BY DEF NoSession, NewSession
  <2>4. sess'[p].cmdq \in Seq(Loose)
    BY <2>2, <2>3 DEF Asks
  <2>5. state' \notin FileState \cup Picky
    BY <1>8 DEF DirectoryPhase2Start, FileState, Picky
  <2> QED
    BY <2>4, <2>5, AdoptLoose
<1>9. CASE DirectoryPhase2Mkd
  <2> DEFINE C == AskedElse("DIRECTORY_PHASE_2_COMPARE")
  <2>1. \A c \in Command : c.ev = "DIRECTORY_PHASE_2_DST_MKD" /\ c.op = "MKD" => c \in C
    BY AskedElseIs DEF Named
  <2> HIDE DEF C
  <2>2. Asks(p, C)
    BY <1>9, <2>1, MkdAsks
  <2>3. NoSession.cmdq = <<>> /\ <<>> \in Seq(C)
    BY DEF NoSession, NewSession
  <2>4. sess'[p].cmdq \in Seq(C)
    BY <2>2, <2>3 DEF Asks
  <2> QED
    BY <1>9, <2>4 DEF DirectoryPhase2Mkd, C
<1> QED
  BY <1>1, <1>2, <1>3, <1>4, <1>5, <1>6, <1>7, <1>8, <1>9, Zenon DEF Pass, DirectoryPass

\* A queue gets to work when both sessions are idle.
LEMMA SteadyFrom ==
  ASSUME Pass, state' \in Steady
  PROVE  state \in Steady \/ BothIdle
<1>1. CASE FilePass
  BY <1>1, FilePassFrom DEF Calm, Steady, FileState, Picky
<1>2. CASE StartNextItem \/ DirectoryPass
  BY <1>2 DEF StartNextItem, DirectoryPass, DirectoryStart, DirectoryPhase1Idle,
     DirectoryPhase2Start, DirectoryPhase2Mkd, DirectoryPhase2Compare
<1>3. CASE Active \/ ActiveEnd
  BY <1>3, InState DEF Active, ActiveEnd, Steady, Picky
<1>4. CASE Waiting \/ Idle
  BY <1>4 DEF Waiting, Idle, queueVars
<1>5. CASE Start \/ IsConnected \/ ItemFailed \/ RequeueItem \/ ErrorItem \/ RemoveItem \/ Empty
  BY <1>5 DEF Start, IsConnected, ItemFailed, RequeueItem, ErrorItem, RemoveItem, Empty,
     NextItem, Steady, FileState, Picky
<1> QED
  BY <1>1, <1>2, <1>3, <1>4, <1>5, Zenon DEF Pass

LEMMA PassAwait ==
  ASSUME IInv, FlightInv, BeliefInv, AwaitInv, Pass
  PROVE  AwaitInv'
<1>0. ElseInv' /\ SteadyInv /\ StaleInv
  BY PassElse DEF AwaitInv
<1>1. (loop' = "run" /\ UNCHANGED old) \/ \A p \in Side : ~old'[p]
  BY PassOld
<1>2. ~NoSession.login /\ ~NewSession.login
  BY DEF NoSession, NewSession
<1>3. SteadyInv'
  <2> SUFFICES ASSUME state' \in Steady, NEW p \in Side
               PROVE  Holds(sess'[p]) /\ ~old'[p]
    BY DEF SteadyInv
  <2>1. CASE state \in Steady
    <3>1. Holds(sess[p]) /\ ~old[p]
      BY <1>0, <2>1 DEF SteadyInv
    <3>2. Stays(sess[p], sess'[p])
      BY <3>1, PassKeeps DEF Keeps, Holds
    <3> QED
      BY <1>1, <3>1, <3>2 DEF Stays, Holds
  <2>2. CASE BothIdle
    <3>1. Holds(sess[p])
      BY <2>2 DEF BothIdle, IsIdle, Holds
    <3>2. ~old[p]
      BY <1>0, <3>1 DEF StaleInv, Holds
    <3>3. Stays(sess[p], sess'[p])
      BY <3>1, <3>2, PassKeeps DEF Keeps, Holds
    <3> QED
      BY <1>1, <3>1, <3>2, <3>3 DEF Stays, Holds
  <2> QED
    BY <2>1, <2>2, SteadyFrom
<1>4. StaleInv'
  <2> SUFFICES ASSUME NEW p \in Side, old'[p]
               PROVE  ~sess'[p].login /\ loop' # "poll"
    BY DEF StaleInv
  <2>1. loop' = "run" /\ old[p]
    BY <1>1
  <2>2. ~sess[p].login
    BY <1>0, <2>1 DEF StaleInv
  <2> QED
    BY <1>2, <2>1, <2>2, PassKeeps DEF Keeps, Stays
<1> QED
  BY <1>0, <1>3, <1>4 DEF AwaitInv

LEMMA AwaitInit ==
  ASSUME Init
  PROVE  AwaitInv
<1>1. state = "IDLE" /\ \A p \in Side : sess[p] = NewSession /\ ~old[p]
  BY DEF Init
<1>2. "IDLE" \notin Steady
  BY DEF Steady, FileState, Picky
<1>3. NewSession.cmdq = <<>>
  BY DEF NewSession
<1>4. <<>> \in Seq(AskedElse("IDLE"))
  OBVIOUS
<1>5. ElseInv
  BY <1>1, <1>3, <1>4 DEF ElseInv
<1> QED
  BY <1>1, <1>2, <1>5 DEF AwaitInv, SteadyInv, StaleInv

LEMMA AwaitNext ==
  ASSUME MaxLost = 0, NoRestarts, IInv, FlightInv, BeliefInv, AwaitInv, [Next]_vars
  PROVE  AwaitInv'
<1>1. ASSUME NEW p \in Side, SessionEvent(p)
      PROVE  AwaitInv'
  BY <1>1, EventAwait
<1>2. CASE UNCHANGED vars
  BY <1>2 DEF vars, queueVars, AwaitInv, ElseInv, SteadyInv, StaleInv
<1> QED
  BY <1>1, <1>2, PassAwait, CommandAwait DEF Next

LEMMA AwaitIs ==
  ASSUME IInv, FlightInv, ElseInv
  PROVE  AnswersAwaited
<1> SUFFICES ASSUME NEW p \in Side, NEW i \in DOMAIN sess[p].cmdq
             PROVE  state \in Awaited(sess[p].cmdq[i].ev)
  BY DEF AnswersAwaited
<1>1. CASE state \in FileState
  <2>1. sess[p].cmdq \in Seq(Asked(state, p))
    BY DEF FlightInv
  <2>2. sess[p].cmdq[i] \in Asked(state, p)
    BY <2>1, InList
  <2> QED
    BY <1>1, <2>2, AskedAwaited
<1>2. CASE state \notin FileState
  <2>1. sess[p].cmdq \in Seq(AskedElse(state)) /\ state \in State \ FileState
    BY <1>2 DEF ElseInv, IInv, ListInv
  <2>2. sess[p].cmdq[i] \in AskedElse(state)
    BY <2>1, InList
  <2> QED
    BY <2>1, <2>2, ElseIs
<1> QED
  BY <1>1, <1>2

\* In every state, directories included, a reply is only taken for the item whose
\* command it answers (handler_queue, handler.c:335-874, charges queue->items with
\* every reply), as long as no connection is lost and GO finds the queue at rest: a
\* lost session fails the item while the other session still has its commands to
\* answer, and a second GO begins the next item over them.
THEOREM AnswersAlwaysAwaited ==
  ASSUME MaxLost = 0, NoRestarts
  PROVE  Spec => []AnswersAwaited
<1>1. Init => AwaitInv
  BY AwaitInit
<1>2. IInv /\ FlightInv /\ BeliefInv /\ AwaitInv /\ [Next]_vars => AwaitInv'
  BY AwaitNext
<1>3. IInv /\ FlightInv /\ AwaitInv => AnswersAwaited
  BY AwaitIs DEF AwaitInv
<1> QED
  BY <1>1, <1>2, <1>3, PhaseInvariance, PTL DEF Spec

=============================================================================
