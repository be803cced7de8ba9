--------------------------------- MODULE Login ---------------------------------
(***************************************************************************)
(* A session from session_new to the end of its login: the greeting, AUTH  *)
(* TLS and AUTH SSL and the negotiation, USER and PASS, what is asked for  *)
(* after that, and the commands of a user that does not wait for it        *)
(* (engine/session.c; handler_withuser of engine/handler.c tells the       *)
(* owner).  The server reads and answers commands in order.                *)
(***************************************************************************)
EXTENDS Naturals, Sequences

CONSTANT MaxAsks  \* bound: commands a user ever gives

ASSUME LoginAssumption == MaxAsks \in Nat

\* control_TLS, and IMPLICIT_TLS, which only a connection over the network looks at;
\* on a local site STATUS_ON_SSL is set from the start.
Site ==
  {s \in [control: {"YES", "AUTO", "NO"}, local: BOOLEAN, implicit: BOOLEAN, xdupe: BOOLEAN] :
     s.local => ~s.implicit}

\* A user's QUOTE is relayed as it is; its CWD has a state of its own.
UserCmd == {"QUOTE", "CWD"}
Command == {"AUTH_TLS", "AUTH_SSL", "USER", "PASS", "PBSZ", "SYST", "CLNT", "FEAT", "XDUPE"}
             \cup UserCmd

State == {"CONNECTING", "AWAIT_220", "TLS_PHASE_TLS", "TLS_PHASE_SSL", "TLS_WAIT",
          "SENT_CMD", "LOGIN_SENT_USER", "LOGIN_SENT_PASS", "REPLY", "IDLE"}

\* handle says that the session has not been closed, ssl that STATUS_ON_SSL is
\* set, told that its owner has heard CONNECT; sent are the commands on their way
\* to the server.
Session ==
  [handle: BOOLEAN, state: State, isidle: BOOLEAN, forcebusy: BOOLEAN, ssl: BOOLEAN,
   cmdq: Seq(Command), sent: Seq(Command), told: BOOLEAN]

VARIABLES
  site, s,
  server,    \* "away", "open", "negotiates", "known" after USER, "in" after PASS
  link,      \* what the connection is: "plain", "secure", or "broken"
  replies,   \* on their way to the session, with the command each answers
  heard,     \* what the owner was last told: "nothing", "CONNECT", "DISCONNECT"
  asks,      \* commands the user gave
  odd        \* what happened that the login is not prepared for

vars == <<site, s, server, link, replies, heard, asks, odd>>

Init ==
  /\ site \in Site
  /\ s = [handle |-> TRUE, state |-> "CONNECTING", isidle |-> FALSE, forcebusy |-> FALSE,
          ssl |-> site.local, cmdq |-> <<>>, sent |-> <<>>, told |-> FALSE]
  /\ link = IF site.implicit THEN "negotiating" ELSE "plain"
  /\ server = "away" /\ replies = <<>> /\ heard = "nothing"
  /\ asks = 0 /\ odd = {}

-----------------------------------------------------------------------------
(* The command queue. *)

\* An empty queue is idle, whatever the state was, and the owner is told.
Restart(r) ==
  IF ~r.handle \/ r.forcebusy \/ ~r.isidle THEN r
  ELSE IF r.cmdq # <<>>
       THEN [r EXCEPT !.isidle = FALSE, !.sent = Append(@, Head(r.cmdq))]
       ELSE [r EXCEPT !.state = "IDLE", !.told = TRUE]

CmdqNew(r, cmd) == IF r.handle THEN Restart([r EXCEPT !.cmdq = Append(@, cmd)]) ELSE r

SetClose(r) == [r EXCEPT !.handle = FALSE, !.sent = <<>>]

-----------------------------------------------------------------------------
(* session_state_process. *)

LoginStart(r) == [CmdqNew(r, "USER") EXCEPT !.state = "SENT_CMD"]
TlsStart(r) == [CmdqNew(r, "AUTH_TLS") EXCEPT !.state = "TLS_PHASE_TLS"]

\* What is known of the server is asked for; the queue is idle after FEAT.
Misc(r) ==
  LET idle == [r EXCEPT !.state = "IDLE"]
      pbsz == IF r.ssl THEN CmdqNew(idle, "PBSZ") ELSE idle
  IN  CmdqNew(CmdqNew(CmdqNew(pbsz, "SYST"), "CLNT"), "FEAT")

\* Mutant: USER's reply is taken for the last of the login.
ProcessShort(r, code) ==
  CASE r.state = "AWAIT_220" /\ code = "220" ->
         IF site.control # "NO" /\ ~r.ssl THEN TlsStart(r) ELSE LoginStart(r)
    [] r.state = "TLS_PHASE_TLS" /\ code = "234" ->
         [r EXCEPT !.forcebusy = TRUE, !.state = "TLS_WAIT"]
    [] r.state = "TLS_PHASE_TLS" /\ code # "234" -> CmdqNew(r, "AUTH_SSL")
    [] r.state = "TLS_PHASE_SSL" /\ code = "234" -> [r EXCEPT !.state = "TLS_WAIT"]
    [] r.state = "TLS_PHASE_SSL" /\ code # "234" ->
         IF site.control = "YES" THEN SetClose(r) ELSE LoginStart(r)
    [] r.state = "LOGIN_SENT_USER" -> IF code = "331" THEN Misc(r) ELSE SetClose(r)
    [] OTHER -> r

\* Mutant: a refused AUTH SSL is never fatal.
ProcessLax(r, code) ==
  CASE r.state = "AWAIT_220" /\ code = "220" ->
         IF site.control # "NO" /\ ~r.ssl THEN TlsStart(r) ELSE LoginStart(r)
    [] r.state = "TLS_PHASE_TLS" /\ code = "234" ->
         [r EXCEPT !.forcebusy = TRUE, !.state = "TLS_WAIT"]
    [] r.state = "TLS_PHASE_TLS" /\ code # "234" -> CmdqNew(r, "AUTH_SSL")
    [] r.state = "TLS_PHASE_SSL" /\ code = "234" -> [r EXCEPT !.state = "TLS_WAIT"]
    [] r.state = "TLS_PHASE_SSL" /\ code # "234" -> LoginStart(r)
    [] r.state = "LOGIN_SENT_USER" -> IF code = "331" THEN CmdqNew(r, "PASS") ELSE SetClose(r)
    [] r.state = "LOGIN_SENT_PASS" -> IF code = "230" THEN Misc(r) ELSE SetClose(r)
    [] OTHER -> r

Process(r, code) ==
  CASE r.state = "AWAIT_220" /\ code = "220" ->
         IF site.control # "NO" /\ ~r.ssl THEN TlsStart(r) ELSE LoginStart(r)
    [] r.state = "TLS_PHASE_TLS" /\ code = "234" ->
         [r EXCEPT !.forcebusy = TRUE, !.state = "TLS_WAIT"]
    [] r.state = "TLS_PHASE_TLS" /\ code # "234" -> CmdqNew(r, "AUTH_SSL")
    [] r.state = "TLS_PHASE_SSL" /\ code = "234" -> [r EXCEPT !.state = "TLS_WAIT"]
    [] r.state = "TLS_PHASE_SSL" /\ code # "234" ->
         IF site.control = "YES" THEN SetClose(r) ELSE LoginStart(r)
    [] r.state = "LOGIN_SENT_USER" -> IF code = "331" THEN CmdqNew(r, "PASS") ELSE SetClose(r)
    [] r.state = "LOGIN_SENT_PASS" -> IF code = "230" THEN Misc(r) ELSE SetClose(r)
    [] OTHER -> r

\* The state that the reply to a command is processed in; that of AUTH TLS is
\* left to be what it is, and a QUOTE is not processed at all.
StateOf(cmd, state) ==
  CASE cmd = "AUTH_SSL" -> "TLS_PHASE_SSL"
    [] cmd = "USER" -> "LOGIN_SENT_USER"
    [] cmd = "PASS" -> "LOGIN_SENT_PASS"
    [] cmd \in {"AUTH_TLS", "QUOTE"} -> state
    [] OTHER -> "REPLY"

\* Lines of the reply to FEAT may ask for SITE XDUPE.
Features(r, cmd) == IF cmd = "FEAT" /\ site.xdupe THEN CmdqNew(r, "XDUPE") ELSE r

CmdqReply(r, code) ==
  LET cmd == Head(r.cmdq)
      r1 == Features([r EXCEPT !.cmdq = Tail(@), !.state = StateOf(cmd, @)], cmd)
      r2 == CASE cmd = "QUOTE" -> r1
              [] cmd = "CWD" -> [r1 EXCEPT !.state = "IDLE"]
              [] OTHER -> Process(r1, code)
  IN  Restart([r2 EXCEPT !.isidle = TRUE])

Tell(r) ==
  heard' = IF ~r.handle THEN "DISCONNECT" ELSE IF r.told THEN "CONNECT" ELSE heard

Becomes(r) == s' = r /\ Tell(r)

-----------------------------------------------------------------------------
(* The session and its owner. *)

Up == s.handle

Connected ==
  /\ Up /\ s.state = "CONNECTING"
  /\ Becomes([s EXCEPT !.state = "AWAIT_220", !.isidle = TRUE])
  /\ UNCHANGED <<site, server, link, replies, asks, odd>>

\* A reply is the reply to the oldest command, unless none has been sent.
Take ==
  /\ Up /\ s.state # "CONNECTING" /\ replies # <<>>
  /\ replies' = Tail(replies)
  /\ LET code == Head(replies).code
     IN  /\ Becomes(IF s.isidle THEN Process(s, code) ELSE CmdqReply(s, code))
         /\ link' = IF code = "234" THEN "negotiating" ELSE link
         /\ odd' = odd \cup (IF code = "234" /\ Head(replies).of = "AUTH_SSL"
                             THEN {"ssl"} ELSE {})
  /\ UNCHANGED <<site, server, asks>>

\* What is in the queue before the login is, or is sent at once.
Ask(cmd) ==
  /\ Up /\ asks < MaxAsks
  /\ asks' = asks + 1
  /\ Becomes(CmdqNew(s, cmd))
  /\ odd' = odd \cup (IF s.state = "AWAIT_220" \/ (s.state = "CONNECTING" /\ cmd = "CWD")
                      THEN {"asked"} ELSE {})
  /\ UNCHANGED <<site, server, link, replies>>

\* The server has been waiting for the end of a negotiation, or is yet to greet.
Negotiated ==
  /\ Up /\ link = "negotiating"
  /\ server' = IF server = "negotiates" THEN "open" ELSE server
  /\ UNCHANGED <<site, replies, asks>>

\* Mutant: the queue is not let go when the connection is secure.
SecuredBusy ==
  /\ Negotiated
  /\ link' = "secure"
  /\ Becomes(CASE s.state = "CONNECTING" -> [s EXCEPT !.ssl = TRUE]
               [] s.state = "TLS_WAIT" -> LoginStart([s EXCEPT !.ssl = TRUE])
               [] OTHER -> s)
  /\ UNCHANGED odd

\* SECURE_ENABLED, which TLS_WAIT expects, and CONNECTING of an implicit one; it may
\* come after CONNECTED as well, and then nobody looks at it.
Secured ==
  /\ Negotiated
  /\ link' = "secure"
  /\ Becomes(CASE s.state = "CONNECTING" -> [s EXCEPT !.ssl = TRUE]
               [] s.state = "TLS_WAIT" ->
                    Restart([LoginStart([s EXCEPT !.ssl = TRUE]) EXCEPT !.forcebusy = FALSE])
               [] OTHER -> s)
  /\ UNCHANGED odd

\* SECURE_FAILED.  What is left of the connection is of no use, but a server that is
\* yet to greet may still do so in plain.
SecureFailed ==
  /\ Negotiated
  /\ link' \in IF server = "away" THEN {"plain", "broken"} ELSE {"broken"}
  /\ Becomes(IF s.state \notin {"CONNECTING", "TLS_WAIT"} THEN s
             ELSE IF site.control = "YES" THEN SetClose(s)
             ELSE Restart([s EXCEPT !.forcebusy = FALSE]))
  /\ odd' = odd \cup {"failed"}

\* The connection is lost, or cannot be made, or the greeting is that of SSH.
Lost ==
  /\ Up
  /\ Becomes(SetClose(s))
  /\ UNCHANGED <<site, server, link, replies, asks, odd>>

-----------------------------------------------------------------------------
(* The server. *)

Answers(code, cmd) == replies' = Append(replies, [code |-> code, of |-> cmd])

Greet ==
  /\ Up /\ server = "away" /\ s.state # "CONNECTING" /\ link \notin {"negotiating", "broken"}
  /\ server' = "open"
  /\ Answers("220", "greeting")
  /\ UNCHANGED <<site, s, link, heard, asks, odd>>

\* The oldest command is answered.  A server that negotiates reads no commands.
Serve ==
  /\ Up /\ server \notin {"away", "negotiates"} /\ s.sent # <<>>
  /\ LET cmd == Head(s.sent)
     IN  /\ s' = [s EXCEPT !.sent = Tail(@)]
         /\ CASE cmd \in {"AUTH_TLS", "AUTH_SSL"} ->
                   \/ Answers("234", cmd) /\ server' = "negotiates"
                   \/ Answers("500", cmd) /\ UNCHANGED server
              [] cmd = "USER" ->
                   \/ Answers("331", cmd) /\ server' = "known"
                   \/ Answers("530", cmd) /\ UNCHANGED server
              [] cmd = "PASS" /\ server = "known" ->
                   \/ Answers("230", cmd) /\ server' = "in"
                   \/ Answers("530", cmd) /\ UNCHANGED server
              [] OTHER -> Answers(IF server = "in" THEN "200" ELSE "530", cmd)
                            /\ UNCHANGED server
  /\ UNCHANGED <<site, link, heard, asks, odd>>

-----------------------------------------------------------------------------

Next ==
  \/ Connected \/ Take \/ Secured \/ SecureFailed \/ Lost \/ Greet \/ Serve
  \/ \E cmd \in UserCmd : Ask(cmd)

Spec == Init /\ [][Next]_vars

\* Connections are made, servers greet and answer, negotiations end; a server
\* drops a connection whose negotiation has failed.
Fairness ==
  /\ WF_vars(Connected) /\ WF_vars(Take) /\ WF_vars(Greet) /\ WF_vars(Serve)
  /\ WF_vars(Secured \/ SecureFailed) /\ WF_vars(link = "broken" /\ Lost)

FairSpec == Spec /\ Fairness

-----------------------------------------------------------------------------
(* Properties. *)

\* Every variable keeps its type.
TypeOK ==
  /\ site \in Site /\ s \in Session
  /\ server \in {"away", "open", "negotiates", "known", "in"}
  /\ link \in {"plain", "negotiating", "secure", "broken"}
  /\ replies \in Seq([code: {"220", "234", "500", "331", "530", "230", "200"},
                      of: Command \cup {"greeting"}])
  /\ heard \in {"nothing", "CONNECT", "DISCONNECT"} /\ asks \in 0 .. MaxAsks
  /\ odd \subseteq {"asked", "ssl", "failed"}

SentOrQueued(cmd) ==
  \/ \E i \in DOMAIN s.sent : s.sent[i] = cmd
  \/ \E i \in DOMAIN s.cmdq : s.cmdq[i] = cmd

\* control_TLS=YES: no USER or PASS leaves over a connection that is not secure,
\* whatever the user asks for meanwhile, whatever the server refuses, whenever an
\* implicit negotiation ends.  A local site is no connection over the network.
PasswordPrivate ==
  site.control = "YES" /\ ~site.local /\ (SentOrQueued("PASS") \/ SentOrQueued("USER"))
    => link = "secure"

\* A comment of SESSION_ST_MISC: "Feat is last, once we get its reply we tell
\* the client".  So the owner is told CONNECT when the session is logged in,
\* unless a user's command comes too early, the server takes AUTH SSL or the
\* negotiation fails on a site that could do without.
ToldWhenIn == TypeOK /\ (odd = {} /\ heard = "CONNECT" => server = "in")

\* In the end the owner is told that the session is there, or that it is not.
ToldInTheEnd == <>(heard # "nothing")
=============================================================================
