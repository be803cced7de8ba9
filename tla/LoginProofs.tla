------------------------------ MODULE LoginProofs ------------------------------
(***************************************************************************)
(* Theorems about the login, for every number of commands that the user    *)
(* gives meanwhile: where control_TLS is YES neither USER nor PASS leaves  *)
(* over a connection that is not secure, and the owner hears CONNECT only  *)
(* of a session that is logged in, unless something came that the login is *)
(* not prepared for.                                                       *)
(*                                                                         *)
(* Both rest on what is in the queue and on its way: as long as a command  *)
(* of the login is, it is the only one, and the session waits for the      *)
(* reply to the first of its queue and for nothing else.                   *)
(***************************************************************************)
EXTENDS Login, SequenceTheorems, TLAPS

Auth  == {"AUTH_TLS", "AUTH_SSL"}
Named == {"USER", "PASS"}
Later == {"PBSZ", "SYST", "CLNT", "FEAT", "XDUPE"}
Reply ==
  [code: {"220", "234", "500", "331", "530", "230", "200"}, of: Command \cup {"greeting"}]

-----------------------------------------------------------------------------
(* The invariant. *)

\* A queue of the commands of a user, and one that holds c besides.
Theirs(q) == q \in Seq(UserCmd)
One(q, c) ==
  \E i \in DOMAIN q : q[i] = c /\ \A j \in DOMAIN q \ {i} : q[j] \in UserCmd

\* In the queue of AUTH TLS there is no CWD before it.
Quoted(q) ==
  \A i \in DOMAIN q : q[i] = "CWD" => \E j \in DOMAIN q : j < i /\ q[j] = "AUTH_TLS"

\* The command that was sent last has not been answered, or its reply has not
\* been taken.
Flying ==
  \/ s.sent = <<Head(s.cmdq)>> /\ replies = <<>>
  \/ s.sent = <<>> /\ Len(replies) = 1 /\ replies[1].of = Head(s.cmdq)

Waits(c) == ~s.isidle /\ ~s.forcebusy /\ One(s.cmdq, c) /\ Flying

\* A reply that is neither the greeting nor the consent to a negotiation.
Plain(r) == r.of # "greeting" /\ r.code \notin {"220", "234"}

\* What a reply may be to.
Sound(r) ==
  /\ r.code = "220" <=> r.of = "greeting"
  /\ r.code = "234" => r.of \in Auth
  /\ r.code = "230" => r.of = "PASS"

\* A session that is not idle waits for a reply to its first command, and one that
\* is has nothing to do or may not do it.
Kept(r) ==
  r.handle =>
    /\ ~r.isidle /\ r.state # "CONNECTING" => r.cmdq # <<>>
    /\ r.isidle => r.state \in {"AWAIT_220", "TLS_WAIT", "IDLE"}
    /\ r.forcebusy => r.isidle /\ r.state = "TLS_WAIT"

\* A session that waits has something to wait for, and one that is connecting has
\* nothing.
ShapeInv ==
  /\ \A i \in DOMAIN replies : Sound(replies[i])
  /\ s.handle /\ s.state = "CONNECTING" =>
       ~s.isidle /\ s.sent = <<>> /\ replies = <<>> /\ server = "away"
  /\ Kept(s)

\* Before the greeting has been taken, which comes when an implicit negotiation has
\* ended.
Ungreeted ==
  /\ s.state \in {"CONNECTING", "AWAIT_220"} /\ ~s.forcebusy
  /\ link \in {"negotiating", "broken"} => server = "away"
  /\ Theirs(s.cmdq) /\ Theirs(s.sent)
  /\ server = "away" => replies = <<>>
  /\ server # "away" =>
       /\ replies # <<>> /\ Head(replies).of = "greeting"
       /\ \A i \in 2 .. Len(replies) : Plain(replies[i])
  /\ s.isidle => s.sent = <<>> /\ Len(replies) <= 1

\* While AUTH has not been answered.
Authenticates(c) ==
  /\ Waits(c) /\ s.state \in {"TLS_PHASE_TLS", "IDLE"} /\ link \in {"plain", "secure"}
  /\ server # "away"

\* There will be no other AUTH.
Past ==
  /\ s.state \in {"AWAIT_220", "TLS_WAIT", "IDLE"} /\ server # "away"
  /\ Theirs(s.cmdq) /\ Theirs(s.sent) /\ \A i \in DOMAIN replies : Plain(replies[i])

\* Where control_TLS is YES, before the session knows that the connection is secure,
\* and after, with the greeting yet to come and with the login begun.
Unsecured ==
  /\ s.handle => ~s.ssl /\ (Ungreeted \/ (\E c \in Auth : Authenticates(c)) \/ Past)
  /\ ~s.handle => s.cmdq \in Seq(UserCmd \cup Auth) /\ s.sent = <<>>

Protected ==
  s.handle =>
    /\ s.cmdq \in Seq(Command \ Auth) /\ s.sent \in Seq(Command \ Auth)
    /\ s.state # "TLS_PHASE_TLS" /\ server # "away"
    /\ \A i \in DOMAIN replies : Plain(replies[i])

Secure == s.handle /\ s.ssl /\ Ungreeted

Private == Unsecured \/ (link = "secure" /\ (Secure \/ Protected))

PrivateInv == site.control = "YES" /\ ~site.local => Private

\* The login of a session that nothing unforeseen has happened to: it is greeted,
Greeted ==
  /\ ~s.forcebusy /\ s.cmdq \in Seq({"QUOTE"}) /\ s.sent = <<>>
  /\ link # "broken" /\ (link = "negotiating" => server = "away")
  /\ \/ s.state = "CONNECTING"
     \/ s.state = "AWAIT_220" /\ s.isidle
  /\ \/ server = "away" /\ replies = <<>>
     \/ server # "away" /\ Len(replies) = 1 /\ replies[1].of = "greeting"

\* negotiates,
Offers ==
  /\ link \in {"plain", "secure"} /\ server # "away"
  /\ \/ Waits("AUTH_TLS") /\ s.state = "TLS_PHASE_TLS" /\ Quoted(s.cmdq)
     \/ Waits("AUTH_SSL") /\ s.state \in {"TLS_PHASE_TLS", "IDLE"}

Negotiates ==
  /\ s.state = "TLS_WAIT" /\ s.forcebusy /\ s.isidle /\ link = "negotiating"
  /\ s.sent = <<>> /\ replies = <<>> /\ Theirs(s.cmdq) /\ server # "away"

\* gives its name and password,
Enters(c) ==
  /\ Waits(c) /\ link \notin {"negotiating", "broken"} /\ s.state \notin {"CONNECTING", "AWAIT_220"}
  /\ server # "away"
  /\ replies # <<>> /\ replies[1].code = "230" => server = "in"

\* and is in.
In ==
  /\ server = "in" /\ s.state \in {"IDLE", "REPLY"} /\ link # "negotiating"
  /\ s.cmdq \in Seq(Command \ (Auth \cup Named)) /\ s.sent \in Seq(Command \ (Auth \cup Named))
  /\ \A i \in DOMAIN replies : Plain(replies[i])

OnTheWay == ~s.told /\ (Greeted \/ Offers \/ Negotiates \/ \E c \in Named : Enters(c))

ToldInv ==
  /\ ~s.handle => heard = "DISCONNECT"
  /\ s.handle => (heard = "CONNECT" <=> s.told)
  /\ odd = {} /\ s.handle => In \/ OnTheWay

IInv == TypeOK /\ ShapeInv /\ PrivateInv /\ ToldInv

-----------------------------------------------------------------------------
(* Queues. *)

\* What stands first in a queue, and what follows it.
LEMMA FirstOf ==
  ASSUME NEW S, NEW q \in Seq(S), q # <<>>
  PROVE  /\ Head(q) \in S /\ Tail(q) \in Seq(S) /\ Head(q) = q[1]
         /\ Len(q) \in Nat \ {0} /\ Len(Tail(q)) = Len(q) - 1
         /\ DOMAIN q = 1 .. Len(q) /\ DOMAIN Tail(q) = 1 .. Len(q) - 1
         /\ \A i \in 1 .. Len(q) - 1 : Tail(q)[i] = q[i + 1]
OBVIOUS

\* A queue to which something is added.
LEMMA AtTheEnd ==
  ASSUME NEW S, NEW q \in Seq(S), NEW e \in S
  PROVE  /\ Append(q, e) \in Seq(S) /\ Append(q, e) # <<>>
         /\ Len(q) \in Nat /\ Len(Append(q, e)) = Len(q) + 1
         /\ DOMAIN q = 1 .. Len(q) /\ DOMAIN Append(q, e) = 1 .. Len(q) + 1
         /\ \A i \in 1 .. Len(q) : Append(q, e)[i] = q[i]
         /\ Append(q, e)[Len(q) + 1] = e
         /\ q # <<>> => Head(Append(q, e)) = Head(q)
         /\ q = <<>> => Append(q, e) = <<e>> /\ Head(Append(q, e)) = e
<1>1. /\ Append(q, e) \in Seq(S) /\ Append(q, e) # <<>>
      /\ Len(q) \in Nat /\ Len(Append(q, e)) = Len(q) + 1
      /\ DOMAIN q = 1 .. Len(q) /\ DOMAIN Append(q, e) = 1 .. Len(q) + 1
      /\ \A i \in 1 .. Len(q) : Append(q, e)[i] = q[i]
      /\ Append(q, e)[Len(q) + 1] = e
  OBVIOUS
<1>2. q # <<>> => Head(Append(q, e)) = Head(q)
  OBVIOUS
<1>3. ASSUME q = <<>> PROVE Append(q, e) = <<e>> /\ Head(Append(q, e)) = e
  BY <1>3
<1> QED
  BY <1>1, <1>2, <1>3

\* A queue of some commands is one of more.
LEMMA Widen ==
  ASSUME NEW S, NEW T, S \subseteq T, NEW q \in Seq(S)
  PROVE  q \in Seq(T)
OBVIOUS

\* The first command of a user's queue to which one of the login is added.
LEMMA OneNew ==
  ASSUME NEW q \in Seq(UserCmd), NEW c \in Command
  PROVE  One(Append(q, c), c)
<1>1. UserCmd \subseteq Command
  BY DEF Command
<1>2. q \in Seq(Command)
  BY <1>1, Widen
<1>3. /\ Len(q) \in Nat /\ DOMAIN Append(q, c) = 1 .. Len(q) + 1
      /\ Append(q, c)[Len(q) + 1] = c /\ \A i \in 1 .. Len(q) : Append(q, c)[i] = q[i]
  BY <1>2, AtTheEnd
<1>4. \A j \in DOMAIN Append(q, c) \ {Len(q) + 1} : Append(q, c)[j] \in UserCmd
  BY <1>3
<1>5. Len(q) + 1 \in DOMAIN Append(q, c)
  BY <1>3
<1> QED
  BY <1>3, <1>4, <1>5 DEF One

\* A user's command leaves a command of the login the only one.
LEMMA OneMore ==
  ASSUME NEW q \in Seq(Command), NEW c, One(q, c), NEW cmd \in UserCmd
  PROVE  One(Append(q, cmd), c)
<1>1. PICK i \in DOMAIN q : q[i] = c /\ \A j \in DOMAIN q \ {i} : q[j] \in UserCmd
  BY DEF One
<1>2. cmd \in Command
  BY DEF Command
<1>3. /\ Len(q) \in Nat /\ DOMAIN Append(q, cmd) = 1 .. Len(q) + 1 /\ DOMAIN q = 1 .. Len(q)
      /\ Append(q, cmd)[Len(q) + 1] = cmd
      /\ \A k \in 1 .. Len(q) : Append(q, cmd)[k] = q[k]
  BY <1>2, AtTheEnd
<1>4. i \in DOMAIN Append(q, cmd) /\ Append(q, cmd)[i] = c
  BY <1>1, <1>3
<1>5. \A j \in DOMAIN Append(q, cmd) \ {i} : Append(q, cmd)[j] \in UserCmd
  BY <1>1, <1>3
<1> QED
  BY <1>4, <1>5 DEF One

\* What stands first in such a queue, and what is left once it is answered.
LEMMA OneFirst ==
  ASSUME NEW q \in Seq(Command), NEW c, c \notin UserCmd, One(q, c)
  PROVE  /\ q # <<>> /\ Head(q) \in UserCmd \cup {c}
         /\ Head(q) \in UserCmd => One(Tail(q), c)
         /\ Head(q) = c => Theirs(Tail(q))
         /\ q \in Seq(UserCmd \cup {c})
<1>1. PICK i \in DOMAIN q : q[i] = c /\ \A j \in DOMAIN q \ {i} : q[j] \in UserCmd
  BY DEF One
<1>2. q # <<>>
  BY <1>1
<1>3. /\ Head(q) = q[1] /\ Len(q) \in Nat \ {0} /\ Tail(q) \in Seq(Command)
      /\ Len(Tail(q)) = Len(q) - 1
      /\ DOMAIN q = 1 .. Len(q) /\ DOMAIN Tail(q) = 1 .. Len(q) - 1
      /\ \A k \in 1 .. Len(q) - 1 : Tail(q)[k] = q[k + 1]
  BY <1>2, FirstOf
<1>4. \A k \in DOMAIN q : q[k] \in UserCmd \cup {c}
  BY <1>1
<1>5. Head(q) \in UserCmd \cup {c}
  BY <1>3, <1>4
<1>6. ASSUME Head(q) \in UserCmd PROVE One(Tail(q), c)
  <2>1. i # 1
    BY <1>1, <1>3, <1>6
  <2>2. i - 1 \in DOMAIN Tail(q) /\ Tail(q)[i - 1] = c
    BY <1>1, <1>3, <2>1
  <2>3. \A j \in DOMAIN Tail(q) \ {i - 1} : Tail(q)[j] \in UserCmd
    BY <1>1, <1>3
  <2> QED
    BY <2>2, <2>3 DEF One
<1>7. ASSUME Head(q) = c PROVE Theirs(Tail(q))
  <2>1. i = 1
    BY <1>1, <1>3, <1>7
  <2>2. \A k \in 1 .. Len(q) - 1 : Tail(q)[k] \in UserCmd
    BY <1>1, <1>3, <2>1
  <2> DEFINE t == Tail(q)
  <2>3. t \in Seq(Command) /\ Len(t) = Len(q) - 1 /\ \A k \in 1 .. Len(t) : t[k] \in UserCmd
    BY <1>3, <2>2
  <2> HIDE DEF t
  <2>4. t \in Seq(UserCmd)
    BY <2>3
  <2> QED
    BY <2>4 DEF t, Theirs
<1>8. q \in Seq(UserCmd \cup {c})
  BY <1>3, <1>4
<1> QED
  BY <1>2, <1>5, <1>6, <1>7, <1>8

\* A CWD that is asked for comes after AUTH TLS, which comes after QUOTEs only.
LEMMA QuotedKept ==
  ASSUME NEW q \in Seq(Command)
  PROVE  /\ q \in Seq({"QUOTE"}) => Quoted(Append(q, "AUTH_TLS"))
         /\ Quoted(q) /\ One(q, "AUTH_TLS") =>
              /\ \A cmd \in UserCmd : Quoted(Append(q, cmd))
              /\ Head(q) # "CWD"
              /\ Head(q) = "QUOTE" => Quoted(Tail(q))
<1>1. ASSUME q \in Seq({"QUOTE"}) PROVE Quoted(Append(q, "AUTH_TLS"))
  <2> DEFINE c == "AUTH_TLS"
             t == Append(q, c)
  <2>1. c \in Command /\ c # "CWD"
    BY DEF Command
  <2> HIDE DEF c
  <2>2. /\ DOMAIN t = 1 .. Len(q) + 1 /\ t[Len(q) + 1] = c /\ Len(q) \in Nat
        /\ \A i \in 1 .. Len(q) : t[i] = q[i]
    BY <2>1, AtTheEnd
  <2>3. \A i \in 1 .. Len(q) : q[i] = "QUOTE"
    BY <1>1
  <2> HIDE DEF t
  <2>4. ASSUME NEW i \in DOMAIN t PROVE t[i] # "CWD"
    <3>1. i \in 1 .. Len(q) \/ i = Len(q) + 1
      BY <2>2
    <3> QED
      BY <2>1, <2>2, <2>3, <3>1
  <2>5. Quoted(t)
    BY <2>4, Zenon DEF Quoted
  <2> QED
    BY <2>5 DEF t, c
<1>2. ASSUME Quoted(q), One(q, "AUTH_TLS"), NEW cmd \in UserCmd
      PROVE  Quoted(Append(q, cmd))
  <2>1. PICK i \in DOMAIN q : q[i] = "AUTH_TLS"
    BY <1>2 DEF One
  <2>2. cmd \in Command
    BY DEF Command
  <2>3. /\ DOMAIN Append(q, cmd) = 1 .. Len(q) + 1 /\ DOMAIN q = 1 .. Len(q) /\ Len(q) \in Nat
        /\ \A k \in 1 .. Len(q) : Append(q, cmd)[k] = q[k]
    BY <2>2, AtTheEnd
  <2>4. SUFFICES ASSUME NEW k \in DOMAIN Append(q, cmd), Append(q, cmd)[k] = "CWD"
                 PROVE  \E j \in DOMAIN Append(q, cmd) : j < k /\ Append(q, cmd)[j] = "AUTH_TLS"
    BY DEF Quoted
  <2>5. CASE k = Len(q) + 1
    <3>1. i \in DOMAIN Append(q, cmd) /\ i < k /\ Append(q, cmd)[i] = "AUTH_TLS"
      BY <2>1, <2>3, <2>5
    <3> QED
      BY <3>1
  <2>6. CASE k \in DOMAIN q
    <3>1. PICK j \in DOMAIN q : j < k /\ q[j] = "AUTH_TLS"
      BY <1>2, <2>3, <2>4, <2>6 DEF Quoted
    <3>2. j \in DOMAIN Append(q, cmd) /\ Append(q, cmd)[j] = "AUTH_TLS"
      BY <2>3, <3>1
    <3> QED
      BY <3>1, <3>2
  <2>7. k \in DOMAIN q \/ k = Len(q) + 1
    BY <2>3
  <2> QED
    BY <2>5, <2>6, <2>7
<1>3. ASSUME Quoted(q), One(q, "AUTH_TLS")
      PROVE  Head(q) # "CWD" /\ (Head(q) = "QUOTE" => Quoted(Tail(q)))
  <2>1. q # <<>>
    <3>1. PICK i \in DOMAIN q : q[i] = "AUTH_TLS"
      BY <1>3 DEF One
    <3>2. DOMAIN q = 1 .. Len(q) /\ Len(q) \in Nat
      OBVIOUS
    <3>3. Len(q) # 0
      BY <3>2
    <3> QED
      BY <3>3
  <2>2. /\ Head(q) = q[1] /\ Len(q) \in Nat \ {0}
        /\ DOMAIN q = 1 .. Len(q) /\ DOMAIN Tail(q) = 1 .. Len(q) - 1
        /\ \A k \in 1 .. Len(q) - 1 : Tail(q)[k] = q[k + 1]
    BY <2>1, FirstOf
  <2>3. Head(q) # "CWD"
    <3>1. 1 \in DOMAIN q /\ ~ \E j \in DOMAIN q : j < 1 /\ q[j] = "AUTH_TLS"
      BY <2>2
    <3> QED
      BY <1>3, <2>2, <3>1 DEF Quoted
  <2>4. ASSUME Head(q) = "QUOTE", NEW k \in DOMAIN Tail(q), Tail(q)[k] = "CWD"
        PROVE  \E j \in DOMAIN Tail(q) : j < k /\ Tail(q)[j] = "AUTH_TLS"
    <3>1. k + 1 \in DOMAIN q /\ q[k + 1] = "CWD"
      BY <2>2, <2>4
    <3>2. PICK j \in DOMAIN q : j < k + 1 /\ q[j] = "AUTH_TLS"
      BY <1>3, <3>1 DEF Quoted
    <3>3. j # 1
      BY <2>2, <2>4, <3>2
    <3>4. j - 1 \in DOMAIN Tail(q) /\ j - 1 < k /\ j - 1 + 1 = j
      BY <2>2, <2>4, <3>2, <3>3
    <3>5. Tail(q)[j - 1] = "AUTH_TLS"
      BY <2>2, <3>2, <3>4
    <3> QED
      BY <3>4, <3>5
  <2> QED
    BY <2>3, <2>4 DEF Quoted
<1> QED
  BY <1>1, <1>2, <1>3

-----------------------------------------------------------------------------
(* The command queue. *)

\* An idle queue is restarted: its first command is sent, or the owner is told.
Restarted(r, x) ==
  /\ x \in Session
  /\ x.handle <=> r.handle
  /\ x.forcebusy <=> r.forcebusy
  /\ x.ssl <=> r.ssl
  /\ x.cmdq = r.cmdq
  /\ ~r.handle \/ r.forcebusy \/ ~r.isidle => x = r
  /\ r.handle /\ ~r.forcebusy /\ r.isidle /\ r.cmdq # <<>> =>
       /\ ~x.isidle /\ x.sent = Append(r.sent, Head(r.cmdq)) /\ x.state = r.state
       /\ x.told <=> r.told
  /\ r.handle /\ ~r.forcebusy /\ r.isidle /\ r.cmdq = <<>> =>
       x.isidle /\ x.sent = r.sent /\ x.state = "IDLE" /\ x.told

LEMMA RestartFields ==
  ASSUME NEW r \in Session, NEW x, x = Restart(r)
  PROVE  Restarted(r, x)
<1>1. CASE ~r.handle \/ r.forcebusy \/ ~r.isidle
  BY <1>1 DEF Restart, Restarted
<1>2. CASE r.handle /\ ~r.forcebusy /\ r.isidle /\ r.cmdq # <<>>
  <2>1. x = [r EXCEPT !.isidle = FALSE, !.sent = Append(r.sent, Head(r.cmdq))]
    BY <1>2 DEF Restart
  <2>2. r.cmdq \in Seq(Command) /\ r.sent \in Seq(Command)
    BY DEF Session
  <2>3. Append(r.sent, Head(r.cmdq)) \in Seq(Command)
    BY <1>2, <2>2, FirstOf, AtTheEnd
  <2> HIDE DEF State
  <2> QED
    BY <1>2, <2>1, <2>3 DEF Session, Restarted
<1>3. CASE r.handle /\ ~r.forcebusy /\ r.isidle /\ r.cmdq = <<>>
  <2>1. x = [r EXCEPT !.state = "IDLE", !.told = TRUE]
    BY <1>3 DEF Restart
  <2>2. "IDLE" \in State
    BY DEF State
  <2> QED
    BY <1>3, <2>1, <2>2 DEF Session, Restarted
<1> QED
  BY <1>1, <1>2, <1>3

\* A command is queued, and sent if nothing is waited for.
LEMMA NewFields ==
  ASSUME NEW r \in Session, NEW cmd \in Command, NEW x, x = CmdqNew(r, cmd)
  PROVE  /\ x \in Session
         /\ x.handle <=> r.handle
         /\ x.forcebusy <=> r.forcebusy
         /\ x.ssl <=> r.ssl
         /\ x.told <=> r.told
         /\ x.state = r.state
         /\ ~r.handle => x = r
         /\ r.handle => x.cmdq = Append(r.cmdq, cmd)
         /\ r.forcebusy \/ ~r.isidle => (x.isidle <=> r.isidle) /\ x.sent = r.sent
         /\ r.handle /\ ~r.forcebusy /\ r.isidle =>
              ~x.isidle /\ x.sent = Append(r.sent, Head(Append(r.cmdq, cmd)))
<1>1. CASE ~r.handle
  BY <1>1 DEF CmdqNew
<1>2. CASE r.handle
  <2> DEFINE y == [r EXCEPT !.cmdq = Append(r.cmdq, cmd)]
  <2>1. r.cmdq \in Seq(Command)
    BY DEF Session
  <2>2. Append(r.cmdq, cmd) \in Seq(Command) /\ Append(r.cmdq, cmd) # <<>>
    BY <2>1, AtTheEnd
  <2>3. /\ y \in Session /\ y.cmdq = Append(r.cmdq, cmd) /\ y.state = r.state /\ y.sent = r.sent
        /\ y.handle <=> r.handle
        /\ y.forcebusy <=> r.forcebusy
        /\ y.ssl <=> r.ssl
        /\ y.told <=> r.told
        /\ y.isidle <=> r.isidle
    BY <2>2 DEF Session
  <2>4. x = Restart(y)
    BY <1>2 DEF CmdqNew
  <2> HIDE DEF y
  <2>5. x \in Session /\ x.cmdq = y.cmdq
    BY <2>3, <2>4, RestartFields DEF Restarted
  <2>6. CASE y.forcebusy \/ ~y.isidle
    <3>1. x = y
      BY <2>3, <2>4, <2>6, RestartFields DEF Restarted
    <3> QED
      BY <1>2, <2>3, <2>6, <3>1
  <2>7. CASE ~y.forcebusy /\ y.isidle
    <3>1. /\ x.handle <=> y.handle
          /\ x.forcebusy <=> y.forcebusy
          /\ x.ssl <=> y.ssl
          /\ ~x.isidle /\ x.sent = Append(y.sent, Head(y.cmdq)) /\ x.state = y.state
          /\ x.told <=> y.told
      BY <1>2, <2>2, <2>3, <2>4, <2>7, RestartFields DEF Restarted
    <3> QED
      BY <1>2, <2>3, <2>5, <2>7, <3>1
  <2> QED
    BY <2>6, <2>7
<1> QED
  BY <1>1, <1>2

\* What is asked for after the login joins the queue of a session that waits.
LEMMA MiscFields ==
  ASSUME NEW r \in Session, r.handle, ~r.isidle, ~r.forcebusy, NEW x, x = Misc(r)
  PROVE  /\ x \in Session /\ x.handle /\ ~x.isidle /\ ~x.forcebusy
         /\ x.ssl <=> r.ssl
         /\ x.told <=> r.told
         /\ x.state = "IDLE" /\ x.sent = r.sent /\ x.cmdq # <<>>
         /\ \A T \in SUBSET Command :
              Later \subseteq T /\ r.cmdq \in Seq(T) => x.cmdq \in Seq(T)
<1> DEFINE a == [r EXCEPT !.state = "IDLE"]
           b == IF r.ssl THEN CmdqNew(a, "PBSZ") ELSE a
           c == CmdqNew(b, "SYST")
           d == CmdqNew(c, "CLNT")
           e == CmdqNew(d, "FEAT")
           Same(y) == /\ y \in Session /\ y.handle /\ ~y.isidle /\ ~y.forcebusy
                      /\ y.ssl <=> r.ssl
                      /\ y.told <=> r.told
                      /\ y.state = "IDLE" /\ y.sent = r.sent
<1>1. x = e
  BY DEF Misc
<1>2. ASSUME NEW y, Same(y), NEW cmd \in Command, NEW z, z = CmdqNew(y, cmd)
      PROVE  Same(z) /\ z.cmdq = Append(y.cmdq, cmd) /\ y.cmdq \in Seq(Command)
  <2>1. y \in Session
    BY <1>2
  <2>2. /\ z \in Session
        /\ z.handle <=> y.handle
        /\ z.forcebusy <=> y.forcebusy
        /\ z.ssl <=> y.ssl
        /\ z.told <=> y.told
        /\ z.state = y.state /\ z.cmdq = Append(y.cmdq, cmd)
        /\ (z.isidle <=> y.isidle) /\ z.sent = y.sent
    BY <1>2, <2>1, NewFields
  <2>3. y.cmdq \in Seq(Command)
    BY <2>1 DEF Session
  <2> QED
    BY <1>2, <2>2, <2>3
<1>3. /\ "PBSZ" \in Command /\ "SYST" \in Command /\ "CLNT" \in Command /\ "FEAT" \in Command
      /\ "IDLE" \in State
  BY DEF Command, State
<1>4. Same(a) /\ a.cmdq = r.cmdq /\ r.cmdq \in Seq(Command)
  BY <1>3 DEF Session
<1> HIDE DEF Same, a
<1>5. Same(b) /\ b.cmdq \in {r.cmdq, Append(r.cmdq, "PBSZ")}
  <2>1. CASE r.ssl
    <3>1. b = CmdqNew(a, "PBSZ")
      BY <2>1
    <3>2. Same(b) /\ b.cmdq = Append(a.cmdq, "PBSZ")
      BY <1>2, <1>3, <1>4, <3>1
    <3> QED
      BY <1>4, <3>2
  <2>2. CASE ~r.ssl
    BY <1>4, <2>2
  <2> QED
    BY <2>1, <2>2
<1> HIDE DEF b
<1>6. Same(c) /\ c.cmdq = Append(b.cmdq, "SYST") /\ b.cmdq \in Seq(Command)
  BY <1>2, <1>3, <1>5
<1> HIDE DEF c
<1>7. Same(d) /\ d.cmdq = Append(c.cmdq, "CLNT")
  BY <1>2, <1>3, <1>6
<1> HIDE DEF d
<1>8. Same(e) /\ e.cmdq = Append(d.cmdq, "FEAT") /\ d.cmdq \in Seq(Command)
  BY <1>2, <1>3, <1>7
<1> HIDE DEF e
<1>9. e.cmdq # <<>>
  BY <1>3, <1>8, AtTheEnd
<1>10. ASSUME NEW T \in SUBSET Command, Later \subseteq T,
              r.cmdq \in Seq(T)
       PROVE  e.cmdq \in Seq(T)
  <2>1. "PBSZ" \in T /\ "SYST" \in T /\ "CLNT" \in T /\ "FEAT" \in T
    BY <1>10 DEF Later
  <2>2. b.cmdq \in Seq(T)
    <3>1. Append(r.cmdq, "PBSZ") \in Seq(T)
      BY <1>10, <2>1, AtTheEnd
    <3> QED
      BY <1>5, <1>10, <3>1
  <2>3. c.cmdq \in Seq(T)
    BY <1>6, <2>1, <2>2, AtTheEnd
  <2>4. d.cmdq \in Seq(T)
    BY <1>7, <2>1, <2>3, AtTheEnd
  <2> QED
    BY <1>8, <2>1, <2>4, AtTheEnd
<1> QED
  BY <1>1, <1>8, <1>9, <1>10 DEF Same

-----------------------------------------------------------------------------
(* Replies. *)

\* The session goes on with a queue, in a state: its first command is sent, or it
\* is idle and the owner is told.
GoesOn(r, x, q, state) ==
  /\ x \in Session /\ x.handle /\ ~x.forcebusy /\ x.cmdq = q
  /\ x.ssl <=> r.ssl
  /\ q # <<>> =>
       /\ ~x.isidle /\ x.sent = Append(r.sent, Head(q)) /\ x.state = state
       /\ x.told <=> r.told
  /\ q = <<>> => x.isidle /\ x.sent = r.sent /\ x.state = "IDLE" /\ x.told

\* It is closed.
Closed(x, q) == x \in Session /\ ~x.handle /\ x.cmdq = q /\ x.sent = <<>>

\* What is restarted goes on.
LEMMA GoingOn ==
  ASSUME NEW r \in Session, NEW y \in Session, y.handle, ~y.forcebusy, y.sent = r.sent,
         y.told <=> r.told, y.ssl <=> r.ssl, NEW x, x = Restart([y EXCEPT !.isidle = TRUE])
  PROVE  GoesOn(r, x, y.cmdq, y.state)
<1> DEFINE z == [y EXCEPT !.isidle = TRUE]
<1>1. /\ z \in Session /\ z.handle /\ ~z.forcebusy /\ z.isidle /\ z.sent = r.sent
      /\ z.told <=> r.told
      /\ z.ssl <=> r.ssl
      /\ z.cmdq = y.cmdq /\ z.state = y.state
  BY DEF Session
<1> HIDE DEF z
<1>2. /\ x \in Session
      /\ x.handle <=> z.handle
      /\ x.forcebusy <=> z.forcebusy
      /\ x.ssl <=> z.ssl
      /\ x.cmdq = z.cmdq
      /\ z.cmdq # <<>> =>
           /\ ~x.isidle /\ x.sent = Append(z.sent, Head(z.cmdq)) /\ x.state = z.state
           /\ x.told <=> z.told
      /\ z.cmdq = <<>> => x.isidle /\ x.sent = z.sent /\ x.state = "IDLE" /\ x.told
  <2>1. x = Restart(z)
    BY DEF z
  <2>2. Restarted(z, x)
    BY <1>1, <2>1, RestartFields
  <2> QED
    BY <1>1, <2>2 DEF Restarted
<1>3. /\ x \in Session /\ x.handle /\ ~x.forcebusy /\ x.cmdq = y.cmdq
      /\ x.ssl <=> r.ssl
  BY <1>1, <1>2
<1>4. ASSUME y.cmdq # <<>>
      PROVE  /\ ~x.isidle /\ x.sent = Append(r.sent, Head(y.cmdq)) /\ x.state = y.state
             /\ x.told <=> r.told
  BY <1>1, <1>2, <1>4
<1>5. ASSUME y.cmdq = <<>>
      PROVE  x.isidle /\ x.sent = r.sent /\ x.state = "IDLE" /\ x.told
  BY <1>1, <1>2, <1>5
<1> QED
  BY <1>3, <1>4, <1>5 DEF GoesOn

\* What is closed is not restarted.
LEMMA Closing ==
  ASSUME NEW y \in Session, NEW x, x = Restart([SetClose(y) EXCEPT !.isidle = TRUE])
  PROVE  Closed(x, y.cmdq)
<1> DEFINE z == [SetClose(y) EXCEPT !.isidle = TRUE]
<1>1. z \in Session /\ ~z.handle /\ z.cmdq = y.cmdq /\ z.sent = <<>>
  <2>1. SetClose(y) \in Session
    <3>1. <<>> \in Seq(Command)
      OBVIOUS
    <3> QED
      BY <3>1 DEF SetClose, Session
  <2>2. ~SetClose(y).handle /\ SetClose(y).cmdq = y.cmdq /\ SetClose(y).sent = <<>>
    BY DEF SetClose, Session
  <2> QED
    BY <2>1, <2>2 DEF Session
<1> HIDE DEF z
<1>2. x = z
  BY <1>1 DEF Restart, z
<1> QED
  BY <1>1, <1>2 DEF Closed

\* The reply to the first of the queue is taken: what is left, and in what state.
Took(r, z) ==
  /\ z \in Session /\ z.handle /\ ~z.isidle /\ ~z.forcebusy /\ z.sent = r.sent
  /\ z.ssl <=> r.ssl
  /\ z.told <=> r.told
  /\ z.cmdq = Tail(r.cmdq) /\ z.state = StateOf(Head(r.cmdq), r.state)

LEMMA Taken ==
  ASSUME NEW r \in Session, r.handle, ~r.isidle, ~r.forcebusy, r.cmdq # <<>>, NEW z,
         z = [r EXCEPT !.cmdq = Tail(r.cmdq), !.state = StateOf(Head(r.cmdq), r.state)]
  PROVE  Took(r, z)
<1>1. r.cmdq \in Seq(Command) /\ r.state \in State
  BY DEF Session
<1>2. Tail(r.cmdq) \in Seq(Command) /\ Head(r.cmdq) \in Command
  BY <1>1, FirstOf
<1>3. StateOf(Head(r.cmdq), r.state) \in State
  BY <1>1 DEF StateOf, State
<1> QED
  BY <1>1, <1>2, <1>3 DEF Session, Took

\* A session that waits queues a command and goes on waiting.
Joined(r, cmd, x) ==
  /\ x \in Session /\ x.handle /\ ~x.isidle
  /\ x.forcebusy <=> r.forcebusy
  /\ x.ssl <=> r.ssl
  /\ x.told <=> r.told
  /\ x.state = r.state /\ x.sent = r.sent /\ x.cmdq = Append(r.cmdq, cmd)

LEMMA Queued ==
  ASSUME NEW r \in Session, r.handle, ~r.isidle, NEW cmd \in Command, NEW x, x = CmdqNew(r, cmd)
  PROVE  Joined(r, cmd, x)
BY NewFields DEF Joined

\* To a command of the user.
LEMMA ReplyTheirs ==
  ASSUME NEW r \in Session, r.handle, ~r.isidle, ~r.forcebusy, r.cmdq # <<>>,
         Head(r.cmdq) \in UserCmd, NEW code, NEW x, x = CmdqReply(r, code)
  PROVE  GoesOn(r, x, Tail(r.cmdq), IF Head(r.cmdq) = "QUOTE" THEN r.state ELSE "IDLE")
<1> DEFINE z == [r EXCEPT !.cmdq = Tail(r.cmdq), !.state = StateOf(Head(r.cmdq), r.state)]
           y == IF Head(r.cmdq) = "CWD" THEN [z EXCEPT !.state = "IDLE"] ELSE z
<1>0. z = [r EXCEPT !.cmdq = Tail(r.cmdq), !.state = StateOf(Head(r.cmdq), r.state)]
  OBVIOUS
<1> HIDE DEF z
<1>1. /\ z \in Session /\ z.handle /\ ~z.isidle /\ ~z.forcebusy /\ z.sent = r.sent
      /\ z.ssl <=> r.ssl
      /\ z.told <=> r.told
      /\ z.cmdq = Tail(r.cmdq) /\ z.state = StateOf(Head(r.cmdq), r.state)
  <2>1. Took(r, z)
    BY <1>0, Taken
  <2> QED
    BY <2>1 DEF Took
<1>2. Head(r.cmdq) = "QUOTE" \/ Head(r.cmdq) = "CWD"
  BY DEF UserCmd
<1>3. Features(z, Head(r.cmdq)) = z
  BY <1>2 DEF Features
<1>4. x = Restart([y EXCEPT !.isidle = TRUE])
  BY <1>2, <1>3 DEF CmdqReply, z
<1>5. /\ y \in Session /\ y.handle /\ ~y.forcebusy /\ y.sent = r.sent
      /\ y.ssl <=> r.ssl
      /\ y.told <=> r.told
      /\ y.cmdq = Tail(r.cmdq) /\ y.state = IF Head(r.cmdq) = "QUOTE" THEN r.state ELSE "IDLE"
  BY <1>1, <1>2 DEF Session, State, StateOf
<1> HIDE DEF y
<1> QED
  BY <1>4, <1>5, GoingOn

\* To any other, which is processed.
LEMMA ReplyProcessed ==
  ASSUME NEW r \in Session, r.handle, ~r.isidle, ~r.forcebusy, r.cmdq # <<>>,
         Head(r.cmdq) \notin UserCmd \cup {"FEAT"}, NEW code, NEW x, x = CmdqReply(r, code)
  PROVE  LET z == [r EXCEPT !.cmdq = Tail(r.cmdq), !.state = StateOf(Head(r.cmdq), r.state)]
         IN  x = Restart([Process(z, code) EXCEPT !.isidle = TRUE])
BY DEF CmdqReply, Features, UserCmd

\* To AUTH TLS, in the state of the negotiation or after a CWD of the user.
LEMMA ReplyAuthTls ==
  ASSUME NEW r \in Session, r.handle, ~r.isidle, ~r.forcebusy, r.cmdq # <<>>,
         Head(r.cmdq) = "AUTH_TLS", NEW code, NEW x, x = CmdqReply(r, code)
  PROVE  /\ r.state = "TLS_PHASE_TLS" /\ code = "234" =>
              /\ x \in Session /\ x.handle /\ x.isidle /\ x.forcebusy /\ x.state = "TLS_WAIT"
              /\ x.ssl <=> r.ssl
              /\ x.told <=> r.told
              /\ x.cmdq = Tail(r.cmdq) /\ x.sent = r.sent
         /\ r.state = "TLS_PHASE_TLS" /\ code # "234" =>
              GoesOn(r, x, Append(Tail(r.cmdq), "AUTH_SSL"), "TLS_PHASE_TLS")
         /\ r.state = "IDLE" => GoesOn(r, x, Tail(r.cmdq), "IDLE")
<1> DEFINE z == [r EXCEPT !.cmdq = Tail(r.cmdq), !.state = StateOf(Head(r.cmdq), r.state)]
           y == Process(z, code)
<1>0. z = [r EXCEPT !.cmdq = Tail(r.cmdq), !.state = StateOf(Head(r.cmdq), r.state)]
  OBVIOUS
<1> HIDE DEF z
<1>1. /\ z \in Session /\ z.handle /\ ~z.isidle /\ ~z.forcebusy /\ z.sent = r.sent
      /\ z.ssl <=> r.ssl
      /\ z.told <=> r.told
      /\ z.cmdq = Tail(r.cmdq) /\ z.state = r.state
  <2>1. StateOf("AUTH_TLS", r.state) = r.state
    BY DEF StateOf
  <2>2. Took(r, z)
    BY <1>0, Taken
  <2> QED
    BY <2>1, <2>2 DEF Took
<1>2. x = Restart([y EXCEPT !.isidle = TRUE])
  BY ReplyProcessed DEF UserCmd, z
<1>3. ASSUME r.state = "TLS_PHASE_TLS", code = "234"
      PROVE  /\ x \in Session /\ x.handle /\ x.isidle /\ x.forcebusy /\ x.state = "TLS_WAIT"
             /\ x.ssl <=> r.ssl
             /\ x.told <=> r.told
             /\ x.cmdq = Tail(r.cmdq) /\ x.sent = r.sent
  <2>1. y = [z EXCEPT !.forcebusy = TRUE, !.state = "TLS_WAIT"]
    BY <1>1, <1>3 DEF Process
  <2> DEFINE w == [y EXCEPT !.isidle = TRUE]
  <2>2. /\ w \in Session /\ w.handle /\ w.isidle /\ w.forcebusy /\ w.state = "TLS_WAIT"
        /\ w.ssl <=> r.ssl
        /\ w.told <=> r.told
        /\ w.cmdq = Tail(r.cmdq) /\ w.sent = r.sent
    BY <1>1, <2>1 DEF Session, State
  <2> HIDE DEF w
  <2>3. x = w
    BY <1>2, <2>2 DEF w, Restart
  <2> QED
    BY <2>2, <2>3
<1>4. ASSUME r.state = "TLS_PHASE_TLS", code # "234"
      PROVE  GoesOn(r, x, Append(Tail(r.cmdq), "AUTH_SSL"), "TLS_PHASE_TLS")
  <2>1. y = CmdqNew(z, "AUTH_SSL")
    BY <1>1, <1>4 DEF Process
  <2>2. "AUTH_SSL" \in Command
    BY DEF Command
  <2> HIDE DEF y
  <2>3. /\ y \in Session /\ y.handle /\ ~y.forcebusy /\ y.sent = r.sent
        /\ y.ssl <=> r.ssl
        /\ y.told <=> r.told
        /\ y.cmdq = Append(Tail(r.cmdq), "AUTH_SSL") /\ y.state = "TLS_PHASE_TLS"
    <3>1. Joined(z, "AUTH_SSL", y)
      BY <1>1, <2>1, <2>2, Queued
    <3> QED
      BY <1>1, <1>4, <3>1 DEF Joined
  <2> QED
    BY <1>2, <2>3, GoingOn
<1>5. ASSUME r.state = "IDLE" PROVE GoesOn(r, x, Tail(r.cmdq), "IDLE")
  <2>1. y = z
    BY <1>1, <1>5 DEF Process
  <2> HIDE DEF y
  <2> QED
    BY <1>1, <1>2, <1>5, <2>1, GoingOn
<1> QED
  BY <1>3, <1>4, <1>5

\* To AUTH SSL.
LEMMA ReplyAuthSsl ==
  ASSUME NEW r \in Session, r.handle, ~r.isidle, ~r.forcebusy, r.cmdq # <<>>,
         Head(r.cmdq) = "AUTH_SSL", NEW code, NEW x, x = CmdqReply(r, code)
  PROVE  /\ code = "234" => GoesOn(r, x, Tail(r.cmdq), "TLS_WAIT")
         /\ code # "234" /\ site.control = "YES" => Closed(x, Tail(r.cmdq))
         /\ code # "234" /\ site.control # "YES" =>
              GoesOn(r, x, Append(Tail(r.cmdq), "USER"), "SENT_CMD")
<1> DEFINE z == [r EXCEPT !.cmdq = Tail(r.cmdq), !.state = StateOf(Head(r.cmdq), r.state)]
           y == Process(z, code)
<1>0. z = [r EXCEPT !.cmdq = Tail(r.cmdq), !.state = StateOf(Head(r.cmdq), r.state)]
  OBVIOUS
<1> HIDE DEF z
<1>1. /\ z \in Session /\ z.handle /\ ~z.isidle /\ ~z.forcebusy /\ z.sent = r.sent
      /\ z.ssl <=> r.ssl
      /\ z.told <=> r.told
      /\ z.cmdq = Tail(r.cmdq) /\ z.state = "TLS_PHASE_SSL"
  <2>1. StateOf("AUTH_SSL", r.state) = "TLS_PHASE_SSL"
    BY DEF StateOf
  <2>2. Took(r, z)
    BY <1>0, Taken
  <2> QED
    BY <2>1, <2>2 DEF Took
<1>2. x = Restart([y EXCEPT !.isidle = TRUE])
  BY ReplyProcessed DEF UserCmd, z
<1>3. ASSUME code = "234" PROVE GoesOn(r, x, Tail(r.cmdq), "TLS_WAIT")
  <2>1. y = [z EXCEPT !.state = "TLS_WAIT"]
    BY <1>1, <1>3 DEF Process
  <2>2. /\ y \in Session /\ y.handle /\ ~y.forcebusy /\ y.sent = r.sent
        /\ y.ssl <=> r.ssl
        /\ y.told <=> r.told
        /\ y.cmdq = Tail(r.cmdq) /\ y.state = "TLS_WAIT"
    BY <1>1, <2>1 DEF Session, State
  <2> HIDE DEF y
  <2> QED
    BY <1>2, <2>2, GoingOn
<1>4. ASSUME code # "234", site.control = "YES" PROVE Closed(x, Tail(r.cmdq))
  <2>1. y = SetClose(z)
    BY <1>1, <1>4 DEF Process
  <2> QED
    BY <1>1, <1>2, <2>1, Closing
<1>5. ASSUME code # "234", site.control # "YES"
      PROVE  GoesOn(r, x, Append(Tail(r.cmdq), "USER"), "SENT_CMD")
  <2> DEFINE w == CmdqNew(z, "USER")
  <2>1. "USER" \in Command
    BY DEF Command
  <2>2. /\ w \in Session /\ w.handle /\ ~w.isidle
        /\ w.forcebusy <=> z.forcebusy
        /\ w.ssl <=> z.ssl
        /\ w.told <=> z.told
        /\ w.sent = z.sent /\ w.cmdq = Append(z.cmdq, "USER")
    <3>1. Joined(z, "USER", w)
      BY <1>1, <2>1, Queued
    <3> HIDE DEF w
    <3> QED
      BY <3>1 DEF Joined
  <2>3. y = [w EXCEPT !.state = "SENT_CMD"]
    BY <1>1, <1>5 DEF Process, LoginStart
  <2> HIDE DEF w
  <2>4. /\ y \in Session /\ y.handle /\ ~y.forcebusy /\ y.sent = r.sent
        /\ y.ssl <=> r.ssl
        /\ y.told <=> r.told
        /\ y.cmdq = Append(Tail(r.cmdq), "USER") /\ y.state = "SENT_CMD"
    BY <1>1, <2>2, <2>3 DEF Session, State
  <2> HIDE DEF y
  <2> QED
    BY <1>2, <2>4, GoingOn
<1> QED
  BY <1>3, <1>4, <1>5

\* To USER.
LEMMA ReplyUser ==
  ASSUME NEW r \in Session, r.handle, ~r.isidle, ~r.forcebusy, r.cmdq # <<>>,
         Head(r.cmdq) = "USER", NEW code, NEW x, x = CmdqReply(r, code)
  PROVE  /\ code = "331" => GoesOn(r, x, Append(Tail(r.cmdq), "PASS"), "LOGIN_SENT_USER")
         /\ code # "331" => Closed(x, Tail(r.cmdq))
<1> DEFINE z == [r EXCEPT !.cmdq = Tail(r.cmdq), !.state = StateOf(Head(r.cmdq), r.state)]
           y == Process(z, code)
<1>0. z = [r EXCEPT !.cmdq = Tail(r.cmdq), !.state = StateOf(Head(r.cmdq), r.state)]
  OBVIOUS
<1> HIDE DEF z
<1>1. /\ z \in Session /\ z.handle /\ ~z.isidle /\ ~z.forcebusy /\ z.sent = r.sent
      /\ z.ssl <=> r.ssl
      /\ z.told <=> r.told
      /\ z.cmdq = Tail(r.cmdq) /\ z.state = "LOGIN_SENT_USER"
  <2>1. StateOf("USER", r.state) = "LOGIN_SENT_USER"
    BY DEF StateOf
  <2>2. Took(r, z)
    BY <1>0, Taken
  <2> QED
    BY <2>1, <2>2 DEF Took
<1>2. x = Restart([y EXCEPT !.isidle = TRUE])
  BY ReplyProcessed DEF UserCmd, z
<1>3. ASSUME code = "331"
      PROVE  GoesOn(r, x, Append(Tail(r.cmdq), "PASS"), "LOGIN_SENT_USER")
  <2>1. y = CmdqNew(z, "PASS")
    BY <1>1, <1>3 DEF Process
  <2>2. "PASS" \in Command
    BY DEF Command
  <2> HIDE DEF y
  <2>3. /\ y \in Session /\ y.handle /\ ~y.forcebusy /\ y.sent = r.sent
        /\ y.ssl <=> r.ssl
        /\ y.told <=> r.told
        /\ y.cmdq = Append(Tail(r.cmdq), "PASS") /\ y.state = "LOGIN_SENT_USER"
    <3>1. Joined(z, "PASS", y)
      BY <1>1, <2>1, <2>2, Queued
    <3> QED
      BY <1>1, <3>1 DEF Joined
  <2> QED
    BY <1>2, <2>3, GoingOn
<1>4. ASSUME code # "331" PROVE Closed(x, Tail(r.cmdq))
  <2>1. y = SetClose(z)
    BY <1>1, <1>4 DEF Process
  <2> QED
    BY <1>1, <1>2, <2>1, Closing
<1> QED
  BY <1>3, <1>4

\* To PASS.
LEMMA ReplyPass ==
  ASSUME NEW r \in Session, r.handle, ~r.isidle, ~r.forcebusy, r.cmdq # <<>>,
         Head(r.cmdq) = "PASS", NEW code, NEW x, x = CmdqReply(r, code)
  PROVE  /\ code = "230" =>
              \E q : /\ GoesOn(r, x, q, "IDLE") /\ q # <<>>
                     /\ \A T \in SUBSET Command :
                          /\ Later \subseteq T
                          /\ Tail(r.cmdq) \in Seq(T)
                          => q \in Seq(T)
         /\ code # "230" => Closed(x, Tail(r.cmdq))
<1> DEFINE z == [r EXCEPT !.cmdq = Tail(r.cmdq), !.state = StateOf(Head(r.cmdq), r.state)]
           y == Process(z, code)
<1>0. z = [r EXCEPT !.cmdq = Tail(r.cmdq), !.state = StateOf(Head(r.cmdq), r.state)]
  OBVIOUS
<1> HIDE DEF z
<1>1. /\ z \in Session /\ z.handle /\ ~z.isidle /\ ~z.forcebusy /\ z.sent = r.sent
      /\ z.ssl <=> r.ssl
      /\ z.told <=> r.told
      /\ z.cmdq = Tail(r.cmdq) /\ z.state = "LOGIN_SENT_PASS"
  <2>1. StateOf("PASS", r.state) = "LOGIN_SENT_PASS"
    BY DEF StateOf
  <2>2. Took(r, z)
    BY <1>0, Taken
  <2> QED
    BY <2>1, <2>2 DEF Took
<1>2. x = Restart([y EXCEPT !.isidle = TRUE])
  BY ReplyProcessed DEF UserCmd, z
<1>3. ASSUME code = "230"
      PROVE  \E q : /\ GoesOn(r, x, q, "IDLE") /\ q # <<>>
                    /\ \A T \in SUBSET Command :
                         /\ Later \subseteq T
                         /\ Tail(r.cmdq) \in Seq(T)
                         => q \in Seq(T)
  <2>1. y = Misc(z)
    BY <1>1, <1>3 DEF Process
  <2>2. /\ y \in Session /\ y.handle /\ ~y.isidle /\ ~y.forcebusy
        /\ y.ssl <=> z.ssl
        /\ y.told <=> z.told
        /\ y.state = "IDLE" /\ y.sent = z.sent /\ y.cmdq # <<>>
        /\ \A T \in SUBSET Command :
             Later \subseteq T /\ z.cmdq \in Seq(T) => y.cmdq \in Seq(T)
    BY <1>1, <2>1, MiscFields
  <2> HIDE DEF y
  <2>3. GoesOn(r, x, y.cmdq, y.state)
    BY <1>1, <1>2, <2>2, GoingOn
  <2> QED
    BY <1>1, <2>2, <2>3
<1>4. ASSUME code # "230" PROVE Closed(x, Tail(r.cmdq))
  <2>1. y = SetClose(z)
    BY <1>1, <1>4 DEF Process
  <2> QED
    BY <1>1, <1>2, <2>1, Closing
<1> QED
  BY <1>3, <1>4

\* To what is asked for after the login.
LEMMA ReplyMisc ==
  ASSUME NEW r \in Session, r.handle, ~r.isidle, ~r.forcebusy, r.cmdq # <<>>,
         Head(r.cmdq) \in Later, NEW code, NEW x,
         x = CmdqReply(r, code)
  PROVE  \E q \in {Tail(r.cmdq), Append(Tail(r.cmdq), "XDUPE")} : GoesOn(r, x, q, "REPLY")
<1> DEFINE z == [r EXCEPT !.cmdq = Tail(r.cmdq), !.state = StateOf(Head(r.cmdq), r.state)]
<1>0. z = [r EXCEPT !.cmdq = Tail(r.cmdq), !.state = StateOf(Head(r.cmdq), r.state)]
  OBVIOUS
<1> HIDE DEF z
<1>1. /\ z \in Session /\ z.handle /\ ~z.isidle /\ ~z.forcebusy /\ z.sent = r.sent
      /\ z.ssl <=> r.ssl
      /\ z.told <=> r.told
      /\ z.cmdq = Tail(r.cmdq) /\ z.state = "REPLY"
  <2>1. StateOf(Head(r.cmdq), r.state) = "REPLY"
    BY DEF StateOf, Later
  <2>2. Took(r, z)
    BY <1>0, Taken
  <2> QED
    BY <2>1, <2>2 DEF Took
<1> DEFINE c == Head(r.cmdq)
           w == Features(z, c)
           y == Process(w, code)
<1>2. x = Restart([y EXCEPT !.isidle = TRUE])
  BY DEF CmdqReply, Later, z
<1>3. /\ w \in Session /\ w.handle /\ ~w.forcebusy /\ w.sent = r.sent
      /\ w.ssl <=> r.ssl
      /\ w.told <=> r.told
      /\ w.cmdq \in {Tail(r.cmdq), Append(Tail(r.cmdq), "XDUPE")} /\ w.state = "REPLY"
  <2>1. CASE c = "FEAT" /\ site.xdupe
    <3>1. w = CmdqNew(z, "XDUPE")
      BY <2>1 DEF Features
    <3>2. "XDUPE" \in Command
      BY DEF Command
    <3> HIDE DEF w
    <3>3. Joined(z, "XDUPE", w)
      BY <1>1, <3>1, <3>2, Queued
    <3> QED
      BY <1>1, <3>3 DEF Joined
  <2>2. CASE ~(c = "FEAT" /\ site.xdupe)
    <3>1. w = z
      BY <2>2 DEF Features
    <3> QED
      BY <1>1, <3>1
  <2> QED
    BY <2>1, <2>2
<1> HIDE DEF w, c
<1>4. y = w
  BY <1>3 DEF Process
<1> HIDE DEF y
<1>5. GoesOn(r, x, w.cmdq, w.state)
  BY <1>2, <1>3, <1>4, GoingOn
<1> QED
  BY <1>3, <1>5

\* Whatever is processed while the session waits, it is never connecting again, and
\* nothing but a negotiation keeps it busy.
LEMMA ProcessKept ==
  ASSUME NEW z \in Session, z.handle, ~z.isidle, ~z.forcebusy, z.state # "CONNECTING", NEW code,
         NEW y, y = Process(z, code)
  PROVE  /\ y \in Session
         /\ z.told => y.told
         /\ y.handle => y.state # "CONNECTING" /\ (y.forcebusy => y.state = "TLS_WAIT")
<1> DEFINE P(v) == /\ v \in Session
                   /\ z.told => v.told
                   /\ v.handle => v.state # "CONNECTING" /\ (v.forcebusy => v.state = "TLS_WAIT")
<1>1. /\ "AUTH_TLS" \in Command /\ "AUTH_SSL" \in Command /\ "USER" \in Command
      /\ "PASS" \in Command
      /\ "TLS_WAIT" \in State /\ "SENT_CMD" \in State /\ "TLS_PHASE_TLS" \in State
  BY DEF Command, State
<1>2. ASSUME NEW cmd \in Command, NEW v, v = CmdqNew(z, cmd)
      PROVE  v \in Session /\ v.handle /\ ~v.forcebusy /\ v.state = z.state /\ (z.told => v.told)
  BY <1>2, Queued DEF Joined
<1>3. ASSUME NEW cmd \in Command, NEW st \in State, st # "CONNECTING",
             NEW v, v = [CmdqNew(z, cmd) EXCEPT !.state = st]
      PROVE  P(v)
  <2> DEFINE w == CmdqNew(z, cmd)
  <2>1. w \in Session /\ w.handle /\ ~w.forcebusy /\ (z.told => w.told)
    BY <1>2
  <2>2. v = [w EXCEPT !.state = st]
    BY <1>3
  <2> HIDE DEF w
  <2> QED
    BY <1>3, <2>1, <2>2 DEF Session
<1>4. P(LoginStart(z)) /\ P(TlsStart(z))
  BY <1>1, <1>3 DEF LoginStart, TlsStart
<1>5. P(SetClose(z))
  <2>1. <<>> \in Seq(Command)
    OBVIOUS
  <2> QED
    BY <2>1 DEF SetClose, Session
<1>6. P(CmdqNew(z, "AUTH_SSL")) /\ P(CmdqNew(z, "PASS")) /\ P(z)
  BY <1>1, <1>2
<1>7. P([z EXCEPT !.forcebusy = TRUE, !.state = "TLS_WAIT"]) /\ P([z EXCEPT !.state = "TLS_WAIT"])
  BY <1>1 DEF Session
<1>8. P(Misc(z))
  <2> DEFINE m == Misc(z)
  <2>1. m \in Session /\ ~m.forcebusy /\ m.state = "IDLE" /\ (z.told => m.told)
    BY MiscFields
  <2> HIDE DEF m
  <2>2. P(m)
    BY <2>1
  <2> QED
    BY <2>2 DEF m
<1>9. y \in {LoginStart(z), TlsStart(z), SetClose(z), CmdqNew(z, "AUTH_SSL"), CmdqNew(z, "PASS"), z,
             [z EXCEPT !.forcebusy = TRUE, !.state = "TLS_WAIT"], [z EXCEPT !.state = "TLS_WAIT"],
             Misc(z)}
  BY DEF Process
<1> HIDE DEF P
<1>10. P(y)
  BY <1>4, <1>5, <1>6, <1>7, <1>8, <1>9
<1> QED
  BY <1>10 DEF P

\* What the reply to the first of the queue leaves.
LEMMA ReplyKept ==
  ASSUME NEW r \in Session, r.handle, ~r.isidle, ~r.forcebusy, r.cmdq # <<>>,
         r.state # "CONNECTING", NEW code, NEW x, x = CmdqReply(r, code)
  PROVE  /\ x \in Session /\ Kept(x)
         /\ x.handle => x.state # "CONNECTING" /\ (r.told => x.told)
<1> DEFINE Fine == /\ x \in Session /\ Kept(x)
                   /\ x.handle => x.state # "CONNECTING" /\ (r.told => x.told)
<1>1. ASSUME NEW q, NEW st, st # "CONNECTING", GoesOn(r, x, q, st) PROVE Fine
  BY <1>1 DEF GoesOn, Kept
<1> HIDE DEF Fine
<1>2. ASSUME Head(r.cmdq) \in UserCmd PROVE Fine
  <2>1. GoesOn(r, x, Tail(r.cmdq), IF Head(r.cmdq) = "QUOTE" THEN r.state ELSE "IDLE")
    BY <1>2, ReplyTheirs
  <2>2. (IF Head(r.cmdq) = "QUOTE" THEN r.state ELSE "IDLE") # "CONNECTING"
    OBVIOUS
  <2> QED
    BY <1>1, <2>1, <2>2
<1>3. ASSUME Head(r.cmdq) \in Later PROVE Fine
  <2>1. PICK q : GoesOn(r, x, q, "REPLY")
    BY <1>3, ReplyMisc
  <2> QED
    BY <1>1, <2>1
<1>4. ASSUME Head(r.cmdq) \in Auth \cup Named PROVE Fine
  <2> DEFINE z == [r EXCEPT !.cmdq = Tail(r.cmdq), !.state = StateOf(Head(r.cmdq), r.state)]
             y == Process(z, code)
             w == [y EXCEPT !.isidle = TRUE]
  <2>1. /\ z \in Session /\ z.handle /\ ~z.isidle /\ ~z.forcebusy /\ (z.told <=> r.told)
        /\ z.state = StateOf(Head(r.cmdq), r.state)
    <3>1. Took(r, z)
      BY Taken
    <3> HIDE DEF z
    <3> QED
      BY <3>1 DEF Took
  <2>2. StateOf(Head(r.cmdq), r.state) # "CONNECTING"
    BY <1>4 DEF StateOf, Auth, Named
  <2>3. x = Restart(w)
    BY <1>4, ReplyProcessed DEF Auth, Named, UserCmd
  <2> HIDE DEF z
  <2>4. /\ y \in Session
        /\ z.told => y.told
        /\ y.handle => y.state # "CONNECTING" /\ (y.forcebusy => y.state = "TLS_WAIT")
    BY <2>1, <2>2, ProcessKept
  <2> HIDE DEF y
  <2>5. /\ w \in Session /\ w.isidle
        /\ z.told => w.told
        /\ w.handle => w.state # "CONNECTING" /\ (w.forcebusy => w.state = "TLS_WAIT")
    BY <2>4 DEF Session
  <2> HIDE DEF w
  <2>6. CASE ~w.handle \/ w.forcebusy
    <3>1. x = w
      BY <2>3, <2>5, <2>6, RestartFields DEF Restarted
    <3> QED
      BY <2>1, <2>5, <2>6, <3>1 DEF Kept, Fine
  <2>7. CASE w.handle /\ ~w.forcebusy
    <3>1. /\ x \in Session /\ x.cmdq = w.cmdq
          /\ x.forcebusy <=> w.forcebusy
          /\ w.cmdq # <<>> => ~x.isidle /\ x.state = w.state /\ (x.told <=> w.told)
          /\ w.cmdq = <<>> => x.isidle /\ x.state = "IDLE" /\ x.told
      BY <2>3, <2>5, <2>7, RestartFields DEF Restarted
    <3> QED
      BY <2>1, <2>5, <2>7, <3>1 DEF Kept, Fine
  <2> QED
    BY <2>6, <2>7
<1>5. Head(r.cmdq) \in UserCmd \cup Auth \cup Named \cup Later
  <2>1. r.cmdq \in Seq(Command)
    BY DEF Session
  <2>2. Head(r.cmdq) \in Command
    BY <2>1, FirstOf
  <2> QED
    BY <2>2 DEF Command, Auth, Named, Later
<1> QED
  BY <1>2, <1>3, <1>4, <1>5 DEF Fine

\* The login starts, with AUTH TLS or with USER: a session that has waited for
\* nothing queues c, and the first of its queue is sent.
Starts(r, x, c, state) ==
  /\ x \in Session /\ x.handle /\ ~x.isidle /\ ~x.forcebusy /\ x.state = state
  /\ x.ssl <=> r.ssl
  /\ x.told <=> r.told
  /\ x.cmdq = Append(r.cmdq, c) /\ x.sent = Append(r.sent, Head(Append(r.cmdq, c)))

\* The first command of a login that starts is sent at once.
LEMMA StartFields ==
  ASSUME NEW r \in Session, r.handle, r.isidle, ~r.forcebusy, NEW c \in Command,
         NEW state \in State, NEW x, x = [CmdqNew(r, c) EXCEPT !.state = state]
  PROVE  Starts(r, x, c, state)
<1> DEFINE w == CmdqNew(r, c)
<1>1. /\ w \in Session /\ w.handle /\ ~w.isidle
      /\ w.forcebusy <=> r.forcebusy
      /\ w.ssl <=> r.ssl
      /\ w.told <=> r.told
      /\ w.cmdq = Append(r.cmdq, c) /\ w.sent = Append(r.sent, Head(Append(r.cmdq, c)))
  BY NewFields
<1>2. x = [w EXCEPT !.state = state]
  OBVIOUS
<1> HIDE DEF w
<1> QED
  BY <1>1, <1>2 DEF Session, Starts

\* A reply taken by a session that is idle: it is the greeting, or of no use.
LEMMA IdleTake ==
  ASSUME NEW r \in Session, r.handle, r.isidle, Kept(r), NEW code, NEW x, x = Process(r, code)
  PROVE  /\ ~(r.state = "AWAIT_220" /\ code = "220") => x = r
         /\ r.state = "AWAIT_220" /\ code = "220" /\ site.control # "NO" /\ ~r.ssl =>
              Starts(r, x, "AUTH_TLS", "TLS_PHASE_TLS")
         /\ r.state = "AWAIT_220" /\ code = "220" /\ ~(site.control # "NO" /\ ~r.ssl) =>
              Starts(r, x, "USER", "SENT_CMD")
<1>1. r.state \in {"AWAIT_220", "TLS_WAIT", "IDLE"} /\ (r.state = "AWAIT_220" => ~r.forcebusy)
  BY DEF Kept
<1>2. /\ "AUTH_TLS" \in Command /\ "USER" \in Command
      /\ "TLS_PHASE_TLS" \in State /\ "SENT_CMD" \in State
  BY DEF Command, State
<1>3. ASSUME ~(r.state = "AWAIT_220" /\ code = "220") PROVE x = r
  BY <1>1, <1>3 DEF Process
<1>4. ASSUME r.state = "AWAIT_220", code = "220", site.control # "NO", ~r.ssl
      PROVE  Starts(r, x, "AUTH_TLS", "TLS_PHASE_TLS")
  <2>1. x = [CmdqNew(r, "AUTH_TLS") EXCEPT !.state = "TLS_PHASE_TLS"]
    BY <1>4 DEF Process, TlsStart
  <2> QED
    BY <1>1, <1>2, <1>4, <2>1, StartFields
<1>5. ASSUME r.state = "AWAIT_220", code = "220", ~(site.control # "NO" /\ ~r.ssl)
      PROVE  Starts(r, x, "USER", "SENT_CMD")
  <2>1. x = [CmdqNew(r, "USER") EXCEPT !.state = "SENT_CMD"]
    BY <1>5 DEF Process, LoginStart
  <2> QED
    BY <1>1, <1>2, <1>5, <2>1, StartFields
<1> QED
  BY <1>3, <1>4, <1>5

\* The login of a connection that has become secure.
LEMMA SecuredFields ==
  ASSUME NEW r \in Session, r.handle, NEW x,
         x = Restart([LoginStart([r EXCEPT !.ssl = TRUE]) EXCEPT !.forcebusy = FALSE])
  PROVE  /\ x \in Session /\ x.handle /\ ~x.isidle /\ ~x.forcebusy /\ x.state = "SENT_CMD"
         /\ x.told <=> r.told
         /\ x.cmdq = Append(r.cmdq, "USER") /\ x.cmdq # <<>>
         /\ r.isidle => x.sent = Append(r.sent, Head(Append(r.cmdq, "USER")))
         /\ ~r.isidle => x.sent = r.sent
<1> DEFINE a == [r EXCEPT !.ssl = TRUE]
           b == CmdqNew(a, "USER")
           c == [b EXCEPT !.state = "SENT_CMD", !.forcebusy = FALSE]
<1>1. /\ a \in Session /\ a.handle
      /\ a.isidle <=> r.isidle
      /\ a.forcebusy <=> r.forcebusy
      /\ a.told <=> r.told
      /\ a.cmdq = r.cmdq /\ a.sent = r.sent
  BY DEF Session
<1>2. "USER" \in Command /\ "SENT_CMD" \in State /\ r.cmdq \in Seq(Command)
  BY DEF Command, State, Session
<1>3. Append(r.cmdq, "USER") # <<>>
  BY <1>2, AtTheEnd
<1>4. x = Restart(c)
  <2>1. LoginStart(a) = [b EXCEPT !.state = "SENT_CMD"]
    BY DEF LoginStart
  <2>2. [LoginStart(a) EXCEPT !.forcebusy = FALSE] = c
    BY <2>1
  <2> QED
    BY <2>2
<1> HIDE DEF a
<1>5. /\ b \in Session /\ b.handle
      /\ b.told <=> a.told
      /\ b.cmdq = Append(a.cmdq, "USER")
      /\ a.forcebusy \/ ~a.isidle => (b.isidle <=> a.isidle) /\ b.sent = a.sent
      /\ ~a.forcebusy /\ a.isidle =>
           ~b.isidle /\ b.sent = Append(a.sent, Head(Append(a.cmdq, "USER")))
  <2>1. b = CmdqNew(a, "USER")
    OBVIOUS
  <2>2. a \in Session /\ a.handle /\ "USER" \in Command
    BY <1>1, <1>2
  <2> HIDE DEF b
  <2> QED
    BY <2>1, <2>2, NewFields
<1> HIDE DEF b
<1>6. /\ c \in Session /\ c.handle /\ ~c.forcebusy /\ c.state = "SENT_CMD"
      /\ c.told <=> r.told
      /\ c.cmdq = Append(r.cmdq, "USER") /\ c.sent = b.sent
      /\ c.isidle <=> b.isidle
  BY <1>1, <1>2, <1>5 DEF Session
<1> HIDE DEF c
<1>7. /\ x \in Session /\ x.handle /\ ~x.forcebusy /\ x.cmdq = c.cmdq
      /\ ~c.isidle => x = c
      /\ c.isidle =>
           /\ ~x.isidle /\ x.sent = Append(c.sent, Head(c.cmdq)) /\ x.state = c.state
           /\ x.told <=> c.told
  <2>1. /\ x \in Session
        /\ x.handle <=> c.handle
        /\ x.forcebusy <=> c.forcebusy
        /\ x.cmdq = c.cmdq
    BY <1>4, <1>6, RestartFields DEF Restarted
  <2>2. ~c.isidle => x = c
    BY <1>4, <1>6, RestartFields DEF Restarted
  <2>3. c.isidle =>
          /\ ~x.isidle /\ x.sent = Append(c.sent, Head(c.cmdq)) /\ x.state = c.state
          /\ x.told <=> c.told
    BY <1>3, <1>4, <1>6, RestartFields DEF Restarted
  <2> QED
    BY <1>6, <2>1, <2>2, <2>3
<1>8. CASE c.isidle
  BY <1>1, <1>3, <1>5, <1>6, <1>7, <1>8
<1>9. CASE ~c.isidle
  BY <1>1, <1>3, <1>5, <1>6, <1>7, <1>9
<1> QED
  BY <1>8, <1>9

-----------------------------------------------------------------------------
(* What a step does. *)

\* A reply is taken from the first place.
LEMMA TakeReplies ==
  ASSUME TypeOK, ShapeInv, Take
  PROVE  /\ Head(replies) = replies[1] /\ Head(replies) \in Reply /\ Sound(Head(replies))
         /\ replies \in Seq(Reply) /\ replies # <<>> /\ replies' \in Seq(Reply)
         /\ Len(replies) \in Nat \ {0} /\ Len(replies') = Len(replies) - 1
         /\ DOMAIN replies = 1 .. Len(replies)
         /\ \A i \in DOMAIN replies' :
              /\ replies'[i] = replies[i + 1]
              /\ i + 1 \in DOMAIN replies /\ i + 1 \in 2 .. Len(replies)
<1>1. replies \in Seq(Reply) /\ replies # <<>> /\ replies' = Tail(replies)
  BY DEF TypeOK, Reply, Take
<1>2. /\ Head(replies) \in Reply /\ Tail(replies) \in Seq(Reply) /\ Head(replies) = replies[1]
      /\ Len(replies) \in Nat \ {0} /\ Len(Tail(replies)) = Len(replies) - 1
      /\ DOMAIN replies = 1 .. Len(replies) /\ DOMAIN Tail(replies) = 1 .. Len(replies) - 1
      /\ \A i \in 1 .. Len(replies) - 1 : Tail(replies)[i] = replies[i + 1]
  BY <1>1, FirstOf
<1>3. Sound(Head(replies))
  <2>1. 1 \in DOMAIN replies
    BY <1>2
  <2> QED
    BY <1>2, <2>1 DEF ShapeInv
<1> QED
  BY <1>1, <1>2, <1>3

\* It is the reply to the oldest command, or nothing is waited for.
LEMMA TakeSession ==
  ASSUME TypeOK, ShapeInv, Take
  PROVE  /\ s \in Session /\ s.handle /\ s.state # "CONNECTING"
         /\ s' \in Session /\ Kept(s')
         /\ s'.handle => s'.state # "CONNECTING" /\ (s.told => s'.told)
         /\ s.isidle => s' = Process(s, Head(replies).code)
         /\ ~s.isidle =>
              ~s.forcebusy /\ s.cmdq # <<>> /\ s' = CmdqReply(s, Head(replies).code)
<1>1. /\ s \in Session /\ s.handle /\ s.state # "CONNECTING" /\ Kept(s)
      /\ s' = IF s.isidle THEN Process(s, Head(replies).code)
                          ELSE CmdqReply(s, Head(replies).code)
  BY DEF TypeOK, ShapeInv, Take, Up, Becomes
<1>2. CASE s.isidle
  <2> DEFINE code == Head(replies).code
  <2>1. s' = Process(s, code)
    BY <1>1, <1>2
  <2> HIDE DEF code
  <2>2. \/ s' = s
        \/ \E c, state : state # "CONNECTING" /\ Starts(s, s', c, state)
    <3>1. /\ ~(s.state = "AWAIT_220" /\ code = "220") => s' = s
          /\ s.state = "AWAIT_220" /\ code = "220" /\ site.control # "NO" /\ ~s.ssl =>
               Starts(s, s', "AUTH_TLS", "TLS_PHASE_TLS")
          /\ s.state = "AWAIT_220" /\ code = "220" /\ ~(site.control # "NO" /\ ~s.ssl) =>
               Starts(s, s', "USER", "SENT_CMD")
      BY <1>1, <1>2, <2>1, IdleTake
    <3> QED
      BY <3>1
  <2>3. ASSUME NEW c, NEW state, state # "CONNECTING", Starts(s, s', c, state)
        PROVE  /\ s' \in Session /\ Kept(s')
               /\ s'.handle /\ s'.state # "CONNECTING" /\ (s.told => s'.told)
    <3>1. s.cmdq \in Seq(Command)
      BY <1>1 DEF Session
    <3>2. s'.cmdq # <<>>
      BY <2>3, <3>1 DEF Starts
    <3> QED
      BY <2>3, <3>2 DEF Starts, Kept
  <2> QED
    BY <1>1, <1>2, <2>1, <2>2, <2>3 DEF code
<1>3. CASE ~s.isidle
  <2>1. ~s.forcebusy /\ s.cmdq # <<>>
    BY <1>1, <1>3 DEF Kept
  <2>2. s' = CmdqReply(s, Head(replies).code)
    BY <1>1, <1>3
  <2> QED
    BY <1>1, <1>3, <2>1, <2>2, ReplyKept
<1> QED
  BY <1>2, <1>3

\* The oldest command that was sent is answered.
LEMMA ServeFields ==
  ASSUME TypeOK, Serve
  PROVE  /\ s \in Session /\ s' = [s EXCEPT !.sent = Tail(s.sent)] /\ s' \in Session
         /\ s.sent \in Seq(Command) /\ s.sent # <<>> /\ replies \in Seq(Reply)
         /\ server # "away" /\ server' # "away"
         /\ server' \in {"away", "open", "negotiates", "known", "in"}
         /\ \E a \in Reply :
              /\ replies' = Append(replies, a) /\ a.of = Head(s.sent) /\ Sound(a)
              /\ a.code # "220" /\ a.of # "greeting"
              /\ a.code = "230" => server' = "in"
              /\ a.of \notin Auth \cup Named => server' = server
<1>1. /\ s \in Session /\ s' = [s EXCEPT !.sent = Tail(s.sent)] /\ s.sent # <<>>
      /\ replies \in Seq(Reply) /\ server # "away"
      /\ server \in {"away", "open", "negotiates", "known", "in"}
  BY DEF TypeOK, Reply, Serve
<1>2. s.sent \in Seq(Command)
  BY <1>1 DEF Session
<1>3. Head(s.sent) \in Command /\ Tail(s.sent) \in Seq(Command)
  BY <1>1, <1>2, FirstOf
<1>4. s' \in Session
  BY <1>1, <1>3 DEF Session
<1> DEFINE cmd == Head(s.sent)
<1>5. PICK code \in {"234", "500", "331", "530", "230", "200"} :
        /\ replies' = Append(replies, [code |-> code, of |-> cmd])
        /\ server' \in {server, "negotiates", "known", "in"}
        /\ code = "234" => cmd \in Auth
        /\ code = "230" => cmd = "PASS" /\ server' = "in"
        /\ cmd \notin Auth \cup Named => server' = server
  <2> HIDE DEF cmd
  <2>1. \/ cmd \in Auth /\ Answers("234", cmd) /\ server' = "negotiates"
        \/ cmd \in Auth /\ Answers("500", cmd) /\ UNCHANGED server
        \/ cmd = "USER" /\ Answers("331", cmd) /\ server' = "known"
        \/ cmd = "USER" /\ Answers("530", cmd) /\ UNCHANGED server
        \/ cmd = "PASS" /\ Answers("230", cmd) /\ server' = "in"
        \/ cmd = "PASS" /\ Answers("530", cmd) /\ UNCHANGED server
        \/ Answers("200", cmd) /\ UNCHANGED server
        \/ Answers("530", cmd) /\ UNCHANGED server
    BY DEF Serve, Auth, cmd
  <2> QED
    BY <2>1 DEF Answers, Auth, Named
<1> DEFINE a == [code |-> code, of |-> cmd]
<1>6. a \in Reply /\ a.code = code /\ a.of = cmd /\ replies' = Append(replies, a)
  BY <1>3, <1>5 DEF Reply
<1>7. cmd # "greeting"
  BY <1>3 DEF Command, UserCmd
<1> HIDE DEF a
<1>8. Sound(a) /\ a.code # "220" /\ a.of # "greeting"
  BY <1>5, <1>6, <1>7 DEF Sound
<1> HIDE DEF cmd
<1>9. server' # "away" /\ server' \in {"away", "open", "negotiates", "known", "in"}
  BY <1>1, <1>5
<1>10. /\ a \in Reply /\ replies' = Append(replies, a) /\ a.of = cmd /\ Sound(a)
       /\ a.code # "220" /\ a.of # "greeting"
       /\ a.code = "230" => server' = "in"
       /\ a.of \notin Auth \cup Named => server' = server
  BY <1>5, <1>6, <1>8
<1> QED
  BY <1>1, <1>2, <1>4, <1>9, <1>10 DEF cmd

\* A command of the user joins the queue, and is sent if nothing is waited for.
LEMMA AskFields ==
  ASSUME TypeOK, ShapeInv, NEW cmd \in UserCmd, Ask(cmd)
  PROVE  /\ s \in Session /\ s.handle /\ s' \in Session /\ s'.handle /\ Kept(s')
         /\ s'.forcebusy <=> s.forcebusy
         /\ s'.ssl <=> s.ssl
         /\ s'.told <=> s.told
         /\ s'.state = s.state /\ s'.cmdq = Append(s.cmdq, cmd) /\ s.cmdq \in Seq(Command)
         /\ s.forcebusy \/ ~s.isidle => (s'.isidle <=> s.isidle) /\ s'.sent = s.sent
         /\ ~s.forcebusy /\ s.isidle =>
              ~s'.isidle /\ s'.sent = Append(s.sent, Head(Append(s.cmdq, cmd)))
<1>1. s \in Session /\ s.handle /\ s' = CmdqNew(s, cmd) /\ Kept(s)
  BY DEF TypeOK, ShapeInv, Ask, Up, Becomes
<1>2. cmd \in Command /\ s.cmdq \in Seq(Command)
  BY <1>1 DEF Command, Session
<1>3. /\ s' \in Session
      /\ s'.handle <=> s.handle
      /\ s'.forcebusy <=> s.forcebusy
      /\ s'.ssl <=> s.ssl
      /\ s'.told <=> s.told
      /\ s'.state = s.state /\ s'.cmdq = Append(s.cmdq, cmd)
      /\ s.forcebusy \/ ~s.isidle => (s'.isidle <=> s.isidle) /\ s'.sent = s.sent
      /\ ~s.forcebusy /\ s.isidle =>
           ~s'.isidle /\ s'.sent = Append(s.sent, Head(Append(s.cmdq, cmd)))
  <2>1. s \in Session /\ cmd \in Command /\ s' = CmdqNew(s, cmd)
    BY <1>1, <1>2
  <2>2. /\ s' \in Session
        /\ s'.handle <=> s.handle
        /\ s'.forcebusy <=> s.forcebusy
        /\ s'.ssl <=> s.ssl
        /\ s'.told <=> s.told
        /\ s'.state = s.state
        /\ s.handle => s'.cmdq = Append(s.cmdq, cmd)
    BY <2>1, NewFields
  <2>3. /\ s.forcebusy \/ ~s.isidle => (s'.isidle <=> s.isidle) /\ s'.sent = s.sent
        /\ s.handle /\ ~s.forcebusy /\ s.isidle =>
             ~s'.isidle /\ s'.sent = Append(s.sent, Head(Append(s.cmdq, cmd)))
    BY <2>1, NewFields
  <2> QED
    BY <1>1, <2>2, <2>3
<1>4. s'.cmdq # <<>>
  BY <1>2, <1>3, AtTheEnd
<1>5. Kept(s')
  BY <1>1, <1>3, <1>4 DEF Kept
<1> QED
  BY <1>1, <1>2, <1>3, <1>5

-----------------------------------------------------------------------------
(* A session that waits, with one command of the login in its queue. *)

\* The command that was sent is answered: the reply is all there is.
LEMMA WaitsServe ==
  ASSUME TypeOK, NEW c, Waits(c), Serve
  PROVE  Waits(c)'
<1>1. /\ ~s.isidle /\ ~s.forcebusy /\ One(s.cmdq, c) /\ Flying
  BY DEF Waits
<1>2. /\ s \in Session /\ s' = [s EXCEPT !.sent = Tail(s.sent)]
      /\ s.sent \in Seq(Command) /\ s.sent # <<>>
  BY ServeFields
<1>3. PICK a \in Reply : replies' = Append(replies, a) /\ a.of = Head(s.sent)
  BY ServeFields
<1>4. s.sent = <<Head(s.cmdq)>> /\ replies = <<>>
  BY <1>1, <1>2 DEF Flying
<1>5. replies' = <<a>> /\ a.of = Head(s.cmdq)
  BY <1>3, <1>4
<1>6. s'.sent = <<>> /\ s'.cmdq = s.cmdq /\ ~s'.isidle /\ ~s'.forcebusy
  BY <1>1, <1>2, <1>4 DEF Session
<1>7. Len(replies') = 1 /\ replies'[1].of = Head(s'.cmdq)
  BY <1>5, <1>6
<1>8. Flying'
  BY <1>6, <1>7 DEF Flying
<1> QED
  BY <1>1, <1>6, <1>8 DEF Waits

\* The user asks for something: it is queued, and what is waited for is the same.
LEMMA WaitsAsk ==
  ASSUME TypeOK, ShapeInv, NEW c, Waits(c), NEW cmd \in UserCmd, Ask(cmd)
  PROVE  Waits(c)'
<1>1. /\ ~s.isidle /\ ~s.forcebusy /\ One(s.cmdq, c) /\ Flying
  BY DEF Waits
<1>2. /\ ~s'.isidle /\ ~s'.forcebusy /\ s'.cmdq = Append(s.cmdq, cmd) /\ s'.sent = s.sent
      /\ s.cmdq \in Seq(Command)
  BY <1>1, AskFields
<1>3. One(s'.cmdq, c)
  BY <1>1, <1>2, OneMore
<1>4. s.cmdq # <<>> /\ cmd \in Command
  BY <1>1 DEF One, Command
<1>5. Head(s'.cmdq) = Head(s.cmdq)
  BY <1>2, <1>4, AtTheEnd
<1>6. replies' = replies
  BY DEF Ask
<1>7. Flying'
  BY <1>1, <1>2, <1>5, <1>6 DEF Flying
<1> QED
  BY <1>2, <1>3, <1>7 DEF Waits

\* The reply is taken: it is to the first command, and no other is on its way.
LEMMA WaitsTake ==
  ASSUME TypeOK, ShapeInv, NEW c \in Command \ UserCmd, Waits(c), Take
  PROVE  /\ s \in Session /\ s.handle /\ ~s.isidle /\ ~s.forcebusy /\ s.cmdq # <<>>
         /\ s.cmdq \in Seq(Command) /\ Tail(s.cmdq) \in Seq(Command)
         /\ s.sent = <<>> /\ replies' = <<>>
         /\ s' = CmdqReply(s, Head(replies).code) /\ Head(replies).of = Head(s.cmdq)
         /\ Head(s.cmdq) \in UserCmd \cup {c}
         /\ Head(s.cmdq) \in UserCmd => One(Tail(s.cmdq), c)
         /\ Head(s.cmdq) = c => Theirs(Tail(s.cmdq))
         /\ link' = IF Head(replies).code = "234" THEN "negotiating" ELSE link
         /\ Head(s.cmdq) \notin Auth => Head(replies).code # "234"
<1>1. ~s.isidle /\ ~s.forcebusy /\ One(s.cmdq, c) /\ Flying
  BY DEF Waits
<1>2. s \in Session /\ s.handle /\ s.cmdq # <<>> /\ s' = CmdqReply(s, Head(replies).code)
  BY <1>1, TakeSession
<1>3. s.cmdq \in Seq(Command)
  BY <1>2 DEF Session
<1>4. /\ Head(s.cmdq) \in UserCmd \cup {c}
      /\ Head(s.cmdq) \in UserCmd => One(Tail(s.cmdq), c)
      /\ Head(s.cmdq) = c => Theirs(Tail(s.cmdq))
  BY <1>1, <1>3, OneFirst
<1>5. Tail(s.cmdq) \in Seq(Command)
  BY <1>2, <1>3, FirstOf
<1>6. /\ Head(replies) = replies[1] /\ Sound(Head(replies)) /\ replies # <<>>
      /\ replies' \in Seq(Reply) /\ Len(replies') = Len(replies) - 1
  BY TakeReplies
<1>7. s.sent = <<>> /\ Len(replies) = 1 /\ Head(replies).of = Head(s.cmdq)
  BY <1>1, <1>6 DEF Flying
<1>8. replies' = <<>>
  BY <1>6, <1>7
<1>9. link' = IF Head(replies).code = "234" THEN "negotiating" ELSE link
  BY DEF Take
<1>10. Head(s.cmdq) \notin Auth => Head(replies).code # "234"
  BY <1>6, <1>7 DEF Sound
<1> QED
  BY <1>1, <1>2, <1>3, <1>4, <1>5, <1>7, <1>8, <1>9, <1>10

\* It goes on with a queue that has a command of the login.
LEMMA WaitsOn ==
  ASSUME s.sent = <<>>, replies' = <<>>, NEW q \in Seq(Command), NEW d, One(q, d), NEW state,
         GoesOn(s, s', q, state)
  PROVE  /\ Waits(d)' /\ s'.state = state /\ s'.cmdq = q /\ s'.sent = <<Head(q)>>
         /\ s'.told <=> s.told
         /\ s'.ssl <=> s.ssl
<1>1. q # <<>>
  BY DEF One
<1>2. /\ s'.handle /\ ~s'.forcebusy /\ s'.cmdq = q /\ ~s'.isidle
      /\ s'.sent = Append(s.sent, Head(q)) /\ s'.state = state
      /\ s'.told <=> s.told
      /\ s'.ssl <=> s.ssl
  BY <1>1 DEF GoesOn
<1>3. s'.sent = <<Head(q)>>
  BY <1>2
<1>4. Flying'
  BY <1>2, <1>3 DEF Flying
<1>5. Waits(d)'
  BY <1>2, <1>4 DEF Waits
<1> QED
  BY <1>2, <1>3, <1>5

\* The login starts, and a session that waited for nothing waits for its reply.
LEMMA StartsOn ==
  ASSUME s.sent = <<>>, replies' = <<>>, s.cmdq \in Seq(UserCmd), NEW c \in Command, NEW state,
         Starts(s, s', c, state)
  PROVE  /\ Waits(c)' /\ s'.state = state /\ s'.cmdq = Append(s.cmdq, c) /\ s'.handle
         /\ s'.told <=> s.told
         /\ s'.ssl <=> s.ssl
<1>1. /\ s'.handle /\ ~s'.isidle /\ ~s'.forcebusy /\ s'.state = state
      /\ s'.told <=> s.told
      /\ s'.ssl <=> s.ssl
      /\ s'.cmdq = Append(s.cmdq, c) /\ s'.sent = Append(s.sent, Head(s'.cmdq))
  BY DEF Starts
<1>2. One(s'.cmdq, c)
  BY <1>1, OneNew
<1>3. s'.sent = <<Head(s'.cmdq)>>
  <2> DEFINE h == Head(s'.cmdq)
  <2>1. s'.sent = Append(s.sent, h)
    BY <1>1
  <2> HIDE DEF h
  <2>2. s'.sent = <<h>>
    BY <2>1
  <2> QED
    BY <2>2 DEF h
<1>4. Waits(c)'
  BY <1>1, <1>2, <1>3 DEF Waits, Flying
<1> QED
  BY <1>1, <1>4

\* A command of the user was the first: the session waits as it did.
LEMMA WaitsTheirs ==
  ASSUME TypeOK, ShapeInv, NEW c \in Command \ UserCmd, Waits(c), Take, Head(s.cmdq) \in UserCmd
  PROVE  /\ Waits(c)' /\ link' = link /\ s'.cmdq = Tail(s.cmdq)
         /\ s'.state = IF Head(s.cmdq) = "QUOTE" THEN s.state ELSE "IDLE"
         /\ s'.told <=> s.told
         /\ s'.ssl <=> s.ssl
         /\ s'.sent = <<Head(Tail(s.cmdq))>>
<1> DEFINE q == Tail(s.cmdq)
           state == IF Head(s.cmdq) = "QUOTE" THEN s.state ELSE "IDLE"
<1>1. /\ s \in Session /\ s.handle /\ ~s.isidle /\ ~s.forcebusy /\ s.cmdq # <<>>
      /\ q \in Seq(Command) /\ s.sent = <<>> /\ replies' = <<>> /\ One(q, c)
      /\ s' = CmdqReply(s, Head(replies).code)
  BY WaitsTake
<1>2. Head(s.cmdq) \notin Auth
  BY DEF Auth, UserCmd
<1>3. link' = link
  BY <1>2, WaitsTake
<1>4. GoesOn(s, s', q, state)
  BY <1>1, ReplyTheirs
<1> HIDE DEF q, state
<1>5. /\ Waits(c)' /\ s'.state = state /\ s'.cmdq = q /\ s'.sent = <<Head(q)>>
      /\ s'.told <=> s.told
      /\ s'.ssl <=> s.ssl
  BY <1>1, <1>4, WaitsOn
<1> QED
  BY <1>3, <1>5 DEF q, state

-----------------------------------------------------------------------------
(* Types, and the shape of the session. *)

\* A session that is closed keeps its queue, but nothing is on its way.
LEMMA ClosedFields ==
  ASSUME NEW r \in Session, NEW x, x = SetClose(r)
  PROVE  /\ x \in Session /\ ~x.handle /\ x.cmdq = r.cmdq /\ x.sent = <<>> /\ x.state = r.state
         /\ x.ssl <=> r.ssl
         /\ Kept(x)
<1>1. <<>> \in Seq(Command)
  OBVIOUS
<1>2. x = [r EXCEPT !.handle = FALSE, !.sent = <<>>]
  BY DEF SetClose
<1> QED
  BY <1>1, <1>2 DEF Session, Kept

\* The connection is made: the greeting is waited for.
LEMMA ConnectedFields ==
  ASSUME TypeOK, ShapeInv, Connected
  PROVE  /\ s \in Session /\ s.handle /\ s.state = "CONNECTING"
         /\ s' \in Session /\ s'.handle /\ s'.state = "AWAIT_220" /\ s'.isidle /\ Kept(s')
         /\ s'.cmdq = s.cmdq /\ s'.sent = s.sent
         /\ s'.forcebusy <=> s.forcebusy
         /\ s'.ssl <=> s.ssl
         /\ s'.told <=> s.told
         /\ ~s.forcebusy
<1>1. /\ s \in Session /\ s.handle /\ s.state = "CONNECTING" /\ Kept(s)
      /\ s' = [s EXCEPT !.state = "AWAIT_220", !.isidle = TRUE]
  BY DEF TypeOK, ShapeInv, Connected, Up, Becomes
<1>2. "AWAIT_220" \in State
  BY DEF State
<1>3. ~s.forcebusy
  BY <1>1 DEF Kept
<1>4. /\ s' \in Session /\ s'.handle /\ s'.state = "AWAIT_220" /\ s'.isidle
      /\ s'.cmdq = s.cmdq /\ s'.sent = s.sent
      /\ s'.forcebusy <=> s.forcebusy
      /\ s'.ssl <=> s.ssl
      /\ s'.told <=> s.told
  BY <1>1, <1>2 DEF Session
<1>5. Kept(s')
  BY <1>3, <1>4 DEF Kept
<1> QED
  BY <1>1, <1>3, <1>4, <1>5

\* The connection is secure: the login starts, if that was waited for, or goes on in
\* secret when the greeting comes.
LEMMA SecuredCases ==
  ASSUME TypeOK, ShapeInv, Secured
  PROVE  /\ s \in Session /\ s.handle
         /\ s.state \notin {"CONNECTING", "TLS_WAIT"} => s' = s
         /\ s.state = "CONNECTING" => s' = [s EXCEPT !.ssl = TRUE] /\ s' \in Session
         /\ s.state = "TLS_WAIT" =>
              /\ s' \in Session /\ s'.handle /\ ~s'.isidle /\ ~s'.forcebusy
              /\ s'.state = "SENT_CMD" /\ s'.cmdq = Append(s.cmdq, "USER") /\ s'.cmdq # <<>>
              /\ s'.told <=> s.told
              /\ s.isidle => s'.sent = Append(s.sent, Head(Append(s.cmdq, "USER")))
              /\ ~s.isidle => s'.sent = s.sent
<1>0. /\ s \in Session /\ s.handle
      /\ s' = CASE s.state = "CONNECTING" -> [s EXCEPT !.ssl = TRUE]
                [] s.state = "TLS_WAIT" ->
                     Restart([LoginStart([s EXCEPT !.ssl = TRUE]) EXCEPT !.forcebusy = FALSE])
                [] OTHER -> s
  BY Zenon DEF TypeOK, Secured, Negotiated, Up, Becomes
<1>1. /\ s.state \notin {"CONNECTING", "TLS_WAIT"} => s' = s
      /\ s.state = "CONNECTING" => s' = [s EXCEPT !.ssl = TRUE]
      /\ s.state = "TLS_WAIT" =>
           s' = Restart([LoginStart([s EXCEPT !.ssl = TRUE]) EXCEPT !.forcebusy = FALSE])
  BY <1>0
<1>2. ASSUME s.state = "TLS_WAIT"
      PROVE  /\ s' \in Session /\ s'.handle /\ ~s'.isidle /\ ~s'.forcebusy
             /\ s'.state = "SENT_CMD" /\ s'.cmdq = Append(s.cmdq, "USER") /\ s'.cmdq # <<>>
             /\ s'.told <=> s.told
             /\ s.isidle => s'.sent = Append(s.sent, Head(Append(s.cmdq, "USER")))
             /\ ~s.isidle => s'.sent = s.sent
  <2>1. s' = Restart([LoginStart([s EXCEPT !.ssl = TRUE]) EXCEPT !.forcebusy = FALSE])
    BY <1>1, <1>2
  <2> QED
    BY <1>0, <2>1, SecuredFields
<1>3. [s EXCEPT !.ssl = TRUE] \in Session
  BY <1>0 DEF Session
<1> QED
  BY <1>0, <1>1, <1>2, <1>3

\* The negotiation has failed: the session is closed, goes on without, or did not
\* wait for it.
LEMMA FailedCases ==
  ASSUME TypeOK, ShapeInv, SecureFailed
  PROVE  /\ s \in Session /\ s.handle /\ s' \in Session /\ Kept(s')
         /\ s.state # "TLS_WAIT" \/ site.control = "YES" => s' = s \/ s' = SetClose(s)
         /\ s'.handle => (s'.state = "CONNECTING" => s.state = "CONNECTING") /\ (s.told => s'.told)
<1>0. /\ s \in Session /\ s.handle /\ Kept(s)
      /\ s' = IF s.state \notin {"CONNECTING", "TLS_WAIT"} THEN s
              ELSE IF site.control = "YES" THEN SetClose(s)
              ELSE Restart([s EXCEPT !.forcebusy = FALSE])
  BY Zenon DEF TypeOK, ShapeInv, SecureFailed, Negotiated, Up, Becomes
<1>1. /\ s \in Session /\ s.handle /\ Kept(s)
      /\ s.state \in {"CONNECTING", "TLS_WAIT"} /\ site.control = "YES" => s' = SetClose(s)
      /\ s.state \in {"CONNECTING", "TLS_WAIT"} /\ site.control # "YES" =>
           s' = Restart([s EXCEPT !.forcebusy = FALSE])
      /\ s.state \notin {"CONNECTING", "TLS_WAIT"} => s' = s
  BY <1>0
<1>2. CASE s.state \in {"CONNECTING", "TLS_WAIT"} /\ site.control = "YES"
  <2>1. s' = SetClose(s)
    BY <1>1, <1>2
  <2>2. s' \in Session /\ ~s'.handle /\ Kept(s')
    BY <1>1, <2>1, ClosedFields
  <2> QED
    BY <1>1, <2>1, <2>2
<1>3. CASE s.state \notin {"CONNECTING", "TLS_WAIT"}
  BY <1>1, <1>3
<1>5. CASE s.state = "CONNECTING" /\ site.control # "YES"
  <2>1. ~s.isidle /\ ~s.forcebusy
    BY <1>1, <1>5 DEF ShapeInv, Kept
  <2>2. /\ [s EXCEPT !.forcebusy = FALSE] = s
    <3>1. s.forcebusy = FALSE
      BY <1>1, <2>1 DEF Session
    <3> QED
      BY <1>1, <3>1 DEF Session
  <2>3. s' = Restart(s)
    BY <1>1, <1>5, <2>2
  <2>4. s' = s
    BY <2>1, <2>3 DEF Restart
  <2> QED
    BY <1>1, <2>4
<1>4. CASE s.state = "TLS_WAIT" /\ site.control # "YES"
  <2> DEFINE w == [s EXCEPT !.forcebusy = FALSE]
  <2>1. /\ w \in Session /\ w.handle /\ ~w.forcebusy /\ w.state = "TLS_WAIT" /\ w.cmdq = s.cmdq
        /\ w.isidle <=> s.isidle
        /\ w.told <=> s.told
    BY <1>1, <1>4 DEF Session
  <2>2. s' = Restart(w)
    BY <1>1, <1>4
  <2> HIDE DEF w
  <2>3. ~w.isidle => s.cmdq # <<>>
    BY <1>1, <1>4, <2>1 DEF Kept
  <2>4. CASE ~w.isidle
    <3>1. s' = w
      BY <2>1, <2>2, <2>4, RestartFields DEF Restarted
    <3>2. Kept(w)
      BY <2>1, <2>3, <2>4 DEF Kept
    <3> QED
      BY <1>1, <1>4, <2>1, <3>1, <3>2
  <2>5. CASE w.isidle
    <3>1. /\ s' \in Session /\ ~s'.forcebusy /\ s'.cmdq = w.cmdq
          /\ w.cmdq # <<>> => ~s'.isidle /\ s'.state = "TLS_WAIT" /\ (s'.told <=> w.told)
          /\ w.cmdq = <<>> => s'.isidle /\ s'.state = "IDLE" /\ s'.told
      BY <2>1, <2>2, <2>5, RestartFields DEF Restarted
    <3>2. Kept(s')
      BY <3>1 DEF Kept
    <3>3. (s'.state # "CONNECTING") /\ (s.told => s'.told)
      BY <2>1, <3>1
    <3> QED
      BY <1>1, <1>4, <3>1, <3>2, <3>3
  <2> QED
    BY <2>4, <2>5
<1> QED
  BY <1>2, <1>3, <1>4, <1>5

\* Every step is of a session that is there, leaves one whose fields agree, never goes
\* back to connecting and takes nothing back from the owner.
LEMMA StepSession ==
  ASSUME TypeOK, ShapeInv, Next
  PROVE  /\ s \in Session /\ s.handle /\ s' \in Session /\ Kept(s')
         /\ s'.handle => (s'.state = "CONNECTING" => s.state = "CONNECTING") /\ (s.told => s'.told)
<1> DEFINE Goal == /\ s \in Session /\ s.handle /\ s' \in Session /\ Kept(s')
                   /\ s'.handle => /\ s'.state = "CONNECTING" => s.state = "CONNECTING"
                                   /\ s.told => s'.told
<1>1. ASSUME Connected PROVE Goal
  BY <1>1, ConnectedFields
<1>2. ASSUME Take PROVE Goal
  <2>1. /\ s \in Session /\ s.handle /\ s' \in Session /\ Kept(s')
        /\ s'.handle => s'.state # "CONNECTING" /\ (s.told => s'.told)
    BY <1>2, TakeSession
  <2> QED
    BY <2>1
<1>3. ASSUME Secured PROVE Goal
  <2>1. s \in Session /\ s.handle /\ Kept(s)
    BY <1>3, SecuredCases DEF ShapeInv
  <2>4. CASE s.state = "CONNECTING"
    <3>1. s' = [s EXCEPT !.ssl = TRUE] /\ s' \in Session
      BY <1>3, <2>4, SecuredCases
    <3>2. /\ s'.state = s.state /\ s'.cmdq = s.cmdq
          /\ s'.handle <=> s.handle
          /\ s'.isidle <=> s.isidle
          /\ s'.forcebusy <=> s.forcebusy
          /\ s'.told <=> s.told
      BY <2>1, <3>1 DEF Session
    <3>3. Kept(s')
      BY <2>1, <3>2 DEF Kept
    <3> QED
      BY <2>1, <3>1, <3>2, <3>3
  <2>2. CASE s.state \notin {"CONNECTING", "TLS_WAIT"}
    <3>1. s' = s
      BY <1>3, <2>2, SecuredCases
    <3> QED
      BY <2>1, <3>1
  <2>3. CASE s.state = "TLS_WAIT"
    <3>1. /\ s' \in Session /\ s'.handle /\ ~s'.isidle /\ ~s'.forcebusy
          /\ s'.state = "SENT_CMD" /\ s'.cmdq # <<>>
          /\ s'.told <=> s.told
      BY <1>3, <2>3, SecuredCases
    <3>2. Kept(s')
      BY <3>1 DEF Kept
    <3> QED
      BY <2>1, <3>1, <3>2
  <2> QED
    BY <2>2, <2>3, <2>4
<1>4. ASSUME SecureFailed PROVE Goal
  BY <1>4, FailedCases
<1>5. ASSUME Lost PROVE Goal
  <2>1. s \in Session /\ s.handle /\ s' = SetClose(s)
    BY <1>5 DEF TypeOK, Lost, Up, Becomes
  <2>2. s' \in Session /\ ~s'.handle /\ Kept(s')
    BY <2>1, ClosedFields
  <2> QED
    BY <2>1, <2>2
<1>6. ASSUME Greet PROVE Goal
  <2>1. s \in Session /\ s.handle /\ s' = s /\ Kept(s)
    BY <1>6 DEF TypeOK, ShapeInv, Greet, Up
  <2> QED
    BY <2>1
<1>7. ASSUME Serve PROVE Goal
  <2>1. s.handle /\ Kept(s)
    BY <1>7 DEF ShapeInv, Serve, Up
  <2>2. s \in Session /\ s' = [s EXCEPT !.sent = Tail(s.sent)] /\ s' \in Session
    BY <1>7, ServeFields
  <2>3. /\ s'.state = s.state /\ s'.cmdq = s.cmdq
        /\ s'.handle <=> s.handle
        /\ s'.isidle <=> s.isidle
        /\ s'.forcebusy <=> s.forcebusy
        /\ s'.told <=> s.told
    BY <2>2 DEF Session
  <2>4. Kept(s')
    BY <2>1, <2>3 DEF Kept
  <2> QED
    BY <2>1, <2>2, <2>3, <2>4
<1>8. ASSUME NEW cmd \in UserCmd, Ask(cmd) PROVE Goal
  BY <1>8, AskFields
<1> QED
  BY <1>1, <1>2, <1>3, <1>4, <1>5, <1>6, <1>7, <1>8 DEF Next

\* Every step keeps the types.
LEMMA TypeStep ==
  ASSUME TypeOK, ShapeInv, Next
  PROVE  TypeOK'
<1>1. /\ site \in Site
      /\ server \in {"away", "open", "negotiates", "known", "in"}
      /\ link \in {"plain", "negotiating", "secure", "broken"}
      /\ replies \in Seq(Reply)
      /\ heard \in {"nothing", "CONNECT", "DISCONNECT"} /\ asks \in 0 .. MaxAsks
      /\ odd \subseteq {"asked", "ssl", "failed"}
  BY DEF TypeOK, Reply
<1>2. s' \in Session
  BY StepSession
<1>3. site' \in Site
  BY <1>1 DEF Next, Connected, Take, Secured, SecureFailed, Negotiated, Lost, Greet, Serve, Ask
<1>4. heard' \in {"nothing", "CONNECT", "DISCONNECT"}
  BY <1>1 DEF Next, Connected, Take, Secured, SecureFailed, Negotiated, Lost, Greet, Serve, Ask,
     Becomes, Tell
<1>5. asks' \in 0 .. MaxAsks
  <2>1. asks' = asks \/ (asks < MaxAsks /\ asks' = asks + 1)
    BY DEF Next, Connected, Take, Secured, SecureFailed, Negotiated, Lost, Greet, Serve, Ask
  <2> QED
    BY <1>1, <2>1, LoginAssumption
<1>6. odd' \subseteq {"asked", "ssl", "failed"}
  <2>1. odd' \subseteq odd \cup {"asked", "ssl", "failed"}
    BY DEF Next, Connected, Take, Secured, SecureFailed, Negotiated, Lost, Greet, Serve, Ask
  <2> QED
    BY <1>1, <2>1
<1>7. link' \in {"plain", "negotiating", "secure", "broken"}
  BY <1>1 DEF Next, Connected, Take, Secured, SecureFailed, Negotiated, Lost, Greet, Serve, Ask
<1>8. server' \in {"away", "open", "negotiates", "known", "in"}
  <2>1. CASE Serve
    BY <2>1, ServeFields
  <2>2. CASE ~Serve
    BY <1>1, <2>2 DEF Next, Connected, Take, Secured, SecureFailed, Negotiated, Lost, Greet, Ask
  <2> QED
    BY <2>1, <2>2
<1>9. replies' \in Seq(Reply)
  <2>1. CASE Take
    BY <2>1, TakeReplies
  <2>2. CASE Serve
    <3>1. PICK a \in Reply : replies' = Append(replies, a)
      BY <2>2, ServeFields
    <3> QED
      BY <1>1, <3>1, AtTheEnd
  <2>3. CASE Greet
    <3> DEFINE a == [code |-> "220", of |-> "greeting"]
    <3>1. replies' = Append(replies, a) /\ a \in Reply
      BY <2>3 DEF Greet, Answers, Reply
    <3> HIDE DEF a
    <3> QED
      BY <1>1, <3>1, AtTheEnd
  <2>4. CASE ~Take /\ ~Serve /\ ~Greet
    BY <1>1, <2>4 DEF Next, Connected, Secured, SecureFailed, Negotiated, Lost, Ask
  <2> QED
    BY <2>1, <2>2, <2>3, <2>4
<1> QED
  BY <1>2, <1>3, <1>4, <1>5, <1>6, <1>7, <1>8, <1>9 DEF TypeOK, Reply

\* The greeting is the last of the replies.
LEMMA GreetReplies ==
  ASSUME TypeOK, Greet
  PROVE  \E a \in Reply : /\ replies' = Append(replies, a) /\ a.of = "greeting" /\ a.code = "220"
                          /\ replies \in Seq(Reply) /\ Sound(a)
<1> DEFINE a == [code |-> "220", of |-> "greeting"]
<1>1. replies' = Append(replies, a) /\ replies \in Seq(Reply)
  BY DEF TypeOK, Greet, Answers, Reply
<1>2. a \in Reply /\ a.of = "greeting" /\ a.code = "220"
  BY DEF Reply
<1> HIDE DEF a
<1>3. Sound(a)
  BY <1>2 DEF Sound
<1> QED
  BY <1>1, <1>2, <1>3

\* Every step keeps the shape.
LEMMA ShapeStep ==
  ASSUME TypeOK, ShapeInv, Next
  PROVE  ShapeInv'
<1>1. /\ s.handle /\ s' \in Session /\ Kept(s')
      /\ s'.handle => (s'.state = "CONNECTING" => s.state = "CONNECTING")
  BY StepSession
<1>2. \A i \in DOMAIN replies : Sound(replies[i])
  BY DEF ShapeInv
<1>3. replies \in Seq(Reply)
  BY DEF TypeOK, Reply
<1>4. ASSUME NEW a \in Reply, Sound(a), replies' = Append(replies, a)
      PROVE  \A i \in DOMAIN replies' : Sound(replies'[i])
  <2>1. /\ Len(replies) \in Nat /\ DOMAIN replies = 1 .. Len(replies)
        /\ DOMAIN replies' = 1 .. Len(replies) + 1
        /\ \A i \in 1 .. Len(replies) : replies'[i] = replies[i]
        /\ replies'[Len(replies) + 1] = a
    BY <1>3, <1>4, AtTheEnd
  <2> TAKE i \in DOMAIN replies'
  <2>2. i \in DOMAIN replies \/ i = Len(replies) + 1
    BY <2>1
  <2>3. CASE i \in DOMAIN replies
    BY <1>2, <2>1, <2>3
  <2>4. CASE i = Len(replies) + 1
    BY <1>4, <2>1, <2>4
  <2> QED
    BY <2>2, <2>3, <2>4
<1>5. \A i \in DOMAIN replies' : Sound(replies'[i])
  <2>1. CASE Take
    BY <1>2, <2>1, TakeReplies
  <2>2. CASE Serve
    <3>1. PICK a \in Reply : replies' = Append(replies, a) /\ Sound(a)
      BY <2>2, ServeFields
    <3> QED
      BY <1>4, <3>1
  <2>3. CASE Greet
    <3>1. PICK a \in Reply : replies' = Append(replies, a) /\ Sound(a)
      BY <2>3, GreetReplies
    <3> QED
      BY <1>4, <3>1
  <2>4. CASE ~Take /\ ~Serve /\ ~Greet
    <3>1. replies' = replies
      BY <2>4 DEF Next, Connected, Secured, SecureFailed, Negotiated, Lost, Ask
    <3> QED
      BY <1>2, <3>1
  <2> QED
    BY <2>1, <2>2, <2>3, <2>4
<1>6. ASSUME s'.handle, s'.state = "CONNECTING"
      PROVE  ~s'.isidle /\ s'.sent = <<>> /\ replies' = <<>> /\ server' = "away"
  <2>1. /\ s.state = "CONNECTING" /\ ~s.isidle /\ s.sent = <<>> /\ replies = <<>>
        /\ server = "away"
    BY <1>1, <1>6 DEF ShapeInv
  <2>2. CASE Connected
    BY <1>6, <2>2, ConnectedFields
  <2>3. CASE Lost
    <3>1. s \in Session /\ s' = SetClose(s)
      BY <2>3 DEF TypeOK, Lost, Becomes
    <3> QED
      BY <1>6, <3>1, ClosedFields
  <2>4. ASSUME NEW cmd \in UserCmd, Ask(cmd)
        PROVE  ~s'.isidle /\ s'.sent = <<>> /\ replies' = <<>> /\ server' = "away"
    <3>1. ~s'.isidle /\ s'.sent = <<>>
      BY <2>1, <2>4, AskFields
    <3> QED
      BY <2>1, <2>4, <3>1 DEF Ask
  <2>5. CASE Take \/ Serve \/ Greet
    BY <2>1, <2>5 DEF Take, Serve, Greet
  <2>6. CASE Secured
    <3>1. s' = [s EXCEPT !.ssl = TRUE] /\ s \in Session
      BY <2>1, <2>6, SecuredCases
    <3>2. server' = server /\ replies' = replies
      BY <2>1, <2>6 DEF Secured, Negotiated
    <3> QED
      BY <2>1, <3>1, <3>2 DEF Session
  <2>7. CASE SecureFailed
    <3>1. s' = s \/ s' = SetClose(s)
      BY <2>1, <2>7, FailedCases
    <3>2. s' = s
      BY <1>1, <1>6, <3>1, ClosedFields, StepSession
    <3>3. server' = server /\ replies' = replies
      BY <2>1, <2>7 DEF SecureFailed, Negotiated
    <3> QED
      BY <2>1, <3>2, <3>3
  <2> QED
    BY <2>2, <2>3, <2>4, <2>5, <2>6, <2>7 DEF Next
<1> QED
  BY <1>1, <1>5, <1>6 DEF ShapeInv

-----------------------------------------------------------------------------
(* The password. *)

\* A session that goes on has nothing in its queue, or on its way, but what it had.
LEMMA QueueOn ==
  ASSUME NEW T, NEW q \in Seq(T), s.sent \in Seq(T), NEW state, GoesOn(s, s', q, state)
  PROVE  /\ s'.cmdq \in Seq(T) /\ s'.sent \in Seq(T) /\ s'.handle /\ s'.state \in {state, "IDLE"}
         /\ s'.isidle => q = <<>>
         /\ s'.ssl <=> s.ssl
<1>1. CASE q = <<>>
  BY <1>1 DEF GoesOn
<1>2. CASE q # <<>>
  <2>1. /\ s'.handle /\ s'.cmdq = q /\ ~s'.isidle
        /\ s'.sent = Append(s.sent, Head(q)) /\ s'.state = state
        /\ s'.ssl <=> s.ssl
    BY <1>2 DEF GoesOn
  <2>2. Head(q) \in T
    BY <1>2, FirstOf
  <2>3. Append(s.sent, Head(q)) \in Seq(T)
    BY <2>2, AtTheEnd
  <2> QED
    BY <2>1, <2>3
<1> QED
  BY <1>1, <1>2

\* A command of the user adds nothing else.
LEMMA QueueAsk ==
  ASSUME TypeOK, ShapeInv, NEW T, s.cmdq \in Seq(T), s.sent \in Seq(T),
         NEW cmd \in UserCmd, cmd \in T, Ask(cmd)
  PROVE  s'.cmdq \in Seq(T) /\ s'.sent \in Seq(T)
<1>1. Append(s.cmdq, cmd) \in Seq(T) /\ Append(s.cmdq, cmd) # <<>>
  BY AtTheEnd
<1>2. Head(Append(s.cmdq, cmd)) \in T
  BY <1>1, FirstOf
<1>3. Append(s.sent, Head(Append(s.cmdq, cmd))) \in Seq(T)
  BY <1>2, AtTheEnd
<1>4. /\ s'.cmdq = Append(s.cmdq, cmd)
      /\ s.forcebusy \/ ~s.isidle => s'.sent = s.sent
      /\ ~s.forcebusy /\ s.isidle => s'.sent = Append(s.sent, Head(Append(s.cmdq, cmd)))
  BY AskFields
<1> QED
  BY <1>1, <1>3, <1>4

\* Until the connection is secure there is nothing but AUTH and commands of the user.
LEMMA PhaseQueues ==
  ASSUME s \in Session, Ungreeted \/ (\E c \in Auth : Authenticates(c)) \/ Past
  PROVE  s.cmdq \in Seq(UserCmd \cup Auth) /\ s.sent \in Seq(UserCmd \cup Auth)
<1> DEFINE T == UserCmd \cup Auth
<1>1. CASE Ungreeted \/ Past
  <2>1. s.cmdq \in Seq(UserCmd) /\ s.sent \in Seq(UserCmd) /\ UserCmd \subseteq T
    BY <1>1 DEF Ungreeted, Past, Theirs
  <2> HIDE DEF T
  <2> QED
    BY <2>1, Widen DEF T
<1>2. ASSUME NEW c \in Auth, Authenticates(c)
      PROVE  s.cmdq \in Seq(T) /\ s.sent \in Seq(T)
  <2>1. One(s.cmdq, c) /\ Flying
    BY <1>2 DEF Authenticates, Waits
  <2>2. s.cmdq \in Seq(Command) /\ c \notin UserCmd
    BY DEF Session, Auth, UserCmd
  <2>3. s.cmdq \in Seq(UserCmd \cup {c}) /\ s.cmdq # <<>> /\ UserCmd \cup {c} \subseteq T
    BY <2>1, <2>2, OneFirst
  <2> HIDE DEF T
  <2>4. s.cmdq \in Seq(T)
    BY <2>3, Widen
  <2>5. Head(s.cmdq) \in T
    BY <2>3, <2>4, FirstOf
  <2>6. s.sent \in Seq(T)
    <3> DEFINE h == Head(s.cmdq)
    <3>1. s.sent = <<h>> \/ s.sent = <<>>
      BY <2>1 DEF Flying
    <3>2. h \in T
      BY <2>5
    <3> HIDE DEF h
    <3>3. <<h>> \in Seq(T) /\ <<>> \in Seq(T)
      BY <3>2
    <3> QED
      BY <3>1, <3>3
  <2> QED
    BY <2>4, <2>6
<1> QED
  BY <1>1, <1>2

\* Once the replies are plain, so are those that are left.
LEMMA PlainTake ==
  ASSUME TypeOK, ShapeInv, Take, \A i \in DOMAIN replies : Plain(replies[i])
  PROVE  /\ \A i \in DOMAIN replies' : Plain(replies'[i])
         /\ link' = link /\ Head(replies).code \notin {"220", "234"}
<1>1. 1 \in DOMAIN replies /\ Head(replies) = replies[1]
  BY TakeReplies
<1>2. Head(replies).code \notin {"220", "234"}
  BY <1>1 DEF Plain
<1>3. link' = link
  BY <1>2 DEF Take
<1>4. \A i \in DOMAIN replies' : replies'[i] = replies[i + 1] /\ i + 1 \in DOMAIN replies
  BY TakeReplies
<1> QED
  BY <1>2, <1>3, <1>4

\* The reply to a command that is not AUTH is plain.
LEMMA PlainServe ==
  ASSUME TypeOK, Serve, Head(s.sent) \notin Auth, \A i \in DOMAIN replies : Plain(replies[i])
  PROVE  \A i \in DOMAIN replies' : Plain(replies'[i])
<1>1. PICK a \in Reply : /\ replies' = Append(replies, a) /\ a.of = Head(s.sent) /\ Sound(a)
                         /\ a.code # "220" /\ a.of # "greeting"
  BY ServeFields
<1>2. Plain(a)
  BY <1>1 DEF Plain, Sound
<1>3. replies \in Seq(Reply)
  BY ServeFields
<1>4. /\ DOMAIN replies = 1 .. Len(replies) /\ DOMAIN replies' = 1 .. Len(replies) + 1
      /\ Len(replies) \in Nat
      /\ \A i \in 1 .. Len(replies) : replies'[i] = replies[i]
      /\ replies'[Len(replies) + 1] = a
  BY <1>1, <1>3, AtTheEnd
<1> TAKE i \in DOMAIN replies'
<1>5. i \in DOMAIN replies \/ i = Len(replies) + 1
  BY <1>4
<1>6. CASE i \in DOMAIN replies
  BY <1>4, <1>6
<1>7. CASE i = Len(replies) + 1
  BY <1>2, <1>4, <1>7
<1> QED
  BY <1>5, <1>6, <1>7

\* The greeting is taken: AUTH TLS is queued, USER over a connection that is secure, or
\* there has been a command of the user that it is taken for the reply to, and the
\* login never starts.
LEMMA UngreetedTake ==
  ASSUME TypeOK, ShapeInv, site.control = "YES", Ungreeted, Take
  PROVE  /\ s'.handle /\ link' = link
         /\ s'.ssl <=> s.ssl
         /\ ~s.ssl => Authenticates("AUTH_TLS")' \/ Past'
         /\ s.ssl => Protected'
<1> DEFINE code == Head(replies).code
<1>1. /\ s \in Session /\ s.handle /\ s.state = "AWAIT_220" /\ ~s.forcebusy
      /\ s.cmdq \in Seq(UserCmd) /\ s.sent \in Seq(UserCmd) /\ Kept(s)
  BY TakeSession DEF Ungreeted, Theirs, ShapeInv
<1>2. /\ Head(replies).of = "greeting" /\ server # "away"
      /\ \A i \in 2 .. Len(replies) : Plain(replies[i])
      /\ s.isidle => s.sent = <<>> /\ Len(replies) <= 1
  <2>1. replies # <<>>
    BY TakeReplies
  <2> QED
    BY <2>1 DEF Ungreeted
<1>3. code = "220"
  <2>1. Sound(Head(replies))
    BY TakeReplies
  <2> QED
    BY <1>2, <2>1 DEF Sound
<1>4. link' = link /\ server' = server /\ link \in {"plain", "secure"}
  BY <1>1, <1>2, <1>3 DEF Take, Ungreeted, TypeOK
<1>5. CASE s.isidle /\ ~s.ssl
  <2>1. s' = Process(s, code)
    BY <1>5, TakeSession
  <2> HIDE DEF code
  <2>2. Starts(s, s', "AUTH_TLS", "TLS_PHASE_TLS")
    BY <1>1, <1>3, <1>5, <2>1, IdleTake
  <2>3. replies' = <<>>
    <3>1. /\ replies' \in Seq(Reply) /\ Len(replies) \in Nat \ {0}
          /\ Len(replies') = Len(replies) - 1
      BY TakeReplies
    <3>2. Len(replies') = 0
      BY <1>2, <1>5, <3>1
    <3> QED
      BY <3>1, <3>2
  <2>4. "AUTH_TLS" \in Command
    BY DEF Command
  <2>5. /\ Waits("AUTH_TLS")' /\ s'.state = "TLS_PHASE_TLS" /\ s'.handle
        /\ s'.ssl <=> s.ssl
    BY <1>1, <1>2, <1>5, <2>2, <2>3, <2>4, StartsOn
  <2>6. Authenticates("AUTH_TLS")'
    BY <1>2, <1>4, <2>5 DEF Authenticates
  <2> QED
    BY <1>4, <1>5, <2>5, <2>6
<1>7. CASE s.isidle /\ s.ssl
  <2> DEFINE T == Command \ Auth
             q == Append(s.cmdq, "USER")
  <2>1. s' = Process(s, code)
    BY <1>7, TakeSession
  <2> HIDE DEF code
  <2>2. Starts(s, s', "USER", "SENT_CMD")
    BY <1>1, <1>3, <1>7, <2>1, IdleTake
  <2>3. UserCmd \subseteq T /\ "USER" \in T
    BY DEF T, Command, Auth, UserCmd
  <2> HIDE DEF T
  <2>4. s.cmdq \in Seq(T) /\ s.sent \in Seq(T)
    BY <1>1, <2>3, Widen
  <2>5. q \in Seq(T) /\ q # <<>>
    BY <2>3, <2>4, AtTheEnd
  <2>6. /\ s'.cmdq = q /\ s'.sent = Append(s.sent, Head(q)) /\ s'.state = "SENT_CMD" /\ s'.handle
        /\ s'.ssl <=> s.ssl
    BY <2>2 DEF Starts
  <2> HIDE DEF q
  <2>7. Append(s.sent, Head(q)) \in Seq(T)
    <3>1. Head(q) \in T
      BY <2>5, FirstOf
    <3> QED
      BY <2>4, <3>1, AtTheEnd
  <2>8. \A i \in DOMAIN replies' : Plain(replies'[i])
    <3>1. \A i \in DOMAIN replies' : replies'[i] = replies[i + 1] /\ i + 1 \in 2 .. Len(replies)
      BY TakeReplies
    <3> QED
      BY <1>2, <3>1
  <2>9. Protected'
    BY <1>2, <1>4, <2>5, <2>6, <2>7, <2>8 DEF Protected, T
  <2> QED
    BY <1>4, <1>7, <2>6, <2>9
<1>6. CASE ~s.isidle
  <2> DEFINE q == Tail(s.cmdq)
             state == IF Head(s.cmdq) = "QUOTE" THEN s.state ELSE "IDLE"
  <2>1. s' = CmdqReply(s, code) /\ s.cmdq # <<>>
    BY <1>6, TakeSession
  <2> HIDE DEF code
  <2>2. Head(s.cmdq) \in UserCmd /\ q \in Seq(UserCmd)
    BY <1>1, <2>1, FirstOf
  <2>3. GoesOn(s, s', q, state)
    BY <1>1, <1>6, <2>1, <2>2, ReplyTheirs
  <2>4. state \in {"AWAIT_220", "IDLE"}
    BY <1>1
  <2> HIDE DEF q, state
  <2>5. /\ s'.cmdq \in Seq(UserCmd) /\ s'.sent \in Seq(UserCmd) /\ s'.handle
        /\ s'.state \in {state, "IDLE"}
        /\ s'.ssl <=> s.ssl
    BY <1>1, <2>2, <2>3, QueueOn
  <2>6. \A i \in DOMAIN replies' : Plain(replies'[i])
    <3>1. \A i \in DOMAIN replies' : replies'[i] = replies[i + 1] /\ i + 1 \in 2 .. Len(replies)
      BY TakeReplies
    <3> QED
      BY <1>2, <3>1
  <2>7. Past'
    BY <1>2, <1>4, <2>4, <2>5, <2>6 DEF Past, Theirs
  <2>8. Protected'
    <3> DEFINE T == Command \ Auth
    <3>1. UserCmd \subseteq T
      BY DEF Command, Auth, UserCmd
    <3> HIDE DEF T
    <3>2. s'.cmdq \in Seq(T) /\ s'.sent \in Seq(T)
      BY <2>5, <3>1, Widen
    <3> QED
      BY <1>2, <1>4, <2>4, <2>5, <2>6, <3>2 DEF Protected, T
  <2> QED
    BY <1>4, <2>5, <2>7, <2>8
<1> QED
  BY <1>5, <1>6, <1>7

\* AUTH is answered, or a command of the user before it: the next AUTH is waited for,
\* or there is none.
LEMMA AuthTake ==
  ASSUME TypeOK, ShapeInv, site.control = "YES", ~s.ssl, NEW c \in Auth, Authenticates(c), Take
  PROVE  /\ s'.handle => ~s'.ssl /\ ((\E d \in Auth : Authenticates(d)') \/ Past')
         /\ ~s'.handle => s'.cmdq \in Seq(UserCmd \cup Auth) /\ s'.sent = <<>>
<1> DEFINE code == Head(replies).code
           q == Tail(s.cmdq)
<1>1. /\ Waits(c) /\ s.state \in {"TLS_PHASE_TLS", "IDLE"} /\ link \in {"plain", "secure"}
      /\ server # "away"
  BY DEF Authenticates
<1>2. c \in Command \ UserCmd
  BY DEF Auth, Command, UserCmd
<1>3. /\ s \in Session /\ s.handle /\ ~s.isidle /\ ~s.forcebusy /\ s.cmdq # <<>>
      /\ s.cmdq \in Seq(Command) /\ q \in Seq(Command)
      /\ s.sent = <<>> /\ replies' = <<>>
      /\ s' = CmdqReply(s, code)
      /\ Head(s.cmdq) \in UserCmd \cup {c}
      /\ Head(s.cmdq) = c => Theirs(q)
      /\ link' = IF code = "234" THEN "negotiating" ELSE link
  BY <1>1, <1>2, WaitsTake
<1>4. server' = server
  BY DEF Take
<1>5. CASE Head(s.cmdq) \in UserCmd
  <2>1. /\ Waits(c)' /\ link' = link /\ s'.state \in {s.state, "IDLE"}
        /\ s'.ssl <=> s.ssl
    BY <1>1, <1>2, <1>5, WaitsTheirs
  <2>2. Authenticates(c)'
    BY <1>1, <1>4, <2>1 DEF Authenticates
  <2>3. s'.handle
    <3>1. GoesOn(s, s', q, IF Head(s.cmdq) = "QUOTE" THEN s.state ELSE "IDLE")
      BY <1>3, <1>5, ReplyTheirs
    <3> QED
      BY <3>1 DEF GoesOn
  <2> QED
    BY <1>4, <2>1, <2>2, <2>3
<1>6. ASSUME Theirs(q), NEW state, GoesOn(s, s', q, state), state \in {"TLS_WAIT", "IDLE"}
      PROVE  s'.handle /\ ~s'.ssl /\ Past'
  <2> HIDE DEF q, code
  <2>1. q \in Seq(UserCmd) /\ s.sent \in Seq(UserCmd)
    BY <1>3, <1>6 DEF Theirs
  <2>2. /\ s'.cmdq \in Seq(UserCmd) /\ s'.sent \in Seq(UserCmd) /\ s'.handle
        /\ s'.state \in {state, "IDLE"}
        /\ s'.ssl <=> s.ssl
    BY <1>6, <2>1, QueueOn
  <2>3. \A i \in DOMAIN replies' : Plain(replies'[i])
    BY <1>3
  <2> QED
    BY <1>1, <1>4, <1>6, <2>2, <2>3 DEF Past, Theirs
<1>7. CASE Head(s.cmdq) = "AUTH_TLS"
  <2>1. Theirs(q)
    BY <1>3, <1>7 DEF UserCmd
  <2>2. CASE s.state = "IDLE"
    <3>1. GoesOn(s, s', q, "IDLE")
      BY <1>3, <1>7, <2>2, ReplyAuthTls
    <3> QED
      BY <1>4, <1>6, <2>1, <3>1
  <2>3. CASE s.state = "TLS_PHASE_TLS" /\ code = "234"
    <3> HIDE DEF code
    <3>1. /\ s'.handle /\ s'.state = "TLS_WAIT" /\ s'.cmdq = q /\ s'.sent = s.sent
          /\ s'.ssl <=> s.ssl
      BY <1>3, <1>7, <2>3, ReplyAuthTls
    <3>2. \A i \in DOMAIN replies' : Plain(replies'[i])
      BY <1>3
    <3>3. Theirs(s'.sent)
      BY <1>3, <3>1 DEF Theirs
    <3>4. Past'
      BY <1>1, <1>4, <2>1, <3>1, <3>2, <3>3 DEF Past
    <3> QED
      BY <1>4, <3>1, <3>4
  <2>4. CASE s.state = "TLS_PHASE_TLS" /\ code # "234"
    <3> DEFINE p == Append(q, "AUTH_SSL")
    <3> HIDE DEF code
    <3>1. GoesOn(s, s', p, "TLS_PHASE_TLS")
      BY <1>3, <1>7, <2>4, ReplyAuthTls
    <3>2. "AUTH_SSL" \in Command
      BY DEF Command
    <3>3. One(p, "AUTH_SSL")
      BY <2>1, <3>2, OneNew DEF Theirs
    <3>4. p \in Seq(Command)
      BY <1>3, <3>2, AtTheEnd
    <3> HIDE DEF p, q
    <3>5. /\ Waits("AUTH_SSL")' /\ s'.state = "TLS_PHASE_TLS"
          /\ s'.ssl <=> s.ssl
      BY <1>3, <3>1, <3>3, <3>4, WaitsOn
    <3>6. link' = link
      BY <1>3, <2>4
    <3>7. Authenticates("AUTH_SSL")' /\ "AUTH_SSL" \in Auth
      BY <1>1, <1>4, <3>5, <3>6 DEF Authenticates, Auth
    <3>8. s'.handle
      BY <3>1 DEF GoesOn
    <3> QED
      BY <1>4, <3>5, <3>7, <3>8
  <2> QED
    BY <1>1, <2>2, <2>3, <2>4
<1>8. CASE Head(s.cmdq) = "AUTH_SSL"
  <2>1. Theirs(q)
    BY <1>3, <1>8 DEF UserCmd
  <2>2. CASE code = "234"
    <3>1. GoesOn(s, s', q, "TLS_WAIT")
      BY <1>3, <1>8, <2>2, ReplyAuthSsl
    <3> QED
      BY <1>4, <1>6, <2>1, <3>1
  <2>3. CASE code # "234"
    <3>1. Closed(s', q)
      BY <1>3, <1>8, <2>3, ReplyAuthSsl
    <3>2. q \in Seq(UserCmd \cup Auth)
      BY <2>1, Widen DEF Theirs
    <3> QED
      BY <1>4, <3>1, <3>2 DEF Closed
  <2> QED
    BY <2>2, <2>3
<1>9. Head(s.cmdq) \in UserCmd \/ Head(s.cmdq) = "AUTH_TLS" \/ Head(s.cmdq) = "AUTH_SSL"
  BY <1>3 DEF Auth
<1> QED
  BY <1>5, <1>7, <1>8, <1>9

\* When there will be no other AUTH, none comes.
LEMMA PastTake ==
  ASSUME TypeOK, ShapeInv, ~s.ssl, Past, Take
  PROVE  link' = link /\ s'.handle /\ ~s'.ssl /\ Past'
<1>1. /\ s.state \in {"AWAIT_220", "TLS_WAIT", "IDLE"} /\ server # "away"
      /\ s.cmdq \in Seq(UserCmd) /\ s.sent \in Seq(UserCmd)
      /\ \A i \in DOMAIN replies : Plain(replies[i])
  BY DEF Past, Theirs
<1>2. /\ \A i \in DOMAIN replies' : Plain(replies'[i])
      /\ link' = link /\ Head(replies).code \notin {"220", "234"}
  BY <1>1, PlainTake
<1>3. s \in Session /\ s.handle /\ Kept(s) /\ server' = server
  BY TakeSession DEF ShapeInv, Take
<1>4. CASE s.isidle
  <2>1. s' = Process(s, Head(replies).code)
    BY <1>4, TakeSession
  <2>2. s' = s
    BY <1>2, <1>3, <1>4, <2>1, IdleTake
  <2> QED
    BY <1>1, <1>2, <1>3, <2>2 DEF Past, Theirs
<1>5. CASE ~s.isidle
  <2> DEFINE q == Tail(s.cmdq)
             state == IF Head(s.cmdq) = "QUOTE" THEN s.state ELSE "IDLE"
  <2>1. s' = CmdqReply(s, Head(replies).code) /\ s.cmdq # <<>> /\ ~s.forcebusy
    BY <1>5, TakeSession
  <2>2. Head(s.cmdq) \in UserCmd /\ q \in Seq(UserCmd)
    BY <1>1, <2>1, FirstOf
  <2>3. GoesOn(s, s', q, state)
    BY <1>3, <1>5, <2>1, <2>2, ReplyTheirs
  <2>4. state \in {"AWAIT_220", "TLS_WAIT", "IDLE"}
    BY <1>1
  <2> HIDE DEF q, state
  <2>5. /\ s'.cmdq \in Seq(UserCmd) /\ s'.sent \in Seq(UserCmd) /\ s'.handle
        /\ s'.state \in {state, "IDLE"}
        /\ s'.ssl <=> s.ssl
    BY <1>1, <2>2, <2>3, QueueOn
  <2>6. Past'
    BY <1>1, <1>2, <1>3, <2>4, <2>5 DEF Past, Theirs
  <2> QED
    BY <1>2, <2>5, <2>6
<1> QED
  BY <1>4, <1>5

\* Once the connection is secure, no AUTH comes either.
LEMMA ProtectedTake ==
  ASSUME TypeOK, ShapeInv, Protected, Take
  PROVE  link' = link /\ Protected'
<1> DEFINE T == Command \ Auth
<1>1. /\ s \in Session /\ s.handle /\ Kept(s) /\ server' = server
  BY TakeSession DEF ShapeInv, Take
<1>2. /\ s.cmdq \in Seq(T) /\ s.sent \in Seq(T) /\ s.state # "TLS_PHASE_TLS" /\ server # "away"
      /\ \A i \in DOMAIN replies : Plain(replies[i])
  BY <1>1 DEF Protected
<1>3. /\ \A i \in DOMAIN replies' : Plain(replies'[i])
      /\ link' = link /\ Head(replies).code \notin {"220", "234"}
  BY <1>2, PlainTake
<1>4. CASE s.isidle
  <2>1. s' = Process(s, Head(replies).code)
    BY <1>4, TakeSession
  <2>2. s' = s
    BY <1>1, <1>3, <1>4, <2>1, IdleTake
  <2> QED
    BY <1>1, <1>2, <1>3, <2>2 DEF Protected
<1>5. CASE ~s.isidle
  <2> DEFINE code == Head(replies).code
             r == Tail(s.cmdq)
  <2>1. s' = CmdqReply(s, code) /\ s.cmdq # <<>> /\ ~s.forcebusy
    BY <1>5, TakeSession
  <2> HIDE DEF code, T
  <2>2. Head(s.cmdq) \in T /\ r \in Seq(T)
    BY <1>2, <2>1, FirstOf
  <2>3. ASSUME NEW q \in Seq(T), NEW state, state # "TLS_PHASE_TLS", GoesOn(s, s', q, state)
        PROVE  Protected'
    <3>1. s'.cmdq \in Seq(T) /\ s'.sent \in Seq(T) /\ s'.handle /\ s'.state \in {state, "IDLE"}
      BY <1>2, <2>3, QueueOn
    <3> QED
      BY <1>1, <1>2, <1>3, <2>3, <3>1 DEF Protected, T
  <2>4. ASSUME Closed(s', r) PROVE Protected'
    BY <2>4 DEF Closed, Protected
  <2>5. CASE Head(s.cmdq) \in UserCmd
    <3> DEFINE state == IF Head(s.cmdq) = "QUOTE" THEN s.state ELSE "IDLE"
    <3>1. GoesOn(s, s', r, state)
      BY <1>1, <1>5, <2>1, <2>5, ReplyTheirs
    <3>2. state # "TLS_PHASE_TLS"
      BY <1>2
    <3> HIDE DEF state, r
    <3> QED
      BY <1>3, <2>2, <2>3, <3>1, <3>2
  <2>6. CASE Head(s.cmdq) \in Later
    <3>1. PICK q \in {r, Append(r, "XDUPE")} : GoesOn(s, s', q, "REPLY")
      BY <1>1, <1>5, <2>1, <2>6, ReplyMisc
    <3>2. "XDUPE" \in T
      BY DEF T, Command, Auth
    <3> HIDE DEF r
    <3>3. q \in Seq(T)
      BY <2>2, <3>1, <3>2, AtTheEnd
    <3> QED
      BY <1>3, <2>3, <3>1, <3>3
  <2>7. CASE Head(s.cmdq) = "USER"
    <3>1. CASE code = "331"
      <4>1. GoesOn(s, s', Append(r, "PASS"), "LOGIN_SENT_USER")
        BY <1>1, <1>5, <2>1, <2>7, <3>1, ReplyUser
      <4>2. "PASS" \in T
        BY DEF T, Command, Auth
      <4> HIDE DEF r
      <4>3. Append(r, "PASS") \in Seq(T)
        BY <2>2, <4>2, AtTheEnd
      <4> QED
        BY <1>3, <2>3, <4>1, <4>3
    <3>2. CASE code # "331"
      <4>1. Closed(s', r)
        BY <1>1, <1>5, <2>1, <2>7, <3>2, ReplyUser
      <4> QED
        BY <1>3, <2>4, <4>1
    <3> QED
      BY <3>1, <3>2
  <2>8. CASE Head(s.cmdq) = "PASS"
    <3>1. CASE code = "230"
      <4>1. PICK q : /\ GoesOn(s, s', q, "IDLE")
                     /\ \A S \in SUBSET Command : Later \subseteq S /\ r \in Seq(S) => q \in Seq(S)
        BY <1>1, <1>5, <2>1, <2>8, <3>1, ReplyPass
      <4>2. T \in SUBSET Command /\ Later \subseteq T
        BY DEF T, Later, Command, Auth
      <4> HIDE DEF r
      <4>3. q \in Seq(T)
        BY <2>2, <4>1, <4>2
      <4> QED
        BY <1>3, <2>3, <4>1, <4>3
    <3>2. CASE code # "230"
      <4>1. Closed(s', r)
        BY <1>1, <1>5, <2>1, <2>8, <3>2, ReplyPass
      <4> QED
        BY <1>3, <2>4, <4>1
    <3> QED
      BY <3>1, <3>2
  <2>9. \/ Head(s.cmdq) \in UserCmd \/ Head(s.cmdq) \in Later
        \/ Head(s.cmdq) = "USER" \/ Head(s.cmdq) = "PASS"
    BY <2>2 DEF T, Command, Auth, Later
  <2> QED
    BY <2>5, <2>6, <2>7, <2>8, <2>9
<1> QED
  BY <1>4, <1>5

\* Every step before the greeting is taken, which may end an implicit negotiation.
LEMMA UngreetedStep ==
  ASSUME TypeOK, ShapeInv, Ungreeted, Next, ~Take
  PROVE  \/ /\ s'.handle /\ Ungreeted'
            /\ s'.ssl => s.ssl \/ link' = "secure"
            /\ s.ssl => s'.ssl
            /\ link = "secure" => link' = "secure"
         \/ s' = SetClose(s)
<1> DEFINE Goal == /\ s'.handle /\ Ungreeted'
                   /\ s'.ssl => s.ssl \/ link' = "secure"
                   /\ s.ssl => s'.ssl
                   /\ link = "secure" => link' = "secure"
<1>1. /\ s \in Session /\ s.handle /\ Kept(s) /\ s.state \in {"CONNECTING", "AWAIT_220"}
      /\ ~s.forcebusy
  BY StepSession DEF ShapeInv, Ungreeted
<1>2. ASSUME Connected PROVE Goal
  <2>1. /\ s.state = "CONNECTING" /\ s'.handle /\ s'.state = "AWAIT_220"
        /\ s'.cmdq = s.cmdq /\ s'.sent = s.sent /\ ~s.forcebusy
        /\ s'.forcebusy <=> s.forcebusy
        /\ s'.ssl <=> s.ssl
    BY <1>2, ConnectedFields
  <2>2. s.sent = <<>> /\ replies = <<>> /\ server = "away"
    BY <1>1, <2>1 DEF ShapeInv
  <2>3. replies' = replies /\ server' = server /\ link' = link
    BY <1>2 DEF Connected
  <2>4. Len(replies') <= 1
    BY <2>2, <2>3
  <2> QED
    BY <2>1, <2>2, <2>3, <2>4 DEF Ungreeted
<1>3. ASSUME NEW cmd \in UserCmd, Ask(cmd) PROVE Goal
  <2>1. /\ s'.handle /\ s'.state = s.state /\ s'.cmdq = Append(s.cmdq, cmd)
        /\ s'.forcebusy <=> s.forcebusy
        /\ s'.ssl <=> s.ssl
        /\ ~s.forcebusy /\ s.isidle => ~s'.isidle
        /\ s.forcebusy \/ ~s.isidle => (s'.isidle <=> s.isidle)
    BY <1>3, AskFields
  <2>2. replies' = replies /\ server' = server /\ link' = link
    BY <1>3 DEF Ask
  <2>3. Theirs(s'.cmdq) /\ Theirs(s'.sent)
    BY <1>3, QueueAsk DEF Ungreeted, Theirs
  <2>4. ~s'.isidle
    BY <1>1, <2>1
  <2> QED
    BY <2>1, <2>2, <2>3, <2>4 DEF Ungreeted
<1>4. ASSUME Secured PROVE Goal
  <2>1. /\ link = "negotiating" /\ link' = "secure" /\ replies' = replies /\ server = "away"
        /\ server' = server
    BY <1>4 DEF Secured, Negotiated, Ungreeted
  <2>2. s' = s \/ s' = [s EXCEPT !.ssl = TRUE]
    BY <1>1, <1>4, SecuredCases
  <2>3. /\ s'.handle /\ s'.state = s.state /\ s'.cmdq = s.cmdq /\ s'.sent = s.sent
        /\ s'.isidle <=> s.isidle
        /\ s'.forcebusy <=> s.forcebusy
        /\ s.ssl => s'.ssl
    BY <1>1, <2>2 DEF Session
  <2> QED
    BY <2>1, <2>3 DEF Ungreeted
<1>5. ASSUME SecureFailed PROVE Goal \/ s' = SetClose(s)
  <2>1. link = "negotiating" /\ server = "away" /\ server' = server /\ replies' = replies
    BY <1>5 DEF SecureFailed, Negotiated, Ungreeted
  <2>2. s' = s \/ s' = SetClose(s)
    BY <1>1, <1>5, FailedCases
  <2>3. CASE s' = s
    <3>1. s'.handle /\ Ungreeted'
      BY <1>1, <2>1, <2>3 DEF Ungreeted
    <3> QED
      BY <2>1, <2>3, <3>1
  <2> QED
    BY <2>2, <2>3
<1>6. ASSUME Lost PROVE s' = SetClose(s)
  BY <1>6 DEF Lost, Becomes
<1>7. ASSUME Greet PROVE Goal
  <2>1. /\ s' = s /\ server = "away" /\ server' = "open" /\ link' = link
        /\ link \notin {"negotiating", "broken"}
    BY <1>7 DEF Greet
  <2>2. replies = <<>>
    BY <2>1 DEF Ungreeted
  <2>3. PICK a \in Reply : replies' = Append(replies, a) /\ a.of = "greeting"
    BY <1>7, GreetReplies
  <2>4. replies' = <<a>>
    BY <2>2, <2>3
  <2>5. replies' # <<>> /\ Head(replies').of = "greeting" /\ Len(replies') = 1
    BY <2>3, <2>4
  <2>6. Ungreeted'
    BY <2>1, <2>5 DEF Ungreeted
  <2> QED
    BY <1>1, <2>1, <2>6
<1>8. ASSUME Serve PROVE Goal
  <2>1. /\ s' = [s EXCEPT !.sent = Tail(s.sent)] /\ s.sent # <<>>
        /\ server # "away" /\ server' # "away"
    BY <1>8, ServeFields
  <2>2. /\ s'.handle /\ s'.state = s.state /\ s'.cmdq = s.cmdq /\ s'.sent = Tail(s.sent)
        /\ s'.isidle <=> s.isidle
        /\ s'.forcebusy <=> s.forcebusy
        /\ s'.ssl <=> s.ssl
    BY <1>1, <2>1 DEF Session
  <2>3. link' = link
    BY <1>8 DEF Serve
  <2>4. Theirs(s'.cmdq) /\ Theirs(s'.sent) /\ Head(s.sent) \in UserCmd
    <3>1. s.cmdq \in Seq(UserCmd) /\ s.sent \in Seq(UserCmd)
      BY DEF Ungreeted, Theirs
    <3>2. Head(s.sent) \in UserCmd /\ Tail(s.sent) \in Seq(UserCmd)
      BY <2>1, <3>1, FirstOf
    <3> QED
      BY <2>2, <3>1, <3>2 DEF Theirs
  <2>5. UserCmd \cap Auth = {}
    BY DEF UserCmd, Auth
  <2>6. PICK a \in Reply : /\ replies' = Append(replies, a) /\ a.of = Head(s.sent) /\ Sound(a)
                           /\ a.code # "220" /\ a.of # "greeting"
    BY <1>8, ServeFields
  <2>7. Plain(a)
    BY <2>4, <2>5, <2>6 DEF Plain, Sound
  <2>8. /\ replies # <<>> /\ Head(replies).of = "greeting"
        /\ \A i \in 2 .. Len(replies) : Plain(replies[i])
    BY <2>1 DEF Ungreeted
  <2>9. replies \in Seq(Reply)
    BY <1>8, ServeFields
  <2>10. /\ replies' # <<>> /\ Head(replies') = Head(replies)
         /\ Len(replies) \in Nat /\ Len(replies') = Len(replies) + 1
         /\ \A i \in 1 .. Len(replies) : replies'[i] = replies[i]
         /\ replies'[Len(replies) + 1] = a
    BY <2>6, <2>8, <2>9, AtTheEnd
  <2>11. ASSUME NEW i \in 2 .. Len(replies') PROVE Plain(replies'[i])
    <3>1. i \in 2 .. Len(replies) \/ i = Len(replies) + 1
      BY <2>10
    <3>2. i \in 2 .. Len(replies) => i \in 1 .. Len(replies)
      BY <2>10
    <3> QED
      BY <2>7, <2>8, <2>10, <3>1, <3>2
  <2>12. ~s'.isidle
    BY <2>1, <2>2 DEF Ungreeted
  <2>13. Ungreeted'
    BY <1>1, <2>1, <2>2, <2>3, <2>4, <2>8, <2>10, <2>11, <2>12 DEF Ungreeted
  <2> QED
    BY <2>2, <2>3, <2>13
<1> QED
  BY <1>2, <1>3, <1>4, <1>5, <1>6, <1>7, <1>8 DEF Next

\* Every step before the session knows that the connection is secure.
LEMMA UnsecuredStep ==
  ASSUME TypeOK, ShapeInv, site.control = "YES", Unsecured, Next
  PROVE  Private'
<1> DEFINE Goal == Private'
           Phase == Ungreeted \/ (\E c \in Auth : Authenticates(c)) \/ Past
<1>1. s \in Session /\ s.handle /\ Kept(s) /\ s' \in Session
  BY StepSession DEF ShapeInv
<1>2. ~s.ssl /\ Phase
  BY <1>1 DEF Unsecured
<1>3. s.cmdq \in Seq(UserCmd \cup Auth) /\ s.sent \in Seq(UserCmd \cup Auth)
  BY <1>1, <1>2, PhaseQueues
<1>4. ASSUME s' = SetClose(s) PROVE Goal
  <2>1. ~s'.handle /\ s'.cmdq = s.cmdq /\ s'.sent = <<>>
    BY <1>1, <1>4, ClosedFields
  <2> QED
    BY <1>3, <2>1 DEF Unsecured, Private
<1>5. ASSUME s'.handle, ~s'.ssl,
             Ungreeted' \/ (\E c \in Auth : Authenticates(c)') \/ Past'
      PROVE  Goal
  BY <1>5 DEF Unsecured, Private
<1>6. ASSUME Ungreeted, ~Take PROVE Goal
  <2>1. CASE s' = SetClose(s)
    BY <1>4, <2>1
  <2>2. ASSUME s'.handle, Ungreeted', s'.ssl => link' = "secure" PROVE Goal
    BY <2>2 DEF Private, Secure, Unsecured
  <2> HIDE DEF Goal
  <2> QED
    BY <1>2, <1>6, <2>1, <2>2, UngreetedStep
<1> HIDE DEF Goal
<1>7. ASSUME Take PROVE Goal
  <2>1. CASE Ungreeted
    <3>1. /\ s'.handle /\ ~s'.ssl
          /\ Authenticates("AUTH_TLS")' \/ Past'
      BY <1>2, <1>7, <2>1, UngreetedTake
    <3>2. "AUTH_TLS" \in Auth
      BY DEF Auth
    <3> QED
      BY <1>5, <3>1, <3>2
  <2>2. ASSUME NEW c \in Auth, Authenticates(c) PROVE Goal
    <3>1. /\ s'.handle => ~s'.ssl /\ ((\E d \in Auth : Authenticates(d)') \/ Past')
          /\ ~s'.handle => s'.cmdq \in Seq(UserCmd \cup Auth) /\ s'.sent = <<>>
      BY <1>2, <1>7, <2>2, AuthTake
    <3> QED
      BY <3>1 DEF Unsecured, Private, Goal
  <2>3. CASE Past
    <3>1. link' = link /\ s'.handle /\ ~s'.ssl /\ Past'
      BY <1>2, <1>7, <2>3, PastTake
    <3> QED
      BY <1>5, <3>1
  <2> QED
    BY <1>2, <2>1, <2>2, <2>3
<1>8. ASSUME NEW cmd \in UserCmd, Ask(cmd) PROVE Goal
  <2>1. /\ s'.handle /\ s'.state = s.state /\ s'.cmdq = Append(s.cmdq, cmd)
        /\ s'.forcebusy <=> s.forcebusy
        /\ s'.ssl <=> s.ssl
        /\ ~s.forcebusy /\ s.isidle => ~s'.isidle
        /\ s.forcebusy \/ ~s.isidle => (s'.isidle <=> s.isidle)
    BY <1>8, AskFields
  <2>2. replies' = replies /\ server' = server /\ link' = link
    BY <1>8 DEF Ask
  <2>3. ASSUME Past PROVE Theirs(s'.cmdq) /\ Theirs(s'.sent)
    BY <1>8, <2>3, QueueAsk DEF Past, Theirs
  <2>4. CASE Ungreeted
    <3>1. ~Take
      BY <1>1, <1>8, <2>2, TakeReplies
    <3> QED
      BY <1>6, <2>4, <3>1
  <2>5. ASSUME NEW c \in Auth, Authenticates(c) PROVE Goal
    <3>1. Waits(c)'
      BY <1>8, <2>5, WaitsAsk DEF Authenticates
    <3>2. Authenticates(c)'
      BY <2>1, <2>2, <2>5, <3>1 DEF Authenticates
    <3> QED
      BY <1>2, <1>5, <2>1, <2>2, <3>2
  <2>6. CASE Past
    <3>1. Past'
      BY <2>1, <2>2, <2>3, <2>6 DEF Past
    <3> QED
      BY <1>2, <1>5, <2>1, <2>2, <3>1
  <2> QED
    BY <1>2, <2>4, <2>5, <2>6
<1>9. ASSUME link = "negotiating", ~Ungreeted PROVE Past
  BY <1>2, <1>9 DEF Authenticates
<1>10. ASSUME Secured, ~Ungreeted PROVE Goal
  <2>1. Past /\ link' = "secure" /\ server' # "away" /\ replies' = replies
    BY <1>9, <1>10 DEF Secured, Negotiated, Past
  <2>2. /\ s.state \in {"AWAIT_220", "TLS_WAIT", "IDLE"}
        /\ s.cmdq \in Seq(UserCmd) /\ s.sent \in Seq(UserCmd)
        /\ \A i \in DOMAIN replies : Plain(replies[i])
    BY <2>1 DEF Past, Theirs
  <2>3. CASE s.state # "TLS_WAIT"
    <3>1. s' = s
      BY <1>10, <2>2, <2>3, SecuredCases
    <3>2. Past'
      BY <2>1, <3>1 DEF Past
    <3> QED
      BY <1>1, <1>2, <1>5, <3>1, <3>2
  <2>4. CASE s.state = "TLS_WAIT"
    <3> DEFINE T == Command \ Auth
    <3>1. UserCmd \subseteq T /\ "USER" \in T
      BY DEF T, Command, Auth, UserCmd
    <3> HIDE DEF T
    <3>2. s.cmdq \in Seq(T) /\ s.sent \in Seq(T)
      BY <2>2, <3>1, Widen
    <3>3. /\ s'.state = "SENT_CMD" /\ s'.cmdq = Append(s.cmdq, "USER")
          /\ s.isidle => s'.sent = Append(s.sent, Head(Append(s.cmdq, "USER")))
          /\ ~s.isidle => s'.sent = s.sent
      BY <1>10, <2>4, SecuredCases
    <3> DEFINE q == Append(s.cmdq, "USER")
    <3>4. q \in Seq(T) /\ q # <<>>
      BY <3>1, <3>2, AtTheEnd
    <3> HIDE DEF q
    <3>5. Head(q) \in T
      BY <3>4, FirstOf
    <3>6. Append(s.sent, Head(q)) \in Seq(T)
      BY <3>2, <3>5, AtTheEnd
    <3>7. s'.cmdq \in Seq(T) /\ s'.sent \in Seq(T)
      BY <3>2, <3>3, <3>4, <3>6 DEF q
    <3> QED
      BY <2>1, <2>2, <3>3, <3>7 DEF Protected, Private, Goal, T
  <2> QED
    BY <2>3, <2>4
<1>11. ASSUME SecureFailed, ~Ungreeted PROVE Goal
  <2>1. Past /\ server' # "away" /\ replies' = replies
    BY <1>9, <1>11 DEF SecureFailed, Negotiated, Past
  <2>2. s' = s \/ s' = SetClose(s)
    BY <1>11, FailedCases
  <2>3. CASE s' = s
    <3>1. Past'
      BY <2>1, <2>3 DEF Past
    <3> QED
      BY <1>1, <1>2, <1>5, <2>3, <3>1
  <2>4. CASE s' = SetClose(s)
    BY <1>4, <2>4
  <2> QED
    BY <2>2, <2>3, <2>4
<1>12. ASSUME Lost PROVE Goal
  BY <1>4, <1>12 DEF Lost, Becomes
<1>13. ASSUME Connected \/ Greet PROVE Ungreeted /\ ~Take
  <2>1. CASE Connected
    <3>1. s.state = "CONNECTING"
      BY <2>1 DEF Connected
    <3> QED
      BY <1>1, <1>2, <2>1, <3>1 DEF Authenticates, Past, Take
  <2>2. CASE Greet
    <3>1. server = "away" /\ replies' = Append(replies, [code |-> "220", of |-> "greeting"])
      BY <2>2 DEF Greet, Answers
    <3>2. server' = "open"
      BY <2>2 DEF Greet
    <3> QED
      BY <1>2, <3>1, <3>2 DEF Authenticates, Past, Take
  <2> QED
    BY <1>13, <2>1, <2>2
<1>14. ASSUME Serve PROVE Goal
  <2>1. /\ s' = [s EXCEPT !.sent = Tail(s.sent)] /\ s.sent # <<>>
        /\ server # "away" /\ server' # "away"
    BY <1>14, ServeFields
  <2>2. /\ s'.handle /\ s'.state = s.state /\ s'.cmdq = s.cmdq /\ s'.sent = Tail(s.sent)
        /\ s'.isidle <=> s.isidle
        /\ s'.forcebusy <=> s.forcebusy
        /\ ~s'.ssl
    BY <1>1, <1>2, <2>1 DEF Session
  <2>3. link' = link
    BY <1>14 DEF Serve
  <2>4. ASSUME Past
        PROVE  Theirs(s'.cmdq) /\ Theirs(s'.sent) /\ Head(s.sent) \in UserCmd
    <3>1. s.cmdq \in Seq(UserCmd) /\ s.sent \in Seq(UserCmd)
      BY <2>4 DEF Past, Theirs
    <3>2. Head(s.sent) \in UserCmd /\ Tail(s.sent) \in Seq(UserCmd)
      BY <2>1, <3>1, FirstOf
    <3> QED
      BY <2>2, <3>1, <3>2 DEF Theirs
  <2>5. UserCmd \cap Auth = {}
    BY DEF UserCmd, Auth
  <2>6. CASE Ungreeted
    <3>1. ~Take
      <4>1. replies' # Tail(replies)
        <5>1. PICK a \in Reply : replies' = Append(replies, a) /\ replies \in Seq(Reply)
          BY <1>14, ServeFields
        <5>2. replies # <<>>
          BY <2>1, <2>6 DEF Ungreeted
        <5>3. Len(replies') = Len(replies) + 1 /\ Len(Tail(replies)) = Len(replies) - 1
              /\ Len(replies) \in Nat
          BY <5>1, <5>2, AtTheEnd, FirstOf
        <5> QED
          BY <5>3
      <4> QED
        BY <4>1 DEF Take
    <3> QED
      BY <1>6, <2>6, <3>1
  <2>7. ASSUME NEW c \in Auth, Authenticates(c) PROVE Goal
    <3>1. Waits(c)'
      BY <1>14, <2>7, WaitsServe DEF Authenticates
    <3>2. Authenticates(c)'
      BY <2>1, <2>2, <2>3, <2>7, <3>1 DEF Authenticates
    <3> QED
      BY <1>5, <2>2, <2>3, <3>2
  <2>8. CASE Past
    <3>1. \A i \in DOMAIN replies' : Plain(replies'[i])
      <4>1. Head(s.sent) \notin Auth /\ \A i \in DOMAIN replies : Plain(replies[i])
        BY <2>4, <2>5, <2>8 DEF Past
      <4> QED
        BY <1>14, <4>1, PlainServe
    <3>2. Past'
      BY <2>1, <2>2, <2>4, <2>8, <3>1 DEF Past
    <3> QED
      BY <1>5, <2>2, <2>3, <3>2
  <2> QED
    BY <1>2, <2>6, <2>7, <2>8
<1>15. CASE Ungreeted
  BY <1>6, <1>7, <1>15 DEF Goal
<1>16. CASE ~Ungreeted
  BY <1>7, <1>8, <1>10, <1>11, <1>12, <1>13, <1>14, <1>16 DEF Next, Goal
<1> QED
  BY <1>15, <1>16

\* And every step after.
LEMMA ProtectedStep ==
  ASSUME TypeOK, ShapeInv, link = "secure", Protected, Next
  PROVE  link' = "secure" /\ Protected'
<1> DEFINE T == Command \ Auth
<1>1. s \in Session /\ s.handle /\ Kept(s)
  BY StepSession DEF ShapeInv
<1>2. /\ s.cmdq \in Seq(T) /\ s.sent \in Seq(T) /\ s.state # "TLS_PHASE_TLS" /\ server # "away"
      /\ \A i \in DOMAIN replies : Plain(replies[i])
  BY <1>1 DEF Protected
<1>3. UserCmd \subseteq T
  BY DEF Command, Auth, UserCmd
<1>4. CASE Connected
  BY <1>1, <1>2, <1>4, ConnectedFields DEF ShapeInv
<1>5. CASE Take
  BY <1>5, ProtectedTake
<1>6. ASSUME NEW cmd \in UserCmd, Ask(cmd) PROVE link' = "secure" /\ Protected'
  <2>1. /\ s'.state = s.state /\ replies' = replies /\ server' = server /\ link' = link
    BY <1>6, AskFields DEF Ask
  <2> HIDE DEF T
  <2>2. s'.cmdq \in Seq(T) /\ s'.sent \in Seq(T)
    BY <1>2, <1>3, <1>6, QueueAsk
  <2> QED
    BY <1>2, <2>1, <2>2 DEF Protected, T
<1>7. CASE Lost
  <2>1. ~s'.handle /\ link' = link
    BY <1>1, <1>7, ClosedFields DEF Lost, Becomes
  <2> QED
    BY <2>1 DEF Protected
<1>8. CASE Serve
  <2>1. /\ s' = [s EXCEPT !.sent = Tail(s.sent)] /\ s.sent # <<>> /\ server' # "away"
    BY <1>8, ServeFields
  <2>2. s'.state = s.state /\ s'.cmdq = s.cmdq /\ s'.sent = Tail(s.sent)
    BY <1>1, <2>1 DEF Session
  <2>3. link' = link
    BY <1>8 DEF Serve
  <2> HIDE DEF T
  <2>4. Head(s.sent) \in T /\ Tail(s.sent) \in Seq(T)
    BY <1>2, <2>1, FirstOf
  <2>5. \A i \in DOMAIN replies' : Plain(replies'[i])
    BY <1>2, <1>8, <2>4, PlainServe DEF T
  <2> QED
    BY <1>2, <2>1, <2>2, <2>3, <2>4, <2>5 DEF Protected, T
<1>9. CASE Secured \/ SecureFailed \/ Greet
  BY <1>2, <1>9 DEF Secured, SecureFailed, Negotiated, Greet
<1> QED
  BY <1>4, <1>5, <1>6, <1>7, <1>8, <1>9 DEF Next

\* And every step of a session that is secure from the start.
LEMMA SecureStep ==
  ASSUME TypeOK, ShapeInv, site.control = "YES", link = "secure", Secure, Next
  PROVE  Private'
<1>1. s.ssl /\ Ungreeted
  BY DEF Secure
<1>2. CASE Take
  <2>1. link' = link /\ Protected'
    BY <1>1, <1>2, UngreetedTake
  <2> QED
    BY <2>1 DEF Private
<1>3. CASE ~Take
  <2>1. CASE s' = SetClose(s)
    <3>1. ~s'.handle /\ s'.cmdq = s.cmdq /\ s'.sent = <<>>
      BY <2>1, StepSession, ClosedFields
    <3>2. s.cmdq \in Seq(UserCmd \cup Auth)
      BY <1>1, Widen DEF Ungreeted, Theirs
    <3> QED
      BY <3>1, <3>2 DEF Private, Unsecured
  <2>2. CASE s'.handle /\ Ungreeted' /\ s'.ssl /\ link' = "secure"
    BY <2>2 DEF Private, Secure
  <2> QED
    BY <1>1, <1>3, <2>1, <2>2, UngreetedStep
<1> QED
  BY <1>2, <1>3

\* Every step keeps the password private.
LEMMA PrivateStep ==
  ASSUME TypeOK, ShapeInv, PrivateInv, Next
  PROVE  PrivateInv'
<1>1. site' = site
  BY DEF Next, Connected, Take, Secured, SecureFailed, Negotiated, Lost, Greet, Serve, Ask
<1>2. SUFFICES ASSUME site.control = "YES", Private PROVE Private'
  BY <1>1 DEF PrivateInv
<1>3. CASE Unsecured
  BY <1>2, <1>3, UnsecuredStep
<1>4. CASE link = "secure" /\ Protected
  BY <1>4, ProtectedStep DEF Private
<1>5. CASE link = "secure" /\ Secure
  BY <1>2, <1>5, SecureStep
<1> QED
  BY <1>2, <1>3, <1>4, <1>5 DEF Private

-----------------------------------------------------------------------------
(* What the owner is told. *)

\* A session that is in stays in, whatever it is asked for.
LEMMA InTake ==
  ASSUME TypeOK, ShapeInv, In, Take
  PROVE  In'
<1> DEFINE T == Command \ (Auth \cup Named)
<1>1. /\ s \in Session /\ s.handle /\ Kept(s) /\ server' = server
  BY TakeSession DEF ShapeInv, Take
<1>2. /\ s.cmdq \in Seq(T) /\ s.sent \in Seq(T) /\ s.state \in {"IDLE", "REPLY"}
      /\ server = "in" /\ link # "negotiating"
      /\ \A i \in DOMAIN replies : Plain(replies[i])
  BY DEF In
<1>3. /\ \A i \in DOMAIN replies' : Plain(replies'[i])
      /\ link' = link /\ Head(replies).code \notin {"220", "234"}
  BY <1>2, PlainTake
<1>4. CASE s.isidle
  <2>1. s' = Process(s, Head(replies).code)
    BY <1>4, TakeSession
  <2>2. s' = s
    BY <1>1, <1>3, <1>4, <2>1, IdleTake
  <2> QED
    BY <1>1, <1>2, <1>3, <2>2 DEF In
<1>5. CASE ~s.isidle
  <2> DEFINE code == Head(replies).code
             r == Tail(s.cmdq)
  <2>1. s' = CmdqReply(s, code) /\ s.cmdq # <<>> /\ ~s.forcebusy
    BY <1>5, TakeSession
  <2> HIDE DEF code, T
  <2>2. Head(s.cmdq) \in T /\ r \in Seq(T)
    BY <1>2, <2>1, FirstOf
  <2>3. ASSUME NEW q \in Seq(T), NEW state \in {"IDLE", "REPLY"}, GoesOn(s, s', q, state)
        PROVE  In'
    <3>1. s'.cmdq \in Seq(T) /\ s'.sent \in Seq(T) /\ s'.state \in {state, "IDLE"}
      BY <1>2, <2>3, QueueOn
    <3> QED
      BY <1>1, <1>2, <1>3, <2>3, <3>1 DEF In, T
  <2>4. CASE Head(s.cmdq) \in UserCmd
    <3> DEFINE state == IF Head(s.cmdq) = "QUOTE" THEN s.state ELSE "IDLE"
    <3>1. GoesOn(s, s', r, state)
      BY <1>1, <1>5, <2>1, <2>4, ReplyTheirs
    <3>2. state \in {"IDLE", "REPLY"}
      BY <1>2
    <3> HIDE DEF state, r
    <3> QED
      BY <2>2, <2>3, <3>1, <3>2
  <2>5. CASE Head(s.cmdq) \in Later
    <3>1. PICK q \in {r, Append(r, "XDUPE")} : GoesOn(s, s', q, "REPLY")
      BY <1>1, <1>5, <2>1, <2>5, ReplyMisc
    <3>2. "XDUPE" \in T
      BY DEF T, Command, Auth, Named
    <3> HIDE DEF r
    <3>3. q \in Seq(T)
      BY <2>2, <3>1, <3>2, AtTheEnd
    <3> QED
      BY <2>3, <3>1, <3>3
  <2>6. Head(s.cmdq) \in UserCmd \/ Head(s.cmdq) \in Later
    BY <2>2 DEF T, Command, Auth, Named, Later
  <2> QED
    BY <2>4, <2>5, <2>6
<1> QED
  BY <1>4, <1>5

\* Every step leaves such a session in, or closes it.
LEMMA InStep ==
  ASSUME TypeOK, ShapeInv, In, Next, s'.handle
  PROVE  In'
<1> DEFINE T == Command \ (Auth \cup Named)
<1>1. s \in Session /\ s.handle
  BY StepSession
<1>2. /\ s.cmdq \in Seq(T) /\ s.sent \in Seq(T) /\ s.state \in {"IDLE", "REPLY"}
      /\ server = "in" /\ link # "negotiating"
      /\ \A i \in DOMAIN replies : Plain(replies[i])
  BY DEF In
<1>3. UserCmd \subseteq T
  BY DEF Command, Auth, Named, UserCmd
<1>4. CASE Take
  BY <1>4, InTake
<1>5. ASSUME NEW cmd \in UserCmd, Ask(cmd) PROVE In'
  <2>1. /\ s'.state = s.state /\ replies' = replies /\ server' = server /\ link' = link
    BY <1>5, AskFields DEF Ask
  <2> HIDE DEF T
  <2>2. s'.cmdq \in Seq(T) /\ s'.sent \in Seq(T)
    BY <1>2, <1>3, <1>5, QueueAsk
  <2> QED
    BY <1>2, <2>1, <2>2 DEF In, T
<1>6. CASE Serve
  <2>1. s' = [s EXCEPT !.sent = Tail(s.sent)] /\ s.sent # <<>>
    BY <1>6, ServeFields
  <2>2. s'.state = s.state /\ s'.cmdq = s.cmdq /\ s'.sent = Tail(s.sent)
    BY <1>1, <2>1 DEF Session
  <2>3. link' = link
    BY <1>6 DEF Serve
  <2> HIDE DEF T
  <2>4. Head(s.sent) \in T /\ Tail(s.sent) \in Seq(T)
    BY <1>2, <2>1, FirstOf
  <2>5. \A i \in DOMAIN replies' : Plain(replies'[i])
    BY <1>2, <1>6, <2>4, PlainServe DEF T
  <2>6. server' = server
    <3>1. PICK a \in Reply : /\ a.of = Head(s.sent)
                             /\ a.of \notin Auth \cup Named => server' = server
      BY <1>6, ServeFields
    <3> QED
      BY <2>4, <3>1 DEF T
  <2> QED
    BY <1>2, <2>2, <2>3, <2>4, <2>5, <2>6 DEF In, T
<1>7. CASE Lost
  BY <1>1, <1>7, ClosedFields DEF Lost, Becomes
<1>8. CASE Connected \/ Secured \/ SecureFailed \/ Greet
  BY <1>2, <1>8 DEF Connected, Secured, SecureFailed, Negotiated, Greet
<1> QED
  BY <1>4, <1>5, <1>6, <1>7, <1>8 DEF Next

\* The session is greeted, and the login starts.
LEMMA GreetedStep ==
  ASSUME TypeOK, ShapeInv, ~s.told, Greeted, Next, s'.handle, odd' = {}
  PROVE  OnTheWay'
<1>1. /\ s \in Session /\ s.handle /\ Kept(s)
      /\ link # "broken" /\ (link = "negotiating" => server = "away")
      /\ ~s.forcebusy /\ s.cmdq \in Seq({"QUOTE"}) /\ s.sent = <<>>
      /\ s.state = "CONNECTING" \/ (s.state = "AWAIT_220" /\ s.isidle)
      /\ \/ server = "away" /\ replies = <<>>
         \/ server # "away" /\ Len(replies) = 1 /\ replies[1].of = "greeting"
  BY StepSession DEF ShapeInv, Greeted
<1>2. s.cmdq \in Seq(UserCmd)
  <2>1. {"QUOTE"} \subseteq UserCmd
    BY DEF UserCmd
  <2> QED
    BY <1>1, <2>1, Widen
<1>3. CASE Connected
  <2>1. /\ s'.state = "AWAIT_220" /\ s'.isidle /\ s'.cmdq = s.cmdq /\ s'.sent = s.sent
        /\ s'.forcebusy <=> s.forcebusy
        /\ s'.told <=> s.told
    BY <1>3, ConnectedFields
  <2>2. link' = link /\ replies' = replies /\ server' = server
    BY <1>3 DEF Connected
  <2>3. Greeted'
    BY <1>1, <2>1, <2>2 DEF Greeted
  <2> QED
    BY <2>1, <2>3 DEF OnTheWay
<1>4. CASE Take
  <2> DEFINE code == Head(replies).code
  <2>1. /\ replies # <<>> /\ Head(replies) = replies[1] /\ Sound(Head(replies))
        /\ replies' \in Seq(Reply) /\ Len(replies') = Len(replies) - 1
    BY <1>4, TakeReplies
  <2>2. Len(replies) = 1 /\ replies[1].of = "greeting" /\ server # "away"
    BY <1>1, <2>1
  <2>3. code = "220" /\ replies' = <<>>
    BY <2>1, <2>2 DEF Sound
  <2>4. link' = link /\ link \in {"plain", "secure"} /\ server' = server
    BY <1>1, <1>4, <2>2, <2>3 DEF Take, TypeOK
  <2>5. s.state = "AWAIT_220" /\ s.isidle /\ s' = Process(s, code)
    BY <1>1, <1>4, TakeSession
  <2> HIDE DEF code
  <2>6. /\ "AUTH_TLS" \in Command /\ "USER" \in Command
    BY DEF Command
  <2>7. CASE site.control # "NO" /\ ~s.ssl
    <3>1. Starts(s, s', "AUTH_TLS", "TLS_PHASE_TLS")
      BY <1>1, <2>3, <2>5, <2>7, IdleTake
    <3>2. /\ Waits("AUTH_TLS")' /\ s'.state = "TLS_PHASE_TLS"
          /\ s'.cmdq = Append(s.cmdq, "AUTH_TLS")
          /\ s'.told <=> s.told
      BY <1>1, <1>2, <2>3, <2>6, <3>1, StartsOn
    <3>3. Quoted(s'.cmdq)
      <4>1. s.cmdq \in Seq(Command)
        BY <1>1 DEF Session
      <4> QED
        BY <1>1, <3>2, <4>1, QuotedKept
    <3>4. Offers'
      BY <2>2, <2>4, <3>2, <3>3 DEF Offers
    <3> QED
      BY <3>2, <3>4 DEF OnTheWay
  <2>8. CASE ~(site.control # "NO" /\ ~s.ssl)
    <3>1. Starts(s, s', "USER", "SENT_CMD")
      BY <1>1, <2>3, <2>5, <2>8, IdleTake
    <3>2. /\ Waits("USER")' /\ s'.state = "SENT_CMD"
          /\ s'.told <=> s.told
      BY <1>1, <1>2, <2>3, <2>6, <3>1, StartsOn
    <3>3. Enters("USER")'
      BY <2>2, <2>3, <2>4, <3>2 DEF Enters
    <3>4. "USER" \in Named
      BY DEF Named
    <3> QED
      BY <3>2, <3>3, <3>4 DEF OnTheWay
  <2> QED
    BY <2>7, <2>8
<1>5. ASSUME NEW cmd \in UserCmd, Ask(cmd) PROVE OnTheWay'
  <2>1. /\ link' = link /\ replies' = replies /\ server' = server
        /\ s.state # "AWAIT_220" /\ (s.state = "CONNECTING" => cmd # "CWD")
    BY <1>5 DEF Ask
  <2>2. s.state = "CONNECTING" /\ ~s.isidle /\ cmd = "QUOTE"
    BY <1>1, <1>5, <2>1 DEF ShapeInv, UserCmd
  <2>3. /\ s'.state = s.state /\ s'.cmdq = Append(s.cmdq, cmd) /\ s'.sent = s.sent
        /\ s'.forcebusy <=> s.forcebusy
        /\ s'.told <=> s.told
    BY <1>5, <2>2, AskFields
  <2>4. s'.cmdq \in Seq({"QUOTE"})
    BY <1>1, <2>2, <2>3, AtTheEnd
  <2>5. Greeted'
    BY <1>1, <2>1, <2>2, <2>3, <2>4 DEF Greeted
  <2> QED
    BY <2>3, <2>5 DEF OnTheWay
<1>6. CASE Greet
  <2>1. /\ s' = s /\ server = "away" /\ server' = "open" /\ link' = link
        /\ link \notin {"negotiating", "broken"}
    BY <1>6 DEF Greet
  <2>2. replies = <<>>
    BY <1>1, <2>1
  <2>3. PICK a \in Reply : replies' = Append(replies, a) /\ a.of = "greeting"
    BY <1>6, GreetReplies
  <2>4. replies' = <<a>>
    BY <2>2, <2>3
  <2>5. Len(replies') = 1 /\ replies'[1].of = "greeting"
    BY <2>3, <2>4
  <2>6. Greeted'
    BY <1>1, <2>1, <2>5 DEF Greeted
  <2> QED
    BY <2>1, <2>6 DEF OnTheWay
<1>7. CASE Serve
  BY <1>1, <1>7, ServeFields
<1>8. CASE Lost
  BY <1>1, <1>8, ClosedFields DEF Lost, Becomes
<1>9. CASE Secured
  <2>1. link' = "secure" /\ server' = "away" /\ replies' = replies /\ server = "away"
    BY <1>1, <1>9 DEF Secured, Negotiated
  <2>2. s' = s \/ s' = [s EXCEPT !.ssl = TRUE]
    BY <1>1, <1>9, SecuredCases
  <2>3. /\ s'.state = s.state /\ s'.cmdq = s.cmdq /\ s'.sent = s.sent
        /\ s'.forcebusy <=> s.forcebusy
        /\ s'.isidle <=> s.isidle
        /\ s'.told <=> s.told
    BY <1>1, <2>2 DEF Session
  <2>4. Greeted'
    BY <1>1, <2>1, <2>3 DEF Greeted
  <2> QED
    BY <2>3, <2>4 DEF OnTheWay
<1>10. CASE SecureFailed
  <2>1. "failed" \in odd'
    BY <1>10 DEF SecureFailed
  <2> QED
    BY <2>1
<1> QED
  BY <1>3, <1>4, <1>5, <1>6, <1>7, <1>8, <1>9, <1>10 DEF Next

\* A session that waits is still waiting, for the same command, whenever a step is not
\* that a reply is taken, nor the end of a negotiation.
LEMMA WaitsStep ==
  ASSUME TypeOK, ShapeInv, NEW c, Waits(c), server # "away", s.state # "CONNECTING",
         link # "negotiating", Next, ~Take, s'.handle
  PROVE  /\ Waits(c)' /\ s'.state = s.state /\ link' = link /\ server' # "away"
         /\ s'.told <=> s.told
         /\ \/ Serve /\ s'.cmdq = s.cmdq
            \/ \E cmd \in UserCmd : Ask(cmd) /\ s'.cmdq = Append(s.cmdq, cmd)
<1>1. s \in Session /\ s.handle
  BY StepSession
<1>2. CASE Serve
  <2>1. s' = [s EXCEPT !.sent = Tail(s.sent)] /\ server' # "away"
    BY <1>2, ServeFields
  <2>2. /\ s'.state = s.state /\ s'.cmdq = s.cmdq
        /\ s'.told <=> s.told
    BY <1>1, <2>1 DEF Session
  <2>3. link' = link
    BY <1>2 DEF Serve
  <2>4. Waits(c)'
    BY <1>2, WaitsServe
  <2> QED
    BY <1>2, <2>1, <2>2, <2>3, <2>4
<1>3. ASSUME NEW cmd \in UserCmd, Ask(cmd)
      PROVE  /\ Waits(c)' /\ s'.state = s.state /\ link' = link /\ server' # "away"
             /\ s'.told <=> s.told
             /\ s'.cmdq = Append(s.cmdq, cmd)
  <2>1. /\ s'.state = s.state /\ s'.cmdq = Append(s.cmdq, cmd)
        /\ s'.told <=> s.told
    BY <1>3, AskFields
  <2>2. link' = link /\ server' = server
    BY <1>3 DEF Ask
  <2>3. Waits(c)'
    BY <1>3, WaitsAsk
  <2> QED
    BY <2>1, <2>2, <2>3
<1>4. CASE Lost
  BY <1>1, <1>4, ClosedFields DEF Lost, Becomes
<1>5. CASE Connected \/ Secured \/ SecureFailed \/ Greet
  BY <1>5 DEF Connected, Secured, SecureFailed, Negotiated, Greet
<1> QED
  BY <1>2, <1>3, <1>4, <1>5 DEF Next

\* The session that offers to negotiate does, or enters without.
LEMMA OffersTake ==
  ASSUME TypeOK, ShapeInv, ~s.told, Offers, Take, s'.handle, odd' = {}
  PROVE  OnTheWay'
<1> DEFINE code == Head(replies).code
           q == Tail(s.cmdq)
<1>1. link \in {"plain", "secure"} /\ server # "away" /\ server' = server
  BY DEF Offers, Take
<1>2. /\ "AUTH_TLS" \in Command \ UserCmd /\ "AUTH_SSL" \in Command \ UserCmd /\ "USER" \in Command
      /\ "USER" \in Named
  BY DEF Command, UserCmd, Named
<1>3. CASE Waits("AUTH_TLS") /\ s.state = "TLS_PHASE_TLS" /\ Quoted(s.cmdq)
  <2>1. /\ s \in Session /\ s.handle /\ ~s.isidle /\ ~s.forcebusy /\ s.cmdq # <<>>
        /\ s.cmdq \in Seq(Command) /\ q \in Seq(Command)
        /\ s.sent = <<>> /\ replies' = <<>> /\ s' = CmdqReply(s, code)
        /\ Head(s.cmdq) \in UserCmd \cup {"AUTH_TLS"}
        /\ Head(s.cmdq) = "AUTH_TLS" => Theirs(q)
        /\ link' = IF code = "234" THEN "negotiating" ELSE link
    BY <1>2, <1>3, WaitsTake
  <2>2. CASE Head(s.cmdq) \in UserCmd
    <3>1. One(s.cmdq, "AUTH_TLS")
      BY <1>3 DEF Waits
    <3>2. Head(s.cmdq) = "QUOTE" /\ Quoted(q)
      BY <1>3, <2>1, <2>2, <3>1, QuotedKept DEF UserCmd
    <3>3. /\ Waits("AUTH_TLS")' /\ link' = link /\ s'.cmdq = q /\ s'.state = s.state
          /\ s'.told <=> s.told
      BY <1>2, <1>3, <2>2, <3>2, WaitsTheirs
    <3>4. Offers'
      BY <1>1, <1>3, <3>2, <3>3 DEF Offers
    <3> QED
      BY <3>3, <3>4 DEF OnTheWay
  <2>3. CASE Head(s.cmdq) = "AUTH_TLS" /\ code = "234"
    <3> HIDE DEF code
    <3>1. /\ s'.isidle /\ s'.forcebusy /\ s'.state = "TLS_WAIT" /\ s'.cmdq = q /\ s'.sent = s.sent
          /\ s'.told <=> s.told
      BY <1>3, <2>1, <2>3, ReplyAuthTls
    <3>2. Negotiates'
      BY <1>1, <2>1, <2>3, <3>1 DEF Negotiates
    <3> QED
      BY <3>1, <3>2 DEF OnTheWay
  <2>4. CASE Head(s.cmdq) = "AUTH_TLS" /\ code # "234"
    <3> DEFINE p == Append(q, "AUTH_SSL")
    <3> HIDE DEF code
    <3>1. GoesOn(s, s', p, "TLS_PHASE_TLS")
      BY <1>3, <2>1, <2>4, ReplyAuthTls
    <3>2. One(p, "AUTH_SSL")
      BY <1>2, <2>1, <2>4, OneNew DEF Theirs
    <3>3. p \in Seq(Command)
      BY <1>2, <2>1, AtTheEnd
    <3> HIDE DEF p, q
    <3>4. /\ Waits("AUTH_SSL")' /\ s'.state = "TLS_PHASE_TLS"
          /\ s'.told <=> s.told
      BY <2>1, <3>1, <3>2, <3>3, WaitsOn
    <3>5. Offers'
      BY <1>1, <2>1, <2>4, <3>4 DEF Offers
    <3> QED
      BY <3>4, <3>5 DEF OnTheWay
  <2> QED
    BY <2>1, <2>2, <2>3, <2>4
<1>4. CASE Waits("AUTH_SSL") /\ s.state \in {"TLS_PHASE_TLS", "IDLE"}
  <2>1. /\ s \in Session /\ s.handle /\ ~s.isidle /\ ~s.forcebusy /\ s.cmdq # <<>>
        /\ s.cmdq \in Seq(Command) /\ q \in Seq(Command)
        /\ s.sent = <<>> /\ replies' = <<>> /\ s' = CmdqReply(s, code)
        /\ Head(s.cmdq) \in UserCmd \cup {"AUTH_SSL"} /\ Head(replies).of = Head(s.cmdq)
        /\ Head(s.cmdq) = "AUTH_SSL" => Theirs(q)
        /\ link' = IF code = "234" THEN "negotiating" ELSE link
    BY <1>2, <1>4, WaitsTake
  <2>2. CASE Head(s.cmdq) \in UserCmd
    <3>1. /\ Waits("AUTH_SSL")' /\ link' = link /\ s'.state \in {s.state, "IDLE"}
          /\ s'.told <=> s.told
      BY <1>2, <1>4, <2>2, WaitsTheirs
    <3>2. Offers'
      BY <1>1, <1>4, <3>1 DEF Offers
    <3> QED
      BY <3>1, <3>2 DEF OnTheWay
  <2>3. CASE Head(s.cmdq) = "AUTH_SSL" /\ code = "234"
    <3>1. "ssl" \in odd'
      BY <2>1, <2>3 DEF Take
    <3> QED
      BY <3>1
  <2>4. CASE Head(s.cmdq) = "AUTH_SSL" /\ code # "234" /\ site.control = "YES"
    <3>1. Closed(s', q)
      BY <2>1, <2>4, ReplyAuthSsl
    <3> QED
      BY <3>1 DEF Closed
  <2>5. CASE Head(s.cmdq) = "AUTH_SSL" /\ code # "234" /\ site.control # "YES"
    <3> DEFINE p == Append(q, "USER")
    <3> HIDE DEF code
    <3>1. GoesOn(s, s', p, "SENT_CMD")
      BY <2>1, <2>5, ReplyAuthSsl
    <3>2. One(p, "USER")
      BY <1>2, <2>1, <2>5, OneNew DEF Theirs
    <3>3. p \in Seq(Command)
      BY <1>2, <2>1, AtTheEnd
    <3> HIDE DEF p, q
    <3>4. /\ Waits("USER")' /\ s'.state = "SENT_CMD"
          /\ s'.told <=> s.told
      BY <2>1, <3>1, <3>2, <3>3, WaitsOn
    <3>5. Enters("USER")'
      BY <1>1, <2>1, <2>5, <3>4 DEF Enters
    <3> QED
      BY <1>2, <3>4, <3>5 DEF OnTheWay
  <2> QED
    BY <2>1, <2>2, <2>3, <2>4, <2>5
<1> QED
  BY <1>3, <1>4 DEF Offers

\* It waits until the reply comes.
LEMMA OffersStep ==
  ASSUME TypeOK, ShapeInv, ~s.told, Offers, Next, s'.handle, odd' = {}
  PROVE  OnTheWay'
<1>1. link \in {"plain", "secure"} /\ server # "away" /\ s.state # "CONNECTING"
  BY DEF Offers
<1>2. CASE Take
  BY <1>2, OffersTake
<1>3. CASE ~Take
  <2>1. CASE Waits("AUTH_TLS") /\ s.state = "TLS_PHASE_TLS" /\ Quoted(s.cmdq)
    <3>1. /\ Waits("AUTH_TLS")' /\ s'.state = s.state /\ link' = link /\ server' # "away"
          /\ s'.told <=> s.told
          /\ \/ s'.cmdq = s.cmdq
             \/ \E cmd \in UserCmd : s'.cmdq = Append(s.cmdq, cmd)
      BY <1>1, <1>3, <2>1, WaitsStep
    <3>2. s.cmdq \in Seq(Command) /\ One(s.cmdq, "AUTH_TLS")
      BY <2>1 DEF TypeOK, Session, Waits
    <3>3. Quoted(s'.cmdq)
      BY <2>1, <3>1, <3>2, QuotedKept
    <3>4. Offers'
      BY <1>1, <2>1, <3>1, <3>3 DEF Offers
    <3> QED
      BY <3>1, <3>4 DEF OnTheWay
  <2>2. CASE Waits("AUTH_SSL") /\ s.state \in {"TLS_PHASE_TLS", "IDLE"}
    <3>1. /\ Waits("AUTH_SSL")' /\ s'.state = s.state /\ link' = link /\ server' # "away"
          /\ s'.told <=> s.told
      BY <1>1, <1>3, <2>2, WaitsStep
    <3>2. Offers'
      BY <1>1, <2>2, <3>1 DEF Offers
    <3> QED
      BY <3>1, <3>2 DEF OnTheWay
  <2> QED
    BY <2>1, <2>2 DEF Offers
<1> QED
  BY <1>2, <1>3

\* When the connection is secure the session enters.
LEMMA NegotiatesStep ==
  ASSUME TypeOK, ShapeInv, ~s.told, Negotiates, Next, s'.handle, odd' = {}
  PROVE  OnTheWay'
<1>1. /\ s \in Session /\ s.handle
      /\ s.state = "TLS_WAIT" /\ s.forcebusy /\ s.isidle /\ link = "negotiating"
      /\ s.sent = <<>> /\ replies = <<>> /\ s.cmdq \in Seq(UserCmd) /\ server # "away"
  BY StepSession DEF Negotiates, Theirs
<1>2. ASSUME NEW cmd \in UserCmd, Ask(cmd) PROVE OnTheWay'
  <2>1. /\ s'.state = s.state /\ s'.cmdq = Append(s.cmdq, cmd) /\ s'.sent = s.sent
        /\ s'.forcebusy /\ s'.isidle
        /\ s'.told <=> s.told
    BY <1>1, <1>2, AskFields
  <2>2. link' = link /\ replies' = replies /\ server' = server
    BY <1>2 DEF Ask
  <2>3. Theirs(s'.cmdq)
    BY <1>1, <2>1, AtTheEnd DEF Theirs
  <2>4. Negotiates'
    BY <1>1, <2>1, <2>2, <2>3 DEF Negotiates
  <2> QED
    BY <2>1, <2>4 DEF OnTheWay
<1>3. CASE Secured
  <2> DEFINE q == Append(s.cmdq, "USER")
  <2>1. /\ ~s'.isidle /\ ~s'.forcebusy /\ s'.state = "SENT_CMD" /\ s'.cmdq = q
        /\ s'.told <=> s.told
        /\ s'.sent = Append(s.sent, Head(q))
    BY <1>1, <1>3, SecuredCases
  <2>2. link' = "secure" /\ server' # "away" /\ replies' = replies
    BY <1>1, <1>3 DEF Secured, Negotiated
  <2>3. "USER" \in Command /\ "USER" \in Named
    BY DEF Command, Named
  <2>4. One(q, "USER")
    BY <1>1, <2>3, OneNew
  <2> HIDE DEF q
  <2>5. s'.sent = <<Head(s'.cmdq)>>
    <3> DEFINE h == Head(q)
    <3>1. s.sent = <<>> /\ s'.sent = Append(s.sent, h)
      BY <1>1, <2>1
    <3> HIDE DEF h
    <3>2. s'.sent = <<h>>
      BY <3>1
    <3> QED
      BY <2>1, <3>2 DEF h
  <2>6. Waits("USER")'
    BY <1>1, <2>1, <2>2, <2>4, <2>5 DEF Waits, Flying
  <2>7. Enters("USER")'
    BY <1>1, <2>1, <2>2, <2>6 DEF Enters
  <2> QED
    BY <2>1, <2>3, <2>7 DEF OnTheWay
<1>4. CASE Take \/ SecureFailed \/ Connected \/ Greet
  BY <1>1, <1>4 DEF Take, SecureFailed, Negotiated, Connected, Greet
<1>5. CASE Serve
  BY <1>1, <1>5, ServeFields
<1>6. CASE Lost
  BY <1>1, <1>6, ClosedFields DEF Lost, Becomes
<1> QED
  BY <1>2, <1>3, <1>4, <1>5, <1>6 DEF Next

\* The name is followed by the password, and the password, if it is right, by what is
\* asked for after the login.
LEMMA EntersTake ==
  ASSUME TypeOK, ShapeInv, ~s.told, NEW c \in Named, Enters(c), Take, s'.handle
  PROVE  In' \/ OnTheWay'
<1> DEFINE code == Head(replies).code
           q == Tail(s.cmdq)
<1>1. /\ Waits(c) /\ link \notin {"negotiating", "broken"}
      /\ s.state \notin {"CONNECTING", "AWAIT_220"} /\ server # "away"
      /\ replies # <<>> /\ replies[1].code = "230" => server = "in"
      /\ server' = server
  BY DEF Enters, Take
<1>2. c \in Command \ UserCmd /\ "PASS" \in Command /\ "PASS" \in Named
  BY DEF Named, Command, UserCmd
<1>3. /\ s \in Session /\ s.handle /\ ~s.isidle /\ ~s.forcebusy /\ s.cmdq # <<>>
      /\ s.cmdq \in Seq(Command) /\ q \in Seq(Command)
      /\ s.sent = <<>> /\ replies' = <<>> /\ s' = CmdqReply(s, code)
      /\ Head(s.cmdq) \in UserCmd \cup {c}
      /\ Head(s.cmdq) = c => Theirs(q)
  BY <1>1, <1>2, WaitsTake
<1>4. link' = link
  <2>1. Head(s.cmdq) \notin Auth
    BY <1>3 DEF Auth, Named, UserCmd
  <2> QED
    BY <1>1, <1>2, <2>1, WaitsTake
<1>5. CASE Head(s.cmdq) \in UserCmd
  <2>1. /\ Waits(c)' /\ s'.state \in {s.state, "IDLE"}
        /\ s'.told <=> s.told
    BY <1>1, <1>2, <1>5, WaitsTheirs
  <2>2. Enters(c)'
    BY <1>1, <1>3, <1>4, <2>1 DEF Enters
  <2> QED
    BY <2>1, <2>2 DEF OnTheWay
<1>6. CASE Head(s.cmdq) = "USER" /\ c = "USER"
  <2>1. code = "331"
    <3>1. code # "331" => Closed(s', q)
      BY <1>3, <1>6, ReplyUser
    <3> QED
      BY <3>1 DEF Closed
  <2> DEFINE p == Append(q, "PASS")
  <2> HIDE DEF code
  <2>2. GoesOn(s, s', p, "LOGIN_SENT_USER")
    BY <1>3, <1>6, <2>1, ReplyUser
  <2>3. One(p, "PASS")
    BY <1>2, <1>3, <1>6, OneNew DEF Theirs
  <2>4. p \in Seq(Command)
    BY <1>2, <1>3, AtTheEnd
  <2> HIDE DEF p, q
  <2>5. /\ Waits("PASS")' /\ s'.state = "LOGIN_SENT_USER"
        /\ s'.told <=> s.told
    BY <1>3, <2>2, <2>3, <2>4, WaitsOn
  <2>6. Enters("PASS")'
    BY <1>1, <1>3, <1>4, <2>5 DEF Enters
  <2> QED
    BY <1>2, <2>5, <2>6 DEF OnTheWay
<1>7. CASE Head(s.cmdq) = "PASS" /\ c = "PASS"
  <2> DEFINE T == Command \ (Auth \cup Named)
  <2>1. code = "230"
    <3>1. code # "230" => Closed(s', q)
      BY <1>3, <1>7, ReplyPass
    <3> QED
      BY <3>1 DEF Closed
  <2>2. server = "in"
    <3>1. Head(replies) = replies[1] /\ replies # <<>>
      BY TakeReplies
    <3> QED
      BY <1>1, <2>1, <3>1
  <2> HIDE DEF code
  <2>3. PICK p : /\ GoesOn(s, s', p, "IDLE")
                 /\ \A S \in SUBSET Command : Later \subseteq S /\ q \in Seq(S) => p \in Seq(S)
    BY <1>3, <1>7, <2>1, ReplyPass
  <2>4. T \in SUBSET Command /\ Later \subseteq T /\ UserCmd \subseteq T
    BY DEF T, Later, Command, Auth, Named, UserCmd
  <2> HIDE DEF T, q
  <2>5. q \in Seq(T) /\ s.sent \in Seq(T)
    <3>1. q \in Seq(UserCmd)
      BY <1>3, <1>7 DEF Theirs
    <3>2. q \in Seq(T)
      BY <2>4, <3>1, Widen
    <3> QED
      BY <1>3, <3>2
  <2>6. p \in Seq(T)
    BY <2>3, <2>4, <2>5
  <2>7. s'.cmdq \in Seq(T) /\ s'.sent \in Seq(T) /\ s'.state = "IDLE"
    BY <2>3, <2>5, <2>6, QueueOn
  <2>8. In'
    BY <1>1, <1>3, <1>4, <2>2, <2>7 DEF In, T
  <2> QED
    BY <2>8
<1>8. \/ Head(s.cmdq) \in UserCmd
      \/ Head(s.cmdq) = "USER" /\ c = "USER"
      \/ Head(s.cmdq) = "PASS" /\ c = "PASS"
  BY <1>3 DEF Named
<1> QED
  BY <1>5, <1>6, <1>7, <1>8

\* It waits until the server has let it in.
LEMMA EntersStep ==
  ASSUME TypeOK, ShapeInv, ~s.told, NEW c \in Named, Enters(c), Next, s'.handle
  PROVE  In' \/ OnTheWay'
<1>1. /\ Waits(c) /\ link \notin {"negotiating", "broken"}
      /\ s.state \notin {"CONNECTING", "AWAIT_220"} /\ server # "away"
      /\ replies # <<>> /\ replies[1].code = "230" => server = "in"
  BY DEF Enters
<1>2. CASE Take
  BY <1>2, EntersTake
<1>3. CASE ~Take
  <2>1. /\ Waits(c)' /\ s'.state = s.state /\ link' = link /\ server' # "away"
        /\ s'.told <=> s.told
        /\ Serve \/ \E cmd \in UserCmd : Ask(cmd)
    BY <1>1, <1>3, WaitsStep
  <2>2. replies' # <<>> /\ replies'[1].code = "230" => server' = "in"
    <3>1. CASE Serve
      <4>1. s.sent # <<>>
        BY <3>1, ServeFields
      <4>2. replies = <<>>
        BY <1>1, <4>1 DEF Waits, Flying
      <4>3. PICK a \in Reply : replies' = Append(replies, a) /\ (a.code = "230" => server' = "in")
        BY <3>1, ServeFields
      <4>4. replies' = <<a>>
        BY <4>2, <4>3
      <4> QED
        BY <4>3, <4>4
    <3>2. CASE \E cmd \in UserCmd : Ask(cmd)
      BY <1>1, <3>2 DEF Ask
    <3> QED
      BY <2>1, <3>1, <3>2
  <2>3. Enters(c)'
    BY <1>1, <2>1, <2>2 DEF Enters
  <2> QED
    BY <2>1, <2>3 DEF OnTheWay
<1> QED
  BY <1>2, <1>3

\* Every step of the login is one from a phase to the same or the next.
LEMMA ToldStep ==
  ASSUME TypeOK, ShapeInv, ToldInv, Next
  PROVE  ToldInv'
<1>1. s \in Session /\ s.handle /\ s' \in Session /\ (s'.handle /\ s.told => s'.told)
  BY StepSession
<1>2. heard = "CONNECT" <=> s.told
  BY <1>1 DEF ToldInv
<1>3. \/ Tell(s')
      \/ /\ heard' = heard /\ s'.handle
         /\ s'.told <=> s.told
  <2>1. CASE Serve
    <3>1. heard' = heard
      BY <2>1 DEF Serve
    <3>2. s' = [s EXCEPT !.sent = Tail(s.sent)]
      BY <2>1, ServeFields
    <3> QED
      BY <1>1, <3>1, <3>2 DEF Session
  <2>2. CASE Greet
    <3>1. s' = s /\ heard' = heard
      BY <2>2 DEF Greet
    <3> QED
      BY <1>1, <3>1
  <2>3. CASE ~Serve /\ ~Greet
    BY <2>3 DEF Next, Connected, Take, Secured, SecureFailed, Negotiated, Lost, Ask, Becomes
  <2> QED
    BY <2>1, <2>2, <2>3
<1>4. /\ ~s'.handle => heard' = "DISCONNECT"
      /\ s'.handle => (heard' = "CONNECT" <=> s'.told)
  BY <1>1, <1>2, <1>3 DEF Tell
<1>5. ASSUME odd' = {}, s'.handle PROVE In' \/ OnTheWay'
  <2>1. odd \subseteq odd'
    BY DEF Next, Connected, Take, Secured, SecureFailed, Negotiated, Lost, Greet, Serve, Ask
  <2>2. In \/ OnTheWay
    BY <1>1, <1>5, <2>1 DEF ToldInv
  <2>3. CASE In
    BY <1>5, <2>3, InStep
  <2>4. CASE ~s.told /\ Greeted
    BY <1>5, <2>4, GreetedStep
  <2>5. CASE ~s.told /\ Offers
    BY <1>5, <2>5, OffersStep
  <2>6. CASE ~s.told /\ Negotiates
    BY <1>5, <2>6, NegotiatesStep
  <2>7. ASSUME NEW c \in Named, ~s.told, Enters(c) PROVE In' \/ OnTheWay'
    BY <1>5, <2>7, EntersStep
  <2> QED
    BY <2>2, <2>3, <2>4, <2>5, <2>6, <2>7 DEF OnTheWay
<1> QED
  BY <1>4, <1>5 DEF ToldInv

-----------------------------------------------------------------------------
(* The theorems. *)

\* The invariant holds of a session that has been made.
LEMMA InitInv ==
  ASSUME Init
  PROVE  IInv
<1>1. /\ site \in Site /\ s.handle /\ s.state = "CONNECTING" /\ ~s.isidle /\ ~s.forcebusy
      /\ s.cmdq = <<>> /\ s.sent = <<>> /\ ~s.told
      /\ s.ssl <=> site.local
      /\ server = "away" /\ link \in {"plain", "negotiating"} /\ replies = <<>>
      /\ heard = "nothing"
      /\ asks = 0 /\ odd = {}
  BY DEF Init
<1>2. /\ <<>> \in Seq(Command) /\ <<>> \in Seq(UserCmd) /\ <<>> \in Seq({"QUOTE"})
      /\ <<>> \in Seq(Reply)
  OBVIOUS
<1>3. s \in Session
  <2>1. "CONNECTING" \in State /\ site.local \in BOOLEAN
    BY <1>1 DEF State, Site
  <2> QED
    BY <1>2, <2>1 DEF Init, Session
<1>4. TypeOK
  <2>1. asks \in 0 .. MaxAsks
    BY <1>1, LoginAssumption
  <2> QED
    BY <1>1, <1>2, <1>3, <2>1 DEF TypeOK, Reply
<1>5. ShapeInv
  BY <1>1 DEF ShapeInv, Kept
<1>6. PrivateInv
  <2>1. Ungreeted
    BY <1>1, <1>2 DEF Ungreeted, Theirs
  <2> QED
    BY <1>1, <2>1 DEF PrivateInv, Private, Unsecured
<1>7. ToldInv
  <2>1. Greeted
    BY <1>1, <1>2 DEF Greeted
  <2> QED
    BY <1>1, <2>1 DEF ToldInv, OnTheWay
<1> QED
  BY <1>4, <1>5, <1>6, <1>7 DEF IInv

\* The invariant holds of every behaviour.
THEOREM Invariance == Spec => []IInv
<1>1. Init => IInv
  BY InitInv
<1>2. IInv /\ [Next]_vars => IInv'
  <2> SUFFICES ASSUME IInv, [Next]_vars
               PROVE  IInv'
    OBVIOUS
  <2>1. CASE Next
    BY <2>1, TypeStep, ShapeStep, PrivateStep, ToldStep DEF IInv
  <2>2. CASE UNCHANGED vars
    BY <2>2 DEF vars, IInv, TypeOK, ShapeInv, Sound, Kept, PrivateInv, Private,
       Secure, Unsecured, Protected,
       Ungreeted, Authenticates, Past, Plain, Theirs, One, Waits, Flying, ToldInv, OnTheWay,
       Greeted, Offers, Negotiates, Enters, In, Quoted
  <2> QED
    BY <2>1, <2>2
<1> QED
  BY <1>1, <1>2, PTL DEF Spec

\* Where control_TLS is YES, neither USER nor PASS is queued or on its way while the
\* connection is not secure, so the password leaves over no other (session_state_process).
THEOREM PasswordAlwaysPrivate == Spec => []PasswordPrivate
<1>1. IInv => PasswordPrivate
  <2> SUFFICES ASSUME IInv, site.control = "YES", ~site.local, link # "secure",
                      NEW cmd \in Named, SentOrQueued(cmd)
               PROVE  FALSE
    BY DEF PasswordPrivate, Named
  <2> DEFINE T == UserCmd \cup Auth
  <2>1. s \in Session /\ Unsecured
    BY DEF IInv, TypeOK, PrivateInv, Private
  <2>2. s.cmdq \in Seq(T) /\ s.sent \in Seq(T)
    <3>1. CASE s.handle
      BY <2>1, <3>1, PhaseQueues DEF Unsecured
    <3>2. CASE ~s.handle
      <4>1. s.cmdq \in Seq(T) /\ s.sent = <<>>
        BY <2>1, <3>2 DEF Unsecured
      <4>2. <<>> \in Seq(T)
        OBVIOUS
      <4> QED
        BY <4>1, <4>2
    <3> QED
      BY <3>1, <3>2
  <2>3. cmd \notin T
    BY DEF Named, UserCmd, Auth
  <2> HIDE DEF T
  <2> QED
    BY <2>2, <2>3 DEF SentOrQueued
<1> QED
  BY <1>1, Invariance, PTL

\* Unless something came that the login is not prepared for, the owner that was last
\* told CONNECT has a session that the server has let in (SESSION_ST_MISC).
THEOREM AlwaysToldWhenIn == Spec => []ToldWhenIn
<1>1. IInv => ToldWhenIn
  <2> SUFFICES ASSUME IInv, odd = {}, heard = "CONNECT"
               PROVE  server = "in"
    BY DEF ToldWhenIn, IInv
  <2>1. s.handle
    BY DEF IInv, ToldInv
  <2>2. s.told /\ (In \/ OnTheWay)
    BY <2>1 DEF IInv, ToldInv
  <2> QED
    BY <2>2 DEF In, OnTheWay
<1> QED
  BY <1>1, Invariance, PTL

=============================================================================
