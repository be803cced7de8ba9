---------------------------- MODULE CommandsProofs ----------------------------
(***************************************************************************)
(* A user that does not wait for its answers: whatever it gives, in        *)
(* whatever order the replies and the data of listings come, a command is  *)
(* answered once (AnsweredOnce) and is sent for the file that the user was *)
(* shown (RightFile).  Both hold for every number of commands.             *)
(*                                                                         *)
(* The answers that are owed are the commands that wait, counted by their  *)
(* kind (Owed); a listing is owed by its LIST and then by its connection,  *)
(* and a rename by RNFR, and by RNTO once an RNFR has been right.  What    *)
(* makes the count exact is that RNFR and RNTO, and PASV and LIST, stay    *)
(* side by side in the queue (Paired).                                     *)
(***************************************************************************)
EXTENDS Commands, SequenceTheorems, FiniteSetTheorems, TLAPS

\* Commands that are answered by the reply to the one command that is sent.
Plain == {"QUOTE", "CWD", "PWD", "SIZE", "DELE", "MKD", "RMD", "SITE", "MDTM"}

\* How many commands of a queue have this name.
Queued(q, op) == Cardinality({i \in 1 .. Len(q) : q[i].op = op})

\* A first command is followed at once by its second, and nothing else is.
Pairs(q, first, second) ==
  /\ \A i \in 1 .. Len(q) : q[i].op = first => i < Len(q) /\ q[i + 1].op = second
  /\ \A i \in 2 .. Len(q) : q[i].op = second => q[i - 1].op = first

Paired == Pairs(s.cmdq, "RNFR", "RNTO") /\ Pairs(s.cmdq, "PASV", "LIST")

\* A session that waits for a reply has sent a command.
Sent == ~s.isidle => s.cmdq # <<>>

\* Nobody waits for a session that is gone.
Gone == ~up => \A k \in Kind : owes[k] = 0

\* RNTO is answered if an RNFR has been right.
Renames == IF s.cmdq # <<>> /\ s.cmdq[1].op = "RNTO" /\ rnfr THEN 1 ELSE 0
Reading == IF conns # <<>> /\ conns[1].reads THEN 1 ELSE 0

Owed ==
  /\ \A k \in Plain : owes[k] = Queued(s.cmdq, k)
  /\ owes["REN"] = Queued(s.cmdq, "RNFR") + Renames
  /\ owes["DIRLIST"] = Queued(s.cmdq, "LIST") + Reading

\* One listing at a time, whose LIST finds the connection of its PASV, and every
\* list is the user's.
OneListing ==
  /\ Len(conns) \in {0, 1}
  /\ s.cmdq # <<>> /\ s.cmdq[1].op = "LIST" => s.data /\ conns # <<>> /\ ~conns[1].reads
  /\ s.reply # "queue"
  /\ s.reply = "none" =>
       /\ s.files = <<>> /\ conns = <<>>
       /\ \A i \in 1 .. Len(s.cmdq) : s.cmdq[i].op \notin {"PASV", "LIST"}

Clean == odd \cap {"renamed", "overlap", "lent"} = {}

AnswerInv ==
  /\ TypeOK /\ Sent /\ Gone /\ Paired
  /\ Clean => OneListing
  /\ Clean /\ up => Owed

-----------------------------------------------------------------------------
(* The count of a queue. *)

LEMMA QueuedType ==
  ASSUME NEW q \in Seq(Command), NEW op
  PROVE  /\ IsFiniteSet({i \in 1 .. Len(q) : q[i].op = op})
         /\ Queued(q, op) \in Nat
<1> DEFINE S == {i \in 1 .. Len(q) : q[i].op = op}
<1>1. IsFiniteSet(1 .. Len(q))
  BY FS_Interval, LenProperties
<1>2. S \in SUBSET (1 .. Len(q))
  OBVIOUS
<1>3. IsFiniteSet(S)
  <2> HIDE DEF S
  <2> QED
    BY <1>1, <1>2, FS_Subset
<1>4. Cardinality(S) \in Nat
  BY <1>3, FS_CardinalityType
<1> QED
  BY <1>3, <1>4 DEF Queued

LEMMA QueuedEmpty ==
  ASSUME NEW op
  PROVE  Queued(<<>>, op) = 0
<1>1. {i \in 1 .. Len(<<>>) : <<>>[i].op = op} = {}
  OBVIOUS
<1> QED
  BY <1>1, FS_EmptySet DEF Queued

\* A command at the end adds one of its name.
LEMMA QueuedAppend ==
  ASSUME NEW q \in Seq(Command), NEW c \in Command, NEW op
  PROVE  Queued(Append(q, c), op) = Queued(q, op) + (IF c.op = op THEN 1 ELSE 0)
<1> DEFINE S == {i \in 1 .. Len(q) : q[i].op = op}
           T == {i \in 1 .. Len(Append(q, c)) : Append(q, c)[i].op = op}
<1>1. Len(q) \in Nat /\ Len(Append(q, c)) = Len(q) + 1 /\ Append(q, c)[Len(q) + 1] = c
  BY LenProperties
<1>2. \A i \in 1 .. Len(q) : Append(q, c)[i] = q[i]
  OBVIOUS
<1>3. /\ IsFiniteSet(S) /\ Cardinality(S) \in Nat /\ Cardinality(S) = Queued(q, op)
      /\ Cardinality(T) = Queued(Append(q, c), op)
  BY QueuedType DEF Queued
<1>4. CASE c.op = op
  <2>1. T = S \cup {Len(q) + 1}
    BY <1>1, <1>2, <1>4
  <2>2. Len(q) + 1 \notin S
    BY <1>1
  <2>3. Cardinality(S \cup {Len(q) + 1}) = Cardinality(S) + 1
    <3> HIDE DEF S
    <3> QED
      BY <2>2, <1>3, FS_AddElement
  <2> HIDE DEF S, T
  <2> QED
    BY <2>1, <2>3, <1>3, <1>4
<1>5. CASE c.op # op
  <2>1. T = S
    BY <1>1, <1>2, <1>5
  <2> HIDE DEF S, T
  <2> QED
    BY <2>1, <1>3, <1>5
<1> QED
  BY <1>4, <1>5

\* The oldest command takes one of its name away.
LEMMA QueuedTail ==
  ASSUME NEW q \in Seq(Command), NEW op, q # <<>>
  PROVE  Queued(Tail(q), op) = Queued(q, op) - (IF Head(q).op = op THEN 1 ELSE 0)
<1> DEFINE S == {i \in 1 .. Len(q) : q[i].op = op}
           T == {i \in 1 .. Len(Tail(q)) : Tail(q)[i].op = op}
           shift == [i \in T |-> i + 1]
<1>1. /\ Len(q) \in Nat \ {0} /\ Tail(q) \in Seq(Command) /\ Len(Tail(q)) = Len(q) - 1
      /\ \A i \in 1 .. Len(Tail(q)) : Tail(q)[i] = q[i + 1]
      /\ Head(q) = q[1]
  BY HeadTailProperties, EmptySeq
<1>2. /\ IsFiniteSet(S) /\ Cardinality(S) \in Nat /\ Cardinality(S) = Queued(q, op)
      /\ IsFiniteSet(T) /\ Cardinality(T) = Queued(Tail(q), op)
  BY <1>1, QueuedType DEF Queued
<1>3. \A i \in T : i + 1 \in S \ {1}
  BY <1>1
<1>4. \A j \in S \ {1} : j - 1 \in T
  BY <1>1
<1>5. shift \in Bijection(T, S \ {1})
  <2>1. shift \in [T -> S \ {1}]
    BY <1>3
  <2>2. \A a, b \in T : shift[a] = shift[b] => a = b
    OBVIOUS
  <2>3. \A j \in S \ {1} : \E i \in T : shift[i] = j
    <3> TAKE j \in S \ {1}
    <3>1. j - 1 \in T /\ shift[j - 1] = j
      BY <1>4
    <3> QED
      BY <3>1
  <2> QED
    BY <2>1, <2>2, <2>3 DEF Bijection, Injection, Surjection, IsInjective
<1>6. Cardinality(S \ {1}) = Cardinality(T)
  <2> HIDE DEF S, T
  <2>1. ExistsBijection(T, S \ {1})
    BY <1>5 DEF ExistsBijection
  <2> QED
    BY <2>1, <1>2, FS_Bijection
<1>7. Cardinality(S \ {1}) = IF 1 \in S THEN Cardinality(S) - 1 ELSE Cardinality(S)
  <2> HIDE DEF S
  <2> QED
    BY <1>2, FS_RemoveElement
<1>8. 1 \in S <=> Head(q).op = op
  BY <1>1
<1> HIDE DEF S, T
<1> QED
  BY <1>2, <1>6, <1>7, <1>8

-----------------------------------------------------------------------------
(* Commands that come in pairs. *)

LEMMA PairsEmpty == \A a, b : Pairs(<<>>, a, b)
BY DEF Pairs

\* What is next after the first of a pair is the second, and after anything else
\* is no second.
LEMMA PairsTail ==
  ASSUME NEW q \in Seq(Command), NEW a, NEW b, q # <<>>, Pairs(q, a, b), a # b
  PROVE  /\ Pairs(Tail(q), a, b)
         /\ Head(q).op = a => Tail(q) # <<>> /\ Tail(q)[1].op = b
         /\ Head(q).op # a /\ Tail(q) # <<>> => Tail(q)[1].op # b
<1>1. /\ Len(q) \in Nat \ {0} /\ Tail(q) \in Seq(Command) /\ Len(Tail(q)) = Len(q) - 1
      /\ \A i \in 1 .. Len(Tail(q)) : Tail(q)[i] = q[i + 1]
      /\ Head(q) = q[1]
  BY HeadTailProperties, EmptySeq
<1>2. Tail(q) # <<>> <=> Len(q) > 1
  <2> DEFINE t == Tail(q)
             n == Len(q)
  <2>1. n \in Nat /\ t \in Seq(Command) /\ Len(t) = n - 1
    BY <1>1
  <2> HIDE DEF t, n
  <2>2. ASSUME t # <<>> PROVE n > 1
    <3>1. Len(t) \in Nat \ {0}
      BY <2>1, <2>2, EmptySeq
    <3> QED
      BY <2>1, <3>1
  <2>3. ASSUME t = <<>> PROVE ~ (n > 1)
    <3>1. Len(t) = 0
      BY <2>3, EmptySeq
    <3> QED
      BY <2>1, <3>1
  <2> QED
    BY <2>2, <2>3 DEF t, n
<1>3. \A i \in 1 .. Len(Tail(q)) : Tail(q)[i].op = a => i < Len(Tail(q)) /\ Tail(q)[i + 1].op = b
  <2> SUFFICES ASSUME NEW i \in 1 .. Len(Tail(q)), Tail(q)[i].op = a
               PROVE  i < Len(Tail(q)) /\ Tail(q)[i + 1].op = b
    OBVIOUS
  <2>1. i + 1 \in 1 .. Len(q) /\ q[i + 1].op = a
    BY <1>1
  <2>2. i + 1 < Len(q) /\ q[i + 1 + 1].op = b
    BY <2>1 DEF Pairs
  <2>3. i < Len(Tail(q)) /\ i + 1 \in 1 .. Len(Tail(q))
    BY <1>1, <2>2
  <2> QED
    BY <1>1, <2>2, <2>3
<1>4. \A i \in 2 .. Len(Tail(q)) : Tail(q)[i].op = b => Tail(q)[i - 1].op = a
  <2> SUFFICES ASSUME NEW i \in 2 .. Len(Tail(q)), Tail(q)[i].op = b
               PROVE  Tail(q)[i - 1].op = a
    OBVIOUS
  <2>1. i + 1 \in 2 .. Len(q) /\ q[i + 1].op = b /\ i - 1 \in 1 .. Len(Tail(q))
    BY <1>1
  <2>2. q[i + 1 - 1].op = a /\ Tail(q)[i - 1] = q[i - 1 + 1]
    BY <1>1, <2>1 DEF Pairs
  <2> QED
    BY <2>2
<1>5. Pairs(Tail(q), a, b)
  BY <1>3, <1>4 DEF Pairs
<1>6. ASSUME Head(q).op = a PROVE Tail(q) # <<>> /\ Tail(q)[1].op = b
  <2>1. 1 < Len(q) /\ q[1 + 1].op = b
    BY <1>1, <1>6 DEF Pairs
  <2> QED
    BY <1>1, <1>2, <2>1
<1>7. ASSUME Head(q).op # a, Tail(q) # <<>> PROVE Tail(q)[1].op # b
  <2>1. 2 \in 2 .. Len(q) /\ Tail(q)[1] = q[2]
    BY <1>1, <1>2, <1>7
  <2>2. q[2].op = b => q[1].op = a
    BY <2>1 DEF Pairs
  <2> QED
    BY <1>1, <1>7, <2>1, <2>2
<1> QED
  BY <1>5, <1>6, <1>7

\* A command that is of no pair comes after all of them.
LEMMA PairsAppend ==
  ASSUME NEW q \in Seq(Command), NEW c \in Command, NEW a, NEW b,
         Pairs(q, a, b), c.op # a, c.op # b
  PROVE  Pairs(Append(q, c), a, b)
<1>1. /\ Len(q) \in Nat /\ Len(Append(q, c)) = Len(q) + 1 /\ Append(q, c)[Len(q) + 1] = c
      /\ \A i \in 1 .. Len(q) : Append(q, c)[i] = q[i]
  BY LenProperties
<1>2. ASSUME NEW i \in 1 .. Len(q) + 1, Append(q, c)[i].op = a
      PROVE  i < Len(q) + 1 /\ Append(q, c)[i + 1].op = b
  <2>1. i \in 1 .. Len(q) /\ q[i].op = a
    BY <1>1, <1>2
  <2>2. i < Len(q) /\ q[i + 1].op = b /\ i + 1 \in 1 .. Len(q)
    BY <1>1, <2>1 DEF Pairs
  <2> QED
    BY <1>1, <2>2
<1>3. ASSUME NEW i \in 2 .. Len(q) + 1, Append(q, c)[i].op = b
      PROVE  Append(q, c)[i - 1].op = a
  <2>1. i \in 2 .. Len(q) /\ q[i].op = b
    BY <1>1, <1>3
  <2>2. q[i - 1].op = a /\ i - 1 \in 1 .. Len(q)
    BY <1>1, <2>1 DEF Pairs
  <2> QED
    BY <1>1, <2>2
<1> QED
  BY <1>1, <1>2, <1>3 DEF Pairs

\* So does a pair.
LEMMA PairsAppendTwo ==
  ASSUME NEW q \in Seq(Command), NEW c \in Command, NEW d \in Command, NEW a, NEW b,
         Pairs(q, a, b), c.op = a, d.op = b, a # b
  PROVE  Pairs(Append(Append(q, c), d), a, b)
<1> DEFINE t == Append(Append(q, c), d)
<1>1. /\ Len(q) \in Nat /\ Len(t) = Len(q) + 2 /\ t[Len(q) + 1] = c /\ t[Len(q) + 2] = d
      /\ \A i \in 1 .. Len(q) : t[i] = q[i]
  BY LenProperties
<1> HIDE DEF t
<1>2. ASSUME NEW i \in 1 .. Len(t), t[i].op = a
      PROVE  i < Len(t) /\ t[i + 1].op = b
  <2>1. CASE i \in 1 .. Len(q)
    <3>1. i < Len(q) /\ q[i + 1].op = b /\ i + 1 \in 1 .. Len(q)
      BY <1>1, <1>2, <2>1 DEF Pairs
    <3> QED
      BY <1>1, <3>1
  <2>2. CASE i = Len(q) + 1
    BY <1>1, <2>2
  <2>3. CASE i = Len(q) + 2
    BY <1>1, <1>2, <2>3
  <2> QED
    BY <1>1, <2>1, <2>2, <2>3
<1>3. ASSUME NEW i \in 2 .. Len(t), t[i].op = b
      PROVE  t[i - 1].op = a
  <2>1. CASE i \in 1 .. Len(q)
    <3>1. q[i - 1].op = a /\ i - 1 \in 1 .. Len(q)
      BY <1>1, <1>3, <2>1 DEF Pairs
    <3> QED
      BY <1>1, <3>1
  <2>2. CASE i = Len(q) + 1
    BY <1>1, <1>3, <2>2
  <2>3. CASE i = Len(q) + 2
    BY <1>1, <2>3
  <2> QED
    BY <1>1, <2>1, <2>2, <2>3
<1> QED
  BY <1>2, <1>3 DEF Pairs, t

-----------------------------------------------------------------------------
(* What the operators of the session make of one. *)

\* Paths, commands and entries are what they seem.
LEMMA PathType ==
  /\ Top \in Path /\ Sub \in Path /\ Own \in Path /\ Here \in Path /\ None \notin Path
  /\ \A p \in Path : Decode(p) \in Path
  /\ \A p \in Path, n \in Name : Append(p, n) \in Path
<1>1. Top \in Path /\ Sub \in Path /\ Own \in Path /\ Here \in Path
  BY DEF Top, Sub, Own, Here, Path, Name
<1>2. None \notin Path
  <2>1. ASSUME None \in Path PROVE FALSE
    <3>1. None[1] \in Name
      BY <2>1, ElementOfSeq DEF None, Path
    <3> QED
      BY <3>1 DEF None, Name
  <2> QED
    BY <2>1
<1>3. ASSUME NEW p \in Path PROVE Decode(p) \in Path
  <2> DEFINE code == [n \in Name |-> IF n = "f+" THEN "f " ELSE n]
  <2>1. Len(p) \in Nat /\ DOMAIN p = 1 .. Len(p) /\ \A i \in 1 .. Len(p) : p[i] \in Name
    BY LenProperties, ElementOfSeq DEF Path
  <2>2. \A n \in Name : (IF n = "f+" THEN "f " ELSE n) \in Name
    BY Zenon DEF Name
  <2>3. code \in [Name -> Name]
    BY <2>2, Zenon
  <2>4. \A i \in DOMAIN p : code[p[i]] = IF p[i] = "f+" THEN "f " ELSE p[i]
    BY <2>1, Zenon
  <2>5. Decode(p) = [i \in DOMAIN p |-> code[p[i]]]
    BY <2>4, Zenon DEF Decode
  <2> HIDE DEF code
  <2>6. [i \in 1 .. Len(p) |-> code[p[i]]] \in Seq(Name)
    BY <2>1, <2>3
  <2> QED
    BY <2>1, <2>5, <2>6 DEF Path
<1>4. \A p \in Path, n \in Name : Append(p, n) \in Path
  BY DEF Path
<1> QED
  BY <1>1, <1>2, <1>3, <1>4

LEMMA CmdType ==
  \A op \in Op : Cmd(op) \in Command /\ Cmd(op).op = op /\ Cmd(op).arg = Own /\ Cmd(op).meant = Own
BY PathType DEF Cmd, Command

\* What the parts of the state are, one by one.
LEMMA PartTypes ==
  ASSUME TypeOK
  PROVE  /\ s \in Session /\ s.cmdq \in Seq(Command) /\ s.files \in Seq(Entry)
         /\ s.pwd \in Path /\ s.saved \in Path \cup {None} /\ s.isidle \in BOOLEAN
         /\ s.busy \in BOOLEAN /\ s.data \in BOOLEAN /\ s.reply \in {"none", "user", "queue"}
         /\ conns \in Seq(Connection) /\ told \in Seq(Entry) /\ owes \in [Kind -> Int]
         /\ cwd \in {Top, Sub} /\ cwd \in Path
BY PathType DEF TypeOK, Session

\* session_cmdq_restart keeps the queue and what the session knows.
LEMMA RestartFacts ==
  ASSUME NEW r \in Session
  PROVE  /\ Restart(r) \in Session
         /\ Restart(r).cmdq = r.cmdq /\ Restart(r).files = r.files
         /\ Restart(r).data = r.data /\ Restart(r).reply = r.reply
         /\ Restart(r).pwd = r.pwd /\ Restart(r).saved = r.saved
         /\ ~Restart(r).isidle => ~r.isidle \/ r.cmdq # <<>>
BY DEF Restart, Session

\* session_cmdq_new appends.
LEMMA CmdqNewFacts ==
  ASSUME NEW r \in Session, NEW c \in Command
  PROVE  /\ CmdqNew(r, c) \in Session
         /\ CmdqNew(r, c).cmdq = Append(r.cmdq, c) /\ CmdqNew(r, c).files = r.files
         /\ CmdqNew(r, c).data = r.data /\ CmdqNew(r, c).reply = r.reply
         /\ CmdqNew(r, c).pwd = r.pwd /\ CmdqNew(r, c).saved = r.saved
         /\ CmdqNew(r, c).cmdq # <<>>
<1> DEFINE t == [r EXCEPT !.cmdq = Append(@, c)]
<1>1. r.cmdq \in Seq(Command)
  BY DEF Session
<1>2. Append(r.cmdq, c) \in Seq(Command) /\ Append(r.cmdq, c) # <<>>
  <2>1. Len(Append(r.cmdq, c)) = Len(r.cmdq) + 1 /\ Len(r.cmdq) \in Nat
    BY <1>1, LenProperties
  <2> QED
    BY <1>1, <2>1
<1>3. t \in Session /\ t.cmdq = Append(r.cmdq, c) /\ t.files = r.files /\ t.data = r.data
      /\ t.reply = r.reply /\ t.pwd = r.pwd /\ t.saved = r.saved
  BY <1>2 DEF Session
<1> HIDE DEF t
<1>4. CmdqNew(r, c) = Restart(t)
  BY DEF CmdqNew, t
<1> QED
  BY <1>2, <1>3, <1>4, RestartFacts

\* session_dirlist: PASV and LIST, and the entries are released.
LEMMA SendListFacts ==
  ASSUME NEW r \in Session
  PROVE  /\ SendList(r) \in Session
         /\ SendList(r).cmdq = Append(Append(r.cmdq, Cmd("PASV")), Cmd("LIST"))
         /\ SendList(r).files = <<>> /\ SendList(r).data = r.data /\ SendList(r).reply = "user"
         /\ SendList(r).pwd = r.pwd /\ SendList(r).saved = r.saved
         /\ SendList(r).cmdq # <<>>
<1> DEFINE t == [r EXCEPT !.files = <<>>, !.reply = "user"]
           u == CmdqNew(t, Cmd("PASV"))
<1>1. t \in Session /\ t.cmdq = r.cmdq /\ t.files = <<>> /\ t.data = r.data
      /\ t.reply = "user" /\ t.pwd = r.pwd /\ t.saved = r.saved
  BY EmptySeq DEF Session
<1>2. Cmd("PASV") \in Command /\ Cmd("LIST") \in Command
  BY CmdType DEF Op
<1>3. SendList(r) = CmdqNew(u, Cmd("LIST"))
  BY DEF SendList
<1> HIDE DEF t
<1>4. u \in Session /\ u.cmdq = Append(r.cmdq, Cmd("PASV")) /\ u.files = <<>> /\ u.data = r.data
      /\ u.reply = "user" /\ u.pwd = r.pwd /\ u.saved = r.saved
  BY <1>1, <1>2, CmdqNewFacts
<1> HIDE DEF u
<1>5. LET v == CmdqNew(u, Cmd("LIST"))
      IN  /\ v \in Session
          /\ v.cmdq = Append(u.cmdq, Cmd("LIST"))
          /\ v.files = u.files /\ v.data = u.data /\ v.reply = u.reply
          /\ v.pwd = u.pwd /\ v.saved = u.saved /\ v.cmdq # <<>>
  BY <1>2, <1>4, CmdqNewFacts
<1> QED
  BY <1>3, <1>4, <1>5

\* session_cwd: the session is told where to go.
LEMMA SendCwdFacts ==
  ASSUME NEW r \in Session, NEW path \in Path, NEW meant \in Path
  PROVE  LET c == [op |-> "CWD", arg |-> path, meant |-> meant]
         IN  /\ c \in Command
             /\ SendCwd(r, path, meant) \in Session
             /\ SendCwd(r, path, meant).cmdq = Append(r.cmdq, c)
             /\ SendCwd(r, path, meant).cmdq # <<>>
             /\ SendCwd(r, path, meant).files = r.files
             /\ SendCwd(r, path, meant).data = r.data
             /\ SendCwd(r, path, meant).reply = r.reply
             /\ SendCwd(r, path, meant).pwd = r.pwd
             /\ SendCwd(r, path, meant).saved = path
<1> DEFINE t == [r EXCEPT !.saved = path]
           c == [op |-> "CWD", arg |-> path, meant |-> meant]
<1>1. t \in Session /\ t.cmdq = r.cmdq /\ t.files = r.files /\ t.data = r.data
      /\ t.reply = r.reply /\ t.pwd = r.pwd /\ t.saved = path
  BY DEF Session
<1>2. c \in Command
  BY DEF Command, Op
<1>3. SendCwd(r, path, meant) = CmdqNew(t, c)
  BY DEF SendCwd
<1> HIDE DEF t, c
<1>4. /\ SendCwd(r, path, meant) \in Session /\ SendCwd(r, path, meant).cmdq = Append(r.cmdq, c)
      /\ SendCwd(r, path, meant).cmdq # <<>>
      /\ SendCwd(r, path, meant).files = r.files /\ SendCwd(r, path, meant).data = r.data
      /\ SendCwd(r, path, meant).reply = r.reply /\ SendCwd(r, path, meant).pwd = r.pwd
      /\ SendCwd(r, path, meant).saved = path
  BY <1>1, <1>2, <1>3, CmdqNewFacts
<1> QED
  BY <1>2, <1>4 DEF c

\* The path of a FID, and what the user takes it for.
LEMMA FidType ==
  ASSUME TypeOK, NEW fid \in Fid, Known(fid)
  PROVE  GetFid(fid) \in Path /\ Shown(fid) \in Path /\ Decode(GetFid(fid)) \in Path
<1>1. s.files \in Seq(Entry) /\ told \in Seq(Entry)
  BY PartTypes
<1>2. ASSUME NEW i \in DOMAIN s.files PROVE s.files[i].path \in Path
  <2>1. s.files[i] \in Entry
    BY <1>1
  <2> QED
    BY <2>1 DEF Entry
<1>3. ASSUME NEW i \in DOMAIN told PROVE told[i].real \in Path
  <2>1. told[i] \in Entry
    BY <1>1
  <2> QED
    BY <2>1 DEF Entry
<1>4. fid # 0 => fid \in DOMAIN s.files
  BY DEF Known
<1>5. GetFid(fid) \in Path /\ Shown(fid) \in Path
  BY <1>2, <1>3, <1>4, PathType DEF GetFid, Shown
<1> QED
  BY <1>5, PathType

\* The reply to the oldest command: it leaves the queue, a CWD that was right
\* releases the entries and has PWD sent, one that was not is forgotten.
LEMMA ReplyFacts ==
  ASSUME TypeOK, Sent, NEW code \in Code, Reply(code)
  PROVE  LET ok == code = "ok"
             cmd == Head(s.cmdq)
             q == Tail(s.cmdq)
             into == IF s.saved # None THEN s.saved ELSE s.pwd
         IN  /\ s.cmdq # <<>> /\ cmd \in Command /\ cmd = s.cmdq[1] /\ q \in Seq(Command)
             /\ s' \in Session
             /\ s'.cmdq = IF cmd.op = "CWD" /\ ok THEN Append(q, Cmd("pwd")) ELSE q
             /\ s'.files = IF cmd.op = "CWD" /\ ok THEN <<>> ELSE s.files
             /\ s'.data = (s.data \/ cmd.op = "PASV")
             /\ s'.reply = s.reply
             /\ s'.saved = IF cmd.op = "CWD" /\ ~ok THEN None ELSE s.saved
             /\ s'.pwd = CASE cmd.op = "CWD" /\ ok -> into
                           [] cmd.op \in {"PWD", "pwd"} -> IF ok THEN cwd ELSE into
                           [] OTHER -> s.pwd
             /\ Sent'
<1> DEFINE ok == code = "ok"
           cmd == Head(s.cmdq)
           q == Tail(s.cmdq)
           into == IF s.saved # None THEN s.saved ELSE s.pwd
           r1 == [s EXCEPT !.cmdq = q]
           r2 == Digest(r1, cmd, ok)
           r3 == [r2 EXCEPT !.isidle = TRUE]
<1>1. s \in Session /\ s.cmdq \in Seq(Command) /\ s.pwd \in Path /\ s.saved \in Path \cup {None}
      /\ s.files \in Seq(Entry) /\ s.data \in BOOLEAN /\ cwd \in Path
  BY PartTypes
<1>2. s.cmdq # <<>> /\ s' = Restart(r3)
  BY DEF Reply, Sent
<1>3. cmd \in Command /\ cmd = s.cmdq[1] /\ q \in Seq(Command)
  BY <1>1, <1>2, HeadTailProperties
<1>4. Cmd("pwd") \in Command /\ Append(q, Cmd("pwd")) \in Seq(Command)
  BY <1>3, CmdType DEF Op
<1>5. into \in Path /\ ok \in BOOLEAN
  BY <1>1
<1> HIDE DEF ok, cmd, q, into
<1>6. r1 \in Session /\ r1.cmdq = q /\ r1.files = s.files /\ r1.data = s.data
      /\ r1.reply = s.reply /\ r1.pwd = s.pwd /\ r1.saved = s.saved
  BY <1>1, <1>3 DEF Session
<1>7. /\ r2 \in Session
      /\ r2.cmdq = IF cmd.op = "CWD" /\ ok THEN Append(q, Cmd("pwd")) ELSE q
      /\ r2.files = IF cmd.op = "CWD" /\ ok THEN <<>> ELSE s.files
      /\ r2.data = (s.data \/ cmd.op = "PASV")
      /\ r2.reply = s.reply
      /\ r2.saved = IF cmd.op = "CWD" /\ ~ok THEN None ELSE s.saved
      /\ r2.pwd = CASE cmd.op = "CWD" /\ ok -> into
                    [] cmd.op \in {"PWD", "pwd"} -> IF ok THEN cwd ELSE into
                    [] OTHER -> s.pwd
  <2> HIDE DEF r1
  <2>1. CASE cmd.op = "CWD" /\ ok
    <3>1. r2 = [r1 EXCEPT !.pwd = into, !.files = <<>>, !.cmdq = Append(q, Cmd("pwd"))]
      BY <1>6, <2>1 DEF Digest, CwdReply, into
    <3>2. <<>> \in Seq(Entry)
      BY EmptySeq
    <3> QED
      BY <1>1, <1>4, <1>5, <1>6, <2>1, <3>1, <3>2 DEF Session
  <2>2. CASE cmd.op = "CWD" /\ ~ok
    <3>1. r2 = [r1 EXCEPT !.saved = None]
      BY <2>2 DEF Digest, CwdReply
    <3> QED
      BY <1>1, <1>6, <2>2, <3>1 DEF Session
  <2>3. CASE cmd.op \in {"PWD", "pwd"}
    <3>1. r2 = [r1 EXCEPT !.pwd = IF ok THEN cwd ELSE into]
      BY <1>6, <2>3 DEF Digest, PwdReply, into
    <3> QED
      BY <1>1, <1>5, <1>6, <2>3, <3>1 DEF Session
  <2>4. CASE cmd.op = "PASV"
    <3>1. r2 = [r1 EXCEPT !.data = TRUE]
      BY <2>4 DEF Digest
    <3> QED
      BY <1>1, <1>6, <2>4, <3>1 DEF Session
  <2>5. CASE cmd.op = "LIST"
    <3>1. r2 = [r1 EXCEPT !.busy = TRUE]
      BY <2>5 DEF Digest
    <3> QED
      BY <1>1, <1>6, <2>5, <3>1 DEF Session
  <2>6. CASE cmd.op \notin {"CWD", "PWD", "pwd", "PASV", "LIST"}
    <3>1. r2 = r1
      BY <2>6 DEF Digest
    <3> QED
      BY <1>1, <1>6, <2>6, <3>1
  <2> QED
    BY <2>1, <2>2, <2>3, <2>4, <2>5, <2>6
<1> HIDE DEF r2
<1>8. r3 \in Session /\ r3.isidle /\ r3.cmdq = r2.cmdq /\ r3.files = r2.files
      /\ r3.data = r2.data /\ r3.reply = r2.reply /\ r3.pwd = r2.pwd /\ r3.saved = r2.saved
  BY <1>7 DEF Session
<1> HIDE DEF r3
<1>9. /\ s' \in Session /\ s'.cmdq = r2.cmdq /\ s'.files = r2.files
      /\ s'.data = r2.data /\ s'.reply = r2.reply /\ s'.pwd = r2.pwd /\ s'.saved = r2.saved
      /\ ~s'.isidle => s'.cmdq # <<>>
  BY <1>2, <1>8, RestartFacts
<1> QED
  BY <1>2, <1>3, <1>7, <1>9 DEF ok, cmd, q, into, Sent

-----------------------------------------------------------------------------
(* Types. *)

LEMMA ReplyType ==
  ASSUME TypeOK, Sent, NEW code \in Code, Reply(code)
  PROVE  TypeOK'
<1> DEFINE ok == code = "ok"
           cmd == Head(s.cmdq)
<1>1. s.cmdq # <<>> /\ cmd \in Command /\ s' \in Session
  BY ReplyFacts
<1>2. conns \in Seq(Connection) /\ owes \in [Kind -> Int] /\ cwd \in {Top, Sub} /\ cwd \in Path
  BY PartTypes
<1>3. cmd.op \in Op
  BY <1>1 DEF Command
<1> HIDE DEF cmd
<1>4. cwd' \in {Top, Sub}
  <2>1. cmd.op = "CWD" /\ code # "fail" => Resolve(cwd, cmd.arg) \in {Top, Sub}
    BY DEF Reply, cmd
  <2>2. cwd' = IF cmd.op = "CWD" /\ code # "fail" THEN Resolve(cwd, cmd.arg) ELSE cwd
    BY DEF Reply, cmd
  <2> QED
    BY <1>2, <2>1, <2>2
<1>5. conns' \in Seq(Connection)
  <2>1. CASE cmd.op = "PASV"
    <3>1. conns' = Append(conns, [reads |-> FALSE, dir |-> cwd, lines |-> <<>>])
      BY <2>1 DEF Reply, cmd
    <3>2. [reads |-> FALSE, dir |-> cwd, lines |-> <<>>] \in Connection
      <4>1. <<>> \in UNION {Contents(d) : d \in {Top, Sub}}
        BY Zenon DEF Contents
      <4> QED
        BY <1>2, <4>1 DEF Connection
    <3> QED
      BY <1>2, <3>1, <3>2
  <2>2. CASE cmd.op = "LIST" /\ s.data
    <3>1. PICK names \in Contents(cwd) :
            conns' = [conns EXCEPT ![Len(conns)] = [reads |-> TRUE, dir |-> cwd, lines |-> names]]
      BY <2>2 DEF Reply, cmd
    <3> DEFINE c == [reads |-> TRUE, dir |-> cwd, lines |-> names]
    <3>2. c \in Connection
      <4>1. names \in UNION {Contents(d) : d \in {Top, Sub}}
        BY <1>2, Zenon
      <4> QED
        BY <1>2, <4>1 DEF Connection
    <3> HIDE DEF c
    <3>3. conns' = [conns EXCEPT ![Len(conns)] = c]
      BY <3>1 DEF c
    <3>4. CASE Len(conns) \in 1 .. Len(conns)
      BY <1>2, <3>2, <3>3, <3>4, ExceptSeq
    <3>5. CASE Len(conns) \notin 1 .. Len(conns)
      <4>1. conns \in [1 .. Len(conns) -> Connection]
        BY <1>2, LenProperties
      <4>2. conns' = conns
        BY <3>3, <3>5, <4>1
      <4> QED
        BY <1>2, <4>2
    <3> QED
      BY <3>4, <3>5
  <2>3. CASE cmd.op # "PASV" /\ ~(cmd.op = "LIST" /\ s.data)
    <3>1. conns' = conns
      BY <2>3 DEF Reply, cmd
    <3> QED
      BY <1>2, <3>1
  <2> QED
    BY <2>1, <2>2, <2>3
<1>6. owes' \in [Kind -> Int]
  <2>1. owes' = Answer(cmd.op, ok)
    BY DEF Reply, cmd
  <2>2. cmd.op \notin {"pwd", "PASV", "LIST", "RNFR", "RNTO"} => cmd.op \in Kind
    BY <1>3 DEF Op, Kind
  <2>3. Answer(cmd.op, ok) \in [Kind -> Int]
    BY <1>2, <2>2 DEF Answer, Kind
  <2> QED
    BY <2>1, <2>3
<1>7. rnfr' \in BOOLEAN /\ up' \in BOOLEAN /\ told' = told /\ asks' = asks
      /\ odd' \subseteq odd \cup {"renamed", "overlap", "near", "unsaid"}
  BY DEF Reply, TypeOK
<1> QED
  BY <1>1, <1>4, <1>5, <1>6, <1>7 DEF TypeOK

\* The user gives a command of this kind, which is appended to the queue and is
\* all that changes, but for where a CWD says to go.
Asks(k, c) ==
  /\ k \in Plain /\ c \in Command /\ c.op = k /\ asks < MaxAsks /\ asks' = asks + 1
  /\ s' \in Session /\ s'.cmdq = Append(s.cmdq, c) /\ s'.cmdq # <<>>
  /\ s'.files = s.files /\ s'.data = s.data /\ s'.reply = s.reply /\ s'.pwd = s.pwd
  /\ k # "CWD" => s'.saved = s.saved
  /\ owes' = [owes EXCEPT ![k] = @ + 1]
  /\ up /\ UNCHANGED <<up, cwd, conns, rnfr, told>>
  /\ odd \subseteq odd'
  /\ odd' \subseteq odd \cup {"early", "coded", "hurry"}

Spelled == Quote \/ Pwd \/ Mkd \/ Site
Filed(fid) == Size(fid) \/ Rmd(fid) \/ Mdtm(fid) \/ Dele(fid)

\* A command without a FID is for what the user means.
LEMMA SpelledAsks ==
  ASSUME TypeOK, Spelled
  PROVE  \E k \in Plain \ {"CWD"}, c \in Command : Asks(k, c) /\ c.arg = Own /\ c.meant = Own
<1>1. s \in Session
  BY PartTypes
<1>2. ASSUME NEW k \in {"QUOTE", "PWD", "MKD", "SITE"}, Gives(k, CmdqNew(s, Cmd(k))),
             UNCHANGED <<told, odd>>
      PROVE  /\ Asks(k, Cmd(k)) /\ Cmd(k) \in Command /\ k \in Plain \ {"CWD"}
             /\ Cmd(k).arg = Own /\ Cmd(k).meant = Own
  <2>1. k \in Plain \ {"CWD"}
    BY DEF Plain
  <2>2. Cmd(k) \in Command /\ Cmd(k).op = k /\ Cmd(k).arg = Own /\ Cmd(k).meant = Own
    BY CmdType DEF Op
  <2>3. /\ s' \in Session /\ s'.cmdq = Append(s.cmdq, Cmd(k)) /\ s'.cmdq # <<>>
        /\ s'.files = s.files /\ s'.data = s.data /\ s'.reply = s.reply /\ s'.pwd = s.pwd
        /\ s'.saved = s.saved
    BY <1>1, <1>2, <2>2, CmdqNewFacts DEF Gives
  <2> QED
    BY <1>2, <2>1, <2>2, <2>3 DEF Asks, Gives
<1>3. \E k \in {"QUOTE", "PWD", "MKD", "SITE"} :
        Gives(k, CmdqNew(s, Cmd(k))) /\ UNCHANGED <<told, odd>>
  BY DEF Spelled, Quote, Pwd, Mkd, Site
<1> QED
  BY <1>2, <1>3

\* A command on a file has the path of the FID; DELE has it decoded.
LEMMA FiledAsks ==
  ASSUME TypeOK, NEW fid \in Fid, Filed(fid)
  PROVE  \E k \in Plain \ {"CWD"}, c \in Command :
           /\ Asks(k, c) /\ c.meant = Shown(fid) /\ Known(fid)
           /\ \/ c.arg = GetFid(fid)
              \/ c.arg = Decode(GetFid(fid)) /\ Coded(GetFid(fid)) \subseteq odd'
           /\ OddFid(fid) \subseteq odd'
<1>1. s \in Session
  BY PartTypes
<1>2. ASSUME NEW k \in {"SIZE", "RMD", "MDTM", "DELE"}, NEW arg \in Path, NEW meant \in Path,
             Gives(k, CmdqNew(s, [op |-> k, arg |-> arg, meant |-> meant])),
             told' = told, odd \subseteq odd', odd' \subseteq odd \cup {"early", "coded", "hurry"}
      PROVE  LET c == [op |-> k, arg |-> arg, meant |-> meant]
             IN  /\ Asks(k, c) /\ c \in Command /\ k \in Plain \ {"CWD"}
                 /\ c.arg = arg /\ c.meant = meant
  <2> DEFINE c == [op |-> k, arg |-> arg, meant |-> meant]
  <2>1. k \in Plain \ {"CWD"}
    BY DEF Plain
  <2>2. c \in Command /\ c.op = k /\ c.arg = arg /\ c.meant = meant
    BY DEF Command, Op
  <2> HIDE DEF c
  <2>3. /\ s' \in Session /\ s'.cmdq = Append(s.cmdq, c) /\ s'.cmdq # <<>>
        /\ s'.files = s.files /\ s'.data = s.data /\ s'.reply = s.reply /\ s'.pwd = s.pwd
        /\ s'.saved = s.saved
    <3>1. s' = CmdqNew(s, c)
      BY <1>2 DEF Gives, c
    <3> QED
      BY <1>1, <2>2, <3>1, CmdqNewFacts
  <2>4. Asks(k, c)
    BY <1>2, <2>1, <2>2, <2>3 DEF Asks, Gives
  <2> QED
    BY <2>1, <2>2, <2>4 DEF c
<1>3. Known(fid)
  BY DEF Filed, Size, Rmd, Mdtm, Dele
<1>4. GetFid(fid) \in Path /\ Shown(fid) \in Path /\ Decode(GetFid(fid)) \in Path
  BY <1>3, FidType
<1>5. OddFid(fid) \subseteq {"early", "hurry"} /\ Coded(GetFid(fid)) \subseteq {"coded"}
  BY DEF OddFid, Early, Behind, Coded
<1>6. CASE Size(fid) \/ Rmd(fid) \/ Mdtm(fid)
  <2>1. PICK k \in {"SIZE", "RMD", "MDTM"} :
          /\ Gives(k, CmdqNew(s, [op |-> k, arg |-> GetFid(fid), meant |-> Shown(fid)]))
          /\ odd' = odd \cup OddFid(fid) /\ told' = told
    BY <1>6 DEF Size, Rmd, Mdtm, OnFile
  <2> DEFINE c == [op |-> k, arg |-> GetFid(fid), meant |-> Shown(fid)]
  <2>2. Asks(k, c) /\ c \in Command /\ k \in Plain \ {"CWD"}
        /\ c.arg = GetFid(fid) /\ c.meant = Shown(fid)
    <3>1. k \in {"SIZE", "RMD", "MDTM", "DELE"} /\ odd \subseteq odd'
          /\ odd' \subseteq odd \cup {"early", "coded", "hurry"}
      BY <1>5, <2>1
    <3> QED
      BY <1>2, <1>4, <2>1, <3>1
  <2> HIDE DEF c
  <2> QED
    BY <1>3, <2>1, <2>2
<1>7. CASE Dele(fid)
  <2> DEFINE c == [op |-> "DELE", arg |-> Decode(GetFid(fid)), meant |-> Shown(fid)]
  <2>1. /\ Gives("DELE", CmdqNew(s, c))
        /\ odd' = odd \cup OddFid(fid) \cup Coded(GetFid(fid)) /\ told' = told
    BY <1>7 DEF Dele
  <2>2. Asks("DELE", c) /\ c \in Command /\ "DELE" \in Plain \ {"CWD"}
        /\ c.arg = Decode(GetFid(fid)) /\ c.meant = Shown(fid)
    <3>1. odd \subseteq odd' /\ odd' \subseteq odd \cup {"early", "coded", "hurry"}
      BY <1>5, <2>1
    <3>2. "DELE" \in {"SIZE", "RMD", "MDTM", "DELE"}
      OBVIOUS
    <3> QED
      BY <1>2, <1>4, <2>1, <3>1, <3>2
  <2> HIDE DEF c
  <2> QED
    BY <1>3, <2>1, <2>2
<1> QED
  BY <1>6, <1>7 DEF Filed

\* CWD, unless it is answered at once.
LEMMA CwdAsks ==
  ASSUME TypeOK, NEW path \in Path, NEW meant \in Path, NEW coded \in SUBSET {"coded"},
         Cwd(path, meant, coded), ~IsIn(s, path)
  PROVE  \E c \in Command :
           /\ Asks("CWD", c) /\ c.arg = path /\ c.meant = meant /\ s'.saved = path
           /\ s.cmdq # <<>> \/ conns # <<>> => "hurry" \in odd'
           /\ coded \subseteq odd'
<1> DEFINE c == [op |-> "CWD", arg |-> path, meant |-> meant]
<1>1. s \in Session
  BY PartTypes
<1>2. /\ Gives("CWD", SendCwd(s, path, meant)) /\ told' = told
      /\ odd' = odd \cup coded \cup IF s.cmdq # <<>> \/ conns # <<>> THEN {"hurry"} ELSE {}
  BY DEF Cwd
<1>3. /\ c \in Command /\ s' \in Session /\ s'.cmdq = Append(s.cmdq, c) /\ s'.cmdq # <<>>
      /\ s'.files = s.files /\ s'.data = s.data /\ s'.reply = s.reply /\ s'.pwd = s.pwd
      /\ s'.saved = path
  BY <1>1, <1>2, SendCwdFacts DEF Gives
<1>4. c.op = "CWD" /\ c.arg = path /\ c.meant = meant
  OBVIOUS
<1> HIDE DEF c
<1>5. /\ odd \subseteq odd' /\ odd' \subseteq odd \cup {"early", "coded", "hurry"}
      /\ s.cmdq # <<>> \/ conns # <<>> => "hurry" \in odd'
      /\ coded \subseteq odd'
  BY <1>2
<1>6. Asks("CWD", c)
  BY <1>2, <1>3, <1>4, <1>5 DEF Asks, Gives, Plain
<1> QED
  BY <1>3, <1>4, <1>5, <1>6

\* RNFR and RNTO are queued together.
LEMMA RenFacts ==
  ASSUME TypeOK, NEW fid \in Fid, Ren(fid)
  PROVE  \E c \in Command :
           /\ c.op = "RNFR" /\ c.arg = GetFid(fid) /\ c.meant = Shown(fid)
           /\ s' \in Session /\ s'.cmdq = Append(Append(s.cmdq, c), Cmd("RNTO")) /\ s'.cmdq # <<>>
           /\ s'.files = s.files /\ s'.data = s.data /\ s'.reply = s.reply /\ s'.pwd = s.pwd
           /\ s'.saved = s.saved
           /\ odd \subseteq odd' /\ odd' \subseteq odd \cup {"early", "hurry"}
           /\ OddFid(fid) \subseteq odd'
<1> DEFINE c == [op |-> "RNFR", arg |-> GetFid(fid), meant |-> Shown(fid)]
           r == CmdqNew(s, c)
<1>1. s \in Session
  BY PartTypes
<1>2. Gives("REN", CmdqNew(r, Cmd("RNTO"))) /\ Known(fid) /\ odd' = odd \cup OddFid(fid)
  BY DEF Ren, OnFile
<1>3. c \in Command /\ c.op = "RNFR" /\ c.arg = GetFid(fid) /\ c.meant = Shown(fid)
  BY <1>2, FidType DEF Command, Op
<1>4. Cmd("RNTO") \in Command
  BY CmdType DEF Op
<1> HIDE DEF c
<1>5. r \in Session /\ r.cmdq = Append(s.cmdq, c) /\ r.files = s.files /\ r.data = s.data
      /\ r.reply = s.reply /\ r.pwd = s.pwd /\ r.saved = s.saved
  BY <1>1, <1>3, CmdqNewFacts
<1> HIDE DEF r
<1>6. /\ s' \in Session /\ s'.cmdq = Append(r.cmdq, Cmd("RNTO")) /\ s'.cmdq # <<>>
      /\ s'.files = r.files /\ s'.data = r.data /\ s'.reply = r.reply /\ s'.pwd = r.pwd
      /\ s'.saved = r.saved
  BY <1>2, <1>4, <1>5, CmdqNewFacts DEF Gives
<1>7. odd \subseteq odd' /\ odd' \subseteq odd \cup {"early", "hurry"}
      /\ OddFid(fid) \subseteq odd'
  BY <1>2 DEF OddFid, Early, Behind
<1> QED
  BY <1>3, <1>5, <1>6, <1>7

\* Where a CWD of the user goes: a path that it spells out, or that of an entry.
Goes(path, meant, coded) ==
  \/ path \in {Top, Sub} /\ meant = path
  \/ \E fid \in Fid : /\ Known(fid) /\ meant = Shown(fid)
                      /\ path = Decode(GetFid(fid)) /\ coded = Coded(GetFid(fid))

\* What a user may do.
LEMMA UserCases ==
  ASSUME TypeOK, UserStep
  PROVE  \/ Spelled
         \/ \E fid \in Fid : Filed(fid)
         \/ \E fid \in Fid : Ren(fid)
         \/ \E path, meant \in Path, coded \in SUBSET {"coded"} :
              Cwd(path, meant, coded) /\ Goes(path, meant, coded)
         \/ \E cacheok \in BOOLEAN : Dirlist(cacheok)
<1>1. ASSUME NEW fid \in Fid, CwdFid(fid)
      PROVE  \E path, meant \in Path, coded \in SUBSET {"coded"} :
               Cwd(path, meant, coded) /\ Goes(path, meant, coded)
  <2>1. Known(fid)
    BY <1>1 DEF CwdFid, Known
  <2>2. Coded(GetFid(fid)) \in SUBSET {"coded"}
    BY DEF Coded
  <2> QED
    BY <1>1, <2>1, <2>2, FidType DEF CwdFid, Goes
<1>2. ASSUME NEW path \in {Top, Sub}, Cwd(path, path, {})
      PROVE  \E p, meant \in Path, coded \in SUBSET {"coded"} :
               Cwd(p, meant, coded) /\ Goes(p, meant, coded)
  BY <1>2, PathType DEF Goes
<1> QED
  BY <1>1, <1>2 DEF UserStep, Spelled, Filed

\* A command of the user keeps the types.
LEMMA AsksType ==
  ASSUME TypeOK, NEW k, NEW c, Asks(k, c)
  PROVE  TypeOK'
<1>1. owes \in [Kind -> Int] /\ k \in Kind
  BY PartTypes DEF Asks, Plain, Kind
<1>2. owes' \in [Kind -> Int]
  BY <1>1 DEF Asks
<1>3. asks' \in 0 .. MaxAsks
  BY CommandsAssumption DEF Asks, TypeOK
<1>4. odd' \subseteq {"home", "early", "coded", "hurry", "renamed", "overlap", "lent",
                    "near", "unsaid"}
  BY DEF Asks, TypeOK
<1> QED
  BY <1>2, <1>3, <1>4 DEF Asks, TypeOK

LEMMA UserType ==
  ASSUME TypeOK, UserStep
  PROVE  TypeOK'
<1>1. s \in Session /\ owes \in [Kind -> Int]
  BY PartTypes
<1>2. CASE Spelled
  BY <1>2, SpelledAsks, AsksType
<1>3. ASSUME NEW fid \in Fid, Filed(fid) PROVE TypeOK'
  BY <1>3, FiledAsks, AsksType
<1>4. ASSUME NEW fid \in Fid, Ren(fid) PROVE TypeOK'
  <2>1. s' \in Session /\ odd' \subseteq odd \cup {"early", "hurry"}
    BY <1>4, RenFacts
  <2>2. owes' = [owes EXCEPT !["REN"] = @ + 1] /\ asks' = asks + 1 /\ asks < MaxAsks
        /\ UNCHANGED <<up, cwd, conns, rnfr, told>>
    BY <1>4 DEF Ren, Gives
  <2>3. owes' \in [Kind -> Int]
    BY <1>1, <2>2 DEF Kind
  <2> QED
    BY <2>1, <2>2, <2>3, CommandsAssumption DEF TypeOK
<1>5. ASSUME NEW path \in Path, NEW meant \in Path, NEW coded \in SUBSET {"coded"},
             Cwd(path, meant, coded) PROVE TypeOK'
  <2>1. CASE ~IsIn(s, path)
    BY <1>5, <2>1, CwdAsks, AsksType
  <2>2. CASE IsIn(s, path)
    <3>1. asks' = asks + 1 /\ asks < MaxAsks /\ UNCHANGED <<up, s, cwd, conns, rnfr, owes, told>>
          /\ odd' \subseteq odd \cup {"hurry", "coded"}
      BY <1>5, <2>2 DEF Cwd
    <3> QED
      BY <3>1, CommandsAssumption DEF TypeOK
  <2> QED
    BY <2>1, <2>2
<1>6. ASSUME NEW cacheok \in BOOLEAN, Dirlist(cacheok) PROVE TypeOK'
  <2>1. asks' = asks + 1 /\ asks < MaxAsks /\ UNCHANGED <<up, cwd, conns, rnfr>>
        /\ odd' \subseteq odd \cup {"hurry"}
    BY <1>6 DEF Dirlist, Gives, Behind
  <2>2. s' \in Session
    <3>1. s' = s \/ s' = SendList(s)
      BY <1>6 DEF Dirlist, Gives
    <3> QED
      BY <1>1, <3>1, SendListFacts
  <2>3. told' \in Seq(Entry)
    <3>1. told' = told \/ told' = s.files
      BY <1>6 DEF Dirlist
    <3> QED
      BY <3>1, PartTypes
  <2>4. owes' \in [Kind -> Int]
    <3>1. owes' = owes \/ owes' = [owes EXCEPT !["DIRLIST"] = @ + 1]
      BY <1>6 DEF Dirlist, Gives
    <3> QED
      BY <1>1, <3>1 DEF Kind
  <2> QED
    BY <2>1, <2>2, <2>3, <2>4, CommandsAssumption DEF TypeOK
<1> QED
  BY <1>2, <1>3, <1>4, <1>5, <1>6, UserCases

\* What remains of the lines of a listing is lines.
LEMMA LinesType ==
  ASSUME NEW lines \in UNION {Contents(d) : d \in {Top, Sub}}
  PROVE  /\ \A i \in DOMAIN lines : lines[i] \in Name
         /\ lines \in Seq(Name)
         /\ lines # <<>> => /\ Head(lines) \in Name \ {"."}
                            /\ Tail(lines) \in UNION {Contents(d) : d \in {Top, Sub}}
<1> DEFINE fplus == "f+"
<1>1. "sub" \in Name \ {"."} /\ fplus \in Name \ {"."}
  BY Zenon DEF Name
<1>2. lines \in {<<>>, <<"sub">>, <<fplus>>}
  BY Zenon DEF Contents
<1>3. <<>> \in UNION {Contents(d) : d \in {Top, Sub}}
  BY Zenon DEF Contents
<1> HIDE DEF fplus
<1>4. lines # <<>> => Head(lines) \in Name \ {"."} /\ Tail(lines) = <<>>
  <2>1. CASE lines = <<>>
    BY <2>1
  <2>2. CASE lines = <<"sub">>
    BY <1>1, <2>2
  <2>3. CASE lines = <<fplus>>
    BY <1>1, <2>3
  <2> QED
    BY <1>2, <2>1, <2>2, <2>3
<1>5. lines \in Seq(Name)
  <2>1. CASE lines = <<>>
    BY <2>1
  <2>2. CASE lines = <<"sub">>
    BY <1>1, <2>2
  <2>3. CASE lines = <<fplus>>
    BY <1>1, <2>3
  <2> QED
    BY <1>2, <2>1, <2>2, <2>3
<1>6. \A i \in DOMAIN lines : lines[i] \in Name
  BY <1>5
<1> QED
  BY <1>3, <1>4, <1>5, <1>6

\* A line becomes an entry of the session's list.
LEMMA ParseFacts ==
  ASSUME TypeOK, NEW i \in DOMAIN conns, Parse(i)
  PROVE  /\ i \in 1 .. Len(conns) /\ s' \in Session
         /\ \E e \in Entry : /\ s' = [s EXCEPT !.files = Append(@, e)]
                             /\ e.path = Append(s.pwd, Head(conns[i].lines))
                             /\ e.real = Append(conns[i].dir, Head(conns[i].lines))
                             /\ Head(conns[i].lines) \in Name \ {"."}
         /\ conns' \in Seq(Connection) /\ Len(conns') = Len(conns)
         /\ \A j \in 1 .. Len(conns) :
              conns'[j].reads = conns[j].reads /\ conns'[j].dir = conns[j].dir
<1> DEFINE name == Head(conns[i].lines)
           e == [path |-> Append(s.pwd, name), real |-> Append(conns[i].dir, name)]
           c == [conns[i] EXCEPT !.lines = Tail(@)]
<1>1. s \in Session /\ s.pwd \in Path /\ s.files \in Seq(Entry) /\ conns \in Seq(Connection)
  BY PartTypes
<1>2. i \in 1 .. Len(conns) /\ conns[i] \in Connection
  BY <1>1, LenProperties
<1>3. /\ name \in Name \ {"."} /\ Tail(conns[i].lines) \in UNION {Contents(d) : d \in {Top, Sub}}
      /\ conns[i].dir \in Path
  <2>1. conns[i].lines \in UNION {Contents(d) : d \in {Top, Sub}} /\ conns[i].dir \in Path
    BY <1>2 DEF Connection
  <2>2. conns[i].lines # <<>>
    BY DEF Parse
  <2> QED
    BY <2>1, <2>2, LinesType, Zenon
<1>4. e \in Entry /\ e.path = Append(s.pwd, name) /\ e.real = Append(conns[i].dir, name)
  BY <1>1, <1>3, PathType DEF Entry
<1>5. c \in Connection /\ c.reads = conns[i].reads /\ c.dir = conns[i].dir
  BY <1>2, <1>3 DEF Connection
<1>6. s' = [s EXCEPT !.files = Append(@, e)] /\ conns' = [conns EXCEPT ![i] = c]
  BY DEF Parse
<1> HIDE DEF e, c
<1>7. s' \in Session
  <2>1. Append(s.files, e) \in Seq(Entry)
    BY <1>1, <1>4
  <2>2. s' = [s EXCEPT !.files = Append(s.files, e)]
    BY <1>6
  <2> QED
    BY <1>1, <2>1, <2>2 DEF Session
<1>8. /\ conns' \in Seq(Connection) /\ Len(conns') = Len(conns)
      /\ \A j \in 1 .. Len(conns) : conns'[j] = IF j = i THEN c ELSE conns[j]
  BY <1>1, <1>2, <1>5, <1>6, ExceptSeq
<1> QED
  BY <1>2, <1>3, <1>4, <1>5, <1>6, <1>7, <1>8

\* The connection leaves.
LEMMA ClosedFacts ==
  ASSUME TypeOK, NEW i \in DOMAIN conns, DataClosed(i)
  PROVE  /\ i \in 1 .. Len(conns) /\ conns # <<>>
         /\ conns' \in Seq(Connection) /\ Len(conns') = Len(conns) - 1
         /\ Len(conns) = 1 => conns' = <<>>
         /\ \A j \in 1 .. Len(conns') : \E m \in 1 .. Len(conns) : conns'[j] = conns[m]
         /\ s' \in Session /\ s'.cmdq = s.cmdq /\ s'.files = s.files /\ s'.reply = s.reply
         /\ s'.pwd = s.pwd /\ s'.saved = s.saved /\ s'.isidle = s.isidle
<1> DEFINE front == SubSeq(conns, 1, i - 1)
           back  == SubSeq(conns, i + 1, Len(conns))
<1>1. s \in Session /\ conns \in Seq(Connection)
  BY PartTypes
<1>2. i \in 1 .. Len(conns) /\ Len(conns) \in Nat /\ conns # <<>>
  BY <1>1, LenProperties
<1>3. conns' = front \o back /\ s' = [s EXCEPT !.data = FALSE]
  BY DEF DataClosed, RemoveAt
<1>4. /\ front \in Seq(Connection) /\ Len(front) = i - 1
      /\ \A j \in 1 .. i - 1 : front[j] = conns[j]
  BY <1>1, <1>2
<1>5. /\ back \in Seq(Connection) /\ Len(back) = Len(conns) - i
      /\ \A j \in 1 .. Len(conns) - i : back[j] = conns[i + j]
  BY <1>1, <1>2
<1> HIDE DEF front, back
<1>6. /\ conns' \in Seq(Connection) /\ Len(conns') = Len(conns) - 1
      /\ \A j \in 1 .. Len(conns') : conns'[j] = IF j <= Len(front) THEN front[j] ELSE back[j - Len(front)]
  BY <1>2, <1>3, <1>4, <1>5, ConcatProperties
<1>7. \A j \in 1 .. Len(conns') : \E m \in 1 .. Len(conns) : conns'[j] = conns[m]
  <2> SUFFICES ASSUME NEW j \in 1 .. Len(conns') PROVE \E m \in 1 .. Len(conns) : conns'[j] = conns[m]
    OBVIOUS
  <2>1. CASE j <= i - 1
    BY <1>2, <1>4, <1>6, <2>1
  <2>2. CASE j > i - 1
    <3> DEFINE n == j - (i - 1)
    <3>1. n \in 1 .. Len(conns) - i /\ i + n \in 1 .. Len(conns)
      <4>1. Len(conns') = Len(conns) - 1
        BY <1>6
      <4> QED
        BY <4>1, <1>2, <2>2
    <3>2. conns'[j] = back[n]
      BY <1>2, <1>4, <1>6, <2>2
    <3> HIDE DEF n
    <3>3. back[n] = conns[i + n]
      BY <1>5, <3>1
    <3> QED
      BY <3>1, <3>2, <3>3
  <2> QED
    BY <1>2, <2>1, <2>2
<1>8. Len(conns) = 1 => conns' = <<>>
  BY <1>6
<1>9. /\ s' \in Session /\ s'.cmdq = s.cmdq /\ s'.files = s.files /\ s'.reply = s.reply
      /\ s'.pwd = s.pwd /\ s'.saved = s.saved /\ s'.isidle = s.isidle
  BY <1>1, <1>3 DEF Session
<1> QED
  BY <1>2, <1>6, <1>7, <1>8, <1>9

\* A listing of a queue is a list of entries.
LEMMA LentFacts ==
  ASSUME TypeOK, Lent
  PROVE  /\ s' \in Session /\ s'.cmdq = s.cmdq /\ s'.isidle = s.isidle /\ "lent" \in odd'
         /\ cwd' \in {Top, Sub}
<1>1. s \in Session /\ cwd' \in {Top, Sub} /\ cwd' \in Path
  BY PartTypes, PathType DEF Lent
<1>2. PICK names \in Contents(cwd') :
        s' = [s EXCEPT !.pwd = cwd', !.saved = cwd', !.reply = "queue",
                       !.files = [i \in DOMAIN names |->
                         [path |-> Append(cwd', names[i]), real |-> Append(cwd', names[i])]]]
  BY Zenon DEF Lent
<1> DEFINE list == [i \in DOMAIN names |->
                     [path |-> Append(cwd', names[i]), real |-> Append(cwd', names[i])]]
<1>3. names \in Seq(Name)
  <2>1. names \in UNION {Contents(d) : d \in {Top, Sub}}
    BY <1>1, <1>2, Zenon
  <2> QED
    BY <2>1, LinesType, Zenon
<1>4. list \in Seq(Entry)
  <2>1. Len(names) \in Nat /\ DOMAIN names = 1 .. Len(names)
        /\ \A i \in 1 .. Len(names) : names[i] \in Name
    BY <1>3
  <2>2. \A i \in 1 .. Len(names) : Append(cwd', names[i]) \in Path
    BY <1>1, <2>1, PathType
  <2>3. \A i \in 1 .. Len(names) :
          [path |-> Append(cwd', names[i]), real |-> Append(cwd', names[i])] \in Entry
    BY <2>2 DEF Entry
  <2>4. [i \in 1 .. Len(names) |->
          [path |-> Append(cwd', names[i]), real |-> Append(cwd', names[i])]] \in Seq(Entry)
    BY <2>1, <2>3
  <2> QED
    BY <2>1, <2>4
<1> HIDE DEF list
<1>5. s' = [s EXCEPT !.pwd = cwd', !.saved = cwd', !.reply = "queue", !.files = list]
  BY <1>2 DEF list
<1>6. s' \in Session /\ s'.cmdq = s.cmdq /\ s'.isidle = s.isidle
  BY <1>1, <1>4, <1>5 DEF Session
<1> QED
  BY <1>1, <1>6 DEF Lent

\* The invariant of the types: every step keeps them.
LEMMA TypeStep ==
  ASSUME TypeOK, Sent, [Next]_vars
  PROVE  TypeOK'
<1>1. CASE UserStep
  BY <1>1, UserType
<1>2. ASSUME NEW code \in Code, Reply(code) PROVE TypeOK'
  BY <1>2, ReplyType
<1>3. CASE ListEnd
  <2>1. [s EXCEPT !.busy = FALSE] \in Session
    BY PartTypes DEF Session
  <2>2. s' \in Session
    BY <1>3, <2>1, RestartFacts DEF ListEnd
  <2> QED
    BY <1>3, <2>2 DEF ListEnd, TypeOK
<1>4. CASE Lost
  <2>1. owes' \in [Kind -> Int]
    BY <1>4 DEF Lost
  <2>2. UNCHANGED <<s, cwd, conns, rnfr, told, asks, odd>> /\ up' \in BOOLEAN
    BY <1>4 DEF Lost
  <2> QED
    BY <2>1, <2>2 DEF TypeOK
<1>5. CASE Lent
  <2>1. s' \in Session /\ cwd' \in {Top, Sub}
    BY <1>5, LentFacts
  <2> QED
    BY <1>5, <2>1 DEF Lent, TypeOK
<1>6. ASSUME NEW i \in DOMAIN conns, Parse(i) PROVE TypeOK'
  <2>1. s' \in Session /\ conns' \in Seq(Connection)
    BY <1>6, ParseFacts
  <2> QED
    BY <1>6, <2>1 DEF Parse, TypeOK
<1>7. ASSUME NEW i \in DOMAIN conns, DataClosed(i) PROVE TypeOK'
  <2>1. s' \in Session /\ conns' \in Seq(Connection) /\ told' \in Seq(Entry)
    BY <1>7, ClosedFacts, PartTypes DEF DataClosed
  <2>2. owes' \in [Kind -> Int]
    <3>1. owes' = [owes EXCEPT !["DIRLIST"] = @ - 1]
      BY <1>7 DEF DataClosed
    <3>2. owes \in [Kind -> Int] /\ "DIRLIST" \in Kind
      BY PartTypes DEF Kind
    <3>3. owes["DIRLIST"] - 1 \in Int
      BY <3>2
    <3> QED
      BY <3>1, <3>2, <3>3
  <2> QED
    BY <1>7, <2>1, <2>2 DEF DataClosed, TypeOK
<1>8. CASE UNCHANGED vars
  BY <1>8 DEF vars, TypeOK
<1> QED
  BY <1>1, <1>2, <1>3, <1>4, <1>5, <1>6, <1>7, <1>8 DEF Next, SessionStep, DataStep

-----------------------------------------------------------------------------
(* What a step does to the queue of commands. *)

\* DIRLIST that is sent, and DIRLIST that is answered from the list.
Lists ==
  /\ up /\ s' = SendList(s) /\ owes' = [owes EXCEPT !["DIRLIST"] = @ + 1]
  /\ UNCHANGED <<up, cwd, conns, rnfr, told>>
  /\ odd' = odd \cup Behind(s.saved)
Cached ==
  /\ up /\ s.files # <<>>
  /\ IF s.reply = "user"
     THEN told' = s.files /\ UNCHANGED owes
     ELSE owes' = [owes EXCEPT !["DIRLIST"] = @ + 1] /\ UNCHANGED told
  /\ UNCHANGED <<up, s, cwd, conns, rnfr, odd>>

\* CWD to where the session is or is told to go.
There == up /\ UNCHANGED <<up, s, cwd, conns, rnfr, told, owes>> /\ odd \subseteq odd'

LEMMA StepCases ==
  ASSUME TypeOK, [Next]_vars
  PROVE  \/ \E k \in Plain, c \in Command : Asks(k, c)
         \/ \E fid \in Fid : Ren(fid)
         \/ Lists \/ Cached \/ There
         \/ \E code \in Code : Reply(code)
         \/ ListEnd \/ Lost \/ Lent
         \/ \E i \in DOMAIN conns : Parse(i)
         \/ \E i \in DOMAIN conns : DataClosed(i)
         \/ UNCHANGED vars
<1>1. ASSUME NEW path \in Path, NEW meant \in Path, NEW coded \in SUBSET {"coded"},
             Cwd(path, meant, coded)
      PROVE  There \/ \E k \in Plain, c \in Command : Asks(k, c)
  <2>1. CASE IsIn(s, path)
    BY <1>1, <2>1 DEF Cwd, There
  <2>2. CASE ~IsIn(s, path)
    <3>1. PICK c \in Command : Asks("CWD", c)
      BY <1>1, <2>2, CwdAsks
    <3> QED
      BY <3>1 DEF Plain
  <2> QED
    BY <2>1, <2>2
<1>2. ASSUME NEW cacheok \in BOOLEAN, Dirlist(cacheok)
      PROVE  Lists \/ Cached
  <2>1. CASE cacheok /\ s.files # <<>>
    BY <1>2, <2>1 DEF Dirlist, Cached
  <2>2. CASE ~(cacheok /\ s.files # <<>>)
    BY <1>2, <2>2 DEF Dirlist, Lists, Gives
  <2> QED
    BY <2>1, <2>2
<1>3. CASE UserStep
  <2>1. Spelled => \E k \in Plain, c \in Command : Asks(k, c)
    BY SpelledAsks
  <2>2. \A fid \in Fid : Filed(fid) => \E k \in Plain, c \in Command : Asks(k, c)
    BY FiledAsks
  <2> QED
    BY <1>1, <1>2, <1>3, <2>1, <2>2, UserCases
<1> QED
  BY <1>3 DEF Next, SessionStep, DataStep

\* A session that waits for a reply has sent a command, and so after every step.
LEMMA SentStep ==
  ASSUME TypeOK, Sent, [Next]_vars
  PROVE  Sent'
<1>1. s \in Session
  BY PartTypes
<1>2. ASSUME NEW k \in Plain, NEW c \in Command, Asks(k, c) PROVE Sent'
  BY <1>2 DEF Asks, Sent
<1>3. ASSUME NEW fid \in Fid, Ren(fid) PROVE Sent'
  BY <1>3, RenFacts DEF Sent
<1>4. CASE Lists
  BY <1>1, <1>4, SendListFacts DEF Lists, Sent
<1>5. CASE Cached \/ There \/ Lost \/ UNCHANGED vars
  BY <1>5 DEF Cached, There, Lost, vars, Sent
<1>6. ASSUME NEW code \in Code, Reply(code) PROVE Sent'
  BY <1>6, ReplyFacts
<1>7. CASE ListEnd
  <2> DEFINE r == [s EXCEPT !.busy = FALSE]
  <2>1. r \in Session /\ r.cmdq = s.cmdq /\ r.isidle = s.isidle
    BY <1>1 DEF Session
  <2>2. s' = Restart(r)
    BY <1>7 DEF ListEnd
  <2> HIDE DEF r
  <2> QED
    BY <2>1, <2>2, RestartFacts DEF Sent
<1>8. CASE Lent
  BY <1>8, LentFacts DEF Sent
<1>9. ASSUME NEW i \in DOMAIN conns, Parse(i) PROVE Sent'
  <2>1. PICK e \in Entry : s' = [s EXCEPT !.files = Append(@, e)]
    BY <1>9, ParseFacts
  <2> QED
    BY <1>1, <2>1 DEF Sent, Session
<1>10. ASSUME NEW i \in DOMAIN conns, DataClosed(i) PROVE Sent'
  BY <1>10, ClosedFacts DEF Sent
<1> QED
  BY <1>2, <1>3, <1>4, <1>5, <1>6, <1>7, <1>8, <1>9, <1>10, StepCases

\* Only DISCONNECT takes the session away, and with it what is owed.
LEMMA GoneStep ==
  ASSUME TypeOK, Gone, [Next]_vars
  PROVE  Gone'
<1>1. ASSUME ~up' PROVE Lost \/ UNCHANGED vars
  <2>1. ASSUME NEW k \in Plain, NEW c \in Command, Asks(k, c) PROVE up'
    BY <2>1 DEF Asks
  <2>2. ASSUME NEW fid \in Fid, Ren(fid) PROVE up'
    BY <2>2 DEF Ren, Gives
  <2>3. ASSUME NEW code \in Code, Reply(code) PROVE up'
    BY <2>3 DEF Reply
  <2>4. Lists \/ Cached \/ There \/ ListEnd => up'
    BY DEF Lists, Cached, There, ListEnd
  <2>6. ASSUME Lent PROVE up'
    <3>1. up /\ up' = up
      BY <2>6, Zenon DEF Lent
    <3> QED
      BY <3>1
  <2>5. \A i \in DOMAIN conns : Parse(i) \/ DataClosed(i) => up'
    BY DEF Parse, DataClosed
  <2> QED
    BY <1>1, <2>1, <2>2, <2>3, <2>4, <2>5, <2>6, StepCases, Zenon
<1>2. CASE Lost
  BY <1>2 DEF Lost, Gone
<1>3. CASE UNCHANGED vars
  BY <1>3 DEF vars, Gone
<1> QED
  BY <1>1, <1>2, <1>3 DEF Gone

\* The queue after a step.
LEMMA QueueAfter ==
  ASSUME TypeOK, Sent, [Next]_vars
  PROVE  \/ \E k \in Plain, c \in Command : Asks(k, c)
         \/ \E c \in Command : c.op = "RNFR" /\ s'.cmdq = Append(Append(s.cmdq, c), Cmd("RNTO"))
         \/ s'.cmdq = Append(Append(s.cmdq, Cmd("PASV")), Cmd("LIST"))
         \/ s.cmdq # <<>> /\ s'.cmdq \in {Tail(s.cmdq), Append(Tail(s.cmdq), Cmd("pwd"))}
         \/ s'.cmdq = s.cmdq
<1>1. s \in Session
  BY PartTypes
<1>2. ASSUME NEW fid \in Fid, Ren(fid)
      PROVE  \E c \in Command :
               c.op = "RNFR" /\ s'.cmdq = Append(Append(s.cmdq, c), Cmd("RNTO"))
  BY <1>2, RenFacts
<1>3. CASE Lists
  BY <1>1, <1>3, SendListFacts DEF Lists
<1>4. CASE Cached \/ There \/ Lost \/ UNCHANGED vars
  BY <1>4 DEF Cached, There, Lost, vars
<1>5. ASSUME NEW code \in Code, Reply(code)
      PROVE  s.cmdq # <<>> /\ s'.cmdq \in {Tail(s.cmdq), Append(Tail(s.cmdq), Cmd("pwd"))}
  BY <1>5, ReplyFacts
<1>6. CASE ListEnd
  <2> DEFINE r == [s EXCEPT !.busy = FALSE]
  <2>1. r \in Session /\ r.cmdq = s.cmdq
    BY <1>1 DEF Session
  <2>2. s' = Restart(r)
    BY <1>6 DEF ListEnd
  <2> HIDE DEF r
  <2> QED
    BY <2>1, <2>2, RestartFacts
<1>7. CASE Lent
  BY <1>7, LentFacts
<1>8. ASSUME NEW i \in DOMAIN conns, Parse(i) PROVE s'.cmdq = s.cmdq
  <2>1. PICK e \in Entry : s' = [s EXCEPT !.files = Append(@, e)]
    BY <1>8, ParseFacts
  <2> QED
    BY <1>1, <2>1 DEF Session
<1>9. ASSUME NEW i \in DOMAIN conns, DataClosed(i) PROVE s'.cmdq = s.cmdq
  BY <1>9, ClosedFacts
<1> QED
  BY <1>2, <1>3, <1>4, <1>5, <1>6, <1>7, <1>8, <1>9, StepCases

\* Pairs stay side by side whatever pair they are of.
LEMMA PairedStep ==
  ASSUME TypeOK, Sent, Paired, [Next]_vars
  PROVE  Paired'
<1> DEFINE q == s.cmdq
<1>1. q \in Seq(Command)
  BY PartTypes
<1>2. /\ Cmd("RNTO") \in Command /\ Cmd("RNTO").op = "RNTO"
      /\ Cmd("PASV") \in Command /\ Cmd("PASV").op = "PASV"
      /\ Cmd("LIST") \in Command /\ Cmd("LIST").op = "LIST"
      /\ Cmd("pwd") \in Command /\ Cmd("pwd").op = "pwd"
  BY CmdType DEF Op
<1> HIDE DEF q
<1>3. ASSUME NEW a, NEW b, NEW x, NEW y, Pairs(q, a, b), Pairs(q, x, y),
             a \in {"RNFR", "PASV"}, b = (IF a = "RNFR" THEN "RNTO" ELSE "LIST"),
             x \in {"RNFR", "PASV"}, y = (IF x = "RNFR" THEN "RNTO" ELSE "LIST"), a # x,
             NEW c \in Command, NEW d \in Command, c.op = a, d.op = b
      PROVE  Pairs(Append(Append(q, c), d), a, b) /\ Pairs(Append(Append(q, c), d), x, y)
  <2>1. a # b /\ x # y /\ a # y /\ b # x /\ b # y
    BY <1>3
  <2>2. Pairs(Append(Append(q, c), d), a, b)
    BY <1>1, <1>3, <2>1, PairsAppendTwo
  <2>3. Pairs(Append(q, c), x, y) /\ Append(q, c) \in Seq(Command)
    BY <1>1, <1>3, <2>1, PairsAppend
  <2>4. Pairs(Append(Append(q, c), d), x, y)
    BY <1>3, <2>1, <2>3, PairsAppend
  <2> QED
    BY <2>2, <2>4
<1>4. Pairs(q, "RNFR", "RNTO") /\ Pairs(q, "PASV", "LIST")
  BY DEF Paired, q
<1>5. ASSUME NEW k \in Plain, NEW c \in Command, Asks(k, c) PROVE Paired'
  <2>1. c.op \notin {"RNFR", "RNTO", "PASV", "LIST"} /\ s'.cmdq = Append(q, c)
    BY <1>5 DEF Asks, Plain, q
  <2>2. Pairs(Append(q, c), "RNFR", "RNTO") /\ Pairs(Append(q, c), "PASV", "LIST")
    BY <1>1, <1>4, <2>1, PairsAppend
  <2> QED
    BY <2>1, <2>2 DEF Paired
<1>6. ASSUME NEW c \in Command, c.op = "RNFR", s'.cmdq = Append(Append(q, c), Cmd("RNTO"))
      PROVE  Paired'
  BY <1>2, <1>3, <1>4, <1>6 DEF Paired
<1>7. ASSUME s'.cmdq = Append(Append(q, Cmd("PASV")), Cmd("LIST"))
      PROVE  Paired'
  BY <1>2, <1>3, <1>4, <1>7 DEF Paired
<1>8. ASSUME q # <<>>, s'.cmdq \in {Tail(q), Append(Tail(q), Cmd("pwd"))}
      PROVE  Paired'
  <2>1. Tail(q) \in Seq(Command)
    BY <1>1, <1>8
  <2>2. Pairs(Tail(q), "RNFR", "RNTO") /\ Pairs(Tail(q), "PASV", "LIST")
    <3>1. Pairs(Tail(q), "RNFR", "RNTO")
      BY <1>1, <1>4, <1>8, PairsTail
    <3>2. Pairs(Tail(q), "PASV", "LIST")
      BY <1>1, <1>4, <1>8, PairsTail
    <3> QED
      BY <3>1, <3>2
  <2>3. /\ Pairs(Append(Tail(q), Cmd("pwd")), "RNFR", "RNTO")
        /\ Pairs(Append(Tail(q), Cmd("pwd")), "PASV", "LIST")
    <3>1. Pairs(Append(Tail(q), Cmd("pwd")), "RNFR", "RNTO")
      BY <1>2, <2>1, <2>2, PairsAppend
    <3>2. Pairs(Append(Tail(q), Cmd("pwd")), "PASV", "LIST")
      BY <1>2, <2>1, <2>2, PairsAppend
    <3> QED
      BY <3>1, <3>2
  <2> QED
    BY <1>8, <2>2, <2>3 DEF Paired
<1>9. ASSUME s'.cmdq = q PROVE Paired'
  BY <1>4, <1>9 DEF Paired
<1> QED
  BY <1>5, <1>6, <1>7, <1>8, <1>9, QueueAfter DEF q

-----------------------------------------------------------------------------
(* Listings. *)

\* The first of a queue stays first when something is appended.
LEMMA FirstStays ==
  ASSUME NEW q \in Seq(Command), NEW c \in Command
  PROVE  /\ Append(q, c) # <<>> /\ Append(q, c) \in Seq(Command)
         /\ Append(q, c)[1] = IF q = <<>> THEN c ELSE q[1]
         /\ \A i \in 1 .. Len(Append(q, c)) :
              Append(q, c)[i] = c \/ \E j \in 1 .. Len(q) : Append(q, c)[i] = q[j]
<1>1. /\ Len(q) \in Nat /\ Len(Append(q, c)) = Len(q) + 1 /\ Append(q, c)[Len(q) + 1] = c
      /\ \A i \in 1 .. Len(q) : Append(q, c)[i] = q[i]
      /\ Append(q, c) \in Seq(Command)
  BY LenProperties
<1>2. q = <<>> <=> Len(q) = 0
  BY EmptySeq
<1>3. Append(q, c)[1] = IF q = <<>> THEN c ELSE q[1]
  BY <1>1, <1>2
<1>4. Append(q, c) # <<>>
  <2>1. Len(Append(q, c)) # 0 /\ Len(<<>>) = 0
    BY <1>1
  <2> QED
    BY <2>1, Zenon
<1>5. ASSUME NEW i \in 1 .. Len(Append(q, c))
      PROVE  Append(q, c)[i] = c \/ \E j \in 1 .. Len(q) : Append(q, c)[i] = q[j]
  <2>1. i = Len(q) + 1 \/ i \in 1 .. Len(q)
    BY <1>1
  <2> QED
    BY <1>1, <2>1
<1> QED
  BY <1>1, <1>3, <1>4, <1>5

\* The first of the queue after a reply is a second of a pair if the command
\* was its first, and only then.
LEMMA FirstAfterReply ==
  ASSUME TypeOK, Sent, Paired, NEW code \in Code, Reply(code)
  PROVE  LET op == s.cmdq[1].op
         IN  /\ op = "RNFR" => s'.cmdq # <<>> /\ s'.cmdq[1].op = "RNTO"
             /\ op = "PASV" => s'.cmdq # <<>> /\ s'.cmdq[1].op = "LIST"
             /\ op # "RNFR" /\ s'.cmdq # <<>> => s'.cmdq[1].op # "RNTO"
             /\ op # "PASV" /\ s'.cmdq # <<>> => s'.cmdq[1].op # "LIST"
             /\ s.cmdq # <<>> /\ s.cmdq[1] \in Command
<1> DEFINE q == Tail(s.cmdq)
           op == s.cmdq[1].op
<1>1. /\ s.cmdq \in Seq(Command) /\ s.cmdq # <<>> /\ Head(s.cmdq) = s.cmdq[1]
      /\ s.cmdq[1] \in Command /\ q \in Seq(Command)
      /\ s'.cmdq = q \/ (s'.cmdq = Append(q, Cmd("pwd")) /\ op = "CWD")
  BY PartTypes, ReplyFacts
<1>2. /\ op = "RNFR" => q # <<>> /\ q[1].op = "RNTO"
      /\ op # "RNFR" /\ q # <<>> => q[1].op # "RNTO"
  BY <1>1, PairsTail DEF Paired
<1>3. /\ op = "PASV" => q # <<>> /\ q[1].op = "LIST"
      /\ op # "PASV" /\ q # <<>> => q[1].op # "LIST"
  BY <1>1, PairsTail DEF Paired
<1>4. Cmd("pwd") \in Command /\ Cmd("pwd").op = "pwd"
  BY CmdType DEF Op
<1> HIDE DEF q, op
<1>5. Append(q, Cmd("pwd"))[1] = IF q = <<>> THEN Cmd("pwd") ELSE q[1]
  BY <1>1, <1>4, FirstStays
<1> QED
  BY <1>1, <1>2, <1>3, <1>4, <1>5 DEF op

\* Whatever the user had better not have done stays done.
LEMMA OddGrows ==
  ASSUME TypeOK, [Next]_vars
  PROVE  odd \subseteq odd'
<1>1. ASSUME NEW k \in Plain, NEW c \in Command, Asks(k, c) PROVE odd \subseteq odd'
  BY <1>1 DEF Asks
<1>2. ASSUME NEW fid \in Fid, Ren(fid) PROVE odd \subseteq odd'
  BY <1>2, RenFacts
<1>3. Lists \/ Cached \/ There \/ ListEnd \/ Lost => odd \subseteq odd'
  BY DEF Lists, Cached, There, ListEnd, Lost
<1>4. Lent => odd \subseteq odd'
  <2>1. Lent => odd' = odd \cup {"lent"}
    BY Zenon DEF Lent
  <2> QED
    BY <2>1
<1>5. ASSUME NEW code \in Code, Reply(code) PROVE odd \subseteq odd'
  BY <1>5 DEF Reply
<1>6. ASSUME NEW i \in DOMAIN conns, Parse(i) PROVE odd \subseteq odd'
  BY <1>6 DEF Parse
<1>7. ASSUME NEW i \in DOMAIN conns, DataClosed(i) PROVE odd \subseteq odd'
  BY <1>7 DEF DataClosed
<1>8. UNCHANGED vars => odd \subseteq odd'
  BY DEF vars
<1> QED
  BY <1>1, <1>2, <1>3, <1>4, <1>5, <1>6, <1>7, <1>8, StepCases

\* The connections after a reply, if no listing overtakes the data of another.
LEMMA ReplyConns ==
  ASSUME AnswerInv, NEW code \in Code, Reply(code), Clean, Clean'
  PROVE  LET op == s.cmdq[1].op
         IN  /\ op = "PASV" => /\ conns = <<>> /\ Len(conns') = 1 /\ conns' # <<>>
                               /\ ~conns'[1].reads
             /\ op = "LIST" => /\ conns # <<>> /\ ~conns[1].reads /\ conns' # <<>>
                               /\ Len(conns') = 1 /\ conns'[1].reads
             /\ op \notin {"PASV", "LIST"} => conns' = conns
<1> DEFINE op == s.cmdq[1].op
<1>1. /\ s.cmdq # <<>> /\ Head(s.cmdq) = s.cmdq[1] /\ conns \in Seq(Connection)
      /\ s.data \in BOOLEAN
  BY ReplyFacts, PartTypes DEF AnswerInv
<1>2. OneListing
  BY DEF AnswerInv
<1>3. ASSUME op = "PASV"
      PROVE  conns = <<>> /\ Len(conns') = 1 /\ conns' # <<>> /\ ~conns'[1].reads
  <2>1. conns' = Append(conns, [reads |-> FALSE, dir |-> cwd, lines |-> <<>>])
    BY <1>1, <1>3 DEF Reply
  <2>2. conns = <<>>
    <3>1. Head(s.cmdq).op = "PASV" /\ conns # <<>> => "overlap" \in odd'
      BY DEF Reply
    <3> QED
      BY <1>1, <1>3, <3>1 DEF Clean
  <2>3. conns' = <<[reads |-> FALSE, dir |-> cwd, lines |-> <<>>]>>
    BY <2>1, <2>2
  <2> QED
    BY <2>2, <2>3
<1>4. ASSUME op = "LIST"
      PROVE  /\ conns # <<>> /\ ~conns[1].reads /\ conns' # <<>>
             /\ Len(conns') = 1 /\ conns'[1].reads
  <2>1. s.data /\ conns # <<>> /\ ~conns[1].reads /\ Len(conns) \in {0, 1}
    BY <1>1, <1>2, <1>4 DEF OneListing
  <2>2. Len(conns) = 1
    <3>1. Len(conns) \in Nat \ {0}
      BY <1>1, <2>1, EmptySeq
    <3> QED
      BY <2>1, <3>1
  <2>3. PICK names \in Contents(cwd) :
          conns' = [conns EXCEPT ![Len(conns)] = [reads |-> TRUE, dir |-> cwd, lines |-> names]]
    BY <1>1, <1>4, <2>1 DEF Reply
  <2>4. conns \in [1 .. 1 -> Connection]
    BY <1>1, <2>2, LenProperties
  <2>5. DOMAIN conns' = 1 .. 1 /\ conns'[1].reads
    BY <2>2, <2>3, <2>4
  <2>6. conns' \in Seq(Connection)
    BY ReplyType DEF AnswerInv, TypeOK
  <2>7. Len(conns') = 1 /\ conns' # <<>>
    <3>1. DOMAIN conns' = 1 .. Len(conns') /\ Len(conns') \in Nat
      BY <2>6, LenProperties
    <3>2. Len(conns') = 1
      BY <2>5, <3>1
    <3> QED
      BY <3>2
  <2> QED
    BY <2>1, <2>5, <2>7
<1>5. op \notin {"PASV", "LIST"} => conns' = conns
  BY <1>1 DEF Reply
<1> QED
  BY <1>3, <1>4, <1>5

LEMMA OneListingStep ==
  ASSUME AnswerInv, [Next]_vars, Clean'
  PROVE  OneListing'
<1>1. TypeOK /\ Sent /\ Paired /\ odd \subseteq odd'
  BY OddGrows DEF AnswerInv
<1>2. Clean
  BY <1>1 DEF Clean
<1>3. OneListing
  BY <1>2 DEF AnswerInv
<1>4. s \in Session /\ s.cmdq \in Seq(Command) /\ conns \in Seq(Connection)
  BY <1>1, PartTypes
<1>5. ASSUME NEW c \in Command, c.op \notin {"PASV", "LIST"}, UNCHANGED conns,
             s'.data = s.data, s'.reply = s.reply, s'.files = s.files,
             \/ s'.cmdq = Append(s.cmdq, c)
             \/ \E d \in Command : /\ d.op \notin {"PASV", "LIST"}
                                   /\ s'.cmdq = Append(Append(s.cmdq, c), d)
      PROVE  OneListing'
  <2>1. ASSUME NEW q \in Seq(Command), NEW e \in Command, e.op \notin {"PASV", "LIST"},
               q # <<>> /\ q[1].op = "LIST" => s.data /\ conns # <<>> /\ ~conns[1].reads,
               s.reply = "none" => \A i \in 1 .. Len(q) : q[i].op \notin {"PASV", "LIST"}
        PROVE  /\ Append(q, e) \in Seq(Command)
               /\ Append(q, e)[1].op = "LIST" => s.data /\ conns # <<>> /\ ~conns[1].reads
               /\ s.reply = "none" =>
                    \A i \in 1 .. Len(Append(q, e)) : Append(q, e)[i].op \notin {"PASV", "LIST"}
    BY <2>1, FirstStays
  <2>2. /\ Append(s.cmdq, c) \in Seq(Command)
        /\ Append(s.cmdq, c)[1].op = "LIST" => s.data /\ conns # <<>> /\ ~conns[1].reads
        /\ s.reply = "none" =>
             \A i \in 1 .. Len(Append(s.cmdq, c)) : Append(s.cmdq, c)[i].op \notin {"PASV", "LIST"}
    BY <1>3, <1>4, <1>5, <2>1 DEF OneListing
  <2>3. /\ s'.cmdq # <<>> /\ s'.cmdq[1].op = "LIST" => s.data /\ conns # <<>> /\ ~conns[1].reads
        /\ s.reply = "none" =>
             \A i \in 1 .. Len(s'.cmdq) : s'.cmdq[i].op \notin {"PASV", "LIST"}
    <3>1. CASE s'.cmdq = Append(s.cmdq, c)
      BY <2>2, <3>1
    <3>2. ASSUME NEW d \in Command, d.op \notin {"PASV", "LIST"},
                 s'.cmdq = Append(Append(s.cmdq, c), d)
          PROVE  <2>3!2
      BY <2>1, <2>2, <3>2
    <3>3. ASSUME NEW d \in Command, d.op \notin {"PASV", "LIST"},
                 s'.cmdq = Append(Append(s.cmdq, c), d)
          PROVE  <2>3!1
      BY <2>1, <2>2, <3>3
    <3> QED
      BY <1>5, <3>1, <3>2, <3>3
  <2> QED
    BY <1>3, <1>5, <2>3 DEF OneListing
<1>6. ASSUME NEW k \in Plain, NEW c \in Command, Asks(k, c) PROVE OneListing'
  BY <1>5, <1>6 DEF Asks, Plain
<1>7. ASSUME NEW fid \in Fid, Ren(fid) PROVE OneListing'
  <2>1. UNCHANGED conns
    BY <1>7 DEF Ren, Gives
  <2>2. Cmd("RNTO") \in Command /\ Cmd("RNTO").op = "RNTO"
    BY CmdType DEF Op
  <2> QED
    BY <1>1, <1>5, <1>7, <2>1, <2>2, RenFacts
<1>8. CASE Lists
  <2> DEFINE q == Append(s.cmdq, Cmd("PASV"))
  <2>1. /\ s'.cmdq = Append(q, Cmd("LIST")) /\ s'.reply = "user" /\ s'.data = s.data
        /\ UNCHANGED conns
    BY <1>4, <1>8, SendListFacts DEF Lists
  <2>2. Cmd("PASV") \in Command /\ Cmd("LIST") \in Command /\ Cmd("PASV").op = "PASV"
    BY CmdType DEF Op
  <2>3. q \in Seq(Command) /\ q # <<>> /\ q[1] = IF s.cmdq = <<>> THEN Cmd("PASV") ELSE s.cmdq[1]
    BY <1>4, <2>2, FirstStays
  <2> HIDE DEF q
  <2>4. s'.cmdq[1] = q[1]
    BY <2>1, <2>2, <2>3, FirstStays
  <2> QED
    BY <1>3, <2>1, <2>2, <2>3, <2>4 DEF OneListing
<1>9. CASE Cached \/ There \/ Lost \/ UNCHANGED vars
  <2>1. UNCHANGED <<s, conns>>
    BY <1>9 DEF Cached, There, Lost, vars
  <2> QED
    BY <1>3, <2>1 DEF OneListing
<1>10. ASSUME NEW code \in Code, Reply(code) PROVE OneListing'
  <2> DEFINE op == s.cmdq[1].op
  <2>1. /\ s.cmdq # <<>> /\ Head(s.cmdq) = s.cmdq[1] /\ Len(s.cmdq) \in Nat \ {0}
        /\ s'.data = (s.data \/ op = "PASV") /\ s'.reply = s.reply
        /\ s'.files \in {<<>>, s.files}
        /\ s'.cmdq = Tail(s.cmdq) \/ s'.cmdq = Append(Tail(s.cmdq), Cmd("pwd"))
    BY <1>1, <1>4, <1>10, ReplyFacts, EmptySeq
  <2>2. /\ op = "PASV" => conns = <<>> /\ Len(conns') = 1 /\ conns' # <<>> /\ ~conns'[1].reads
        /\ op = "LIST" => Len(conns') = 1
        /\ op \notin {"PASV", "LIST"} => conns' = conns
    BY <1>2, <1>10, ReplyConns
  <2>3. op # "PASV" /\ s'.cmdq # <<>> => s'.cmdq[1].op # "LIST"
    BY <1>1, <1>10, FirstAfterReply
  <2>4. s.reply = "none" => op \notin {"PASV", "LIST"}
    BY <1>3, <2>1 DEF OneListing
  <2>5. ASSUME s.reply = "none", NEW i \in 1 .. Len(s'.cmdq)
        PROVE  s'.cmdq[i].op \notin {"PASV", "LIST"}
    <3>1. /\ Tail(s.cmdq) \in Seq(Command) /\ Len(Tail(s.cmdq)) = Len(s.cmdq) - 1
          /\ \A j \in 1 .. Len(Tail(s.cmdq)) : Tail(s.cmdq)[j] = s.cmdq[j + 1]
      BY <1>4, <2>1, HeadTailProperties
    <3>2. \A j \in 1 .. Len(Tail(s.cmdq)) : Tail(s.cmdq)[j].op \notin {"PASV", "LIST"}
      BY <1>3, <2>1, <2>5, <3>1 DEF OneListing
    <3>3. Cmd("pwd") \in Command /\ Cmd("pwd").op = "pwd"
      BY CmdType DEF Op
    <3>4. CASE s'.cmdq = Tail(s.cmdq)
      BY <3>2, <3>4
    <3>5. CASE s'.cmdq = Append(Tail(s.cmdq), Cmd("pwd"))
      BY <2>5, <3>1, <3>2, <3>3, <3>5, FirstStays
    <3> QED
      BY <2>1, <3>4, <3>5
  <2>6. Len(conns') \in {0, 1}
    <3>1. Len(conns) \in {0, 1}
      BY <1>3 DEF OneListing
    <3>2. Len(conns') = 1 \/ conns' = conns
      BY <2>2
    <3> QED
      BY <3>1, <3>2
  <2>7. (s'.cmdq # <<>> /\ s'.cmdq[1].op = "LIST") => s'.data /\ conns' # <<>> /\ ~conns'[1].reads
    BY <2>1, <2>2, <2>3
  <2>8. s'.reply = "none" => s'.files = <<>> /\ conns' = <<>>
    BY <1>3, <2>1, <2>2, <2>4 DEF OneListing
  <2>9. s'.reply # "queue"
    BY <1>3, <2>1 DEF OneListing
  <2> QED
    BY <2>1, <2>5, <2>6, <2>7, <2>8, <2>9 DEF OneListing
<1>11. CASE ListEnd
  <2> DEFINE r == [s EXCEPT !.busy = FALSE]
  <2>1. r \in Session /\ r.cmdq = s.cmdq /\ r.data = s.data /\ r.reply = s.reply /\ r.files = s.files
    BY <1>4 DEF Session
  <2>2. s' = Restart(r) /\ conns' = conns
    BY <1>11 DEF ListEnd
  <2> HIDE DEF r
  <2>3. s'.cmdq = s.cmdq /\ s'.data = s.data /\ s'.reply = s.reply /\ s'.files = s.files
    BY <2>1, <2>2, RestartFacts
  <2> QED
    BY <1>3, <2>2, <2>3 DEF OneListing
<1>12. ~Lent
  BY <1>1, LentFacts DEF Clean
<1>13. ASSUME NEW i \in DOMAIN conns, Parse(i) PROVE OneListing'
  <2>1. /\ i \in 1 .. Len(conns) /\ conns' \in Seq(Connection) /\ Len(conns') = Len(conns)
        /\ \A j \in 1 .. Len(conns) : conns'[j].reads = conns[j].reads
    BY <1>1, <1>13, ParseFacts
  <2>2. Len(conns) = 1 /\ conns # <<>> /\ conns' # <<>> /\ conns'[1].reads = conns[1].reads
    <3>1. Len(conns) = 1
      BY <1>3, <1>4, <2>1 DEF OneListing
    <3>2. Len(<<>>) = 0
      OBVIOUS
    <3> QED
      BY <2>1, <3>1, <3>2
  <2>3. s'.cmdq = s.cmdq /\ s'.data = s.data /\ s'.reply = s.reply
    <3>1. PICK e \in Entry : s' = [s EXCEPT !.files = Append(@, e)]
      BY <1>1, <1>13, ParseFacts
    <3> QED
      BY <1>4, <3>1 DEF Session
  <2> QED
    BY <1>3, <2>1, <2>2, <2>3 DEF OneListing
<1>14. ASSUME NEW i \in DOMAIN conns, DataClosed(i) PROVE OneListing'
  <2>1. /\ i \in 1 .. Len(conns) /\ conns # <<>> /\ (Len(conns) = 1 => conns' = <<>>)
        /\ s'.cmdq = s.cmdq /\ s'.files = s.files /\ s'.reply = s.reply
    BY <1>1, <1>14, ClosedFacts
  <2>2. Len(conns) = 1
    <3>1. Len(conns) \in {0, 1} /\ Len(conns) \in Nat \ {0}
      BY <1>3, <1>4, <2>1, EmptySeq DEF OneListing
    <3> QED
      BY <3>1
  <2>3. conns[1].reads
    BY <1>14, <2>1, <2>2 DEF DataClosed
  <2> QED
    BY <1>3, <2>1, <2>2, <2>3 DEF OneListing
<1> QED
  BY <1>1, <1>6, <1>7, <1>8, <1>9, <1>10, <1>11, <1>12, <1>13, <1>14, StepCases

-----------------------------------------------------------------------------
(* What is owed. *)

\* Only DISCONNECT takes the session away, and no step brings it back.
LEMMA UpFalls ==
  ASSUME TypeOK, [Next]_vars
  PROVE  Lost \/ up' = up
<1>1. ASSUME NEW k \in Plain, NEW c \in Command, Asks(k, c) PROVE up' = up
  BY <1>1 DEF Asks
<1>2. ASSUME NEW fid \in Fid, Ren(fid) PROVE up' = up
  BY <1>2 DEF Ren, Gives
<1>3. ASSUME NEW code \in Code, Reply(code) PROVE up' = up
  BY <1>3 DEF Reply
<1>4. Lists \/ Cached \/ There \/ ListEnd => up' = up
  BY DEF Lists, Cached, There, ListEnd
<1>5. Lent => up' = up
  BY Zenon DEF Lent
<1>6. ASSUME NEW i \in DOMAIN conns, Parse(i) \/ DataClosed(i) PROVE up' = up
  BY <1>6 DEF Parse, DataClosed
<1>7. UNCHANGED vars => up' = up
  BY DEF vars
<1> QED
  BY <1>1, <1>2, <1>3, <1>4, <1>5, <1>6, <1>7, StepCases

\* Of every name but that of the PWD that follows a CWD, a reply takes one away
\* if it is that of the command.
LEMMA CountAfterReply ==
  ASSUME TypeOK, Sent, NEW code \in Code, Reply(code), NEW op, op # "pwd"
  PROVE  /\ Queued(s'.cmdq, op) = Queued(s.cmdq, op) - (IF s.cmdq[1].op = op THEN 1 ELSE 0)
         /\ Queued(s.cmdq, op) \in Nat
<1>1. /\ s.cmdq # <<>> /\ s.cmdq \in Seq(Command) /\ Head(s.cmdq) = s.cmdq[1]
      /\ Tail(s.cmdq) \in Seq(Command)
      /\ s'.cmdq = Tail(s.cmdq) \/ s'.cmdq = Append(Tail(s.cmdq), Cmd("pwd"))
  BY PartTypes, ReplyFacts
<1>2. Cmd("pwd") \in Command /\ Cmd("pwd").op # op
  BY CmdType DEF Op
<1>3. Queued(Tail(s.cmdq), op) = Queued(s.cmdq, op) - (IF s.cmdq[1].op = op THEN 1 ELSE 0)
  BY <1>1, QueuedTail
<1>4. Queued(Append(Tail(s.cmdq), Cmd("pwd")), op) = Queued(Tail(s.cmdq), op) + 0
  BY <1>1, <1>2, QueuedAppend
<1>5. Queued(s.cmdq, op) \in Nat /\ Queued(Tail(s.cmdq), op) \in Nat
  BY <1>1, QueuedType
<1>6. Queued(s'.cmdq, op) = Queued(Tail(s.cmdq), op)
  <2>1. CASE s'.cmdq = Tail(s.cmdq)
    BY <2>1, Zenon
  <2>2. CASE s'.cmdq = Append(Tail(s.cmdq), Cmd("pwd"))
    <3>1. Queued(s'.cmdq, op) = Queued(Append(Tail(s.cmdq), Cmd("pwd")), op)
      BY <2>2, Zenon
    <3> QED
      BY <1>4, <1>5, <3>1
  <2> QED
    BY <1>1, <2>1, <2>2
<1> QED
  BY <1>3, <1>5, <1>6

\* A reply settles what it answers.
LEMMA OwedAfterReply ==
  ASSUME AnswerInv, NEW code \in Code, Reply(code), Clean, Clean', Owed
  PROVE  Owed'
<1> DEFINE op == s.cmdq[1].op
           ok == code = "ok"
<1>1. /\ TypeOK /\ Sent /\ Paired /\ owes \in [Kind -> Int] /\ rnfr \in BOOLEAN
      /\ s.cmdq # <<>> /\ Head(s.cmdq) = s.cmdq[1] /\ s.cmdq[1] \in Command
  BY ReplyFacts, PartTypes DEF AnswerInv, TypeOK
<1>2. op \in Op
  BY <1>1 DEF Command
<1>3. \A k \in Plain \cup {"RNFR", "LIST"} :
        /\ Queued(s'.cmdq, k) = Queued(s.cmdq, k) - (IF op = k THEN 1 ELSE 0)
        /\ Queued(s.cmdq, k) \in Nat
  BY <1>1, CountAfterReply DEF Plain
<1>4. /\ op = "RNFR" => s'.cmdq # <<>> /\ s'.cmdq[1].op = "RNTO"
      /\ op # "RNFR" /\ s'.cmdq # <<>> => s'.cmdq[1].op # "RNTO"
  BY <1>1, FirstAfterReply
<1>5. /\ op = "PASV" => conns = <<>> /\ conns' # <<>> /\ ~conns'[1].reads
      /\ op = "LIST" => conns # <<>> /\ ~conns[1].reads /\ conns' # <<>> /\ conns'[1].reads
      /\ op \notin {"PASV", "LIST"} => conns' = conns
  BY ReplyConns
<1>6. /\ owes' = Answer(op, ok)
      /\ rnfr' = (rnfr \/ (op = "RNFR" /\ ok))
      /\ op = "RNFR" /\ ~ok => ~rnfr
  <2>1. /\ owes' = Answer(Head(s.cmdq).op, ok)
        /\ rnfr' = (rnfr \/ (Head(s.cmdq).op = "RNFR" /\ ok))
    BY DEF Reply
  <2>2. Head(s.cmdq).op = "RNFR" /\ ~ok /\ rnfr => "renamed" \in odd'
    BY DEF Reply
  <2>3. op = "RNFR" /\ ~ok => ~rnfr
    BY <1>1, <2>2 DEF Clean
  <2> QED
    BY <1>1, <2>1, <2>3
<1>7. op \in Plain \cup {"pwd", "PASV", "LIST", "RNFR", "RNTO"}
  BY <1>2 DEF Op, Plain
<1>8. Kind = Plain \cup {"REN", "DIRLIST"}
  BY DEF Kind, Plain
<1>9. /\ \A k \in Plain : owes[k] = Queued(s.cmdq, k)
      /\ owes["REN"] = Queued(s.cmdq, "RNFR") + (IF op = "RNTO" /\ rnfr THEN 1 ELSE 0)
      /\ owes["DIRLIST"] = Queued(s.cmdq, "LIST") + Reading
  BY <1>1 DEF Owed, Renames
<1>10. Renames' = IF op = "RNFR" /\ rnfr' THEN 1 ELSE 0
  BY <1>4 DEF Renames
<1> HIDE DEF op
<1>11. \A k \in Plain : owes'[k] = Queued(s'.cmdq, k)
  <2> SUFFICES ASSUME NEW k \in Plain PROVE owes'[k] = Queued(s'.cmdq, k)
    OBVIOUS
  <2>1. k # "REN" /\ k # "DIRLIST" /\ k \in Kind /\ "REN" \in Kind
        /\ k \notin {"pwd", "PASV", "LIST", "RNFR", "RNTO"}
    BY DEF Plain, Kind
  <2>2. owes'[k] = owes[k] - (IF op = k THEN 1 ELSE 0)
    <3>1. CASE op \in {"pwd", "PASV", "LIST", "RNFR", "RNTO"}
      <4>1. owes' = owes \/ owes' = [owes EXCEPT !["REN"] = @ - 1]
        BY <1>6, <3>1 DEF Answer
      <4> QED
        BY <1>1, <2>1, <3>1, <4>1
    <3>2. CASE op \in Plain
      <4>1. owes' = [owes EXCEPT ![op] = @ - 1] /\ op \in Kind
        BY <1>6, <3>2 DEF Answer, Plain, Kind
      <4> QED
        BY <1>1, <2>1, <4>1
    <3> QED
      BY <1>7, <3>1, <3>2
  <2> QED
    BY <1>3, <1>9, <2>2
<1>12. owes'["REN"] = Queued(s'.cmdq, "RNFR") + Renames'
  <2>1. "REN" \in Kind
    BY DEF Kind
  <2>2. /\ Queued(s'.cmdq, "RNFR") = Queued(s.cmdq, "RNFR") - (IF op = "RNFR" THEN 1 ELSE 0)
        /\ Queued(s.cmdq, "RNFR") \in Nat
    BY <1>3
  <2>3. CASE op = "RNFR" /\ ok
    <3>1. owes' = owes
      BY <1>6, <2>3 DEF Answer
    <3>2. rnfr'
      <4>1. rnfr \/ (op = "RNFR" /\ ok)
        BY <2>3
      <4> QED
        BY <1>6, <4>1, Zenon
    <3> QED
      BY <1>9, <1>10, <2>2, <2>3, <3>1, <3>2
  <2>4. CASE op = "RNFR" /\ ~ok
    <3>1. owes' = [owes EXCEPT !["REN"] = @ - 1] /\ ~rnfr'
      BY <1>6, <2>4 DEF Answer
    <3>2. owes'["REN"] = owes["REN"] - 1
      BY <1>1, <2>1, <3>1
    <3> QED
      BY <1>9, <1>10, <2>2, <2>4, <3>1, <3>2
  <2>5. CASE op = "RNTO" /\ rnfr
    <3>1. owes' = [owes EXCEPT !["REN"] = @ - 1]
      BY <1>6, <2>5 DEF Answer
    <3>2. owes'["REN"] = owes["REN"] - 1
      BY <1>1, <2>1, <3>1
    <3> QED
      BY <1>9, <1>10, <2>2, <2>5, <3>2
  <2>6. CASE op = "RNTO" /\ ~rnfr
    <3>1. owes' = owes
      BY <1>6, <2>6 DEF Answer
    <3> QED
      BY <1>9, <1>10, <2>2, <2>6, <3>1
  <2>7. CASE op \in Plain \cup {"pwd", "PASV", "LIST"}
    <3>1. owes' = owes \/ (op \in Plain /\ owes' = [owes EXCEPT ![op] = @ - 1])
      BY <1>6, <2>7 DEF Answer, Plain
    <3>2. op # "REN" /\ op # "RNFR" /\ op # "RNTO"
      BY <2>7 DEF Plain
    <3>3. owes'["REN"] = owes["REN"]
      BY <1>1, <2>1, <3>1, <3>2
    <3> QED
      BY <1>9, <1>10, <2>2, <3>2, <3>3
  <2> QED
    BY <1>7, <2>3, <2>4, <2>5, <2>6, <2>7
<1>13. owes'["DIRLIST"] = Queued(s'.cmdq, "LIST") + Reading'
  <2>1. owes'["DIRLIST"] = owes["DIRLIST"]
    <3>1. "DIRLIST" \in Kind /\ "REN" \in Kind /\ "DIRLIST" \notin Plain
      BY DEF Kind, Plain
    <3>2. owes' = owes \/ owes' = [owes EXCEPT !["REN"] = @ - 1]
            \/ (op \in Plain /\ owes' = [owes EXCEPT ![op] = @ - 1])
      BY <1>6, <1>7 DEF Answer
    <3> QED
      BY <1>1, <3>1, <3>2
  <2>2. Reading' = Reading + (IF op = "LIST" THEN 1 ELSE 0) /\ Reading \in Nat
    BY <1>5 DEF Reading
  <2> QED
    BY <1>3, <1>9, <2>1, <2>2
<1> QED
  BY <1>11, <1>12, <1>13 DEF Owed

LEMMA OwedStep ==
  ASSUME AnswerInv, [Next]_vars, Clean', up'
  PROVE  Owed'
<1>1. TypeOK /\ Sent /\ Paired /\ odd \subseteq odd'
  BY OddGrows DEF AnswerInv
<1>2. ~Lost
  BY DEF Lost
<1>3. Clean /\ up
  BY <1>1, <1>2, UpFalls DEF Clean
<1>4. OneListing /\ Owed
  BY <1>3 DEF AnswerInv
<1>5. /\ s \in Session /\ s.cmdq \in Seq(Command) /\ conns \in Seq(Connection)
      /\ owes \in [Kind -> Int]
  BY <1>1, PartTypes
<1>6. \A k : Queued(s.cmdq, k) \in Nat
  BY <1>5, QueuedType
<1>7. /\ \A k \in Plain : owes[k] = Queued(s.cmdq, k)
      /\ owes["REN"] = Queued(s.cmdq, "RNFR") + Renames
      /\ owes["DIRLIST"] = Queued(s.cmdq, "LIST") + Reading
      /\ Renames \in Nat /\ Reading \in Nat
  BY <1>4 DEF Owed, Renames, Reading
<1>8. /\ "REN" \in Kind /\ "DIRLIST" \in Kind /\ Plain \subseteq Kind
      /\ "REN" \notin Plain /\ "DIRLIST" \notin Plain /\ "RNFR" \notin Plain
      /\ "RNTO" \notin Plain /\ "LIST" \notin Plain /\ "PASV" \notin Plain
  BY DEF Kind, Plain
<1>9. ASSUME UNCHANGED <<conns, rnfr, owes>>, s'.cmdq = s.cmdq PROVE Owed'
  BY <1>4, <1>9 DEF Owed, Renames, Reading
<1>10. ASSUME NEW k \in Plain, NEW c \in Command, Asks(k, c) PROVE Owed'
  <2>1. /\ c.op = k /\ s'.cmdq = Append(s.cmdq, c) /\ owes' = [owes EXCEPT ![k] = @ + 1]
        /\ UNCHANGED <<conns, rnfr>>
    BY <1>10 DEF Asks
  <2>2. \A op : Queued(s'.cmdq, op) = Queued(s.cmdq, op) + (IF k = op THEN 1 ELSE 0)
    BY <1>5, <2>1, QueuedAppend
  <2>3. \A j \in Kind : owes'[j] = owes[j] + (IF k = j THEN 1 ELSE 0)
    BY <1>5, <1>8, <2>1
  <2>4. Renames' = Renames
    <3>1. s'.cmdq # <<>> /\ s'.cmdq[1] = IF s.cmdq = <<>> THEN c ELSE s.cmdq[1]
      BY <1>5, <2>1, FirstStays
    <3> QED
      BY <1>8, <2>1, <3>1 DEF Renames
  <2>5. Reading' = Reading
    BY <2>1 DEF Reading
  <2>6. \A j \in Plain : owes'[j] = Queued(s'.cmdq, j)
    BY <1>6, <1>7, <1>8, <2>2, <2>3
  <2>7. owes'["REN"] = Queued(s'.cmdq, "RNFR") + Renames'
    BY <1>6, <1>7, <1>8, <2>2, <2>3, <2>4
  <2>8. owes'["DIRLIST"] = Queued(s'.cmdq, "LIST") + Reading'
    BY <1>6, <1>7, <1>8, <2>2, <2>3, <2>5
  <2> QED
    BY <2>6, <2>7, <2>8 DEF Owed
<1>11. ASSUME NEW fid \in Fid, Ren(fid) PROVE Owed'
  <2>1. PICK c \in Command : c.op = "RNFR" /\ s'.cmdq = Append(Append(s.cmdq, c), Cmd("RNTO"))
    BY <1>1, <1>11, RenFacts
  <2>2. owes' = [owes EXCEPT !["REN"] = @ + 1] /\ UNCHANGED <<conns, rnfr>>
    BY <1>11 DEF Ren, Gives
  <2> DEFINE q == Append(s.cmdq, c)
             d == Cmd("RNTO")
  <2>3. d \in Command /\ d.op = "RNTO"
    BY CmdType DEF Op
  <2>4. q \in Seq(Command) /\ q # <<>> /\ q[1] = IF s.cmdq = <<>> THEN c ELSE s.cmdq[1]
    BY <1>5, FirstStays
  <2>5. \A op : Queued(q, op) = Queued(s.cmdq, op) + (IF c.op = op THEN 1 ELSE 0)
    BY <1>5, QueuedAppend
  <2> HIDE DEF q, d
  <2>6. \A op : Queued(Append(q, d), op) = Queued(q, op) + (IF d.op = op THEN 1 ELSE 0)
    BY <2>3, <2>4, QueuedAppend
  <2>7. Append(q, d) # <<>> /\ Append(q, d)[1] = q[1]
    BY <2>3, <2>4, FirstStays
  <2>8. s'.cmdq = Append(q, d)
    BY <2>1 DEF q, d
  <2>9. \A op : Queued(s'.cmdq, op) = Queued(s.cmdq, op) + (IF op = "RNFR" THEN 1 ELSE 0)
                                       + (IF op = "RNTO" THEN 1 ELSE 0)
    BY <2>1, <2>3, <2>5, <2>6, <2>8
  <2>10. \A j \in Kind : owes'[j] = owes[j] + (IF j = "REN" THEN 1 ELSE 0)
    BY <1>5, <1>8, <2>2
  <2>11. Renames' = Renames
    BY <2>1, <2>2, <2>4, <2>7, <2>8 DEF Renames
  <2>12. Reading' = Reading
    BY <2>2 DEF Reading
  <2>13. \A j \in Plain : owes'[j] = Queued(s'.cmdq, j)
    BY <1>6, <1>7, <1>8, <2>9, <2>10
  <2>14. owes'["REN"] = Queued(s'.cmdq, "RNFR") + Renames'
    BY <1>6, <1>7, <1>8, <2>9, <2>10, <2>11
  <2>15. owes'["DIRLIST"] = Queued(s'.cmdq, "LIST") + Reading'
    BY <1>6, <1>7, <1>8, <2>9, <2>10, <2>12
  <2> QED
    BY <2>13, <2>14, <2>15 DEF Owed
<1>12. CASE Lists
  <2> DEFINE c == Cmd("PASV")
             d == Cmd("LIST")
             q == Append(s.cmdq, c)
  <2>1. /\ s'.cmdq = Append(q, d) /\ owes' = [owes EXCEPT !["DIRLIST"] = @ + 1]
        /\ UNCHANGED <<conns, rnfr>>
    BY <1>5, <1>12, SendListFacts DEF Lists
  <2>2. c \in Command /\ c.op = "PASV" /\ d \in Command /\ d.op = "LIST"
    BY CmdType DEF Op
  <2> HIDE DEF c, d
  <2>3. q \in Seq(Command) /\ q # <<>> /\ q[1] = IF s.cmdq = <<>> THEN c ELSE s.cmdq[1]
    BY <1>5, <2>2, FirstStays
  <2>4. \A op : Queued(q, op) = Queued(s.cmdq, op) + (IF c.op = op THEN 1 ELSE 0)
    BY <1>5, <2>2, QueuedAppend
  <2> HIDE DEF q
  <2>5. \A op : Queued(Append(q, d), op) = Queued(q, op) + (IF d.op = op THEN 1 ELSE 0)
    BY <2>2, <2>3, QueuedAppend
  <2>6. Append(q, d) # <<>> /\ Append(q, d)[1] = q[1]
    BY <2>2, <2>3, FirstStays
  <2>7. \A op : Queued(s'.cmdq, op) = Queued(s.cmdq, op) + (IF op = "PASV" THEN 1 ELSE 0)
                                       + (IF op = "LIST" THEN 1 ELSE 0)
    BY <2>1, <2>2, <2>4, <2>5
  <2>8. \A j \in Kind : owes'[j] = owes[j] + (IF j = "DIRLIST" THEN 1 ELSE 0)
    BY <1>5, <1>8, <2>1
  <2>9. Renames' = Renames
    BY <2>1, <2>2, <2>3, <2>6 DEF Renames
  <2>10. Reading' = Reading
    BY <2>1 DEF Reading
  <2>11. \A j \in Plain : owes'[j] = Queued(s'.cmdq, j)
    BY <1>6, <1>7, <1>8, <2>7, <2>8
  <2>12. owes'["REN"] = Queued(s'.cmdq, "RNFR") + Renames'
    BY <1>6, <1>7, <1>8, <2>7, <2>8, <2>9
  <2>13. owes'["DIRLIST"] = Queued(s'.cmdq, "LIST") + Reading'
    BY <1>6, <1>7, <1>8, <2>7, <2>8, <2>10
  <2> QED
    BY <2>11, <2>12, <2>13 DEF Owed
<1>13. CASE Cached
  <2>1. s.reply = "user"
    BY <1>4, <1>5, <1>13 DEF Cached, OneListing, Session
  <2> QED
    BY <1>9, <1>13, <2>1 DEF Cached
<1>14. CASE There \/ UNCHANGED vars
  BY <1>9, <1>14 DEF There, vars
<1>15. ASSUME NEW code \in Code, Reply(code) PROVE Owed'
  BY <1>3, <1>4, <1>15, OwedAfterReply
<1>16. CASE ListEnd
  <2> DEFINE r == [s EXCEPT !.busy = FALSE]
  <2>1. r \in Session /\ r.cmdq = s.cmdq
    BY <1>5 DEF Session
  <2>2. s' = Restart(r) /\ UNCHANGED <<conns, rnfr, owes>>
    BY <1>16 DEF ListEnd
  <2> HIDE DEF r
  <2>3. s'.cmdq = s.cmdq
    BY <2>1, <2>2, RestartFacts
  <2> QED
    BY <1>9, <2>2, <2>3
<1>17. ~Lent
  BY <1>1, LentFacts DEF Clean
<1>18. ASSUME NEW i \in DOMAIN conns, Parse(i) PROVE Owed'
  <2>1. /\ i \in 1 .. Len(conns) /\ conns' \in Seq(Connection) /\ Len(conns') = Len(conns)
        /\ \A j \in 1 .. Len(conns) : conns'[j].reads = conns[j].reads
    BY <1>1, <1>18, ParseFacts
  <2>2. Len(conns) = 1
    BY <1>4, <1>5, <2>1 DEF OneListing
  <2>3. conns # <<>> /\ conns' # <<>> /\ conns'[1].reads = conns[1].reads
    BY <2>1, <2>2
  <2>4. Reading' = Reading
    BY <2>3 DEF Reading
  <2>5. s'.cmdq = s.cmdq
    <3>1. PICK e \in Entry : s' = [s EXCEPT !.files = Append(@, e)]
      BY <1>1, <1>18, ParseFacts
    <3> QED
      BY <1>5, <3>1 DEF Session
  <2>6. UNCHANGED <<rnfr, owes>>
    BY <1>18 DEF Parse
  <2>7. Renames' = Renames
    BY <2>5, <2>6 DEF Renames
  <2> QED
    BY <1>7, <2>4, <2>5, <2>6, <2>7 DEF Owed
<1>19. ASSUME NEW i \in DOMAIN conns, DataClosed(i) PROVE Owed'
  <2>1. /\ i \in 1 .. Len(conns) /\ conns # <<>> /\ (Len(conns) = 1 => conns' = <<>>)
        /\ s'.cmdq = s.cmdq
    BY <1>1, <1>19, ClosedFacts
  <2>2. Len(conns) = 1
    BY <1>4, <1>5, <2>1 DEF OneListing
  <2>3. conns[1].reads /\ owes' = [owes EXCEPT !["DIRLIST"] = @ - 1] /\ rnfr' = rnfr
    BY <1>19, <2>1, <2>2 DEF DataClosed
  <2>4. Reading = 1 /\ Reading' = 0
    BY <2>1, <2>2, <2>3 DEF Reading
  <2>5. Renames' = Renames
    BY <2>1, <2>3 DEF Renames
  <2>6. \A j \in Kind : owes'[j] = owes[j] - (IF j = "DIRLIST" THEN 1 ELSE 0)
    BY <1>5, <1>8, <2>3
  <2>10. \A op : Queued(s'.cmdq, op) = Queued(s.cmdq, op)
    BY <2>1, Zenon
  <2>7. \A j \in Plain : owes'[j] = Queued(s'.cmdq, j)
    BY <1>6, <1>7, <1>8, <2>6, <2>10
  <2>8. owes'["REN"] = Queued(s'.cmdq, "RNFR") + Renames'
    BY <1>6, <1>7, <1>8, <2>5, <2>6, <2>10
  <2>9. owes'["DIRLIST"] = Queued(s'.cmdq, "LIST") + Reading'
    BY <1>6, <1>7, <1>8, <2>4, <2>6, <2>10
  <2> QED
    BY <2>7, <2>8, <2>9 DEF Owed
<1> QED
  BY <1>1, <1>2, <1>10, <1>11, <1>12, <1>13, <1>14, <1>15, <1>16, <1>17, <1>18, <1>19, StepCases

-----------------------------------------------------------------------------
(* The theorem on answers. *)

LEMMA AnswerInit ==
  ASSUME Init
  PROVE  AnswerInv
<1>1. s \in Session
  <2>1. <<>> \in Seq(Command) /\ <<>> \in Seq(Entry)
    BY EmptySeq
  <2> QED
    BY <2>1, PathType DEF Init, Session
<1>2. conns = <<>> /\ conns \in Seq(Connection) /\ told \in Seq(Entry)
  BY EmptySeq DEF Init
<1>3. owes \in [Kind -> Int] /\ \A k \in Kind : owes[k] = 0
  BY DEF Init
<1>4. TypeOK
  <2>1. asks \in 0 .. MaxAsks
    BY CommandsAssumption DEF Init
  <2>2. odd \subseteq {"home", "early", "coded", "hurry", "renamed", "overlap", "lent",
                    "near", "unsaid"}
    BY DEF Init
  <2>3. up \in BOOLEAN /\ rnfr \in BOOLEAN /\ cwd \in {Top, Sub}
    BY DEF Init
  <2> QED
    BY <1>1, <1>2, <1>3, <2>1, <2>2, <2>3 DEF TypeOK
<1>5. s.cmdq = <<>> /\ s.isidle /\ s.files = <<>> /\ s.reply = "none" /\ up /\ rnfr = FALSE
  BY DEF Init
<1>6. Sent /\ Gone /\ Paired
  BY <1>5, PairsEmpty DEF Sent, Gone, Paired
<1>7. OneListing
  BY <1>2, <1>5 DEF OneListing
<1>8. Owed
  <2>1. \A op : Queued(s.cmdq, op) = 0
    BY <1>5, QueuedEmpty
  <2>2. Renames = 0 /\ Reading = 0
    BY <1>2, <1>5 DEF Renames, Reading
  <2>3. Plain \subseteq Kind /\ "REN" \in Kind /\ "DIRLIST" \in Kind
    BY DEF Plain, Kind
  <2> QED
    BY <1>3, <2>1, <2>2, <2>3 DEF Owed
<1> QED
  BY <1>4, <1>6, <1>7, <1>8 DEF AnswerInv

LEMMA AnswerStep ==
  ASSUME AnswerInv, [Next]_vars
  PROVE  AnswerInv'
<1>1. TypeOK /\ Sent /\ Gone /\ Paired
  BY DEF AnswerInv
<1>2. TypeOK' /\ Sent'
  BY <1>1, TypeStep, SentStep
<1>3. Gone' /\ Paired'
  BY <1>1, GoneStep, PairedStep
<1>4. Clean' => OneListing'
  BY OneListingStep
<1>5. Clean' /\ up' => Owed'
  BY OwedStep
<1> QED
  BY <1>2, <1>3, <1>4, <1>5 DEF AnswerInv

LEMMA AnswerGives ==
  ASSUME AnswerInv
  PROVE  AnsweredOnce
<1>1. TypeOK /\ Gone
  BY DEF AnswerInv
<1>2. s.cmdq \in Seq(Command) /\ conns \in Seq(Connection)
  BY <1>1, PartTypes
<1>3. ASSUME Clean, NEW k \in Kind
      PROVE  /\ owes[k] >= 0
             /\ s.cmdq = <<>> /\ ~s.busy /\ ~(\E i \in DOMAIN conns : conns[i].reads)
                  => owes[k] = 0
  <2>1. CASE ~up
    BY <1>1, <2>1 DEF Gone
  <2>2. CASE up
    <3>1. Owed /\ OneListing
      BY <1>3, <2>2 DEF AnswerInv
    <3>2. \A op : Queued(s.cmdq, op) \in Nat
      BY <1>2, QueuedType
    <3>3. Renames \in Nat /\ Reading \in Nat /\ (s.cmdq = <<>> => Renames = 0)
      BY DEF Renames, Reading
    <3>4. k \in Plain \/ k = "REN" \/ k = "DIRLIST"
      BY DEF Kind, Plain
    <3>5. owes[k] >= 0
      BY <3>1, <3>2, <3>3, <3>4 DEF Owed
    <3>6. ASSUME s.cmdq = <<>>, ~(\E i \in DOMAIN conns : conns[i].reads)
          PROVE  owes[k] = 0
      <4>1. \A op : Queued(s.cmdq, op) = 0
        BY <3>6, QueuedEmpty
      <4>2. Reading = 0
        <5>1. conns # <<>> => 1 \in DOMAIN conns
          BY <1>2
        <5> QED
          BY <3>6, <5>1 DEF Reading
      <4> QED
        BY <3>1, <3>3, <3>4, <3>6, <4>1, <4>2 DEF Owed
    <3> QED
      BY <3>5, <3>6
  <2> QED
    BY <2>1, <2>2
<1> QED
  BY <1>1, <1>3 DEF AnsweredOnce, Clean

\* A command is answered once, never twice, and nobody waits for a session that
\* has nothing left to do, whatever the user asks and however its listings
\* interleave with its commands, unless a REN fails after one that did not, a
\* listing overtakes the data of the one before, or a queue had the session
\* (handler_withuser, handler.c:63-311; session_cmdq_restart,
\* session.c:509-556).
THEOREM CommandsAnswered == Spec => []AnsweredOnce
<1>1. Init => AnswerInv
  BY AnswerInit
<1>2. AnswerInv /\ [Next]_vars => AnswerInv'
  BY AnswerStep
<1>3. AnswerInv => AnsweredOnce
  BY AnswerGives
<1> QED
  BY <1>1, <1>2, <1>3, PTL DEF Spec

-----------------------------------------------------------------------------
(* The file that the user has been shown. *)

Right == odd \cap {"home", "hurry", "early", "lent", "coded", "near", "unsaid"} = {}

\* A CWD of the user is not answered yet.
IsCwd(q) == q # <<>> /\ q[1].op = "CWD"
Waits == IsCwd(s.cmdq)

\* No listing is among the first n commands.
Unlisted(q, n) == \A i \in 1 .. n : q[i].op \notin {"PASV", "LIST"}

\* A CWD is the oldest command, and what waits behind it has an absolute path:
\* every command is for what it means where the server is now.
Apt(q, dir) ==
  /\ \A i \in 2 .. Len(q) : q[i].op # "CWD"
  /\ \A i \in 1 .. Len(q) : Resolve(dir, q[i].arg) = q[i].meant
  /\ IsCwd(q) => \A i \in 2 .. Len(q) : ~Relative(q[i].arg)

\* Where the session has been told to go: with a CWD that waits there is no data
\* to come, nor any to be asked for if it is relative.
Directed ==
  IF Waits
  THEN /\ s.saved = s.cmdq[1].arg /\ conns = <<>>
       /\ Relative(s.saved) => Unlisted(s.cmdq, Len(s.cmdq))
  ELSE s.saved \in {None, cwd} \/ Relative(s.saved)

\* PWD is to tell where a relative path has led, before anything is listed.
Asked ==
  /\ ~Waits /\ conns = <<>> /\ Relative(s.saved)
  /\ \E i \in 1 .. Len(s.cmdq) : s.cmdq[i].op = "pwd" /\ Unlisted(s.cmdq, i)

\* The session believes to be where the server is, or asks; every listing is of
\* there.
AtHome ==
  /\ Resolve(cwd, s.pwd) = cwd \/ Asked
  /\ \A i \in 1 .. Len(conns) : conns[i].dir = cwd

\* While no listing is under way the entries are those that the user was shown.
ListShown == conns = <<>> => s.files \in {<<>>, told}

Listed == \A i \in 1 .. Len(s.files) : Resolve(cwd, s.files[i].path) = s.files[i].real

RightParts == Apt(s.cmdq, cwd) /\ Directed /\ AtHome /\ ListShown /\ Listed

RightInv == TypeOK /\ Sent /\ (Right => RightParts)

\* An absolute path is the same from everywhere, "./" is where the server is, and
\* an entry of a directory is where the directory is.
LEMMA ResolveFacts ==
  /\ \A dir, path : ~Relative(path) => Resolve(dir, path) = path
  /\ ~Relative(Top) /\ ~Relative(Sub) /\ ~Relative(Own) /\ ~Relative(None)
  /\ \A dir \in {Top, Sub} : Resolve(dir, Here) = dir /\ Resolve(dir, Top) = Top
                             /\ Resolve(dir, Sub) = Sub /\ Resolve(dir, dir) = dir
  /\ \A dir \in Path, path \in Path, name \in Name \ {"."} :
       Resolve(dir, Append(path, name)) = Append(Resolve(dir, path), name)
<1>1. \A dir, path : ~Relative(path) => Resolve(dir, path) = path
  BY DEF Resolve
<1>2. ~Relative(Top) /\ ~Relative(Sub) /\ ~Relative(Own) /\ ~Relative(None)
  BY DEF Relative, Top, Sub, Own, None
<1>3. ASSUME NEW dir \in {Top, Sub} PROVE Resolve(dir, Here) = dir
  <2>1. Relative(Here) /\ Tail(Here) = <<>>
    BY DEF Relative, Here
  <2>2. dir \in Seq(Name)
    BY PathType DEF Path
  <2>3. dir \o <<>> = dir
    BY <2>2
  <2> QED
    BY <2>1, <2>3 DEF Resolve
<1>4. ASSUME NEW dir \in Path, NEW path \in Path, NEW name \in Name \ {"."}
      PROVE  Resolve(dir, Append(path, name)) = Append(Resolve(dir, path), name)
  <2> DEFINE p == Append(path, name)
  <2>1. path \in Seq(Name) /\ dir \in Seq(Name) /\ p \in Seq(Name) /\ Len(path) \in Nat
    BY DEF Path
  <2>2. Len(p) = Len(path) + 1 /\ p # <<>>
    BY <2>1
  <2>3. p[1] = IF path = <<>> THEN name ELSE path[1]
    <3>1. CASE path = <<>>
      BY <2>1, <3>1
    <3>2. CASE path # <<>>
      <4>1. Len(path) \in Nat \ {0}
        BY <2>1, <3>2, EmptySeq
      <4> QED
        BY <2>1, <3>2, <4>1
    <3> QED
      BY <3>1, <3>2
  <2>4. Relative(p) <=> Relative(path)
    BY <2>2, <2>3 DEF Relative
  <2>5. CASE ~Relative(path)
    BY <2>4, <2>5 DEF Resolve
  <2>6. CASE Relative(path)
    <3>1. path # <<>>
      BY <2>6 DEF Relative
    <3>2. Tail(p) = Append(Tail(path), name) /\ Tail(path) \in Seq(Name)
      <4>1. Len(path) \in Nat \ {0}
        BY <2>1, <3>1, EmptySeq
      <4> QED
        BY <2>1, <3>1, <4>1
    <3>3. dir \o Append(Tail(path), name) = Append(dir \o Tail(path), name)
      BY <2>1, <3>2
    <3> QED
      BY <2>4, <2>6, <3>2, <3>3 DEF Resolve
  <2> QED
    BY <2>5, <2>6
<1>5. \A dir \in {Top, Sub} : /\ Resolve(dir, Top) = Top /\ Resolve(dir, Sub) = Sub
                              /\ Resolve(dir, dir) = dir
  BY <1>1, <1>2
<1> QED
  BY <1>1, <1>2, <1>3, <1>4, <1>5

\* The path of a FID is that of the file that the user takes it for, unless a
\* listing is under way, and it is absolute behind a CWD.
LEMMA FidRight ==
  ASSUME TypeOK, ListShown, Listed, NEW fid \in Fid, Known(fid),
         OddFid(fid) \subseteq odd', Right'
  PROVE  /\ Resolve(cwd, GetFid(fid)) = Shown(fid)
         /\ Waits => ~Relative(GetFid(fid))
<1>1. s.files \in Seq(Entry) /\ told \in Seq(Entry) /\ s.cmdq \in Seq(Command)
  BY PartTypes
<1>2. CASE fid = 0
  BY <1>2, ResolveFacts DEF GetFid, Shown
<1>3. CASE fid # 0
  <2>1. fid \in DOMAIN s.files /\ fid \in 1 .. Len(s.files)
    BY <1>1, <1>3 DEF Known
  <2>2. conns = <<>>
    BY <1>3 DEF OddFid, Early, Right
  <2>3. s.files # <<>>
    BY <2>1
  <2>4. told = s.files
    BY <2>2, <2>3 DEF ListShown
  <2>5. Resolve(cwd, s.files[fid].path) = s.files[fid].real
    BY <2>1 DEF Listed
  <2>6. GetFid(fid) = s.files[fid].path /\ Shown(fid) = s.files[fid].real
    BY <1>3, <2>1, <2>4 DEF GetFid, Shown
  <2>7. Waits => \E i \in DOMAIN s.cmdq : s.cmdq[i].op = "CWD"
    <3>1. Waits => 1 \in DOMAIN s.cmdq
      BY <1>1 DEF Waits, IsCwd
    <3> QED
      BY <3>1 DEF Waits, IsCwd
  <2>8. Waits => ~Relative(GetFid(fid))
    BY <2>7 DEF OddFid, Behind, Right
  <2> QED
    BY <2>5, <2>6, <2>8
<1> QED
  BY <1>2, <1>3

\* A command that is for what it means, and may wait behind a CWD.
Fits(c) == Resolve(cwd, c.arg) = c.meant /\ (Waits => ~Relative(c.arg))

\* What the user asks, when it had better: every command fits, and a CWD is given
\* to a session that has nothing else to do.
LEMMA UserRight ==
  ASSUME TypeOK, ListShown, Listed, UserStep, Right'
  PROVE  \/ \E k \in Plain \ {"CWD"}, c \in Command : Asks(k, c) /\ Fits(c)
         \/ \E c \in Command : /\ Asks("CWD", c) /\ Fits(c) /\ s'.saved = c.arg
                               /\ s.cmdq = <<>> /\ conns = <<>>
         \/ \E fid \in Fid : Ren(fid) /\ Resolve(cwd, GetFid(fid)) = Shown(fid)
                             /\ (Waits => ~Relative(GetFid(fid)))
         \/ Lists \/ Cached \/ There
<1>1. ASSUME Spelled
      PROVE  \E k \in Plain \ {"CWD"}, c \in Command : Asks(k, c) /\ Fits(c)
  <2>1. PICK k \in Plain \ {"CWD"}, c \in Command : Asks(k, c) /\ c.arg = Own /\ c.meant = Own
    BY <1>1, SpelledAsks
  <2>2. Fits(c)
    BY <2>1, ResolveFacts DEF Fits
  <2> QED
    BY <2>1, <2>2
<1>2. ASSUME NEW fid \in Fid, Filed(fid)
      PROVE  \E k \in Plain \ {"CWD"}, c \in Command : Asks(k, c) /\ Fits(c)
  <2>1. PICK k \in Plain \ {"CWD"}, c \in Command :
          /\ Asks(k, c) /\ c.meant = Shown(fid) /\ Known(fid)
          /\ \/ c.arg = GetFid(fid)
             \/ c.arg = Decode(GetFid(fid)) /\ Coded(GetFid(fid)) \subseteq odd'
          /\ OddFid(fid) \subseteq odd'
    BY <1>2, FiledAsks
  <2>2. Resolve(cwd, GetFid(fid)) = Shown(fid) /\ (Waits => ~Relative(GetFid(fid)))
    BY <2>1, FidRight
  <2>3. Coded(GetFid(fid)) \subseteq odd' => Decode(GetFid(fid)) = GetFid(fid)
    <3> HIDE DEF Decode, GetFid
    <3> QED
      BY DEF Coded, Right
  <2>4. c.arg = GetFid(fid)
    BY <2>1, <2>3, Zenon
  <2>5. Fits(c)
    BY <2>1, <2>2, <2>4 DEF Fits
  <2> QED
    BY <2>1, <2>5
<1>3. ASSUME NEW fid \in Fid, Ren(fid)
      PROVE  Resolve(cwd, GetFid(fid)) = Shown(fid) /\ (Waits => ~Relative(GetFid(fid)))
  <2>1. Known(fid) /\ odd' = odd \cup OddFid(fid)
    BY <1>3 DEF Ren
  <2> QED
    BY <2>1, FidRight
<1>4. ASSUME NEW path \in Path, NEW meant \in Path, NEW coded \in SUBSET {"coded"},
             Cwd(path, meant, coded), Goes(path, meant, coded)
      PROVE  \/ There
             \/ \E c \in Command : /\ Asks("CWD", c) /\ Fits(c) /\ s'.saved = c.arg
                                   /\ s.cmdq = <<>> /\ conns = <<>>
  <2>1. CASE IsIn(s, path)
    BY <1>4, <2>1 DEF Cwd, There
  <2>2. CASE ~IsIn(s, path)
    <3>1. PICK c \in Command :
            /\ Asks("CWD", c) /\ c.arg = path /\ c.meant = meant /\ s'.saved = path
            /\ s.cmdq # <<>> \/ conns # <<>> => "hurry" \in odd'
            /\ coded \subseteq odd'
      BY <1>4, <2>2, CwdAsks
    <3>2. s.cmdq = <<>> /\ conns = <<>> /\ ~Waits
      BY <3>1 DEF Right, Waits, IsCwd
    <3>3. coded = {}
      BY <3>1 DEF Right
    <3>4. CASE path \in {Top, Sub} /\ meant = path
      BY <3>1, <3>2, <3>4, ResolveFacts DEF Fits
    <3>5. ASSUME NEW fid \in Fid, Known(fid), meant = Shown(fid),
                 path = Decode(GetFid(fid)), coded = Coded(GetFid(fid))
          PROVE  Fits(c)
      <4>1. OddFid(fid) = {}
        BY <3>2 DEF OddFid, Early, Behind
      <4>2. Resolve(cwd, GetFid(fid)) = Shown(fid)
        BY <3>5, <4>1, FidRight
      <4>3. path = GetFid(fid)
        <5> HIDE DEF Decode, GetFid
        <5> QED
          BY <3>3, <3>5 DEF Coded
      <4> QED
        BY <3>1, <3>2, <3>5, <4>2, <4>3 DEF Fits
    <3>6. Fits(c)
      BY <1>4, <3>1, <3>2, <3>4, <3>5, ResolveFacts DEF Goes, Fits
    <3> QED
      BY <3>1, <3>2, <3>6
  <2> QED
    BY <2>1, <2>2
<1>5. ASSUME NEW cacheok \in BOOLEAN, Dirlist(cacheok)
      PROVE  Lists \/ Cached
  <2>1. CASE cacheok /\ s.files # <<>>
    BY <1>5, <2>1 DEF Dirlist, Cached
  <2>2. CASE ~(cacheok /\ s.files # <<>>)
    BY <1>5, <2>2 DEF Dirlist, Lists, Gives
  <2> QED
    BY <2>1, <2>2
<1> QED
  BY <1>1, <1>2, <1>3, <1>4, <1>5, UserCases

\* A command that is no CWD and fits is appended.
LEMMA AppendApt ==
  ASSUME NEW q \in Seq(Command), NEW c \in Command, NEW dir, c.op # "CWD",
         Apt(q, dir), Resolve(dir, c.arg) = c.meant, IsCwd(q) => ~Relative(c.arg)
  PROVE  LET p == Append(q, c)
         IN  /\ p \in Seq(Command) /\ Apt(p, dir) /\ Len(p) = Len(q) + 1 /\ p[Len(q) + 1] = c
             /\ \A i \in 1 .. Len(q) : p[i] = q[i]
             /\ IsCwd(p) <=> IsCwd(q)
<1> DEFINE p == Append(q, c)
<1>1. /\ Len(q) \in Nat /\ Len(p) = Len(q) + 1 /\ p[Len(q) + 1] = c /\ p \in Seq(Command)
      /\ \A i \in 1 .. Len(q) : p[i] = q[i]
  BY LenProperties
<1>2. IsCwd(p) <=> IsCwd(q)
  <2>1. p # <<>> /\ p[1] = IF q = <<>> THEN c ELSE q[1]
    BY <1>1, FirstStays
  <2> QED
    BY <2>1 DEF IsCwd
<1> HIDE DEF p
<1>3. \A i \in 2 .. Len(p) : p[i].op # "CWD"
  BY <1>1 DEF Apt
<1>4. \A i \in 1 .. Len(p) : Resolve(dir, p[i].arg) = p[i].meant
  <2> SUFFICES ASSUME NEW i \in 1 .. Len(p) PROVE Resolve(dir, p[i].arg) = p[i].meant
    OBVIOUS
  <2>1. CASE i \in 1 .. Len(q)
    BY <1>1, <2>1 DEF Apt
  <2>2. CASE i = Len(q) + 1
    BY <1>1, <2>2
  <2> QED
    BY <1>1, <2>1, <2>2
<1>5. ASSUME IsCwd(p), NEW i \in 2 .. Len(p) PROVE ~Relative(p[i].arg)
  <2>1. CASE i \in 2 .. Len(q)
    BY <1>1, <1>2, <1>5, <2>1 DEF Apt
  <2>2. CASE i = Len(q) + 1
    BY <1>1, <1>2, <1>5, <2>2
  <2> QED
    BY <1>1, <1>5, <2>1, <2>2
<1>6. Apt(p, dir)
  BY <1>3, <1>4, <1>5 DEF Apt
<1> QED
  BY <1>1, <1>2, <1>6 DEF p

\* The queue without its oldest command has no CWD, and if that was one it fits
\* wherever the server has gone.
LEMMA TailApt ==
  ASSUME NEW q \in Seq(Command), NEW dir, q # <<>>, Apt(q, dir)
  PROVE  LET p == Tail(q)
         IN  /\ p \in Seq(Command) /\ Apt(p, dir) /\ ~IsCwd(p)
             /\ Len(q) \in Nat \ {0} /\ Len(p) = Len(q) - 1
             /\ \A i \in 1 .. Len(p) : p[i] = q[i + 1]
             /\ IsCwd(q) => \A there : Apt(p, there)
<1> DEFINE p == Tail(q)
<1>1. /\ Len(q) \in Nat \ {0} /\ p \in Seq(Command) /\ Len(p) = Len(q) - 1
      /\ \A i \in 1 .. Len(p) : p[i] = q[i + 1]
  BY HeadTailProperties, EmptySeq
<1> HIDE DEF p
<1>2. \A i \in 1 .. Len(p) : i + 1 \in 2 .. Len(q) /\ i + 1 \in 1 .. Len(q)
  BY <1>1
<1>3. \A i \in 1 .. Len(p) : p[i].op # "CWD" /\ Resolve(dir, p[i].arg) = p[i].meant
  BY <1>1, <1>2 DEF Apt
<1>4. \A i \in 2 .. Len(p) : i \in 1 .. Len(p)
  BY <1>1
<1>5. ~IsCwd(p)
  <2>1. p # <<>> => 1 \in 1 .. Len(p)
    <3>1. p # <<>> => Len(p) \in Nat \ {0}
      BY <1>1, EmptySeq
    <3> QED
      BY <3>1
  <2> QED
    BY <1>3, <2>1 DEF IsCwd
<1>6. Apt(p, dir)
  BY <1>3, <1>4, <1>5 DEF Apt
<1>7. ASSUME IsCwd(q), NEW there PROVE Apt(p, there)
  <2>1. \A i \in 1 .. Len(p) : ~Relative(p[i].arg)
    BY <1>1, <1>2, <1>7 DEF Apt
  <2>2. \A i \in 1 .. Len(p) : Resolve(there, p[i].arg) = p[i].meant
    BY <1>3, <2>1, ResolveFacts
  <2> QED
    BY <1>3, <1>4, <1>5, <2>2 DEF Apt
<1> QED
  BY <1>1, <1>5, <1>6, <1>7 DEF p

\* A connection that a reply opens or reads is of where the server is.
LEMMA DirsAfterReply ==
  ASSUME TypeOK, Sent, NEW code \in Code, Reply(code)
  PROVE  LET op == s.cmdq[1].op
         IN  /\ \A j \in 1 .. Len(conns') :
                  conns'[j].dir = cwd \/ (j \in 1 .. Len(conns) /\ conns'[j].dir = conns[j].dir)
             /\ op \notin {"PASV", "LIST"} => conns' = conns
             /\ conns' = <<>> => conns = <<>>
<1> DEFINE op == s.cmdq[1].op
<1>1. /\ conns \in Seq(Connection) /\ Len(conns) \in Nat /\ Head(s.cmdq) = s.cmdq[1]
      /\ conns \in [1 .. Len(conns) -> Connection]
  BY ReplyFacts, PartTypes, LenProperties
<1>2. CASE op = "PASV"
  <2> DEFINE c == [reads |-> FALSE, dir |-> cwd, lines |-> <<>>]
  <2>1. conns' = Append(conns, c) /\ c.dir = cwd
    BY <1>1, <1>2 DEF Reply
  <2> HIDE DEF c
  <2>2. /\ Len(conns') = Len(conns) + 1 /\ conns'[Len(conns) + 1] = c
        /\ \A j \in 1 .. Len(conns) : conns'[j] = conns[j]
    BY <1>1, <2>1
  <2>3. conns' # <<>>
    BY <1>1, <2>2
  <2> QED
    BY <1>1, <1>2, <2>1, <2>2, <2>3
<1>3. CASE op = "LIST" /\ s.data
  <2>1. PICK names \in Contents(cwd) :
          conns' = [conns EXCEPT ![Len(conns)] = [reads |-> TRUE, dir |-> cwd, lines |-> names]]
    BY <1>1, <1>3 DEF Reply
  <2>2. DOMAIN conns' = 1 .. Len(conns)
    BY <1>1, <2>1
  <2>3. \A j \in 1 .. Len(conns) : conns'[j].dir = cwd \/ conns'[j].dir = conns[j].dir
    BY <1>1, <2>1
  <2>4. conns' \in Seq(Connection)
    BY ReplyType DEF TypeOK
  <2>5. Len(conns') = Len(conns)
    <3>1. DOMAIN conns' = 1 .. Len(conns') /\ Len(conns') \in Nat
      BY <2>4, LenProperties
    <3> QED
      BY <1>1, <2>2, <3>1
  <2>6. conns' = <<>> => conns = <<>>
    <3>1. conns' = <<>> => Len(conns) = 0
      BY <2>5
    <3>2. Len(conns) = 0 => conns = <<>>
      BY <1>1, EmptySeq
    <3> QED
      BY <3>1, <3>2
  <2> QED
    BY <1>3, <2>3, <2>5, <2>6
<1>4. CASE op # "PASV" /\ ~(op = "LIST" /\ s.data)
  <2>1. conns' = conns
    BY <1>1, <1>4 DEF Reply
  <2> QED
    BY <2>1
<1> QED
  BY <1>2, <1>3, <1>4

\* A CWD that is right takes the server and the session to one place, or has the
\* session ask for it.
LEMMA RightCwd ==
  ASSUME RightInv, Right, NEW code \in Code, Reply(code), Waits, code = "ok"
  PROVE  RightParts'
<1> DEFINE arg == s.cmdq[1].arg
           q == Tail(s.cmdq)
<1>1. TypeOK /\ Sent /\ Apt(s.cmdq, cwd) /\ Directed /\ s.cmdq # <<>> /\ s.cmdq[1].op = "CWD"
  BY DEF RightInv, RightParts, Waits, IsCwd
<1>2. /\ s.cmdq \in Seq(Command) /\ s.cmdq[1] \in Command /\ arg \in Path
      /\ Cmd("pwd") \in Command /\ Cmd("pwd").op = "pwd"
      /\ Cmd("pwd").arg = Own /\ Cmd("pwd").meant = Own
  <2>1. s.cmdq \in Seq(Command) /\ s.cmdq[1] \in Command
    BY <1>1, ReplyFacts, PartTypes
  <2> QED
    BY <2>1, CmdType DEF Op, Command
<1>3. /\ s.saved = arg /\ conns = <<>> /\ (Relative(arg) => Unlisted(s.cmdq, Len(s.cmdq)))
      /\ arg # None
  BY <1>1, <1>2, PathType DEF Directed
<1>4. /\ s'.cmdq = Append(q, Cmd("pwd")) /\ s'.files = <<>> /\ s'.saved = arg /\ s'.pwd = arg
  BY <1>1, <1>3, ReplyFacts
<1>5. cwd' = Resolve(cwd, arg) /\ cwd' \in {Top, Sub}
  <2>1. Head(s.cmdq) = s.cmdq[1]
    BY <1>1, ReplyFacts
  <2> QED
    BY <1>1, <2>1 DEF Reply
<1>6. conns' = <<>>
  BY <1>1, <1>3, DirsAfterReply
<1>7. /\ q \in Seq(Command) /\ Apt(q, cwd') /\ ~IsCwd(q)
      /\ Len(s.cmdq) \in Nat \ {0} /\ Len(q) = Len(s.cmdq) - 1
      /\ \A i \in 1 .. Len(q) : q[i] = s.cmdq[i + 1]
  BY <1>1, <1>2, TailApt DEF IsCwd
<1> HIDE DEF q, arg
<1>8. /\ Apt(s'.cmdq, cwd') /\ ~IsCwd(s'.cmdq) /\ Len(s'.cmdq) = Len(q) + 1
      /\ s'.cmdq[Len(q) + 1] = Cmd("pwd")
      /\ \A i \in 1 .. Len(q) : s'.cmdq[i] = q[i]
  <2>1. Resolve(cwd', Own) = Own
    BY ResolveFacts
  <2> QED
    BY <1>2, <1>4, <1>7, <2>1, AppendApt
<1>9. ~Relative(arg) => arg = cwd'
  BY <1>5, ResolveFacts
<1>10. Directed'
  BY <1>4, <1>8, <1>9 DEF Directed, Waits
<1>11. AtHome'
  <2>1. CASE ~Relative(arg)
    <3>1. Resolve(cwd', s'.pwd) = cwd'
      BY <1>4, <1>9, <2>1, ResolveFacts
    <3> QED
      BY <1>6, <3>1 DEF AtHome
  <2>2. CASE Relative(arg)
    <3>1. \A i \in 1 .. Len(s.cmdq) : s.cmdq[i].op \notin {"PASV", "LIST"}
      BY <1>3, <2>2 DEF Unlisted
    <3>2. \A i \in 1 .. Len(s'.cmdq) : s'.cmdq[i].op \notin {"PASV", "LIST"}
      <4> SUFFICES ASSUME NEW i \in 1 .. Len(s'.cmdq) PROVE s'.cmdq[i].op \notin {"PASV", "LIST"}
        OBVIOUS
      <4>1. CASE i \in 1 .. Len(q)
        BY <1>7, <1>8, <3>1, <4>1
      <4>2. CASE i = Len(q) + 1
        BY <1>2, <1>8, <4>2
      <4> QED
        BY <1>7, <1>8, <4>1, <4>2
    <3>3. Len(s'.cmdq) \in 1 .. Len(s'.cmdq) /\ s'.cmdq[Len(s'.cmdq)].op = "pwd"
      BY <1>2, <1>7, <1>8
    <3>4. Asked'
      BY <1>4, <1>6, <1>8, <2>2, <3>2, <3>3 DEF Asked, Unlisted, Waits
    <3> QED
      BY <1>6, <3>4 DEF AtHome
  <2> QED
    BY <2>1, <2>2
<1>12. ListShown' /\ Listed'
  BY <1>4 DEF ListShown, Listed
<1> QED
  BY <1>8, <1>10, <1>11, <1>12 DEF RightParts

\* Any other reply leaves the server where it is.
LEMMA RightReply ==
  ASSUME RightInv, Right, NEW code \in Code, Reply(code), ~(Waits /\ code = "ok"), Right'
  PROVE  RightParts'
<1> DEFINE op == s.cmdq[1].op
           q == Tail(s.cmdq)
           into == IF s.saved # None THEN s.saved ELSE s.pwd
           ok == code = "ok"
<1>1. /\ TypeOK /\ Sent /\ Apt(s.cmdq, cwd) /\ Directed /\ AtHome /\ ListShown /\ Listed
  BY DEF RightInv, RightParts
<1>2. /\ s.cmdq # <<>> /\ Head(s.cmdq) = s.cmdq[1] /\ s.cmdq \in Seq(Command)
      /\ cwd \in {Top, Sub} /\ (op = "CWD" <=> Waits)
  BY <1>1, ReplyFacts, PartTypes DEF Waits, IsCwd
<1>3. /\ s'.cmdq = q /\ s'.files = s.files
      /\ s'.saved = IF op = "CWD" THEN None ELSE s.saved
      /\ s'.pwd = IF op \in {"PWD", "pwd"} THEN IF ok THEN cwd ELSE into ELSE s.pwd
  <2>1. ~(op = "CWD" /\ ok)
    BY <1>2
  <2>2. /\ s'.cmdq = IF op = "CWD" /\ ok THEN Append(q, Cmd("pwd")) ELSE q
        /\ s'.files = IF op = "CWD" /\ ok THEN <<>> ELSE s.files
        /\ s'.saved = IF op = "CWD" /\ ~ok THEN None ELSE s.saved
        /\ s'.pwd = CASE op = "CWD" /\ ok -> into
                      [] op \in {"PWD", "pwd"} -> IF ok THEN cwd ELSE into
                      [] OTHER -> s.pwd
    BY <1>1, <1>2, ReplyFacts
  <2> HIDE DEF op, q, into, ok
  <2> QED
    BY <2>1, <2>2
<1>4. code # "near" /\ (op \in {"PWD", "pwd"} /\ ~ok => ~Relative(s.saved))
  <2>1. /\ code = "near" => "near" \in odd'
        /\ Head(s.cmdq).op \in {"PWD", "pwd"} /\ ~ok /\ Relative(s.saved) => "unsaid" \in odd'
    BY DEF Reply
  <2> QED
    BY <1>2, <2>1 DEF Right
<1>5. cwd' = cwd /\ told' = told
  <2>1. ~(Head(s.cmdq).op = "CWD" /\ code # "fail")
    BY <1>2, <1>4 DEF Code
  <2> QED
    BY <2>1 DEF Reply
<1>6. /\ q \in Seq(Command) /\ Apt(q, cwd) /\ ~IsCwd(q)
      /\ Len(s.cmdq) \in Nat \ {0} /\ Len(q) = Len(s.cmdq) - 1
      /\ \A i \in 1 .. Len(q) : q[i] = s.cmdq[i + 1]
  BY <1>1, <1>2, TailApt
<1>7. /\ \A j \in 1 .. Len(conns') :
           conns'[j].dir = cwd \/ (j \in 1 .. Len(conns) /\ conns'[j].dir = conns[j].dir)
      /\ op \notin {"PASV", "LIST"} => conns' = conns
      /\ conns' = <<>> => conns = <<>>
  BY <1>1, DirsAfterReply
<1> HIDE DEF q, op, ok
<1>8. Apt(s'.cmdq, cwd') /\ ~Waits'
  BY <1>3, <1>5, <1>6 DEF Waits
<1>9. Directed'
  <2>1. ~Waits => s.saved \in {None, cwd} \/ Relative(s.saved)
    BY <1>1 DEF Directed
  <2> QED
    BY <1>2, <1>3, <1>5, <1>8, <2>1 DEF Directed
<1>10. Resolve(cwd, s.pwd) = cwd /\ op \notin {"PWD", "pwd"} => Resolve(cwd, s'.pwd) = cwd
  BY <1>3
<1>11. Resolve(cwd', s'.pwd) = cwd' \/ Asked'
  <2>1. CASE op \in {"PWD", "pwd"} /\ ok
    BY <1>2, <1>3, <1>5, <2>1, ResolveFacts
  <2>2. CASE op \in {"PWD", "pwd"} /\ ~ok
    <3>1. ~Relative(s.saved)
      BY <1>4, <2>2
    <3>2. Resolve(cwd, s.pwd) = cwd /\ s.saved \in {None, cwd}
      BY <1>1, <1>2, <2>2, <3>1 DEF AtHome, Asked, Directed
    <3>3. s'.pwd \in {cwd, s.pwd}
      BY <1>3, <2>2, <3>2
    <3> QED
      BY <1>2, <1>5, <3>2, <3>3, ResolveFacts
  <2>3. CASE op \notin {"PWD", "pwd"} /\ Resolve(cwd, s.pwd) = cwd
    BY <1>5, <1>10, <2>3
  <2>4. CASE op \notin {"PWD", "pwd"} /\ Asked
    <3>1. PICK i \in 1 .. Len(s.cmdq) : s.cmdq[i].op = "pwd" /\ Unlisted(s.cmdq, i)
      BY <2>4 DEF Asked
    <3>2. ~Waits /\ conns = <<>> /\ Relative(s.saved)
      BY <2>4 DEF Asked
    <3>3. op \notin {"PASV", "LIST"} /\ i # 1
      <4>1. 1 \in 1 .. i /\ s.cmdq[1].op \notin {"PASV", "LIST"}
        BY <3>1 DEF Unlisted
      <4> QED
        BY <2>4, <3>1, <4>1 DEF op
    <3>4. i - 1 \in 1 .. Len(q) /\ q[i - 1] = s.cmdq[i]
      BY <1>6, <3>1, <3>3
    <3>5. \A j \in 1 .. i - 1 : j \in 1 .. Len(q) /\ q[j] = s.cmdq[j + 1] /\ j + 1 \in 1 .. i
      BY <1>6, <3>1
    <3>6. Unlisted(q, i - 1)
      BY <3>1, <3>5 DEF Unlisted
    <3>7. \E m \in 1 .. Len(q) : q[m].op = "pwd" /\ Unlisted(q, m)
      BY <3>1, <3>4, <3>6
    <3>8. conns' = <<>> /\ s'.saved = s.saved
      BY <1>2, <1>3, <1>7, <3>2, <3>3
    <3>9. Asked'
      BY <1>3, <1>8, <3>2, <3>7, <3>8 DEF Asked
    <3> QED
      BY <3>9
  <2> QED
    BY <1>1, <2>1, <2>2, <2>3, <2>4 DEF AtHome
<1>12. AtHome'
  <2>1. \A j \in 1 .. Len(conns') : conns'[j].dir = cwd'
    BY <1>1, <1>5, <1>7 DEF AtHome
  <2> QED
    BY <1>11, <2>1 DEF AtHome
<1>13. ListShown' /\ Listed'
  <2>1. ListShown'
    BY <1>1, <1>3, <1>5, <1>7 DEF ListShown
  <2>2. Listed'
    BY <1>1, <1>3, <1>5 DEF Listed
  <2> QED
    BY <2>1, <2>2
<1> QED
  BY <1>8, <1>9, <1>12, <1>13 DEF RightParts

\* What leaves the queue and the list alone.
LEMMA RightSame ==
  ASSUME RightParts, UNCHANGED <<cwd, conns>>, s'.cmdq = s.cmdq, s'.files = s.files,
         s'.pwd = s.pwd, s'.saved = s.saved, told' \in {told, s.files}
  PROVE  RightParts'
<1>1. Apt(s'.cmdq, cwd') /\ Directed'
  BY DEF RightParts, Directed, Waits
<1>2. AtHome'
  BY DEF RightParts, AtHome, Asked, Waits
<1>3. ListShown' /\ Listed'
  BY DEF RightParts, ListShown, Listed
<1> QED
  BY <1>1, <1>2, <1>3 DEF RightParts

\* Commands behind those that wait; a listing is none of them behind a CWD that
\* is relative.
LEMMA RightMore ==
  ASSUME TypeOK, RightParts, UNCHANGED <<cwd, conns, told>>, s'.files \in {s.files, <<>>},
         s'.pwd = s.pwd, s'.saved = s.saved, NEW n \in {1, 2},
         Apt(s'.cmdq, cwd), IsCwd(s'.cmdq) <=> Waits, Len(s'.cmdq) = Len(s.cmdq) + n,
         \A i \in 1 .. Len(s.cmdq) : s'.cmdq[i] = s.cmdq[i],
         Waits /\ Relative(s.saved) =>
           \A i \in Len(s.cmdq) + 1 .. Len(s'.cmdq) : s'.cmdq[i].op \notin {"PASV", "LIST"}
  PROVE  RightParts'
<1>1. /\ Apt(s.cmdq, cwd) /\ Directed /\ AtHome /\ ListShown /\ Listed
      /\ Len(s.cmdq) \in Nat /\ s.cmdq \in Seq(Command)
  BY PartTypes DEF RightParts
<1>2. Directed'
  <2>1. CASE Waits
    <3>1. s.cmdq # <<>> /\ Len(s.cmdq) \in Nat \ {0}
      BY <1>1, <2>1, EmptySeq DEF Waits, IsCwd
    <3>2. s'.cmdq[1] = s.cmdq[1]
      BY <3>1
    <3>3. s'.saved = s'.cmdq[1].arg /\ conns' = <<>>
      BY <1>1, <2>1, <3>2 DEF Directed
    <3>4. ASSUME Relative(s'.saved) PROVE Unlisted(s'.cmdq, Len(s'.cmdq))
      <4>1. \A i \in 1 .. Len(s.cmdq) : s'.cmdq[i].op \notin {"PASV", "LIST"}
        BY <1>1, <2>1, <3>4 DEF Directed, Unlisted
      <4>2. \A i \in 1 .. Len(s'.cmdq) :
              i \in 1 .. Len(s.cmdq) \/ i \in Len(s.cmdq) + 1 .. Len(s'.cmdq)
        BY <1>1
      <4> QED
        BY <2>1, <3>4, <4>1, <4>2 DEF Unlisted
    <3> QED
      BY <2>1, <3>3, <3>4 DEF Directed, Waits
  <2>2. CASE ~Waits
    BY <1>1, <2>2 DEF Directed, Waits
  <2> QED
    BY <2>1, <2>2
<1>3. AtHome'
  <2>1. Asked => Asked'
    <3> SUFFICES ASSUME Asked PROVE Asked'
      OBVIOUS
    <3>1. PICK i \in 1 .. Len(s.cmdq) : s.cmdq[i].op = "pwd" /\ Unlisted(s.cmdq, i)
      BY DEF Asked
    <3>2. \A j \in 1 .. i : j \in 1 .. Len(s.cmdq)
      BY <1>1, <3>1
    <3>3. i \in 1 .. Len(s'.cmdq) /\ s'.cmdq[i].op = "pwd" /\ Unlisted(s'.cmdq, i)
      BY <1>1, <3>1, <3>2 DEF Unlisted
    <3> QED
      BY <3>3 DEF Asked, Waits
  <2> QED
    BY <1>1, <2>1 DEF AtHome
<1>4. ListShown'
  BY <1>1 DEF ListShown
<1>5. Listed'
  <2>1. CASE s'.files = s.files
    BY <1>1, <2>1 DEF Listed
  <2>2. CASE s'.files = <<>>
    BY <2>2 DEF Listed
  <2> QED
    BY <2>1, <2>2
<1> QED
  BY <1>2, <1>3, <1>4, <1>5 DEF RightParts

\* Two commands, neither of them a CWD.
LEMMA RightTwo ==
  ASSUME TypeOK, RightParts, UNCHANGED <<cwd, conns, told>>, s'.files \in {s.files, <<>>},
         s'.pwd = s.pwd, s'.saved = s.saved, NEW c \in Command, NEW d \in Command,
         c.op # "CWD", d.op # "CWD", Fits(c), Fits(d), s'.cmdq = Append(Append(s.cmdq, c), d),
         Waits /\ Relative(s.saved) => {c.op, d.op} \cap {"PASV", "LIST"} = {}
  PROVE  RightParts'
<1> DEFINE p == Append(s.cmdq, c)
           n == Len(s.cmdq)
<1>1. s.cmdq \in Seq(Command) /\ Apt(s.cmdq, cwd) /\ n \in Nat
  BY PartTypes DEF RightParts
<1>2. /\ p \in Seq(Command) /\ Apt(p, cwd) /\ Len(p) = n + 1 /\ p[n + 1] = c
      /\ \A i \in 1 .. n : p[i] = s.cmdq[i]
      /\ IsCwd(p) <=> Waits
  BY <1>1, AppendApt DEF Fits, Waits
<1>3. s'.cmdq = Append(p, d)
  OBVIOUS
<1> HIDE DEF p
<1>4. /\ Apt(s'.cmdq, cwd) /\ Len(s'.cmdq) = n + 2 /\ s'.cmdq[n + 2] = d
      /\ \A i \in 1 .. n + 1 : s'.cmdq[i] = p[i]
      /\ IsCwd(s'.cmdq) <=> Waits
  <2>1. IsCwd(p) => ~Relative(d.arg)
    BY <1>2 DEF Fits
  <2>2. LET t == Append(p, d)
        IN  /\ t \in Seq(Command) /\ Apt(t, cwd) /\ Len(t) = Len(p) + 1 /\ t[Len(p) + 1] = d
            /\ \A i \in 1 .. Len(p) : t[i] = p[i]
            /\ IsCwd(t) <=> IsCwd(p)
    BY <1>2, <2>1, AppendApt DEF Fits
  <2>3. Len(p) + 1 = n + 2
    BY <1>1, <1>2
  <2> QED
    BY <1>2, <1>3, <2>2, <2>3
<1>5. \A i \in 1 .. n : s'.cmdq[i] = s.cmdq[i]
  BY <1>1, <1>2, <1>4
<1>6. s'.cmdq[n + 1] = c
  BY <1>1, <1>2, <1>4
<1>7. Waits /\ Relative(s.saved) => \A i \in n + 1 .. n + 2 : s'.cmdq[i].op \notin {"PASV", "LIST"}
  <2>1. \A i \in n + 1 .. n + 2 : i = n + 1 \/ i = n + 2
    BY <1>1
  <2> QED
    BY <1>4, <1>6, <2>1
<1> QED
  BY <1>4, <1>5, <1>7, RightMore

\* A line of a listing is of where the session believes to be.
LEMMA RightParse ==
  ASSUME TypeOK, RightParts, NEW i \in DOMAIN conns, Parse(i)
  PROVE  RightParts'
<1>1. /\ s \in Session /\ conns \in Seq(Connection) /\ s.files \in Seq(Entry) /\ Len(conns) \in Nat
      /\ s.pwd \in Path /\ cwd \in {Top, Sub} /\ cwd \in Path
  BY PartTypes, LenProperties
<1>2. /\ i \in 1 .. Len(conns) /\ conns' \in Seq(Connection) /\ Len(conns') = Len(conns)
      /\ \A j \in 1 .. Len(conns) : conns'[j].dir = conns[j].dir
  BY ParseFacts
<1>3. PICK e \in Entry :
        /\ s' = [s EXCEPT !.files = Append(@, e)]
        /\ e.path = Append(s.pwd, Head(conns[i].lines))
        /\ e.real = Append(conns[i].dir, Head(conns[i].lines))
        /\ Head(conns[i].lines) \in Name \ {"."}
  BY ParseFacts
<1>4. conns # <<>> /\ conns' # <<>>
  BY <1>1, <1>2
<1>5. cwd' = cwd /\ told' = told
  BY DEF Parse
<1>6. Resolve(cwd, s.pwd) = cwd /\ conns[i].dir = cwd
  BY <1>2, <1>4 DEF RightParts, AtHome, Asked
<1>7. Resolve(cwd, e.path) = e.real
  <2> DEFINE name == Head(conns[i].lines)
  <2>1. name \in Name \ {"."} /\ e.path = Append(s.pwd, name) /\ e.real = Append(conns[i].dir, name)
    BY <1>3
  <2> HIDE DEF name
  <2>2. Resolve(cwd, Append(s.pwd, name)) = Append(Resolve(cwd, s.pwd), name)
    BY <1>1, <2>1, ResolveFacts
  <2> QED
    BY <1>6, <2>1, <2>2
<1>8. /\ s'.cmdq = s.cmdq /\ s'.pwd = s.pwd /\ s'.saved = s.saved
      /\ s'.files = Append(s.files, e)
  BY <1>1, <1>3 DEF Session
<1>9. Listed'
  <2>1. /\ Len(Append(s.files, e)) = Len(s.files) + 1 /\ Append(s.files, e)[Len(s.files) + 1] = e
        /\ \A j \in 1 .. Len(s.files) : Append(s.files, e)[j] = s.files[j]
        /\ Len(s.files) \in Nat
    BY <1>1, LenProperties
  <2>2. \A j \in 1 .. Len(s.files) : Resolve(cwd, s.files[j].path) = s.files[j].real
    BY DEF RightParts, Listed
  <2> QED
    BY <1>5, <1>7, <1>8, <2>1, <2>2 DEF Listed
<1>10. Apt(s'.cmdq, cwd') /\ Directed'
  BY <1>4, <1>5, <1>8 DEF RightParts, Directed, Waits
<1>11. AtHome'
  <2>1. \A j \in 1 .. Len(conns') : conns'[j].dir = cwd'
    BY <1>2, <1>5 DEF RightParts, AtHome
  <2> QED
    BY <1>5, <1>6, <1>8, <2>1 DEF AtHome
<1>12. ListShown'
  BY <1>4 DEF ListShown
<1> QED
  BY <1>9, <1>10, <1>11, <1>12 DEF RightParts

\* The list that the user is shown is that of the session.
LEMMA RightClosed ==
  ASSUME TypeOK, RightParts, NEW i \in DOMAIN conns, DataClosed(i)
  PROVE  RightParts'
<1>1. /\ conns # <<>>
      /\ \A j \in 1 .. Len(conns') : \E m \in 1 .. Len(conns) : conns'[j] = conns[m]
      /\ s'.cmdq = s.cmdq /\ s'.files = s.files /\ s'.pwd = s.pwd /\ s'.saved = s.saved
  BY ClosedFacts
<1>2. cwd' = cwd /\ told' = s.files
  BY DEF DataClosed
<1>3. Resolve(cwd, s.pwd) = cwd /\ ~Waits
  BY <1>1 DEF RightParts, AtHome, Asked, Directed
<1>4. Apt(s'.cmdq, cwd') /\ Directed'
  BY <1>1, <1>2, <1>3 DEF RightParts, Directed, Waits
<1>5. AtHome'
  <2>1. \A j \in 1 .. Len(conns') : conns'[j].dir = cwd'
    BY <1>1, <1>2 DEF RightParts, AtHome
  <2> QED
    BY <1>1, <1>2, <1>3, <2>1 DEF AtHome
<1>6. ListShown' /\ Listed'
  BY <1>1, <1>2 DEF RightParts, ListShown, Listed
<1> QED
  BY <1>4, <1>5, <1>6 DEF RightParts

LEMMA RightStep ==
  ASSUME RightInv, [Next]_vars, Right'
  PROVE  RightParts'
<1>1. TypeOK /\ Sent /\ odd \subseteq odd'
  BY OddGrows DEF RightInv
<1>2. Right
  BY <1>1 DEF Right
<1>3. RightParts /\ ListShown /\ Listed
  BY <1>2 DEF RightInv, RightParts
<1>4. /\ s \in Session /\ s.cmdq \in Seq(Command) /\ Len(s.cmdq) \in Nat
  BY <1>1, PartTypes, LenProperties
<1>5. \A op \in Op : Cmd(op) \in Command /\ Cmd(op).op = op /\ Fits(Cmd(op))
  BY CmdType, ResolveFacts DEF Fits
<1>6. ASSUME NEW k \in Plain \ {"CWD"}, NEW c \in Command, Asks(k, c), Fits(c)
      PROVE  RightParts'
  <2>1. /\ c.op # "CWD" /\ c.op \notin {"PASV", "LIST"} /\ s'.cmdq = Append(s.cmdq, c)
        /\ s'.files = s.files /\ s'.pwd = s.pwd /\ s'.saved = s.saved
        /\ UNCHANGED <<cwd, conns, told>>
    BY <1>6 DEF Asks, Plain
  <2>2. /\ Apt(s'.cmdq, cwd) /\ Len(s'.cmdq) = Len(s.cmdq) + 1 /\ s'.cmdq[Len(s.cmdq) + 1] = c
        /\ \A i \in 1 .. Len(s.cmdq) : s'.cmdq[i] = s.cmdq[i]
        /\ IsCwd(s'.cmdq) <=> Waits
    BY <1>3, <1>4, <1>6, <2>1, AppendApt DEF Fits, RightParts, Waits
  <2>3. \A i \in Len(s.cmdq) + 1 .. Len(s'.cmdq) : s'.cmdq[i].op \notin {"PASV", "LIST"}
    <3>1. \A i \in Len(s.cmdq) + 1 .. Len(s.cmdq) + 1 : i = Len(s.cmdq) + 1
      BY <1>4
    <3> QED
      BY <2>1, <2>2, <3>1
  <2> QED
    BY <1>1, <1>3, <2>1, <2>2, <2>3, RightMore
<1>7. ASSUME NEW c \in Command, Asks("CWD", c), Fits(c), s'.saved = c.arg,
             s.cmdq = <<>>, conns = <<>>
      PROVE  RightParts'
  <2>1. /\ c.op = "CWD" /\ s'.cmdq = Append(s.cmdq, c) /\ s'.files = s.files /\ s'.pwd = s.pwd
        /\ UNCHANGED <<cwd, conns, told>>
    BY <1>7 DEF Asks
  <2>2. Len(s'.cmdq) = 1 /\ s'.cmdq[1] = c /\ s'.cmdq # <<>>
    BY <1>4, <1>7, <2>1
  <2>3. Apt(s'.cmdq, cwd')
    <3>1. \A i \in 1 .. Len(s'.cmdq) : i = 1 /\ i \notin 2 .. Len(s'.cmdq)
      BY <2>2
    <3>2. \A i \in 2 .. Len(s'.cmdq) : FALSE
      BY <2>2
    <3> QED
      BY <1>7, <2>1, <2>2, <3>1, <3>2 DEF Apt, Fits
  <2>4. Directed'
    <3>1. Unlisted(s'.cmdq, Len(s'.cmdq))
      <4>1. \A i \in 1 .. 1 : i = 1
        OBVIOUS
      <4> QED
        BY <2>1, <2>2, <4>1 DEF Unlisted
    <3> QED
      BY <1>7, <2>1, <2>2, <3>1 DEF Directed, Waits, IsCwd
  <2>5. AtHome'
    <3>1. ~Asked
      BY <1>7 DEF Asked
    <3> QED
      BY <1>3, <2>1, <3>1 DEF RightParts, AtHome
  <2>6. ListShown' /\ Listed'
    BY <1>3, <2>1 DEF ListShown, Listed
  <2> QED
    BY <2>3, <2>4, <2>5, <2>6 DEF RightParts
<1>8. ASSUME NEW fid \in Fid, Ren(fid), Resolve(cwd, GetFid(fid)) = Shown(fid),
             Waits => ~Relative(GetFid(fid))
      PROVE  RightParts'
  <2>1. PICK c \in Command :
          /\ c.op = "RNFR" /\ c.arg = GetFid(fid) /\ c.meant = Shown(fid)
          /\ s'.cmdq = Append(Append(s.cmdq, c), Cmd("RNTO"))
          /\ s'.files = s.files /\ s'.pwd = s.pwd /\ s'.saved = s.saved
    BY <1>1, <1>8, RenFacts
  <2>2. UNCHANGED <<cwd, conns, told>>
    BY <1>8 DEF Ren, Gives
  <2>3. Cmd("RNTO") \in Command /\ Cmd("RNTO").op = "RNTO" /\ Fits(Cmd("RNTO"))
    BY <1>5 DEF Op
  <2>4. Fits(c)
    BY <1>8, <2>1 DEF Fits
  <2> QED
    BY <1>1, <1>3, <2>1, <2>2, <2>3, <2>4, RightTwo
<1>9. CASE Lists
  <2>1. /\ s'.cmdq = Append(Append(s.cmdq, Cmd("PASV")), Cmd("LIST"))
        /\ s'.files = <<>> /\ s'.pwd = s.pwd /\ s'.saved = s.saved
        /\ UNCHANGED <<cwd, conns, told>> /\ Behind(s.saved) \subseteq odd'
    BY <1>4, <1>9, SendListFacts DEF Lists
  <2>2. /\ Cmd("PASV") \in Command /\ Cmd("PASV").op = "PASV" /\ Fits(Cmd("PASV"))
        /\ Cmd("LIST") \in Command /\ Cmd("LIST").op = "LIST" /\ Fits(Cmd("LIST"))
    BY <1>5 DEF Op
  <2>3. ~(Waits /\ Relative(s.saved))
    <3>1. Waits => 1 \in DOMAIN s.cmdq /\ s.cmdq[1].op = "CWD"
      BY <1>4 DEF Waits, IsCwd
    <3> QED
      BY <2>1, <3>1 DEF Behind, Right
  <2> QED
    BY <1>1, <1>3, <2>1, <2>2, <2>3, RightTwo
<1>10. CASE Cached \/ There \/ Lost \/ UNCHANGED vars
  <2>1. UNCHANGED <<s, cwd, conns>> /\ told' \in {told, s.files}
    BY <1>10 DEF Cached, There, Lost, vars
  <2> QED
    BY <1>3, <2>1, RightSame
<1>11. ASSUME NEW code \in Code, Reply(code) PROVE RightParts'
  BY <1>2, <1>11, RightCwd, RightReply
<1>12. ASSUME ListEnd PROVE RightParts'
  <2> DEFINE r == [s EXCEPT !.busy = FALSE]
  <2>1. r \in Session /\ r.cmdq = s.cmdq /\ r.files = s.files /\ r.pwd = s.pwd /\ r.saved = s.saved
    BY <1>4 DEF Session
  <2>2. s' = Restart(r) /\ UNCHANGED <<cwd, conns, told>>
    BY <1>12 DEF ListEnd
  <2> HIDE DEF r
  <2>3. s'.cmdq = s.cmdq /\ s'.files = s.files /\ s'.pwd = s.pwd /\ s'.saved = s.saved
    BY <2>1, <2>2, RestartFacts
  <2> QED
    BY <1>3, <2>2, <2>3, RightSame
<1>13. ~Lent
  BY <1>1, LentFacts DEF Right
<1>14. \A i \in DOMAIN conns : Parse(i) \/ DataClosed(i) => RightParts'
  BY <1>1, <1>3, RightParse, RightClosed
<1>15. CASE UserStep
  BY <1>1, <1>3, <1>6, <1>7, <1>8, <1>9, <1>10, <1>15, UserRight
<1> QED
  BY <1>10, <1>11, <1>12, <1>13, <1>14, <1>15 DEF Next, SessionStep, DataStep

LEMMA RightInit ==
  ASSUME Init
  PROVE  RightInv
<1>1. TypeOK /\ Sent
  BY AnswerInit DEF AnswerInv
<1>2. s.cmdq = <<>> /\ s.files = <<>> /\ s.saved = None /\ conns = <<>>
  BY DEF Init
<1>3. Right => s.pwd \in {Here, cwd}
  BY DEF Init, Right
<1>4. Right => Resolve(cwd, s.pwd) = cwd
  BY <1>1, <1>3, ResolveFacts DEF TypeOK
<1>5. Apt(<<>>, cwd) /\ ~Waits
  BY <1>2 DEF Apt, Waits, IsCwd
<1> QED
  BY <1>1, <1>2, <1>4, <1>5
  DEF RightInv, RightParts, Directed, AtHome, ListShown, Listed

\* A command that names a file by its FID is sent for the file that the user was
\* shown under it, and what the session has listed is where its path says, as the
\* server takes both, wherever the server begins, if the session believes to be
\* there or at "./" (session_new, session.c:200-205); its user gives no CWD while
\* an answer is outstanding, no FID during a listing, and nothing behind a CWD
\* that depends on where it leads; no queue had the session; and the server
\* answers CWD with 250 or a refusal and says where a CWD to a relative path has
\* led (session_getfid, session.c:1653-1671; session_cwd, session.c:2036-2093;
\* SESSION_ST_RELAY_CWD, session.c:1490-1514; session_pwd_reply,
\* session.c:2206-2262).
THEOREM CommandsRightFile == Spec => []RightFile
<1>1. Init => RightInv
  BY RightInit
<1>2. RightInv /\ [Next]_vars => RightInv'
  <2> SUFFICES ASSUME RightInv, [Next]_vars PROVE RightInv'
    OBVIOUS
  <2>1. TypeOK' /\ Sent'
    BY TypeStep, SentStep DEF RightInv
  <2>2. Right' => RightParts'
    BY RightStep
  <2> QED
    BY <2>1, <2>2 DEF RightInv
<1>3. RightInv => RightFile
  <2> SUFFICES ASSUME RightInv, Right
               PROVE  /\ ~s.isidle => Resolve(cwd, Head(s.cmdq).arg) = Head(s.cmdq).meant
                      /\ \A i \in DOMAIN s.files : Resolve(cwd, s.files[i].path) = s.files[i].real
    BY DEF RightFile, Right
  <2>1. Apt(s.cmdq, cwd) /\ Listed /\ TypeOK /\ Sent
    BY DEF RightInv, RightParts
  <2>2. s.cmdq \in Seq(Command) /\ DOMAIN s.files = 1 .. Len(s.files)
    BY <2>1, PartTypes, LenProperties
  <2>3. ASSUME ~s.isidle PROVE Resolve(cwd, Head(s.cmdq).arg) = Head(s.cmdq).meant
    <3>1. s.cmdq # <<>> /\ Head(s.cmdq) = s.cmdq[1] /\ Len(s.cmdq) \in Nat \ {0}
      BY <2>1, <2>2, <2>3, EmptySeq DEF Sent
    <3> QED
      BY <2>1, <3>1 DEF Apt
  <2> QED
    BY <2>1, <2>2, <2>3 DEF Listed
<1> QED
  BY <1>1, <1>2, <1>3, PTL DEF Spec
=============================================================================
