------------------------------ MODULE LocalProofs ------------------------------
(***************************************************************************)
(* Theorems about the transfers of the local server, for any number of     *)
(* them: every reply is that of the command which the session takes it     *)
(* for, 226 is said of what was transferred, and a transfer goes from the  *)
(* right place and over the right connection, whatever connects, closes    *)
(* and fails in whatever order, but for what odd names.                    *)
(*                                                                         *)
(* The invariant goes through the phases of a transfer.  What the server   *)
(* still knows of the one before is part of each.                          *)
(***************************************************************************)
EXTENDS Local, SequenceTheorems, TLAPS

Reply == {"150", "200", "225", "226", "227", "350", "550"}
Kinds == {"LIST", "STOR", "RETR"}

\* What is on its way to the session.
One(q, a) == q \in Seq(Reply) /\ Len(q) = 1 /\ q[1] = a
Two(q, a, b) == q \in Seq(Reply) /\ Len(q) = 2 /\ q[1] = a /\ q[2] = b
Three(q, a, b, c) ==
  q \in Seq(Reply) /\ Len(q) = 3 /\ q[1] = a /\ q[2] = b /\ q[3] = c

-----------------------------------------------------------------------------
(* The invariant. *)

\* Each variable has its type, and the protection is that of the transfer.
KindsInv ==
  /\ server \in Server /\ job \in Job \cup {NoJob} /\ onRest \in BOOLEAN
  /\ began \in BOOLEAN /\ jobs \in 0 .. MaxJobs
  /\ odd \subseteq {"early", "insecure", "twice", "stale"}
  /\ replies \in Seq(Reply)
  /\ pc \in {"idle", "227", "350", "350_sent", "150_ready", "150", "226", "225"}
  /\ server.prot = job.secure /\ server.ready \in {0, 1}
  /\ pc # "idle" => job \in Job

Stale == "stale" \in odd

Nothing == server.file = "null" /\ ~server.listing /\ ~server.held

\* Between two transfers: nothing is open, and a command that was never begun waits
\* for the second call of local_data.
Quiet ==
  /\ server.data = "null" /\ ~server.host /\ Nothing
  /\ server.cmd \in Kinds => server.ready = 1

\* The session has nothing to do, has asked for a connection or has given up.
Idles ==
  /\ Quiet
  /\ \/ pc = "idle" /\ pipe = <<>> /\ replies = <<>>
     \/ pc = "idle" /\ pipe = <<>> /\ One(replies, "226") /\ "twice" \in odd
     \/ pc = "225" /\ pipe = <<"ABOR">> /\ replies = <<>>
     \/ pc = "225" /\ pipe = <<>> /\ One(replies, "225")
     \/ /\ pc = "227" /\ replies = <<>>
        /\ pipe = <<IF job.passive THEN "PASV" ELSE "PORT">>
        /\ ~job.passive /\ ~Stale => server.cmd \notin Kinds

\* From the answer to PASV or PORT to the command of the transfer: the connection
\* is there, is on its way, or PORT has begun the transfer of another.
Passive ==
  /\ job.passive /\ ~server.host /\ ~server.muted /\ Nothing
  /\ \/ server.data \in {"listen", "tls"} /\ server.ready = 0
     \/ server.data = "failed" /\ server.ready = 0 /\ "insecure" \in odd
     \/ server.data \in {"up", "secure"} /\ server.ready = 1

Active ==
  /\ ~job.passive /\ ~server.host /\ ~server.muted /\ Nothing /\ server.cmd \notin Kinds
  /\ \/ server.data = "connecting" /\ server.ready = 1
     \/ server.data \in {"tls", "failed", "up", "secure"} /\ "early" \in odd

Postponed ==
  /\ ~job.passive /\ server.host /\ server.data = "null" /\ server.ready = 0
  /\ server.cmd \notin Kinds /\ (~Stale => Nothing)

Asks ==
  \/ /\ pc = "227" /\ pipe = <<>>
     /\ One(replies, IF job.passive THEN "227" ELSE "200")
  \/ pc = "350" /\ pipe = <<>> /\ replies = <<>>
  \/ pc = "350_sent" /\ pipe = <<"REST">> /\ replies = <<>>
  \/ pc = "350_sent" /\ pipe = <<>> /\ One(replies, "350")
  \/ pc = "150_ready" /\ pipe = <<>> /\ replies = <<>>
  \/ pc = "150" /\ pipe = <<job.kind>> /\ replies = <<>>

Prepares == (Passive \/ Active \/ Postponed) /\ Asks

\* From the command to the end: a transfer that is not begun waits for its
\* connection, and what is begun is open.
Runs ==
  /\ server.data # "null" /\ ~server.host /\ ~server.muted
  /\ server.cmd \in {job.kind, "NONE", "WAITSSL"}
  /\ server.cmd \in Kinds => server.ready = 1 /\ (Stale \/ Nothing)
  /\ server.data \in {"listen", "connecting", "tls"} /\ ~began /\ odd \subseteq {"twice"} =>
       server.ready = 1 /\ server.cmd = job.kind
  /\ server.data \in {"up", "secure", "failed"} /\ odd \subseteq {"twice"} => began
  /\ server.file # "null" \/ server.listing => began \/ Stale
  /\ server.file # "null" /\ job.kind = "RETR" /\ ~server.held /\ job.secure /\ ~Stale =>
       server.data = "secure"
  /\ \/ pc = "150" /\ pipe = <<>> /\ One(replies, "150")
     \/ pc = "226" /\ pipe = <<>> /\ replies = <<>>

\* The end is told, once or of a listing that failed twice, and is heard.
Over ==
  /\ Quiet /\ pipe = <<>>
  /\ \/ /\ pc = "150"
        /\ \/ Two(replies, "150", "226")
           \/ Two(replies, "150", "550")
           \/ Three(replies, "150", "550", "226") /\ "twice" \in odd
     \/ /\ pc = "226"
        /\ \/ One(replies, "226")
           \/ One(replies, "550")
           \/ Two(replies, "550", "226") /\ "twice" \in odd

PhaseInv == Idles \/ Prepares \/ Runs \/ Over

\* The restart point that the server has is one that the session knows of, and from
\* the answer to REST until the file is opened it is that of this transfer.
RestInv ==
  /\ server.rest = 1 /\ pipe # <<"REST">> => onRest
  /\ pc = "350_sent" => onRest = (job.off = 1)
  /\ /\ pc \in {"150_ready", "150", "226"} \/ (pc = "350_sent" /\ pipe = <<>>)
     /\ server.file # "open" /\ ~Quiet /\ ~Stale
     => server.rest = job.off
  /\ server.file = "open" /\ ~Stale => server.at = job.off

IInv == KindsInv /\ PhaseInv /\ RestInv /\ CompleteIsReal

-----------------------------------------------------------------------------
(* The replies. *)

\* 226 is among them.
Tells(q) == \E i \in DOMAIN q : q[i] = "226"

\* A list that has one more at its end, and one that has lost its first.
LEMMA Longer ==
  ASSUME NEW q \in Seq(Reply), NEW a \in Reply, NEW r \in Seq(Reply), Len(r) = Len(q) + 1,
         \A i \in 1 .. Len(q) : r[i] = q[i], r[Len(q) + 1] = a
  PROVE  /\ q = <<>> => One(r, a)
         /\ \A b : One(q, b) => Two(r, b, a)
         /\ \A b, c : Two(q, b, c) => Three(r, b, c, a)
  <1>1. q = <<>> => One(r, a)
    BY DEF One
  <1>2. ASSUME NEW b, One(q, b) PROVE Two(r, b, a)
    BY <1>2 DEF One, Two
  <1>3. ASSUME NEW b, NEW c, Two(q, b, c) PROVE Three(r, b, c, a)
    BY <1>3 DEF Two, Three
  <1> QED BY <1>1, <1>2, <1>3

LEMMA Shorter ==
  ASSUME NEW q \in Seq(Reply), NEW r \in Seq(Reply), Len(r) = Len(q) - 1,
         \A i \in 1 .. Len(r) : r[i] = q[i + 1]
  PROVE  /\ \A a : One(q, a) => q[1] = a /\ r = <<>>
         /\ \A a, b : Two(q, a, b) => q[1] = a /\ One(r, b)
         /\ \A a, b, c : Three(q, a, b, c) => q[1] = a /\ Two(r, b, c)
  <1>1. ASSUME NEW a, One(q, a) PROVE q[1] = a /\ r = <<>>
    BY <1>1, EmptySeq DEF One
  <1>2. ASSUME NEW a, NEW b, Two(q, a, b) PROVE q[1] = a /\ One(r, b)
    BY <1>2 DEF One, Two
  <1>3. ASSUME NEW a, NEW b, NEW c, Three(q, a, b, c) PROVE q[1] = a /\ Two(r, b, c)
    BY <1>3 DEF Two, Three
  <1> QED BY <1>1, <1>2, <1>3

LEMMA Said ==
  ASSUME NEW q \in Seq(Reply), NEW a \in Reply, NEW r, r = Append(q, a)
  PROVE  /\ q = <<>> => One(r, a)
         /\ \A b : One(q, b) => Two(r, b, a)
         /\ \A b, c : Two(q, b, c) => Three(r, b, c, a)
  <1>1. /\ r \in Seq(Reply) /\ Len(r) = Len(q) + 1
        /\ \A i \in 1 .. Len(q) : r[i] = q[i]
        /\ r[Len(q) + 1] = a
    BY AppendProperties
  <1> QED BY <1>1, Longer

LEMMA Taken ==
  ASSUME NEW q \in Seq(Reply), NEW r, r = Tail(q), q # <<>>
  PROVE  /\ \A a : One(q, a) => Head(q) = a /\ r = <<>>
         /\ \A a, b : Two(q, a, b) => Head(q) = a /\ One(r, b)
         /\ \A a, b, c : Three(q, a, b, c) => Head(q) = a /\ Two(r, b, c)
  <1>1. Head(q) = q[1]
    BY HeadTailProperties
  <1>2. r \in Seq(Reply) /\ Len(r) = Len(q) - 1 /\ \A i \in 1 .. Len(r) : r[i] = q[i + 1]
    BY HeadTailProperties
  <1> QED BY <1>1, <1>2, Shorter

LEMMA Telling ==
  ASSUME NEW q
  PROVE  /\ q = <<>> => ~Tells(q)
         /\ \A a : One(q, a) => (Tells(q) <=> a = "226")
         /\ \A a, b : Two(q, a, b) => (Tells(q) <=> "226" \in {a, b})
         /\ \A a, b, c : Three(q, a, b, c) => (Tells(q) <=> "226" \in {a, b, c})
  BY DEF Tells, One, Two, Three

-----------------------------------------------------------------------------
(* local_data. *)

\* A field that is set leaves the server of its type.
LEMMA SetFields ==
  ASSUME NEW s \in Server
  PROVE  /\ [s EXCEPT !.ready = 0] \in Server /\ [s EXCEPT !.ready = 1] \in Server
         /\ \A v \in BOOLEAN :
              /\ [s EXCEPT !.host = v] \in Server
              /\ [s EXCEPT !.muted = v] \in Server
              /\ [s EXCEPT !.held = v] \in Server
              /\ [s EXCEPT !.listing = v] \in Server
              /\ [s EXCEPT !.prot = v] \in Server
         /\ \A v \in {"NONE", "LIST", "STOR", "RETR", "WAITSSL"} : [s EXCEPT !.cmd = v] \in Server
         /\ \A v \in {0, 1} : [s EXCEPT !.rest = v] \in Server /\ [s EXCEPT !.at = v] \in Server
         /\ \A v \in {"null", "listen", "connecting", "tls", "up", "secure", "failed"} :
              [s EXCEPT !.data = v] \in Server
         /\ \A v \in {"null", "opening", "open"} : [s EXCEPT !.file = v] \in Server
  <1>1. [s EXCEPT !.ready = 0] \in Server
    BY DEF Server
  <1>2. [s EXCEPT !.ready = 1] \in Server
    BY DEF Server
  <1>3. \A v \in BOOLEAN : [s EXCEPT !.host = v] \in Server /\ [s EXCEPT !.muted = v] \in Server
    BY DEF Server
  <1>4. \A v \in BOOLEAN : [s EXCEPT !.held = v] \in Server /\ [s EXCEPT !.listing = v] \in Server
    BY DEF Server
  <1>5. \A v \in BOOLEAN : [s EXCEPT !.prot = v] \in Server
    BY DEF Server
  <1>6. \A v \in {"NONE", "LIST", "STOR", "RETR", "WAITSSL"} : [s EXCEPT !.cmd = v] \in Server
    BY DEF Server
  <1>7. \A v \in {0, 1} : [s EXCEPT !.rest = v] \in Server /\ [s EXCEPT !.at = v] \in Server
    BY DEF Server
  <1>8. \A v \in {"null", "listen", "connecting", "tls", "up", "secure", "failed"} :
          [s EXCEPT !.data = v] \in Server
    BY DEF Server
  <1>9. \A v \in {"null", "opening", "open"} : [s EXCEPT !.file = v] \in Server
    BY DEF Server
  <1> QED BY <1>1, <1>2, <1>3, <1>4, <1>5, <1>6, <1>7, <1>8, <1>9

\* So do the changes that the steps make.
LEMMA SetServer ==
  ASSUME NEW s \in Server, NEW h \in BOOLEAN, NEW c \in {"NONE", "LIST", "STOR", "RETR", "WAITSSL"}
  PROVE  /\ [s EXCEPT !.ready = 0, !.listing = TRUE, !.cmd = "NONE"] \in Server
         /\ [s EXCEPT !.ready = 0, !.file = "opening", !.held = h, !.cmd = c] \in Server
         /\ [s EXCEPT !.ready = 0, !.cmd = "NONE"] \in Server
         /\ [s EXCEPT !.ready = 1, !.host = FALSE, !.data = "connecting", !.muted = FALSE] \in Server
         /\ [s EXCEPT !.ready = 1, !.held = FALSE] \in Server
         /\ [s EXCEPT !.data = "null", !.file = "null", !.held = FALSE, !.listing = FALSE] \in Server
  <1>1. [s EXCEPT !.ready = 0, !.listing = TRUE, !.cmd = "NONE"] \in Server
    BY SetFields
  <1>2. [s EXCEPT !.ready = 0, !.file = "opening", !.held = h, !.cmd = c] \in Server
    BY SetFields
  <1>3. [s EXCEPT !.ready = 0, !.cmd = "NONE"] \in Server
    BY SetFields
  <1>4. [s EXCEPT !.ready = 1, !.host = FALSE, !.data = "connecting", !.muted = FALSE] \in Server
    BY SetFields
  <1>5. [s EXCEPT !.ready = 1, !.held = FALSE] \in Server
    BY SetFields
  <1>6. [s EXCEPT !.data = "null", !.file = "null", !.held = FALSE, !.listing = FALSE] \in Server
    BY SetFields
  <1> QED BY <1>1, <1>2, <1>3, <1>4, <1>5, <1>6

\* What local_data does, by what it finds.
Second(s, t) ==
  /\ t.ready = 0 /\ t.host = s.host /\ t.muted = s.muted /\ t.data = s.data
  /\ s.cmd \notin Kinds =>
       t.cmd = "NONE" /\ t.file = s.file /\ t.held = s.held /\ t.listing = s.listing
  /\ s.cmd = "LIST" => t.cmd = "NONE" /\ t.file = s.file /\ t.held = s.held /\ t.listing
  /\ s.cmd \in {"STOR", "RETR"} =>
       /\ t.cmd \in {"NONE", "WAITSSL"} /\ t.file = "opening" /\ t.listing = s.listing
       /\ t.held <=> s.cmd = "RETR" /\ s.prot /\ s.data # "secure"

First(s, t) ==
  /\ t.ready = 1 /\ ~t.host /\ t.cmd = s.cmd /\ t.file = s.file /\ t.listing = s.listing
  /\ s.host => t.data = "connecting" /\ ~t.muted /\ t.held = s.held
  /\ ~s.host =>
       /\ t.data = s.data /\ t.muted = s.muted
       /\ t.held = s.held \/ (~t.held /\ s.prot /\ s.cmd = "WAITSSL")

LEMMA LocalDataIs ==
  ASSUME NEW s \in Server, s.ready \in {0, 1}, NEW t, t = LocalData(s)
  PROVE  /\ t \in Server /\ t.prot = s.prot /\ t.rest = s.rest /\ t.at = s.at
         /\ s.ready = 1 => Second(s, t)
         /\ s.ready = 0 => First(s, t)
  <1>1. CASE s.ready = 1
    <2>1. t = Begin(s)
      BY <1>1 DEF LocalData
    <2>2. CASE s.cmd = "LIST"
      <3>1. t = [s EXCEPT !.ready = 0, !.listing = TRUE, !.cmd = "NONE"]
        BY <2>1, <2>2 DEF Begin, Server
      <3>2. t \in Server
        BY <3>1, SetServer
      <3>3. /\ t.ready = 0 /\ t.host = s.host /\ t.muted = s.muted /\ t.data = s.data
            /\ t.cmd = "NONE" /\ t.file = s.file /\ t.held = s.held /\ t.listing
            /\ t.prot = s.prot /\ t.rest = s.rest /\ t.at = s.at
        BY <3>1 DEF Server
      <3> QED BY <1>1, <2>2, <3>2, <3>3 DEF Second, Kinds
    <2>3. CASE s.cmd \in {"STOR", "RETR"}
      <3> DEFINE wait == s.cmd = "RETR" /\ s.prot /\ s.data # "secure"
                 c == IF wait THEN "WAITSSL" ELSE "NONE"
      <3>1. t = [s EXCEPT !.ready = 0, !.file = "opening", !.held = wait, !.cmd = c]
        BY <1>1, <2>1, <2>3 DEF Begin, Server
      <3>2. wait \in BOOLEAN /\ c \in {"WAITSSL", "NONE"}
        BY DEF Server
      <3> HIDE DEF wait, c
      <3>3. /\ t.ready = 0 /\ t.host = s.host /\ t.muted = s.muted /\ t.data = s.data
            /\ t.cmd = c /\ t.file = "opening" /\ t.held = wait /\ t.listing = s.listing
            /\ t.prot = s.prot /\ t.rest = s.rest /\ t.at = s.at
        BY <3>1 DEF Server
      <3>4. t \in Server
        <4>1. [s EXCEPT !.ready = 0, !.file = "opening", !.held = wait, !.cmd = c] \in Server
          BY <3>2, SetServer
        <4> QED BY <3>1, <4>1
      <3>5. t.held <=> s.cmd = "RETR" /\ s.prot /\ s.data # "secure"
        BY <3>3 DEF wait
      <3> QED BY <1>1, <2>3, <3>2, <3>3, <3>4, <3>5 DEF Second, Kinds
    <2>4. CASE s.cmd \notin Kinds
      <3>1. t = [s EXCEPT !.ready = 0, !.cmd = "NONE"]
        BY <2>1, <2>4 DEF Begin, Server, Kinds
      <3>2. t \in Server
        BY <3>1, SetServer
      <3>3. /\ t.ready = 0 /\ t.host = s.host /\ t.muted = s.muted /\ t.data = s.data
            /\ t.cmd = "NONE" /\ t.file = s.file /\ t.held = s.held /\ t.listing = s.listing
            /\ t.prot = s.prot /\ t.rest = s.rest /\ t.at = s.at
        BY <3>1 DEF Server
      <3> QED BY <1>1, <2>4, <3>2, <3>3 DEF Second, Kinds
    <2> QED BY <2>2, <2>3, <2>4 DEF Kinds
  <1>2. CASE s.ready = 0 /\ s.host
    <2>1. t = [s EXCEPT !.ready = 1, !.host = FALSE, !.data = "connecting", !.muted = FALSE]
      BY <1>2 DEF LocalData
    <2>2. t \in Server
      BY <2>1, SetServer
    <2>3. /\ t.ready = 1 /\ ~t.host /\ t.cmd = s.cmd /\ t.file = s.file /\ t.listing = s.listing
          /\ t.data = "connecting" /\ ~t.muted /\ t.held = s.held
          /\ t.prot = s.prot /\ t.rest = s.rest /\ t.at = s.at
      BY <2>1 DEF Server
    <2> QED BY <1>2, <2>2, <2>3 DEF First
  <1>3. CASE s.ready = 0 /\ ~s.host
    <2>1. \/ t = [s EXCEPT !.ready = 1]
          \/ t = [s EXCEPT !.ready = 1, !.held = FALSE] /\ s.prot /\ s.cmd = "WAITSSL"
      BY <1>3 DEF LocalData
    <2>2. t \in Server
      BY <2>1, SetServer, SetFields
    <2>3. /\ t.ready = 1 /\ t.host = s.host /\ t.cmd = s.cmd /\ t.file = s.file
          /\ t.listing = s.listing /\ t.data = s.data /\ t.muted = s.muted
          /\ t.held = s.held \/ (~t.held /\ s.prot /\ s.cmd = "WAITSSL")
          /\ t.prot = s.prot /\ t.rest = s.rest /\ t.at = s.at
      BY <2>1 DEF Server
    <2> QED BY <1>3, <2>2, <2>3 DEF First
  <1> QED BY <1>1, <1>2, <1>3

\* A connection that is gone takes the file and the listing with it.
LEMMA DataGoneIs ==
  ASSUME NEW s \in Server, NEW t,
         t = DataGone(s) \/ \E m \in BOOLEAN : t = DataGone([s EXCEPT !.muted = m])
  PROVE  /\ t \in Server /\ t.prot = s.prot /\ t.rest = s.rest /\ t.ready = s.ready
         /\ t.host = s.host /\ t.cmd = s.cmd
         /\ t.data = "null" /\ t.file = "null" /\ ~t.held /\ ~t.listing
  <1>1. PICK r \in Server :
          /\ t = [r EXCEPT !.data = "null", !.file = "null", !.held = FALSE, !.listing = FALSE]
          /\ r.prot = s.prot /\ r.rest = s.rest /\ r.ready = s.ready /\ r.host = s.host
          /\ r.cmd = s.cmd
    <2>1. CASE t = DataGone(s)
      BY <2>1 DEF DataGone
    <2>2. ASSUME NEW m \in BOOLEAN, t = DataGone([s EXCEPT !.muted = m])
          PROVE  \E r \in Server :
                   /\ t = [r EXCEPT !.data = "null", !.file = "null", !.held = FALSE,
                                    !.listing = FALSE]
                   /\ r.prot = s.prot /\ r.rest = s.rest /\ r.ready = s.ready /\ r.host = s.host
                   /\ r.cmd = s.cmd
      <3> DEFINE r == [s EXCEPT !.muted = m]
      <3>1. r \in Server
        BY SetFields
      <3>2. /\ r.prot = s.prot /\ r.rest = s.rest /\ r.ready = s.ready /\ r.host = s.host
            /\ r.cmd = s.cmd
        BY DEF Server
      <3>3. t = [r EXCEPT !.data = "null", !.file = "null", !.held = FALSE, !.listing = FALSE]
        BY <2>2 DEF DataGone
      <3> HIDE DEF r
      <3> QED BY <3>1, <3>2, <3>3
    <2> QED BY <2>1, <2>2
  <1>2. t \in Server
    BY <1>1, SetServer
  <1> QED BY <1>1, <1>2 DEF Server

-----------------------------------------------------------------------------
(* The session. *)

LEMMA StartStep ==
  ASSUME IInv, NEW j \in Job, Start(j)
  PROVE  IInv'
  <1>1. Idles /\ pc = "idle" /\ server \in Server
    BY DEF IInv, KindsInv, PhaseInv, Idles, Prepares, Asks, Runs, Over, Start
  <1>2. server' = [server EXCEPT !.prot = j.secure]
    BY DEF Start
  <1>3. KindsInv'
    <2>1. server' \in Server /\ server'.prot = j.secure /\ server'.ready \in {0, 1}
      BY <1>2 DEF IInv, KindsInv, Server, Job
    <2>2. jobs' \in 0 .. MaxJobs
      BY LocalAssumption DEF IInv, KindsInv, Start
    <2>3. odd' \subseteq {"early", "insecure", "twice", "stale"} /\ job' = j /\ pc' = "227"
      BY DEF Start
    <2> QED BY <2>1, <2>2, <2>3 DEF IInv, KindsInv, Start
  <1>4. PhaseInv'
    BY <1>1, <1>2 DEF PhaseInv, Idles, Quiet, Nothing, Start, Server, Kinds, Stale
  <1>5. RestInv'
    BY <1>1, <1>2 DEF IInv, RestInv, Idles, Quiet, Nothing, Start, Server
  <1>6. CompleteIsReal'
    BY DEF CompleteIsReal, Start
  <1> QED BY <1>3, <1>4, <1>5, <1>6 DEF IInv

LEMMA RestStep ==
  ASSUME IInv, Rest
  PROVE  IInv'
  <1>1. pc = "350" /\ pipe = <<>> /\ replies = <<>> /\ (Passive \/ Active \/ Postponed)
    BY DEF IInv, KindsInv, PhaseInv, Idles, Prepares, Asks, Runs, Over, Rest
  <1>2. KindsInv'
    BY DEF IInv, KindsInv, Rest, Job, Kinds
  <1>3. (Passive \/ Active \/ Postponed)'
    BY <1>1 DEF Passive, Active, Postponed, Nothing, Rest, Stale
  <1>4. PhaseInv'
    BY <1>1, <1>3 DEF PhaseInv, Prepares, Asks, Rest
  <1>5. RestInv'
    BY <1>1 DEF IInv, KindsInv, RestInv, Quiet, Nothing, Rest, Stale, Server, Job
  <1>6. CompleteIsReal'
    BY DEF IInv, CompleteIsReal, Rest
  <1> QED BY <1>2, <1>4, <1>5, <1>6 DEF IInv

LEMMA TransferStep ==
  ASSUME IInv, Transfer
  PROVE  IInv'
  <1>1. pc = "150_ready" /\ pipe = <<>> /\ replies = <<>> /\ (Passive \/ Active \/ Postponed)
    BY DEF IInv, KindsInv, PhaseInv, Idles, Prepares, Asks, Runs, Over, Transfer
  <1>2. KindsInv'
    BY DEF IInv, KindsInv, Transfer
  <1>3. (Passive \/ Active \/ Postponed)'
    BY <1>1 DEF Passive, Active, Postponed, Nothing, Transfer, Stale
  <1>4. PhaseInv'
    BY <1>1, <1>3 DEF PhaseInv, Prepares, Asks, Transfer
  <1>5. RestInv'
    BY <1>1 DEF IInv, KindsInv, RestInv, Quiet, Nothing, Transfer, Stale, Server, Job
  <1>6. CompleteIsReal'
    BY DEF IInv, CompleteIsReal, Transfer
  <1> QED BY <1>2, <1>4, <1>5, <1>6 DEF IInv

LEMMA TakeStep ==
  ASSUME IInv, Take
  PROVE  IInv'
  <1> DEFINE r == Tail(replies)
  <1>1. /\ replies \in Seq(Reply) /\ replies # <<>> /\ pipe = <<>>
        /\ pc \notin {"350", "150_ready"} /\ replies' = r
        /\ UNCHANGED <<server, job, onRest, pipe, jobs, began, odd>>
    BY DEF IInv, KindsInv, Take
  <1>2. /\ r \in Seq(Reply)
        /\ \A i \in DOMAIN r : i + 1 \in DOMAIN replies /\ r[i] = replies[i + 1]
    BY <1>1, HeadTailProperties
  <1>3. /\ \A a : One(replies, a) => Head(replies) = a /\ r = <<>>
        /\ \A a, b : Two(replies, a, b) => Head(replies) = a /\ One(r, b)
        /\ \A a, b, c : Three(replies, a, b, c) => Head(replies) = a /\ Two(r, b, c)
    BY <1>1, Taken
  <1> HIDE DEF r
  <1>4. pc' \in {"idle", "350", "150_ready", "226"}
    BY DEF IInv, KindsInv, Take
  <1>5. KindsInv'
    <2>1. pc = "idle" => pc' = "idle"
      BY DEF Take
    <2> QED BY <1>1, <1>2, <1>4, <2>1 DEF IInv, KindsInv
  <1>6. Quiet' = Quiet /\ (Passive \/ Active \/ Postponed)' = (Passive \/ Active \/ Postponed)
    BY <1>1 DEF Quiet, Passive, Active, Postponed, Nothing, Stale
  <1>7. ASSUME Idles PROVE PhaseInv' /\ RestInv'
    <2>1. pc' = "idle" /\ r = <<>>
      BY <1>1, <1>3, <1>7 DEF Idles, Take
    <2>2. PhaseInv'
      BY <1>1, <1>6, <1>7, <2>1 DEF Idles, PhaseInv
    <2>3. RestInv'
      BY <1>1, <1>6, <1>7, <2>1 DEF IInv, RestInv, Idles, Stale
    <2> QED BY <2>2, <2>3
  <1>8. ASSUME Prepares PROVE PhaseInv' /\ RestInv'
    <2>1. /\ r = <<>>
          /\ \/ pc = "227" /\ pc' = "350"
             \/ pc = "350_sent" /\ pc' = "150_ready"
      BY <1>1, <1>3, <1>8 DEF Prepares, Asks, Take
    <2>2. PhaseInv'
      BY <1>1, <1>6, <1>8, <2>1 DEF PhaseInv, Prepares, Asks
    <2>3. RestInv'
      BY <1>1, <1>6, <1>8, <2>1 DEF IInv, RestInv, Stale
    <2> QED BY <2>2, <2>3
  <1>9. ASSUME Runs PROVE PhaseInv' /\ RestInv'
    <2>1. r = <<>> /\ pc = "150" /\ pc' = "226"
      BY <1>1, <1>3, <1>9 DEF Runs, Take
    <2>2. PhaseInv'
      BY <1>1, <1>9, <2>1 DEF PhaseInv, Runs, Nothing, Stale
    <2>3. RestInv'
      BY <1>1, <1>6, <1>9, <2>1 DEF IInv, RestInv, Stale
    <2> QED BY <2>2, <2>3
  <1>10. ASSUME Over PROVE PhaseInv' /\ RestInv'
    <2>1. /\ pc = "150" => Head(replies) = "150" /\ pc' = "226"
          /\ pc = "226" => pc' = "idle"
      BY <1>1, <1>3, <1>10 DEF Over, Take
    <2>2. PhaseInv'
      <3>1. CASE pc = "150"
        <4>1. \/ One(r, "226")
              \/ One(r, "550")
              \/ Two(r, "550", "226") /\ "twice" \in odd
          BY <1>3, <1>10, <3>1 DEF Over
        <4> QED BY <1>1, <1>6, <1>10, <2>1, <3>1, <4>1 DEF PhaseInv, Over
      <3>2. CASE pc = "226"
        <4>1. r = <<>> \/ (One(r, "226") /\ "twice" \in odd)
          BY <1>3, <1>10, <3>2 DEF Over
        <4> QED BY <1>1, <1>6, <1>10, <2>1, <3>2, <4>1 DEF PhaseInv, Over, Idles
      <3> QED BY <1>10, <3>1, <3>2 DEF Over
    <2>3. RestInv'
      BY <1>1, <1>6, <1>10, <2>1 DEF IInv, RestInv, Over, Stale
    <2> QED BY <2>2, <2>3
  <1>11. CompleteIsReal'
    BY <1>1, <1>2 DEF IInv, CompleteIsReal
  <1> QED BY <1>5, <1>7, <1>8, <1>9, <1>10, <1>11 DEF IInv, PhaseInv

LEMMA SendAborStep ==
  ASSUME IInv, SendAbor
  PROVE  IInv'
  <1>1. Idles /\ pc = "idle" /\ pipe' = <<"ABOR">> /\ pc' = "225" /\ replies' = <<>>
    BY DEF IInv, KindsInv, PhaseInv, Idles, Prepares, Asks, Runs, Over, SendAbor
  <1>2. job \in Job
    BY DEF IInv, KindsInv, SendAbor, NoJob
  <1>3. KindsInv'
    BY <1>2 DEF IInv, KindsInv, SendAbor
  <1>4. PhaseInv'
    BY <1>1 DEF PhaseInv, Idles, Quiet, Nothing, SendAbor
  <1>5. RestInv'
    BY <1>1 DEF IInv, RestInv, Idles, Quiet, Nothing, Stale, SendAbor
  <1>6. CompleteIsReal'
    BY DEF CompleteIsReal, SendAbor
  <1> QED BY <1>3, <1>4, <1>5, <1>6 DEF IInv

-----------------------------------------------------------------------------
(* The commands. *)

LEMMA Read ==
  ASSUME IInv
  PROVE  /\ pipe = <<"PASV">> => Idles /\ pc = "227" /\ job.passive /\ replies = <<>>
         /\ pipe = <<"PORT">> =>
              /\ Idles /\ pc = "227" /\ ~job.passive /\ replies = <<>>
              /\ ~Stale => server.cmd \notin Kinds
         /\ pipe = <<"ABOR">> => Idles /\ pc = "225" /\ replies = <<>>
         /\ pipe = <<"REST">> =>
              (Passive \/ Active \/ Postponed) /\ pc = "350_sent" /\ replies = <<>>
         /\ pipe = <<job.kind>> =>
              /\ Passive \/ Active \/ Postponed
              /\ pc = "150" /\ replies = <<>> /\ job.kind \in Kinds
  <1>1. job.kind \in Kinds \cup {"none"} /\ (pc # "idle" => job.kind \in Kinds)
    BY DEF IInv, KindsInv, Job, NoJob, Kinds
  <1>2. \A a, b : <<a>> # <<>> /\ (<<a>> = <<b>> => a = b)
    OBVIOUS
  <1> QED BY <1>1, <1>2 DEF IInv, PhaseInv, Idles, Prepares, Asks, Runs, Over, Kinds

LEMMA CmdPasvStep ==
  ASSUME IInv, CmdPasv
  PROVE  IInv'
  <1>1. /\ Idles /\ pc = "227" /\ job.passive /\ pipe' = <<>> /\ replies = <<>>
        /\ UNCHANGED <<job, pc, onRest, jobs, began, odd>>
    BY Read DEF CmdPasv, Reads, engine
  <1>2. server' = [server EXCEPT !.ready = 0, !.host = FALSE, !.data = "listen", !.muted = FALSE]
    BY DEF CmdPasv
  <1>3. One(replies', "227")
    BY <1>1, Said DEF IInv, KindsInv, CmdPasv, Reply
  <1>4. KindsInv'
    <2> server \in Server
      BY DEF IInv, KindsInv
    <2>1. server' \in Server
      BY <1>2, SetFields
    <2>2. server'.prot = server.prot /\ server'.ready = 0
      BY <1>2 DEF Server
    <2> QED BY <1>1, <1>3, <2>1, <2>2 DEF IInv, KindsInv, One
  <1>5. PhaseInv'
    BY <1>1, <1>2, <1>3
       DEF IInv, KindsInv, PhaseInv, Idles, Quiet, Nothing, Prepares, Passive, Asks, Server
  <1>6. RestInv'
    BY <1>1, <1>2 DEF IInv, KindsInv, RestInv, Idles, Quiet, Nothing, Server
  <1>7. CompleteIsReal'
    BY <1>3 DEF CompleteIsReal, One
  <1> QED BY <1>4, <1>5, <1>6, <1>7 DEF IInv

LEMMA CmdPortStep ==
  ASSUME IInv, CmdPort
  PROVE  IInv'
  <1> DEFINE s == [server EXCEPT !.host = TRUE]
  <1>1. /\ Idles /\ pc = "227" /\ ~job.passive /\ pipe' = <<>> /\ replies = <<>>
        /\ pipe # <<"REST">>
        /\ UNCHANGED <<job, pc, onRest, jobs, odd>>
        /\ ~Stale => server.cmd \notin Kinds
    BY Read DEF CmdPort, Reads, engine
  <1>2. /\ server \in Server /\ server' = LocalData(s) /\ server.prot = job.secure
        /\ began' = Begins(server) /\ began' \in BOOLEAN
    BY DEF IInv, KindsInv, CmdPort, Begins
  <1>3. /\ server.data = "null" /\ ~server.host /\ Nothing /\ server.ready \in {0, 1}
        /\ server.cmd \in Kinds => server.ready = 1
    BY <1>1 DEF Idles, Quiet, IInv, KindsInv
  <1>4. One(replies', "200")
    BY <1>1, Said DEF IInv, KindsInv, CmdPort, Reply
  <1>5. s \in Server
    BY <1>2, SetFields
  <1>6. /\ s.ready = server.ready /\ s.host /\ s.cmd = server.cmd /\ s.data = "null"
        /\ s.prot = server.prot /\ s.rest = server.rest /\ s.file = "null" /\ ~s.listing
        /\ ~s.held
    BY <1>2, <1>3 DEF Server, Nothing
  <1> HIDE DEF s
  <1>7. /\ server' \in Server /\ server'.prot = server.prot /\ server'.rest = server.rest
        /\ server.ready = 1 => Second(s, server')
        /\ server.ready = 0 => First(s, server')
    BY <1>2, <1>3, <1>5, <1>6, LocalDataIs
  <1>8. server'.ready \in {0, 1} /\ server'.file # "open"
    BY <1>3, <1>6, <1>7 DEF First, Second, Kinds
  <1>9. KindsInv'
    BY <1>1, <1>2, <1>4, <1>7, <1>8 DEF IInv, KindsInv, One
  <1>10. PhaseInv'
    <2>1. CASE server.ready = 0
      <3>1. Active'
        BY <1>1, <1>3, <1>6, <1>7, <2>1 DEF First, Active, Nothing
      <3> QED BY <1>1, <1>4, <3>1 DEF PhaseInv, Prepares, Asks
    <2>2. CASE server.ready = 1
      <3>1. Postponed'
        BY <1>1, <1>3, <1>6, <1>7, <2>2 DEF Second, Postponed, Nothing, Stale, Kinds
      <3> QED BY <1>1, <1>4, <3>1 DEF PhaseInv, Prepares, Asks
    <2> QED BY <1>3, <2>1, <2>2
  <1>11. RestInv'
    BY <1>1, <1>7, <1>8 DEF IInv, RestInv, Stale
  <1>12. CompleteIsReal'
    BY <1>4 DEF CompleteIsReal, One
  <1> QED BY <1>9, <1>10, <1>11, <1>12 DEF IInv

LEMMA CmdRestStep ==
  ASSUME IInv, CmdRest
  PROVE  IInv'
  <1>1. /\ Passive \/ Active \/ Postponed
        /\ pc = "350_sent" /\ pipe = <<"REST">> /\ pipe' = <<>> /\ replies = <<>>
        /\ server' = [server EXCEPT !.rest = job.off]
        /\ UNCHANGED <<job, pc, onRest, jobs, began, odd>>
    BY Read DEF CmdRest, Reads, engine
  <1>2. server \in Server /\ job \in Job /\ job.off \in {0, 1}
    BY <1>1 DEF IInv, KindsInv, Job
  <1>3. One(replies', "350")
    BY <1>1, Said DEF IInv, KindsInv, CmdRest, Reply
  <1>4. KindsInv'
    <2>1. server' \in Server
      BY <1>1, <1>2, SetFields
    <2>2. server'.prot = server.prot /\ server'.ready = server.ready
      BY <1>1, <1>2 DEF Server
    <2> QED BY <1>1, <1>3, <2>1, <2>2 DEF IInv, KindsInv, One
  <1>5. (Passive \/ Active \/ Postponed)'
    BY <1>1, <1>2 DEF Passive, Active, Postponed, Nothing, Stale, Server
  <1>6. PhaseInv'
    BY <1>1, <1>3, <1>5 DEF PhaseInv, Prepares, Asks
  <1>7. RestInv'
    BY <1>1, <1>2 DEF IInv, RestInv, Stale, Server
  <1>8. CompleteIsReal'
    BY <1>3 DEF CompleteIsReal, One
  <1> QED BY <1>4, <1>6, <1>7, <1>8 DEF IInv

\* The transfer begins if its connection is there, and else waits for it.
LEMMA CmdTransferStep ==
  ASSUME IInv, CmdTransfer
  PROVE  IInv'
  <1> DEFINE s == [server EXCEPT !.cmd = job.kind]
  <1>1. /\ Passive \/ Active \/ Postponed
        /\ pc = "150" /\ replies = <<>> /\ job.kind \in Kinds /\ pipe' = <<>> /\ pipe # <<"REST">>
        /\ UNCHANGED <<job, pc, onRest, jobs, odd>>
    <2>1. pipe = <<job.kind>> /\ pipe' = <<>> /\ UNCHANGED <<job, pc, onRest, jobs, odd>>
      BY DEF CmdTransfer, Reads, engine
    <2>2. \A a, b : <<a>> = <<b>> => a = b
      OBVIOUS
    <2> QED BY <2>1, <2>2, Read DEF Kinds
  <1>2. /\ server \in Server /\ server' = LocalData(s) /\ began' = Begins(s)
        /\ server.prot = job.secure /\ server.ready \in {0, 1}
    BY DEF IInv, KindsInv, CmdTransfer
  <1>3. /\ s.ready = server.ready /\ s.host = server.host /\ s.cmd = job.kind
        /\ s.prot = server.prot /\ s.rest = server.rest /\ s.data = server.data
        /\ s.muted = server.muted /\ s.file = server.file /\ s.held = server.held
        /\ s.listing = server.listing
    BY <1>2 DEF Server
  <1>4. s \in Server
    BY <1>1, <1>2, SetFields DEF Kinds
  <1>5. began' = (server.ready = 1)
    BY <1>1, <1>2, <1>3 DEF Begins, Kinds
  <1>6. (server.host => server.ready = 0) /\ (~Stale => Nothing) /\ ~Quiet
    BY <1>1 DEF Passive, Active, Postponed, Quiet
  <1> HIDE DEF s
  <1>7. /\ server' \in Server /\ server'.prot = server.prot /\ server'.rest = server.rest
        /\ server.ready = 1 => Second(s, server')
        /\ server.ready = 0 => First(s, server')
    BY <1>2, <1>3, <1>4, LocalDataIs
  <1>8. ~server'.host /\ ~server'.muted /\ server'.data # "null"
    BY <1>1, <1>2, <1>3, <1>7 DEF Passive, Active, Postponed, First, Second
  <1>9. server'.cmd \in {job.kind, "NONE", "WAITSSL"} /\ server'.ready \in {0, 1}
    BY <1>1, <1>2, <1>3, <1>7 DEF First, Second, Kinds
  <1>10. One(replies', "150")
    BY <1>1, Said DEF IInv, KindsInv, CmdTransfer, Reply
  <1>11. KindsInv'
    BY <1>1, <1>2, <1>5, <1>7, <1>9, <1>10 DEF IInv, KindsInv, One
  <1>12. Runs'
    <2>1. server'.cmd \in Kinds => server'.ready = 1 /\ (Stale \/ Nothing')
      <3>1. CASE server.ready = 1
        BY <1>1, <1>3, <1>7, <3>1 DEF Second, Kinds
      <3>2. CASE server.ready = 0
        BY <1>1, <1>3, <1>6, <1>7, <3>2 DEF First, Nothing, Kinds
      <3> QED BY <1>2, <3>1, <3>2
    <2>2. ~began' => server'.ready = 1 /\ server'.cmd = job.kind
      BY <1>2, <1>3, <1>5, <1>7 DEF First
    <2>3. server'.data \in {"up", "secure", "failed"} /\ odd \subseteq {"twice"} => began'
      <3>1. CASE server.ready = 0
        <4>1. server'.data = server.data \/ server'.data = "connecting"
          BY <1>3, <1>7, <3>1 DEF First
        <4> QED BY <1>1, <3>1, <4>1 DEF Passive, Active, Postponed
      <3>2. CASE server.ready = 1
        BY <1>5, <3>2
      <3> QED BY <1>2, <3>1, <3>2
    <2>4. server'.file # "null" \/ server'.listing => began' \/ Stale
      <3>1. CASE server.ready = 1
        BY <1>5, <3>1
      <3>2. CASE server.ready = 0
        BY <1>3, <1>6, <1>7, <3>2 DEF First, Nothing
      <3> QED BY <1>2, <3>1, <3>2
    <2>5. server'.file # "null" /\ job.kind = "RETR" /\ ~server'.held /\ job.secure /\ ~Stale =>
            server'.data = "secure"
      <3>1. CASE server.ready = 1
        BY <1>2, <1>3, <1>7, <3>1 DEF Second
      <3>2. CASE server.ready = 0
        BY <1>3, <1>6, <1>7, <3>2 DEF First, Nothing
      <3> QED BY <1>2, <3>1, <3>2
    <2> QED BY <1>1, <1>8, <1>9, <1>10, <2>1, <2>2, <2>3, <2>4, <2>5 DEF Runs, Stale
  <1>13. RestInv'
    <2>1. ~Stale => server'.file # "open"
      BY <1>1, <1>2, <1>3, <1>6, <1>7 DEF First, Second, Nothing, Kinds
    <2>2. ~Stale => server.rest = job.off
      BY <1>1, <1>6 DEF IInv, RestInv, Nothing
    <2> QED BY <1>1, <1>7, <2>1, <2>2 DEF IInv, RestInv, Stale
  <1>14. CompleteIsReal'
    BY <1>10 DEF CompleteIsReal, One
  <1> QED BY <1>11, <1>12, <1>13, <1>14 DEF IInv, PhaseInv

\* ABOR comes when everything is over.
LEMMA CmdAborStep ==
  ASSUME IInv, CmdAbor
  PROVE  IInv'
  <1>1. /\ Idles /\ pc = "225" /\ pipe' = <<>> /\ replies = <<>> /\ pipe # <<"REST">>
        /\ UNCHANGED <<job, pc, onRest, jobs, began, odd>>
    BY Read DEF CmdAbor, Reads, engine
  <1>2. server' = server
    BY <1>1 DEF CmdAbor, Idles, Quiet
  <1>3. One(replies', "225")
    BY <1>1, Said DEF IInv, KindsInv, CmdAbor, Reply
  <1>4. KindsInv'
    BY <1>1, <1>2, <1>3 DEF IInv, KindsInv, One
  <1>5. PhaseInv'
    BY <1>1, <1>2, <1>3 DEF PhaseInv, Idles, Quiet, Nothing
  <1>6. RestInv'
    BY <1>1, <1>2 DEF IInv, RestInv, Stale
  <1>7. CompleteIsReal'
    BY <1>3 DEF CompleteIsReal, One
  <1> QED BY <1>4, <1>5, <1>6, <1>7 DEF IInv

-----------------------------------------------------------------------------
(* The data connection. *)

\* Only a transfer that is prepared or runs has a connection.
LEMMA Connecting ==
  ASSUME IInv, server.data # "null"
  PROVE  \/ Passive /\ Asks
         \/ Active /\ Asks
         \/ Runs
  BY DEF IInv, PhaseInv, Idles, Prepares, Postponed, Over, Quiet

\* While it asks, the command is yet to be read.
LEMMA AsksEarly ==
  ASSUME IInv, Asks
  PROVE  pc \notin {"150", "226"} \/ pipe # <<>>
  <1>1. \A a : <<a>> # <<>>
    OBVIOUS
  <1> QED BY <1>1 DEF Asks

\* A connection that is there is told to local_data.
Arrives(d) ==
  /\ server' \in Server /\ server'.prot = server.prot /\ server'.rest = server.rest
  /\ server'.at = server.at /\ server'.ready \in {0, 1}
  /\ \E s \in Server :
       /\ s.data = d /\ s.ready = server.ready /\ s.host = server.host
       /\ s.muted = server.muted /\ s.cmd = server.cmd /\ s.file = server.file
       /\ s.held = server.held /\ s.listing = server.listing /\ s.prot = server.prot
       /\ server.ready = 1 => Second(s, server')
       /\ server.ready = 0 => First(s, server')

LEMMA Arriving ==
  ASSUME server \in Server, server.ready \in {0, 1}, NEW d \in {"up", "secure"},
         server' = LocalData([server EXCEPT !.data = d])
  PROVE  Arrives(d)
  <1> DEFINE s == [server EXCEPT !.data = d]
  <1>1. server' = LocalData(s)
    OBVIOUS
  <1>2. s \in Server
    BY SetFields
  <1>3. /\ s.data = d /\ s.ready = server.ready /\ s.host = server.host
        /\ s.muted = server.muted /\ s.cmd = server.cmd /\ s.file = server.file
        /\ s.held = server.held /\ s.listing = server.listing /\ s.prot = server.prot
        /\ s.rest = server.rest /\ s.at = server.at
    BY DEF Server
  <1> HIDE DEF s
  <1>4. /\ server' \in Server /\ server'.prot = s.prot /\ server'.rest = s.rest
        /\ server'.at = s.at
        /\ s.ready = 1 => Second(s, server')
        /\ s.ready = 0 => First(s, server')
    BY <1>1, <1>2, <1>3, LocalDataIs
  <1>5. server'.ready \in {0, 1}
    BY <1>3, <1>4 DEF First, Second
  <1> QED BY <1>2, <1>3, <1>4, <1>5 DEF Arrives

\* A transfer that waits for it begins, and one that was begun goes on.
LEMMA RunsOn ==
  ASSUME IInv, Runs, NEW d \in {"up", "secure"}, Arrives(d), d = "up" => ~server.prot,
         server.data \in {"listen", "connecting", "tls"},
         began' = (began \/ Begins(server)), odd' = odd,
         UNCHANGED <<job, pc, onRest, pipe, replies>>
  PROVE  PhaseInv' /\ RestInv'
  <1>1. PICK s \in Server :
          /\ s.data = d /\ s.ready = server.ready /\ s.host = server.host
          /\ s.muted = server.muted /\ s.cmd = server.cmd /\ s.file = server.file
          /\ s.held = server.held /\ s.listing = server.listing /\ s.prot = server.prot
          /\ server.ready = 1 => Second(s, server')
          /\ server.ready = 0 => First(s, server')
    BY DEF Arrives
  <1>2. /\ server.ready \in {0, 1} /\ job.kind \in Kinds /\ server.prot = job.secure
        /\ server.prot \in BOOLEAN
    BY DEF IInv, KindsInv, Runs, Job, Kinds, Server
  <1>3. /\ server'.data = d /\ ~server'.host /\ ~server'.muted
        /\ server'.cmd \in {job.kind, "NONE", "WAITSSL"}
    BY <1>1, <1>2 DEF Runs, First, Second, Kinds
  <1>4. server'.cmd \notin Kinds
    BY <1>1, <1>2 DEF Runs, First, Second, Kinds
  <1>5. odd \subseteq {"twice"} => began'
    <2>1. CASE began
      BY <2>1
    <2>2. CASE ~began
      BY <1>2, <2>2 DEF Runs, Begins, Kinds
    <2> QED BY <2>1, <2>2 DEF IInv, KindsInv
  <1>6. server'.file # "null" \/ server'.listing => began' \/ Stale
    <2>1. CASE server.ready = 1 /\ server.cmd \in Kinds
      BY <2>1 DEF Begins, Kinds
    <2>2. CASE ~(server.ready = 1 /\ server.cmd \in Kinds)
      <3>1. server'.file = server.file /\ server'.listing = server.listing
        BY <1>1, <1>2, <2>2 DEF First, Second
      <3> QED BY <3>1 DEF Runs
    <2> QED BY <2>1, <2>2
  <1>7. job.secure => server'.data = "secure"
    BY <1>2, <1>3
  <1>8. PhaseInv'
    BY <1>3, <1>4, <1>5, <1>6, <1>7 DEF PhaseInv, Runs, Stale
  <1>9. ~Stale /\ server'.file # "open" => server.file # "open"
    <2>1. CASE server.ready = 1 /\ server.cmd \in Kinds
      BY <2>1 DEF Runs, Nothing
    <2>2. CASE ~(server.ready = 1 /\ server.cmd \in Kinds)
      BY <1>1, <1>2, <2>2 DEF First, Second
    <2> QED BY <2>1, <2>2
  <1>10. ~Stale /\ server'.file = "open" => server.file = "open"
    BY <1>1, <1>2 DEF First, Second, Kinds
  <1>11. server'.rest = server.rest /\ server'.at = server.at /\ ~Quiet
    BY DEF Arrives, Runs, Quiet
  <1>12. RestInv'
    BY <1>9, <1>10, <1>11 DEF IInv, RestInv, Stale
  <1> QED BY <1>8, <1>12

LEMMA ConnectStep ==
  ASSUME IInv, Connect
  PROVE  IInv'
  <1>1. /\ server.data \in {"listen", "connecting"} /\ server' = Connected(server) /\ odd' = Early
        /\ began' = (began \/ (~server.prot /\ Begins(server)))
        /\ UNCHANGED <<job, pc, onRest, jobs, pipe, replies>>
    BY DEF Connect, engine
  <1>2. /\ server \in Server /\ server.prot = job.secure /\ server.ready \in {0, 1}
        /\ began \in BOOLEAN
    BY DEF IInv, KindsInv
  <1>3. odd' \subseteq {"early", "insecure", "twice", "stale"} /\ odd \subseteq odd'
        /\ ("stale" \in odd' <=> Stale)
    BY <1>1 DEF Early, IInv, KindsInv, Stale
  <1>4. began' \in BOOLEAN /\ (began => began')
    BY <1>1, <1>2 DEF Begins
  <1>5. \/ /\ server.prot /\ server' \in Server /\ server'.data = "tls"
           /\ server'.prot = server.prot /\ server'.rest = server.rest
           /\ server'.at = server.at /\ server'.ready = server.ready
           /\ server'.host = server.host /\ server'.muted = server.muted
           /\ server'.cmd = server.cmd /\ server'.file = server.file
           /\ server'.held = server.held /\ server'.listing = server.listing
        \/ ~server.prot /\ Arrives("up")
    <2>1. CASE server.prot
      <3>1. server' = [server EXCEPT !.data = "tls"]
        BY <1>1, <2>1 DEF Connected
      <3>2. server' \in Server
        BY <1>2, <3>1, SetFields
      <3> QED BY <1>2, <2>1, <3>1, <3>2 DEF Server
    <2>2. CASE ~server.prot
      <3>1. server' = LocalData([server EXCEPT !.data = "up"])
        BY <1>1, <2>2 DEF Connected
      <3> QED BY <1>2, <2>2, <3>1, Arriving
    <2> QED BY <2>1, <2>2
  <1>6. KindsInv'
    BY <1>1, <1>2, <1>3, <1>4, <1>5 DEF IInv, KindsInv, Arrives
  <1>7. CompleteIsReal'
    BY <1>1, <1>3, <1>4 DEF IInv, CompleteIsReal
  <1>8. ASSUME Passive, Asks PROVE PhaseInv' /\ RestInv'
    <2>1. Passive'
      BY <1>1, <1>5, <1>8 DEF Passive, Nothing, First, Second, Arrives
    <2>2. PhaseInv'
      BY <1>1, <1>8, <2>1 DEF PhaseInv, Prepares, Asks
    <2> QED BY <1>1, <1>3, <1>5, <1>8, <2>1, <2>2
            DEF IInv, RestInv, Stale, Passive, Quiet, Nothing, Arrives
  <1>9. ASSUME Active, Asks PROVE PhaseInv' /\ RestInv'
    <2>1. "early" \in odd'
      BY <1>1, <1>9, AsksEarly DEF Active, Early
    <2>2. Active'
      BY <1>1, <1>5, <1>9, <2>1 DEF Active, Nothing, First, Second, Arrives, Kinds
    <2>3. PhaseInv'
      BY <1>1, <1>9, <2>2 DEF PhaseInv, Prepares, Asks
    <2> QED BY <1>1, <1>3, <1>5, <1>9, <2>2, <2>3
            DEF IInv, RestInv, Stale, Active, Quiet, Nothing, Arrives
  <1>10. ASSUME Runs PROVE PhaseInv' /\ RestInv'
    <2>1. odd' = odd
      BY <1>1, <1>10 DEF Runs, Early
    <2>2. CASE server.prot
      <3>1. began' = began
        BY <1>1, <1>2, <2>2
      <3>2. PhaseInv'
        BY <1>1, <1>5, <1>10, <2>1, <2>2, <3>1 DEF PhaseInv, Runs, Nothing, Stale
      <3> QED BY <1>1, <1>5, <1>10, <2>1, <2>2, <3>2 DEF IInv, RestInv, Stale, Runs, Quiet
    <2>3. CASE ~server.prot
      <3>1. began' = (began \/ Begins(server))
        BY <1>1, <2>3
      <3> QED BY <1>1, <1>5, <1>10, <2>1, <2>3, <3>1, RunsOn
    <2> QED BY <2>2, <2>3
  <1> QED BY <1>1, <1>6, <1>7, <1>8, <1>9, <1>10, Connecting DEF IInv

LEMMA SecuredStep ==
  ASSUME IInv, Secured
  PROVE  IInv'
  <1>1. /\ server.data = "tls" /\ server' = LocalData([server EXCEPT !.data = "secure"])
        /\ odd' = Early /\ began' = (began \/ Begins(server))
        /\ UNCHANGED <<job, pc, onRest, jobs, pipe, replies>>
    BY DEF Secured, engine
  <1>2. /\ server \in Server /\ server.prot = job.secure /\ server.ready \in {0, 1}
        /\ began \in BOOLEAN
    BY DEF IInv, KindsInv
  <1>3. odd' \subseteq {"early", "insecure", "twice", "stale"} /\ odd \subseteq odd'
        /\ ("stale" \in odd' <=> Stale)
    BY <1>1 DEF Early, IInv, KindsInv, Stale
  <1>4. began' \in BOOLEAN /\ (began => began')
    BY <1>1, <1>2 DEF Begins
  <1>5. Arrives("secure")
    BY <1>1, <1>2, Arriving
  <1>6. KindsInv'
    BY <1>1, <1>2, <1>3, <1>4, <1>5 DEF IInv, KindsInv, Arrives
  <1>7. CompleteIsReal'
    BY <1>1, <1>3, <1>4 DEF IInv, CompleteIsReal
  <1>8. ASSUME Passive, Asks PROVE PhaseInv' /\ RestInv'
    <2>1. Passive'
      BY <1>1, <1>5, <1>8 DEF Passive, Nothing, First, Second, Arrives
    <2>2. PhaseInv'
      BY <1>1, <1>8, <2>1 DEF PhaseInv, Prepares, Asks
    <2> QED BY <1>1, <1>3, <1>5, <1>8, <2>1, <2>2
            DEF IInv, RestInv, Stale, Passive, Quiet, Nothing, Arrives
  <1>9. ASSUME Active, Asks PROVE PhaseInv' /\ RestInv'
    <2>1. "early" \in odd'
      BY <1>1, <1>9, AsksEarly DEF Active, Early
    <2>2. Active'
      BY <1>1, <1>2, <1>5, <1>9, <2>1 DEF Active, Nothing, First, Second, Arrives, Kinds
    <2>3. PhaseInv'
      BY <1>1, <1>9, <2>2 DEF PhaseInv, Prepares, Asks
    <2> QED BY <1>1, <1>3, <1>5, <1>9, <2>2, <2>3
            DEF IInv, RestInv, Stale, Active, Quiet, Nothing, Arrives
  <1>10. ASSUME Runs PROVE PhaseInv' /\ RestInv'
    <2>1. odd' = odd
      BY <1>1, <1>10 DEF Runs, Early
    <2> QED BY <1>1, <1>5, <1>10, <2>1, RunsOn
  <1> QED BY <1>1, <1>6, <1>7, <1>8, <1>9, <1>10, Connecting DEF IInv

LEMMA SecureFailedStep ==
  ASSUME IInv, SecureFailed
  PROVE  IInv'
  <1>1. /\ server.data = "tls" /\ server' = [server EXCEPT !.data = "failed"]
        /\ odd' = odd \cup {"insecure"}
        /\ UNCHANGED <<job, pc, onRest, jobs, pipe, replies, began>>
    BY DEF SecureFailed, engine
  <1>2. server \in Server /\ server' \in Server
    BY <1>1, SetFields DEF IInv, KindsInv
  <1>3. /\ server'.data = "failed" /\ server'.prot = server.prot /\ server'.rest = server.rest
        /\ server'.at = server.at /\ server'.ready = server.ready
        /\ server'.host = server.host /\ server'.muted = server.muted
        /\ server'.cmd = server.cmd /\ server'.file = server.file
        /\ server'.held = server.held /\ server'.listing = server.listing
    BY <1>1, <1>2 DEF Server
  <1>4. KindsInv'
    BY <1>1, <1>2, <1>3 DEF IInv, KindsInv
  <1>5. CompleteIsReal'
    BY <1>1 DEF IInv, CompleteIsReal
  <1>6. PhaseInv'
    <2>1. ASSUME Passive, Asks PROVE PhaseInv'
      BY <1>1, <1>3, <2>1 DEF PhaseInv, Prepares, Asks, Passive, Nothing
    <2>2. ASSUME Active, Asks PROVE PhaseInv'
      BY <1>1, <1>3, <2>2 DEF PhaseInv, Prepares, Asks, Active, Nothing
    <2>3. ASSUME Runs PROVE PhaseInv'
      BY <1>1, <1>3, <2>3 DEF PhaseInv, Runs, Nothing, Stale
    <2> QED BY <1>1, <2>1, <2>2, <2>3, Connecting
  <1>7. RestInv'
    BY <1>1, <1>3 DEF IInv, RestInv, Stale, Quiet
  <1> QED BY <1>4, <1>5, <1>6, <1>7 DEF IInv

\* The end of a transfer that runs, told once.
LEMMA Ended ==
  ASSUME IInv, Runs, NEW code \in {"226", "550"},
         \/ server' = DataGone(server)
         \/ \E m \in BOOLEAN : server' = DataGone([server EXCEPT !.muted = m]),
         replies' = Append(replies, code), code = "226" => began \/ ~(odd \subseteq {"twice"}),
         UNCHANGED <<job, pc, onRest, jobs, pipe, began, odd>>
  PROVE  IInv'
  <1>1. server \in Server /\ code \in Reply /\ replies \in Seq(Reply)
    BY DEF IInv, KindsInv, Reply
  <1>2. /\ server' \in Server /\ server'.prot = server.prot /\ server'.rest = server.rest
        /\ server'.ready = server.ready /\ server'.host = server.host /\ server'.cmd = server.cmd
        /\ server'.data = "null" /\ server'.file = "null" /\ ~server'.held /\ ~server'.listing
    BY <1>1, DataGoneIs
  <1>3. Quiet'
    BY <1>2 DEF Runs, Quiet, Nothing
  <1>4. /\ replies' \in Seq(Reply)
        /\ pc = "150" => Two(replies', "150", code)
        /\ pc = "226" => One(replies', code)
    BY <1>1, Said DEF Runs, One, Two, Reply
  <1>5. KindsInv'
    BY <1>2, <1>4 DEF IInv, KindsInv
  <1>6. PhaseInv'
    BY <1>3, <1>4 DEF PhaseInv, Over, Runs
  <1>7. RestInv'
    BY <1>2, <1>3 DEF IInv, RestInv, Stale, Runs
  <1>8. CompleteIsReal'
    BY <1>4 DEF CompleteIsReal, One, Two, Runs
  <1> QED BY <1>5, <1>6, <1>7, <1>8 DEF IInv

LEMMA PeerClosesStep ==
  ASSUME IInv, PeerCloses
  PROVE  IInv'
  <1>1. Runs
    BY Connecting DEF PeerCloses, Asks
  <1>2. /\ server' = DataGone(server) /\ replies' = Append(replies, "226")
        /\ UNCHANGED <<job, pc, onRest, jobs, pipe, began, odd>>
    BY <1>1 DEF PeerCloses, Says, Runs, engine
  <1>3. began \/ ~(odd \subseteq {"twice"})
    BY <1>1 DEF Runs, PeerCloses
  <1> QED BY <1>1, <1>2, <1>3, Ended DEF IInv, KindsInv, Server

LEMMA DataLostStep ==
  ASSUME IInv, DataLost
  PROVE  IInv'
  <1>1. Runs
    BY Connecting DEF DataLost, Asks
  <1>2. /\ server' = DataGone(server) /\ replies' = Append(replies, "550")
        /\ UNCHANGED <<job, pc, onRest, jobs, pipe, began, odd>>
    BY <1>1 DEF DataLost, Says, Runs, engine
  <1>3. server.muted \in BOOLEAN
    BY DEF IInv, KindsInv, Server
  <1> QED BY <1>1, <1>2, <1>3, Ended

-----------------------------------------------------------------------------
(* The file and the listing. *)

\* A file is open in a transfer that runs, or one that PORT began is that of another.
LEMMA FileOf ==
  ASSUME IInv, server.file # "null" \/ server.listing
  PROVE  Runs \/ (Postponed /\ Asks /\ Stale)
  BY DEF IInv, PhaseInv, Idles, Prepares, Passive, Active, Postponed, Over, Quiet, Nothing

LEMMA FileOpenStep ==
  ASSUME IInv, FileOpen
  PROVE  IInv'
  <1>1. /\ server.file = "opening"
        /\ server' = [server EXCEPT !.file = "open", !.at = server.rest, !.rest = 0]
        /\ UNCHANGED <<job, pc, onRest, jobs, pipe, replies, began, odd>>
    BY DEF FileOpen, engine
  <1>2. server \in Server /\ server.rest \in {0, 1}
    BY DEF IInv, KindsInv, Server
  <1>3. server' \in Server
    BY <1>1, <1>2, SetFields
  <1>4. /\ server'.data = server.data /\ server'.prot = server.prot /\ server'.rest = 0
        /\ server'.at = server.rest /\ server'.ready = server.ready
        /\ server'.host = server.host /\ server'.muted = server.muted
        /\ server'.cmd = server.cmd /\ server'.file = "open"
        /\ server'.held = server.held /\ server'.listing = server.listing
    BY <1>1, <1>2 DEF Server
  <1>5. KindsInv'
    BY <1>1, <1>3, <1>4 DEF IInv, KindsInv
  <1>6. CompleteIsReal'
    BY <1>1 DEF IInv, CompleteIsReal
  <1>7. ASSUME Runs PROVE PhaseInv' /\ RestInv'
    <2>1. PhaseInv'
      BY <1>1, <1>4, <1>7 DEF PhaseInv, Runs, Nothing, Stale
    <2>2. ~Stale => server.rest = job.off
      BY <1>1, <1>7 DEF IInv, RestInv, Runs, Quiet
    <2> QED BY <1>1, <1>4, <2>1, <2>2 DEF IInv, RestInv, Stale
  <1>8. ASSUME Postponed, Asks, Stale PROVE PhaseInv' /\ RestInv'
    <2>1. PhaseInv'
      BY <1>1, <1>4, <1>8 DEF PhaseInv, Prepares, Asks, Postponed, Stale
    <2> QED BY <1>1, <1>4, <1>8, <2>1 DEF IInv, RestInv, Stale
  <1> QED BY <1>1, <1>5, <1>6, <1>7, <1>8, FileOf DEF IInv

LEMMA FileFailedStep ==
  ASSUME IInv, FileFailed
  PROVE  IInv'
  <1>1. CASE Runs
    <2>1. /\ server' = DataGone([server EXCEPT !.muted = TRUE])
          /\ replies' = Append(replies, "550")
          /\ UNCHANGED <<job, pc, onRest, jobs, pipe, began, odd>>
      BY <1>1 DEF FileFailed, Runs, engine
    <2> QED BY <1>1, <2>1, Ended
  <1>2. CASE Postponed /\ Asks /\ Stale
    <2>1. /\ server' = DataGone([server EXCEPT !.muted = FALSE])
          /\ UNCHANGED <<job, pc, onRest, jobs, pipe, replies, began, odd>>
      BY <1>2 DEF FileFailed, Postponed, engine
    <2>2. server \in Server
      BY DEF IInv, KindsInv
    <2>3. /\ server' \in Server /\ server'.prot = server.prot /\ server'.rest = server.rest
          /\ server'.ready = server.ready /\ server'.host = server.host
          /\ server'.cmd = server.cmd /\ server'.data = "null" /\ server'.file = "null"
      BY <2>1, <2>2, DataGoneIs
    <2>4. KindsInv'
      BY <2>1, <2>3 DEF IInv, KindsInv
    <2>5. PhaseInv'
      BY <1>2, <2>1, <2>3 DEF PhaseInv, Prepares, Asks, Postponed, Stale
    <2>6. RestInv'
      BY <1>2, <2>1, <2>3 DEF IInv, RestInv, Stale
    <2>7. CompleteIsReal'
      BY <2>1 DEF IInv, CompleteIsReal
    <2> QED BY <2>4, <2>5, <2>6, <2>7 DEF IInv
  <1> QED BY <1>1, <1>2, FileOf DEF FileFailed

LEMMA EndStep ==
  ASSUME IInv, FileEnd \/ ListEnd
  PROVE  IInv'
  <1>1. Runs
    BY FileOf DEF FileEnd, ListEnd, Postponed
  <1>2. /\ server' = DataGone(server) /\ replies' = Append(replies, "226")
        /\ UNCHANGED <<job, pc, onRest, jobs, pipe, began, odd>>
        /\ server.file # "null" \/ server.listing
    BY <1>1 DEF FileEnd, ListEnd, Says, Runs, engine
  <1>3. server.muted \in BOOLEAN
    BY DEF IInv, KindsInv, Server
  <1>4. began \/ ~(odd \subseteq {"twice"})
    BY <1>1, <1>2 DEF Runs, Stale
  <1> QED BY <1>1, <1>2, <1>3, <1>4, Ended

LEMMA ListFailedStep ==
  ASSUME IInv, ListFailed
  PROVE  IInv'
  <1> DEFINE q == Append(replies, "550")
  <1>1. Runs
    BY FileOf DEF ListFailed, Postponed
  <1>2. server \in Server /\ replies \in Seq(Reply) /\ server.muted \in BOOLEAN
    BY DEF IInv, KindsInv, Server
  <1>3. /\ server' = DataGone(server) /\ replies' = q \o <<"226">>
        /\ odd' = odd \cup {"twice"} /\ server.listing
        /\ UNCHANGED <<job, pc, onRest, jobs, pipe, began>>
    BY <1>1 DEF ListFailed, Runs, engine
  <1>4. /\ server' \in Server /\ server'.prot = server.prot /\ server'.rest = server.rest
        /\ server'.ready = server.ready /\ server'.host = server.host /\ server'.cmd = server.cmd
        /\ server'.data = "null" /\ server'.file = "null" /\ ~server'.held /\ ~server'.listing
    BY <1>2, <1>3, DataGoneIs
  <1>5. Quiet'
    BY <1>1, <1>4 DEF Runs, Quiet, Nothing
  <1>6. /\ q \in Seq(Reply)
        /\ pc = "150" => Two(q, "150", "550")
        /\ pc = "226" => One(q, "550")
    <2>1. /\ replies = <<>> => One(q, "550")
          /\ One(replies, "150") => Two(q, "150", "550")
      BY <1>2, Said DEF Reply
    <2> QED BY <1>1, <2>1 DEF Runs, One, Two
  <1> HIDE DEF q
  <1>7. replies' = Append(q, "226")
    BY <1>3, <1>6, AppendIsConcat DEF Reply
  <1>8. /\ replies' \in Seq(Reply)
        /\ pc = "150" => Three(replies', "150", "550", "226")
        /\ pc = "226" => Two(replies', "550", "226")
    <2>1. /\ \A b : One(q, b) => Two(replies', b, "226")
          /\ \A b, c : Two(q, b, c) => Three(replies', b, c, "226")
      BY <1>6, <1>7, Said DEF Reply
    <2> QED BY <1>1, <1>6, <2>1 DEF Runs, Two, Three
  <1>9. KindsInv'
    BY <1>3, <1>4, <1>8 DEF IInv, KindsInv
  <1>10. PhaseInv'
    BY <1>1, <1>3, <1>5, <1>8 DEF PhaseInv, Over, Runs
  <1>11. RestInv'
    BY <1>1, <1>3, <1>4, <1>5 DEF IInv, RestInv, Stale, Runs
  <1>12. odd' \subseteq {"twice"} => began'
    BY <1>1, <1>3 DEF Runs, Stale
  <1>13. CompleteIsReal'
    BY <1>12 DEF CompleteIsReal
  <1> QED BY <1>9, <1>10, <1>11, <1>13 DEF IInv

-----------------------------------------------------------------------------
(* The theorems. *)

LEMMA InitInv == Init => IInv
  <1> SUFFICES ASSUME Init PROVE IInv
    OBVIOUS
  <1>1. server \in Server
    BY DEF Init, NewServer, Server
  <1>2. server.ready = 0 /\ ~server.prot /\ server.rest = 0 /\ server.file = "null"
        /\ server.data = "null" /\ ~server.host /\ ~server.listing /\ ~server.held
        /\ server.cmd = "NONE" /\ server.prot = job.secure
    BY DEF Init, NewServer, NoJob
  <1>3. KindsInv
    <2>1. jobs \in 0 .. MaxJobs
      BY LocalAssumption DEF Init
    <2>2. replies \in Seq(Reply) /\ odd = {}
      BY DEF Init
    <2> QED BY <1>1, <1>2, <2>1, <2>2 DEF Init, KindsInv
  <1>4. PhaseInv
    BY <1>2 DEF Init, PhaseInv, Idles, Quiet, Nothing, Kinds
  <1>5. RestInv
    BY <1>2 DEF Init, RestInv
  <1>6. CompleteIsReal
    BY DEF Init, CompleteIsReal
  <1> QED BY <1>3, <1>4, <1>5, <1>6 DEF IInv

\* In every reachable state a transfer is in one of its phases.
THEOREM Invariance == Spec => []IInv
  <1>1. IInv /\ [Next]_vars => IInv'
    <2> SUFFICES ASSUME IInv, [Next]_vars PROVE IInv'
      OBVIOUS
    <2>1. CASE SessionStep
      BY <2>1, StartStep, RestStep, TransferStep, TakeStep, SendAborStep DEF SessionStep
    <2>2. CASE Command
      BY <2>2, CmdPasvStep, CmdPortStep, CmdRestStep, CmdTransferStep, CmdAborStep DEF Command
    <2>3. CASE DataEvent
      BY <2>3, ConnectStep, SecuredStep, SecureFailedStep, PeerClosesStep, DataLostStep
         DEF DataEvent
    <2>4. CASE FileEvent
      BY <2>4, FileOpenStep, FileFailedStep, EndStep, ListFailedStep DEF FileEvent
    <2>5. CASE UNCHANGED vars
      BY <2>5 DEF vars, IInv, KindsInv, PhaseInv, RestInv, CompleteIsReal, Idles, Prepares,
                  Passive, Active, Postponed, Asks, Runs, Over, Quiet, Nothing, Stale
    <2> QED BY <2>1, <2>2, <2>3, <2>4, <2>5 DEF Next
  <1> QED BY InitInv, <1>1, PTL DEF Spec

\* What the session takes for the reply to a command is one: a transfer is answered
\* once, but for a listing that failed.
THEOREM AlwaysInStep == Spec => []InStep
  <1>1. IInv => InStep
    <2> SUFFICES ASSUME IInv PROVE InStep
      OBVIOUS
    <2>1. Len(pipe) <= 1
      <3>1. pipe = <<>> \/ \E a : pipe = <<a>>
        BY DEF IInv, PhaseInv, Idles, Prepares, Asks, Runs, Over
      <3>2. ASSUME NEW a, pipe = <<a>> PROVE Len(pipe) = 1
        BY <3>2
      <3>3. pipe = <<>> => Len(pipe) = 0
        OBVIOUS
      <3> QED BY <3>1, <3>2, <3>3
    <2> DEFINE n == Len(replies)
    <2>2. /\ replies = <<>> => n = 0
          /\ \A a : One(replies, a) => n = 1
          /\ \A a, b : Two(replies, a, b) => n = 2
          /\ \A a, b, c : Three(replies, a, b, c) => n = 3
      BY DEF One, Two, Three
    <2> HIDE DEF n
    <2>3. /\ n \in {0, 1, 2, 3}
          /\ "twice" \notin odd =>
               /\ n # 3
               /\ n = 2 => pc = "150" /\ \E b : Two(replies, "150", b)
               /\ n # 0 => pc # "idle"
               /\ n # 0 /\ pc = "225" => One(replies, "225")
      <3>1. CASE Idles
        BY <2>2, <3>1 DEF Idles
      <3>2. CASE Prepares
        BY <2>2, <3>2 DEF Prepares, Asks
      <3>3. CASE Runs
        BY <2>2, <3>3 DEF Runs
      <3>4. CASE Over
        BY <2>2, <3>4 DEF Over
      <3> QED BY <3>1, <3>2, <3>3, <3>4 DEF IInv, PhaseInv
    <2>4. n <= 3 /\ ("twice" \notin odd => n <= 2)
      BY <2>3
    <2>5. TypeOK
      BY <2>1, <2>4 DEF TypeOK, IInv, KindsInv, n
    <2>6. /\ \A b : Two(replies, "150", b) => replies[1] = "150"
          /\ One(replies, "225") => replies[Len(replies)] = "225"
          /\ n = 0 => replies = <<>>
      BY EmptySeq DEF One, Two, IInv, KindsInv, n
    <2> QED BY <2>2, <2>3, <2>4, <2>5, <2>6 DEF InStep, n
  <1> QED BY <1>1, Invariance, PTL

\* "226 Transfer complete" is said of a transfer that was begun.
THEOREM CompleteIsAlwaysReal == Spec => []CompleteIsReal
  <1>1. IInv => CompleteIsReal
    BY DEF IInv
  <1> QED BY <1>1, Invariance, PTL

\* A transfer goes from where it was asked to, and nothing of a file that is
\* retrieved goes over a connection that PROT P has yet to secure.
THEOREM TransferAlwaysRight == Spec => []TransferRight
  <1>1. IInv => TransferRight
    <2> SUFFICES ASSUME IInv PROVE TransferRight
      OBVIOUS
    <2>1. OffsetRight
      BY DEF IInv, RestInv, Stale, OffsetRight
    <2>2. NothingPlain
      BY FileOf DEF NothingPlain, Runs, Stale
    <2> QED BY <2>1, <2>2 DEF TransferRight
  <1> QED BY <1>1, Invariance, PTL
=============================================================================
