----------------------------- MODULE QueueProofs -----------------------------
(***************************************************************************)
(* Theorems about a queue, for every pair of sites, every list of items,   *)
(* every choice of refusals and every bound: the list and its count never  *)
(* part, queue_process never follows an empty list, and no item is tried   *)
(* more than twice.  The invariant that carries them is IInv.  From it     *)
(* follow, in the second half, that the first item stays the first, that a *)
(* queue implements Ledger, and that its accounts therefore balance.       *)
(***************************************************************************)
EXTENDS Queue, SequenceTheorems, FiniteSetTheorems, TLAPS

-----------------------------------------------------------------------------
(* Sessions: whatever commands are queued and whatever replies come, every  *)
(* operator of Session makes a session out of a session.  The proofs about   *)
(* the modules that own sessions cite these lemmas.                          *)

\* A session that is opened, and one that is not there, are sessions.
LEMMA NewSessionType == NewSession \in SessionRec /\ NoSession \in SessionRec
<1>1. <<>> \in Seq(Command)
  OBVIOUS
<1>2. NewSession \in SessionRec
  BY <1>1 DEF NewSession, SessionRec, Path, ReplyId
<1> QED
  BY <1>2 DEF NoSession, SessionRec

\* session_cmdq_restart sends a command or does nothing.
LEMMA RestartType ==
  ASSUME NEW s \in SessionRec
  PROVE  Restart(s) \in SessionRec
BY DEF Restart, SessionRec

\* session_cmdq_new appends a command.
LEMMA CmdqNewType ==
  ASSUME NEW s \in SessionRec, NEW cmd \in Command
  PROVE  CmdqNew(s, cmd) \in SessionRec
<1>1. Append(s.cmdq, cmd) \in Seq(Command)
  BY DEF SessionRec
<1>2. [s EXCEPT !.cmdq = Append(@, cmd)] \in SessionRec
  BY <1>1 DEF SessionRec
<1> QED
  BY <1>2, RestartType DEF CmdqNew

\* The commands that the engine sends are commands.
LEMMA CmdType ==
  ASSUME NEW op \in Op \ {"ON", "OFF", "CWD", "MKD"}, NEW ev \in Event
  PROVE  Cmd(op, ev) \in Command
BY DEF Cmd, Command

\* A command that only changes a flag.
LEMMA SetFlagType ==
  ASSUME NEW s \in SessionRec, NEW flag \in Flag, NEW on \in BOOLEAN, NEW ev \in Event
  PROVE  SetFlag(s, flag, on, ev) \in SessionRec
<1>1. [op |-> IF on THEN "ON" ELSE "OFF", arg |-> flag, ev |-> ev] \in Command
  BY DEF Command, Op
<1> QED
  BY <1>1, CmdqNewType DEF SetFlag

\* session_ccsn, session_sscn and session_rest.
LEMMA FlagsType ==
  ASSUME NEW s \in SessionRec, NEW site, NEW on \in BOOLEAN, NEW ev \in Event
  PROVE  /\ Ccsn(site, s, on, ev) \in SessionRec
         /\ Sscn(site, s, on, ev) \in SessionRec
         /\ Rest(s, on, ev) \in SessionRec
<1>1. Ccsn(site, s, on, ev) \in SessionRec
  BY SetFlagType DEF Ccsn, Flag
<1>2. Sscn(site, s, on, ev) \in SessionRec
  BY SetFlagType DEF Sscn, Flag
<1>3. [op |-> "ON", arg |-> "REST", ev |-> ev] \in Command
  BY DEF Command, Op, Flag
<1>4. Rest(s, on, ev) \in SessionRec
  BY <1>3, SetFlagType, CmdqNewType DEF Rest, Flag
<1> QED
  BY <1>1, <1>2, <1>4

\* session_cwd.
LEMMA CwdType ==
  ASSUME NEW s \in SessionRec, NEW dir \in Path, NEW ev \in Event
  PROVE  Cwd(s, dir, ev) \in SessionRec
<1>1. [op |-> "CWD", arg |-> dir, ev |-> ev] \in Command
  BY DEF Command, Op
<1>2. [s EXCEPT !.saved = dir] \in SessionRec
  BY DEF SessionRec
<1> QED
  BY <1>1, <1>2, CmdqNewType DEF Cwd

\* session_stor and session_retr.
LEMMA TransferType ==
  ASSUME NEW s \in SessionRec
  PROVE  Stor(s) \in SessionRec /\ Retr(s) \in SessionRec
<1>1. /\ [s EXCEPT !.replyId = "PHASE_12_DST_226"] \in SessionRec
      /\ [s EXCEPT !.replyId = "PHASE_12_SRC_226"] \in SessionRec
  BY DEF SessionRec, ReplyId
<1>2. Cmd("STOR", "PHASE_10_STOR") \in Command /\ Cmd("RETR", "PHASE_11_RETR") \in Command
  BY CmdType DEF Op, Event
<1> QED
  BY <1>1, <1>2, CmdqNewType DEF Stor, Retr

\* PRET, where the site wants it.
LEMMA PretType ==
  ASSUME NEW s \in SessionRec, NEW site, NEW ev \in Event
  PROVE  Pret(site, s, ev) \in SessionRec
BY CmdType, CmdqNewType DEF Pret, Op

\* session_dirlist.
LEMMA DirlistType ==
  ASSUME NEW s \in SessionRec, NEW site \in Site, NEW id \in ReplyId
  PROVE  Dirlist(site, s, id) \in SessionRec
<1> DEFINE s0 == [s EXCEPT !.replyId = id, !.files = FALSE]
           s1 == SetFlag(s0, "BINARY", site.desiredType = "YES", "none")
           c2 == Ccsn(site, s1, FALSE, "none")
           s2 == Sscn(site, c2, FALSE, "none")
           r3 == Rest(s2, FALSE, "none")
           s3 == ListProt(site, r3)
           s4 == Pret(site, s3, "none")
           s5 == CmdqNew(s4, Cmd(IF site.passive = "NO" THEN "PORT" ELSE "PASV", "none"))
<1>e. "none" \in Event
  BY DEF Event
<1>f. "BINARY" \in Flag /\ "PRIVACY" \in Flag
  BY DEF Flag
<1>0. s0 \in SessionRec
  BY DEF SessionRec
<1> HIDE DEF s0
<1>1. s1 \in SessionRec
  BY <1>0, <1>e, <1>f, SetFlagType
<1> HIDE DEF s1
<1>2. c2 \in SessionRec
  BY <1>1, <1>e, FlagsType
<1> HIDE DEF c2
<1>3. s2 \in SessionRec
  BY <1>2, <1>e, FlagsType
<1> HIDE DEF s2
<1>4. r3 \in SessionRec
  BY <1>3, <1>e, FlagsType
<1> HIDE DEF r3
<1>5. s3 \in SessionRec
  BY <1>4, <1>e, <1>f, SetFlagType DEF ListProt
<1> HIDE DEF s3
<1>6. s4 \in SessionRec
  BY <1>5, <1>e, PretType
<1> HIDE DEF s4
<1>7. /\ Cmd(IF site.passive = "NO" THEN "PORT" ELSE "PASV", "none") \in Command
      /\ Cmd("LIST", "none") \in Command
  BY <1>e, CmdType DEF Op
<1>8. s5 \in SessionRec
  BY <1>6, <1>7, CmdqNewType
<1> HIDE DEF s5
<1>9. CmdqNew(s5, Cmd("LIST", "none")) \in SessionRec
  BY <1>7, <1>8, CmdqNewType
<1> QED
  BY <1>9 DEF Dirlist, s0, s1, c2, s2, r3, s3, s4, s5

\* A login, the end of a transfer and the end of a listing.
LEMMA EndsType ==
  ASSUME NEW s \in SessionRec
  PROVE  /\ LoggedIn(s) \in SessionRec
         /\ TransferEnded(s) \in SessionRec
         /\ ListEnded(s) \in SessionRec
<1>1. /\ [s EXCEPT !.login = TRUE, !.isidle = TRUE] \in SessionRec
      /\ [s EXCEPT !.state = "IDLE", !.replyId = "none"] \in SessionRec
      /\ [s EXCEPT !.state = "IDLE"] \in SessionRec
  BY DEF SessionRec, ReplyId
<1> QED
  BY <1>1, RestartType DEF LoggedIn, TransferEnded, ListEnded

\* What the server does.
LEMMA ObeysType ==
  ASSUME NEW s \in SessionRec, NEW cmd \in Command, NEW code
  PROVE  Obeys(s, cmd, code) \in SessionRec
<1>1. cmd.op = "CWD" => cmd.arg \in Path
  BY DEF Command
<1>2. (cmd.op = "ON") \in BOOLEAN
  OBVIOUS
<1>3. /\ (IF cmd.op = "CWD" THEN cmd.arg ELSE s.cwd) \in Path
      /\ (IF Key(cmd) = "PRIVACY" THEN cmd.op = "ON" ELSE s.prot) \in BOOLEAN
  BY <1>1, <1>2 DEF SessionRec
<1> QED
  BY <1>3 DEF Obeys, SessionRec

\* What the session notes.
LEMMA NotedType ==
  ASSUME NEW s \in SessionRec, NEW cmd \in Command, NEW code
  PROVE  Noted(s, cmd, code) \in SessionRec
<1>1. Append(s.cmdq, Cmd("PWD", "none")) \in Seq(Command)
  BY CmdType DEF Op, Event, SessionRec
<1>2. cmd.op \in {"ON", "OFF"} => cmd.arg \in Flag
  BY DEF Command
<1>3. cmd.op \in {"ON", "OFF"} =>
        /\ [s EXCEPT !.status = @ \cup {cmd.arg}] \in SessionRec
        /\ [s EXCEPT !.status = @ \ {cmd.arg}] \in SessionRec
  BY <1>2 DEF SessionRec
<1>4. [s EXCEPT !.pwd = IF s.saved # "-" THEN s.saved ELSE @,
                !.files = FALSE, !.cmdq = Append(@, Cmd("PWD", "none"))] \in SessionRec
  BY <1>1 DEF SessionRec
<1>5. /\ [s EXCEPT !.saved = "-"] \in SessionRec
      /\ [s EXCEPT !.pwd = s.cwd] \in SessionRec
      /\ [s EXCEPT !.state = "RELAY_226"] \in SessionRec
      /\ [s EXCEPT !.data = TRUE] \in SessionRec
      /\ [s EXCEPT !.state = "DATA_FINISH"] \in SessionRec
  BY DEF SessionRec
<1> QED
  BY <1>3, <1>4, <1>5 DEF Noted

\* What a reply does before the handler hears of it.
LEMMA DigestType ==
  ASSUME NEW s \in SessionRec, NEW cmd \in Command, NEW code
  PROVE  Digest(s, cmd, code) \in SessionRec
BY ObeysType, NotedType DEF Digest

\* What the handler queues.
LEMMA GivenType ==
  ASSUME NEW s \in SessionRec, NEW more \in Seq(Command)
  PROVE  Given(s, more) \in SessionRec
<1>1. s.cmdq \o more \in Seq(Command)
  BY ConcatProperties DEF SessionRec
<1>2. more # <<>> /\ more[1].op = "CWD" => more[1].arg \in Path
  <2>1. more # <<>> => more[1] \in Command
    OBVIOUS
  <2> QED
    BY <2>1 DEF Command
<1> QED
  BY <1>1, <1>2 DEF Given, SessionRec

\* The reply to the oldest command.
LEMMA AnsweredType ==
  ASSUME NEW s \in SessionRec, NEW code, NEW more \in Seq(Command), s.cmdq # <<>>
  PROVE  /\ Head(s.cmdq) \in Command
         /\ Digest(s, Head(s.cmdq), code) \in SessionRec
         /\ Answered(s, code, more) \in SessionRec
<1> DEFINE s0 == [s EXCEPT !.cmdq = Tail(@)]
           s1 == Digest(s0, Head(s.cmdq), code)
           s2 == Given(s1, more)
<1>1. Head(s.cmdq) \in Command /\ Tail(s.cmdq) \in Seq(Command)
  BY HeadTailProperties DEF SessionRec
<1>2. s0 \in SessionRec
  BY <1>1 DEF SessionRec
<1> HIDE DEF s0
<1>3. s1 \in SessionRec
  BY <1>1, <1>2, DigestType
<1> HIDE DEF s1
<1>4. s2 \in SessionRec
  BY <1>3, GivenType
<1> HIDE DEF s2
<1>5. [s2 EXCEPT !.isidle = TRUE] \in SessionRec
  BY <1>4 DEF SessionRec
<1>6. Answered(s, code, more) \in SessionRec
  BY <1>5, RestartType DEF Answered, s0, s1, s2
<1> QED
  BY <1>1, <1>6, DigestType

-----------------------------------------------------------------------------
(* Lists: the elements stay in the same set and the length changes by one.   *)
(* Nothing is assumed of the elements beyond the fields that are read.       *)

\* Of a list there are at most as many positions as it is long.
LEMMA PrefixLength ==
  ASSUME NEW n \in Nat, NEW T, T \subseteq 1 .. n
  PROVE  Cardinality(T) \in 0 .. n
<1>1. IsFiniteSet(1 .. n) /\ Cardinality(1 .. n) = n
  BY FS_Interval
<1>2. IsFiniteSet(T) /\ Cardinality(T) <= n
  BY <1>1, FS_Subset
<1> QED
  BY <1>2, FS_CardinalityType

\* The searches of the list end within it.
LEMMA SearchInList ==
  ASSUME NEW S, NEW q \in Seq(S)
  PROVE  /\ FirstSuch(q, IsPlainDirectory) \in 0 .. Len(q)
         /\ FirstSuch(q, NotMover) \in 0 .. Len(q)
<1>1. Len(q) \in Nat
  OBVIOUS
<1>2. FirstSuch(q, IsPlainDirectory) \in 0 .. Len(q)
  BY <1>1, PrefixLength DEF FirstSuch
<1>3. FirstSuch(q, NotMover) \in 0 .. Len(q)
  BY <1>1, PrefixLength DEF FirstSuch
<1> QED
  BY <1>2, <1>3

\* queue_insert puts an item somewhere between the front and the end.
LEMMA PositionInList ==
  ASSUME NEW S, NEW q \in Seq(S), NEW at, Atoi(at) \in Nat
  PROVE  Position(q, at) \in 0 .. Len(q)
<1>1. Len(q) \in Nat
  OBVIOUS
<1> QED
  BY <1>1, SearchInList DEF Position

\* An insertion keeps the elements in their set and adds one.
LEMMA InsertAtPosKeeps ==
  ASSUME NEW S, NEW q \in Seq(S), NEW x \in S, NEW pos \in 0 .. Len(q)
  PROVE  /\ InsertAtPos(q, pos, x) \in Seq(S)
         /\ Len(InsertAtPos(q, pos, x)) = Len(q) + 1
<1> DEFINE front == SubSeq(q, 1, pos)
           back  == SubSeq(q, pos + 1, Len(q))
<1>1. front \in Seq(S) /\ Len(front) = pos
  BY SubSeqProperties, ElementOfSeq
<1>2. back \in Seq(S) /\ Len(back) = Len(q) - pos
  BY SubSeqProperties, ElementOfSeq
<1>3. <<x>> \in Seq(S) /\ Len(<<x>>) = 1
  OBVIOUS
<1>4. front \o <<x>> \in Seq(S) /\ Len(front \o <<x>>) = pos + 1
  BY <1>1, <1>3, ConcatProperties
<1> HIDE DEF front, back
<1>5. (front \o <<x>>) \o back \in Seq(S)
      /\ Len((front \o <<x>>) \o back) = Len(q) + 1
  BY <1>2, <1>4, ConcatProperties
<1> QED
  BY <1>5 DEF InsertAtPos, front, back

\* The same of queue_insert.
LEMMA InsertKeeps ==
  ASSUME NEW S, NEW q \in Seq(S), NEW x \in S, NEW at, Atoi(at) \in Nat
  PROVE  /\ Insert(q, x, at) \in Seq(S)
         /\ Len(Insert(q, x, at)) = Len(q) + 1
BY PositionInList, InsertAtPosKeeps DEF Insert

\* Taking an item out keeps the others in their set.
LEMMA RemoveKeeps ==
  ASSUME NEW S, NEW q \in Seq(S), NEW pos \in 0 .. Len(q) - 1
  PROVE  /\ RemoveAtPos(q, pos) \in Seq(S)
         /\ Len(RemoveAtPos(q, pos)) = Len(q) - 1
<1> DEFINE front == SubSeq(q, 1, pos)
           back  == SubSeq(q, pos + 2, Len(q))
<1>1. front \in Seq(S) /\ Len(front) = pos
  BY SubSeqProperties, ElementOfSeq
<1>2. back \in Seq(S) /\ Len(back) = Len(q) - pos - 1
  BY SubSeqProperties, ElementOfSeq
<1> HIDE DEF front, back
<1>3. front \o back \in Seq(S) /\ Len(front \o back) = Len(front) + Len(back)
  BY <1>1, <1>2, ConcatProperties
<1>4. Len(front \o back) = Len(q) - 1
  BY <1>1, <1>2, <1>3
<1> QED
  BY <1>3, <1>4 DEF RemoveAtPos, front, back

\* An entry of an expanded directory is inserted like any other item.
LEMMA ExpandOneKeeps ==
  ASSUME NEW S, NEW q \in Seq(S), NEW x \in S
  PROVE  /\ ExpandOne(q, x) \in Seq(S)
         /\ Len(ExpandOne(q, x)) = Len(q) + 1
<1>1. Atoi(ExpansionAt(q, x)) \in Nat
  BY SearchInList DEF ExpansionAt, Atoi, First, Default, Nth
<1> QED
  BY <1>1, InsertKeeps DEF ExpandOne

-----------------------------------------------------------------------------
(* The invariant. *)

\* An item that may be tried again: it has failed at most once.
Triable == {item \in Item : item.soft \in {0, 1}}

\* An item with two failures is only met between QUEUE_ITEM_FAILED and
\* QUEUE_ERROR_ITEM, two calls of queue_process without a poll between them.
Charged ==
  IF state = "ERROR_ITEM"
  THEN /\ loop = "run" /\ items # <<>>
       /\ Head(items) \in Item /\ Tail(items) \in Seq(Triable)
  ELSE items \in Seq(Triable)

\* The part of the invariant that is about the list and the state.
ListInv ==
  /\ state \in State /\ stop \in BOOLEAN /\ src \in Side \cup {"none"}
  /\ num \in Int /\ Charged /\ CountsAgree /\ HeadPresent

\* The part about the sessions.
SessionInv ==
  loop \in {"poll", "run"} /\ sess \in [Side -> SessionRec] /\ old \in [Side -> BOOLEAN]

\* The part about the flags of a file.
FileInv ==
  secure \in BOOLEAN /\ srcpasv \in BOOLEAN /\ mkd \in 0 .. MaxMkd /\ store \in BOOLEAN

\* The part about the destination's files and the wire.
WorldInv ==
  /\ alive \in BOOLEAN /\ remote \in [ItemId -> Size]
  /\ wire \in [to: ItemId \cup {0}, got: {"wait", "flow", "all", "cut"}]

\* The part about the books that are kept of the items, and the bounds.
BookInv ==
  /\ errs \subseteq ItemId /\ done \subseteq ItemId /\ gone \subseteq ItemId
  /\ nextId \in 1 .. MaxItems + 1
  /\ cmds \in 0 .. MaxCmds /\ lost \in 0 .. MaxLost /\ bad \in 0 .. MaxBad

IInv == ListInv /\ SessionInv /\ FileInv /\ WorldInv /\ BookInv

-----------------------------------------------------------------------------
(* Lists and items. *)

\* The first of a list and the rest of it.
LEMMA HeadAndTail ==
  ASSUME NEW S, NEW q \in Seq(S), q # <<>>
  PROVE  /\ Head(q) \in S /\ Tail(q) \in Seq(S)
         /\ Len(q) \in Nat \ {0} /\ Len(Tail(q)) = Len(q) - 1
BY HeadTailProperties, EmptySeq

\* Writing to the first item keeps the list.
LEMMA SetTopKeeps ==
  ASSUME NEW S, items \in Seq(S), items # <<>>, NEW x \in S
  PROVE  SetTop(x) \in Seq(S) /\ Len(SetTop(x)) = Len(items) /\ SetTop(x) # <<>>
<1>1. Tail(items) \in Seq(S) /\ Len(items) \in Nat \ {0} /\ Len(Tail(items)) = Len(items) - 1
  BY HeadAndTail
<1>2. <<x>> \in Seq(S) /\ Len(<<x>>) = 1
  OBVIOUS
<1>3. SetTop(x) \in Seq(S) /\ Len(SetTop(x)) = 1 + Len(Tail(items))
  BY <1>1, <1>2, ConcatProperties DEF SetTop
<1> QED
  BY <1>1, <1>3

\* A list of items that may be tried again is a list of items.
LEMMA TriableIsItem ==
  ASSUME NEW q \in Seq(Triable)
  PROVE  q \in Seq(Item)
<1>1. Triable \subseteq Item
  BY DEF Triable
<1> QED
  BY <1>1, SeqMonotonic

\* Whatever the state, the list is a list of items.
LEMMA ItemsType ==
  ASSUME Charged
  PROVE  items \in Seq(Item)
<1>1. CASE state = "ERROR_ITEM"
  <2>1. Tail(items) \in Seq(Item)
    BY <1>1, TriableIsItem DEF Charged
  <2> QED
    BY <1>1, <2>1, SMTT(30) DEF Charged
<1>2. CASE state # "ERROR_ITEM"
  BY <1>2, TriableIsItem DEF Charged
<1> QED
  BY <1>1, <1>2

-----------------------------------------------------------------------------
(* Where a call of queue_process finds the queue. *)

\* Only a lost session makes queue_process look at another state than the
\* queue's own, and then at QUEUE_ITEM_FAILED.
LEMMA InState ==
  ASSUME NEW st, In(st), st # "ITEM_FAILED"
  PROVE  alive /\ state = st
BY DEF In, Effective

\* An item that is being failed is there, and has failed at most once.
LEMMA InItemFailed ==
  ASSUME ListInv, In("ITEM_FAILED")
  PROVE  state # "ERROR_ITEM" /\ items # <<>> /\ items \in Seq(Triable)
<1>1. state # "ERROR_ITEM"
  BY DEF In, Effective, LossBlind
<1>2. items \in Seq(Triable)
  BY <1>1 DEF ListInv, Charged
<1>3. items # <<>>
  <2>1. CASE state = "ITEM_FAILED"
    BY <2>1 DEF ListInv, HeadPresent, Headed
  <2>2. CASE state # "ITEM_FAILED"
    <3>1. num > 0
      BY <2>2 DEF In, Effective
    <3> QED
      BY <3>1 DEF ListInv, CountsAgree
  <2> QED
    BY <2>1, <2>2
<1> QED
  BY <1>1, <1>2, <1>3

\* In a phase of a file or a directory there is an item and a source.
LEMMA InPhase ==
  ASSUME ListInv, NEW st \in FileState \cup DirectoryState, In(st)
  PROVE  /\ state = st /\ alive
         /\ items # <<>> /\ items \in Seq(Triable) /\ Top \in Triable
         /\ src \in Side /\ Dst \in Side
<1>1. st # "ITEM_FAILED" /\ st # "ERROR_ITEM"
  BY DEF FileState, DirectoryState
<1>2. alive /\ state = st
  BY <1>1, InState
<1>3. items # <<>> /\ src # "none"
  BY <1>2 DEF ListInv, HeadPresent, Headed
<1>4. items \in Seq(Triable)
  BY <1>1, <1>2 DEF ListInv, Charged
<1>5. Top \in Triable
  BY <1>3, <1>4, HeadAndTail DEF Top
<1>6. src \in Side /\ Dst \in Side
  BY <1>3 DEF ListInv, Dst, Other, Side
<1> QED
  BY <1>2, <1>3, <1>4, <1>5, <1>6

-----------------------------------------------------------------------------
(* The sessions keep their type. *)

\* The directory of an item is one that CWD may name.
LEMMA DirType ==
  ASSUME NEW item \in Triable
  PROVE  item.dir \in Path /\ item.rest \in BOOLEAN
BY DEF Triable, Item, Path

\* Whether or not engine_nodelay was set, the sessions that a call leaves are
\* sessions.
LEMMA SettleType ==
  ASSUME SessionInv, NEW ss \in [Side -> SessionRec],
         Again(ss) \/ Sleep(ss) \/ (\E nodelay : Settle(ss, nodelay))
  PROVE  SessionInv'
<1>1. Again(ss) \/ Sleep(ss)
  BY DEF Settle
<1>2. CASE Again(ss)
  BY <1>2 DEF Again, SessionInv
<1>3. CASE Sleep(ss)
  <2>1. NoSession \in SessionRec
    BY NewSessionType
  <2> QED
    BY <1>3, <2>1 DEF Sleep, SessionInv
<1> QED
  BY <1>1, <1>2, <1>3

\* CCSN and SSCN are switched off where they are known.
LEMMA ClientOffType ==
  ASSUME SessionInv, NEW p \in Side
  PROVE  ClientOff(p) \in SessionRec
<1>1. "PHASE_2_DISABLE" \in Event /\ FALSE \in BOOLEAN
  BY DEF Event
<1>2. sess[p] \in SessionRec
  BY DEF SessionInv
<1> DEFINE s1 == IF SiteOf[p].ccsn
                 THEN Ccsn(SiteOf[p], sess[p], FALSE, "PHASE_2_DISABLE") ELSE sess[p]
<1>3. s1 \in SessionRec
  BY <1>1, <1>2, FlagsType
<1> HIDE DEF s1
<1>4. Sscn(SiteOf[p], s1, FALSE, "PHASE_2_DISABLE") \in SessionRec
  BY <1>1, <1>3, FlagsType
<1> QED
  BY <1>3, <1>4 DEF ClientOff, s1

\* A queue in a phase of its item works with a source and a destination.
LEMMA TwoSessions ==
  ASSUME ListInv, SessionInv, NEW st \in FileState \cup DirectoryState, In(st)
  PROVE  /\ src \in Side /\ Dst \in Side /\ Dst # src
         /\ sess[src] \in SessionRec /\ sess[Dst] \in SessionRec
         /\ Top.dir \in Path /\ Top.rest \in BOOLEAN
         /\ SrcSite \in Site /\ DstSite \in Site
<1>1. src \in Side /\ Dst \in Side /\ Top \in Triable
  BY InPhase
<1>2. Dst # src
  BY <1>1 DEF Dst, Other, Side
<1>3. SrcSite \in Site /\ DstSite \in Site
  BY <1>1, QueueAssumption DEF SrcSite, DstSite
<1> QED
  BY <1>1, <1>2, <1>3, DirType DEF SessionInv

\* Giving a command to one session or to both keeps the two of them.
LEMMA BothGiven ==
  ASSUME SessionInv, NEW x \in Side, NEW y \in Side \ {x},
         NEW a \in SessionRec, NEW b \in SessionRec
  PROVE  /\ [sess EXCEPT ![x] = a] \in [Side -> SessionRec]
         /\ [sess EXCEPT ![x] = a, ![y] = b] \in [Side -> SessionRec]
BY DEF SessionInv

\* Phases 1 to 4 of a file.
LEMMA FirstPhasesSessions ==
  ASSUME ListInv, SessionInv, FileInv,
         Phase1Start \/ Phase2Local \/ Phase2Client \/ Phase2Disable
         \/ Phase3Start \/ Phase4Start
  PROVE  SessionInv'
<1> USE DEF FileState, DirectoryState
<1>e. {"PHASE_1_SRC_CWD", "PHASE_1_DST_CWD", "PHASE_2_SRC_SECURE", "PHASE_2_DST_SECURE",
       "PHASE_3_SRC_PROT", "PHASE_3_DST_PROT", "PHASE_4_TYPE"} \subseteq Event
  BY DEF Event
<1>f. {"PRIVACY", "BINARY"} \subseteq Flag
  BY DEF Flag
<1>1. CASE Phase1Start
  <2> DEFINE a == Cwd(sess[src], Top.dir, "PHASE_1_SRC_CWD")
             b == Cwd(sess[Dst], Top.dir, "PHASE_1_DST_CWD")
             ss == [sess EXCEPT ![src] = a, ![Dst] = b]
  <2>1. src \in Side /\ Dst \in Side \ {src} /\ a \in SessionRec /\ b \in SessionRec
    BY <1>1, <1>e, TwoSessions, CwdType DEF Phase1Start
  <2>2. Settle(ss, PostedIdle(ss))
    BY <1>1, <2>1 DEF Phase1Start
  <2> HIDE DEF a, b
  <2>3. ss \in [Side -> SessionRec]
    BY <2>1, BothGiven
  <2> QED
    BY <2>2, <2>3, SettleType
<1>2. CASE Phase2Local \/ Phase2Disable
  <2>1. [p \in Side |-> ClientOff(p)] \in [Side -> SessionRec]
    BY ClientOffType
  <2>2. Again([p \in Side |-> ClientOff(p)])
    BY <1>2 DEF Phase2Local, Phase2Disable
  <2> QED
    BY <2>1, <2>2, SettleType
<1>3. CASE Phase2Client
  <2>1. PICK p \in Side :
          LET site == SiteOf[p]
              flag == IF site.ccsn THEN "CCSN" ELSE "SSCN"
              ev   == IF p = src THEN "PHASE_2_SRC_SECURE" ELSE "PHASE_2_DST_SECURE"
              cached == site.dataTLS # "NO" /\ Cached(sess[p], flag, TRUE)
          IN  Settle([sess EXCEPT ![p] = IF site.ccsn
                                         THEN Ccsn(site, @, TRUE, ev)
                                         ELSE Sscn(site, @, TRUE, ev)],
                     cached /\ IdleEvent(sess[p]))
    BY <1>3 DEF Phase2Client
  <2> DEFINE ev == IF p = src THEN "PHASE_2_SRC_SECURE" ELSE "PHASE_2_DST_SECURE"
             a == IF SiteOf[p].ccsn THEN Ccsn(SiteOf[p], sess[p], TRUE, ev)
                  ELSE Sscn(SiteOf[p], sess[p], TRUE, ev)
             ss == [sess EXCEPT ![p] = a]
  <2>2. sess[p] \in SessionRec /\ ev \in Event
    BY <1>e DEF SessionInv
  <2>3. a \in SessionRec
    BY <2>2, FlagsType
  <2>4. \E nodelay : Settle(ss, nodelay)
    BY <2>1
  <2> HIDE DEF a, ev
  <2>5. ss \in [Side -> SessionRec]
    BY <2>3 DEF SessionInv
  <2> QED
    BY <2>4, <2>5, SettleType
<1>4. CASE Phase3Start
  <2> DEFINE a == SetFlag(sess[src], "PRIVACY", secure, "PHASE_3_SRC_PROT")
             b == SetFlag(sess[Dst], "PRIVACY", secure, "PHASE_3_DST_PROT")
             ss == [sess EXCEPT ![src] = a, ![Dst] = b]
  <2>1. src \in Side /\ Dst \in Side \ {src} /\ a \in SessionRec /\ b \in SessionRec
    BY <1>4, <1>e, <1>f, TwoSessions, SetFlagType DEF Phase3Start, FileInv
  <2>2. Settle(ss, PostedIdle(ss))
    BY <1>4, <2>1 DEF Phase3Start
  <2> HIDE DEF a, b
  <2>3. ss \in [Side -> SessionRec]
    BY <2>1, BothGiven
  <2> QED
    BY <2>2, <2>3, SettleType
<1>5. CASE Phase4Start
  <2> DEFINE ss == [p \in Side |-> SetFlag(sess[p], "BINARY", TRUE, "PHASE_4_TYPE")]
  <2>1. ss \in [Side -> SessionRec]
    BY <1>e, <1>f, SetFlagType DEF SessionInv
  <2>2. Settle(ss, PostedIdle(ss))
    BY <1>5 DEF Phase4Start
  <2> HIDE DEF ss
  <2> QED
    BY <2>1, <2>2, SettleType
<1> QED
  BY <1>1, <1>2, <1>3, <1>4, <1>5

\* Phases 5 to 9 of a file.
LEMMA MiddlePhasesSessions ==
  ASSUME ListInv, SessionInv,
         Phase5Start \/ Phase6Start \/ Phase7Start \/ Phase8Start
         \/ Phase9Start \/ Phase9Rest
  PROVE  SessionInv'
<1> USE DEF FileState, DirectoryState
<1>0. sess \in [Side -> SessionRec]
  BY DEF SessionInv
<1>e. {"PHASE_5_SRC_SIZE", "PHASE_5_DST_SIZE", "PHASE_6_PRET", "PHASE_7_PASV",
       "PHASE_8_PORT", "PHASE_9_SRC_REST", "PHASE_9_DST_REST", "PHASE_9_REST2"}
        \subseteq Event
  BY DEF Event
<1>o. {"SIZE", "PASV", "PORT"} \subseteq Op \ {"ON", "OFF", "CWD", "MKD"}
  BY DEF Op
<1>1. CASE Phase5Start
  <2> DEFINE a == CmdqNew(sess[src], Cmd("SIZE", "PHASE_5_SRC_SIZE"))
             b == CmdqNew(sess[Dst], Cmd("SIZE", "PHASE_5_DST_SIZE"))
             s1 == [sess EXCEPT ![src] = a]
             s2 == [sess EXCEPT ![src] = a, ![Dst] = b]
  <2>1. src \in Side /\ Dst \in Side \ {src} /\ a \in SessionRec /\ b \in SessionRec
    BY <1>1, <1>e, <1>o, TwoSessions, CmdType, CmdqNewType DEF Phase5Start
  <2>2. Sleep(s1) \/ Sleep(s2)
    <3>1. [s1 EXCEPT ![Dst] = CmdqNew(@, Cmd("SIZE", "PHASE_5_DST_SIZE"))] = s2
      BY <1>0, <2>1
    <3> QED
      BY <1>1, <3>1 DEF Phase5Start
  <2> HIDE DEF a, b
  <2>3. s1 \in [Side -> SessionRec] /\ s2 \in [Side -> SessionRec]
    BY <2>1, BothGiven
  <2> HIDE DEF s1, s2
  <2> QED
    BY <2>2, <2>3, SettleType
<1>2. CASE Phase6Start
  <2> DEFINE ss == [p \in Side |-> Pret(SiteOf[p], sess[p], "PHASE_6_PRET")]
  <2>1. ss \in [Side -> SessionRec]
    BY <1>0, <1>e, PretType
  <2>2. Again(ss)
    BY <1>2 DEF Phase6Start
  <2> HIDE DEF ss
  <2> QED
    BY <2>1, <2>2, SettleType
<1>3. CASE Phase7Start
  <2>1. src \in Side /\ Dst \in Side
    BY <1>3, TwoSessions DEF Phase7Start
  <2>2. CASE Sleep(sess)
    BY <1>0, <2>2, SettleType
  <2>3. CASE \E x \in {src, Dst} :
               Sleep([sess EXCEPT ![x] = CmdqNew(@, Cmd("PASV", "PHASE_7_PASV"))])
    <3>1. PICK x \in {src, Dst} :
            Sleep([sess EXCEPT ![x] = CmdqNew(@, Cmd("PASV", "PHASE_7_PASV"))])
      BY <2>3
    <3>2. CmdqNew(sess[x], Cmd("PASV", "PHASE_7_PASV")) \in SessionRec
      BY <1>0, <1>e, <1>o, <2>1, CmdType, CmdqNewType
    <3>3. [sess EXCEPT ![x] = CmdqNew(@, Cmd("PASV", "PHASE_7_PASV"))]
            \in [Side -> SessionRec]
      BY <1>0, <3>2
    <3> QED
      BY <3>1, <3>3, SettleType
  <2> QED
    BY <1>3, <2>2, <2>3 DEF Phase7Start
<1>4. CASE Phase8Start
  <2>1. src \in Side /\ Dst \in Side
    BY <1>4, TwoSessions DEF Phase8Start
  <2> DEFINE x == IF srcpasv THEN Dst ELSE src
             ss == [sess EXCEPT ![x] = CmdqNew(@, Cmd("PORT", "PHASE_8_PORT"))]
  <2>2. CmdqNew(sess[x], Cmd("PORT", "PHASE_8_PORT")) \in SessionRec
    BY <1>0, <1>e, <1>o, <2>1, CmdType, CmdqNewType
  <2>3. Sleep(ss)
    BY <1>4 DEF Phase8Start
  <2> HIDE DEF x
  <2>4. ss \in [Side -> SessionRec]
    BY <1>0, <2>2
  <2> QED
    BY <2>3, <2>4, SettleType
<1>5. CASE Phase9Start
  <2> DEFINE a == Rest(sess[src], Top.rest, "PHASE_9_SRC_REST")
             b == Rest(sess[Dst], Top.rest, "PHASE_9_DST_REST")
             ss == [sess EXCEPT ![src] = a, ![Dst] = b]
  <2>1. src \in Side /\ Dst \in Side \ {src} /\ a \in SessionRec /\ b \in SessionRec
    BY <1>5, <1>e, TwoSessions, FlagsType DEF Phase9Start
  <2>2. Settle(ss, PostedIdle(ss))
    BY <1>5, <2>1 DEF Phase9Start
  <2> HIDE DEF a, b
  <2>3. ss \in [Side -> SessionRec]
    BY <2>1, BothGiven
  <2> QED
    BY <2>2, <2>3, SettleType
<1>6. CASE Phase9Rest
  <2> DEFINE ss == [p \in Side |-> Rest(sess[p], FALSE, "PHASE_9_REST2")]
  <2>1. ss \in [Side -> SessionRec]
    BY <1>0, <1>e, FlagsType
  <2>2. Settle(ss, PostedIdle(ss)) \/ Again(sess)
    BY <1>6 DEF Phase9Rest
  <2> HIDE DEF ss
  <2> QED
    BY <1>0, <2>1, <2>2, SettleType
<1> QED
  BY <1>1, <1>2, <1>3, <1>4, <1>5, <1>6

\* Phases 10 to 12 of a file.
LEMMA LastPhasesSessions ==
  ASSUME ListInv, SessionInv,
         Phase10Start \/ Phase11Start \/ Phase11Wait \/ Phase12Start
  PROVE  SessionInv'
<1> USE DEF FileState, DirectoryState
<1>0. sess \in [Side -> SessionRec]
  BY DEF SessionInv
<1>e. {"PHASE_11_ABOR", "PHASE_12_NOOP"} \subseteq Event
  BY DEF Event
<1>o. {"ABOR", "NOOP"} \subseteq Op \ {"ON", "OFF", "CWD", "MKD"}
  BY DEF Op
<1>1. CASE Phase10Start
  <2>1. Dst \in Side /\ Stor(sess[Dst]) \in SessionRec
    BY <1>1, TwoSessions, TransferType DEF Phase10Start
  <2>2. [sess EXCEPT ![Dst] = Stor(@)] \in [Side -> SessionRec]
    BY <1>0, <2>1
  <2>3. Sleep(sess) \/ Sleep([sess EXCEPT ![Dst] = Stor(@)])
    BY <1>1 DEF Phase10Start
  <2> QED
    BY <1>0, <2>2, <2>3, SettleType
<1>2. CASE Phase11Start
  <2>1. src \in Side /\ Retr(sess[src]) \in SessionRec
    BY <1>2, TwoSessions, TransferType DEF Phase11Start
  <2>2. [sess EXCEPT ![src] = Retr(@)] \in [Side -> SessionRec]
    BY <1>0, <2>1
  <2>3. Sleep([sess EXCEPT ![src] = Retr(@)])
    BY <1>2 DEF Phase11Start
  <2> QED
    BY <2>2, <2>3, SettleType
<1>3. CASE Phase11Wait
  <2> DEFINE a == CmdqNew(sess[Dst], Cmd("ABOR", "PHASE_11_ABOR"))
  <2>1. Dst \in Side /\ a \in SessionRec
    BY <1>3, <1>e, <1>o, TwoSessions, CmdType, CmdqNewType DEF Phase11Wait
  <2>2. Sleep([sess EXCEPT ![Dst] = a]) \/ Again(sess)
    BY <1>3 DEF Phase11Wait
  <2> HIDE DEF a
  <2>3. [sess EXCEPT ![Dst] = a] \in [Side -> SessionRec]
    BY <1>0, <2>1
  <2> QED
    BY <1>0, <2>2, <2>3, SettleType
<1>4. CASE Phase12Start
  <2> DEFINE ss == [p \in Side |-> CmdqNew(sess[p], Cmd("NOOP", "PHASE_12_NOOP"))]
  <2>1. ss \in [Side -> SessionRec]
    BY <1>0, <1>e, <1>o, CmdType, CmdqNewType
  <2>2. Again(sess) \/ Again(ss)
    BY <1>4 DEF Phase12Start
  <2> HIDE DEF ss
  <2> QED
    BY <1>0, <2>1, <2>2, SettleType
<1> QED
  BY <1>1, <1>2, <1>3, <1>4

\* The phases of a directory.
LEMMA DirectorySessions ==
  ASSUME ListInv, SessionInv, DirectoryPass
  PROVE  SessionInv'
<1> USE DEF FileState, DirectoryState
<1>0. sess \in [Side -> SessionRec]
  BY DEF SessionInv
<1>e. {"DIRECTORY_PHASE_1_SRC_CWD", "DIRECTORY_PHASE_1_DST_CWD",
       "DIRECTORY_PHASE_2_DST_MKD"} \subseteq Event
  BY DEF Event
<1>r. {"DIRECTORY_PHASE_2_SRC_DIRLIST", "DIRECTORY_PHASE_2_DST_DIRLIST"} \subseteq ReplyId
  BY DEF ReplyId
<1>1. CASE DirectoryStart
  <2> DEFINE a == Cwd(sess[src], Top.dir, "DIRECTORY_PHASE_1_SRC_CWD")
             b == Cwd(sess[Dst], Top.dir, "DIRECTORY_PHASE_1_DST_CWD")
             ss == [sess EXCEPT ![src] = a, ![Dst] = b]
  <2>1. src \in Side /\ Dst \in Side \ {src} /\ a \in SessionRec /\ b \in SessionRec
    BY <1>1, <1>e, TwoSessions, CwdType DEF DirectoryStart
  <2>2. Settle(ss, PostedIdle(ss))
    BY <1>1, <2>1 DEF DirectoryStart
  <2> HIDE DEF a, b
  <2>3. ss \in [Side -> SessionRec]
    BY <2>1, BothGiven
  <2> QED
    BY <2>2, <2>3, SettleType
<1>2. CASE DirectoryPhase2Start
  <2> DEFINE a == Dirlist(SrcSite, sess[src], "DIRECTORY_PHASE_2_SRC_DIRLIST")
             b == Dirlist(DstSite, sess[Dst], "DIRECTORY_PHASE_2_DST_DIRLIST")
             s1 == [sess EXCEPT ![src] = a]
             s2 == [sess EXCEPT ![src] = a, ![Dst] = b]
  <2>1. src \in Side /\ Dst \in Side \ {src} /\ a \in SessionRec /\ b \in SessionRec
    BY <1>2, <1>r, TwoSessions, DirlistType DEF DirectoryPhase2Start
  <2>2. Sleep(s1) \/ Sleep(s2)
    <3>1. [s1 EXCEPT ![Dst] = Dirlist(DstSite, @, "DIRECTORY_PHASE_2_DST_DIRLIST")] = s2
      BY <1>0, <2>1
    <3> QED
      BY <1>2, <3>1 DEF DirectoryPhase2Start
  <2> HIDE DEF a, b
  <2>3. s1 \in [Side -> SessionRec] /\ s2 \in [Side -> SessionRec]
    BY <2>1, BothGiven
  <2> HIDE DEF s1, s2
  <2> QED
    BY <2>2, <2>3, SettleType
<1>3. CASE DirectoryPhase2Mkd
  <2> DEFINE cmd == [op |-> "MKD", arg |-> Top.dir, ev |-> "DIRECTORY_PHASE_2_DST_MKD"]
             ss == [sess EXCEPT ![Dst] = CmdqNew(@, cmd)]
  <2>1. Dst \in Side /\ sess[Dst] \in SessionRec /\ Top.dir \in Path
    BY <1>3, TwoSessions DEF DirectoryPhase2Mkd
  <2>2. cmd \in Command
    BY <1>e, <2>1 DEF Command
  <2>3. Sleep(ss) \/ Sleep(sess)
    BY <1>3 DEF DirectoryPhase2Mkd
  <2> HIDE DEF cmd
  <2>4. ss \in [Side -> SessionRec]
    BY <1>0, <2>1, <2>2, CmdqNewType
  <2> HIDE DEF ss
  <2> QED
    BY <1>0, <2>3, <2>4, SettleType
<1>4. CASE DirectoryPhase1Idle \/ DirectoryPhase2Compare
  <2>1. Again(sess)
    BY <1>4 DEF DirectoryPhase1Idle, DirectoryPhase2Compare
  <2> QED
    BY <1>0, <2>1, SettleType
<1> QED
  BY <1>1, <1>2, <1>3, <1>4 DEF DirectoryPass

\* One call of queue_process keeps the sessions.
LEMMA PassSessions ==
  ASSUME ListInv, SessionInv, FileInv, Pass
  PROVE  SessionInv'
<1>0. sess \in [Side -> SessionRec]
  BY DEF SessionInv
<1>1. CASE FilePass
  <2>1. CASE FileStart \/ Phase1Idle \/ Phase2Plain \/ Phase2Wait \/ Phase3Wait
             \/ Phase5RestWait \/ Phase7Wait \/ Phase8Wait \/ Phase10Wait
    <3>1. Again(sess)
      BY <2>1 DEF FileStart, Phase1Idle, Phase2Plain, Phase2Wait, Phase3Wait,
           Phase5RestWait, Phase7Wait, Phase8Wait, Phase10Wait
    <3> QED
      BY <1>0, <3>1, SettleType
  <2> QED
    BY <1>1, <2>1, FirstPhasesSessions, MiddlePhasesSessions, LastPhasesSessions
       DEF FilePass
<1>2. CASE DirectoryPass
  BY <1>2, DirectorySessions
<1>3. CASE Start \/ StartNextItem \/ Active \/ ItemFailed
  <2>1. Again(sess)
    BY <1>3 DEF Start, StartNextItem, Active, ItemFailed
  <2> QED
    BY <1>0, <2>1, SettleType
<1>4. CASE ActiveEnd \/ Idle \/ Waiting
  <2>1. Sleep(sess)
    BY <1>4 DEF ActiveEnd, Idle, Waiting
  <2> QED
    BY <1>0, <2>1, SettleType
<1>5. CASE RequeueItem \/ ErrorItem \/ RemoveItem
  <2>1. Again(sess) \/ Sleep(sess)
    BY <1>5 DEF RequeueItem, ErrorItem, RemoveItem, NextItem
  <2> QED
    BY <1>0, <2>1, SettleType
<1>6. CASE IsConnected
  <2> DEFINE ss == [p \in Side |-> IF sess[p].here THEN sess[p] ELSE NewSession]
  <2>1. ss \in [Side -> SessionRec]
    BY <1>0, NewSessionType
  <2>2. Settle(ss, PostedIdle(ss))
    BY <1>6 DEF IsConnected
  <2> HIDE DEF ss
  <2> QED
    BY <2>1, <2>2, SettleType
<1>7. CASE Empty
  <2> DEFINE ss == [p \in Side |-> CmdqNew(sess[p], Cmd("QUIT", "PHASE_12_NOOP"))]
  <2>1. Cmd("QUIT", "PHASE_12_NOOP") \in Command
    BY CmdType DEF Op, Event
  <2>2. ss \in [Side -> SessionRec]
    BY <1>0, <2>1, CmdqNewType
  <2>3. Sleep(ss)
    BY <1>7 DEF Empty
  <2> HIDE DEF ss
  <2> QED
    BY <2>2, <2>3, SettleType
<1> QED
  BY <1>1, <1>2, <1>3, <1>4, <1>5, <1>6, <1>7 DEF Pass

\* In the poll no item has used up its tries.
LEMMA PollingItems ==
  ASSUME ListInv, loop = "poll"
  PROVE  state # "ERROR_ITEM" /\ items \in Seq(Triable)
         /\ (items # <<>> => Top \in Triable)
<1>1. state # "ERROR_ITEM" /\ items \in Seq(Triable)
  BY DEF ListInv, Charged
<1> QED
  BY <1>1, HeadAndTail DEF Top

\* What the handler queues on a reply: a MKD or a CWD of a known directory.
LEMMA MoreType ==
  ASSUME NEW s, NEW ev, NEW code,
         items = <<>> => ~FollowsTop(s, ev, code),
         items # <<>> => Top \in Triable
  PROVE  More(s, ev, code) \in Seq(Command)
<1>1. Parent \in Path /\ (items # <<>> => Top.dir \in Path)
  BY DirType DEF Path
<1>e. "PHASE_1_DST_MKD" \in Event /\ "PHASE_1_DST_CWD2" \in Event
  BY DEF Event
<1>2. CASE Makes(s, ev, code)
  <2>1. items # <<>>
    BY <1>2 DEF FollowsTop
  <2>2. [op |-> "MKD", arg |-> NextMkd, ev |-> "PHASE_1_DST_MKD"] \in Command
    BY <1>1, <1>e, <2>1 DEF NextMkd, Command
  <2>3. ~Enters(s, ev, code)
    BY <1>2 DEF Makes, Enters
  <2>4. More(s, ev, code) = <<[op |-> "MKD", arg |-> NextMkd, ev |-> "PHASE_1_DST_MKD"]>>
    BY <1>2, <2>3 DEF More
  <2> QED
    BY <2>2, <2>4
<1>3. CASE ~Makes(s, ev, code) /\ Enters(s, ev, code)
  <2>1. items # <<>>
    BY <1>3 DEF FollowsTop, Enters, ClearsDst
  <2>2. [op |-> "CWD", arg |-> LastMkd, ev |-> "PHASE_1_DST_CWD2"] \in Command
    BY <1>1, <1>e, <2>1 DEF LastMkd, Command
  <2>3. More(s, ev, code) = <<[op |-> "CWD", arg |-> LastMkd, ev |-> "PHASE_1_DST_CWD2"]>>
    BY <1>3 DEF More
  <2> QED
    BY <2>2, <2>3
<1>4. CASE ~Makes(s, ev, code) /\ ~Enters(s, ev, code)
  <2>1. More(s, ev, code) = <<>>
    BY <1>4 DEF More
  <2> QED
    BY <2>1
<1> QED
  BY <1>2, <1>3, <1>4

\* A connection that is lost leaves its manager without a session.
LEMMA LoseSessionType ==
  ASSUME SessionInv, UNCHANGED loop, NEW p \in Side, LoseSession(p)
  PROVE  SessionInv'
BY NewSessionType DEF LoseSession, SessionInv

\* The events of a session keep the sessions.
LEMMA EventSessions ==
  ASSUME ListInv, SessionInv, NEW p \in Side, SessionEvent(p)
  PROVE  SessionInv'
<1>0. sess \in [Side -> SessionRec] /\ sess[p] \in SessionRec
  BY DEF SessionInv
<1>k. ASSUME NEW a \in SessionRec, sess' = [sess EXCEPT ![p] = a], UNCHANGED <<loop, old>>
      PROVE  SessionInv'
  BY <1>k DEF SessionInv
<1>s. ASSUME UNCHANGED <<loop, sess, old>> PROVE SessionInv'
  BY <1>s DEF SessionInv
<1>1. CASE Login(p)
  <2>1. sess' = [sess EXCEPT ![p] = LoggedIn(sess[p])] /\ UNCHANGED <<loop, old>>
    BY <1>1 DEF Login
  <2> QED
    BY <1>0, <1>k, <2>1, EndsType
<1>2. CASE Reply(p)
  <2> DEFINE cmd == Head(sess[p].cmdq)
  <2>1. sess[p].cmdq # <<>> /\ loop = "poll"
    BY <1>2 DEF Reply, Polling
  <2>2. PICK code :
          \/ LoseSession(p) /\ UNCHANGED loop
          \/ LET s == Digest(sess[p], cmd, code)
             IN  IF items = <<>> /\ FollowsTop(s, cmd.ev, Heard(code))
                 THEN Die
                 ELSE /\ sess' = [sess EXCEPT
                                    ![p] = Answered(@, code, More(s, cmd.ev, Heard(code)))]
                      /\ UNCHANGED <<loop, old>>
    BY <1>2 DEF Reply, queueVars, listVars, fileVars
  <2> DEFINE s == Digest(sess[p], cmd, code)
  <2>3. CASE LoseSession(p) /\ UNCHANGED loop
    BY <2>3, LoseSessionType
  <2>4. CASE Die
    BY <1>s, <2>4 DEF Die
  <2>5. CASE /\ ~(items = <<>> /\ FollowsTop(s, cmd.ev, Heard(code)))
             /\ sess' = [sess EXCEPT ![p] = Answered(@, code, More(s, cmd.ev, Heard(code)))]
             /\ UNCHANGED <<loop, old>>
    <3>1. More(s, cmd.ev, Heard(code)) \in Seq(Command)
      BY <2>1, <2>5, PollingItems, MoreType
    <3>2. Answered(sess[p], code, More(s, cmd.ev, Heard(code))) \in SessionRec
      BY <1>0, <2>1, <3>1, AnsweredType
    <3> QED
      BY <1>k, <2>5, <3>2
  <2> QED
    BY <2>2, <2>3, <2>4, <2>5
<1>3. CASE TransferEnd(p)
  <2>1. Die \/ (sess' = [sess EXCEPT ![p] = TransferEnded(sess[p])] /\ UNCHANGED <<loop, old>>)
    BY <1>3 DEF TransferEnd
  <2>2. CASE Die
    BY <1>s, <2>2 DEF Die
  <2> QED
    BY <1>0, <1>k, <2>1, <2>2, EndsType
<1>4. CASE ListingEnd(p)
  <2>1. \/ sess' = [sess EXCEPT ![p] = ListEnded(sess[p])] /\ UNCHANGED <<loop, old>>
        \/ LoseSession(p) /\ UNCHANGED loop
    BY <1>4 DEF ListingEnd
  <2> QED
    BY <1>0, <1>k, <2>1, EndsType, LoseSessionType
<1>5. CASE DataLine(p)
  <2>1. [sess[p] EXCEPT !.files = TRUE] \in SessionRec
    BY <1>0 DEF SessionRec
  <2>2. /\ sess' = [sess EXCEPT ![p] = [sess[p] EXCEPT !.files = TRUE]]
        /\ UNCHANGED <<loop, old>>
    BY <1>0, <1>5 DEF DataLine
  <2> QED
    BY <1>k, <2>1, <2>2
<1>6. CASE DataClosed(p)
  <2>1. [sess[p] EXCEPT !.data = FALSE] \in SessionRec
    BY <1>0 DEF SessionRec
  <2>2. \/ Die
        \/ /\ sess' = [sess EXCEPT ![p] = [sess[p] EXCEPT !.data = FALSE]]
           /\ UNCHANGED <<loop, old>>
    BY <1>0, <1>6 DEF DataClosed
  <2>3. CASE Die
    BY <1>s, <2>3 DEF Die
  <2> QED
    BY <1>k, <2>1, <2>2, <2>3
<1>7. CASE Lost(p)
  BY <1>7, LoseSessionType DEF Lost
<1> QED
  BY <1>1, <1>2, <1>3, <1>4, <1>5, <1>6, <1>7 DEF SessionEvent

\* The users' commands keep the sessions; only STOP|DROP takes them away.
LEMMA CommandSessions ==
  ASSUME SessionInv, Command2
  PROVE  SessionInv'
<1>1. CASE StopDrop
  <2>1. \/ UNCHANGED <<loop, sess, old>>
        \/ /\ sess' = [p \in Side |-> NoSession] /\ old' = [p \in Side |-> TRUE]
           /\ UNCHANGED loop
    BY <1>1 DEF StopDrop
  <2> QED
    BY <2>1, NewSessionType DEF SessionInv
<1>2. CASE ~StopDrop
  <2>1. UNCHANGED <<loop, sess, old>>
    BY <1>2 DEF Command2, Go, Stop, QAdd, QDel, QMove
  <2> QED
    BY <2>1 DEF SessionInv
<1> QED
  BY <1>1, <1>2

-----------------------------------------------------------------------------
(* The list and the state. *)

\* A step to any state but ERROR_ITEM keeps the invariant of the list when it
\* leaves items that may be tried again, counted, and one of them first where
\* the code looks for one.
LEMMA ListKept ==
  ASSUME ListInv, state' \in State \ {"ERROR_ITEM"}, stop' \in BOOLEAN,
         src' \in Side \cup {"none"}, items' \in Seq(Triable), num' = Len(items'),
         HeadPresent'
  PROVE  ListInv'
<1>1. num' \in Int
  OBVIOUS
<1> QED
  BY <1>1 DEF ListInv, Charged, CountsAgree

\* A step of a phase that at most writes to its item.
LEMMA PhaseKeepsList ==
  ASSUME ListInv, NEW st \in FileState \cup DirectoryState, In(st),
         state' \in FileState \cup DirectoryState
                     \cup {"ITEM_FAILED", "REQUEUE_ITEM", "REMOVE_ITEM", "IDLE"},
         UNCHANGED <<stop, src, num>>,
         UNCHANGED items \/ (\E x \in Triable : items' = SetTop(x))
  PROVE  ListInv'
<1>1. items # <<>> /\ items \in Seq(Triable) /\ src \in Side
  BY InPhase
<1>2. items' \in Seq(Triable) /\ Len(items') = Len(items) /\ items' # <<>>
  BY <1>1, SetTopKeeps
<1>3. num' = Len(items') /\ src' \in Side /\ stop' \in BOOLEAN
  BY <1>1, <1>2 DEF ListInv, CountsAgree
<1>4. state' \in State \ {"ERROR_ITEM"}
  BY DEF State, FileState, DirectoryState, LossBlind
<1>5. HeadPresent'
  BY <1>2, <1>3 DEF HeadPresent, Side
<1> QED
  BY <1>2, <1>3, <1>4, <1>5, ListKept

\* Writing one field of an item that may be tried again.
LEMMA FieldType ==
  ASSUME NEW x \in Triable, NEW a \in BOOLEAN, NEW n \in 0 .. 3, NEW z \in Size
  PROVE  /\ [x EXCEPT !.sfail = a] \in Triable
         /\ [x EXCEPT !.dfail = a] \in Triable
         /\ [x EXCEPT !.ssize = a] \in Triable
         /\ [x EXCEPT !.dsize = z] \in Triable
         /\ [x EXCEPT !.sxfer = n] \in Triable
         /\ [x EXCEPT !.dxfer = n] \in Triable
<1>1. x \in Item /\ x.soft \in {0, 1}
  BY DEF Triable
<1>3. a = TRUE \/ a = FALSE
  OBVIOUS
<1>4. [x EXCEPT !.sfail = a] \in Triable
  <2>1. [x EXCEPT !.sfail = TRUE] \in Triable /\ [x EXCEPT !.sfail = FALSE] \in Triable
    BY <1>1 DEF Triable, Item
  <2> QED
    BY <1>3, <2>1
<1>5. [x EXCEPT !.dfail = a] \in Triable
  <2>1. [x EXCEPT !.dfail = TRUE] \in Triable /\ [x EXCEPT !.dfail = FALSE] \in Triable
    BY <1>1 DEF Triable, Item
  <2> QED
    BY <1>3, <2>1
<1>6. [x EXCEPT !.ssize = a] \in Triable
  <2>1. [x EXCEPT !.ssize = TRUE] \in Triable /\ [x EXCEPT !.ssize = FALSE] \in Triable
    BY <1>1 DEF Triable, Item
  <2> QED
    BY <1>3, <2>1
<1>7. [x EXCEPT !.dsize = z] \in Triable
  BY <1>1 DEF Triable, Item
<1>8. [x EXCEPT !.sxfer = n] \in Triable
  BY <1>1 DEF Triable, Item
<1>9. [x EXCEPT !.dxfer = n] \in Triable
  BY <1>1 DEF Triable, Item
<1> QED
  BY <1>4, <1>5, <1>6, <1>7, <1>8, <1>9

\* An item that is marked, to be left for last or to be resumed.
LEMMA MarkType ==
  ASSUME NEW x \in Triable
  PROVE  [x EXCEPT !.requeued = TRUE] \in Triable /\ [x EXCEPT !.rest = TRUE] \in Triable
<1>1. x \in Item /\ x.soft \in {0, 1}
  BY DEF Triable
<1> QED
  BY <1>1 DEF Triable, Item

\* What the phases write to their item: both failures, or
LEMMA FailuresType ==
  ASSUME NEW x \in Triable, NEW a \in BOOLEAN, NEW b \in BOOLEAN
  PROVE  [x EXCEPT !.sfail = a, !.dfail = b] \in Triable
<1>0. "none" \in Size /\ 0 \in 0 .. 3
  BY DEF Size
<1> DEFINE y == [x EXCEPT !.sfail = a]
<1>1. y \in Triable
  BY <1>0, FieldType
<1>2. [y EXCEPT !.dfail = b] \in Triable
  <2> HIDE DEF y
  <2> QED
    BY <1>0, <1>1, FieldType
<1> QED
  BY <1>2

\* the two counters of a transfer or of the listings, and a failure.
LEMMA CountersType ==
  ASSUME NEW x \in Triable
  PROVE  /\ [x EXCEPT !.sxfer = 0, !.dxfer = 0] \in Triable
         /\ [x EXCEPT !.sxfer = 0, !.dxfer = 2, !.dfail = FALSE] \in Triable
<1>0. "none" \in Size /\ FALSE \in BOOLEAN /\ 0 \in 0 .. 3 /\ 2 \in 0 .. 3
  BY DEF Size
<1> DEFINE y == [x EXCEPT !.sxfer = 0]
           w == [y EXCEPT !.dxfer = 0]
           z == [y EXCEPT !.dxfer = 2]
<1>1. y \in Triable
  BY <1>0, FieldType
<1>2. w \in Triable /\ z \in Triable
  <2> HIDE DEF y
  <2> QED
    BY <1>0, <1>1, FieldType
<1>3. [z EXCEPT !.dfail = FALSE] \in Triable
  <2> HIDE DEF z
  <2> QED
    BY <1>0, <1>2, FieldType
<1> QED
  BY <1>2, <1>3

\* The phases of a file.
LEMMA FilePassList ==
  ASSUME ListInv, FilePass
  PROVE  ListInv'
<1> USE DEF FileState, DirectoryState
<1>1. CASE FileStart \/ Phase1Start \/ Phase1Idle \/ Phase2Plain \/ Phase2Local
           \/ Phase2Client \/ Phase2Wait \/ Phase3Start \/ Phase3Wait \/ Phase4Start
  <2> USE DEF FileStart, Phase1Start, Phase1Idle, Phase2Plain, Phase2Local,
        Phase2Client, Phase2Wait, Phase3Start, Phase3Wait, Phase4Start
  <2>1. PICK st \in FileState : In(st)
    BY <1>1
  <2>2. UNCHANGED <<stop, src, num, items>>
    BY <1>1 DEF listVars
  <2>3. state' \in FileState \cup {"ITEM_FAILED"}
    BY <1>1
  <2> QED
    BY <2>1, <2>2, <2>3, PhaseKeepsList
<1>2. CASE Phase5Start \/ Phase6Start \/ Phase7Start \/ Phase7Wait \/ Phase8Start
           \/ Phase8Wait \/ Phase9Start \/ Phase9Rest \/ Phase10Wait \/ Phase11Start
           \/ Phase11Wait \/ Phase12Start
  <2> USE DEF Phase5Start, Phase6Start, Phase7Start, Phase7Wait, Phase8Start,
        Phase8Wait, Phase9Start, Phase9Rest, Phase10Wait, Phase11Start, Phase11Wait,
        Phase12Start
  <2>1. PICK st \in FileState : In(st)
    BY <1>2
  <2>2. UNCHANGED <<stop, src, num, items>>
    BY <1>2 DEF listVars
  <2>3. state' \in FileState \cup {"ITEM_FAILED", "REMOVE_ITEM", "IDLE"}
    BY <1>2
  <2> QED
    BY <2>1, <2>2, <2>3, PhaseKeepsList
<1>3. CASE Phase2Disable
  <2>1. Top \in Triable /\ In("FILE_PHASE_2_DISABLE")
    BY <1>3, InPhase DEF Phase2Disable
  <2>2. Top.sfail \in BOOLEAN /\ Top.dfail \in BOOLEAN
    BY <2>1 DEF Triable, Item
  <2>3. (Top.sfail \/ Demands(SrcSite)) \in BOOLEAN /\ (Top.dfail \/ Demands(DstSite)) \in BOOLEAN
    OBVIOUS
  <2>4. [Top EXCEPT !.sfail = @ \/ Demands(SrcSite), !.dfail = @ \/ Demands(DstSite)]
          \in Triable
    BY <2>1, <2>3, FailuresType
  <2>5. \E x \in Triable : items' = SetTop(x)
    BY <1>3, <2>4 DEF Phase2Disable
  <2>6. UNCHANGED <<stop, src, num>> /\ state' \in FileState \cup {"ITEM_FAILED"}
    BY <1>3 DEF Phase2Disable
  <2> QED
    BY <2>1, <2>5, <2>6, PhaseKeepsList
<1>4. CASE Phase5RestWait
  <2>1. Top \in Triable /\ In("FILE_PHASE_5_REST_WAIT")
    BY <1>4, InPhase DEF Phase5RestWait
  <2>2. UNCHANGED items \/ (\E x \in Triable : items' = SetTop(x))
    <3>1. [Top EXCEPT !.requeued = TRUE] \in Triable /\ [Top EXCEPT !.rest = TRUE] \in Triable
      BY <2>1, MarkType
    <3> QED
      BY <1>4, <3>1 DEF Phase5RestWait
  <2>3. /\ UNCHANGED <<stop, src, num>>
        /\ state' \in FileState \cup {"REQUEUE_ITEM", "REMOVE_ITEM"}
    BY <1>4 DEF Phase5RestWait
  <2> QED
    BY <2>1, <2>2, <2>3, PhaseKeepsList
<1>5. CASE Phase10Start
  <2>1. Top \in Triable /\ In("FILE_PHASE_10_START")
    BY <1>5, InPhase DEF Phase10Start
  <2>2. UNCHANGED items \/ (\E x \in Triable : items' = SetTop(x))
    <3>1. [Top EXCEPT !.sxfer = 0, !.dxfer = 0] \in Triable
      BY <2>1, CountersType
    <3> QED
      BY <1>5, <3>1 DEF Phase10Start
  <2>3. UNCHANGED <<stop, src, num>> /\ state' \in FileState \cup {"IDLE"}
    BY <1>5 DEF Phase10Start
  <2> QED
    BY <2>1, <2>2, <2>3, PhaseKeepsList
<1> QED
  BY <1>1, <1>2, <1>3, <1>4, <1>5 DEF FilePass

\* A new item may be tried, and becomes no other than it was chosen to be.
LEMMA NewItemType ==
  ASSUME NEW id \in ItemId, NEW t \in Template
  PROVE  NewItem(id, t) \in Triable
BY DEF NewItem, Template, Triable, Item, Size

\* The expansion of a directory adds its entries to the list.
LEMMA ExpandedKeeps ==
  ASSUME NEW q \in Seq(Triable), NEW kids \in KidLists, nextId \in 1 .. MaxItems + 1,
         kids # <<>> => nextId + Len(kids) - 1 <= MaxItems
  PROVE  /\ Expanded(q, kids) \in Seq(Triable)
         /\ Len(Expanded(q, kids)) = Len(q) + Len(kids)
         /\ Len(kids) \in 0 .. 2
<1> DEFINE kid(i) == NewItem(nextId + i - 1, kids[i])
<1>1. PICK n \in 0 .. MaxKids : kids \in [1 .. n -> {t \in NewItems : Kid(t)}]
  BY DEF KidLists
<1>2. n \in 0 .. 2 /\ Len(kids) = n /\ \A i \in 1 .. n : kids[i] \in Template
  BY <1>1, QueueAssumption, LenProperties
<1>3. \A i \in 1 .. n : kid(i) \in Triable
  <2>1. \A i \in 1 .. n : nextId + i - 1 \in ItemId
    BY <1>1, <1>2, QueueAssumption DEF ItemId
  <2> QED
    BY <1>2, <2>1, NewItemType
<1> HIDE DEF kid
<1>4. CASE n = 0
  BY <1>2, <1>4 DEF Expanded
<1>5. CASE n = 1
  <2>1. Expanded(q, kids) = ExpandOne(q, kid(1))
    BY <1>2, <1>5 DEF Expanded, kid
  <2>2. kid(1) \in Triable
    BY <1>3, <1>5
  <2> QED
    BY <1>2, <1>5, <2>1, <2>2, ExpandOneKeeps
<1>6. CASE n = 2
  <2>1. Expanded(q, kids) = ExpandOne(ExpandOne(q, kid(1)), kid(2))
    BY <1>2, <1>6 DEF Expanded, kid
  <2>2. kid(1) \in Triable /\ kid(2) \in Triable
    BY <1>3, <1>6
  <2>3. ExpandOne(q, kid(1)) \in Seq(Triable) /\ Len(ExpandOne(q, kid(1))) = Len(q) + 1
    BY <2>2, ExpandOneKeeps
  <2>4. /\ ExpandOne(ExpandOne(q, kid(1)), kid(2)) \in Seq(Triable)
        /\ Len(ExpandOne(ExpandOne(q, kid(1)), kid(2))) = Len(ExpandOne(q, kid(1))) + 1
    BY <2>2, <2>3, ExpandOneKeeps
  <2> QED
    BY <1>2, <1>6, <2>1, <2>3, <2>4
<1> QED
  BY <1>2, <1>4, <1>5, <1>6

\* The phases of a directory.
LEMMA DirectoryPassList ==
  ASSUME ListInv, BookInv, DirectoryPass
  PROVE  ListInv'
<1> USE DEF FileState, DirectoryState
<1>1. CASE DirectoryPhase1Idle \/ DirectoryPhase2Mkd
  <2>1. PICK st \in DirectoryState : In(st)
    BY <1>1 DEF DirectoryPhase1Idle, DirectoryPhase2Mkd
  <2>2. /\ UNCHANGED <<stop, src, num, items>>
        /\ state' \in DirectoryState \cup {"ITEM_FAILED"}
    BY <1>1 DEF DirectoryPhase1Idle, DirectoryPhase2Mkd, listVars
  <2> QED
    BY <2>1, <2>2, PhaseKeepsList
<1>2. CASE DirectoryStart
  <2>1. Top \in Triable /\ In("DIRECTORY_START")
    BY <1>2, InPhase DEF DirectoryStart
  <2>2. \E x \in Triable : items' = SetTop(x)
    <3>1. [Top EXCEPT !.sfail = FALSE, !.dfail = FALSE] \in Triable
      BY <2>1, FailuresType
    <3> QED
      BY <1>2, <3>1 DEF DirectoryStart
  <2>3. UNCHANGED <<stop, src, num>> /\ state' \in DirectoryState
    BY <1>2 DEF DirectoryStart
  <2> QED
    BY <2>1, <2>2, <2>3, PhaseKeepsList
<1>3. CASE DirectoryPhase2Start
  <2>1. Top \in Triable /\ In("DIRECTORY_PHASE_2_START")
    BY <1>3, InPhase DEF DirectoryPhase2Start
  <2>2. \E x \in Triable : items' = SetTop(x)
    <3>1. /\ [Top EXCEPT !.sxfer = 0, !.dxfer = 0] \in Triable
          /\ [Top EXCEPT !.sxfer = 0, !.dxfer = 2, !.dfail = FALSE] \in Triable
      BY <2>1, CountersType
    <3> QED
      BY <1>3, <3>1 DEF DirectoryPhase2Start
  <2>3. UNCHANGED <<stop, src, num>> /\ state' \in DirectoryState
    BY <1>3 DEF DirectoryPhase2Start
  <2> QED
    BY <2>1, <2>2, <2>3, PhaseKeepsList
<1>4. CASE DirectoryPhase2Compare
  <2>1. items # <<>> /\ items \in Seq(Triable)
    BY <1>4, InPhase DEF DirectoryPhase2Compare
  <2>2. Tail(items) \in Seq(Triable) /\ Len(Tail(items)) = Len(items) - 1
        /\ Len(items) \in Nat
    BY <2>1, HeadAndTail
  <2>3. PICK kids \in KidLists :
          /\ kids # <<>> => nextId + Len(kids) - 1 <= MaxItems
          /\ items' = Expanded(Tail(items), kids)
          /\ num' = num - 1 + Len(kids)
    BY <1>4 DEF DirectoryPhase2Compare
  <2>4. /\ items' \in Seq(Triable) /\ Len(items') = Len(Tail(items)) + Len(kids)
        /\ Len(kids) \in 0 .. 2
    BY <2>2, <2>3, ExpandedKeeps DEF BookInv
  <2>5. num' = Len(items')
    BY <2>2, <2>3, <2>4 DEF ListInv, CountsAgree
  <2>6. state' = "START" /\ UNCHANGED <<stop, src>>
    BY <1>4 DEF DirectoryPhase2Compare
  <2>7. HeadPresent' /\ state' \in State \ {"ERROR_ITEM"}
    BY <2>6 DEF HeadPresent, Headed, State, LossBlind
  <2> QED
    BY <2>4, <2>5, <2>6, <2>7, ListKept DEF ListInv
<1> QED
  BY <1>1, <1>2, <1>3, <1>4 DEF DirectoryPass

\* The first item after a write, and the others, which are untouched.
LEMMA SetTopSplits ==
  ASSUME NEW S, items \in Seq(S), items # <<>>, NEW x
  PROVE  Head(SetTop(x)) = x /\ Tail(SetTop(x)) = Tail(items) /\ SetTop(x) # <<>>
         /\ Len(SetTop(x)) = Len(items)
<1>1. Tail(items) \in Seq(S \cup {x}) /\ Len(Tail(items)) = Len(items) - 1
      /\ Len(items) \in Nat \ {0}
  <2>1. items \in Seq(S \cup {x})
    BY SeqMonotonic
  <2> QED
    BY <2>1, HeadAndTail
<1>2. <<x>> \in Seq(S \cup {x}) /\ Len(<<x>>) = 1 /\ <<x>>[1] = x
  OBVIOUS
<1>3. /\ SetTop(x) \in Seq(S \cup {x}) /\ Len(SetTop(x)) = 1 + Len(Tail(items))
      /\ SetTop(x)[1] = x
      /\ \A i \in 1 .. Len(Tail(items)) : SetTop(x)[i + 1] = Tail(items)[i]
  BY <1>1, <1>2, ConcatProperties DEF SetTop
<1>4. SetTop(x) # <<>> /\ Head(SetTop(x)) = x
  BY <1>1, <1>3
<1>5. /\ Tail(SetTop(x)) \in Seq(S \cup {x}) /\ Len(Tail(SetTop(x))) = Len(Tail(items))
      /\ \A i \in 1 .. Len(Tail(items)) : Tail(SetTop(x))[i] = SetTop(x)[i + 1]
  BY <1>1, <1>3, <1>4, HeadTailProperties
<1>6. Tail(SetTop(x)) = Tail(items)
  BY <1>1, <1>3, <1>5, SeqEqual
<1> QED
  BY <1>1, <1>3, <1>4, <1>6

\* A failure is charged to the first item, which joins the error list at its
\* second one.
LEMMA ItemFailedList ==
  ASSUME ListInv, ItemFailed
  PROVE  ListInv'
<1>1. state # "ERROR_ITEM" /\ items # <<>> /\ items \in Seq(Triable)
  BY InItemFailed DEF ItemFailed
<1>2. Top \in Triable /\ Tail(items) \in Seq(Triable)
  BY <1>1, HeadAndTail DEF Top
<1>3. Top \in Item /\ Top.soft \in {0, 1}
  BY <1>2 DEF Triable
<1> DEFINE x == [Top EXCEPT !.soft = @ + 1]
<1>4. /\ items' = SetTop(x) /\ loop' = "run" /\ UNCHANGED <<stop, src, num>>
      /\ state' = IF Top.soft + 1 >= 2 THEN "ERROR_ITEM" ELSE "REQUEUE_ITEM"
  BY DEF ItemFailed, Again, Exhausted
<1>5. x \in Item /\ x.soft = Top.soft + 1
  BY <1>3 DEF Item
<1> HIDE DEF x
<1>6. /\ Head(items') = x /\ Tail(items') = Tail(items) /\ items' # <<>>
      /\ Len(items') = Len(items)
  BY <1>1, <1>4, SetTopSplits
<1>7. num' = Len(items') /\ num' \in Int /\ stop' \in BOOLEAN /\ src' \in Side \cup {"none"}
  BY <1>4, <1>6 DEF ListInv, CountsAgree
<1>8. HeadPresent'
  BY <1>4, <1>6 DEF HeadPresent, FileState, DirectoryState
<1>9. CASE Top.soft = 0
  <2>1. x \in Triable
    BY <1>5, <1>9 DEF Triable
  <2>2. items' \in Seq(Triable)
    BY <1>1, <1>4, <2>1, SetTopKeeps
  <2>3. state' \in State \ {"ERROR_ITEM"}
    BY <1>4, <1>9 DEF State, LossBlind
  <2> QED
    BY <1>7, <1>8, <2>2, <2>3, ListKept
<1>10. CASE Top.soft = 1
  <2>1. state' = "ERROR_ITEM" /\ state' \in State
    BY <1>4, <1>10 DEF State, LossBlind
  <2>2. Charged'
    BY <1>2, <1>4, <1>5, <1>6, <2>1 DEF Charged
  <2> QED
    BY <1>7, <1>8, <2>1, <2>2 DEF ListInv, CountsAgree
<1> QED
  BY <1>3, <1>9, <1>10

\* The other calls of queue_process.
LEMMA PassList ==
  ASSUME ListInv, BookInv, Pass
  PROVE  ListInv'
<1> USE DEF State, LossBlind
<1>0. state # "ERROR_ITEM" => items \in Seq(Triable)
  BY DEF ListInv, Charged
<1>h. ASSUME state' \in {"START", "EMPTY", "IDLE"} PROVE HeadPresent'
  BY <1>h DEF HeadPresent, Headed, FileState, DirectoryState
<1>1. CASE FilePass \/ DirectoryPass
  BY <1>1, FilePassList, DirectoryPassList
<1>2. CASE Start
  <2>1. state = "START" /\ stop' = FALSE /\ UNCHANGED <<src, items, num>>
    BY <1>2, InState DEF Start, listVars
  <2>2. state' \in {"EMPTY", "ISCONNECTED"} /\ (state' = "ISCONNECTED" => items # <<>>)
    BY <1>2 DEF Start
  <2>3. HeadPresent'
    BY <2>1, <2>2 DEF HeadPresent, Headed, FileState, DirectoryState
  <2> QED
    BY <1>0, <2>1, <2>2, <2>3, ListKept DEF ListInv, CountsAgree
<1>3. CASE IsConnected \/ StartNextItem
  <2>1. /\ state \in {"ISCONNECTED", "START_NEXT_ITEM"}
        /\ state' \in {"START_NEXT_ITEM", "ACTIVE"}
        /\ UNCHANGED <<stop, src, items, num>>
    BY <1>3, InState DEF IsConnected, StartNextItem, listVars
  <2>2. HeadPresent'
    BY <2>1 DEF ListInv, HeadPresent, FileState, DirectoryState
  <2> QED
    BY <1>0, <2>1, <2>2, ListKept DEF ListInv, CountsAgree
<1>4. CASE ActiveEnd \/ Empty \/ Idle
  <2>1. /\ state \in {"ACTIVE", "EMPTY", "IDLE"} /\ state' \in {"EMPTY", "IDLE"}
        /\ UNCHANGED <<src, items, num>> /\ stop' \in {stop, FALSE}
    BY <1>4, InState DEF ActiveEnd, Empty, Idle, listVars
  <2> QED
    BY <1>0, <1>h, <2>1, ListKept DEF ListInv, CountsAgree
<1>5. CASE Active
  <2>1. state = "ACTIVE" /\ items # <<>> /\ UNCHANGED <<items, num>>
    BY <1>5, InState DEF Active, listVars, ListInv, HeadPresent
  <2>2. Top \in Triable
    BY <1>0, <2>1, HeadAndTail DEF Top
  <2>3. Top.type \in {"FILE", "DIRECTORY", "STOP"}
    BY <2>2 DEF Triable, Item, ItemType
  <2>4. state' \in {"FILE_START", "DIRECTORY_START", "REMOVE_ITEM"}
    BY <1>5, <2>3 DEF Active
  <2>5. src' \in Side /\ stop' \in BOOLEAN
    BY <1>5 DEF Active, Side
  <2>6. HeadPresent'
    BY <2>1, <2>5 DEF HeadPresent, Side
  <2>7. state' \in State \ {"ERROR_ITEM"}
    BY <2>4 DEF FileState, DirectoryState
  <2> QED
    BY <1>0, <2>1, <2>5, <2>6, <2>7, ListKept DEF ListInv, CountsAgree
<1>6. CASE ItemFailed
  BY <1>6, ItemFailedList
<1>7. CASE RequeueItem
  <2>1. state = "REQUEUE_ITEM" /\ items # <<>> /\ items \in Seq(Triable)
    BY <1>0, <1>7, InState DEF RequeueItem, ListInv, HeadPresent, Headed
  <2>2. /\ Top \in Triable /\ Tail(items) \in Seq(Triable)
        /\ Len(Tail(items)) = Len(items) - 1 /\ Len(items) \in Nat
    BY <2>1, HeadAndTail DEF Top
  <2>3. /\ items' = Insert(Tail(items), Top, Default) /\ src' = "none"
        /\ state' \in {"IDLE", "START"} /\ UNCHANGED <<stop, num>>
    BY <1>7 DEF RequeueItem, NextItem
  <2>4. Atoi(Default) \in Nat
    BY DEF Atoi, Default
  <2>5. items' \in Seq(Triable) /\ Len(items') = Len(items)
    <3> DEFINE rest == Tail(items)
               list == Insert(rest, Top, Default)
    <3>1. /\ rest \in Seq(Triable) /\ Top \in Triable /\ items' = list
          /\ Len(rest) = Len(items) - 1 /\ Len(items) \in Nat
      BY <2>2, <2>3
    <3> HIDE DEF rest
    <3>2. list \in Seq(Triable) /\ Len(list) = Len(rest) + 1
      BY <2>4, <3>1, InsertKeeps
    <3> QED
      BY <3>1, <3>2
  <2> QED
    BY <1>h, <2>3, <2>5, ListKept DEF ListInv, CountsAgree
<1>8. CASE ErrorItem
  <2>1. state = "ERROR_ITEM"
    BY <1>8, InState DEF ErrorItem
  <2>2. items # <<>> /\ items \in Seq(Item) /\ Tail(items) \in Seq(Triable)
    BY <2>1, ItemsType DEF ListInv, Charged
  <2>3. Len(Tail(items)) = Len(items) - 1
    BY <2>2, HeadAndTail
  <2>4. /\ items' = Tail(items) /\ num' = num - 1 /\ src' \in {src, "none"}
        /\ state' \in {"IDLE", "START"} /\ UNCHANGED stop
    BY <1>8 DEF ErrorItem, NextItem
  <2> QED
    BY <1>h, <2>2, <2>3, <2>4, ListKept DEF ListInv, CountsAgree
<1>9. CASE RemoveItem
  <2>1. state = "REMOVE_ITEM" /\ items # <<>> /\ items \in Seq(Triable)
    BY <1>0, <1>9, InState DEF RemoveItem, ListInv, HeadPresent, Headed
  <2>2. Tail(items) \in Seq(Triable) /\ Len(Tail(items)) = Len(items) - 1
    BY <2>1, HeadAndTail
  <2>3. /\ items' = Tail(items) /\ num' = num - 1 /\ src' = "none"
        /\ state' \in {"IDLE", "START"} /\ UNCHANGED stop
    BY <1>9 DEF RemoveItem, NextItem
  <2> QED
    BY <1>h, <2>2, <2>3, ListKept DEF ListInv, CountsAgree
<1>10. CASE Waiting
  <2>1. UNCHANGED <<state, stop, src, items, num>>
    BY <1>10 DEF Waiting, queueVars, listVars
  <2>2. state # "ERROR_ITEM"
    BY <1>10 DEF Waiting, Effective, Unhurried
  <2> QED
    BY <1>0, <2>1, <2>2, ListKept DEF ListInv, CountsAgree, HeadPresent
<1> QED
  BY <1>1, <1>2, <1>3, <1>4, <1>5, <1>6, <1>7, <1>8, <1>9, <1>10 DEF Pass

\* A reply writes to the item that is first.
LEMMA TopAfterType ==
  ASSUME Top \in Triable, remote \in [ItemId -> Size], NEW ev, NEW code
  PROVE  TopAfter(ev, code) \in Triable
<1> DEFINE a == Top.sfail \/ FailsSrc(ev, code)
           b == (Top.dfail \/ FailsDst(ev, code)) /\ ~ClearsDst(ev, code)
           m == IF ev = "PHASE_10_STOR" /\ code = "ok" THEN Bump(Top.sxfer) ELSE Top.sxfer
           n == IF ev = "PHASE_11_RETR" /\ code = "ok" THEN Bump(Top.dxfer) ELSE Top.dxfer
           c == Top.ssize \/ (ev = "PHASE_5_SRC_SIZE" /\ code = "ok")
           z == IF ev = "PHASE_5_DST_SIZE" /\ code = "ok" THEN remote[Top.id] ELSE Top.dsize
           x1 == [Top EXCEPT !.sfail = a]
           x2 == [x1 EXCEPT !.dfail = b]
           x3 == [x2 EXCEPT !.sxfer = m]
           x4 == [x3 EXCEPT !.dxfer = n]
           x5 == [x4 EXCEPT !.ssize = c]
           x6 == [x5 EXCEPT !.dsize = z]
<1>1. /\ Top.id \in ItemId /\ Top.sxfer \in 0 .. 3 /\ Top.dxfer \in 0 .. 3
      /\ Top.dsize \in Size
  BY DEF Triable, Item
<1>2. a \in BOOLEAN /\ b \in BOOLEAN /\ c \in BOOLEAN
  OBVIOUS
<1>3. m \in 0 .. 3 /\ n \in 0 .. 3
  BY <1>1 DEF Bump
<1>4. z \in Size
  BY <1>1
<1>5. TopAfter(ev, code) = x6
  BY DEF TopAfter
<1> HIDE DEF a, b, m, n, c, z
<1>6. x1 \in Triable
  BY <1>2, <1>3, <1>4, FieldType
<1> HIDE DEF x1
<1>7. x2 \in Triable
  BY <1>2, <1>3, <1>4, <1>6, FieldType
<1> HIDE DEF x2
<1>8. x3 \in Triable
  BY <1>2, <1>3, <1>4, <1>7, FieldType
<1> HIDE DEF x3
<1>9. x4 \in Triable
  BY <1>2, <1>3, <1>4, <1>8, FieldType
<1> HIDE DEF x4
<1>10. x5 \in Triable
  BY <1>2, <1>3, <1>4, <1>9, FieldType
<1> HIDE DEF x5
<1>11. x6 \in Triable
  BY <1>2, <1>3, <1>4, <1>10, FieldType
<1> HIDE DEF x6
<1> QED
  BY <1>5, <1>11

\* So do the end of a transfer and the end of a listing.
LEMMA SecondType ==
  ASSUME Top \in Triable, NEW id \in ReplyId, NEW code
  PROVE  Second(id, code) \in Triable
<1> DEFINE m == Bump(Top.sxfer)
           n == Bump(Top.dxfer)
           a == Top.sfail \/ code # "ok"
           b == Top.dfail \/ code # "ok"
           x == [Top EXCEPT !.sxfer = m]
           y == [Top EXCEPT !.dxfer = n]
<1>0. "none" \in Size
  BY DEF Size
<1>1. Top.sxfer \in 0 .. 3 /\ Top.dxfer \in 0 .. 3
  BY DEF Triable, Item
<1>2. a \in BOOLEAN /\ b \in BOOLEAN /\ m \in 0 .. 3 /\ n \in 0 .. 3 /\ 1 \in 0 .. 3
  BY <1>1 DEF Bump
<1> HIDE DEF m, n, a, b
<1>3. x \in Triable /\ y \in Triable
  BY <1>0, <1>2, FieldType
<1>4. [Top EXCEPT !.sxfer = 1] \in Triable /\ [Top EXCEPT !.dxfer = 1] \in Triable
  BY <1>0, <1>2, FieldType
<1>5. [x EXCEPT !.sfail = a] \in Triable /\ [y EXCEPT !.dfail = b] \in Triable
  <2> HIDE DEF x, y
  <2> QED
    BY <1>0, <1>2, <1>3, FieldType
<1> USE DEF m, n, a, b
<1>6. CASE id = "PHASE_12_SRC_226"
  <2>1. Second(id, code) = [x EXCEPT !.sfail = a]
    BY <1>6 DEF Second
  <2> QED
    BY <1>5, <2>1
<1>7. CASE id = "PHASE_12_DST_226"
  <2>1. Second(id, code) = [y EXCEPT !.dfail = b]
    BY <1>7 DEF Second
  <2> QED
    BY <1>5, <2>1
<1>8. CASE id \notin {"PHASE_12_SRC_226", "PHASE_12_DST_226"}
  BY <1>4, <1>8 DEF Second, ReplyId
<1> QED
  BY <1>6, <1>7, <1>8

\* A step of the poll that leaves the state and at most writes to the item
\* that is first.
LEMMA PollKeepsList ==
  ASSUME ListInv, loop = "poll", UNCHANGED <<state, stop, src, num>>,
         UNCHANGED items \/ (items # <<>> /\ \E x \in Triable : items' = SetTop(x))
  PROVE  ListInv'
<1>1. state # "ERROR_ITEM" /\ items \in Seq(Triable)
  BY PollingItems
<1>2. /\ items' \in Seq(Triable) /\ Len(items') = Len(items)
      /\ (items # <<>> => items' # <<>>)
  BY <1>1, SetTopKeeps
<1>3. HeadPresent' /\ num' = Len(items')
  BY <1>2 DEF ListInv, HeadPresent, CountsAgree
<1> QED
  BY <1>1, <1>2, <1>3, ListKept DEF ListInv

\* The events of a session keep the list.
LEMMA EventList ==
  ASSUME ListInv, SessionInv, WorldInv, NEW p \in Side, SessionEvent(p)
  PROVE  ListInv'
<1>0. loop = "poll" /\ (items # <<>> => Top \in Triable)
  BY PollingItems DEF SessionEvent, Login, Reply, TransferEnd, ListingEnd, DataLine,
     DataClosed, Lost, Listing, Polling
<1>1. CASE Reply(p)
  <2>1. /\ UNCHANGED <<state, stop, src, num>>
        /\ \/ UNCHANGED items
           \/ \E ev, code : items # <<>> /\ items' = SetTop(TopAfter(ev, code))
    BY <1>1 DEF Reply, Die, queueVars, listVars
  <2>2. \A ev, code : items # <<>> => TopAfter(ev, code) \in Triable
    BY <1>0, TopAfterType DEF WorldInv
  <2> QED
    BY <1>0, <2>1, <2>2, PollKeepsList
<1>2. CASE TransferEnd(p) \/ DataClosed(p)
  <2>1. sess[p].replyId \in ReplyId
    BY DEF SessionInv, SessionRec
  <2>2. /\ UNCHANGED <<state, stop, src, num>>
        /\ \/ UNCHANGED items
           \/ \E code : items # <<>> /\ items' = SetTop(Second(sess[p].replyId, code))
    <3>1. CASE TransferEnd(p)
      BY <3>1 DEF TransferEnd, Die, queueVars, listVars
    <3>2. CASE DataClosed(p)
      BY <3>2 DEF DataClosed, Die, queueVars, listVars
    <3> QED
      BY <1>2, <3>1, <3>2
  <2>3. \A code : items # <<>> => Second(sess[p].replyId, code) \in Triable
    BY <1>0, <2>1, SecondType
  <2> QED
    BY <1>0, <2>2, <2>3, PollKeepsList
<1>3. CASE Login(p) \/ ListingEnd(p) \/ DataLine(p) \/ Lost(p)
  <2>1. UNCHANGED <<state, stop, src, num, items>>
    BY <1>3 DEF Login, ListingEnd, DataLine, Lost, queueVars, listVars
  <2> QED
    BY <1>0, <2>1, PollKeepsList
<1> QED
  BY <1>1, <1>2, <1>3 DEF SessionEvent

\* The users' commands keep the list.
LEMMA CommandList ==
  ASSUME ListInv, BookInv, Command2
  PROVE  ListInv'
<1>0. loop = "poll"
  BY DEF Command2, Go, Stop, StopDrop, QAdd, QDel, QMove, UserCommand, Polling
<1>1. /\ state # "ERROR_ITEM" /\ items \in Seq(Triable) /\ Len(items) \in Nat
      /\ num = Len(items)
  BY <1>0, PollingItems DEF ListInv, CountsAgree
<1>a. \A at \in AtChoices : Atoi(at) \in Nat
  BY QueueAssumption DEF At, Absent, Atoi
<1>k. ASSUME NEW q \in Seq(Triable), items' = q, num' = Len(q), state # "IDLE" => q # <<>>,
             UNCHANGED <<state, stop, src>>
      PROVE  ListInv'
  <2>1. HeadPresent'
    BY <1>k DEF ListInv, HeadPresent, Headed, FileState, DirectoryState
  <2> QED
    BY <1>1, <1>k, <2>1, ListKept DEF ListInv
<1>2. CASE Go \/ Stop \/ StopDrop
  <2>1. /\ state' \in {state, "START", "IDLE"} /\ stop' \in {stop, TRUE, FALSE}
        /\ UNCHANGED <<src, items, num>>
    BY <1>2 DEF Go, Stop, StopDrop, listVars
  <2>2. HeadPresent'
    BY <2>1 DEF ListInv, HeadPresent, Headed, FileState, DirectoryState
  <2>3. state' \in State \ {"ERROR_ITEM"}
    BY <1>1, <2>1 DEF ListInv, State, LossBlind
  <2> QED
    BY <1>1, <2>1, <2>2, <2>3, ListKept DEF ListInv
<1>3. CASE \E t \in NewItems, at \in AtChoices : QAdd(t, at)
  <2>1. PICK t \in NewItems, at \in AtChoices : QAdd(t, at)
    BY <1>3
  <2> DEFINE x == NewItem(nextId, t)
             q == Insert(items, x, Place(t, at))
  <2>2. nextId \in ItemId /\ t \in Template
    BY <2>1, QueueAssumption DEF QAdd, BookInv, ItemId
  <2>3. x \in Triable
    BY <2>2, NewItemType
  <2>4. Atoi(Place(t, at)) \in Nat
    BY <1>a DEF Place, Atoi, Last, Nth
  <2>5. q \in Seq(Triable) /\ Len(q) = Len(items) + 1
    <3> HIDE DEF x
    <3> QED
      BY <1>1, <2>3, <2>4, InsertKeeps
  <2>6. items' = q /\ num' = num + 1 /\ UNCHANGED <<state, stop, src>>
    BY <2>1 DEF QAdd, queueVars
  <2>7. q # <<>>
    BY <1>1, <2>5
  <2> HIDE DEF q
  <2> QED
    BY <1>1, <1>k, <2>5, <2>6, <2>7
<1>4. CASE \E pos \in 0 .. MaxItems - 1 : QDel(pos)
  <2>1. PICK pos \in 0 .. MaxItems - 1 : QDel(pos)
    BY <1>4
  <2> DEFINE q == RemoveAtPos(items, pos)
  <2>2. pos \in 0 .. Len(items) - 1 /\ (state = "IDLE" \/ pos # 0)
    BY <1>1, <2>1, QueueAssumption DEF QDel
  <2>3. q \in Seq(Triable) /\ Len(q) = Len(items) - 1
    BY <1>1, <2>2, RemoveKeeps
  <2>4. items' = q /\ num' = num - 1 /\ UNCHANGED <<state, stop, src>>
    BY <2>1 DEF QDel, queueVars
  <2>5. state # "IDLE" => q # <<>>
    BY <1>1, <2>2, <2>3
  <2> HIDE DEF q
  <2> QED
    BY <1>1, <1>k, <2>3, <2>4, <2>5
<1>5. CASE \E from \in 0 .. MaxItems - 1 : \E to \in AtChoices : QMove(from, to)
  <2>1. PICK from \in 0 .. MaxItems - 1, to \in AtChoices : QMove(from, to)
    BY <1>5
  <2> DEFINE at == IF state # "IDLE" /\ Atoi(to) = 0 THEN Nth(1) ELSE to
             r == RemoveAtPos(items, from)
             x == items[from + 1]
             q == Insert(r, x, at)
  <2>2. from \in 0 .. Len(items) - 1
    BY <1>1, <2>1, QueueAssumption DEF QMove
  <2>3. r \in Seq(Triable) /\ Len(r) = Len(items) - 1 /\ x \in Triable
    <3>1. x \in Triable
      BY <1>1, <2>2, ElementOfSeq
    <3> QED
      BY <1>1, <2>2, <3>1, RemoveKeeps
  <2>4. Atoi(at) \in Nat
    BY <1>a DEF Atoi, Nth
  <2>5. q \in Seq(Triable) /\ Len(q) = Len(r) + 1
    <3> HIDE DEF r, x, at
    <3> QED
      BY <2>3, <2>4, InsertKeeps
  <2>6. items' = q /\ UNCHANGED <<num, state, stop, src>>
    BY <2>1 DEF QMove, queueVars
  <2>7. q # <<>>
    BY <1>1, <2>2, <2>3, <2>5
  <2> HIDE DEF q
  <2> QED
    BY <1>1, <1>k, <2>3, <2>5, <2>6, <2>7
<1> QED
  BY <1>2, <1>3, <1>4, <1>5 DEF Command2

-----------------------------------------------------------------------------
(* The rest of the state. *)

\* mkd_depth counts no further than the bound and never below zero.
LEMMA MkdType ==
  ASSUME FileInv, NEW s, NEW ev, NEW code
  PROVE  MkdAfter(s, ev, code) \in 0 .. MaxMkd
BY QueueAssumption DEF MkdAfter, FileInv

\* The flags of a file keep their types.
LEMMA FileStep ==
  ASSUME FileInv, Next
  PROVE  FileInv'
<1>s. ASSUME UNCHANGED fileVars PROVE FileInv'
  BY <1>s DEF fileVars, FileInv
<1>1. CASE Pass
  <2>1. CASE FilePass
    <3>1. CASE Phase2Plain \/ Phase2Local \/ Phase2Disable
      <4>1. secure' \in BOOLEAN /\ UNCHANGED <<srcpasv, mkd, store>>
        BY <3>1 DEF Phase2Plain, Phase2Local, Phase2Disable, FileInv
      <4> QED
        BY <4>1 DEF FileInv
    <3>2. CASE Phase2Client
      <4>1. secure' \in BOOLEAN /\ UNCHANGED <<srcpasv, mkd, store>>
        BY <3>2 DEF Phase2Client
      <4> QED
        BY <4>1 DEF FileInv
    <3>3. CASE Phase7Start
      <4>1. srcpasv' \in BOOLEAN /\ UNCHANGED <<secure, mkd, store>>
        BY <3>3 DEF Phase7Start, FileInv
      <4> QED
        BY <4>1 DEF FileInv
    <3>4. CASE ~(Phase2Plain \/ Phase2Local \/ Phase2Disable \/ Phase2Client \/ Phase7Start)
      BY <1>s, <2>1, <3>4 DEF FilePass, FileStart, Phase1Start, Phase1Idle, Phase2Wait,
         Phase3Start, Phase3Wait, Phase4Start, Phase5Start, Phase5RestWait, Phase6Start,
         Phase7Wait, Phase8Start, Phase8Wait, Phase9Start, Phase9Rest, Phase10Start,
         Phase10Wait, Phase11Start, Phase11Wait, Phase12Start
    <3> QED
      BY <3>1, <3>2, <3>3, <3>4
  <2>2. CASE DirectoryPass
    <3>1. CASE DirectoryStart
      <4>1. mkd' \in 0 .. MaxMkd /\ UNCHANGED <<secure, srcpasv, store>>
        BY <3>1, QueueAssumption DEF DirectoryStart, FileInv
      <4> QED
        BY <4>1 DEF FileInv
    <3> QED
      BY <1>s, <2>2, <3>1 DEF DirectoryPass, DirectoryPhase1Idle, DirectoryPhase2Start,
         DirectoryPhase2Mkd, DirectoryPhase2Compare
  <2> QED
    BY <1>1, <1>s, <2>1, <2>2 DEF Pass, Start, IsConnected, StartNextItem, ActiveEnd, Active,
       ItemFailed, RequeueItem, ErrorItem, RemoveItem, Empty, Idle, Waiting
<1>2. ASSUME NEW p \in Side, SessionEvent(p)
      PROVE  FileInv'
  <2>1. CASE Reply(p)
    <3>1. \/ UNCHANGED fileVars
          \/ /\ UNCHANGED srcpasv
             /\ \E x : secure' = (secure \/ x)
             /\ \E s, ev, code : /\ mkd' = MkdAfter(s, ev, code)
                                 /\ store' = IF Makes(s, ev, code) THEN mkd > 1 ELSE store
      BY <2>1, ZenonT(30) DEF Reply, Die
    <3>2. CASE UNCHANGED fileVars
      BY <1>s, <3>2
    <3>3. CASE /\ UNCHANGED srcpasv
               /\ \E x : secure' = (secure \/ x)
               /\ \E s, ev, code : /\ mkd' = MkdAfter(s, ev, code)
                                   /\ store' = IF Makes(s, ev, code) THEN mkd > 1 ELSE store
      <4>1. mkd' \in 0 .. MaxMkd
        BY <3>3, MkdType
      <4>2. secure' \in BOOLEAN
        BY <3>3
      <4>3. store' = (mkd > 1) \/ store' = store
        BY <3>3, Zenon
      <4>4. (mkd > 1) \in BOOLEAN
        OBVIOUS
      <4>5. store \in BOOLEAN
        BY DEF FileInv
      <4>6. store' \in BOOLEAN
        BY <4>3, <4>4, <4>5, Zenon
      <4> QED
        BY <3>3, <4>1, <4>2, <4>6 DEF FileInv
    <3> QED
      BY <3>1, <3>2, <3>3
  <2>2. CASE ~Reply(p)
    BY <1>2, <1>s, <2>2 DEF SessionEvent, Login, TransferEnd, ListingEnd, DataLine,
       DataClosed, Lost, Die
  <2> QED
    BY <2>1, <2>2
<1>3. CASE Command2
  BY <1>3, <1>s DEF Command2, Go, Stop, StopDrop, QAdd, QDel, QMove
<1> QED
  BY <1>1, <1>2, <1>3 DEF Next

\* The destination's files and the wire keep their types.
LEMMA WorldStep ==
  ASSUME ListInv, SessionInv, WorldInv, Next
  PROVE  WorldInv'
<1>s. ASSUME UNCHANGED <<remote, wire>>, alive' \in BOOLEAN PROVE WorldInv'
  BY <1>s DEF WorldInv
<1>w. wire.to \in ItemId \cup {0} /\ wire.got \in {"wait", "flow", "all", "cut"}
  BY DEF WorldInv
<1>1. CASE Pass
  <2>1. CASE Phase10Start
    <3>1. Top.id \in ItemId
      BY <2>1, InPhase DEF Phase10Start, FileState, Triable, Item
    <3>2. /\ wire' \in [to: ItemId \cup {0}, got: {"wait", "flow", "all", "cut"}]
          /\ UNCHANGED <<alive, remote>>
      BY <2>1, <3>1 DEF Phase10Start, WorldInv
    <3> QED
      BY <3>2 DEF WorldInv
  <2>2. CASE ~Phase10Start
    <3>1. UNCHANGED <<alive, remote, wire>>
      <4>1. CASE FilePass
        BY <2>2, <4>1 DEF worldVars, FilePass, FileStart, Phase1Start, Phase1Idle,
           Phase2Plain, Phase2Local, Phase2Client, Phase2Wait, Phase2Disable,
           Phase3Start, Phase3Wait, Phase4Start, Phase5Start, Phase5RestWait,
           Phase6Start, Phase7Start, Phase7Wait, Phase8Start, Phase8Wait, Phase9Start,
           Phase9Rest, Phase10Wait, Phase11Start, Phase11Wait, Phase12Start
      <4>2. CASE DirectoryPass
        BY <4>2 DEF worldVars, DirectoryPass, DirectoryStart, DirectoryPhase1Idle,
           DirectoryPhase2Start, DirectoryPhase2Mkd, DirectoryPhase2Compare
      <4> QED
        BY <1>1, <4>1, <4>2 DEF worldVars, Pass, Start, IsConnected, StartNextItem,
           ActiveEnd, Active, ItemFailed, RequeueItem, ErrorItem, RemoveItem, Empty,
           Idle, Waiting
    <3> QED
      BY <1>s, <3>1 DEF WorldInv
  <2> QED
    BY <2>1, <2>2
<1>2. ASSUME NEW p \in Side, SessionEvent(p)
      PROVE  WorldInv'
  <2>1. CASE Reply(p)
    <3>1. /\ alive' \in {alive, FALSE}
          /\ \/ UNCHANGED wire
             \/ wire' = [wire EXCEPT !.got = "flow"]
          /\ \/ UNCHANGED remote
             \/ \E s, cmd, code : remote' = Truncated(s, cmd, code)
      BY <2>1 DEF Reply, Die, worldVars
    <3>2. wire' \in [to: ItemId \cup {0}, got: {"wait", "flow", "all", "cut"}]
      BY <3>1 DEF WorldInv
    <3>3. ASSUME NEW s, NEW cmd, NEW code
          PROVE  Truncated(s, cmd, code) \in [ItemId -> Size]
      <4>1. remote \in [ItemId -> Size] /\ "part" \in Size
        BY DEF WorldInv, Size
      <4>2. CASE Truncated(s, cmd, code) = remote
        BY <4>1, <4>2
      <4>3. CASE /\ wire.to # 0
                 /\ Truncated(s, cmd, code) = [remote EXCEPT ![wire.to] = "part"]
        BY <1>w, <4>1, <4>3
      <4> QED
        BY <4>2, <4>3 DEF Truncated
    <3>4. remote' \in [ItemId -> Size]
      BY <3>1, <3>3 DEF WorldInv
    <3> QED
      BY <3>1, <3>2, <3>4 DEF WorldInv
  <2>2. CASE TransferEnd(p)
    <3>1. \/ UNCHANGED <<remote, wire>> /\ alive' = FALSE
          \/ \E got \in {"all", "cut", wire.got} :
               /\ wire' = [wire EXCEPT !.got = got]
               /\ remote' = IF wire.to # 0 /\ got # wire.got
                            THEN [remote EXCEPT ![wire.to] =
                                    IF got = "all" THEN "full" ELSE "part"]
                            ELSE remote
               /\ UNCHANGED alive
      BY <2>2 DEF TransferEnd, Die
    <3>2. CASE UNCHANGED <<remote, wire>> /\ alive' = FALSE
      BY <1>s, <3>2
    <3>3. ASSUME NEW got \in {"all", "cut", wire.got},
                 wire' = [wire EXCEPT !.got = got],
                 remote' = IF wire.to # 0 /\ got # wire.got
                           THEN [remote EXCEPT ![wire.to] =
                                   IF got = "all" THEN "full" ELSE "part"]
                           ELSE remote,
                 UNCHANGED alive
          PROVE  WorldInv'
      <4>1. wire' \in [to: ItemId \cup {0}, got: {"wait", "flow", "all", "cut"}]
        BY <1>w, <3>3 DEF WorldInv
      <4>2. remote' \in [ItemId -> Size]
        BY <1>w, <3>3 DEF WorldInv, Size
      <4> QED
        BY <3>3, <4>1, <4>2 DEF WorldInv
    <3> QED
      BY <3>1, <3>2, <3>3
  <2>3. CASE ~Reply(p) /\ ~TransferEnd(p)
    <3>1. UNCHANGED <<remote, wire>> /\ alive' \in {alive, FALSE}
      BY <1>2, <2>3 DEF SessionEvent, Login, ListingEnd, DataLine, DataClosed, Lost, Die,
         worldVars
    <3> QED
      BY <1>s, <3>1 DEF WorldInv
  <2> QED
    BY <2>1, <2>2, <2>3
<1>3. CASE Command2
  <2>1. UNCHANGED <<remote, wire>> /\ alive' \in {alive, FALSE}
    BY <1>3 DEF Command2, Go, Stop, StopDrop, QAdd, QDel, QMove
  <2> QED
    BY <1>s, <2>1 DEF WorldInv
<1> QED
  BY <1>1, <1>2, <1>3 DEF Next

\* The books of finished, failed and deleted items, and the bounds.
LEMMA BookStep ==
  ASSUME ListInv, BookInv, Next
  PROVE  BookInv'
<1> DEFINE books == <<errs, done, gone, nextId, cmds, lost, bad>>
<1>s. ASSUME UNCHANGED books PROVE BookInv'
  BY <1>s DEF BookInv
<1>t. items # <<>> => Top.id \in ItemId
  <2>1. items # <<>> => Top \in Item
    BY ItemsType, HeadAndTail DEF ListInv, Top
  <2> QED
    BY <2>1 DEF Item
<1>1. CASE Pass
  <2>1. CASE FilePass
    <3>1. UNCHANGED books
      BY <2>1 DEF listVars, worldVars, FilePass, FileStart, Phase1Start, Phase1Idle,
         Phase2Plain, Phase2Local, Phase2Client, Phase2Wait, Phase2Disable,
         Phase3Start, Phase3Wait, Phase4Start, Phase5Start, Phase5RestWait,
         Phase6Start, Phase7Start, Phase7Wait, Phase8Start, Phase8Wait, Phase9Start,
         Phase9Rest, Phase10Start, Phase10Wait, Phase11Start, Phase11Wait, Phase12Start
    <3> QED
      BY <1>s, <3>1
  <2>2. CASE DirectoryPhase2Compare
    <3>1. items # <<>>
      BY <2>2, InPhase DEF DirectoryPhase2Compare, DirectoryState
    <3>2. PICK kids \in KidLists :
            /\ kids # <<>> => nextId + Len(kids) - 1 <= MaxItems
            /\ nextId' = nextId + Len(kids)
      BY <2>2 DEF DirectoryPhase2Compare
    <3>3. Len(kids) \in Nat /\ (kids = <<>> => Len(kids) = 0)
      <4>1. PICK n \in 0 .. MaxKids : kids \in [1 .. n -> {t \in NewItems : Kid(t)}]
        BY DEF KidLists
      <4> QED
        BY <4>1, LenProperties, QueueAssumption
    <3>4. nextId' \in 1 .. MaxItems + 1
      BY <3>2, <3>3, QueueAssumption DEF BookInv
    <3>5. done' = done \cup {Top.id} /\ UNCHANGED <<errs, gone, cmds, lost, bad>>
      BY <2>2 DEF DirectoryPhase2Compare
    <3> QED
      BY <1>t, <3>1, <3>4, <3>5 DEF BookInv
  <2>3. CASE ErrorItem \/ RemoveItem
    <3>1. items # <<>>
      BY <2>3, InState DEF ErrorItem, RemoveItem, ListInv, HeadPresent, Headed
    <3>2. /\ errs' \in {errs, errs \cup {Top.id}} /\ done' \in {done, done \cup {Top.id}}
          /\ UNCHANGED <<gone, nextId, cmds, lost, bad>>
      BY <2>3 DEF ErrorItem, RemoveItem, worldVars
    <3> QED
      BY <1>t, <3>1, <3>2 DEF BookInv
  <2>4. CASE ~FilePass /\ ~DirectoryPhase2Compare /\ ~ErrorItem /\ ~RemoveItem
    <3>1. UNCHANGED books
      BY <1>1, <2>4 DEF listVars, worldVars, Pass, DirectoryPass, Start, IsConnected,
         StartNextItem, ActiveEnd, Active, ItemFailed, RequeueItem, Empty, Idle, Waiting,
         DirectoryStart, DirectoryPhase1Idle, DirectoryPhase2Start, DirectoryPhase2Mkd
    <3> QED
      BY <1>s, <3>1
  <2> QED
    BY <2>1, <2>2, <2>3, <2>4
<1>2. ASSUME NEW p \in Side, SessionEvent(p)
      PROVE  BookInv'
  <2>1. CASE Reply(p)
    <3>1. /\ UNCHANGED <<errs, done, gone, nextId, cmds, lost>>
          /\ \/ UNCHANGED bad
             \/ \E code : bad' = bad + Cost(code) /\ bad + Cost(code) <= MaxBad
      BY <2>1 DEF Reply, Die, listVars, worldVars
    <3> QED
      BY <3>1, QueueAssumption DEF BookInv, Cost
  <2>2. CASE TransferEnd(p)
    <3>1. /\ UNCHANGED <<errs, done, gone, nextId, cmds, lost>>
          /\ \/ UNCHANGED bad
             \/ \E cost \in {0, 1} : bad' = bad + cost /\ bad + cost <= MaxBad
      BY <2>2 DEF TransferEnd, Die, listVars
    <3> QED
      BY <3>1, QueueAssumption DEF BookInv
  <2>3. CASE ListingEnd(p) \/ Lost(p)
    <3>1. /\ UNCHANGED <<errs, done, gone, nextId, cmds>>
          /\ UNCHANGED bad \/ (bad < MaxBad /\ bad' = bad + 1)
          /\ UNCHANGED lost \/ (lost < MaxLost /\ lost' = lost + 1)
      BY <2>3 DEF ListingEnd, Lost, listVars
    <3> QED
      BY <3>1, QueueAssumption DEF BookInv
  <2>4. CASE Login(p) \/ DataLine(p) \/ DataClosed(p)
    <3>1. UNCHANGED books
      BY <2>4 DEF Login, DataLine, DataClosed, Die, listVars, worldVars
    <3> QED
      BY <1>s, <3>1
  <2> QED
    BY <1>2, <2>1, <2>2, <2>3, <2>4 DEF SessionEvent
<1>3. CASE Command2
  <2>1. cmds < MaxCmds /\ cmds' = cmds + 1
    BY <1>3 DEF Command2, Go, Stop, StopDrop, QAdd, QDel, QMove, UserCommand
  <2>2. UNCHANGED <<errs, done, lost, bad>>
    BY <1>3 DEF Command2, Go, Stop, StopDrop, QAdd, QDel, QMove, listVars
  <2>3. nextId' \in 1 .. MaxItems + 1
    BY <1>3, QueueAssumption DEF BookInv, Command2, Go, Stop, StopDrop, QAdd, QDel, QMove
  <2>4. gone' \subseteq ItemId
    <3>1. CASE \E pos \in 0 .. MaxItems - 1 : QDel(pos)
      <4>1. PICK pos \in 0 .. MaxItems - 1 : QDel(pos)
        BY <3>1
      <4>2. items \in Seq(Item) /\ pos + 1 \in 1 .. Len(items)
        BY <4>1, ItemsType, QueueAssumption DEF ListInv, QDel
      <4>3. items[pos + 1].id \in ItemId
        <5>1. items[pos + 1] \in Item
          BY <4>2, ElementOfSeq
        <5> QED
          BY <5>1 DEF Item
      <4>4. gone' = gone \cup {items[pos + 1].id}
        BY <4>1 DEF QDel
      <4>5. gone \subseteq ItemId
        BY DEF BookInv
      <4> QED
        BY <4>3, <4>4, <4>5, Zenon
    <3>2. CASE ~\E pos \in 0 .. MaxItems - 1 : QDel(pos)
      BY <1>3, <3>2 DEF Command2, Go, Stop, StopDrop, QAdd, QMove, listVars, BookInv
    <3> QED
      BY <3>1, <3>2
  <2> QED
    BY <2>1, <2>2, <2>3, <2>4, QueueAssumption DEF BookInv
<1> QED
  BY <1>1, <1>2, <1>3 DEF Next

-----------------------------------------------------------------------------
(* The theorems.                                                             *)

\* The invariant holds of a queue that a user has built and not yet started.
LEMMA IInvInit ==
  ASSUME Init
  PROVE  IInv
<1>1. PICK ts \in FirstItems :
        /\ items = NewQueue(ts) /\ num = Len(ts) /\ nextId = Len(ts) + 1
        /\ remote \in [ItemId -> FirstRemote \cup {"none"}]
  BY DEF Init
<1>2. ts \in Seq(Template) /\ Len(ts) \in 0 .. MaxItems
  BY QueueAssumption
<1>3. \A i \in 1 .. Len(ts) : NewItem(i, ts[i]) \in Triable
  BY <1>2, NewItemType, ElementOfSeq, QueueAssumption DEF ItemId
<1>4. items \in Seq(Triable) /\ Len(items) = Len(ts)
  BY <1>1, <1>2, <1>3 DEF NewQueue
<1>5. ListInv
  <2>1. state = "IDLE" /\ stop = FALSE /\ src = "none"
    BY DEF Init
  <2>2. Charged /\ CountsAgree /\ num \in Int
    BY <1>1, <1>2, <1>4, <2>1 DEF Charged, CountsAgree
  <2>3. HeadPresent
    BY <2>1 DEF HeadPresent, Headed, FileState, DirectoryState
  <2> QED
    BY <2>1, <2>2, <2>3 DEF ListInv, State, LossBlind
<1>6. SessionInv
  BY NewSessionType DEF Init, SessionInv
<1>7. FileInv
  <2>1. secure = FALSE /\ srcpasv = FALSE /\ mkd = 0 /\ store = FALSE
    BY DEF Init
  <2>2. 0 \in 0 .. MaxMkd
    BY QueueAssumption
  <2> QED
    BY <2>1, <2>2 DEF FileInv
<1>8. WorldInv
  <2>1. remote \in [ItemId -> Size]
    BY <1>1, QueueAssumption DEF Size
  <2>2. alive \in BOOLEAN /\ wire = NoWire
    BY DEF Init
  <2> QED
    BY <2>1, <2>2 DEF WorldInv, NoWire
<1>9. BookInv
  BY <1>1, <1>2, QueueAssumption DEF Init, BookInv
<1> QED
  BY <1>5, <1>6, <1>7, <1>8, <1>9 DEF IInv

\* Every call of queue_process, every event of a session and every command of
\* a user keeps it.
LEMMA IInvNext ==
  ASSUME IInv, Next
  PROVE  IInv'
<1>1. CASE Pass
  <2>1. ListInv' /\ SessionInv'
    BY <1>1, PassList, PassSessions DEF IInv
  <2> QED
    BY <2>1, FileStep, WorldStep, BookStep DEF IInv
<1>2. ASSUME NEW p \in Side, SessionEvent(p)
      PROVE  IInv'
  <2>1. ListInv' /\ SessionInv'
    BY <1>2, EventList, EventSessions DEF IInv
  <2> QED
    BY <2>1, FileStep, WorldStep, BookStep DEF IInv
<1>3. CASE Command2
  <2>1. ListInv' /\ SessionInv'
    BY <1>3, CommandList, CommandSessions DEF IInv
  <2> QED
    BY <2>1, FileStep, WorldStep, BookStep DEF IInv
<1> QED
  BY <1>1, <1>2, <1>3 DEF Next

\* So does a step that changes nothing of the queue.
LEMMA IInvStutter ==
  ASSUME IInv, UNCHANGED vars
  PROVE  IInv'
<1>1. ListInv'
  BY DEF IInv, vars, queueVars, listVars, ListInv, Charged, CountsAgree, HeadPresent
<1>2. SessionInv' /\ FileInv'
  BY DEF IInv, vars, fileVars, SessionInv, FileInv
<1>3. WorldInv' /\ BookInv'
  BY DEF IInv, vars, worldVars, listVars, WorldInv, BookInv
<1> QED
  BY <1>1, <1>2, <1>3 DEF IInv

\* The invariant says what the properties of Queue say, and more.
LEMMA IInvImplies ==
  ASSUME IInv
  PROVE  TypeOK /\ CountsAgree /\ HeadPresent /\ AtMostTwice
<1>1. items \in Seq(Item)
  BY ItemsType DEF IInv, ListInv
<1>2. TypeOK
  BY <1>1 DEF IInv, ListInv, SessionInv, FileInv, WorldInv, BookInv, TypeOK
<1>3. ASSUME NEW i \in DOMAIN items, items[i].soft = 2
      PROVE  i = 1 /\ state = "ERROR_ITEM"
  <2>1. CASE items \in Seq(Triable)
    <3>1. items[i] \in Triable
      BY <2>1, ElementOfSeq
    <3> QED
      BY <1>3, <3>1 DEF Triable
  <2>2. CASE state = "ERROR_ITEM" /\ Tail(items) \in Seq(Triable)
    <3>1. CASE i # 1
      <4>1. i - 1 \in 1 .. Len(Tail(items)) /\ items[i] = Tail(items)[i - 1]
        BY <1>1, <3>1
      <4>2. Tail(items)[i - 1] \in Triable
        BY <2>2, <4>1, ElementOfSeq
      <4> QED
        BY <1>3, <4>1, <4>2 DEF Triable
    <3> QED
      BY <2>2, <3>1
  <2> QED
    BY <2>1, <2>2 DEF IInv, ListInv, Charged
<1> QED
  BY <1>2, <1>3 DEF IInv, ListInv, AtMostTwice

\* IInv is an invariant of a queue, whatever sites it connects, whatever its
\* users send and its servers refuse.
THEOREM Invariance == Spec => []IInv
<1>1. Init => IInv
  BY IInvInit
<1>2. IInv /\ [Next]_vars => IInv'
  BY IInvNext, IInvStutter
<1> QED
  BY <1>1, <1>2, PTL DEF Spec

\* Every variable keeps its type, the sessions' command queues and the items
\* of the list included.
THEOREM TypeCorrect == Spec => []TypeOK
<1>1. IInv => TypeOK
  BY IInvImplies
<1> QED
  BY <1>1, Invariance, PTL

\* num_items, which QUEUE_START, QUEUE_ACTIVE and the search for lost sessions
\* rely on, counts the list, through every insertion, deletion, move, retry and
\* expansion (queue.c:202-218, 314-430, 628-742).
THEOREM CountsAlwaysAgree == Spec => []CountsAgree
<1>1. IInv => CountsAgree
  BY IInvImplies
<1> QED
  BY <1>1, Invariance, PTL

\* queue_process never follows an empty list, nor an unknown source manager,
\* whatever the users delete and move and whichever session is lost
\* (queue->items of queue.c:1071-2667).
THEOREM HeadAlwaysPresent == Spec => []HeadPresent
<1>1. IInv => HeadPresent
  BY IInvImplies
<1> QED
  BY <1>1, Invariance, PTL

\* No item is tried more than twice: an item with two soft errors is the one
\* that the next call puts in the error list (queue.c:2497-2506, 2590-2628).
THEOREM NeverThrice == Spec => []AtMostTwice
<1>1. IInv => AtMostTwice
  BY IInvImplies
<1> QED
  BY <1>1, Invariance, PTL

-----------------------------------------------------------------------------
(***************************************************************************)
(* What the steps of a queue do to its items.  The item that is being      *)
(* transferred stays the first of the queue, whatever the users add,       *)
(* delete and move meanwhile, as long as none of them adds a STOP item     *)
(* (command2.c:1158-1162 is the exception, and command2.c:1228-1231,       *)
(* queue.c:628-742 are the guards).  And the queue implements Ledger: no   *)
(* item is lost, and none is in two places.                                *)
(***************************************************************************)


\* The first of a list is kept by what is done behind it.
LEMMA HeadOfConcat ==
  ASSUME NEW S, NEW q \in Seq(S), NEW r \in Seq(S), q # <<>>
  PROVE  q \o r # <<>> /\ Head(q \o r) = Head(q)
<1>1. Len(q) \in Nat \ {0} /\ Len(r) \in Nat
  BY HeadAndTail
<1>2. /\ q \o r \in Seq(S) /\ Len(q \o r) = Len(q) + Len(r)
      /\ (q \o r)[1] = q[1]
  BY <1>1, ConcatProperties
<1>3. q \o r # <<>>
  BY <1>1, <1>2
<1> QED
  BY <1>1, <1>2, <1>3

\* So it is by an insertion that is not at the front.
LEMMA InsertBehindHead ==
  ASSUME NEW S, NEW q \in Seq(S), NEW x \in S, q # <<>>, NEW pos \in 1 .. Len(q)
  PROVE  Head(InsertAtPos(q, pos, x)) = Head(q)
<1> DEFINE front == SubSeq(q, 1, pos)
           back  == SubSeq(q, pos + 1, Len(q))
<1>1. /\ front \in Seq(S) /\ Len(front) = pos /\ front[1] = q[1]
      /\ back \in Seq(S)
  BY SubSeqProperties, ElementOfSeq
<1>2. front # <<>> /\ Head(front) = Head(q)
  BY <1>1
<1>3. <<x>> \in Seq(S)
  OBVIOUS
<1> HIDE DEF front, back
<1>4. front \o <<x>> \in Seq(S) /\ front \o <<x>> # <<>> /\ Head(front \o <<x>>) = Head(q)
  BY <1>1, <1>2, <1>3, HeadOfConcat, ConcatProperties
<1>5. Head((front \o <<x>>) \o back) = Head(q)
  BY <1>1, <1>4, HeadOfConcat
<1> QED
  BY <1>5 DEF InsertAtPos, front, back

\* And by taking out one of the others.
LEMMA RemoveBehindHead ==
  ASSUME NEW S, NEW q \in Seq(S), q # <<>>, NEW pos \in 1 .. Len(q) - 1
  PROVE  RemoveAtPos(q, pos) # <<>> /\ Head(RemoveAtPos(q, pos)) = Head(q)
<1> DEFINE front == SubSeq(q, 1, pos)
           back  == SubSeq(q, pos + 2, Len(q))
<1>1. /\ front \in Seq(S) /\ Len(front) = pos /\ front[1] = q[1]
      /\ back \in Seq(S)
  BY SubSeqProperties, ElementOfSeq
<1>2. front # <<>> /\ Head(front) = Head(q)
  BY <1>1
<1> HIDE DEF front, back
<1>3. front \o back # <<>> /\ Head(front \o back) = Head(q)
  BY <1>1, <1>2, HeadOfConcat
<1> QED
  BY <1>3 DEF RemoveAtPos, front, back

\* Writing to the first item leaves the new item there.
LEMMA HeadOfSetTop ==
  ASSUME NEW S, items \in Seq(S), items # <<>>, NEW x \in S
  PROVE  Head(SetTop(x)) = x
<1>1. Tail(items) \in Seq(S)
  BY HeadAndTail
<1>2. <<x>> \in Seq(S) /\ <<x>> # <<>> /\ Head(<<x>>) = x
  OBVIOUS
<1> QED
  BY <1>1, <1>2, HeadOfConcat DEF SetTop

\* "LAST", a number that is not zero and "1" in place of zero are behind the
\* first item.
LEMMA PositionBehindHead ==
  ASSUME NEW S, NEW q \in Seq(S), q # <<>>, NEW at, Atoi(at) \in Nat,
         at = Last \/ Atoi(at) > 0
  PROVE  Position(q, at) \in 1 .. Len(q)
<1>1. Len(q) \in Nat \ {0}
  BY HeadAndTail
<1>2. at # First
  BY DEF First, Last, Atoi
<1> QED
  BY <1>1, <1>2 DEF Position

-----------------------------------------------------------------------------
(* No step changes which item is first.                                      *)

\* What a step may do to the list of a queue that works on a file.
SameHead ==
  \/ UNCHANGED items
  \/ \E x \in Item : x.id = Top.id /\ x.type = Top.type /\ items' = SetTop(x)

\* Writing to a field of the first item is such a change.
LEMMA SameHeadKeeps ==
  ASSUME items \in Seq(Item), items # <<>>, SameHead
  PROVE  Head(items').id = Top.id
<1>1. CASE UNCHANGED items
  BY <1>1 DEF Top
<1>2. CASE \E x \in Item : x.id = Top.id /\ x.type = Top.type /\ items' = SetTop(x)
  BY <1>2, HeadOfSetTop
<1> QED
  BY <1>1, <1>2 DEF SameHead

\* The phases of a file write to their item at most.
LEMMA FilePassSameHead ==
  ASSUME ListInv, FilePass
  PROVE  SameHead /\ items # <<>>
<1>a. PICK st \in FileState : In(st)
  BY DEF FilePass, FileStart, Phase1Start, Phase1Idle, Phase2Plain, Phase2Local,
     Phase2Client, Phase2Wait, Phase2Disable, Phase3Start, Phase3Wait, Phase4Start,
     Phase5Start, Phase5RestWait, Phase6Start, Phase7Start, Phase7Wait, Phase8Start,
     Phase8Wait, Phase9Start, Phase9Rest, Phase10Start, Phase10Wait, Phase11Start,
     Phase11Wait, Phase12Start, FileState
<1>0. Top \in Triable /\ Top \in Item /\ items # <<>>
  BY <1>a, InPhase DEF Triable
<1>1. CASE Phase2Disable
  <2>1. Top.sfail \in BOOLEAN /\ Top.dfail \in BOOLEAN
    BY <1>0 DEF Item
  <2>2. /\ (Top.sfail \/ Demands(SrcSite)) \in BOOLEAN
        /\ (Top.dfail \/ Demands(DstSite)) \in BOOLEAN
    OBVIOUS
  <2>3. \A a, b \in BOOLEAN : /\ [Top EXCEPT !.sfail = a, !.dfail = b] \in Item
                              /\ [Top EXCEPT !.sfail = a, !.dfail = b].id = Top.id
                              /\ [Top EXCEPT !.sfail = a, !.dfail = b].type = Top.type
    <3>1. TAKE a, b \in BOOLEAN
    <3>2. [Top EXCEPT !.sfail = a, !.dfail = b] \in Item
      BY <1>0, FailuresType DEF Triable
    <3>3. /\ [Top EXCEPT !.sfail = a, !.dfail = b].id = Top.id
          /\ [Top EXCEPT !.sfail = a, !.dfail = b].type = Top.type
      BY <1>0 DEF Item
    <3> QED
      BY <3>2, <3>3
  <2> DEFINE x == [Top EXCEPT !.sfail = @ \/ Demands(SrcSite),
                              !.dfail = @ \/ Demands(DstSite)]
  <2>4. x \in Item /\ x.id = Top.id /\ x.type = Top.type
    BY <2>2, <2>3
  <2>5. items' = SetTop(x)
    BY <1>1 DEF Phase2Disable
  <2> QED
    BY <1>0, <2>4, <2>5 DEF SameHead
<1>2. CASE Phase5RestWait
  <2>1. /\ [Top EXCEPT !.requeued = TRUE] \in Item /\ [Top EXCEPT !.rest = TRUE] \in Item
        /\ [Top EXCEPT !.requeued = TRUE].id = Top.id
        /\ [Top EXCEPT !.rest = TRUE].id = Top.id
        /\ [Top EXCEPT !.requeued = TRUE].type = Top.type
        /\ [Top EXCEPT !.rest = TRUE].type = Top.type
    BY <1>0 DEF Item
  <2> QED
    BY <1>0, <1>2, <2>1 DEF Phase5RestWait, SameHead
<1>3. CASE Phase10Start
  <2>1. [Top EXCEPT !.sxfer = 0, !.dxfer = 0] \in Item
    BY <1>0, CountersType DEF Triable
  <2>2. /\ [Top EXCEPT !.sxfer = 0, !.dxfer = 0].id = Top.id
        /\ [Top EXCEPT !.sxfer = 0, !.dxfer = 0].type = Top.type
    BY <1>0 DEF Item
  <2> QED
    BY <1>0, <1>3, <2>1, <2>2 DEF Phase10Start, SameHead
<1>4. CASE ~(Phase2Disable \/ Phase5RestWait \/ Phase10Start)
  <2>1. UNCHANGED items
    BY <1>4 DEF FilePass, FileStart, Phase1Start, Phase1Idle, Phase2Plain,
       Phase2Local, Phase2Client, Phase2Wait, Phase3Start, Phase3Wait, Phase4Start,
       Phase5Start, Phase6Start, Phase7Start, Phase7Wait, Phase8Start, Phase8Wait,
       Phase9Start, Phase9Rest, Phase10Wait, Phase11Start, Phase11Wait, Phase12Start,
       listVars
  <2> QED
    BY <1>0, <2>1 DEF SameHead
<1> QED
  BY <1>1, <1>2, <1>3, <1>4

\* The calls of queue_process that stay with a file.
LEMMA PassSameHead ==
  ASSUME ListInv, Pass, state \in FileState, state' \in FileState
  PROVE  SameHead
<1>1. CASE Waiting
  BY <1>1 DEF Waiting, listVars, SameHead
<1>2. CASE FilePass
  BY <1>2, FilePassSameHead
<1>3. CASE DirectoryPass
  <2>1. PICK st \in DirectoryState : In(st)
    BY <1>3 DEF DirectoryPass, DirectoryState, DirectoryStart, DirectoryPhase1Idle,
       DirectoryPhase2Start, DirectoryPhase2Mkd, DirectoryPhase2Compare
  <2>2. state \in DirectoryState
    BY <2>1, InState DEF DirectoryState
  <2> QED
    BY <2>2 DEF FileState, DirectoryState
<1>4. CASE ItemFailed
  BY <1>4 DEF ItemFailed, FileState
<1>5. CASE Start \/ IsConnected \/ StartNextItem \/ ActiveEnd \/ Active \/ RequeueItem
           \/ ErrorItem \/ RemoveItem \/ Empty \/ Idle
  <2>1. PICK st \in {"START", "ISCONNECTED", "START_NEXT_ITEM", "ACTIVE", "REQUEUE_ITEM",
                     "ERROR_ITEM", "REMOVE_ITEM", "EMPTY", "IDLE"} : In(st)
    BY <1>5 DEF Start, IsConnected, StartNextItem, ActiveEnd, Active, RequeueItem,
       ErrorItem, RemoveItem, Empty, Idle
  <2>2. state = st
    BY <2>1, InState
  <2> QED
    BY <2>2 DEF FileState
<1> QED
  BY <1>1, <1>2, <1>3, <1>4, <1>5 DEF Pass

\* The events of sessions write to the first item at most.
LEMMA EventSameHead ==
  ASSUME ListInv, SessionInv, WorldInv, NEW p \in Side, SessionEvent(p), items # <<>>
  PROVE  SameHead
<1>0. Top \in Triable /\ Top \in Item
  BY PollingItems DEF SessionEvent, Login, Reply, TransferEnd, ListingEnd, DataLine,
     DataClosed, Lost, Listing, Polling, Triable
<1>1. CASE Reply(p)
  <2>1. UNCHANGED items \/ \E ev, code : items' = SetTop(TopAfter(ev, code))
    BY <1>1 DEF Reply, Die, listVars
  <2>2. \A ev, code : TopAfter(ev, code) \in Item /\ TopAfter(ev, code).id = Top.id
                       /\ TopAfter(ev, code).type = Top.type
    <3>1. TAKE ev, code
    <3>2. TopAfter(ev, code) \in Item
      BY <1>0, TopAfterType DEF WorldInv, Triable
    <3>3. TopAfter(ev, code).id = Top.id /\ TopAfter(ev, code).type = Top.type
      BY <1>0 DEF TopAfter, Item
    <3> QED
      BY <3>2, <3>3
  <2> QED
    BY <2>1, <2>2 DEF SameHead
<1>2. CASE TransferEnd(p) \/ DataClosed(p)
  <2>1. sess[p].replyId \in ReplyId
    BY DEF SessionInv, SessionRec
  <2>2. UNCHANGED items \/ \E code : items' = SetTop(Second(sess[p].replyId, code))
    <3>1. CASE TransferEnd(p)
      BY <3>1 DEF TransferEnd, Die, listVars
    <3>2. CASE DataClosed(p)
      BY <3>2 DEF DataClosed, Die, listVars
    <3> QED
      BY <1>2, <3>1, <3>2
  <2>3. \A id \in ReplyId : \A code : Second(id, code) \in Item /\ Second(id, code).id = Top.id
                                          /\ Second(id, code).type = Top.type
    <3>0. TAKE id \in ReplyId
    <3>1. TAKE code
    <3>2. Second(id, code) \in Item
      BY <1>0, SecondType DEF Triable
    <3>3. Second(id, code).id = Top.id /\ Second(id, code).type = Top.type
      BY <1>0 DEF Second, Item, ReplyId
    <3> QED
      BY <3>2, <3>3
  <2> QED
    BY <2>1, <2>2, <2>3 DEF SameHead
<1>3. CASE Login(p) \/ ListingEnd(p) \/ DataLine(p) \/ Lost(p)
  BY <1>3 DEF Login, ListingEnd, DataLine, Lost, listVars, SameHead
<1> QED
  BY <1>1, <1>2, <1>3 DEF SessionEvent

\* The users' commands work behind the first item of a queue at work.
LEMMA CommandKeepsHead ==
  ASSUME ListInv, BookInv, Command2, state \in FileState,
         \A t \in NewItems : t.type # "STOP"
  PROVE  Head(items') = Top
<1>0. items # <<>> /\ items \in Seq(Triable) /\ state # "IDLE" /\ Len(items) \in Nat \ {0}
  <2>1. items # <<>>
    BY DEF ListInv, HeadPresent, Headed
  <2>2. state # "IDLE" /\ state # "ERROR_ITEM"
    BY DEF FileState
  <2>3. items \in Seq(Triable)
    BY <2>2 DEF ListInv, Charged
  <2> QED
    BY <2>1, <2>2, <2>3, HeadAndTail
<1>a. \A at \in AtChoices : Atoi(at) \in Nat
  BY QueueAssumption DEF At, Absent, Atoi
<1>1. CASE Go \/ Stop \/ StopDrop
  BY <1>1 DEF Go, Stop, StopDrop, listVars, Top
<1>2. CASE \E t \in NewItems, at \in AtChoices : QAdd(t, at)
  <2>1. PICK t \in NewItems, at \in AtChoices : QAdd(t, at)
    BY <1>2
  <2> DEFINE x == NewItem(nextId, t)
             to == Place(t, at)
  <2>2. x \in Triable
    BY <2>1, NewItemType, QueueAssumption DEF QAdd, BookInv, ItemId
  <2>3. Atoi(to) \in Nat /\ (to = Last \/ Atoi(to) > 0)
    BY <1>0, <1>a, <2>1 DEF Place, Atoi, Last, Nth
  <2>4. items' = InsertAtPos(items, Position(items, to), x)
    BY <2>1 DEF QAdd, Insert
  <2> HIDE DEF x, to
  <2>5. Position(items, to) \in 1 .. Len(items)
    BY <1>0, <2>3, PositionBehindHead
  <2> QED
    BY <1>0, <2>2, <2>4, <2>5, InsertBehindHead DEF Top
<1>3. CASE \E pos \in 0 .. MaxItems - 1 : QDel(pos)
  <2>1. PICK pos \in 0 .. MaxItems - 1 : QDel(pos)
    BY <1>3
  <2>2. pos \in 1 .. Len(items) - 1 /\ items' = RemoveAtPos(items, pos)
    BY <1>0, <2>1, QueueAssumption DEF QDel
  <2> QED
    BY <1>0, <2>2, RemoveBehindHead DEF Top
<1>4. CASE \E from \in 0 .. MaxItems - 1 : \E to \in AtChoices : QMove(from, to)
  <2>1. PICK from \in 0 .. MaxItems - 1, to \in AtChoices : QMove(from, to)
    BY <1>4
  <2> DEFINE at == IF state # "IDLE" /\ Atoi(to) = 0 THEN Nth(1) ELSE to
             r == RemoveAtPos(items, from)
             x == items[from + 1]
  <2>2. from \in 1 .. Len(items) - 1 /\ from \in 0 .. Len(items) - 1
    BY <1>0, <2>1, QueueAssumption DEF QMove
  <2>3. x \in Triable
    BY <1>0, <2>2, ElementOfSeq
  <2>4. r \in Seq(Triable) /\ r # <<>> /\ Head(r) = Top
    BY <1>0, <2>2, RemoveKeeps, RemoveBehindHead DEF Top
  <2>5. Atoi(at) \in Nat /\ Atoi(at) > 0
    BY <1>0, <1>a, <2>1 DEF Atoi, Nth
  <2>6. items' = InsertAtPos(r, Position(r, at), x)
    BY <2>1 DEF QMove, Insert
  <2> HIDE DEF r, x, at
  <2>7. Position(r, at) \in 1 .. Len(r)
    BY <2>4, <2>5, PositionBehindHead
  <2> QED
    BY <2>3, <2>4, <2>6, <2>7, InsertBehindHead
<1> QED
  BY <1>1, <1>2, <1>3, <1>4 DEF Command2

\* "Stop them from inserting at pos = 0 if we are active." (command2.c:1228):
\* as long as no user adds a STOP item, the item that is being transferred
\* stays the first of the queue, so that replies are charged to it.
THEOREM HeadStaysFirst ==
  ASSUME \A t \in NewItems : t.type # "STOP"
  PROVE  Spec => HeadStable
<1> DEFINE Stays == (state \in FileState /\ state' \in FileState) => (Head(items').id = Top.id)
<1>1. IInv /\ [Next]_vars => [Stays]_vars
  <2> SUFFICES ASSUME IInv, Next, state \in FileState, state' \in FileState
               PROVE  Head(items').id = Top.id
    OBVIOUS
  <2>0. items # <<>> /\ items \in Seq(Item)
    BY ItemsType DEF IInv, ListInv, HeadPresent, Headed
  <2>1. CASE Pass
    BY <2>0, <2>1, PassSameHead, SameHeadKeeps DEF IInv
  <2>2. ASSUME NEW p \in Side, SessionEvent(p)
        PROVE  Head(items').id = Top.id
    BY <2>0, <2>2, EventSameHead, SameHeadKeeps DEF IInv
  <2>3. CASE Command2
    BY <2>3, CommandKeepsHead DEF IInv
  <2> QED
    BY <2>1, <2>2, <2>3 DEF Next
<1> QED
  BY <1>1, Invariance, PTL DEF Spec, HeadStable

-----------------------------------------------------------------------------
(* The ids of a list.                                                        *)

\* No two items of a list have the same id.
Distinct(q) == \A i, j \in DOMAIN q : q[i].id = q[j].id => i = j

\* Where the items of two lists are in the list of both.
LEMMA Joined ==
  ASSUME NEW S, NEW q \in Seq(S), NEW r \in Seq(S)
  PROVE  /\ q \o r \in Seq(S) /\ Len(q \o r) = Len(q) + Len(r)
         /\ \A i \in 1 .. Len(q) : (q \o r)[i] = q[i]
         /\ \A i \in 1 .. Len(r) : (q \o r)[Len(q) + i] = r[i]
<1>1. Len(q) \in Nat /\ Len(r) \in Nat
  OBVIOUS
<1>2. ASSUME NEW i \in 1 .. Len(q) PROVE (q \o r)[i] = q[i]
  BY <1>1, ConcatProperties
<1>3. ASSUME NEW i \in 1 .. Len(r) PROVE (q \o r)[Len(q) + i] = r[i]
  <2>1. Len(q) + i \in 1 .. Len(q) + Len(r) /\ ~(Len(q) + i <= Len(q))
        /\ Len(q) + i - Len(q) = i
    BY <1>1
  <2> QED
    BY <2>1, ConcatProperties
<1> QED
  BY <1>2, <1>3, ConcatProperties

\* Where an insertion leaves each item.
LEMMA InsertedAt ==
  ASSUME NEW S, NEW q \in Seq(S), NEW x \in S, NEW pos \in 0 .. Len(q)
  PROVE  /\ DOMAIN InsertAtPos(q, pos, x) = 1 .. Len(q) + 1
         /\ \A i \in 1 .. pos : InsertAtPos(q, pos, x)[i] = q[i]
         /\ InsertAtPos(q, pos, x)[pos + 1] = x
         /\ \A i \in pos + 1 .. Len(q) : InsertAtPos(q, pos, x)[i + 1] = q[i]
<1> DEFINE front == SubSeq(q, 1, pos)
           back  == SubSeq(q, pos + 1, Len(q))
           begin == front \o <<x>>
<1>0. Len(q) \in Nat
  OBVIOUS
<1>1. front \in Seq(S) /\ Len(front) = pos /\ \A i \in 1 .. pos : front[i] = q[i]
  BY SubSeqProperties, ElementOfSeq
<1>2. /\ back \in Seq(S) /\ Len(back) = Len(q) - pos
      /\ \A i \in 1 .. Len(q) - pos : back[i] = q[pos + i]
  BY SubSeqProperties, ElementOfSeq
<1>3. <<x>> \in Seq(S) /\ Len(<<x>>) = 1 /\ <<x>>[1] = x
  OBVIOUS
<1> HIDE DEF front, back
<1>4. /\ begin \in Seq(S) /\ Len(begin) = pos + 1 /\ begin[pos + 1] = x
      /\ \A i \in 1 .. pos : begin[i] = q[i]
  BY <1>1, <1>3, Joined
<1> HIDE DEF begin
<1>5. /\ begin \o back \in Seq(S) /\ Len(begin \o back) = Len(q) + 1
      /\ \A i \in 1 .. pos + 1 : (begin \o back)[i] = begin[i]
      /\ \A i \in 1 .. Len(q) - pos : (begin \o back)[pos + 1 + i] = back[i]
  BY <1>0, <1>2, <1>4, Joined
<1>6. \A i \in pos + 1 .. Len(q) : (begin \o back)[i + 1] = q[i]
  <2>1. TAKE i \in pos + 1 .. Len(q)
  <2>2. i - pos \in 1 .. Len(q) - pos /\ pos + 1 + (i - pos) = i + 1 /\ pos + (i - pos) = i
    BY <1>0
  <2>3. (begin \o back)[i + 1] = back[i - pos] /\ back[i - pos] = q[i]
    BY <1>2, <1>5, <2>2
  <2> QED
    BY <2>3
<1>7. InsertAtPos(q, pos, x) = begin \o back
  BY DEF InsertAtPos, front, back, begin
<1>8. DOMAIN (begin \o back) = 1 .. Len(q) + 1
  BY <1>5, LenProperties
<1> QED
  BY <1>0, <1>4, <1>5, <1>6, <1>7, <1>8

\* And taking an item out.
LEMMA RemovedAt ==
  ASSUME NEW S, NEW q \in Seq(S), NEW pos \in 0 .. Len(q) - 1
  PROVE  /\ DOMAIN RemoveAtPos(q, pos) = 1 .. Len(q) - 1
         /\ \A i \in 1 .. pos : RemoveAtPos(q, pos)[i] = q[i]
         /\ \A i \in pos + 1 .. Len(q) - 1 : RemoveAtPos(q, pos)[i] = q[i + 1]
<1> DEFINE front == SubSeq(q, 1, pos)
           back  == SubSeq(q, pos + 2, Len(q))
<1>0. Len(q) \in Nat
  OBVIOUS
<1>1. front \in Seq(S) /\ Len(front) = pos /\ \A i \in 1 .. pos : front[i] = q[i]
  BY SubSeqProperties, ElementOfSeq
<1>2. /\ back \in Seq(S) /\ Len(back) = Len(q) - pos - 1
      /\ \A i \in 1 .. Len(q) - pos - 1 : back[i] = q[pos + 1 + i]
  BY SubSeqProperties, ElementOfSeq
<1> HIDE DEF front, back
<1>3. /\ front \o back \in Seq(S) /\ Len(front \o back) = Len(q) - 1
      /\ \A i \in 1 .. pos : (front \o back)[i] = front[i]
      /\ \A i \in 1 .. Len(q) - pos - 1 : (front \o back)[pos + i] = back[i]
  <2>1. front \in Seq(S) /\ back \in Seq(S)
    BY <1>1, <1>2
  <2>2. /\ front \o back \in Seq(S) /\ Len(front \o back) = Len(front) + Len(back)
        /\ \A i \in 1 .. Len(front) : (front \o back)[i] = front[i]
        /\ \A i \in 1 .. Len(back) : (front \o back)[Len(front) + i] = back[i]
    BY <2>1, Joined
  <2> QED
    BY <1>0, <1>1, <1>2, <2>2
<1>4. \A i \in pos + 1 .. Len(q) - 1 : (front \o back)[i] = q[i + 1]
  <2>1. TAKE i \in pos + 1 .. Len(q) - 1
  <2>2. i - pos \in 1 .. Len(q) - pos - 1 /\ pos + (i - pos) = i /\ pos + 1 + (i - pos) = i + 1
    BY <1>0
  <2>3. (front \o back)[i] = back[i - pos] /\ back[i - pos] = q[i + 1]
    BY <1>2, <1>3, <2>2
  <2> QED
    BY <2>3
<1>5. RemoveAtPos(q, pos) = front \o back
  BY DEF RemoveAtPos, front, back
<1>6. DOMAIN (front \o back) = 1 .. Len(q) - 1
  BY <1>3, LenProperties
<1> QED
  BY <1>1, <1>3, <1>4, <1>5, <1>6

\* An insertion adds one id, and keeps ids apart.
LEMMA InsertIds ==
  ASSUME NEW S, NEW q \in Seq(S), NEW x \in S, NEW pos \in 0 .. Len(q)
  PROVE  /\ Ids(InsertAtPos(q, pos, x)) = Ids(q) \cup {x.id}
         /\ Distinct(q) /\ x.id \notin Ids(q) => Distinct(InsertAtPos(q, pos, x))
<1> DEFINE r == InsertAtPos(q, pos, x)
           from(i) == IF i <= pos THEN i ELSE i - 1
<1>1. Len(q) \in Nat /\ DOMAIN q = 1 .. Len(q)
  BY LenProperties
<1>2. DOMAIN r = 1 .. Len(q) + 1 /\ r[pos + 1] = x
  BY InsertedAt
<1>3. \A i \in DOMAIN r \ {pos + 1} : from(i) \in DOMAIN q /\ r[i] = q[from(i)]
  <2>1. TAKE i \in DOMAIN r \ {pos + 1}
  <2>2. CASE i <= pos
    BY <1>1, <1>2, <2>2, InsertedAt
  <2>3. CASE i > pos
    <3>1. i - 1 \in pos + 1 .. Len(q) /\ (i - 1) + 1 = i /\ from(i) = i - 1
      BY <1>1, <1>2, <2>3
    <3>2. r[(i - 1) + 1] = q[i - 1]
      BY <3>1, InsertedAt
    <3> QED
      BY <1>1, <3>1, <3>2
  <2> QED
    BY <1>2, <2>2, <2>3
<1>4. \A j \in DOMAIN q : \E i \in DOMAIN r : r[i] = q[j]
  <2>1. TAKE j \in DOMAIN q
  <2>2. CASE j <= pos
    <3>1. j \in DOMAIN r /\ j \in 1 .. pos
      BY <1>1, <1>2, <2>2
    <3>2. r[j] = q[j]
      BY <3>1, InsertedAt
    <3> QED
      BY <3>1, <3>2
  <2>3. CASE j > pos
    <3>1. j + 1 \in DOMAIN r /\ j \in pos + 1 .. Len(q)
      BY <1>1, <1>2, <2>3
    <3>2. r[j + 1] = q[j]
      BY <3>1, InsertedAt
    <3> QED
      BY <3>1, <3>2
  <2> QED
    BY <1>1, <2>2, <2>3
<1>5. pos + 1 \in DOMAIN r
  BY <1>1, <1>2
<1>6. \A i, j \in DOMAIN r \ {pos + 1} : from(i) = from(j) => i = j
  BY <1>1, <1>2
<1> HIDE DEF r, from
<1>7. Ids(r) = Ids(q) \cup {x.id}
  BY <1>2, <1>3, <1>4, <1>5 DEF Ids
<1>8. ASSUME Distinct(q), x.id \notin Ids(q) PROVE Distinct(r)
  <2>1. SUFFICES ASSUME NEW i \in DOMAIN r, NEW j \in DOMAIN r, r[i].id = r[j].id
                 PROVE  i = j
    BY DEF Distinct
  <2>2. \A k \in DOMAIN r \ {pos + 1} : r[k].id \in Ids(q)
    BY <1>3 DEF Ids
  <2>3. CASE i # pos + 1 /\ j # pos + 1
    BY <1>3, <1>6, <1>8, <2>1, <2>3 DEF Distinct
  <2>4. CASE i = pos + 1 \/ j = pos + 1
    BY <1>2, <1>8, <2>1, <2>2, <2>4
  <2> QED
    BY <2>3, <2>4
<1> QED
  BY <1>7, <1>8 DEF r

\* Taking an item out takes its id, and keeps the others apart.
LEMMA RemoveIds ==
  ASSUME NEW S, NEW q \in Seq(S), NEW pos \in 0 .. Len(q) - 1, Distinct(q)
  PROVE  /\ Ids(RemoveAtPos(q, pos)) = Ids(q) \ {q[pos + 1].id}
         /\ Distinct(RemoveAtPos(q, pos)) /\ q[pos + 1].id \in Ids(q)
<1> DEFINE r == RemoveAtPos(q, pos)
           from(i) == IF i <= pos THEN i ELSE i + 1
<1>1. Len(q) \in Nat /\ DOMAIN q = 1 .. Len(q) /\ pos + 1 \in DOMAIN q
  BY LenProperties
<1>2. DOMAIN r = 1 .. Len(q) - 1
  BY RemovedAt
<1>3. \A i \in DOMAIN r : from(i) \in DOMAIN q \ {pos + 1} /\ r[i] = q[from(i)]
  BY <1>1, <1>2, RemovedAt
<1>4. \A j \in DOMAIN q \ {pos + 1} : \E i \in DOMAIN r : r[i] = q[j]
  <2>1. TAKE j \in DOMAIN q \ {pos + 1}
  <2>2. CASE j <= pos
    BY <1>1, <1>2, <2>2, RemovedAt
  <2>3. CASE j > pos
    <3>1. j - 1 \in DOMAIN r /\ j - 1 \in pos + 1 .. Len(q) - 1 /\ (j - 1) + 1 = j
      BY <1>1, <1>2, <2>3
    <3>2. r[j - 1] = q[(j - 1) + 1]
      BY <3>1, RemovedAt
    <3> QED
      BY <3>1, <3>2
  <2> QED
    BY <1>1, <2>2, <2>3
<1>5. \A i, j \in DOMAIN r : from(i) = from(j) => i = j
  BY <1>1, <1>2
<1> HIDE DEF r, from
<1>6. Distinct(r)
  BY <1>3, <1>5 DEF Distinct
<1>7. Ids(r) = Ids(q) \ {q[pos + 1].id}
  BY <1>1, <1>3, <1>4 DEF Ids, Distinct
<1>8. q[pos + 1].id \in Ids(q)
  BY <1>1 DEF Ids
<1> QED
  BY <1>6, <1>7, <1>8 DEF r

\* The same of the first item.
LEMMA TailIds ==
  ASSUME NEW S, NEW q \in Seq(S), q # <<>>, Distinct(q)
  PROVE  /\ Ids(Tail(q)) = Ids(q) \ {Head(q).id}
         /\ Distinct(Tail(q)) /\ Head(q).id \in Ids(q)
<1>1. /\ Len(q) \in Nat \ {0} /\ DOMAIN q = 1 .. Len(q) /\ Head(q) = q[1]
      /\ Tail(q) \in Seq(S) /\ Len(Tail(q)) = Len(q) - 1
  BY HeadAndTail, LenProperties
<1>2. \A i \in 1 .. Len(q) - 1 : Tail(q)[i] = q[i + 1]
  BY HeadTailProperties
<1>3. 0 \in 0 .. Len(q) - 1
  BY <1>1
<1>4. RemoveAtPos(q, 0) \in Seq(S) /\ Len(RemoveAtPos(q, 0)) = Len(q) - 1
  BY <1>3, RemoveKeeps
<1>5. \A i \in 1 .. Len(q) - 1 : RemoveAtPos(q, 0)[i] = q[i + 1]
  BY <1>3, RemovedAt
<1>6. Tail(q) = RemoveAtPos(q, 0)
  BY <1>1, <1>2, <1>4, <1>5, SeqEqual
<1>7. q[0 + 1] = Head(q)
  BY <1>1
<1>8. /\ Ids(RemoveAtPos(q, 0)) = Ids(q) \ {q[0 + 1].id}
      /\ Distinct(RemoveAtPos(q, 0)) /\ q[0 + 1].id \in Ids(q)
  BY <1>3, RemoveIds
<1> QED
  BY <1>6, <1>7, <1>8

\* Writing to the first item keeps the ids.
LEMMA SetTopIds ==
  ASSUME items \in Seq(Item), items # <<>>, NEW x \in Item, x.id = Top.id
  PROVE  Ids(SetTop(x)) = Ids(items) /\ (Distinct(items) => Distinct(SetTop(x)))
<1>1. /\ SetTop(x) \in Seq(Item) /\ Len(SetTop(x)) = Len(items) /\ Len(items) \in Nat \ {0}
      /\ Head(SetTop(x)) = x /\ Tail(SetTop(x)) = Tail(items) /\ SetTop(x) # <<>>
  BY SetTopKeeps, SetTopSplits, HeadAndTail
<1>2. DOMAIN SetTop(x) = 1 .. Len(items) /\ DOMAIN items = 1 .. Len(items)
  BY <1>1, LenProperties
<1>3. \A i \in 1 .. Len(items) : SetTop(x)[i].id = items[i].id
  <2>1. TAKE i \in 1 .. Len(items)
  <2>2. CASE i = 1
    BY <1>1, <2>2 DEF Top
  <2>3. CASE i # 1
    <3>1. i - 1 \in 1 .. Len(items) - 1 /\ (i - 1) + 1 = i
      BY <1>1, <2>3
    <3>2. /\ Tail(items)[i - 1] = items[(i - 1) + 1]
          /\ Tail(SetTop(x))[i - 1] = SetTop(x)[(i - 1) + 1]
      BY <1>1, <3>1, HeadTailProperties
    <3> QED
      BY <1>1, <3>1, <3>2
  <2> QED
    BY <2>2, <2>3
<1> QED
  BY <1>2, <1>3 DEF Ids, Distinct

-----------------------------------------------------------------------------
(* The ledger.                                                               *)

\* What the queue's books need to balance, besides IInv: an id is in the list
\* once, and a new item has an id that no item had before.
LedgerInv ==
  /\ Distinct(items)
  /\ \A i \in Ids(items) \cup errs \cup done \cup gone : i < nextId

\* The ids of a list of items are ids of items.
LEMMA IdsType ==
  ASSUME NEW q \in Seq(Item)
  PROVE  Ids(q) \subseteq ItemId
<1>1. \A i \in DOMAIN q : q[i] \in Item
  BY ElementOfSeq, LenProperties
<1> QED
  BY <1>1 DEF Ids, Item

\* Ledger counts its items like the modules here count theirs.
LEMMA SameCount ==
  ASSUME NEW S
  PROVE  L!IsFiniteSet(S) = IsFiniteSet(S) /\ L!Cardinality(S) = Cardinality(S)
BY DEF L!IsFiniteSet, L!Cardinality, IsFiniteSet, Cardinality

\* Every id that the books hold is a number below the next.
LEMMA BooksType ==
  ASSUME items \in Seq(Item), BookInv, LedgerInv
  PROVE  /\ nextId \in Nat
         /\ \A i \in Ids(items) \cup errs \cup done \cup gone : i \in Nat /\ i < nextId
<1>1. nextId \in Nat
  BY DEF BookInv
<1>2. Ids(items) \cup errs \cup done \cup gone \subseteq ItemId
  BY IdsType DEF BookInv
<1>3. ItemId \subseteq Nat
  BY DEF ItemId
<1> QED
  BY <1>1, <1>2, <1>3 DEF LedgerInv

\* A step that only writes to the item that is first leaves the books alone.
LEMMA SameHeadIds ==
  ASSUME items \in Seq(Item), LedgerInv, SameHead, UNCHANGED items \/ items # <<>>,
         UNCHANGED <<errs, done, gone, nextId>>
  PROVE  UNCHANGED L!vars /\ LedgerInv'
<1>1. Ids(items') = Ids(items) /\ Len(items') = Len(items) /\ Distinct(items')
  <2>1. CASE UNCHANGED items
    BY <2>1 DEF LedgerInv
  <2>2. CASE items' # items
    <3>1. PICK x \in Item : x.id = Top.id /\ items' = SetTop(x)
      BY <2>2 DEF SameHead
    <3> QED
      BY <2>2, <3>1, SetTopIds, SetTopKeeps DEF LedgerInv
  <2> QED
    BY <2>1, <2>2
<1> QED
  BY <1>1 DEF L!vars, LedgerInv

\* What leaves the list, by a pop or a deletion, leaves its books in order.
LEMMA LeavingIds ==
  ASSUME LedgerInv, NEW i, i \in Ids(items), Distinct(items'),
         Ids(items') = Ids(items) \ {i}, UNCHANGED nextId,
         \/ errs' = errs \cup {i} /\ UNCHANGED <<done, gone>>
         \/ done' = done \cup {i} /\ UNCHANGED <<errs, gone>>
         \/ gone' = gone \cup {i} /\ UNCHANGED <<errs, done>>
  PROVE  LedgerInv'
<1>1. Ids(items') \cup errs' \cup done' \cup gone' \subseteq
        Ids(items) \cup errs \cup done \cup gone
  OBVIOUS
<1> QED
  BY <1>1 DEF LedgerInv

\* A directory becomes its entries, which get ids of their own.
LEMMA ExpandedIds ==
  ASSUME NEW q \in Seq(Triable), NEW kids \in KidLists, nextId \in 1 .. MaxItems + 1,
         kids # <<>> => nextId + Len(kids) - 1 <= MaxItems,
         Distinct(q), \A i \in Ids(q) : i < nextId
  PROVE  /\ Distinct(Expanded(q, kids))
         /\ Ids(Expanded(q, kids)) = Ids(q) \cup (nextId .. nextId + Len(kids) - 1)
<1> DEFINE kid(i) == NewItem(nextId + i - 1, kids[i])
<1>1. PICK n \in 0 .. MaxKids : kids \in [1 .. n -> {t \in NewItems : Kid(t)}]
  BY DEF KidLists
<1>2. n \in 0 .. 2 /\ Len(kids) = n /\ \A i \in 1 .. n : kids[i] \in Template
  BY <1>1, QueueAssumption, LenProperties
<1>3. \A i \in 1 .. n : kid(i) \in Triable /\ kid(i).id = nextId + i - 1
  <2>1. TAKE i \in 1 .. n
  <2>2. nextId + i - 1 \in ItemId
    BY <1>1, <1>2, QueueAssumption DEF ItemId
  <2>3. kid(i) \in Triable
    BY <1>2, <2>2, NewItemType
  <2> QED
    BY <2>3 DEF NewItem
<1> HIDE DEF kid
<1>4. ASSUME NEW r \in Seq(Triable), NEW x \in Triable, Distinct(r), x.id \notin Ids(r)
      PROVE  Distinct(ExpandOne(r, x)) /\ Ids(ExpandOne(r, x)) = Ids(r) \cup {x.id}
  <2>1. Atoi(ExpansionAt(r, x)) \in Nat
    BY SearchInList DEF ExpansionAt, Atoi, First, Default, Nth
  <2>2. Position(r, ExpansionAt(r, x)) \in 0 .. Len(r)
    BY <2>1, PositionInList
  <2> QED
    BY <1>4, <2>2, InsertIds DEF ExpandOne, Insert
<1>5. CASE n = 0
  <2>1. Expanded(q, kids) = q
    BY <1>2, <1>5 DEF Expanded
  <2>2. nextId .. nextId + Len(kids) - 1 = {}
    BY <1>2, <1>5
  <2> QED
    BY <2>1, <2>2
<1>6. CASE n = 1
  <2>1. Expanded(q, kids) = ExpandOne(q, kid(1))
    BY <1>2, <1>6 DEF Expanded, kid
  <2>2. kid(1) \in Triable /\ kid(1).id = nextId /\ nextId \notin Ids(q)
    BY <1>3, <1>6
  <2>3. nextId .. nextId + Len(kids) - 1 = {nextId}
    BY <1>2, <1>6
  <2> QED
    BY <1>4, <2>1, <2>2, <2>3
<1>7. CASE n = 2
  <2> DEFINE r == ExpandOne(q, kid(1))
  <2>1. Expanded(q, kids) = ExpandOne(r, kid(2))
    BY <1>2, <1>7 DEF Expanded, kid
  <2>2. /\ kid(1) \in Triable /\ kid(1).id = nextId /\ nextId \notin Ids(q)
        /\ kid(2) \in Triable /\ kid(2).id = nextId + 1 /\ nextId + 1 \notin Ids(q)
    BY <1>3, <1>7
  <2>3. r \in Seq(Triable) /\ Distinct(r) /\ Ids(r) = Ids(q) \cup {nextId}
    BY <1>4, <2>2, ExpandOneKeeps
  <2>4. kid(2).id \notin Ids(r)
    BY <2>2, <2>3
  <2> HIDE DEF r
  <2>5. /\ Distinct(ExpandOne(r, kid(2)))
        /\ Ids(ExpandOne(r, kid(2))) = Ids(q) \cup {nextId} \cup {nextId + 1}
    BY <1>4, <2>2, <2>3, <2>4
  <2>6. nextId .. nextId + Len(kids) - 1 = {nextId} \cup {nextId + 1}
    BY <1>2, <1>7
  <2> QED
    BY <2>1, <2>5, <2>6
<1> QED
  BY <1>2, <1>5, <1>6, <1>7

\* The calls of queue_process: an item is finished, has failed, is expanded or
\* stays in the list.
LEMMA PassLedger ==
  ASSUME ListInv, BookInv, LedgerInv, Pass
  PROVE  [L!Next]_(L!vars) /\ LedgerInv'
<1>0. items \in Seq(Item) /\ Ids(items) \subseteq ItemId
  BY ItemsType, IdsType DEF ListInv
<1>u. ASSUME SameHead, UNCHANGED items \/ items # <<>>, UNCHANGED <<errs, done, gone, nextId>>
      PROVE  [L!Next]_(L!vars) /\ LedgerInv'
  BY <1>0, <1>u, SameHeadIds
<1>p. ASSUME items # <<>>, items' = Tail(items), UNCHANGED nextId,
             \/ errs' = errs \cup {Top.id} /\ UNCHANGED <<done, gone>>
             \/ done' = done \cup {Top.id} /\ UNCHANGED <<errs, gone>>
      PROVE  [L!Next]_(L!vars) /\ LedgerInv'
  <2>1. /\ Ids(items') = Ids(items) \ {Top.id} /\ Distinct(items') /\ Top.id \in Ids(items)
        /\ Len(items') = Len(items) - 1
    BY <1>0, <1>p, TailIds, HeadAndTail DEF LedgerInv, Top
  <2>2. Top.id \in ItemId
    BY <1>0, <2>1
  <2>3. L!Leaves(Top.id)
    BY <2>1 DEF L!Leaves
  <2>4. L!Fail(Top.id) \/ L!Finish(Top.id)
    BY <1>p, <2>3 DEF L!Fail, L!Finish
  <2>5. L!Next
    BY <2>2, <2>4 DEF L!Next
  <2>6. LedgerInv'
    BY <1>p, <2>1, LeavingIds
  <2> QED
    BY <2>5, <2>6
<1>1. CASE FilePass
  <2>1. UNCHANGED <<errs, done, gone, nextId>>
    BY <1>1 DEF FilePass, FileStart, Phase1Start, Phase1Idle, Phase2Plain, Phase2Local,
       Phase2Client, Phase2Wait, Phase2Disable, Phase3Start, Phase3Wait, Phase4Start,
       Phase5Start, Phase5RestWait, Phase6Start, Phase7Start, Phase7Wait, Phase8Start,
       Phase8Wait, Phase9Start, Phase9Rest, Phase10Start, Phase10Wait, Phase11Start,
       Phase11Wait, Phase12Start, listVars, worldVars
  <2> QED
    BY <1>1, <1>u, <2>1, FilePassSameHead
<1>2. CASE DirectoryStart \/ DirectoryPhase1Idle \/ DirectoryPhase2Start
           \/ DirectoryPhase2Mkd
  <2>1. PICK st \in DirectoryState : In(st)
    BY <1>2 DEF DirectoryState, DirectoryStart, DirectoryPhase1Idle, DirectoryPhase2Start,
       DirectoryPhase2Mkd
  <2>2. items # <<>> /\ Top \in Triable /\ Top \in Item
    BY <2>1, InPhase DEF Triable
  <2>3. UNCHANGED <<errs, done, gone, nextId>>
    BY <1>2 DEF DirectoryStart, DirectoryPhase1Idle, DirectoryPhase2Start,
       DirectoryPhase2Mkd, listVars, worldVars
  <2>4. /\ [Top EXCEPT !.sfail = FALSE, !.dfail = FALSE] \in Item
        /\ [Top EXCEPT !.sxfer = 0, !.dxfer = 0] \in Item
        /\ [Top EXCEPT !.sxfer = 0, !.dxfer = 2, !.dfail = FALSE] \in Item
    BY <2>2, FailuresType, CountersType DEF Triable
  <2>5. /\ [Top EXCEPT !.sfail = FALSE, !.dfail = FALSE].id = Top.id
        /\ [Top EXCEPT !.sxfer = 0, !.dxfer = 0].id = Top.id
        /\ [Top EXCEPT !.sxfer = 0, !.dxfer = 2, !.dfail = FALSE].id = Top.id
        /\ [Top EXCEPT !.sfail = FALSE, !.dfail = FALSE].type = Top.type
        /\ [Top EXCEPT !.sxfer = 0, !.dxfer = 0].type = Top.type
        /\ [Top EXCEPT !.sxfer = 0, !.dxfer = 2, !.dfail = FALSE].type = Top.type
    BY <2>2 DEF Item
  <2>6. SameHead
    BY <1>2, <2>4, <2>5 DEF SameHead, DirectoryStart, DirectoryPhase1Idle,
       DirectoryPhase2Start, DirectoryPhase2Mkd, listVars
  <2> QED
    BY <1>u, <2>2, <2>3, <2>6
<1>3. CASE DirectoryPhase2Compare
  <2>1. items # <<>> /\ items \in Seq(Triable)
    BY <1>3, InPhase DEF DirectoryPhase2Compare, DirectoryState
  <2>2. PICK kids \in KidLists :
          /\ kids # <<>> => nextId + Len(kids) - 1 <= MaxItems
          /\ items' = Expanded(Tail(items), kids)
          /\ nextId' = nextId + Len(kids)
    BY <1>3 DEF DirectoryPhase2Compare
  <2>3. done' = done \cup {Top.id} /\ UNCHANGED <<errs, gone>>
    BY <1>3 DEF DirectoryPhase2Compare
  <2>4. /\ Tail(items) \in Seq(Triable) /\ Len(Tail(items)) = Len(items) - 1
        /\ Len(items) \in Nat
        /\ Ids(Tail(items)) = Ids(items) \ {Top.id} /\ Distinct(Tail(items))
        /\ Top.id \in Ids(items)
    BY <2>1, HeadAndTail, TailIds DEF LedgerInv, Top
  <2>5. nextId \in 1 .. MaxItems + 1 /\ \A i \in Ids(Tail(items)) : i < nextId
    BY <2>4 DEF BookInv, LedgerInv
  <2> DEFINE new == nextId .. nextId + Len(kids) - 1
  <2>6. Distinct(items') /\ Ids(items') = Ids(Tail(items)) \cup new
    BY <2>2, <2>4, <2>5, ExpandedIds
  <2>7. Len(items') = Len(items) - 1 + Len(kids) /\ Len(kids) \in 0 .. 2
    BY <2>2, <2>4, <2>5, ExpandedKeeps
  <2>8. /\ IsFiniteSet(new) /\ Cardinality(new) = Len(kids)
        /\ new \in SUBSET ItemId
    <3>1. nextId \in Int /\ nextId + Len(kids) - 1 \in Int
      BY <2>5, <2>7
    <3>2. IsFiniteSet(new) /\ Cardinality(new) = Len(kids)
      <4> DEFINE last == nextId + Len(kids) - 1
      <4>1. /\ IsFiniteSet(nextId .. last)
            /\ Cardinality(nextId .. last) = IF nextId > last THEN 0 ELSE last - nextId + 1
        BY <3>1, FS_Interval, Zenon
      <4> QED
        BY <2>5, <2>7, <4>1
    <3>3. new \in SUBSET ItemId
      <4>1. CASE Len(kids) = 0
        BY <3>1, <4>1
      <4>2. CASE Len(kids) # 0
        BY <2>2, <2>5, <2>7, <4>2, QueueAssumption DEF ItemId
      <4> QED
        BY <4>1, <4>2
    <3> QED
      BY <3>2, <3>3
  <2>9. new \cap L!Known = {}
    <3>1. \A i \in L!Known : i < nextId
      BY DEF LedgerInv, L!Known
    <3>2. \A i \in new : ~(i < nextId)
      BY <2>5, <2>7
    <3> QED
      BY <3>1, <3>2
  <2>10. LedgerInv'
    <3>1. nextId' \in Nat /\ nextId <= nextId' /\ nextId \in Nat
      BY <2>2, <2>5, <2>7
    <3>2. \A i \in new : i < nextId'
      BY <2>2, <2>5, <2>7
    <3>3. \A i \in Ids(items) \cup errs \cup done \cup gone : i \in Nat /\ i < nextId
      BY <1>0, BooksType
    <3>4. \A i \in Ids(items) \cup errs \cup done \cup gone : i < nextId'
      BY <3>1, <3>3
    <3>5. Ids(items') \cup errs' \cup done' \cup gone'
            \subseteq (Ids(items) \cup errs \cup done \cup gone) \cup new
      BY <2>3, <2>4, <2>6
    <3> QED
      BY <2>6, <3>2, <3>4, <3>5 DEF LedgerInv
  <2> HIDE DEF new
  <2>11. L!Expand(Top.id, new)
    BY <2>3, <2>4, <2>6, <2>7, <2>8, <2>9, SameCount DEF L!Expand
  <2>12. L!Next
    BY <1>0, <2>4, <2>8, <2>11 DEF L!Next
  <2> QED
    BY <2>10, <2>12
<1>4. CASE ItemFailed
  <2>1. items # <<>> /\ items \in Seq(Triable)
    BY <1>4, InItemFailed DEF ItemFailed
  <2>2. Top \in Item /\ Top.soft \in {0, 1}
    BY <2>1, HeadAndTail DEF Top, Triable
  <2>3. /\ [Top EXCEPT !.soft = @ + 1] \in Item
        /\ [Top EXCEPT !.soft = @ + 1].id = Top.id
        /\ [Top EXCEPT !.soft = @ + 1].type = Top.type
    BY <2>2 DEF Item
  <2>4. SameHead /\ UNCHANGED <<errs, done, gone, nextId>>
    BY <1>4, <2>3 DEF ItemFailed, SameHead, worldVars
  <2> QED
    BY <1>u, <2>1, <2>4
<1>5. CASE RequeueItem
  <2>1. state = "REQUEUE_ITEM" /\ items # <<>>
    BY <1>5, InState DEF RequeueItem, ListInv, HeadPresent, Headed
  <2>2. /\ Top \in Item /\ Tail(items) \in Seq(Item) /\ Len(items) \in Nat
        /\ Len(Tail(items)) = Len(items) - 1
    BY <1>0, <2>1, HeadAndTail DEF Top
  <2>3. /\ Ids(Tail(items)) = Ids(items) \ {Top.id} /\ Distinct(Tail(items))
        /\ Top.id \in Ids(items)
    BY <1>0, <2>1, TailIds DEF LedgerInv, Top
  <2>4. items' = Insert(Tail(items), Top, Default) /\ UNCHANGED <<errs, done, gone, nextId>>
    BY <1>5 DEF RequeueItem, worldVars
  <2>5. Atoi(Default) \in Nat
    BY DEF Atoi, Default
  <2>6. Position(Tail(items), Default) \in 0 .. Len(Tail(items))
    BY <2>2, <2>5, PositionInList
  <2>7. Ids(items') = Ids(items) /\ Distinct(items')
    <3>1. Top.id \notin Ids(Tail(items))
      BY <2>3
    <3>2. /\ Ids(items') = Ids(Tail(items)) \cup {Top.id}
          /\ Distinct(items')
      <4> DEFINE rest == Tail(items)
                 pos == Position(rest, Default)
      <4>1. /\ rest \in Seq(Item) /\ pos \in 0 .. Len(rest) /\ Distinct(rest)
            /\ items' = InsertAtPos(rest, pos, Top)
        BY <2>2, <2>3, <2>4, <2>6 DEF Insert
      <4> HIDE DEF rest, pos
      <4>2. /\ Ids(InsertAtPos(rest, pos, Top)) = Ids(rest) \cup {Top.id}
            /\ Top.id \notin Ids(rest) => Distinct(InsertAtPos(rest, pos, Top))
        BY <2>2, <4>1, InsertIds
      <4> QED
        BY <3>1, <4>1, <4>2 DEF rest
    <3> QED
      BY <2>3, <3>2
  <2>8. Len(items') = Len(items)
    <3> DEFINE rest == Tail(items)
    <3>1. /\ rest \in Seq(Item) /\ items' = Insert(rest, Top, Default)
          /\ Len(rest) = Len(items) - 1
      BY <2>2, <2>4
    <3> HIDE DEF rest
    <3>2. Len(Insert(rest, Top, Default)) = Len(rest) + 1
      BY <2>2, <2>5, <3>1, InsertKeeps
    <3> QED
      BY <2>2, <3>1, <3>2
  <2> QED
    BY <2>4, <2>7, <2>8 DEF L!vars, LedgerInv
<1>6. CASE ErrorItem \/ RemoveItem
  <2>1. state \in {"ERROR_ITEM", "REMOVE_ITEM"} /\ items # <<>>
    BY <1>6, InState DEF ErrorItem, RemoveItem, ListInv, HeadPresent, Headed
  <2>2. /\ items' = Tail(items) /\ UNCHANGED nextId
        /\ \/ errs' = errs \cup {Top.id} /\ UNCHANGED <<done, gone>>
           \/ done' = done \cup {Top.id} /\ UNCHANGED <<errs, gone>>
    BY <1>6 DEF ErrorItem, RemoveItem, worldVars
  <2> QED
    BY <1>p, <2>1, <2>2
<1>7. CASE Start \/ IsConnected \/ StartNextItem \/ ActiveEnd \/ Active \/ Empty \/ Idle
           \/ Waiting
  <2>1. UNCHANGED <<items, errs, done, gone, nextId>>
    BY <1>7 DEF Start, IsConnected, StartNextItem, ActiveEnd, Active, Empty, Idle,
       Waiting, listVars, worldVars
  <2> QED
    BY <1>u, <2>1 DEF SameHead
<1> QED
  BY <1>1, <1>2, <1>3, <1>4, <1>5, <1>6, <1>7 DEF Pass, DirectoryPass

\* The events of a session leave the books alone.
LEMMA EventLedger ==
  ASSUME ListInv, SessionInv, WorldInv, LedgerInv, NEW p \in Side, SessionEvent(p)
  PROVE  UNCHANGED L!vars /\ LedgerInv'
<1>0. items \in Seq(Item)
  BY ItemsType DEF ListInv
<1>1. UNCHANGED <<errs, done, gone, nextId>>
  BY DEF SessionEvent, Login, Reply, TransferEnd, ListingEnd, DataLine, DataClosed, Lost,
     Die, listVars, worldVars
<1>2. items = <<>> => UNCHANGED items
  BY DEF SessionEvent, Login, Reply, TransferEnd, ListingEnd, DataLine, DataClosed, Lost,
     Die, listVars, worldVars
<1>3. SameHead
  BY <1>2, EventSameHead DEF SameHead
<1> QED
  BY <1>0, <1>1, <1>2, <1>3, SameHeadIds

\* The users' commands add an item, delete one or move one.
LEMMA CommandLedger ==
  ASSUME ListInv, BookInv, LedgerInv, Command2
  PROVE  [L!Next]_(L!vars) /\ LedgerInv'
<1>0. items \in Seq(Item) /\ Ids(items) \subseteq ItemId /\ Len(items) \in Nat
  BY ItemsType, IdsType DEF ListInv
<1>a. \A at \in AtChoices : Atoi(at) \in Nat
  BY QueueAssumption DEF At, Absent, Atoi
<1>b. /\ nextId \in Nat /\ Distinct(items)
      /\ \A i \in Ids(items) \cup errs \cup done \cup gone : i \in Nat /\ i < nextId
  BY <1>0, BooksType DEF LedgerInv
<1>1. CASE Go \/ Stop \/ StopDrop
  <2>1. UNCHANGED <<items, errs, done, gone, nextId>>
    BY <1>1 DEF Go, Stop, StopDrop, listVars
  <2> QED
    BY <1>0, <2>1, SameHeadIds DEF SameHead
<1>2. CASE \E t \in NewItems, at \in AtChoices : QAdd(t, at)
  <2>1. PICK t \in NewItems, at \in AtChoices : QAdd(t, at)
    BY <1>2
  <2> DEFINE x == NewItem(nextId, t)
             to == Place(t, at)
  <2>2. nextId \in ItemId /\ t \in Template
    BY <2>1, QueueAssumption DEF QAdd, BookInv, ItemId
  <2>3. x \in Item /\ x.id = nextId
    BY <2>2, NewItemType DEF Triable, NewItem
  <2>4. Atoi(to) \in Nat
    BY <1>a DEF Place, Atoi, Last, Nth
  <2>5. /\ items' = Insert(items, x, to) /\ nextId' = nextId + 1
        /\ UNCHANGED <<errs, done, gone>>
    BY <2>1 DEF QAdd
  <2> HIDE DEF x, to
  <2>6. Position(items, to) \in 0 .. Len(items)
    BY <1>0, <2>4, PositionInList
  <2>7. nextId \notin L!Known
    BY <1>b DEF L!Known
  <2>8. Ids(items') = Ids(items) \cup {nextId} /\ Distinct(items')
    <3>1. x.id \notin Ids(items)
      BY <2>3, <2>7 DEF L!Known
    <3> QED
      BY <1>0, <1>b, <2>3, <2>5, <2>6, <3>1, InsertIds DEF Insert
  <2>9. Len(items') = Len(items) + 1
    BY <1>0, <2>3, <2>4, <2>5, InsertKeeps
  <2>10. L!Add(nextId)
    BY <2>5, <2>7, <2>8, <2>9 DEF L!Add
  <2>11. L!Next
    BY <2>2, <2>10 DEF L!Next
  <2>12. LedgerInv'
    BY <1>b, <2>5, <2>8 DEF LedgerInv
  <2> QED
    BY <2>11, <2>12
<1>3. CASE \E pos \in 0 .. MaxItems - 1 : QDel(pos)
  <2>1. PICK pos \in 0 .. MaxItems - 1 : QDel(pos)
    BY <1>3
  <2> DEFINE i == items[pos + 1].id
  <2>2. pos \in 0 .. Len(items) - 1
    BY <1>0, <2>1, QueueAssumption DEF QDel
  <2>3. /\ items' = RemoveAtPos(items, pos) /\ gone' = gone \cup {i}
        /\ UNCHANGED <<errs, done, nextId>>
    BY <2>1 DEF QDel
  <2>4. /\ Ids(items') = Ids(items) \ {i} /\ Distinct(items') /\ i \in Ids(items)
        /\ Len(items') = Len(items) - 1
    BY <1>0, <1>b, <2>2, <2>3, RemoveIds, RemoveKeeps
  <2> HIDE DEF i
  <2>5. L!Delete(i)
    BY <2>3, <2>4 DEF L!Delete, L!Leaves
  <2>6. L!Next
    BY <1>0, <2>4, <2>5 DEF L!Next
  <2>7. LedgerInv'
    BY <2>3, <2>4, LeavingIds
  <2> QED
    BY <2>6, <2>7
<1>4. CASE \E from \in 0 .. MaxItems - 1 : \E to \in AtChoices : QMove(from, to)
  <2>1. PICK from \in 0 .. MaxItems - 1, to \in AtChoices : QMove(from, to)
    BY <1>4
  <2> DEFINE at == IF state # "IDLE" /\ Atoi(to) = 0 THEN Nth(1) ELSE to
             r == RemoveAtPos(items, from)
             x == items[from + 1]
  <2>2. from \in 0 .. Len(items) - 1
    BY <1>0, <2>1, QueueAssumption DEF QMove
  <2>3. x \in Item /\ r \in Seq(Item) /\ Len(r) = Len(items) - 1
    <3>1. x \in Item
      BY <1>0, <2>2, ElementOfSeq
    <3> QED
      BY <1>0, <2>2, <3>1, RemoveKeeps
  <2>4. Ids(r) = Ids(items) \ {x.id} /\ Distinct(r) /\ x.id \in Ids(items)
    BY <1>0, <1>b, <2>2, RemoveIds
  <2>5. Atoi(at) \in Nat
    BY <1>a DEF Atoi, Nth
  <2>6. items' = Insert(r, x, at) /\ UNCHANGED <<errs, done, gone, nextId>>
    BY <2>1 DEF QMove
  <2> HIDE DEF r, x, at
  <2>7. Position(r, at) \in 0 .. Len(r)
    BY <2>3, <2>5, PositionInList
  <2>8. Ids(items') = Ids(items) /\ Distinct(items')
    <3>1. x.id \notin Ids(r)
      BY <2>4
    <3>2. Ids(items') = Ids(r) \cup {x.id} /\ Distinct(items')
      BY <2>3, <2>4, <2>6, <2>7, <3>1, InsertIds DEF Insert
    <3> QED
      BY <2>4, <3>2
  <2>9. Len(items') = Len(items)
    BY <1>0, <2>3, <2>5, <2>6, InsertKeeps
  <2> QED
    BY <2>6, <2>8, <2>9 DEF L!vars, LedgerInv
<1> QED
  BY <1>1, <1>2, <1>3, <1>4 DEF Command2

\* A queue that was built and not yet started is a ledger with nothing in it
\* but the list.
LEMMA LedgerInit ==
  ASSUME Init
  PROVE  L!Init /\ LedgerInv
<1>1. PICK ts \in FirstItems : items = NewQueue(ts) /\ nextId = Len(ts) + 1
  BY DEF Init
<1>2. Len(ts) \in 0 .. MaxItems
  BY QueueAssumption
<1>3. /\ DOMAIN items = 1 .. Len(ts) /\ Len(items) = Len(ts)
      /\ \A i \in 1 .. Len(ts) : items[i].id = i
  BY <1>1, <1>2 DEF NewQueue, NewItem
<1>4. Ids(items) = 1 .. Len(ts)
  BY <1>3 DEF Ids
<1>5. IsFiniteSet(1 .. Len(ts)) /\ Cardinality(1 .. Len(ts)) = Len(ts)
  <2>1. Len(ts) \in Int /\ 1 \in Int
    BY <1>2
  <2>2. /\ IsFiniteSet(1 .. Len(ts))
        /\ Cardinality(1 .. Len(ts)) = IF 1 > Len(ts) THEN 0 ELSE Len(ts) - 1 + 1
    BY <2>1, FS_Interval, Zenon
  <2> QED
    BY <1>2, <2>2
<1>6. 1 .. Len(ts) \subseteq ItemId
  BY <1>2, QueueAssumption DEF ItemId
<1>7. errs = {} /\ done = {} /\ gone = {}
  BY DEF Init
<1>8. L!Init
  BY <1>3, <1>4, <1>5, <1>6, <1>7, SameCount DEF L!Init
<1>9. LedgerInv
  BY <1>1, <1>2, <1>3, <1>4, <1>7 DEF LedgerInv, Distinct
<1> QED
  BY <1>8, <1>9

\* The queue keeps the ledger: whatever is inserted, moved, tried again,
\* expanded and deleted, an item that was added is in queue->items once, until
\* it is put in queue->err_items, finished or deleted, and then it is there for
\* good (queue.c:202-218, 628-742, 2513-2667).
THEOREM LedgerKept == Spec => KeepsLedger
<1>1. Init => L!Init /\ LedgerInv
  BY LedgerInit
<1>2. IInv /\ LedgerInv /\ [Next]_vars => [L!Next]_(L!vars) /\ LedgerInv'
  <2> SUFFICES ASSUME IInv, LedgerInv, [Next]_vars
               PROVE  [L!Next]_(L!vars) /\ LedgerInv'
    OBVIOUS
  <2>1. CASE Pass
    BY <2>1, PassLedger DEF IInv
  <2>2. ASSUME NEW p \in Side, SessionEvent(p)
        PROVE  [L!Next]_(L!vars) /\ LedgerInv'
    BY <2>2, EventLedger DEF IInv
  <2>3. CASE Command2
    BY <2>3, CommandLedger DEF IInv
  <2>4. CASE UNCHANGED vars
    <3>1. UNCHANGED <<items, errs, done, gone, nextId>>
      BY <2>4 DEF vars, listVars, worldVars
    <3> QED
      BY <3>1 DEF L!vars, LedgerInv
  <2> QED
    BY <2>1, <2>2, <2>3, <2>4 DEF Next
<1> QED
  BY <1>1, <1>2, Invariance, PTL DEF Spec, KeepsLedger, L!Spec

-----------------------------------------------------------------------------
(* What follows from the ledger: the accounts balance.                       *)

LEMMA AddBalances ==
  ASSUME L!Balanced, NEW i \in ItemId, L!Add(i)
  PROVE  L!Balanced'
<1>1. i \notin L!Known /\ Ids(items)' = Ids(items) \cup {i} /\ Len(items)' = Len(items) + 1
      /\ UNCHANGED <<errs, done, gone>>
  BY DEF L!Add
<1>2. IsFiniteSet(Ids(items)) /\ Len(items) = Cardinality(Ids(items))
  BY SameCount DEF L!Balanced
<1>3. i \notin Ids(items)
  BY <1>1 DEF L!Known
<1>4. /\ IsFiniteSet(Ids(items) \cup {i})
      /\ Cardinality(Ids(items) \cup {i}) = Cardinality(Ids(items)) + 1
  BY <1>2, <1>3, FS_AddElement
<1>5. L!IsFiniteSet(Ids(items) \cup {i}) /\ L!Cardinality(Ids(items) \cup {i}) = Cardinality(Ids(items)) + 1
  BY <1>4, SameCount
<1> QED
  BY <1>1, <1>2, <1>5 DEF L!Balanced, L!Known

\* What leaves the list shortens it by one.
LEMMA LeavesShortens ==
  ASSUME L!Balanced, NEW i \in ItemId, L!Leaves(i)
  PROVE  L!IsFiniteSet(Ids(items)') /\ Len(items)' = L!Cardinality(Ids(items)')
<1>1. i \in Ids(items) /\ Ids(items)' = Ids(items) \ {i} /\ Len(items)' = Len(items) - 1
  BY DEF L!Leaves
<1>2. IsFiniteSet(Ids(items)) /\ Len(items) = Cardinality(Ids(items))
  BY SameCount DEF L!Balanced
<1>3. /\ IsFiniteSet(Ids(items) \ {i})
      /\ Cardinality(Ids(items) \ {i}) = Cardinality(Ids(items)) - 1
  BY <1>1, <1>2, FS_RemoveElement
<1> QED
  BY <1>1, <1>2, <1>3, SameCount

\* The entries of a directory lengthen the list by their number.
LEMMA ExpandLengthens ==
  ASSUME L!Balanced, NEW i \in ItemId, NEW kids \in SUBSET ItemId, L!Expand(i, kids)
  PROVE  L!IsFiniteSet(Ids(items)') /\ Len(items)' = L!Cardinality(Ids(items)')
<1> DEFINE rest == Ids(items) \ {i}
<1>1. /\ i \in Ids(items) /\ kids \cap L!Known = {} /\ IsFiniteSet(kids)
      /\ Ids(items)' = rest \cup kids
      /\ Len(items)' = (Len(items) - 1) + Cardinality(kids)
  BY SameCount DEF L!Expand
<1>2. IsFiniteSet(Ids(items)) /\ Len(items) = Cardinality(Ids(items))
  BY SameCount DEF L!Balanced
<1>3. IsFiniteSet(rest) /\ Cardinality(rest) = Cardinality(Ids(items)) - 1
  BY <1>1, <1>2, FS_RemoveElement
<1>4. rest \cap kids = {}
  BY <1>1 DEF L!Known
<1> HIDE DEF rest
<1>5. Cardinality(rest \cup kids) = Cardinality(rest) + Cardinality(kids)
  <2>1. Cardinality(rest \cap kids) = 0
    BY <1>4, FS_EmptySet
  <2>2. Cardinality(rest) \in Nat /\ Cardinality(kids) \in Nat
    BY <1>1, <1>3, FS_CardinalityType
  <2>3. Cardinality(rest \cup kids)
          = Cardinality(rest) + Cardinality(kids) - Cardinality(rest \cap kids)
    BY <1>1, <1>3, FS_Union, Zenon
  <2> QED
    BY <2>1, <2>2, <2>3
<1>6. IsFiniteSet(rest \cup kids)
  BY <1>1, <1>3, FS_Union, Zenon
<1> QED
  BY <1>1, <1>2, <1>3, <1>5, <1>6, SameCount

LEMMA LedgerBalances ==
  ASSUME L!Balanced, [L!Next]_(L!vars)
  PROVE  L!Balanced'
<1>1. ASSUME NEW i \in ItemId, L!Add(i)
      PROVE  L!Balanced'
  BY <1>1, AddBalances
<1>2. ASSUME NEW i \in ItemId, L!Fail(i)
      PROVE  L!Balanced'
  <2>1. L!IsFiniteSet(Ids(items)') /\ Len(items)' = L!Cardinality(Ids(items)')
    BY <1>2, LeavesShortens DEF L!Fail
  <2> QED
    BY <1>2, <2>1 DEF L!Fail, L!Leaves, L!Balanced
<1>3. ASSUME NEW i \in ItemId, L!Finish(i)
      PROVE  L!Balanced'
  <2>1. L!IsFiniteSet(Ids(items)') /\ Len(items)' = L!Cardinality(Ids(items)')
    BY <1>3, LeavesShortens DEF L!Finish
  <2> QED
    BY <1>3, <2>1 DEF L!Finish, L!Leaves, L!Balanced
<1>4. ASSUME NEW i \in ItemId, L!Delete(i)
      PROVE  L!Balanced'
  <2>1. L!IsFiniteSet(Ids(items)') /\ Len(items)' = L!Cardinality(Ids(items)')
    BY <1>4, LeavesShortens DEF L!Delete
  <2> QED
    BY <1>4, <2>1 DEF L!Delete, L!Leaves, L!Balanced
<1>5. ASSUME NEW i \in ItemId, NEW kids \in SUBSET ItemId, L!Expand(i, kids)
      PROVE  L!Balanced'
  <2>1. L!IsFiniteSet(Ids(items)') /\ Len(items)' = L!Cardinality(Ids(items)')
    BY <1>5, ExpandLengthens
  <2> QED
    BY <1>5, <2>1 DEF L!Expand, L!Known, L!Balanced
<1>6. CASE UNCHANGED L!vars
  BY <1>6 DEF L!vars, L!Balanced
<1> QED
  BY <1>1, <1>2, <1>3, <1>4, <1>5, <1>6 DEF L!Next

\* An item is in one of queue->items, queue->err_items, what was finished and what
\* was deleted, and the list is as long as it has items: nothing that queue_process
\* or a user does with a queue loses or doubles one (queue.c:202-218, 628-742).
THEOREM AlwaysBalanced == Spec => []L!Balanced
<1>1. L!Init => L!Balanced
  BY DEF L!Init, L!Balanced
<1>2. L!Balanced /\ [L!Next]_(L!vars) => L!Balanced'
  BY LedgerBalances
<1>3. L!Spec => []L!Balanced
  BY <1>1, <1>2, PTL DEF L!Spec
<1> QED
  BY <1>3, LedgerKept, PTL DEF KeepsLedger

=============================================================================
