------------------------------ MODULE QueueList ------------------------------
(***************************************************************************)
(* The list of items of a queue (engine/queue.c): where queue_insert,      *)
(* queue_move, queue_del and the expansion of a directory put an item.     *)
(* Positions are the code's, counted from 0.                               *)
(***************************************************************************)
EXTENDS Integers, Sequences, FiniteSets

\* The "@" argument of a command: a word, or a number that atoi reads.
At == ({"FIRST", "LAST", "DEFAULT"} \X {0}) \cup ({"NTH"} \X Nat)
First   == <<"FIRST", 0>>
Last    == <<"LAST", 0>>
Default == <<"DEFAULT", 0>>
Nth(n)  == <<"NTH", n>>

\* atoi: every word reads as 0.
Atoi(at) == at[2]

\* The position of the first item with property P, or the end of the list: as
\* many items come before it.
FirstSuch(q, P(_)) ==
  Cardinality({i \in 1 .. Len(q) : \A j \in 1 .. i : ~P(q[j])})

\* The default place: after the files, before the first directory, except
\* that directories that are to move first do not count.
IsPlainDirectory(item) == item.type = "DIRECTORY" /\ item.weight >= 0

Position(q, at) ==
  IF at = First THEN 0
  ELSE IF at = Last THEN Len(q)
  ELSE IF Atoi(at) > 0 THEN (IF Atoi(at) < Len(q) THEN Atoi(at) ELSE Len(q))
  ELSE FirstSuch(q, IsPlainDirectory)

InsertAtPos(q, pos, item) ==
  SubSeq(q, 1, pos) \o <<item>> \o SubSeq(q, pos + 1, Len(q))

Insert(q, item, at) == InsertAtPos(q, Position(q, at), item)

RemoveAtPos(q, pos) == SubSeq(q, 1, pos) \o SubSeq(q, pos + 2, Len(q))

\* Where the expansion of a directory puts a new item: a directory that is to
\* move first goes behind the files that do, other movers to the front unless
\* a STOP item is there, the rest to the default place.
NotMover(item) ==
  ~(item.type = "STOP" \/ (item.type = "FILE" /\ item.weight = -1))

ExpansionAt(q, item) ==
  IF item.weight = 0 THEN Default
  ELSE IF item.type = "DIRECTORY" THEN Nth(FirstSuch(q, NotMover))
  ELSE IF q # <<>> /\ q[1].type = "STOP" THEN Nth(1)
  ELSE First

ExpandOne(q, item) == Insert(q, item, ExpansionAt(q, item))

=============================================================================
