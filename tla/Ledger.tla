--------------------------------- MODULE Ledger ---------------------------------
(***************************************************************************)
(* What a queue (engine/queue.c) promises about its items, whatever it     *)
(* does with them: an item that is added stays queued until it is          *)
(* finished, or has failed, or is deleted by a user, once and for good,    *)
(* and is in the list once.  Queue implements it.                          *)
(***************************************************************************)
EXTENDS Naturals, FiniteSets

CONSTANT Item

VARIABLES
  queued,    \* items of queue->items
  count,     \* how long the list is
  failed,    \* items of queue->err_items
  finished,  \* items that were transferred, skipped as equal or expanded
  deleted    \* items that a user deleted

vars == <<queued, count, failed, finished, deleted>>

Known == queued \cup failed \cup finished \cup deleted

Init ==
  /\ queued \subseteq Item /\ IsFiniteSet(queued) /\ count = Cardinality(queued)
  /\ failed = {} /\ finished = {} /\ deleted = {}

\* queue_insert of a new item.
Add(i) ==
  /\ i \notin Known
  /\ queued' = queued \cup {i} /\ count' = count + 1
  /\ UNCHANGED <<failed, finished, deleted>>

Leaves(i) == i \in queued /\ queued' = queued \ {i} /\ count' = count - 1

\* QUEUE_ERROR_ITEM.
Fail(i) ==
  /\ Leaves(i) /\ failed' = failed \cup {i}
  /\ UNCHANGED <<finished, deleted>>

\* QUEUE_REMOVE_ITEM.
Finish(i) ==
  /\ Leaves(i) /\ finished' = finished \cup {i}
  /\ UNCHANGED <<failed, deleted>>

\* queue_del.
Delete(i) ==
  /\ Leaves(i) /\ deleted' = deleted \cup {i}
  /\ UNCHANGED <<failed, finished>>

\* queue_directory_think: a directory makes room for its entries.
Expand(i, kids) ==
  /\ i \in queued /\ kids \cap Known = {} /\ IsFiniteSet(kids)
  /\ queued' = (queued \ {i}) \cup kids
  /\ count' = (count - 1) + Cardinality(kids)
  /\ finished' = finished \cup {i}
  /\ UNCHANGED <<failed, deleted>>

Next ==
  \E i \in Item :
    \/ Add(i) \/ Fail(i) \/ Finish(i) \/ Delete(i)
    \/ \E kids \in SUBSET Item : Expand(i, kids)

Spec == Init /\ [][Next]_vars

-----------------------------------------------------------------------------

\* What follows from the promise: an item is in one account only, and the list
\* is as long as it has items.
Balanced ==
  /\ queued \cup failed \cup finished \cup deleted \subseteq Item
  /\ IsFiniteSet(queued) /\ count = Cardinality(queued)
  /\ queued \cap (failed \cup finished \cup deleted) = {}
  /\ failed \cap (finished \cup deleted) = {} /\ finished \cap deleted = {}
=============================================================================
