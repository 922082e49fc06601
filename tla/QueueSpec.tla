------------------------------ MODULE QueueSpec ------------------------------
(***************************************************************************)
(* What the queue module (queues.c) promises: a fixed number of queues     *)
(* that share a fixed number of entries.  A queue without a comparison     *)
(* routine is first-in first-out; one with it keeps its entries in order   *)
(* of their keys, and entries with equal keys in order of arrival.         *)
(***************************************************************************)
EXTENDS QueueTypes, SequencesExt, FiniteSetsExt

VARIABLES
  items,    \* the entries of each queue
  compare,  \* how each queue is ordered
  result    \* the status the last call returned, and what it stored for the caller

vars == <<items, compare, result>>

InUse == Cardinality(UNION {{q} \X DOMAIN items[q] : q \in Queues})

Init ==
  /\ items = [q \in Queues |-> <<>>]
  /\ compare = [q \in Queues |-> UNUSED]
  /\ result = Done

Alloc(order) ==
  IF \A q \in Queues : compare[q] # UNUSED
  THEN result' = Failed(NO_QUEUES) /\ UNCHANGED <<items, compare>>
  ELSE \E q \in Queues :
         /\ compare[q] = UNUSED
         /\ result' = Given(q)
         /\ compare' = [compare EXCEPT ![q] = order]
         /\ UNCHANGED items

\* the position an entry with this key gets
Position(q, key) ==
  LET s     == items[q]
      later == {i \in DOMAIN s : s[i].key > key}
  IN  IF compare[q] = FIFO \/ later = {} THEN Len(s) + 1
      ELSE Min(later)

Insert(q, data, key) ==
  /\ compare[q] # UNUSED
  /\ \/ /\ result' = Failed(ALLOC_FAILED)
        /\ InUse >= N_QNODES
        /\ UNCHANGED items
     \/ /\ result' = Done
        /\ InUse < N_QNODES
        /\ items' = [items EXCEPT ![q] =
                       InsertAt(@, Position(q, key), [data |-> data, key |-> key])]
  /\ UNCHANGED compare

\* removes the first of the entries found among s, those of q
TakeFirstOf(q, s, found) ==
  /\ compare[q] # UNUSED
  /\ IF found = {}
     THEN /\ result' = Failed(IF s = <<>> THEN EMPTY_QUEUE ELSE NOT_FOUND)
          /\ UNCHANGED items
     ELSE /\ result' = Given(s[Min(found)].data)
          /\ items' = [items EXCEPT ![q] = RemoveAt(s, Min(found))]
  /\ UNCHANGED compare

TakeFirst(q) ==
  LET s == items[q] IN TakeFirstOf(q, s, DOMAIN s)
TakeByKey(q, key) ==
  LET s == items[q] IN TakeFirstOf(q, s, {i \in DOMAIN s : s[i].key = key})
TakeSelected(q, data) ==
  LET s == items[q] IN TakeFirstOf(q, s, {i \in DOMAIN s : s[i].data = data})

Peek(q) ==
  /\ compare[q] # UNUSED
  /\ IF items[q] = <<>> THEN result' = Failed(EMPTY_QUEUE) ELSE result' = Given(items[q][1].key)
  /\ UNCHANGED <<items, compare>>

Next ==
  \/ \E order \in {FIFO, ASCEND} : Alloc(order)
  \/ \E q \in Queues :
       \/ \E e \in Entries : Insert(q, e[1], e[2])
       \/ TakeFirst(q)
       \/ \E key \in Keys : TakeByKey(q, key)
       \/ \E data \in Data : TakeSelected(q, data)
       \/ Peek(q)

Spec == Init /\ [][Next]_vars
-----------------------------------------------------------------------------
\* An ordered queue is in order whatever calls, removals from its middle included,
\* made it.
Ordered ==
  \A q \in Queues : compare[q] = ASCEND =>
    \A i, j \in DOMAIN items[q] : i < j => items[q][i].key <= items[q][j].key
=============================================================================
