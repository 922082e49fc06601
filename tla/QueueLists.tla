-------------------------------- MODULE QueueLists -----------------------------
(***************************************************************************)
(* The queue module as it is written (queues.c): doubly linked lists of    *)
(* nodes that are taken from, and returned to, one list of free nodes, and *)
(* queues taken from a list that runs through their head fields.           *)
(* Interrupts are off while the kernel runs, so one call is one step.      *)
(* Calls with a NULL queue (BAD_PARAM) are left out: no caller makes one.  *)
(***************************************************************************)
EXTENDS QueueTypes, SequencesExt, FiniteSetsExt

NULL  == 0
Nodes == 1 .. N_QNODES

VARIABLES
  prev, next,   \* the links of each node
  data, key,    \* its contents, NULL before its first use
  qnode_list,   \* _qnode_list
  head, tail,   \* of each queue; head also links the unallocated queues
  compare,      \* of each queue, UNUSED before it is allocated
  queue_list,   \* _queue_list
  result        \* the status of the last call, and the value it stored

links == <<prev, next, qnode_list, head, tail>>
lvars  == <<links, data, key, compare, queue_list, result>>

\* f, a function on node or queue pointers, with f[p] set unless p is NULL
Set(f, p, x) == [i \in DOMAIN f |-> IF i = p THEN x ELSE f[i]]

\* The nodes along the links from n on, in order; a walk that does not end is cut.
Chain(link, n) ==
  LET from[left \in 0 .. N_QNODES+1] ==
        [m \in Nodes \cup {NULL} |-> IF m = NULL \/ left = 0 THEN <<>>
                                     ELSE <<m>> \o from[left-1][link[m]]]
  IN  from[N_QNODES+1][n]

\* the first node in queue q that is one of stop, NULL if there is none
Scan(q, stop) ==
  LET chain == Chain(next, head[q])
      met   == {i \in DOMAIN chain : chain[i] \in stop}
  IN  IF met = {} THEN NULL ELSE chain[Min(met)]

\* _q_init: both lists are filled from the front
ListsInit ==
  /\ prev = [n \in Nodes |-> NULL]
  /\ next = [n \in Nodes |-> n - 1]
  /\ data = [n \in Nodes |-> NULL]
  /\ key = [n \in Nodes |-> NULL]
  /\ qnode_list = N_QNODES
  /\ head = [q \in Queues |-> q - 1]
  /\ tail = [q \in Queues |-> NULL]
  /\ compare = [q \in Queues |-> UNUSED]
  /\ queue_list = N_QUEUES
  /\ result = Done

q_alloc(order) ==
  /\ IF queue_list = NULL
     THEN result' = Failed(NO_QUEUES) /\ UNCHANGED <<queue_list, head, tail, compare>>
     ELSE /\ queue_list' = head[queue_list]
          /\ head' = [head EXCEPT ![queue_list] = NULL]
          /\ tail' = [tail EXCEPT ![queue_list] = NULL]
          /\ compare' = [compare EXCEPT ![queue_list] = order]
          /\ result' = Given(queue_list)
  /\ UNCHANGED <<prev, next, qnode_list, data, key>>

\* Mutant of Successor: the new entry goes before those with the same key.
Successor_not_stable(q, k) ==
  IF compare[q] = FIFO THEN NULL ELSE Scan(q, {n \in Nodes : key[n] >= k})

\* the node an entry with key k is put before, NULL to put it at the end
Successor(q, k) ==
  IF compare[q] = FIFO THEN NULL ELSE Scan(q, {n \in Nodes : key[n] > k})

q_insert(q, d, k) ==
  /\ compare[q] # UNUSED
  /\ IF qnode_list = NULL
     THEN result' = Failed(ALLOC_FAILED) /\ UNCHANGED <<links, data, key>>
     ELSE LET qn   == qnode_list
              curr == Successor(q, k)
              left == IF curr = NULL THEN tail[q] ELSE prev[curr]
          IN  /\ qnode_list' = next[qn]
              /\ data' = [data EXCEPT ![qn] = d]
              /\ key' = [key EXCEPT ![qn] = k]
              /\ prev' = Set([prev EXCEPT ![qn] = left], curr, qn)
              /\ next' = Set([next EXCEPT ![qn] = curr], left, qn)
              /\ head' = IF left = NULL THEN [head EXCEPT ![q] = qn] ELSE head
              /\ tail' = IF curr = NULL THEN [tail EXCEPT ![q] = qn] ELSE tail
              /\ result' = Done
  /\ UNCHANGED <<compare, queue_list>>

q_remove(q) ==
  /\ compare[q] # UNUSED
  /\ IF head[q] = NULL
     THEN result' = Failed(EMPTY_QUEUE) /\ UNCHANGED links
     ELSE LET qn == head[q]
          IN  /\ head' = [head EXCEPT ![q] = next[qn]]
              /\ tail' = IF next[qn] = NULL THEN [tail EXCEPT ![q] = NULL] ELSE tail
              /\ prev' = Set(prev, next[qn], NULL)
              /\ next' = [next EXCEPT ![qn] = qnode_list]
              /\ qnode_list' = qn
              /\ result' = Given(data[qn])
  /\ UNCHANGED <<data, key, compare, queue_list>>

\* Mutant of delete_node: the tail of the queue is not moved.
delete_node_keeps_tail(q, qn) ==
  /\ head' = IF prev[qn] = NULL THEN [head EXCEPT ![q] = next[qn]] ELSE head
  /\ prev' = Set(prev, next[qn], prev[qn])
  /\ next' = [Set(next, prev[qn], next[qn]) EXCEPT ![qn] = qnode_list]
  /\ qnode_list' = qn
  /\ UNCHANGED tail

\* _q_delete_node: qn leaves the list of q for the free list
delete_node(q, qn) ==
  /\ head' = IF prev[qn] = NULL THEN [head EXCEPT ![q] = next[qn]] ELSE head
  /\ tail' = IF next[qn] = NULL THEN [tail EXCEPT ![q] = prev[qn]] ELSE tail
  /\ prev' = Set(prev, next[qn], prev[qn])
  /\ next' = [Set(next, prev[qn], next[qn]) EXCEPT ![qn] = qnode_list]
  /\ qnode_list' = qn

\* the common body of _q_remove_by_key and _q_remove_selected
RemoveScanned(q, stop) ==
  /\ compare[q] # UNUSED
  /\ LET qn == Scan(q, stop)
     IN  IF qn = NULL
         THEN /\ result' = Failed(IF head[q] = NULL THEN EMPTY_QUEUE ELSE NOT_FOUND)
              /\ UNCHANGED links
         ELSE delete_node(q, qn) /\ result' = Given(data[qn])
  /\ UNCHANGED <<data, key, compare, queue_list>>

q_remove_by_key(q, k)   == RemoveScanned(q, {n \in Nodes : key[n] = k})
q_remove_selected(q, d) == RemoveScanned(q, {n \in Nodes : data[n] = d})

q_peek(q) ==
  /\ compare[q] # UNUSED
  /\ IF head[q] = NULL THEN result' = Failed(EMPTY_QUEUE) ELSE result' = Given(key[head[q]])
  /\ UNCHANGED <<links, data, key, compare, queue_list>>

ListsNext ==
  \/ \E order \in {FIFO, ASCEND} : q_alloc(order)
  \/ \E q \in Queues :
       \/ \E e \in Entries : q_insert(q, e[1], e[2])
       \/ q_remove(q)
       \/ \E k \in Keys : q_remove_by_key(q, k)
       \/ \E d \in Data : q_remove_selected(q, d)
       \/ q_peek(q)

ListsSpec == ListsInit /\ [][ListsNext]_lvars
-----------------------------------------------------------------------------
(***************************************************************************)
(* Properties.                                                             *)
(***************************************************************************)

\* The type invariant, a part of NodesAccountedFor.
ListsTypeOK ==
  /\ prev \in [Nodes -> Nodes \cup {NULL}]
  /\ next \in [Nodes -> Nodes \cup {NULL}]
  /\ data \in [Nodes -> Data \cup {NULL}]
  /\ key \in [Nodes -> Keys \cup {NULL}]
  /\ qnode_list \in Nodes \cup {NULL}
  /\ \A q \in Queues :
       IF compare[q] = UNUSED THEN head[q] \in Queues \cup {NULL}
                              ELSE {head[q], tail[q]} \subseteq Nodes \cup {NULL}
  /\ compare \in [Queues -> {UNUSED, FIFO, ASCEND}]
  /\ queue_list \in Queues \cup {NULL}

InQueue(q) == IF compare[q] = UNUSED THEN <<>> ELSE Chain(next, head[q])

\* what is on the free list and in each queue
Lists == [q \in Queues \cup {NULL} |-> IF q = NULL THEN Chain(next, qnode_list) ELSE InQueue(q)]

\* No sequence of calls leaks a node, links one into two lists, or ties a list into a
\* loop: each node is on the free list or in one queue, once.  Read from its tail along
\* prev, a queue is what it is from its head along next: the next insertion or removal,
\* at either end or in the middle, starts from sound links.
NodesAccountedFor ==
  LET lists     == Lists
      places    == UNION {{q} \X DOMAIN lists[q] : q \in Queues \cup {NULL}}
      NodeAt(p) == lists[p[1]][p[2]]
  IN  /\ ListsTypeOK
      /\ \A n \in Nodes : \E p \in places : NodeAt(p) = n
      /\ \A p, r \in places : NodeAt(p) = NodeAt(r) => p = r
      /\ \A q \in Queues : compare[q] # UNUSED =>
           /\ tail[q] = IF lists[q] = <<>> THEN NULL ELSE Last(lists[q])
           /\ \A i \in DOMAIN lists[q] :
                prev[lists[q][i]] = IF i = 1 THEN NULL ELSE lists[q][i-1]

\* the queues as QueueSpec has them
Items ==
  [q \in Queues |->
     LET c == InQueue(q)
     IN  [i \in DOMAIN c |-> [data |-> data[c[i]], key |-> key[c[i]]]]]

Abstract == INSTANCE QueueSpec WITH items <- Items

\* The lists implement the queues that QueueSpec describes: same contents, same
\* order, same status and data returned by every call.
ImplementsQueueSpec == Abstract!Spec
===============================================================================
