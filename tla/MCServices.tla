------------------------------ MODULE MCServices ------------------------------
(* What fork, exit and the scheduler rest on: the queues, and the memory of the    *)
(* processes.  Each is explored with the other at rest, as neither looks at the    *)
(* state of the other.                                                             *)
EXTENDS QueueLists, AddressSpaces

VARIABLE part   \* which of the two it is

mcvars == <<lvars, vars, part>>

MCInit == ListsInit /\ Init /\ part \in {"lists", "memory"}

ListCalls == part = "lists" /\ ListsNext /\ UNCHANGED <<vars, part>>
Memory    == part = "memory" /\ Next /\ UNCHANGED <<lvars, part>>

MCNext == ListCalls \/ Memory
MCSpec == MCInit /\ [][MCNext]_mcvars

\* one datum is queued with either key, so that equal keys meet different data
MCEntries == {<<8, 0>>, <<9, 0>>, <<8, 1>>}
=============================================================================
