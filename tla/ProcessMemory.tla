----------------------------- MODULE ProcessMemory -----------------------------
(***************************************************************************)
(* What the processes of DERP OS are promised about their stacks: each has *)
(* one to itself, and fork gives the child a copy of its parent's, in      *)
(* which only the result of fork differs.                                  *)
(***************************************************************************)
EXTENDS Integers

CONSTANTS
  N_PCBS,       \* entries of the PCB table
  STACK_PAGES,  \* pages of a stack
  Values        \* what a page of a stack may hold

Pcbs  == 1 .. N_PCBS
Slots == 1 .. STACK_PAGES

NOBODY == 0

\* what fork stores for the child, and for the parent (the pid of the child)
CHILD  == 0
PARENT == 1

VARIABLES
  live,     \* the processes there are
  running,  \* the one that runs, or NOBODY
  mem       \* the stack of each process, all zero for those not live

ZeroStack == [s \in Slots |-> 0]

Init ==
  /\ live = {1}
  /\ running = 1
  /\ mem \in [Pcbs -> [Slots -> Values]]
  /\ \A p \in Pcbs \ {1} : mem[p] = ZeroStack

\* the running process stores to a page of its stack
Store(s, v) ==
  /\ running # NOBODY
  /\ mem' = [mem EXCEPT ![running][s] = v]
  /\ UNCHANGED <<live, running>>

\* fork: the result of the call is kept in page s of the stack
Fork(new, s) ==
  /\ running # NOBODY
  /\ new \in Pcbs \ live
  /\ live' = live \cup {new}
  /\ mem' = [mem EXCEPT ![running][s] = PARENT,
                        ![new] = [mem[running] EXCEPT ![s] = CHILD]]
  /\ UNCHANGED running

\* process p ends; the dispatcher will select the next one
End(p) ==
  /\ p \in live
  /\ live' = live \ {p}
  /\ mem' = [mem EXCEPT ![p] = ZeroStack]
  /\ running' = NOBODY

Run(p) ==
  /\ p \in live
  /\ running' = p
  /\ UNCHANGED <<live, mem>>

Next ==
  \/ \E s \in Slots, v \in Values : Store(s, v)
  \/ \E new \in Pcbs, s \in Slots : Fork(new, s)
  \/ \E p \in Pcbs : End(p) \/ Run(p)

Spec == Init /\ [][Next]_<<live, running, mem>>
===============================================================================
