------------------------------ MODULE QueueTypes ------------------------------
(***************************************************************************)
(* What the specification of the queue module and its implementation have  *)
(* in common.                                                              *)
(***************************************************************************)
EXTENDS Integers, Sequences

CONSTANTS
  N_QNODES,   \* entries there are in all
  N_QUEUES,   \* queues there are
  Data,       \* what can be queued
  Keys,       \* the keys it can be queued with
  Entries     \* the pairs of the two that are queued

ASSUME QueueAssumption ==
  /\ N_QNODES \in Nat
  /\ N_QUEUES \in Nat
  /\ Keys \subseteq Nat
  /\ Entries \subseteq Data \X Keys

Queues == 1 .. N_QUEUES

\* what a queue may be
UNUSED == "unused"     \* not allocated
FIFO   == "fifo"       \* compare = NULL
ASCEND == "ascend"     \* compare = _comp_ascend_uint

SUCCESS      == "SUCCESS"
EMPTY_QUEUE  == "EMPTY_QUEUE"
NOT_FOUND    == "NOT_FOUND"
ALLOC_FAILED == "ALLOC_FAILED"
NO_QUEUES    == "NO_QUEUES"

\* what a call returns: a status, and a value when it stores one for the caller
Failed(status) == [status |-> status]
Done           == [status |-> SUCCESS]
Given(value)   == [status |-> SUCCESS, value |-> value]
===============================================================================
