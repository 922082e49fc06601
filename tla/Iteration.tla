------------------------------ MODULE Iteration ------------------------------
(***************************************************************************)
(* The loops of the kernel run one body over one piece of state until a    *)
(* condition fails.  A loop is modelled by its body, as a function from    *)
(* states to states that is the identity once the condition has failed,    *)
(* iterated at least as often as the loop can go round.                    *)
(***************************************************************************)
EXTENDS Integers

Iterate(body, x, n) ==
  LET after[i \in 0..n] == IF i = 0 THEN x ELSE body[after[i-1]]
  IN  after[n]
==============================================================================
