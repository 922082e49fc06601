------------------------------- MODULE MCStorage -------------------------------
(* The file system on a small partition, the transfers of sectors, and the making *)
(* of partitions: each is explored with the others at rest, as none looks at the   *)
(* state of another.                                                               *)
EXTENDS MCDerpFs, Ata, Partitions, TLC

VARIABLE part   \* which of the three it is

mcvars == <<vars, avars, pvars, part>>

MCInit == Init /\ AtaInit /\ PartitionsInit /\ part \in {"files", "transfers", "partitions"}

Calls     == part = "files" /\ Next /\ UNCHANGED <<avars, pvars, part>>
Transfers == part = "transfers" /\ AtaNext /\ UNCHANGED <<vars, pvars, part>>
Parts     == part = "partitions" /\ PartitionsNext /\ UNCHANGED <<vars, avars, part>>

\* The files stop at a call that the code does not survive, and are not checked for
\* a deadlock.
Stopped == part = "files" /\ UNCHANGED mcvars

MCNext == Calls \/ Transfers \/ Parts \/ Stopped

\* The fairness of Ata
MCSpec == MCInit /\ [][MCNext]_mcvars /\ WF_mcvars(Transfers)

MCControllers == (<<0, 1, 1>> :> <<0, 20, 0, 0>>) @@ (<<0, 2, 0>> :> <<0, 0, 0, 0>>)
MCStarts == {1, 10, 60}
MCSizes  == {4, 6}
MCAsked  == {6, 9}
MCDevice == {0, 1}
=============================================================================
