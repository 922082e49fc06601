------------------------------ MODULE AtomicDisk ------------------------------
(***************************************************************************)
(* What the layers above ata.c take a disk to be: sectors that are read    *)
(* and written one at a time, each whole and at one moment of the call.    *)
(* DerpDisk.tla and what is built on it take it so too; Ata.tla implements *)
(* it.  Once a drive has failed, a call can come back with nothing done.   *)
(***************************************************************************)
CONSTANTS
  Process,   \* who calls
  Device,    \* the drives
  Lba,       \* the sectors of a drive
  SectorData, \* what a sector can hold
  Junk       \* what no sector holds

VARIABLES
  content,   \* of the sectors of the drives
  answer,    \* what the last read gave back
  call,      \* each process: what it has called for
  failed     \* whether a drive has reported an error

vars == <<content, answer, call, failed>>

NoCall == [op |-> "none"]
Calls  == [op : {"read", "write"}, dev : Device, lba : Lba, buf : SectorData \cup {Junk}]

Init ==
  /\ content \in [Device -> [Lba -> SectorData]]
  /\ answer \in SectorData
  /\ call = [p \in Process |-> NoCall]
  /\ failed = FALSE

Becomes(p, c) == call' = [call EXCEPT ![p] = c]

Call(p) ==
  /\ call[p] = NoCall
  /\ call'[p] \in Calls /\ Becomes(p, call'[p])
  /\ UNCHANGED <<content, answer, failed>>

Read(p) ==
  /\ call[p].op = "read"
  /\ answer' = content[call[p].dev][call[p].lba]
  /\ Becomes(p, NoCall)
  /\ UNCHANGED <<content, failed>>

Write(p) ==
  /\ call[p].op = "write"
  /\ content' = [content EXCEPT ![call[p].dev][call[p].lba] = call[p].buf]
  /\ Becomes(p, [call[p] EXCEPT !.op = "written"])
  /\ UNCHANGED <<answer, failed>>

Return(p) ==
  /\ call[p].op = "written"
  /\ Becomes(p, NoCall)
  /\ UNCHANGED <<content, answer, failed>>

Fail == failed' = TRUE /\ UNCHANGED <<content, answer, call>>

\* The call comes back, or goes on as if it had been done.
Lose(p) ==
  /\ failed /\ call[p].op \in {"read", "write"}
  /\ \/ Becomes(p, NoCall)
     \/ call[p].op = "write" /\ Becomes(p, [call[p] EXCEPT !.op = "written"])
  /\ answer' \in IF call[p].op = "read" THEN {answer, Junk} ELSE {answer}
  /\ UNCHANGED <<content, failed>>

Next == Fail \/ \E p \in Process : Call(p) \/ Read(p) \/ Write(p) \/ Return(p) \/ Lose(p)

Spec == Init /\ [][Next]_vars
=============================================================================
