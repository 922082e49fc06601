---------------------------------- MODULE Ata ---------------------------------
(***************************************************************************)
(* The transfer of sectors by ata.c, register write by register write: the *)
(* driver fills the address registers of a channel that two drives share,  *)
(* gives a command, waits by looking at the status, and moves the data.    *)
(*                                                                         *)
(* The registers take 48 bits of address through ports that are written    *)
(* twice, the upper bytes first; a byte is a digit of base Base here.  The *)
(* 256 words of a sector are moved in one step.  The drives are external:  *)
(* they do what the driver relies on, and can fail any command.            *)
(***************************************************************************)
EXTENDS Integers, Sequences, FiniteSets

CONSTANTS
  Process,   \* who transfers sectors; ata.c has no lock, and needs one process
  Base,      \* 256: the values of a register
  Device,    \* the drives of the channel: master 0 and slave 1
  Asked,     \* bound: the sectors that are asked for
  SectorData, \* what a sector can hold
  Blank,     \* the one that all sectors hold at first
  Junk       \* what the data port gives when no data is there

ASSUME AtaAssumption ==
  /\ Base \in Nat \ {0, 1}
  /\ Device \subseteq {0, 1}
  /\ Blank \in SectorData /\ Junk \notin SectorData

Lba == 0 .. Base*Base*Base*Base - 1

ASSUME AskedAssumption == Asked \subseteq Lba

VARIABLES
  regs,      \* the values last written to each port, and the ones before them
  drive,     \* each drive: its status, and the command it carries out
  medium,    \* what is on the drives
  driver,    \* each process: the transfer it makes
  answer,    \* the sector that was read last
  failed     \* whether a drive has ever reported an error

avars == <<regs, drive, medium, driver, answer, failed>>

Port == {"sel", "lba0", "lba1", "lba2", "count"}

Idle == [at |-> "idle", op |-> "none", dev |-> 0, lba |-> 0, buf |-> Junk, todo |-> <<>>]

NoCommand == [busy |-> FALSE, err |-> FALSE, drq |-> FALSE, op |-> "none", lba |-> 0]

AtaInit ==
  /\ regs = [p \in Port |-> [now |-> 0, before |-> 0]]
  /\ drive = [d \in Device |-> NoCommand]
  /\ medium = [d \in Device |-> [l \in Lba |-> Blank]]
  /\ driver = [p \in Process |-> Idle]
  /\ answer = Blank
  /\ failed = FALSE

-----------------------------------------------------------------------------
\* The byte of an address that (lba & mask) >> shift takes out of it
Byte(lba, n) == LET power[i \in 0 .. 3] == IF i = 0 THEN 1 ELSE Base * power[i-1]
                IN (lba \div power[n]) % Base

\* Mutant of Setup: the lower bytes go first.
Setup_lower_first(dev, lba) ==
  << <<"sel", dev>>,
     <<"lba0", Byte(lba, 0)>>, <<"lba1", Byte(lba, 1)>>, <<"lba2", Byte(lba, 2)>>,
     <<"count", 1>>,
     <<"lba0", Byte(lba, 3)>>, <<"lba1", 0>>, <<"lba2", 0>>, <<"count", 0>> >>

\* Steps 1a and 1b: the drive, then the address and the count, whose upper bytes go
\* through the ports of the lower ones (_ata_write_reg maps 0x08 - 0x0B to them).
Setup(dev, lba) ==
  << <<"sel", dev>>,
     <<"lba0", Byte(lba, 3)>>, <<"lba1", 0>>, <<"lba2", 0>>, <<"count", 0>>,
     <<"lba0", Byte(lba, 0)>>, <<"lba1", Byte(lba, 1)>>, <<"lba2", Byte(lba, 2)>>,
     <<"count", 1>> >>

Selected == regs["sel"].now
Address  == regs["lba0"].now + Base * regs["lba1"].now + Base*Base * regs["lba2"].now
            + Base*Base*Base * regs["lba0"].before

Status == drive[Selected]

At(p, a)  == driver[p].at = a
To(p, a)  == driver' = [driver EXCEPT ![p].at = a]

\* _ata_read_sector and _ata_write_sector are called.
Call(p) ==
  /\ At(p, "idle")
  /\ \E op \in {"read", "write"}, d \in Device, l \in Asked, v \in SectorData :
       driver' = [driver EXCEPT ![p] = [at |-> "setup", op |-> op, dev |-> d, lba |-> l,
                    buf |-> IF op = "write" THEN v ELSE Junk, todo |-> Setup(d, l)]]
  /\ UNCHANGED <<regs, drive, medium, answer, failed>>

Out(p) ==
  LET w == Head(driver[p].todo) IN
  /\ At(p, "setup") /\ driver[p].todo # <<>>
  /\ regs' = [regs EXCEPT ![w[1]] = [now |-> w[2], before |-> @.now]]
  /\ driver' = [driver EXCEPT ![p].todo = Tail(@)]
  /\ UNCHANGED <<drive, medium, answer, failed>>

\* The drive that is selected takes a command, with the address the registers hold.
Command(op) ==
  drive' = [drive EXCEPT ![Selected] =
              [NoCommand EXCEPT !.busy = TRUE, !.op = op, !.lba = Address]]

\* Step 2
GiveCommand(p) ==
  /\ At(p, "setup") /\ driver[p].todo = <<>>
  /\ Command(driver[p].op)
  /\ To(p, "look")
  /\ UNCHANGED <<regs, medium, answer, failed>>

-----------------------------------------------------------------------------
(* _ata_wait_bsy: the error bit is looked at once, then only the busy bit. *)

\* Mutant of Look: on an error the command is given again.
Look_again(p) ==
  /\ At(p, "look")
  /\ To(p, IF Status.err THEN "setup" ELSE "wait")
  /\ UNCHANGED <<regs, drive, medium, answer, failed>>

\* Step 3, which gives the transfer up on an error; the error register is not 0.
Look(p) ==
  /\ At(p, "look")
  /\ IF Status.err THEN driver' = [driver EXCEPT ![p] = Idle] ELSE To(p, "wait")
  /\ UNCHANGED <<regs, drive, medium, answer, failed>>

\* Step 4: the data, or what comes from a drive that has none
Transfer(p) ==
  LET r == driver[p]
      d == Status
  IN /\ At(p, "wait") /\ ~d.busy
     /\ CASE r.op = "read" ->
               /\ answer' = IF d.drq THEN medium[Selected][d.lba] ELSE Junk
               /\ drive' = [drive EXCEPT ![Selected].drq = FALSE]
               /\ driver' = [driver EXCEPT ![p] = Idle]
               /\ UNCHANGED medium
          [] r.op = "write" ->
               /\ IF d.drq
                  THEN /\ medium' = [medium EXCEPT ![Selected][d.lba] = r.buf]
                       /\ drive' = [drive EXCEPT ![Selected].drq = FALSE, ![Selected].busy = TRUE]
                  ELSE UNCHANGED <<medium, drive>>
               /\ To(p, "written")
               /\ UNCHANGED answer
     /\ UNCHANGED <<regs, failed>>

\* Step 5 of a write: wait, make the drive empty its cache, and wait again.  What
\* the drive says is not looked at.
Flush(p) ==
  /\ At(p, "written") /\ ~Status.busy
  /\ Command("flush")
  /\ To(p, "flushed")
  /\ UNCHANGED <<regs, medium, answer, failed>>

Return(p) ==
  /\ At(p, "flushed") /\ ~Status.busy
  /\ driver' = [driver EXCEPT ![p] = Idle]
  /\ UNCHANGED <<regs, drive, medium, answer, failed>>

-----------------------------------------------------------------------------
\* A drive comes to the end of what it was busy with, well or not.
Finish(d) ==
  /\ drive[d].busy
  /\ \/ /\ drive' = [drive EXCEPT ![d].busy = FALSE, ![d].op = "none",
                                  ![d].drq = (drive[d].op \in {"read", "write"})]
        /\ UNCHANGED failed
     \/ /\ drive' = [drive EXCEPT ![d] = [NoCommand EXCEPT !.err = TRUE]]
        /\ failed' = TRUE
  /\ UNCHANGED <<regs, medium, driver, answer>>

AtaNext ==
  \/ \E p \in Process : Call(p) \/ Out(p) \/ GiveCommand(p) \/ Look(p) \/ Transfer(p)
                        \/ Flush(p) \/ Return(p)
  \/ \E d \in Device : Finish(d)

\* The processor goes on, and a drive comes to an end with every command.
Fairness == WF_avars(AtaNext)

AtaSpec == AtaInit /\ [][AtaNext]_avars /\ Fairness

-----------------------------------------------------------------------------
(* Properties *)

\* What each process waits for, and the write that it has made
Called(p) == LET r == driver[p] IN
  IF At(p, "idle") THEN [op |-> "none"]
  ELSE [op  |-> IF r.at \in {"written", "flushed"} THEN "written" ELSE r.op,
        dev |-> r.dev, lba |-> r.lba, buf |-> r.buf]

Sectors == INSTANCE AtomicDisk WITH
  content <- medium,
  call    <- [p \in Process |-> Called(p)]

\* The writes to the registers, the commands and the waits of one process do what
\* one read or write of the sector asked for does, on a channel whose registers hold
\* what is left of the transfers before, also with the other drive.  A transfer that
\* failed does nothing, answers with junk, and misleads none of the next.
ImplementsAtomicDisk == Sectors!Init /\ [][Sectors!Next]_(Sectors!vars)

\* Every call comes back: no transfer waits for a busy drive that has nothing to do
\* (_ata_wait_bsy and the loop of Flush have no timeout).
CallsReturn == \A p \in Process : ~At(p, "idle") ~> At(p, "idle")
=============================================================================
