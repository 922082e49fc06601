--------------------------------- MODULE Sio -----------------------------------
(***************************************************************************)
(* The serial driver (sio.c): its two character buffers with their raw     *)
(* pointers, the interrupt enable bits and the transmitter of the UART,    *)
(* and the hand-over of an input character to a process that waits for     *)
(* one.  Kernel.tla has the scheduling of those processes; here the        *)
(* scheduler may put any process that does not wait on the CPU.            *)
(*                                                                         *)
(* _isr_sio loops over all pending events with interrupts off; an event is *)
(* a step here, as events that come one at a time are in the code.         *)
(* A write past the end of a buffer damages whatever the linker put there, *)
(* so the model ends with that write.  _sio_reads has no caller and        *)
(* _sio_writes only the page fault handler on its way to _kpanic.          *)
(***************************************************************************)
EXTENDS Integers, Sequences, SequencesExt

CONSTANTS
  BUF_SIZE,  \* characters in each buffer
  Procs,     \* the processes
  Init1,     \* the initial process, which never reads
  Chars,     \* the characters on the lines, without CR and LF
  CR, LF,    \* carriage return, line feed
  NONE,      \* no character
  MAX_IN,    \* bound: characters that enter the input buffer
  MAX_OUT    \* bound: calls of write

ASSUME SioAssumption ==
  /\ BUF_SIZE \in Nat \ {0}
  /\ Init1 \in Procs
  /\ CR # LF /\ {CR, LF, NONE} \cap Chars = {} /\ NONE \notin {CR, LF}
  /\ MAX_IN \in Nat
  /\ MAX_OUT \in Nat

TX == "UA4_IER_TX_INT_ENABLE"
RX == "UA4_IER_RX_INT_ENABLE"

VARIABLES
  rx,       \* _inbuffer, _inlast, _innext, _incount; overrun: written past the end
  tx,       \* _outbuffer, _outlast, _outnext, _outcount, _sending; overrun
  ier,      \* _ier
  txd,      \* the transmitter holding register, NONE when empty
  reading,  \* _reading
  current,  \* the process on the CPU
  var,      \* what the argument of each process's last read points to
  \* the history that the properties are about
  stored,   \* the characters that went into the input buffer
  taken,    \* the characters reads have taken from it
  written,  \* the characters given to the transmitter, line ends mapped
  wire,     \* the characters that left on the line
  calls     \* the number of calls of write

input  == <<rx, reading, var, stored, taken>>
output == <<tx, ier, txd, written, wire, calls>>
vars   == <<input, output, current>>

Index == 0 .. BUF_SIZE-1

\* an empty buffer, its pointers at its start
Reset(b) == [b EXCEPT !.last = 0, !.next = 0, !.count = 0]

\* *last++ = ch; ++count
Store(b, ch) ==
  IF b.last \in Index
  THEN [b EXCEPT !.buffer[b.last] = ch, !.last = @ + 1, !.count = @ + 1]
  ELSE [b EXCEPT !.overrun = TRUE]

\* what the count says is in a buffer, from next on
Buffered(b) == [i \in 1 .. b.count |-> b.buffer[b.next + i - 1]]

\* CR is mapped to LF on the way in, LF to CR LF on the way out.
MapIn(ch)  == IF ch = CR THEN LF ELSE ch
MapOut(ch) == IF ch = LF THEN <<CR, LF>> ELSE <<ch>>

\* what a write leaves in the buffer: all of it, or all but the first character
StoreAll(b, ch)  == IF ch = LF THEN Store(Store(b, CR), LF) ELSE Store(b, ch)
StoreRest(b, ch) == IF ch = LF THEN Store(b, LF) ELSE b

Empty(sending) == [buffer |-> [i \in Index |-> NONE], last |-> 0, next |-> 0,
                   count |-> 0, overrun |-> FALSE, sending |-> sending]

\* _init: _sio_init has written a first character, and RX interrupts are enabled
Init ==
  /\ rx = Empty(FALSE)
  /\ tx = Empty(TRUE)
  /\ ier = {TX, RX}
  /\ txd \in Chars
  /\ reading = <<>>
  /\ current = Init1
  /\ var = [p \in Procs |-> NONE]
  /\ stored = <<>>
  /\ taken = <<>>
  /\ written = <<txd>>
  /\ wire = <<>>
  /\ calls = 0

Intact == ~rx.overrun /\ ~tx.overrun

\* a process that does not wait gets the CPU
Schedule ==
  /\ Intact
  /\ current' \in Procs \ ToSet(reading)
  /\ UNCHANGED <<input, output>>

\* Mutant of Taken: only one of the two pointers is reset.
Taken_keeps_last ==
  LET left == [rx EXCEPT !.next = @ + 1, !.count = @ - 1]
  IN  IF left.count < 1 THEN [left EXCEPT !.next = 0] ELSE left

\* _sio_readc: the input buffer without its first character
Taken ==
  LET left == [rx EXCEPT !.next = @ + 1, !.count = @ - 1]
  IN  IF left.count < 1 THEN Reset(left) ELSE left

sys_read ==
  /\ Intact
  /\ current # Init1
  /\ IF rx.count > 0
     THEN /\ rx' = Taken
          /\ var' = [var EXCEPT ![current] = rx.buffer[rx.next]]
          /\ taken' = Append(taken, rx.buffer[rx.next])
          /\ UNCHANGED <<reading, current>>
     ELSE /\ reading' = Append(reading, current)
          /\ var' = [var EXCEPT ![current] = NONE]
          /\ current' \in Procs \ ToSet(reading')
          /\ UNCHANGED <<rx, taken>>
  /\ UNCHANGED <<output, stored>>

\* A character arrives.  A waiting process is taken off the queue, but ARG(pcb)
\* is an address in its stack, and the stacks of all processes have the same
\* address: the character goes where the stack of _current says.
isr_rx(ch) ==
  /\ Intact
  /\ RX \in ier
  /\ IF reading # <<>>
     THEN /\ reading' = Tail(reading)
          /\ \/ var' = [var EXCEPT ![current] = MapIn(ch)]
             \/ UNCHANGED var
          /\ UNCHANGED <<rx, stored>>
     ELSE /\ Len(stored) < MAX_IN
          /\ rx.count < BUF_SIZE
          /\ rx' = Store(rx, MapIn(ch))
          /\ stored' = Append(stored, MapIn(ch))
          /\ UNCHANGED <<reading, var>>
  /\ UNCHANGED <<output, current, taken>>

\* Mutants of sys_write: only a filled buffer makes it wait for its turn; the
\* transmitter interrupt is not enabled.
sys_write_by_count(ch) ==
  /\ Intact
  /\ calls < MAX_OUT
  /\ calls' = calls + 1
  /\ IF tx.count > 0
     THEN /\ tx' = StoreAll(tx, ch)
          /\ UNCHANGED <<txd, ier>>
     ELSE /\ tx' = StoreRest([tx EXCEPT !.sending = TRUE], ch)
          /\ txd' = Head(MapOut(ch))
          /\ ier' = ier \cup {TX}
  /\ written' = written \o MapOut(ch)
  /\ UNCHANGED <<input, current, wire>>

sys_write_not_enabled(ch) ==
  /\ Intact
  /\ calls < MAX_OUT
  /\ calls' = calls + 1
  /\ IF tx.sending
     THEN /\ tx' = StoreAll(tx, ch)
          /\ UNCHANGED txd
     ELSE /\ tx' = StoreRest([tx EXCEPT !.sending = TRUE], ch)
          /\ txd' = Head(MapOut(ch))
  /\ written' = written \o MapOut(ch)
  /\ UNCHANGED <<input, current, wire, ier>>

\* _sio_writec: to the buffer while the transmitter is busy, else to the
\* transmitter; the LF of a CR LF always finds it busy
sys_write(ch) ==
  /\ Intact
  /\ calls < MAX_OUT
  /\ calls' = calls + 1
  /\ IF tx.sending
     THEN /\ tx' = StoreAll(tx, ch)
          /\ UNCHANGED <<txd, ier>>
     ELSE /\ tx' = StoreRest([tx EXCEPT !.sending = TRUE], ch)
          /\ txd' = Head(MapOut(ch))
          /\ ier' = ier \cup {TX}
  /\ written' = written \o MapOut(ch)
  /\ UNCHANGED <<input, current, wire>>

\* the UART has sent the character in its register
Transmit ==
  /\ Intact
  /\ txd # NONE
  /\ wire' = Append(wire, txd)
  /\ txd' = NONE
  /\ UNCHANGED <<input, current, tx, ier, written, calls>>

\* the transmitter is empty and its interrupt enabled
isr_tx ==
  /\ Intact
  /\ TX \in ier /\ txd = NONE
  /\ IF tx.sending /\ tx.count > 0
     THEN /\ txd' = tx.buffer[tx.next]
          /\ tx' = [tx EXCEPT !.next = (@ + 1) % BUF_SIZE, !.count = @ - 1]
          /\ UNCHANGED ier
     ELSE /\ tx' = [Reset(tx) EXCEPT !.sending = FALSE]
          /\ ier' = ier \ {TX}
          /\ UNCHANGED txd
  /\ UNCHANGED <<input, current, written, wire, calls>>

\* the model ends with a write past a buffer
Damaged == ~Intact /\ UNCHANGED vars

Next ==
  \/ Schedule
  \/ sys_read
  \/ \E ch \in Chars \cup {CR} : isr_rx(ch)
  \/ \E ch \in Chars \cup {CR, LF} : sys_write(ch)
  \/ Transmit
  \/ isr_tx
  \/ Damaged

Spec == Init /\ [][Next]_vars

\* the UART sends what it is given, and its interrupts are served
FairSpec == Spec /\ WF_vars(Transmit) /\ WF_vars(isr_tx)
-----------------------------------------------------------------------------
\* The type invariant, a part of InputInOrder.
Buffers == [buffer : [Index -> Chars \cup {CR, LF, NONE}],
            last : 0 .. BUF_SIZE, next : 0 .. BUF_SIZE, count : 0 .. BUF_SIZE,
            overrun : BOOLEAN, sending : BOOLEAN]

TypeOK ==
  /\ rx \in Buffers /\ tx \in Buffers
  /\ ier \subseteq {RX, TX}
  /\ txd \in Chars \cup {CR, LF, NONE}
  /\ reading \in Seq(Procs \ {current})
  /\ var \in [Procs -> Chars \cup {CR, LF, NONE}]

\* Reads take the characters in the order they were stored, none lost or read
\* twice, although the pointers only move up and start over together whenever the
\* buffer becomes empty.
InputInOrder == TypeOK /\ (Intact => taken \o Buffered(rx) = stored)

\* The line carries what was written, in order: what a write puts straight into
\* the transmitter, what it leaves in the buffer for the interrupts, and the two
\* characters of a line end all keep their turn.
OutputInOrder ==
  Intact => wire \o (IF txd = NONE THEN <<>> ELSE <<txd>>) \o Buffered(tx) = written

\* Every character that is written leaves on the line.
EverythingIsSent ==
  \A n \in 1 .. 2 * MAX_OUT + 1 : Len(written) >= n ~> (Len(wire) >= n \/ ~Intact)

\* sio.c, _isr_sio, and docs/syscalls/read: the character that wakes a waiting
\* process is given to that process.
ReadDelivers ==
  [][\A p \in Procs : p \in ToSet(reading) /\ p \notin ToSet(reading')
                        => var'[p] # NONE]_vars

=============================================================================
