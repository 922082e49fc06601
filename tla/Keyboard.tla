------------------------------- MODULE Keyboard --------------------------------
(***************************************************************************)
(* The keyboard driver (keyboard.c) and its read calls (_sys_read_buf,     *)
(* _sys_read_char), with the focus that WinMan keeps.  A process that      *)
(* reads waits in _buf_block for the interrupts to fill its buffer.        *)
(*                                                                         *)
(* requests is an array of TOTAL_IO_REQS pointers that nothing is ever     *)
(* assigned to: all are null, and all entries are the one record at        *)
(* address 0.  When it is in use, -1 goes through the Uint8 that           *)
(* _ps2_get_io_req returns and arrives as 255: the request is filed        *)
(* through whatever word lies that far behind the array, which is null     *)
(* too or points elsewhere.                                                *)
(*                                                                         *)
(* Interrupts are off in handlers; an interrupt that is not acknowledged   *)
(* keeps further ones away until some handler acknowledges.                *)
(***************************************************************************)
EXTENDS WinMan, Sequences

CONSTANTS
  Keys,        \* the scan codes that arrive
  Sizes,       \* the sizes of reads; 0 is read_char
  MAX_TYPED    \* bound: characters typed while a process reads

\* scan codes (keyboard.h)
CTRL_P == 29       \* 0x1D; with an 0xE0 before it the right one
CTRL_R == 157
ALT_P == 56
ALT_R == 184
LSHIFT_P == 42
RSHIFT_P == 54
LSHIFT_R == 170
RSHIFT_R == 182
CAPLCK_P == 58
CAPLCK_R == 186
UP_P == 72
LEFT_P == 75
RIGHT_P == 77
DOWN_P == 80
LWIN_P == 91
RWIN_P == 92
ACK == 254
EXTENDED == 224
NEWLINE == 28
F1_to_F10 == 59 .. 68
F11_P == 87
F12_P == 88

FunctionKeys == F1_to_F10 \cup {F11_P, F12_P}

\* the screen that a function key names
FunctionScreen(key) == IF key \in F1_to_F10 THEN key - 59 ELSE key - F11_P + 10

\* codes for which both rows of _ps2_scan_code have a character that is passed on
Characters == (2 .. 13) \cup (16 .. 28) \cup (30 .. 41) \cup {43} \cup (44 .. 53)
                \cup {55, 57} \cup (71 .. 83)

\* after these the handler returns at once, without _ps2_ack_int
Silent == {LSHIFT_P, RSHIFT_P, LSHIFT_R, RSHIFT_R, CAPLCK_P, CAPLCK_R, CTRL_P,
           ALT_P, ALT_R}

ASSUME KeyboardAssumption ==
  /\ Keys \subseteq 0 .. 255
  /\ \A key \in Keys \cap FunctionKeys : FunctionScreen(key) \in Screens
  /\ Sizes \subseteq Nat
  /\ MAX_TYPED \in Nat

VARIABLES
  shift_pressed, ctrl_pressed, alt_pressed, win_pressed,
  await_next,      \* the next code follows an 0xE0
  in_service,      \* the interrupt controller waits for an acknowledgement
  request,         \* the record at address 0: pid, size, index
  waiting,         \* the processes in _buf_block
  buf,             \* what is stored in the buffer of each process
  typed            \* history: what was typed with the focus on it, while it waits

modifiers == <<shift_pressed, ctrl_pressed, alt_pressed, win_pressed>>
readVars  == <<request, waiting, buf, typed>>
vars      == <<winVars, modifiers, await_next, in_service, readVars>>

NoRequest == [pid |-> NOBODY, size |-> -1, index |-> -1]

\* what the driver makes of a key: its character, in upper or lower case
Chars == [code : Characters, upper : BOOLEAN]

\* the bits of the status byte
Flags == [shift : BOOLEAN, alt : BOOLEAN, ctrl : BOOLEAN]

Init ==
  /\ WinInit
  /\ shift_pressed = FALSE /\ ctrl_pressed = FALSE
  /\ alt_pressed = FALSE /\ win_pressed = FALSE
  /\ await_next = FALSE
  /\ in_service = FALSE
  /\ request = NoRequest
  /\ waiting = {}
  /\ buf = [p \in Pids |-> <<>>]
  /\ typed = [p \in Pids |-> <<>>]
-----------------------------------------------------------------------------
\* buf_read: the first free entry, or the word behind the array; the process is queued
\* in either case (FullTableReturns), and the call acknowledges, as all calls do
sys_read(p, size) ==
  /\ p \in Running \ waiting
  /\ \/ request' = [pid |-> p, size |-> size, index |-> 0]
     \/ request.index # -1 /\ UNCHANGED request
  /\ waiting' = waiting \cup {p}
  /\ buf' = [buf EXCEPT ![p] = <<>>]
  /\ typed' = [typed EXCEPT ![p] = <<>>]
  /\ in_service' = FALSE
  /\ UNCHANGED <<winVars, modifiers, await_next>>

\* fork in spawnp, and exit
sys_fork == Spawn /\ in_service' = FALSE /\ UNCHANGED <<modifiers, await_next, readVars>>
sys_exit(p) ==
  /\ p \notin waiting
  /\ Exit(p)
  /\ in_service' = FALSE
  /\ buf' = [buf EXCEPT ![p] = <<>>]
  /\ typed' = [typed EXCEPT ![p] = <<>>]
  /\ UNCHANGED <<modifiers, await_next, request, waiting>>

\* any other call; the idle process for one never stops writing
syscall == in_service' = FALSE /\ UNCHANGED <<winVars, modifiers, await_next, readVars>>

\* a child of spawnp in get_screen_buffer
get_screen_buffer(p) ==
  /\ TestScreen(p) \/ SetScreen(p)
  /\ UNCHANGED <<modifiers, await_next, in_service, readVars>>

\* the quadrant next to q in the direction of an arrow key
Moved(q, key) ==
  CASE key = UP_P /\ q > 1            -> q - 2
    [] key = DOWN_P /\ q < 2          -> q + 2
    [] key = LEFT_P /\ q % 2 = 1      -> q - 1
    [] key = RIGHT_P /\ q % 2 = 0     -> q + 1
    [] OTHER                          -> q

\* A modifier key.  The release of the left ctrl key clears nothing, and nothing
\* clears win_pressed.
Modify(key) ==
  /\ shift_pressed' = \/ key \in {LSHIFT_P, RSHIFT_P}
                      \/ shift_pressed /\ key \notin {LSHIFT_R, RSHIFT_R}
  /\ ctrl_pressed' = \/ key = CTRL_P
                     \/ ctrl_pressed /\ ~(await_next /\ key = CTRL_R)
  /\ alt_pressed' = \/ key = ALT_P
                    \/ alt_pressed /\ key # ALT_R
  /\ win_pressed' = \/ win_pressed
                    \/ await_next /\ key \in {LWIN_P, RWIN_P}

\* Mutant of Complete: _ps2_delete_request leaves size and index alone.
Complete_half(p) ==
  /\ request' = [request EXCEPT !.pid = NOBODY]
  /\ waiting' = waiting \ {p}

\* _ps2_delete_request, _ps2_remove_from_queue, _sched
Complete(p) ==
  /\ request' = NoRequest
  /\ waiting' = waiting \ {p}

\* Mutant of write_to_active: the request is not looked up by the focus.
write_to_active_any(c, flags, p) ==
  LET holder == request.pid
      i      == request.index
  IN  IF p = NOBODY \/ holder = NOBODY THEN UNCHANGED <<request, waiting, buf>>
      ELSE IF request.size = 0
      THEN buf' = [buf EXCEPT ![holder] = <<flags, c>>] /\ Complete(holder)
      ELSE IF c.code = NEWLINE \/ i = request.size
      THEN UNCHANGED buf /\ Complete(holder)
      ELSE /\ buf' = [buf EXCEPT ![holder] = Append(@, c)]
           /\ request' = [request EXCEPT !.index = i + 1]
           /\ UNCHANGED waiting

\* The character for process p, which has the focus.  buf is the text before the
\* final nul byte: at index size the character is stored and then overwritten, so that
\* a read of size characters ends with one key more (FullReadEnds).
write_to_active(c, flags, p) ==
  LET i == request.index
  IN  IF p = NOBODY \/ request.pid # p THEN UNCHANGED <<request, waiting, buf>>
      ELSE IF request.size = 0
      THEN buf' = [buf EXCEPT ![p] = <<flags, c>>] /\ Complete(p)
      ELSE IF c.code = NEWLINE \/ i = request.size
      THEN UNCHANGED buf /\ Complete(p)
      ELSE /\ buf' = [buf EXCEPT ![p] = Append(@, c)]
           /\ request' = [request EXCEPT !.index = i + 1]
           /\ UNCHANGED waiting

\* a character key, when quadrant q has the focus
Character(key, q) ==
  LET p == ActivePid(q)
      c == [code |-> key, upper |-> shift_pressed]
      flags == [shift |-> shift_pressed, alt |-> alt_pressed, ctrl |-> ctrl_pressed]
  IN  /\ p \in waiting => Len(typed[p]) < MAX_TYPED
      /\ write_to_active(c, flags, p)
      /\ typed' = IF p \in waiting THEN [typed EXCEPT ![p] = Append(@, c)] ELSE typed

\* _ps2_keyboard_isr.  The second code of an extended key is looked at twice: with
\* win_pressed the arrow keys move the focus first, and then give the new focus the
\* digits that share their codes (ArrowKeyUnseen).
keyboard_isr(key) ==
  LET quad == IF await_next /\ win_pressed THEN switch_active(Moved(active_quad, key))
              ELSE active_quad
  IN  /\ ~in_service
      /\ ~(await_next /\ key = ACK)
      /\ active_quad' = quad
      /\ Modify(key)
      /\ await_next' = (key = EXTENDED)
      /\ in_service' = (key \in Silent)
      /\ IF key \in FunctionKeys
         THEN set_active(FunctionScreen(key), quad)
         ELSE UNCHANGED screens
      /\ IF key \in Characters THEN Character(key, quad) ELSE UNCHANGED readVars
      /\ UNCHANGED <<owner, spawned, stage, index>>

Next ==
  \/ \E p \in Pids : \/ \E size \in Sizes : sys_read(p, size)
                     \/ sys_exit(p)
                     \/ get_screen_buffer(p)
  \/ sys_fork
  \/ syscall
  \/ \E key \in Keys : keyboard_isr(key)

Spec == Init /\ [][Next]_vars
-----------------------------------------------------------------------------
\* The type invariant, a part of HolderWaits.
TypeOK ==
  /\ WinTypeOK
  /\ {shift_pressed, ctrl_pressed, alt_pressed, win_pressed} \subseteq BOOLEAN
  /\ await_next \in BOOLEAN
  /\ in_service \in BOOLEAN
  /\ request \in {NoRequest} \cup [pid : Pids, size : Sizes, index : Nat]
  /\ waiting \subseteq Running
  /\ buf \in [Pids -> Seq(Chars \cup Flags)]
  /\ typed \in [Pids -> Seq(Chars)]

\* A request on file is that of a process in _buf_block, so that _ps2_remove_from_queue
\* finds the PCB it gives to _sched; its index is the number of characters stored, and
\* never beyond the size that was asked for.
HolderWaits ==
  /\ TypeOK
  /\ request # NoRequest =>
       /\ request.pid \in waiting
       /\ request.index = Len(buf[request.pid])
       /\ request.index <= request.size

\* What a read of this size returns when s has been typed: its first characters,
\* without the newline.
Answer(s, size) ==
  LET last == Len(s)
      n    == IF s[last].code = NEWLINE THEN last - 1 ELSE last
  IN  SubSeq(s, 1, IF n < size THEN n ELSE size)

\* A read returns what was typed since it began, while its process had the focus, and
\* no character that was typed for another one, whatever the focus did meanwhile.
\* Typed is whatever the driver has a character for: an arrow key counts as the digit
\* of its code, and the key that ends a full read is not among what it returns.  That
\* the docs promise otherwise is stated after this.
ReadsWhatWasTyped ==
  [][\A p \in waiting : p \notin waiting' =>
       /\ typed'[p] # <<>>
       /\ IF request.size = 0
          THEN Len(typed'[p]) = 1 /\ buf'[p] = <<buf'[p][1], typed'[p][1]>>
          ELSE buf'[p] = Answer(typed'[p], request.size)]_vars

\* docs/syscalls/read_buf:24-25: the arrow keys are never seen.  But after the 0xE0 the
\* handler falls through to the characters (keyboard.c:226), and a process that reads
\* gets a digit.
ArrowKeyUnseen ==
  \A key \in Keys \cap {UP_P, DOWN_P, LEFT_P, RIGHT_P} :
    await_next /\ keyboard_isr(key) => UNCHANGED buf

\* keyboard.c:418-419: a read fills its buffer until size characters have been read.
\* But the test is for the index before it was advanced (keyboard.c:345-352): with size
\* characters stored the process still waits.
FullReadEnds ==
  request # NoRequest /\ request.size > 0 => request.index < request.size

\* docs/syscalls/read_buf:50-52 and read_char:47-49: without a free entry in the table
\* the call returns at once.  But -1 arrives as 255 (keyboard.c:278, 430), and the
\* process waits without a request.
FullTableReturns == waiting \subseteq {request.pid}

\* The pages of read_buf and read_char, and keyboard.c, promise these three things.  That
\* at least one of them is kept at every step is the least they say together: it fails
\* when an arrow key is stored as the last character of a read, which goes on, while
\* another process waits without a request.
SomePromiseOfReadsKept ==
  [][ArrowKeyUnseen \/ FullReadEnds' \/ FullTableReturns]_vars
================================================================================
