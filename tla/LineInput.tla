------------------------------- MODULE LineInput -------------------------------
(***************************************************************************)
(* The input half of c_io.c: a circular buffer between the interrupts of   *)
(* the keyboard, which put characters in, and c_gets, which takes them     *)
(* out; without interrupts c_getchar asks the keyboard itself.  There is   *)
(* no lock: the two are interleaved here at every access to what they      *)
(* share.  The echo of a character is a c_putchar of TextScreen.tla.       *)
(***************************************************************************)
EXTENDS Integers, Sequences

CONSTANTS
  C_BUFSIZE,
  CharKeys,  \* keys that are looked up in scan_code
  scan_code, \* of a key, without and with shift
  Undefined, \* '\377', what scan_code has for a key without a character
  control,   \* what ctrl_mask leaves of a character
  LF, EOT,   \* the characters that end a line
  LineSizes  \* bound: the sizes given to c_gets

ASSUME InputAssumption ==
  /\ C_BUFSIZE \in Nat /\ C_BUFSIZE > 1
  /\ LineSizes \subseteq Nat \ {0}

Char == {scan_code[k][s] : k \in CharKeys, s \in {0, 1}}
          \cup {control[scan_code[k][s]] : k \in CharKeys, s \in {0, 1}}
Place == 0 .. C_BUFSIZE-1

VARIABLES
  buffer,      \* __c_input_buffer
  next_char,   \* __c_next_char, where the next character is taken
  next_space,  \* __c_next_space, where the next one is put
  shift, ctrl, \* the keys that are held
  reader       \* c_gets and c_getchar: where they are, with their variables

ivars == <<buffer, next_char, next_space, shift, ctrl, reader>>

NotReading == [at |-> "none", size |-> 1, line |-> <<>>, c |-> LF, interrupts |-> TRUE]

InputInit ==
  /\ buffer = [i \in Place |-> LF]
  /\ next_char = 0 /\ next_space = 0
  /\ shift = 0 /\ ctrl = FALSE
  /\ reader = NotReading

At(a) == reader.at = a

\* __c_increment
increment(i) == IF i + 1 >= C_BUFSIZE THEN 0 ELSE i + 1

\* Mutant of Pressed: no place stays free.
Pressed_full(k) ==
  /\ buffer' = [buffer EXCEPT ![next_space] = scan_code[k][shift]]
  /\ next_space' = increment(next_space)
  /\ UNCHANGED <<shift, ctrl>>

\* __c_input_scan_code: a shift or control key that goes down or up, or a character,
\* for which one place must stay free.  The test that should leave out Undefined leaves
\* out nothing: scan_code is of unsigned char and gives 255, and '\377' is -1.
Pressed(k) ==
  LET c    == scan_code[k][shift]
      next == increment(next_space)
  IN /\ IF next # next_char
        THEN /\ buffer' = [buffer EXCEPT ![next_space] = IF ctrl THEN control[c] ELSE c]
             /\ next_space' = next
        ELSE UNCHANGED <<buffer, next_space>>
     /\ UNCHANGED <<shift, ctrl>>

Modifier ==
  /\ \/ shift' = 1 - shift /\ UNCHANGED ctrl
     \/ ctrl' = ~ctrl /\ UNCHANGED shift
  /\ UNCHANGED <<buffer, next_space>>

input_scan_code == Modifier \/ \E k \in CharKeys : Pressed(k)

\* __c_keyboard_isr, which comes between any two steps of a reader that has
\* interrupts enabled
c_keyboard_isr ==
  /\ reader.interrupts
  /\ input_scan_code
  /\ UNCHANGED <<next_char, reader>>

\* c_gets, of a buffer that has room for n-1 characters
c_gets(n, enabled) ==
  /\ At("none")
  /\ reader' = IF n > 1 THEN [NotReading EXCEPT !.at = "wait", !.size = n, !.interrupts = enabled]
               ELSE NotReading
  /\ UNCHANGED <<buffer, next_char, next_space, shift, ctrl>>

\* c_getchar: the buffer is not empty,
Wait ==
  /\ At("wait") /\ next_char # next_space
  /\ reader' = [reader EXCEPT !.at = "take"]
  /\ UNCHANGED <<buffer, next_char, next_space, shift, ctrl>>

\* or is to be filled by the reader itself;
Poll ==
  /\ At("wait") /\ next_char = next_space /\ ~reader.interrupts
  /\ input_scan_code
  /\ UNCHANGED <<next_char, reader>>

\* a character is taken,
Take ==
  /\ At("take")
  /\ reader' = [reader EXCEPT !.at = "advance", !.c = buffer[next_char]]
  /\ UNCHANGED <<buffer, next_char, next_space, shift, ctrl>>

\* and its place is free; c_gets goes on unless the line ends.
Advance ==
  LET c    == reader.c
      line == IF c = EOT THEN reader.line ELSE Append(reader.line, c)
      ends == c \in {LF, EOT} \/ reader.size = 2
  IN /\ At("advance")
     /\ next_char' = increment(next_char)
     /\ reader' = IF ends THEN [NotReading EXCEPT !.line = line]
                  ELSE [reader EXCEPT !.at = "wait", !.size = @ - 1, !.line = line]
     /\ UNCHANGED <<buffer, next_space, shift, ctrl>>

InputNext ==
  \/ c_keyboard_isr
  \/ \E n \in LineSizes, enabled \in BOOLEAN : c_gets(n, enabled)
  \/ Wait \/ Poll \/ Take \/ Advance

-----------------------------------------------------------------------------
\* c_input_queue
n_chars == LET n == next_space - next_char IN IF n < 0 THEN n + C_BUFSIZE ELSE n

Store == INSTANCE InputLine WITH
  NL      <- LF,
  Room    <- C_BUFSIZE - 1,
  waiting <- [i \in 1 .. n_chars |-> buffer[(next_char + i - 1) % C_BUFSIZE]],
  line    <- reader.line,
  size    <- IF At("none") THEN 0 ELSE reader.size - 1

\* The two pointers, of which each side changes one and reads both, are a queue: from
\* an interrupt between any two accesses no character is lost, read twice or read
\* before it is written, and one is refused only when C_BUFSIZE-1 wait.  Undefined is a
\* character like others here, as it is in the code; see UndefinedIgnored.
ReadsWhatIsTyped == Store!Init /\ [][Store!Next]_(Store!lvars)

\* What c_io.c:624 says: "Ignore undefined scan codes".  No reader ever finds the
\* character of one waiting.
UndefinedIgnored == \A i \in 0 .. n_chars - 1 : buffer[(next_char + i) % C_BUFSIZE] # Undefined
=============================================================================
