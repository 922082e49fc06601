------------------------------- MODULE InputLine -------------------------------
(***************************************************************************)
(* What c_gets promises: characters are read in the order in which they    *)
(* were typed, up to the end of a line; what is typed with as many waiting *)
(* as there is room for is lost, and nothing else.                         *)
(***************************************************************************)
EXTENDS Naturals, Sequences

CONSTANTS
  Char,
  NL, EOT,   \* the characters that end a line; EOT is not part of it
  Room       \* how many can wait

VARIABLES
  waiting,   \* typed and not read
  line,      \* the line that is read, or was read last
  size       \* how much room it has left; 0 when c_gets is not running

lvars == <<waiting, line, size>>

Init == waiting = <<>> /\ line = <<>> /\ size = 0

Type(c) ==
  /\ waiting' = IF Len(waiting) < Room THEN Append(waiting, c) ELSE waiting
  /\ UNCHANGED <<line, size>>

Call ==
  /\ size = 0 /\ size' \in Nat
  /\ line' = <<>>
  /\ UNCHANGED waiting

Got(c, rest) ==
  /\ size > 0
  /\ waiting' = rest
  /\ line' = IF c = EOT THEN line ELSE Append(line, c)
  /\ size' = IF c \in {NL, EOT} THEN 0 ELSE size - 1

Next ==
  \/ \E c \in Char : Type(c)
  \/ Call
  \/ waiting # <<>> /\ Got(Head(waiting), Tail(waiting))

Spec == Init /\ [][Next]_lvars
=============================================================================
