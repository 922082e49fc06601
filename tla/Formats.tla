-------------------------------- MODULE Formats --------------------------------
(***************************************************************************)
(* Text and numbers: the conversions of c_printf (c_io.c) and of printf    *)
(* (printf.c), which is another program for the same formats, and atoi and *)
(* strtok (string.c), with which programs take typed text apart.  A        *)
(* character is its code; a format is a sequence of directives that stand  *)
(* for what their characters say.                                          *)
(***************************************************************************)
EXTENDS Integers, Sequences, FiniteSets, SequencesExt, FiniteSetsExt

CONSTANTS
  HexDigits,     \* 8, of an int, so that it has 32 bits
  OctDigits,     \* 11: the first has fewer than three bits
  MinQuotient, MinDigit,  \* the least int without its sign, and without its last
                          \* digit, and that digit: 214748364 and 8
  Widths,        \* bound: field widths
  MaxLine        \* bound: the longest line that is taken apart

IntWord == 16^HexDigits
Ints == 0 - IntWord \div 2 .. IntWord \div 2 - 1

ASSUME FormatAssumption ==
  /\ HexDigits \in Nat \ {0} /\ OctDigits \in Nat \ {0}
  /\ 8^(OctDigits - 1) < IntWord /\ 2 * 8^(OctDigits - 1) < IntWord /\ IntWord < 8^OctDigits
  /\ 10 * MinQuotient + MinDigit = IntWord \div 2 /\ MinDigit \in 0 .. 9
  /\ Widths \subseteq Nat

VARIABLES
  number, field,  \* what is printed
  entered,        \* a line, with a 0 at its end
  line,           \* what is left of it in memory
  last,           \* the static variable of strtok: where it goes on, or 0
  tokens          \* where the words are that it has returned, then 0

fvars == <<number, field, entered, line, last, tokens>>

Space == 32
Minus == 45
Zero  == 48
digit(d, letter) == IF d < 10 THEN Zero + d ELSE letter + d - 10

signed(n) == IF n >= IntWord \div 2 THEN n - IntWord ELSE n

-----------------------------------------------------------------------------
(* c_io.c *)

\* cvtdec0 of what is not negative, except for the least int, whose sign cannot be
\* taken off
RECURSIVE cvtdec0(_)
cvtdec0(value) ==
  LET least    == value < 0
      quotient == IF least THEN MinQuotient ELSE value \div 10
      rest     == IF least THEN MinDigit ELSE value % 10
  IN Append(IF quotient # 0 THEN cvtdec0(quotient) ELSE <<>>, Zero + rest)

cvtdec(value) ==
  IF value < 0 THEN <<Minus>> \o cvtdec0(signed((0 - value) % IntWord)) ELSE cvtdec0(value)

\* the digits of a number, without the zeros in front
Digits(n, base, count) == [i \in 1 .. count |-> (n \div base^(count - i)) % base]
Stripped(ds) == SubSeq(ds, Min({i \in DOMAIN ds : ds[i] # 0} \cup {Len(ds)}), Len(ds))

cvthex(value) ==
  LET ds == Stripped(Digits(value % IntWord, 16, HexDigits))
  IN [i \in DOMAIN ds |-> digit(ds[i], 65)]

\* The sign is extended into the bits that the first digit does not have.
cvtoct(value) ==
  LET ds  == Digits(value % IntWord, 8, OctDigits)
      top == IF value < 0 THEN ds[1] + 8 - IntWord \div 8^(OctDigits - 1) ELSE ds[1]
      all == Stripped([ds EXCEPT ![1] = top])
  IN [i \in DOMAIN all |-> Zero + all[i]]

Padding(n, c) == [i \in 1 .. Max({n, 0}) |-> c]

\* padstr, at the cursor
padstr(str, f) ==
  LET extra == Padding(f.width - Len(str), IF f.zero THEN Zero ELSE Space)
  IN IF f.left THEN str \o extra ELSE extra \o str

\* One directive of __c_do_printf with its argument
Converted(f, arg) ==
  CASE f.type = "c" -> padstr(<<arg>>, f)
    [] f.type = "d" -> padstr(cvtdec(arg), f)
    [] f.type = "x" -> padstr(cvthex(arg), f)
    [] f.type = "o" -> padstr(cvtoct(arg), f)
    [] OTHER        -> <<>>

-----------------------------------------------------------------------------
(* printf.c *)

\* prints
prints(str, f) == padstr(str, f)

\* printi, whose digits are those of an unsigned int
printi(i, base, sg, f, letter) ==
  LET neg == sg /\ base = 10 /\ i < 0
      u   == IF neg THEN (0 - i) % IntWord ELSE i % IntWord
      ds  == Stripped(Digits(u, base, 3 * HexDigits))
      s   == [k \in DOMAIN ds |-> digit(ds[k], letter)]
  IN CASE neg /\ f.zero /\ f.width > 0    -> <<Minus>> \o prints(s, [f EXCEPT !.width = @ - 1])
       [] neg /\ ~(f.zero /\ f.width > 0) -> prints(<<Minus>> \o s, f)
       [] ~neg                            -> prints(s, f)

\* One directive of print with its argument
Printed(f, arg) ==
  CASE f.type = "d" -> printi(arg, 10, TRUE, f, 97)
    [] f.type = "x" -> printi(arg, 16, FALSE, f, 97)
    [] f.type = "X" -> printi(arg, 16, FALSE, f, 65)
    [] f.type = "u" -> printi(arg, 10, FALSE, f, 97)
    [] f.type = "c" -> prints(<<arg>>, f)
    [] OTHER        -> <<>>

-----------------------------------------------------------------------------
(* string.c *)

\* strchr, of the digits
IsDigit(c) == c \in Zero .. Zero + 9

atoi(s) ==
  LET past(i, C) == Min({k \in i .. Len(s) : s[k] \notin C} \cup {Len(s) + 1})
      i   == past(1, {Space, 9})
      neg == i <= Len(s) /\ s[i] = Minus
      j   == IF i <= Len(s) /\ s[i] \in {Minus, 43} THEN i + 1 ELSE i
      val == FoldLeft(LAMBDA n, c : (n * 10 + (c - Zero)) % IntWord, 0,
                      SubSeq(s, j, past(j, Zero .. Zero + 9) - 1))
  IN signed((IF neg THEN 0 - val ELSE val) % IntWord)

\* Mutant of strtok_r: the search goes on at the delimiter.
strtok_r_again(s, delim, from) ==
  LET tok == Min({i \in from .. Len(s) : s[i] \notin delim})
      end == Min({i \in tok .. Len(s) : s[i] \in delim \cup {0}})
  IN IF s[tok] = 0 THEN [tok |-> 0, s |-> s, last |-> 0]
     ELSE [tok |-> tok, s |-> s, last |-> IF s[end] = 0 THEN 0 ELSE end + 1]

\* strtok_r, from where a token is looked for: a 0 is put behind it.
strtok_r(s, delim, from) ==
  LET tok == Min({i \in from .. Len(s) : s[i] \notin delim})
      end == Min({i \in tok .. Len(s) : s[i] \in delim \cup {0}})
  IN IF s[tok] = 0 THEN [tok |-> 0, s |-> s, last |-> 0]
     ELSE [tok |-> tok, s |-> [s EXCEPT ![end] = 0], last |-> IF s[end] = 0 THEN 0 ELSE end + 1]

\* strtok: the first call has a string, the next ones none.
strtok(from) ==
  LET r == IF from = 0 THEN [tok |-> 0, s |-> line, last |-> last]
           ELSE strtok_r(line, {Space}, from)
  IN /\ line' = r.s /\ last' = r.last
     /\ tokens' = Append(tokens, r.tok)

-----------------------------------------------------------------------------
Fields == [width : Widths, left : BOOLEAN, zero : BOOLEAN]
Lines  == {Append(l, 0) : l \in UNION {[1 .. n -> {Space, Zero}] : n \in 0 .. MaxLine}}

\* a number to print,
NumbersInit ==
  /\ number \in Ints /\ field \in Fields
  /\ entered = <<0>> /\ line = entered /\ last = 0 /\ tokens = <<0>>

\* or lines, one after the other, to take apart until there are no more words
WordsInit ==
  /\ number = 0 /\ field = [width |-> 0, left |-> FALSE, zero |-> FALSE]
  /\ entered = <<0>> /\ line = entered /\ last = 0 /\ tokens = <<0>>

AllFound == tokens # <<>> /\ Last(tokens) = 0

NewLine ==
  /\ AllFound
  /\ entered' \in Lines /\ line' = entered'
  /\ last' = 1
  /\ tokens' = <<>>
  /\ UNCHANGED <<number, field>>

WordsNext == NewLine \/ (~AllFound /\ strtok(last) /\ UNCHANGED <<entered, number, field>>)

-----------------------------------------------------------------------------
(* Properties *)

Format(t) == [type |-> t] @@ field

\* what digits say, in the base that they are written in
Denotes(s, base) ==
  LET d(c) == CASE IsDigit(c) -> c - Zero [] c \in 65 .. 70 -> c - 55 [] c \in 97 .. 102 -> c - 87
  IN FoldLeft(LAMBDA n, c : n * base + d(c), 0, SelectSeq(s, LAMBDA c : c # Space))

Wide(s, plain) == Len(s) = IF Len(plain) > field.width THEN Len(plain) ELSE field.width

\* What either program prints for any int, the least included, is read as that int:
\* in decimal by atoi, with any width and padding but zeros behind the number and,
\* from c_printf, in front of its sign; in hexadecimal, and in octal if it is not
\* negative, by its digits.  A field is as wide as was asked for or as the number is.
NumbersReadBack ==
  LET plain == [field EXCEPT !.width = 0]
      dec   == Converted(Format("d"), number)
      dec_p == Printed(Format("d"), number)
  IN /\ Wide(dec, cvtdec(number)) /\ Wide(dec_p, cvtdec(number))
     /\ ~(field.zero /\ field.left) =>
          /\ atoi(dec_p) = number
          /\ ~(field.zero /\ number < 0) => dec = dec_p /\ atoi(dec) = number
          /\ Denotes(Converted(Format("x"), number), 16) = number % IntWord
          /\ Denotes(Printed(Format("x"), number), 16) = number % IntWord
          /\ Denotes(Printed(Format("u"), number), 10) = number % IntWord
          /\ number >= 0 => Denotes(Converted(Format("o"), number), 8) = number

\* The words that strtok hands out, one call after the other, are those of the line,
\* in their order, and what each is in memory then is the word.
WordsFound == AllFound =>
  LET begins == {i \in DOMAIN entered : entered[i] = Zero /\ (i = 1 \/ entered[i-1] = Space)}
      upto(s, i, C) == SubSeq(s, i, Min({k \in i .. Len(s) : s[k] \in C}) - 1)
      words == Front(tokens)
  IN /\ ToSet(words) = begins
     /\ \A k \in 1 .. Len(words)-1 : words[k] < words[k+1]
     /\ \A i \in begins : upto(line, i, {0}) = upto(entered, i, {0, Space})

\* What is printed can be typed.
ReadsBack == NumbersReadBack /\ WordsFound
=============================================================================
