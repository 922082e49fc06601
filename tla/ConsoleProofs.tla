---------------------------- MODULE ConsoleProofs -----------------------------
(***************************************************************************)
(* Theorems about the parts of the console, for all sizes of them: the     *)
(* ring of characters that are typed (LineInput), the pointer of the mouse *)
(* (Mouse), the text on the screen (TextScreen) and in a window (GlText);  *)
(* and the keyboard of the processes with the screens of the window        *)
(* manager (Keyboard, WinMan).                                             *)
(***************************************************************************)
EXTENDS Mouse, GlText, LineInput, Keyboard, SequenceTheorems, WellFoundedInduction, TLAPS

-----------------------------------------------------------------------------
(* The ring of characters that are typed *)

ReaderFields == {"at", "size", "line", "c", "interrupts"}

\* Types, and what the two sides of the ring rely on: while the reader is between its
\* look at the pointers and its own step, there is a character, and it stays the one
\* that was read.
RingInv ==
  /\ buffer \in [Place -> Char \cup {LF}]
  /\ next_char \in Place /\ next_space \in Place
  /\ shift \in {0, 1} /\ ctrl \in BOOLEAN
  /\ DOMAIN reader = ReaderFields
  /\ reader.at \in {"none", "wait", "take", "advance"}
  /\ reader.size \in Nat /\ reader.line \in Seq(Char \cup {LF})
  /\ reader.at # "none" => reader.size > 1
  /\ reader.at \in {"take", "advance"} => next_char # next_space
  /\ reader.at = "advance" => reader.c = buffer[next_char]

\* the characters that were typed and not read, as LineInput has them for InputLine
Waiting == [i \in 1 .. n_chars |-> buffer[(next_char + i - 1) % C_BUFSIZE]]

LEMMA Ring ==
  /\ C_BUFSIZE \in Nat /\ C_BUFSIZE > 1 /\ Place \subseteq Nat
  /\ \A i \in Place : increment(i) \in Place /\ increment(i) # i
BY InputAssumption DEF Place, increment

\* the place of the i-th character that waits, and their number
LEMMA PlaceOf ==
  ASSUME NEW n \in Place, NEW i \in 0 .. C_BUFSIZE
  PROVE  (n + i) % C_BUFSIZE = IF n + i < C_BUFSIZE THEN n + i ELSE n + i - C_BUFSIZE
<1> DEFINE c == C_BUFSIZE
<1>1. c \in Nat /\ c > 1 /\ n \in 0 .. c-1 /\ i \in 0 .. c
  BY Ring DEF Place
<1> HIDE DEF c
<1>2. (n + i) % c = IF n + i < c THEN n + i ELSE n + i - c
  BY <1>1
<1>3. QED
  BY <1>2 DEF c

Number(a, b) == IF b >= a THEN b - a ELSE b - a + C_BUFSIZE

LEMMA HowMany ==
  ASSUME RingInv
  PROVE  n_chars = Number(next_char, next_space) /\ n_chars \in Place
BY Ring DEF RingInv, n_chars, Number, Place

LEMMA Counts ==
  ASSUME NEW a \in Place, NEW b \in Place
  PROVE  /\ Number(a, b) \in Place
         /\ Number(a, b) = 0 <=> a = b
         /\ increment(b) = a <=> Number(a, b) = C_BUFSIZE - 1
         /\ increment(b) # a => Number(a, increment(b)) = Number(a, b) + 1
         /\ a # b => Number(increment(a), b) = Number(a, b) - 1
BY Ring DEF Number, increment, Place

\* The pressed key's character, which is put behind those that wait.
LEMMA PressedAppends ==
  ASSUME RingInv, NEW k \in CharKeys, Pressed(k), next_char' = next_char
  PROVE  /\ \E c \in Char : Waiting' = IF Len(Waiting) < C_BUFSIZE - 1
                                       THEN Append(Waiting, c) ELSE Waiting
         /\ buffer' \in [Place -> Char \cup {LF}] /\ next_space' \in Place
         /\ next_char # next_space => next_char' # next_space' /\ buffer'[next_char] = buffer[next_char]
<1> DEFINE s == scan_code[k][shift]
           c == IF ctrl THEN control[s] ELSE s
           n == n_chars
<1>1. c \in Char
  BY DEF RingInv, Char
<1> HIDE DEF c
<1>2. /\ buffer \in [Place -> Char \cup {LF}] /\ next_char \in Place /\ next_space \in Place
      /\ increment(next_space) \in Place
  BY Ring DEF RingInv
<1>3. n = Number(next_char, next_space) /\ n \in Place
  BY HowMany
<1>4. Len(Waiting) = n /\ Waiting \in Seq(Char \cup {LF})
  <2>1. \A i \in 1 .. n : (next_char + i - 1) % C_BUFSIZE \in Place
    <3>1. SUFFICES ASSUME NEW i \in 1 .. n PROVE (next_char + i - 1) % C_BUFSIZE \in Place
      OBVIOUS
    <3>2. i - 1 \in 0 .. C_BUFSIZE /\ next_char + i - 1 = next_char + (i - 1)
      BY <1>2, <1>3, Ring DEF Place
    <3>3. QED
      BY <1>2, <3>2, PlaceOf, Ring DEF Place
  <2>2. n \in Nat
    BY <1>3, Ring
  <2> HIDE DEF n
  <2>3. Waiting = [i \in 1 .. n |-> buffer[(next_char + i - 1) % C_BUFSIZE]]
    BY DEF Waiting, n
  <2>4. QED
    BY <1>2, <2>1, <2>2, <2>3
<1>5. CASE increment(next_space) # next_char
  <2>1. buffer' = [buffer EXCEPT ![next_space] = c] /\ next_space' = increment(next_space)
    BY <1>5 DEF Pressed, c
  <2>2. n' = n + 1 /\ n < C_BUFSIZE - 1
    <3>1. n' = Number(next_char, increment(next_space))
      BY <1>2, <2>1, Ring DEF n_chars, Number, Place
    <3>2. Number(next_char, next_space) # C_BUFSIZE - 1
      BY <1>2, <1>5, Counts
    <3>3. n' = n + 1
      BY <1>2, <1>3, <1>5, <3>1, Counts
    <3> HIDE DEF n
    <3>4. QED
      BY <1>3, <3>2, <3>3, Ring DEF Place
  <2>3. ASSUME NEW i \in 1 .. n + 1
        PROVE  buffer'[(next_char + i - 1) % C_BUFSIZE] = IF i = n + 1 THEN c ELSE Waiting[i]
    <3> DEFINE spot == (next_char + i - 1) % C_BUFSIZE
    <3>1. i - 1 \in 0 .. C_BUFSIZE /\ next_char + i - 1 = next_char + (i - 1)
      BY <1>2, <1>3, Ring DEF Place
    <3>2. spot = IF next_char + (i - 1) < C_BUFSIZE THEN next_char + (i - 1)
               ELSE next_char + (i - 1) - C_BUFSIZE
      BY <1>2, <3>1, PlaceOf
    <3> HIDE DEF spot, n
    <3>3. spot \in Place /\ (spot = next_space <=> i = n + 1)
      BY <1>2, <1>3, <2>2, <3>1, <3>2, Ring DEF Place, Number
    <3>4. buffer'[spot] = IF spot = next_space THEN c ELSE buffer[spot]
      BY <1>2, <2>1, <3>3
    <3>5. i # n + 1 => Waiting[i] = buffer[spot]
      BY <1>3, Ring DEF Waiting, spot, n
    <3>6. QED
      BY <3>3, <3>4, <3>5 DEF spot
  <2>4. Waiting' = Append(Waiting, c)
    <3>1. n \in Nat
      BY <1>3, Ring
    <3>2. Waiting' = [i \in 1 .. n' |-> buffer'[(next_char + i - 1) % C_BUFSIZE]]
      BY DEF Waiting
    <3>3. Waiting' = [i \in 1 .. n + 1 |-> IF i = n + 1 THEN c ELSE Waiting[i]]
      <4> HIDE DEF n
      <4> QED BY <2>2, <2>3, <3>2
    <3>4. Append(Waiting, c) = [i \in 1 .. n + 1 |-> IF i = n + 1 THEN c ELSE Waiting[i]]
      <4> HIDE DEF n
      <4>1. Waiting \in Seq(Char \cup {LF}) /\ c \in Char \cup {LF} /\ Len(Waiting) = n
        BY <1>1, <1>4
      <4> DEFINE w == Waiting
                 C == Char \cup {LF}
      <4> HIDE DEF w, C
      <4>2. w \in Seq(C) /\ c \in C /\ Len(w) = n
        BY <4>1 DEF w, C
      <4>3. Append(w, c) = [i \in 1 .. n + 1 |-> IF i = n + 1 THEN c ELSE w[i]]
        <5> DEFINE a == Append(w, c)
        <5>1. /\ a \in Seq(C) /\ Len(a) = n + 1
              /\ \A i \in 1 .. n : a[i] = w[i]
              /\ a[n + 1] = c
          BY <4>2, AppendProperties
        <5> HIDE DEF a
        <5>2. a = [i \in 1 .. n + 1 |-> a[i]]
          BY <5>1
        <5>3. \A i \in 1 .. n + 1 : a[i] = IF i = n + 1 THEN c ELSE w[i]
          BY <3>1, <5>1
        <5>4. QED
          BY <5>2, <5>3 DEF a
      <4>4. QED
        BY <4>3 DEF w
    <3>5. QED
      BY <3>3, <3>4
  <2>5. buffer' \in [Place -> Char \cup {LF}]
    BY <1>1, <1>2, <2>1
  <2>6. next_char # next_space => buffer'[next_char] = buffer[next_char]
    BY <1>2, <2>1
  <2>7. QED
    BY <1>1, <1>2, <1>4, <1>5, <2>1, <2>2, <2>4, <2>5, <2>6
<1>6. CASE increment(next_space) = next_char
  <2>1. buffer' = buffer /\ next_space' = next_space
    BY <1>6 DEF Pressed
  <2>2. Waiting' = Waiting /\ n = C_BUFSIZE - 1
    <3>1. Waiting' = Waiting
      BY <2>1 DEF Waiting, n_chars
    <3>2. QED
      BY <1>2, <1>3, <1>6, <3>1, Counts
  <2>3. ~(Len(Waiting) < C_BUFSIZE - 1)
    BY <1>3, <1>4, <2>2, Ring
  <2>4. QED
    BY <1>1, <1>2, <2>1, <2>2, <2>3
<1>7. QED
  BY <1>5, <1>6

\* What the keyboard does, between two steps of the reader or called by it.
LEMMA ScanCode ==
  ASSUME RingInv, input_scan_code, next_char' = next_char
  PROVE  /\ \/ Waiting' = Waiting
            \/ \E c \in Char : Waiting' = IF Len(Waiting) < C_BUFSIZE - 1
                                          THEN Append(Waiting, c) ELSE Waiting
         /\ buffer' \in [Place -> Char \cup {LF}] /\ next_space' \in Place
         /\ shift' \in {0, 1} /\ ctrl' \in BOOLEAN
         /\ next_char # next_space => next_char' # next_space' /\ buffer'[next_char] = buffer[next_char]
<1>1. CASE Modifier
  <2>1. buffer' = buffer /\ next_space' = next_space
    BY <1>1 DEF Modifier
  <2>2. shift' \in {0, 1}
    <3>1. shift' = 1 - shift \/ shift' = shift
      BY <1>1 DEF Modifier
    <3>2. QED
      BY <3>1 DEF RingInv
  <2>3. ctrl' \in BOOLEAN
    <3>1. ctrl' = ~ctrl \/ ctrl' = ctrl
      BY <1>1 DEF Modifier
    <3>2. ctrl \in BOOLEAN
      BY DEF RingInv
    <3>3. QED
      BY <3>1, <3>2, Zenon
  <2>4. QED
    BY <2>1, <2>2, <2>3 DEF Waiting, n_chars, RingInv
<1>2. CASE \E k \in CharKeys : Pressed(k)
  <2>1. PICK k \in CharKeys : Pressed(k)
    BY <1>2
  <2>2. shift' = shift /\ ctrl' = ctrl
    BY <2>1 DEF Pressed
  <2>3. shift' \in {0, 1} /\ ctrl' \in BOOLEAN
    BY <2>2 DEF RingInv
  <2>4. QED
    BY <2>1, <2>3, PressedAppends
<1>3. QED
  BY <1>1, <1>2 DEF input_scan_code

\* A character is taken: it is the first of those that wait.
LEMMA AdvanceTakes ==
  ASSUME RingInv, reader.at = "advance", next_char' = increment(next_char),
         buffer' = buffer, next_space' = next_space
  PROVE  /\ Waiting # <<>> /\ Head(Waiting) = reader.c /\ Waiting' = Tail(Waiting)
         /\ reader.c \in Char \cup {LF}
<1> DEFINE n == n_chars
           w == Waiting
           b == next_char
<1>1. /\ buffer \in [Place -> Char \cup {LF}] /\ b \in Place /\ next_space \in Place
      /\ b # next_space /\ reader.c = buffer[b] /\ increment(b) \in Place
  BY Ring DEF RingInv
<1>2. n = Number(b, next_space) /\ n \in Place /\ n # 0
  BY <1>1, HowMany, Counts
<1>3. n' = n - 1
  <2>1. n' = Number(increment(b), next_space)
    BY <1>1, Ring DEF n_chars, Number, Place
  <2>2. QED
    BY <1>1, <1>2, <2>1, Counts
<1> HIDE DEF n
<1>4. n \in Nat \ {0} /\ n < C_BUFSIZE
  BY <1>2, Ring DEF Place
<1>5. w = [i \in 1 .. n |-> buffer[(b + i - 1) % C_BUFSIZE]]
  BY DEF Waiting, n
<1>6. w' = [i \in 1 .. n - 1 |-> buffer[(increment(b) + i - 1) % C_BUFSIZE]]
  BY <1>3 DEF Waiting, n
<1>7. \A i \in 1 .. n : (b + i - 1) % C_BUFSIZE \in Place
  <2>1. SUFFICES ASSUME NEW i \in 1 .. n PROVE (b + i - 1) % C_BUFSIZE \in Place
    OBVIOUS
  <2>2. i - 1 \in 0 .. C_BUFSIZE /\ b + i - 1 = b + (i - 1)
    BY <1>1, <1>4, Ring DEF Place
  <2>3. QED
    BY <1>1, <2>2, PlaceOf, Ring DEF Place
<1>8. \A i \in 1 .. n - 1 : (increment(b) + i - 1) % C_BUFSIZE = (b + (i + 1) - 1) % C_BUFSIZE
  <2>1. SUFFICES ASSUME NEW i \in 1 .. n - 1
                 PROVE (increment(b) + i - 1) % C_BUFSIZE = (b + (i + 1) - 1) % C_BUFSIZE
    OBVIOUS
  <2> DEFINE x == (increment(b) + (i - 1)) % C_BUFSIZE
             y == (b + i) % C_BUFSIZE
             a == increment(b)
  <2>2. i - 1 \in 0 .. C_BUFSIZE /\ i \in 0 .. C_BUFSIZE
    BY <1>4, Ring
  <2>3. x = IF a + (i - 1) < C_BUFSIZE THEN a + (i - 1) ELSE a + (i - 1) - C_BUFSIZE
    BY <1>1, <2>2, PlaceOf
  <2>4. y = IF b + i < C_BUFSIZE THEN b + i ELSE b + i - C_BUFSIZE
    BY <1>1, <2>2, PlaceOf
  <2>5. a = IF b + 1 >= C_BUFSIZE THEN 0 ELSE b + 1
    BY DEF increment
  <2>6. increment(b) + i - 1 = increment(b) + (i - 1) /\ b + (i + 1) - 1 = b + i
    BY <1>1, <2>2, Ring DEF Place
  <2> HIDE DEF x, y, a
  <2>7. x = y
    BY <1>1, <1>4, <2>2, <2>3, <2>4, <2>5, Ring DEF Place
  <2>8. QED
    BY <2>6, <2>7 DEF x, y
<1>9. w \in Seq(Char \cup {LF}) /\ Len(w) = n
  BY <1>1, <1>4, <1>5, <1>7
<1>10. w[1] = reader.c
  <2>1. (b + 1 - 1) % C_BUFSIZE = b
    <3>1. b + 1 - 1 = b + 0 /\ 0 \in 0 .. C_BUFSIZE
      BY <1>1, Ring DEF Place
    <3>2. (b + 0) % C_BUFSIZE = IF b + 0 < C_BUFSIZE THEN b + 0 ELSE b + 0 - C_BUFSIZE
      BY <1>1, <3>1, PlaceOf
    <3>3. b + 0 = b /\ b < C_BUFSIZE
      BY <1>1, Ring DEF Place
    <3>4. QED
      BY <3>1, <3>2, <3>3
  <2>2. QED
    BY <1>1, <1>4, <1>5, <2>1
<1>11. w' = [i \in 1 .. n - 1 |-> w[i + 1]]
  <2>1. \A i \in 1 .. n - 1 : buffer[(increment(b) + i - 1) % C_BUFSIZE] = w[i + 1]
    BY <1>4, <1>5, <1>8
  <2> HIDE DEF w
  <2>2. QED
    BY <1>6, <2>1
<1> HIDE DEF w
<1>12. w # <<>> /\ Head(w) = w[1] /\ Tail(w) = [i \in 1 .. n - 1 |-> w[i + 1]]
  <2> DEFINE S == Char \cup {LF}
             t == Tail(w)
  <2>1. w \in Seq(S) /\ w # <<>> /\ Head(w) = w[1]
    BY <1>4, <1>9
  <2> HIDE DEF S
  <2>2. t \in Seq(S) /\ Len(t) = n - 1 /\ \A i \in 1 .. n - 1 : t[i] = w[i + 1]
    BY <1>9, <2>1, HeadTailProperties
  <2> HIDE DEF t
  <2>3. t = [i \in 1 .. n - 1 |-> t[i]]
    BY <2>2
  <2>4. QED
    BY <2>1, <2>2, <2>3 DEF t
<1>13. QED
  BY <1>1, <1>10, <1>11, <1>12 DEF w

-----------------------------------------------------------------------------
(* The steps of the ring *)

\* the room of the line of InputLine
LineRoom == IF At("none") THEN 0 ELSE reader.size - 1

\* What a step is for InputLine.
Typed(c) == /\ Waiting' = IF Len(Waiting) < C_BUFSIZE - 1 THEN Append(Waiting, c) ELSE Waiting
            /\ reader'.line = reader.line /\ LineRoom' = LineRoom
Called   == /\ LineRoom = 0 /\ LineRoom' \in Nat /\ reader'.line = <<>> /\ Waiting' = Waiting
Took(c)  == /\ Waiting # <<>> /\ c = Head(Waiting) /\ LineRoom > 0 /\ Waiting' = Tail(Waiting)
            /\ reader'.line = IF c = EOT THEN reader.line ELSE Append(reader.line, c)
            /\ LineRoom' = IF c \in {LF, EOT} THEN 0 ELSE LineRoom - 1
Rested   == Waiting' = Waiting /\ reader'.line = reader.line /\ LineRoom' = LineRoom

LineStep == Rested \/ (\E c \in Char : Typed(c)) \/ Called \/ \E c : Took(c)

LEMMA KeyboardStep == ASSUME RingInv, c_keyboard_isr \/ Poll PROVE RingInv' /\ LineStep
<1>1. /\ input_scan_code /\ next_char' = next_char /\ reader' = reader
  BY DEF c_keyboard_isr, Poll
<1>2. LineRoom' = LineRoom
  BY <1>1 DEF LineRoom, At
<1>3. RingInv'
  BY <1>1, ScanCode DEF RingInv
<1>4. LineStep
  BY <1>1, <1>2, ScanCode DEF LineStep, Typed, Rested
<1>5. QED
  BY <1>3, <1>4

\* The reader's steps leave the keyboard's part alone.
Kept == /\ buffer' = buffer /\ next_space' = next_space /\ shift' = shift /\ ctrl' = ctrl

LEMMA CallStep ==
  ASSUME RingInv, NEW n \in LineSizes, NEW enabled \in BOOLEAN, c_gets(n, enabled)
  PROVE  RingInv' /\ LineStep
<1> DEFINE t == [NotReading EXCEPT !.at = "wait", !.size = n, !.interrupts = enabled]
           q == reader'
<1>1. /\ reader.at = "none" /\ Kept /\ next_char' = next_char
      /\ q = IF n > 1 THEN t ELSE NotReading
  BY DEF c_gets, At, Kept
<1>2. n \in Nat
  BY InputAssumption
<1>3. /\ DOMAIN t = ReaderFields /\ t.at = "wait" /\ t.size = n /\ t.line = <<>>
      /\ DOMAIN NotReading = ReaderFields /\ NotReading.at = "none" /\ NotReading.size = 1
      /\ NotReading.line = <<>>
  BY DEF NotReading, ReaderFields
<1> HIDE DEF t, q
<1>4. /\ DOMAIN q = ReaderFields /\ q.size \in Nat /\ q.line = <<>>
      /\ q.at = "none" \/ (q.at = "wait" /\ q.size > 1)
  BY <1>1, <1>2, <1>3
<1>5. RingInv'
  <2>1. q.line \in Seq(Char \cup {LF})
    BY <1>4
  <2>2. QED
    BY <1>1, <1>4, <2>1 DEF RingInv, Kept, Place, q
<1>6. Called
  <2>1. Waiting' = Waiting
    BY <1>1 DEF Waiting, n_chars, Kept
  <2>2. LineRoom = 0
    BY <1>1 DEF LineRoom, At
  <2>3. LineRoom' \in Nat
    BY <1>4 DEF LineRoom, At, q
  <2>4. QED
    BY <1>4, <2>1, <2>2, <2>3 DEF Called, q
<1>7. QED
  BY <1>5, <1>6 DEF LineStep

LEMMA LookStep == ASSUME RingInv, Wait \/ Take PROVE RingInv' /\ LineStep
<1> DEFINE q == reader'
<1>1. /\ Kept /\ next_char' = next_char /\ DOMAIN reader = ReaderFields /\ next_char # next_space
      /\ reader.at # "none" /\ reader.size > 1
  BY DEF RingInv, Wait, Take, At, Kept
<1>2. /\ DOMAIN q = ReaderFields /\ q.size = reader.size /\ q.line = reader.line
      /\ q.at = "take" \/ (q.at = "advance" /\ q.c = buffer[next_char])
  <2>1. CASE Wait
    <3>1. q = [reader EXCEPT !.at = "take"]
      BY <2>1 DEF Wait
    <3>2. QED
      BY <1>1, <3>1 DEF ReaderFields
  <2>2. CASE Take
    <3>1. q = [reader EXCEPT !.at = "advance", !.c = buffer[next_char]]
      BY <2>2 DEF Take
    <3>2. QED
      BY <1>1, <3>1 DEF ReaderFields
  <2>3. QED
    BY <2>1, <2>2
<1> HIDE DEF q
<1>3. RingInv'
  BY <1>1, <1>2 DEF RingInv, Kept, q
<1>4. Rested
  <2>1. Waiting' = Waiting
    BY <1>1 DEF Waiting, n_chars, Kept
  <2>2. LineRoom' = LineRoom
    BY <1>1, <1>2 DEF LineRoom, At, q
  <2>3. QED
    BY <1>2, <2>1, <2>2 DEF Rested, q
<1>5. QED
  BY <1>3, <1>4 DEF LineStep

LEMMA AdvanceStep == ASSUME RingInv, Advance PROVE RingInv' /\ LineStep
<1> DEFINE c == reader.c
           l == IF c = EOT THEN reader.line ELSE Append(reader.line, c)
           q == reader'
           ends == c \in {LF, EOT} \/ reader.size = 2
           more == [reader EXCEPT !.at = "wait", !.size = reader.size - 1, !.line = l]
           excess == [NotReading EXCEPT !.line = l]
<1>1. /\ reader.at = "advance" /\ next_char' = increment(next_char) /\ Kept
      /\ q = IF ends THEN excess ELSE more
  BY DEF Advance, At, Kept
<1>2. /\ Waiting # <<>> /\ Head(Waiting) = c /\ Waiting' = Tail(Waiting)
      /\ c \in Char \cup {LF}
  BY <1>1, AdvanceTakes DEF Kept
<1>3. /\ reader.size \in Nat /\ reader.size > 1 /\ reader.line \in Seq(Char \cup {LF})
      /\ DOMAIN reader = ReaderFields
  BY <1>1 DEF RingInv
<1>4. l \in Seq(Char \cup {LF})
  BY <1>2, <1>3, AppendProperties
<1> HIDE DEF c, l, q
<1>5. /\ DOMAIN excess = ReaderFields /\ excess.at = "none" /\ excess.size = 1 /\ excess.line = l
      /\ DOMAIN more = ReaderFields /\ more.at = "wait" /\ more.size = reader.size - 1
      /\ more.line = l
  BY <1>3 DEF NotReading, ReaderFields
<1> HIDE DEF more, excess
<1>6. /\ DOMAIN q = ReaderFields /\ q.size \in Nat /\ q.line = l
      /\ \/ q.at = "none" /\ (c \in {LF, EOT} \/ reader.size = 2)
         \/ q.at = "wait" /\ q.size = reader.size - 1 /\ q.size > 1 /\ c \notin {LF, EOT}
  BY <1>1, <1>3, <1>5
<1>7. RingInv'
  <2>1. next_char' \in Place
    BY <1>1, Ring DEF RingInv
  <2>2. QED
    BY <1>1, <1>4, <1>6, <2>1 DEF RingInv, Kept, Place, q
<1>8. Took(c)
  <2>1. LineRoom = reader.size - 1 /\ LineRoom > 0
    BY <1>1, <1>3 DEF LineRoom, At
  <2>2. LineRoom' = IF c \in {LF, EOT} THEN 0 ELSE LineRoom - 1
    <3>1. LineRoom' = IF q.at = "none" THEN 0 ELSE q.size - 1
      BY DEF LineRoom, At, q
    <3>2. QED
      BY <1>3, <1>6, <2>1, <3>1
  <2>3. QED
    BY <1>2, <1>6, <2>1, <2>2 DEF Took, q, l
<1>9. QED
  BY <1>7, <1>8 DEF LineStep

LEMMA RingStep == ASSUME RingInv, [InputNext]_ivars PROVE RingInv' /\ LineStep
<1>1. CASE c_keyboard_isr \/ Poll
  BY <1>1, KeyboardStep
<1>2. CASE \E n \in LineSizes, enabled \in BOOLEAN : c_gets(n, enabled)
  BY <1>2, CallStep
<1>3. CASE Wait \/ Take
  BY <1>3, LookStep
<1>4. CASE Advance
  BY <1>4, AdvanceStep
<1>5. CASE UNCHANGED ivars
  <2>1. RingInv'
    BY <1>5 DEF ivars, RingInv
  <2>2. Rested
    BY <1>5 DEF ivars, Rested, Waiting, n_chars, LineRoom, At
  <2>3. QED
    BY <2>1, <2>2 DEF LineStep
<1>6. QED
  BY <1>1, <1>2, <1>3, <1>4, <1>5 DEF InputNext

LEMMA RingInit == InputInit => RingInv /\ Store!Init
<1>1. SUFFICES ASSUME InputInit PROVE RingInv /\ Store!Init
  OBVIOUS
<1>2. 0 \in Place
  BY Ring DEF Place
<1>3. /\ DOMAIN NotReading = ReaderFields /\ NotReading.at = "none" /\ NotReading.size = 1
      /\ NotReading.line = <<>>
  BY DEF NotReading, ReaderFields
<1>4. NotReading.line \in Seq(Char \cup {LF})
  BY <1>3
<1>5. RingInv
  BY <1>1, <1>2, <1>3, <1>4 DEF InputInit, RingInv
<1>6. n_chars = 0
  BY <1>1 DEF InputInit, n_chars
<1>7. Waiting = <<>>
  BY <1>6 DEF Waiting
<1>8. QED
  BY <1>1, <1>3, <1>5, <1>7 DEF InputInit, Store!Init, Waiting, At

\* Each of those is a step of InputLine.
LEMMA StoreStep == ASSUME LineStep PROVE [Store!Next]_(Store!lvars)
<1>1. CASE Rested
  BY <1>1 DEF Rested, Store!lvars, Waiting, LineRoom
<1>2. CASE \E c \in Char : Typed(c)
  <2>1. PICK c \in Char : Typed(c)
    BY <1>2
  <2>2. Store!Type(c)
    BY <2>1 DEF Typed, Store!Type, Waiting, LineRoom
  <2>3. QED
    BY <2>2 DEF Store!Next
<1>3. CASE Called
  <2>1. Store!Call
    BY <1>3 DEF Called, Store!Call, Waiting, LineRoom
  <2>2. QED
    BY <2>1 DEF Store!Next
<1>4. CASE \E c : Took(c)
  <2>1. PICK c : Took(c)
    BY <1>4
  <2>2. Waiting # <<>> /\ Store!Got(Head(Waiting), Tail(Waiting))
    BY <2>1 DEF Took, Store!Got, Waiting, LineRoom
  <2>3. QED
    BY <2>2 DEF Store!Next, Waiting
<1>5. QED
  BY <1>1, <1>2, <1>3, <1>4 DEF LineStep

\* For any size of the ring: from an interrupt between any two accesses of the reader,
\* what c_gets returns is what was typed, in order, and a character is refused only
\* when C_BUFSIZE-1 wait.
THEOREM RingIsAQueue == InputInit /\ [][InputNext]_ivars => ReadsWhatIsTyped
<1>1. InputInit => RingInv /\ Store!Init
  BY RingInit
<1>2. RingInv /\ [InputNext]_ivars => RingInv' /\ [Store!Next]_(Store!lvars)
  BY RingStep, StoreStep
<1>3. QED
  BY <1>1, <1>2, PTL DEF ReadsWhatIsTyped

-----------------------------------------------------------------------------
(* The pointer of the mouse *)

ButtonNames == {"left", "right", "middle"}

\* what has come of a packet, after its first and its second byte
Packets == {<<>>} \cup {<<h>> : h \in Heads} \cup {<<h, n>> : h \in Heads, n \in Moves}

MouseInv ==
  /\ packet \in Packets
  /\ motion \in [x : Int, y : Int, xt : -6 .. 6, yt : -8 .. 8]
  /\ buttons \in [ButtonNames -> BOOLEAN]
  /\ PointerAgrees

LEMMA BoundWithin ==
  ASSUME NEW a \in Int, NEW b \in Int, a <= b, NEW v \in Int
  PROVE  bound(a, v, b) \in a .. b
BY DEF bound

LEMMA OverIsInt == ASSUME NEW n \in Int, NEW d \in Nat \ {0} PROVE over(n, d) \in Int
BY DEF over

\* A packet that has all its bytes, and one that has not.
LEMMA PacketGrows ==
  ASSUME packet \in Packets, NEW byte,
         IF packet = <<>> THEN byte \in Heads ELSE byte \in Moves
  PROVE  LET got == Append(packet, byte)
         IN  /\ got[1] \in Heads
             /\ Len(got) = 3 => got[2] \in Moves /\ got[3] \in Moves
             /\ (IF Len(got) = 3 THEN <<>> ELSE got) \in Packets
<1>1. CASE packet = <<>>
  BY <1>1 DEF Packets
<1>2. CASE \E h \in Heads : packet = <<h>>
  <2>1. PICK h \in Heads : packet = <<h>>
    BY <1>2
  <2>2. byte \in Moves /\ Append(packet, byte) = <<h, byte>>
    <3>1. packet # <<>>
      BY <2>1
    <3>2. Append(<<h>>, byte) = <<h, byte>>
      <4> DEFINE a == Append(<<h>>, byte)
                 S == {h, byte}
      <4>1. Len(a) = 2 /\ a[1] = h /\ a[2] = byte
        OBVIOUS
      <4>2. <<h>> \in Seq(S) /\ byte \in S
        OBVIOUS
      <4> HIDE DEF S
      <4>3. a \in Seq(S)
        BY <4>2, AppendProperties
      <4> HIDE DEF a
      <4>4. a = <<h, byte>>
        BY <4>1, <4>3
      <4>5. QED
        BY <4>4 DEF a
    <3>3. QED
      BY <2>1, <3>1, <3>2
  <2>3. <<h, byte>> \in Packets
    BY <2>2 DEF Packets
  <2>4. Len(<<h, byte>>) = 2 /\ <<h, byte>>[1] = h
    OBVIOUS
  <2>5. QED
    BY <2>2, <2>3, <2>4
<1>3. CASE \E h \in Heads, n \in Moves : packet = <<h, n>>
  BY <1>3 DEF Packets
<1>4. QED
  BY <1>1, <1>2, <1>3 DEF Packets

LEMMA IsrFacts ==
  ASSUME NEW byte, _ps2_mouse_isr(byte)
  PROVE  LET got  == Append(packet, byte)
             head == got[1]
             new  == Len(got) = 3 /\ ~head.overflow
             held == IF new THEN [b \in DOMAIN buttons |-> head[b]] ELSE buttons
             x  == bound(0 - 80, IF new THEN got[2] ELSE motion.x, 80)
             y  == bound(0 - 64, IF new THEN got[3] ELSE motion.y, 64)
             xt == motion.xt + over(x, 2)
             yt == motion.yt + over(y, 6)
         IN /\ pointer # NoPointer
            /\ packet' = IF Len(got) = 3 THEN <<>> ELSE got
            /\ buttons' = held
            /\ motion' = [x |-> x, y |-> y, xt |-> IF Step(xt, 6) = 0 THEN xt ELSE 0,
                                            yt |-> IF Step(yt, 8) = 0 THEN yt ELSE 0]
            /\ pointer' = << bound(0, pointer[1] + Step(xt, 6), max_x),
                             bound(0, pointer[2] - Step(yt, 8), max_y) >>
            /\ told' = IF new /\ ChangedButtons(head) THEN held ELSE told
BY DEF _ps2_mouse_isr

\* What the program was told of last is what it would be told now.
LEMMA ToldIsHeld ==
  ASSUME buttons \in [ButtonNames -> BOOLEAN], told = buttons, NEW head \in Heads,
         NEW new, NEW held, held = IF new THEN [b \in DOMAIN buttons |-> head[b]] ELSE buttons,
         buttons' = held, told' = IF new /\ ChangedButtons(head) THEN held ELSE told
  PROVE  told' = buttons' /\ buttons' \in [ButtonNames -> BOOLEAN]
<1>1. \A b \in ButtonNames : head[b] \in BOOLEAN
  BY MouseAssumption DEF ButtonNames
<1>2. held \in [ButtonNames -> BOOLEAN]
  BY <1>1
<1>3. CASE new /\ ~ChangedButtons(head)
  <2>1. \A b \in ButtonNames : ~head[b] /\ ~buttons[b]
    BY <1>3 DEF ChangedButtons
  <2>2. \A b \in ButtonNames : held[b] = buttons[b]
    BY <1>1, <1>3, <2>1, Zenon
  <2>3. held = buttons
    BY <1>2, <2>2
  <2>4. QED
    BY <1>2, <1>3, <2>3
<1>4. CASE ~(new /\ ~ChangedButtons(head))
  BY <1>2, <1>4
<1>5. QED
  BY <1>3, <1>4

LEMMA IsrStep ==
  ASSUME MouseInv, NEW byte, _ps2_mouse_isr(byte),
         IF packet = <<>> THEN byte \in Heads ELSE byte \in Moves
  PROVE  MouseInv' /\ pointer' \in Cell
<1> DEFINE got  == Append(packet, byte)
           head == got[1]
           new  == Len(got) = 3 /\ ~head.overflow
           held == IF new THEN [b \in DOMAIN buttons |-> head[b]] ELSE buttons
           vx == IF new THEN got[2] ELSE motion.x
           vy == IF new THEN got[3] ELSE motion.y
           x  == bound(0 - 80, vx, 80)
           y  == bound(0 - 64, vy, 64)
           xt == motion.xt + over(x, 2)
           yt == motion.yt + over(y, 6)
<1>1. /\ pointer # NoPointer
      /\ packet' = IF Len(got) = 3 THEN <<>> ELSE got
      /\ buttons' = held
      /\ motion' = [x |-> x, y |-> y, xt |-> IF Step(xt, 6) = 0 THEN xt ELSE 0,
                                      yt |-> IF Step(yt, 8) = 0 THEN yt ELSE 0]
      /\ pointer' = << bound(0, pointer[1] + Step(xt, 6), max_x),
                       bound(0, pointer[2] - Step(yt, 8), max_y) >>
      /\ told' = IF new /\ ChangedButtons(head) THEN held ELSE told
  BY IsrFacts
<1>2. /\ packet \in Packets /\ motion \in [x : Int, y : Int, xt : -6 .. 6, yt : -8 .. 8]
      /\ buttons \in [ButtonNames -> BOOLEAN]
      /\ pointer \in Cell \cup {NoPointer} /\ told = buttons
  BY DEF MouseInv, PointerAgrees
<1>3. /\ head \in Heads
      /\ Len(got) = 3 => got[2] \in Moves /\ got[3] \in Moves
      /\ packet' \in Packets
  <2> HIDE DEF MouseInv
  <2>1. QED
    BY <1>1, <1>2, PacketGrows
<1> HIDE DEF got
<1>4. vx \in Int /\ vy \in Int
  <2>1. Moves \subseteq Int /\ motion.x \in Int /\ motion.y \in Int
    BY <1>2, MouseAssumption
  <2>2. new => got[2] \in Moves /\ got[3] \in Moves
    BY <1>3
  <2> HIDE DEF new
  <2>3. QED
    BY <2>1, <2>2
<1>5. told' = buttons' /\ buttons' \in [ButtonNames -> BOOLEAN]
  <2> HIDE DEF held, new, head
  <2>1. held = IF new THEN [b \in DOMAIN buttons |-> head[b]] ELSE buttons
    BY DEF held
  <2>2. QED
    BY <1>1, <1>2, <1>3, <2>1, ToldIsHeld
<1> HIDE DEF vx, vy
<1>6. x \in Int /\ y \in Int
  BY <1>4, BoundWithin
<1> HIDE DEF x, y
<1>7. xt \in Int /\ yt \in Int
  <2>1. over(x, 2) \in Int /\ over(y, 6) \in Int
    BY <1>6, OverIsInt
  <2>2. motion.xt \in Int /\ motion.yt \in Int
    BY <1>2
  <2>3. QED
    BY <2>1, <2>2
<1> HIDE DEF xt, yt
<1>8. /\ Step(xt, 6) \in Int /\ Step(yt, 8) \in Int
      /\ (IF Step(xt, 6) = 0 THEN xt ELSE 0) \in -6 .. 6
      /\ (IF Step(yt, 8) = 0 THEN yt ELSE 0) \in -8 .. 8
  <2>1. ASSUME NEW t \in Int, NEW n \in Nat
        PROVE  Step(t, n) \in Int /\ (IF Step(t, n) = 0 THEN t ELSE 0) \in 0 - n .. n
    <3>1. CASE t > n
      <4>1. Step(t, n) = 1
        BY <3>1 DEF Step
      <4>2. QED
        BY <4>1
    <3>2. CASE t < 0 - n
      <4>1. Step(t, n) = 0 - 1
        BY <3>2 DEF Step
      <4>2. QED
        BY <4>1
    <3>3. CASE ~(t > n) /\ ~(t < 0 - n)
      <4>1. Step(t, n) = 0
        BY <3>3 DEF Step
      <4>2. QED
        BY <3>3, <4>1
    <3>4. QED
      BY <3>1, <3>2, <3>3
  <2>2. 0 - 6 = -6 /\ 0 - 8 = -8
    OBVIOUS
  <2>3. QED
    BY <1>7, <2>1, <2>2
<1>9. motion' \in [x : Int, y : Int, xt : -6 .. 6, yt : -8 .. 8]
  BY <1>1, <1>6, <1>8
<1>10. pointer' \in Cell
  <2>1. max_x \in Nat /\ max_y \in Nat
    BY ScreenAssumption DEF max_x, max_y
  <2>2. pointer[1] \in Int /\ pointer[2] \in Int
    <3>1. pointer \in Cell
      BY <1>1, <1>2
    <3>2. QED
      BY <2>1, <3>1 DEF Cell
  <2> DEFINE a == bound(0, pointer[1] + Step(xt, 6), max_x)
             b == bound(0, pointer[2] - Step(yt, 8), max_y)
  <2>3. pointer[1] + Step(xt, 6) \in Int /\ pointer[2] - Step(yt, 8) \in Int
    BY <1>8, <2>2
  <2>4. a \in 0 .. max_x /\ b \in 0 .. max_y
    <3> DEFINE u == pointer[1] + Step(xt, 6)
               w == pointer[2] - Step(yt, 8)
    <3>1. u \in Int /\ w \in Int /\ max_x \in Int /\ max_y \in Int /\ 0 <= max_x /\ 0 <= max_y
      BY <2>1, <2>3
    <3> HIDE DEF u, w
    <3>2. bound(0, u, max_x) \in 0 .. max_x /\ bound(0, w, max_y) \in 0 .. max_y
      BY <3>1 DEF bound
    <3>3. QED
      BY <3>2 DEF u, w
  <2> HIDE DEF a, b
  <2>5. <<a, b>> \in Cell
    BY <2>4 DEF Cell
  <2>6. pointer' = <<a, b>>
    BY <1>1 DEF a, b
  <2>7. QED
    BY <2>5, <2>6
<1>11. motion'.xt \in -6 .. 6 /\ motion'.yt \in -8 .. 8
  BY <1>9
<1>12. QED
  <2> HIDE DEF held, new, head
  <2> QED BY <1>3, <1>5, <1>9, <1>10, <1>11 DEF MouseInv, PointerAgrees

LEMMA PointerStarts == MouseInit => MouseInv
<1>1. SUFFICES ASSUME MouseInit PROVE MouseInv
  OBVIOUS
<1>2. packet \in Packets /\ motion \in [x : Int, y : Int, xt : -6 .. 6, yt : -8 .. 8]
  BY <1>1 DEF MouseInit, Packets
<1>3. NoButtons \in [ButtonNames -> BOOLEAN]
  <2>1. DOMAIN NoButtons = ButtonNames
    BY DEF NoButtons, ButtonNames
  <2>2. \A b \in ButtonNames : NoButtons[b] \in BOOLEAN
    <3>1. /\ NoButtons["left"] = FALSE /\ NoButtons["right"] = FALSE
          /\ NoButtons["middle"] = FALSE
      BY DEF NoButtons
    <3> HIDE DEF NoButtons
    <3>2. QED
      BY <3>1, Zenon DEF ButtonNames
  <2>3. NoButtons = [b \in DOMAIN NoButtons |-> NoButtons[b]]
    BY DEF NoButtons
  <2> HIDE DEF NoButtons
  <2>4. QED
    BY <2>1, <2>2, <2>3, Zenon
<1>4. motion.xt = 0 /\ motion.yt = 0
  BY <1>1 DEF MouseInit
<1>5. QED
  BY <1>1, <1>2, <1>3, <1>4 DEF MouseInit, MouseInv, PointerAgrees

LEMMA PointerStays == MouseInv /\ [MouseNext]_mvars => MouseInv'
<1>1. SUFFICES ASSUME MouseInv, [MouseNext]_mvars PROVE MouseInv'
  OBVIOUS
<1>2. CASE UNCHANGED mvars
  BY <1>1, <1>2 DEF mvars, MouseInv, PointerAgrees
<1>3. CASE _ps2_mouse_init
  <2>1. /\ pointer' = <<0, 0>> /\ packet' = packet /\ motion' = motion
        /\ buttons' = buttons /\ told' = told
    BY <1>3 DEF _ps2_mouse_init
  <2>2. <<0, 0>> \in Cell
    BY ScreenAssumption DEF Cell, max_x, max_y
  <2>3. QED
    BY <1>1, <2>1, <2>2 DEF MouseInv, PointerAgrees
<1>4. CASE packet = <<>> /\ \E head \in Heads : _ps2_mouse_isr(head)
  BY <1>1, <1>4, IsrStep
<1>5. CASE packet # <<>> /\ \E n \in Moves : _ps2_mouse_isr(n)
  BY <1>1, <1>5, IsrStep
<1>6. QED
  BY <1>1, <1>2, <1>3, <1>4, <1>5 DEF MouseNext

\* For every screen and all packets: after every interrupt the pointer is on the
\* screen, it is drawn with the buttons that the program was told of last, and no
\* movement is left that is enough for a step.
THEOREM PointerNeverParts == MouseInit /\ [][MouseNext]_mvars => []PointerAgrees
<1>1. MouseInv => PointerAgrees
  BY DEF MouseInv
<1>2. QED
  BY <1>1, PointerStarts, PointerStays, PTL

-----------------------------------------------------------------------------
(* The text on the screen *)

Signs == Letters \cup {Blank, NL, CR} \cup {Glyph[i] : i \in 1 .. 4}
Regions == {r \in [x1 : 0 .. max_x, y1 : 0 .. max_y, x2 : 0 .. max_x, y2 : 0 .. max_y] :
              r.x1 <= r.x2 /\ r.y1 <= r.y2}
ScreenStates == [video : [Cell -> Signs], region : Regions, curr : [x : Int, y : Int], cursor : Int]

Line(r) == [1 .. Width(r) -> Signs]
Rest(r) == [Cell \ In(r) -> Signs]
Papers(r) == [lines : Seq(Line(r)), rest : Rest(r), row : Int, col : Int]

\* v shows the last lines in the region, and what is beside it.
Pictured(v, r, text, rest) ==
  /\ v \in [Cell -> Signs] /\ text \in Seq(Line(r)) /\ rest \in Rest(r)
  /\ Len(text) >= Height(r)
  /\ \A x \in 0 .. max_x, y \in 0 .. max_y :
       v[<<x, y>>] = IF x \in r.x1 .. r.x2 /\ y \in r.y1 .. r.y2
                     THEN text[Len(text) - r.y2 + y][x - r.x1 + 1] ELSE rest[<<x, y>>]

\* The next character goes to the same place on both.
Placed(c, r, q) ==
  /\ c.x = r.x1 + q.col - 1 /\ c.y = q.row - Len(q.lines) + r.y2
  /\ c.x \in r.x1 .. r.x2 /\ c.y \in r.y1 .. r.y2 + 1
  /\ c.y > r.y2 => q.col = 1

Fits(s, q) ==
  /\ s \in ScreenStates /\ q \in Papers(s.region)
  /\ Pictured(s.video, s.region, q.lines, q.rest)
  /\ Placed(s.curr, s.region, q)

CursorThere(s) ==
  s.cursor = (IF s.curr.y > s.region.y2 THEN s.region.y2 ELSE s.curr.y) * Columns + s.curr.x

TextInv == Fits(Screen, paper) /\ CursorThere(Screen)

LEMMA ScreenFacts ==
  /\ Columns \in Nat \ {0} /\ Rows \in Nat \ {0} /\ max_x \in Nat /\ max_y \in Nat
  /\ Blank \in Signs /\ NL \in Signs /\ Letters \subseteq Signs
  /\ NL # CR /\ NL # Blank /\ CR # Blank /\ NL \notin Letters /\ CR \notin Letters
BY ScreenAssumption DEF max_x, max_y, Signs

LEMMA RegionFacts ==
  ASSUME NEW r \in Regions
  PROVE  /\ r.x1 \in 0 .. max_x /\ r.y1 \in 0 .. max_y /\ r.x2 \in 0 .. max_x /\ r.y2 \in 0 .. max_y
         /\ r.x1 <= r.x2 /\ r.y1 <= r.y2
         /\ r.x1 \in Int /\ r.x2 \in Int /\ r.y1 \in Int /\ r.y2 \in Int
         /\ Width(r) \in Nat \ {0} /\ Height(r) \in Nat \ {0}
         /\ EmptyLine(r) \in Line(r)
         /\ \A x \in r.x1 .. r.x2 : x - r.x1 + 1 \in 1 .. Width(r)
         /\ \A x, y \in Int : <<x, y>> \in In(r) <=> x \in r.x1 .. r.x2 /\ y \in r.y1 .. r.y2
         /\ In(r) \subseteq Cell
BY ScreenFacts DEF Regions, Width, Height, EmptyLine, Line, In, Cell

\* The line of the paper for a line of the region
LEMMA LineThere ==
  ASSUME NEW r \in Regions, NEW text \in Seq(Line(r)), Len(text) >= Height(r),
         NEW y \in r.y1 .. r.y2
  PROVE  Len(text) - r.y2 + y \in 1 .. Len(text)
BY RegionFacts DEF Height

\* A picture in other words
LEMMA PictureOf ==
  ASSUME NEW v, NEW r \in Regions, NEW text, NEW rest,
         v \in [Cell -> Signs], text \in Seq(Line(r)), rest \in Rest(r), Len(text) >= Height(r),
         \A x \in r.x1 .. r.x2, y \in r.y1 .. r.y2 :
           v[<<x, y>>] = text[Len(text) - r.y2 + y][x - r.x1 + 1],
         \A c \in Cell \ In(r) : v[c] = rest[c]
  PROVE  Pictured(v, r, text, rest)
<1>1. ASSUME NEW x \in 0 .. max_x, NEW y \in 0 .. max_y, ~(x \in r.x1 .. r.x2 /\ y \in r.y1 .. r.y2)
      PROVE  v[<<x, y>>] = rest[<<x, y>>]
  <2>1. <<x, y>> \in Cell \ In(r)
    BY <1>1, ScreenFacts, RegionFacts DEF Cell
  <2>2. QED
    BY <2>1
<1>2. QED
  BY <1>1 DEF Pictured

LEMMA PictureAt ==
  ASSUME NEW v, NEW r \in Regions, NEW text, NEW rest, Pictured(v, r, text, rest),
         NEW x \in r.x1 .. r.x2, NEW y \in r.y1 .. r.y2
  PROVE  /\ v[<<x, y>>] = text[Len(text) - r.y2 + y][x - r.x1 + 1]
         /\ <<x, y>> \in Cell /\ <<x, y>> \in In(r)
         /\ Len(text) - r.y2 + y \in 1 .. Len(text)
         /\ x - r.x1 + 1 \in 1 .. Width(r)
<1>1. x \in 0 .. max_x /\ y \in 0 .. max_y /\ x \in Int /\ y \in Int
  BY ScreenFacts, RegionFacts
<1>2. v[<<x, y>>] = text[Len(text) - r.y2 + y][x - r.x1 + 1]
  BY <1>1 DEF Pictured
<1>3. <<x, y>> \in Cell /\ <<x, y>> \in In(r)
  BY <1>1 DEF Cell, In
<1>4. Len(text) - r.y2 + y \in 1 .. Len(text)
  BY LineThere DEF Pictured
<1>5. x - r.x1 + 1 \in 1 .. Width(r)
  BY RegionFacts
<1>6. QED
  BY <1>2, <1>3, <1>4, <1>5

LEMMA PictureBeside ==
  ASSUME NEW v, NEW r \in Regions, NEW text, NEW rest, Pictured(v, r, text, rest),
         NEW c \in Cell \ In(r)
  PROVE  v[c] = rest[c]
<1>1. PICK x \in 0 .. max_x, y \in 0 .. max_y : c = <<x, y>>
  BY DEF Cell
<1>2. ~(x \in r.x1 .. r.x2 /\ y \in r.y1 .. r.y2)
  BY <1>1 DEF In
<1>3. QED
  BY <1>1, <1>2 DEF Pictured

\* c_scroll by less than the region: lines that are empty come below.
ScrolledTo(v, r, n, c) ==
  CASE c \notin In(r)                       -> v[c]
    [] c \in In(r) /\ c[2] <= r.y2 - n      -> v[<<c[1], c[2] + n>>]
    [] c \in In(r) /\ c[2] > r.y2 - n       -> Blank

IsScroll(w, v, r, n) == w = [c \in Cell |-> ScrolledTo(v, r, n, c)]

HasMore(more, text, r, n) ==
  /\ more \in Seq(Line(r)) /\ Len(more) = Len(text) + n
  /\ \A i \in 1 .. Len(text) : more[i] = text[i]
  /\ \A i \in Len(text) + 1 .. Len(text) + n : more[i] = EmptyLine(r)

LEMMA ScrollBeside ==
  ASSUME NEW v, NEW r, NEW n, NEW w, IsScroll(w, v, r, n)
  PROVE  /\ w = [c \in Cell |-> w[c]]
         /\ \A c \in Cell \ In(r) : w[c] = v[c]
<1>1. w = [c \in Cell |-> w[c]]
  BY DEF IsScroll
<1>2. ASSUME NEW c \in Cell \ In(r) PROVE w[c] = v[c]
  <2>1. w[c] = ScrolledTo(v, r, n, c)
    BY DEF IsScroll
  <2>2. QED
    BY <2>1 DEF ScrolledTo
<1>3. QED
  BY <1>1, <1>2

ShowsLine(w, v, r, n, x, y) ==
  /\ y <= r.y2 - n => w[<<x, y>>] = v[<<x, y + n>>]
  /\ ~(y <= r.y2 - n) => w[<<x, y>>] = Blank

LEMMA ScrollAt ==
  ASSUME NEW v, NEW r \in Regions, NEW n \in Nat, NEW w, IsScroll(w, v, r, n),
         NEW x \in r.x1 .. r.x2, NEW y \in r.y1 .. r.y2
  PROVE  ShowsLine(w, v, r, n, x, y)
<1>1. /\ x \in 0 .. max_x /\ y \in 0 .. max_y /\ x \in Int /\ y \in Int
      /\ r.y2 - n \in Int
  BY RegionFacts, ScreenFacts
<1> DEFINE p == <<x, y>>
           m == r.y2 - n
<1>2. p \in Cell /\ p \in In(r) /\ p[1] = x /\ p[2] = y /\ m \in Int
  BY <1>1 DEF Cell, In
<1> HIDE DEF p
<1>3. w[p] = ScrolledTo(v, r, n, p)
  BY <1>2 DEF IsScroll
<1>4. CASE y <= m
  <2>1. w[p] = v[<<x, y + n>>]
    BY <1>2, <1>3, <1>4 DEF ScrolledTo
  <2>2. QED
    BY <1>4, <2>1 DEF p, ShowsLine
<1>5. CASE ~(y <= m)
  <2>1. w[p] = Blank
    BY <1>1, <1>2, <1>3, <1>5 DEF ScrolledTo
  <2>2. QED
    BY <1>5, <2>1 DEF p, ShowsLine
<1>6. QED
  BY <1>4, <1>5

LEMMA PictureScrolls ==
  ASSUME NEW v, NEW r \in Regions, NEW text, NEW rest, Pictured(v, r, text, rest),
         NEW n \in Nat, n <= r.y2 - r.y1, NEW w, IsScroll(w, v, r, n),
         NEW more, HasMore(more, text, r, n)
  PROVE  Pictured(w, r, more, rest)
<1>1. /\ v \in [Cell -> Signs] /\ text \in Seq(Line(r)) /\ rest \in Rest(r)
      /\ Len(text) >= Height(r) /\ Len(text) \in Nat
  BY DEF Pictured
<1>2. r.y1 \in Nat /\ r.y2 \in Nat /\ r.x1 \in Nat /\ r.x2 \in Nat /\ r.y2 <= max_y /\ r.x2 <= max_x
      /\ max_x \in Nat /\ max_y \in Nat /\ Height(r) \in Nat
  BY ScreenFacts, RegionFacts
<1>3. ASSUME NEW x \in r.x1 .. r.x2, NEW y \in r.y1 .. r.y2
      PROVE  /\ w[<<x, y>>] = more[Len(more) - r.y2 + y][x - r.x1 + 1]
             /\ w[<<x, y>>] \in Signs
  <2>1. <<x, y>> \in Cell /\ <<x, y>> \in In(r)
    BY PictureAt
  <2>11. /\ y <= r.y2 - n => w[<<x, y>>] = v[<<x, y + n>>]
         /\ ~(y <= r.y2 - n) => w[<<x, y>>] = Blank
    <3>1. ShowsLine(w, v, r, n, x, y)
      BY ScrollAt
    <3>2. QED
      BY <3>1 DEF ShowsLine
  <2>2. CASE y <= r.y2 - n
    <3>1. w[<<x, y>>] = v[<<x, y + n>>]
      BY <2>2, <2>11
    <3>2. y + n \in r.y1 .. r.y2
      BY <1>2, <2>2
    <3> DEFINE z == y + n
    <3>3. /\ v[<<x, z>>] = text[Len(text) - r.y2 + z][x - r.x1 + 1]
          /\ <<x, z>> \in Cell
          /\ Len(text) - r.y2 + z \in 1 .. Len(text)
      <4> HIDE DEF z
      <4>1. z \in r.y1 .. r.y2
        BY <3>2 DEF z
      <4>2. QED
        BY <4>1, PictureAt
    <3>4. Len(more) - r.y2 + y = Len(text) - r.y2 + z
      BY <1>1, <1>2 DEF HasMore
    <3>5. more[Len(text) - r.y2 + z] = text[Len(text) - r.y2 + z]
      BY <3>3 DEF HasMore
    <3>6. v[<<x, z>>] \in Signs
      BY <1>1, <3>3
    <3> HIDE DEF z
    <3>7. QED
      BY <3>1, <3>3, <3>4, <3>5, <3>6 DEF z
  <2>3. CASE y > r.y2 - n
    <3>1. w[<<x, y>>] = Blank
      <4>1. ~(y <= r.y2 - n)
        BY <1>2, <2>3
      <4>2. QED
        BY <2>11, <4>1
    <3>2. Len(more) - r.y2 + y \in Len(text) + 1 .. Len(text) + n
      <4>1. Len(more) = Len(text) + n
        BY DEF HasMore
      <4>2. QED
        BY <1>1, <1>2, <2>3, <4>1
    <3>3. more[Len(more) - r.y2 + y] = EmptyLine(r) /\ x - r.x1 + 1 \in 1 .. Width(r)
      BY <3>2, RegionFacts DEF HasMore
    <3>5. more[Len(more) - r.y2 + y][x - r.x1 + 1] = Blank
      BY <3>3 DEF EmptyLine
    <3>4. QED
      BY <3>1, <3>5, ScreenFacts
  <2>4. QED
    BY <1>2, <2>2, <2>3
<1>4. ASSUME NEW c \in Cell \ In(r) PROVE w[c] = rest[c] /\ w[c] \in Signs
  <2>1. w[c] = v[c]
    BY ScrollBeside
  <2>2. QED
    BY <1>1, <2>1, PictureBeside
<1>5. w \in [Cell -> Signs]
  <2>1. ASSUME NEW c \in Cell PROVE w[c] \in Signs
    <3>1. CASE c \in In(r)
      <4>1. PICK x \in r.x1 .. r.x2, y \in r.y1 .. r.y2 : c = <<x, y>>
        BY <3>1 DEF In
      <4>2. QED
        BY <1>3, <4>1
    <3>2. QED
      BY <1>4, <3>1
  <2>2. w = [c \in Cell |-> w[c]]
    BY ScrollBeside
  <2>3. QED
    BY <2>1, <2>2
<1>6. Len(more) >= Height(r) /\ more \in Seq(Line(r))
  BY <1>1, <1>2 DEF HasMore
<1>7. QED
  BY <1>1, <1>3, <1>4, <1>5, <1>6, PictureOf

\* c_clearscroll, and c_clearscreen: what is below the top of the region is empty.
LEMMA PictureCleared ==
  ASSUME NEW v, NEW r \in Regions, NEW w, v \in [Cell -> Signs],
         NEW text \in Seq(Line(r)), Len(text) >= Height(r),
         \A i \in Len(text) - Height(r) + 1 .. Len(text) : text[i] = EmptyLine(r),
         NEW rest \in Rest(r), \A c \in Cell \ In(r) : w[c] = rest[c],
         w = [c \in Cell |-> w[c]], \A c \in In(r) : w[c] = Blank
  PROVE  Pictured(w, r, text, rest)
<1>1. ASSUME NEW c \in Cell PROVE w[c] \in Signs
  BY ScreenFacts DEF Rest
<1>2. w \in [Cell -> Signs]
  BY <1>1
<1>3. ASSUME NEW x \in r.x1 .. r.x2, NEW y \in r.y1 .. r.y2
      PROVE  w[<<x, y>>] = text[Len(text) - r.y2 + y][x - r.x1 + 1]
  <2>1. x \in Int /\ y \in Int
    BY RegionFacts
  <2>2. w[<<x, y>>] = Blank
    BY <2>1, RegionFacts
  <2> DEFINE i == Len(text) - r.y2 + y
  <2>3. i \in Len(text) - Height(r) + 1 .. Len(text)
    <3>1. Len(text) \in Nat /\ r.y1 \in Int /\ r.y2 \in Int
      BY RegionFacts
    <3>2. QED
      BY <3>1 DEF Height
  <2> HIDE DEF i
  <2>4. text[i] = EmptyLine(r) /\ x - r.x1 + 1 \in 1 .. Width(r)
    BY <2>3, RegionFacts
  <2>5. text[i][x - r.x1 + 1] = Blank
    BY <2>4 DEF EmptyLine
  <2>6. QED
    BY <2>2, <2>5 DEF i
<1>4. QED
  BY <1>2, <1>3, PictureOf

\* The same change on both: put in the places hit.
Struck(v, hit, put) == [p \in Cell |-> IF p \in hit THEN put ELSE v[p]]

LEMMA PictureHit ==
  ASSUME NEW v, NEW r \in Regions, NEW text, NEW rest, Pictured(v, r, text, rest),
         NEW hit, NEW put \in Signs, NEW w,
         w = Struck(v, hit, put),
         NEW more \in Seq(Line(r)), Len(more) = Len(text),
         \A x \in r.x1 .. r.x2, y \in r.y1 .. r.y2 :
           /\ <<x, y>> \in hit => more[Len(text) - r.y2 + y][x - r.x1 + 1] = put
           /\ <<x, y>> \notin hit => more[Len(text) - r.y2 + y][x - r.x1 + 1]
                                      = text[Len(text) - r.y2 + y][x - r.x1 + 1],
         NEW other \in Rest(r),
         \A c \in Cell \ In(r) : /\ c \in hit => other[c] = put
                                 /\ c \notin hit => other[c] = rest[c]
  PROVE  Pictured(w, r, more, other)
<1>1. v \in [Cell -> Signs] /\ Len(text) >= Height(r)
  BY DEF Pictured
<1>2. w \in [Cell -> Signs]
  BY <1>1 DEF Struck
<1>21. ASSUME NEW p \in Cell PROVE w[p] = IF p \in hit THEN put ELSE v[p]
  BY DEF Struck
<1>3. ASSUME NEW x \in r.x1 .. r.x2, NEW y \in r.y1 .. r.y2
      PROVE  w[<<x, y>>] = more[Len(more) - r.y2 + y][x - r.x1 + 1]
  <2> DEFINE p == <<x, y>>
  <2>1. p \in Cell /\ v[p] = text[Len(text) - r.y2 + y][x - r.x1 + 1]
    BY PictureAt
  <2>2. /\ p \in hit => more[Len(text) - r.y2 + y][x - r.x1 + 1] = put
        /\ p \notin hit => more[Len(text) - r.y2 + y][x - r.x1 + 1]
                              = text[Len(text) - r.y2 + y][x - r.x1 + 1]
    OBVIOUS
  <2> HIDE DEF p
  <2>3. w[p] = IF p \in hit THEN put ELSE v[p]
    BY <1>21, <2>1
  <2>4. QED
    BY <2>1, <2>2, <2>3 DEF p
<1>4. ASSUME NEW c \in Cell \ In(r) PROVE w[c] = other[c]
  <2>1. v[c] = rest[c]
    BY PictureBeside
  <2>2. w[c] = IF c \in hit THEN put ELSE v[c]
    BY <1>21
  <2>3. QED
    BY <2>1, <2>2
<1>5. QED
  BY <1>1, <1>2, <1>3, <1>4, PictureOf

\* One line of the paper is changed.
LEMMA LineChanged ==
  ASSUME NEW r \in Regions, NEW text \in Seq(Line(r)), NEW n \in 1 .. Len(text),
         NEW new \in Line(r)
  PROVE  /\ [text EXCEPT ![n] = new] \in Seq(Line(r))
         /\ Len([text EXCEPT ![n] = new]) = Len(text)
         /\ \A i \in 1 .. Len(text) : [text EXCEPT ![n] = new][i] = IF i = n THEN new ELSE text[i]
<1>1. DOMAIN text = 1 .. Len(text)
  OBVIOUS
<1>2. [text EXCEPT ![n] = new] \in Seq(Line(r)) /\ Len([text EXCEPT ![n] = new]) = Len(text)
  BY ExceptSeq
<1>3. QED
  BY <1>1, <1>2

\* A character at the cursor
LinePut(text, row, col, c) == [text EXCEPT ![row] = [@ EXCEPT ![col] = c]]

LEMMA PictureWritten ==
  ASSUME NEW v, NEW r \in Regions, NEW text, NEW rest, Pictured(v, r, text, rest),
         NEW x \in r.x1 .. r.x2, NEW y \in r.y1 .. r.y2, NEW c \in Signs,
         NEW row, row = Len(text) - r.y2 + y, NEW col, col = x - r.x1 + 1
  PROVE  /\ Pictured(draw(v, x, y, c), r, LinePut(text, row, col, c), rest)
         /\ Len(LinePut(text, row, col, c)) = Len(text)
<1>1. /\ v \in [Cell -> Signs] /\ text \in Seq(Line(r)) /\ rest \in Rest(r)
      /\ Len(text) \in Nat
  BY DEF Pictured
<1>2. <<x, y>> \in Cell /\ <<x, y>> \in In(r) /\ row \in 1 .. Len(text) /\ col \in 1 .. Width(r)
  BY PictureAt
<1>3. r.x1 \in Int /\ r.x2 \in Int /\ r.y1 \in Int /\ r.y2 \in Int /\ x \in Int /\ y \in Int
  BY RegionFacts
<1> DEFINE hit  == {<<x, y>>}
           new  == [text[row] EXCEPT ![col] = c]
           more == [text EXCEPT ![row] = new]
           w    == draw(v, x, y, c)
<1>4. w = Struck(v, hit, c)
  BY <1>1, <1>2 DEF draw, Struck
<1>5. text[row] \in Line(r) /\ new \in Line(r)
  BY <1>1, <1>2 DEF Line
<1>6. \A k \in 1 .. Width(r) : new[k] = IF k = col THEN c ELSE text[row][k]
  BY <1>5 DEF Line
<1> HIDE DEF new
<1>7. /\ more \in Seq(Line(r)) /\ Len(more) = Len(text)
      /\ \A i \in 1 .. Len(text) : more[i] = IF i = row THEN new ELSE text[i]
  BY <1>1, <1>2, <1>5, LineChanged
<1> HIDE DEF more, w
<1>8. ASSUME NEW a \in r.x1 .. r.x2, NEW b \in r.y1 .. r.y2
      PROVE  /\ <<a, b>> \in hit => more[Len(text) - r.y2 + b][a - r.x1 + 1] = c
             /\ <<a, b>> \notin hit => more[Len(text) - r.y2 + b][a - r.x1 + 1]
                                        = text[Len(text) - r.y2 + b][a - r.x1 + 1]
  <2> DEFINE i == Len(text) - r.y2 + b
             k == a - r.x1 + 1
  <2>1. i \in 1 .. Len(text) /\ k \in 1 .. Width(r)
    BY PictureAt
  <2>0. a \in Int /\ b \in Int
    OBVIOUS
  <2>2. (i = row <=> b = y) /\ (k = col <=> a = x)
    <3>1. Len(text) \in Int /\ x \in Int /\ y \in Int /\ r.x1 \in Int /\ r.y2 \in Int
      BY <1>1, <1>3
    <3>2. i = row <=> b = y
      BY <2>0, <3>1
    <3>3. k = col <=> a = x
      BY <2>0, <3>1
    <3>4. QED
      BY <3>2, <3>3
  <2>3. <<a, b>> \in hit <=> a = x /\ b = y
    OBVIOUS
  <2> HIDE DEF i, k, hit
  <2>4. more[i] = IF i = row THEN new ELSE text[i]
    BY <1>7, <2>1
  <2>5. i = row => more[i][k] = IF k = col THEN c ELSE text[row][k]
    BY <1>6, <2>1, <2>4
  <2>6. /\ <<a, b>> \in hit => more[i][k] = c
        /\ <<a, b>> \notin hit => more[i][k] = text[i][k]
    BY <2>2, <2>3, <2>4, <2>5
  <2>7. QED
    BY <2>6 DEF i, k
<1>9. \A p \in Cell \ In(r) : p \notin hit
  BY <1>2
<1>10. QED
  <2> HIDE DEF hit
  <2>1. \A p \in Cell \ In(r) : (p \in hit => rest[p] = c) /\ (p \notin hit => rest[p] = rest[p])
    BY <1>9
  <2>2. c \in Signs /\ rest \in Rest(r) /\ more \in Seq(Line(r)) /\ Len(more) = Len(text)
    BY <1>1, <1>7
  <2>3. Pictured(w, r, more, rest)
    BY <1>4, <1>8, <1>9, <2>2, PictureHit, SMTT(40)
  <2>4. QED
    BY <1>7, <2>3 DEF w, more, new, LinePut

\* The rest of the line is erased.
Erased(v, r, x, y) == [p \in Cell |-> IF p[2] = y /\ p[1] \in x .. r.x2 THEN Blank ELSE v[p]]
LineErased(text, row, col) ==
  [text EXCEPT ![row] = [k \in DOMAIN @ |-> IF k < col THEN @[k] ELSE Blank]]

LEMMA PictureErased ==
  ASSUME NEW v, NEW r \in Regions, NEW text, NEW rest, Pictured(v, r, text, rest),
         NEW x \in r.x1 .. r.x2, NEW y \in r.y1 .. r.y2,
         NEW row, row = Len(text) - r.y2 + y, NEW col, col = x - r.x1 + 1
  PROVE  /\ Pictured(Erased(v, r, x, y), r, LineErased(text, row, col), rest)
         /\ Len(LineErased(text, row, col)) = Len(text)
<1>1. /\ v \in [Cell -> Signs] /\ text \in Seq(Line(r)) /\ rest \in Rest(r)
      /\ Len(text) \in Nat
  BY DEF Pictured
<1>2. <<x, y>> \in Cell /\ <<x, y>> \in In(r) /\ row \in 1 .. Len(text) /\ col \in 1 .. Width(r)
  BY PictureAt
<1>3. /\ r.x1 \in Int /\ r.x2 \in Int /\ r.y1 \in Int /\ r.y2 \in Int /\ x \in Int /\ y \in Int
      /\ r.y1 <= y /\ y <= r.y2 /\ r.x1 <= x
  BY RegionFacts
<1> DEFINE hit  == {p \in Cell : p[2] = y /\ p[1] \in x .. r.x2}
           new  == [k \in DOMAIN text[row] |-> IF k < col THEN text[row][k] ELSE Blank]
           more == [text EXCEPT ![row] = new]
           w    == [p \in Cell |-> IF p[2] = y /\ p[1] \in x .. r.x2 THEN Blank ELSE v[p]]
<1>4. w = Struck(v, hit, Blank)
  BY DEF Struck
<1>5. text[row] \in Line(r) /\ DOMAIN text[row] = 1 .. Width(r)
  BY <1>1, <1>2 DEF Line
<1>6. \A k \in 1 .. Width(r) : new[k] = IF k < col THEN text[row][k] ELSE Blank
  BY <1>5
<1>61. new \in Line(r)
  BY <1>5, ScreenFacts DEF Line
<1> HIDE DEF new
<1>7. /\ more \in Seq(Line(r)) /\ Len(more) = Len(text)
      /\ \A i \in 1 .. Len(text) : more[i] = IF i = row THEN new ELSE text[i]
  BY <1>1, <1>2, <1>61, LineChanged
<1> HIDE DEF more, w
<1>8. ASSUME NEW a \in r.x1 .. r.x2, NEW b \in r.y1 .. r.y2
      PROVE  /\ <<a, b>> \in hit => more[Len(text) - r.y2 + b][a - r.x1 + 1] = Blank
             /\ <<a, b>> \notin hit => more[Len(text) - r.y2 + b][a - r.x1 + 1]
                                        = text[Len(text) - r.y2 + b][a - r.x1 + 1]
  <2> DEFINE i == Len(text) - r.y2 + b
             k == a - r.x1 + 1
  <2>0. a \in Int /\ b \in Int /\ a <= r.x2
    BY <1>3
  <2>1. i \in 1 .. Len(text) /\ k \in 1 .. Width(r) /\ <<a, b>> \in Cell
    BY PictureAt
  <2>2. (i = row <=> b = y) /\ (k < col <=> a < x)
    <3>1. Len(text) \in Int /\ x \in Int /\ y \in Int /\ r.x1 \in Int /\ r.y2 \in Int
      BY <1>1, <1>3
    <3>2. i = row <=> b = y
      BY <2>0, <3>1
    <3>3. k < col <=> a < x
      BY <2>0, <3>1
    <3>4. QED
      BY <3>2, <3>3
  <2>3. <<a, b>> \in hit <=> b = y /\ ~(a < x)
    <3>1. <<a, b>> \in hit <=> b = y /\ a \in x .. r.x2
      BY <2>1
    <3>2. QED
      BY <3>1, <2>0, <1>3
  <2> HIDE DEF i, k, hit
  <2>4. more[i] = IF i = row THEN new ELSE text[i]
    BY <1>7, <2>1
  <2>5. i = row => more[i][k] = IF k < col THEN text[row][k] ELSE Blank
    BY <1>6, <2>1, <2>4
  <2>6. /\ <<a, b>> \in hit => more[i][k] = Blank
        /\ <<a, b>> \notin hit => more[i][k] = text[i][k]
    BY <2>2, <2>3, <2>4, <2>5
  <2>7. QED
    BY <2>6 DEF i, k
<1>9. ASSUME NEW p \in Cell \ In(r) PROVE p \notin hit
  <2>1. PICK a \in 0 .. max_x, b \in 0 .. max_y : p = <<a, b>>
    BY DEF Cell
  <2>2. ~(a \in r.x1 .. r.x2 /\ b \in r.y1 .. r.y2)
    BY <2>1 DEF In
  <2>3. QED
    BY <1>3, <2>1, <2>2, ScreenFacts
<1>10. QED
  <2> HIDE DEF hit
  <2>1. Pictured(w, r, more, rest)
    BY <1>1, <1>4, <1>7, <1>8, <1>9, PictureHit, ScreenFacts, SMTT(30)
  <2>2. QED
    BY <1>7, <2>1 DEF w, more, new, Erased, LineErased

-----------------------------------------------------------------------------
\* Screens and papers of which one field is another
LEMMA Screen_ ==
  ASSUME NEW s \in ScreenStates
  PROVE  /\ s.video \in [Cell -> Signs] /\ s.region \in Regions
         /\ s.curr \in [x : Int, y : Int] /\ s.curr.x \in Int /\ s.curr.y \in Int /\ s.cursor \in Int
BY DEF ScreenStates

LEMMA NewVideo ==
  ASSUME NEW s \in ScreenStates, NEW w \in [Cell -> Signs]
  PROVE  /\ [s EXCEPT !.video = w] \in ScreenStates
         /\ [s EXCEPT !.video = w].video = w /\ [s EXCEPT !.video = w].region = s.region
         /\ [s EXCEPT !.video = w].curr = s.curr /\ [s EXCEPT !.video = w].cursor = s.cursor
BY DEF ScreenStates

LEMMA NewCurr ==
  ASSUME NEW s \in ScreenStates, NEW c \in [x : Int, y : Int]
  PROVE  /\ [s EXCEPT !.curr = c] \in ScreenStates
         /\ [s EXCEPT !.curr = c].curr = c /\ [s EXCEPT !.curr = c].region = s.region
         /\ [s EXCEPT !.curr = c].video = s.video /\ [s EXCEPT !.curr = c].cursor = s.cursor
BY DEF ScreenStates

LEMMA CursorSet ==
  ASSUME NEW s \in ScreenStates
  PROVE  /\ setcursor(s) \in ScreenStates /\ CursorThere(setcursor(s))
         /\ setcursor(s).curr = s.curr /\ setcursor(s).region = s.region
         /\ setcursor(s).video = s.video
<1> DEFINE k == (IF s.curr.y > s.region.y2 THEN s.region.y2 ELSE s.curr.y) * Columns + s.curr.x
<1>1. k \in Int
  BY Screen_, ScreenFacts, RegionFacts
<1>2. setcursor(s) = [s EXCEPT !.cursor = k]
  BY DEF setcursor
<1> HIDE DEF k
<1>3. /\ setcursor(s) \in ScreenStates
      /\ setcursor(s).curr = s.curr /\ setcursor(s).region = s.region
      /\ setcursor(s).video = s.video /\ setcursor(s).cursor = k
  BY <1>1, <1>2 DEF ScreenStates
<1>4. CursorThere(setcursor(s))
  BY <1>3 DEF CursorThere, k
<1>5. QED
  BY <1>3, <1>4

LEMMA HomeIs ==
  ASSUME NEW s \in ScreenStates
  PROVE  /\ Home(s) \in ScreenStates
         /\ Home(s).curr.x = s.region.x1 /\ Home(s).curr.y = s.region.y1
         /\ Home(s).region = s.region /\ Home(s).video = s.video
<1> DEFINE c == [x |-> s.region.x1, y |-> s.region.y1]
<1>1. c \in [x : Int, y : Int] /\ c.x = s.region.x1 /\ c.y = s.region.y1
  BY Screen_, RegionFacts
<1>2. Home(s) = [s EXCEPT !.curr = c]
  BY DEF Home
<1> HIDE DEF c
<1>3. QED
  BY <1>1, <1>2, NewCurr

LEMMA PaperFields ==
  ASSUME NEW r, NEW q \in Papers(r)
  PROVE  /\ q.lines \in Seq(Line(r)) /\ q.rest \in Rest(r) /\ q.row \in Int /\ q.col \in Int
         /\ Len(q.lines) \in Nat
BY DEF Papers

\* Two ways of saying what is there
LEMMA FitsFacts ==
  ASSUME NEW s, NEW q, Fits(s, q)
  PROVE  /\ s \in ScreenStates /\ q \in Papers(s.region) /\ s.region \in Regions
         /\ Pictured(s.video, s.region, q.lines, q.rest)
         /\ s.curr.x \in Int /\ s.curr.y \in Int /\ q.row \in Int /\ q.col \in Int
         /\ Len(q.lines) \in Nat /\ q.lines \in Seq(Line(s.region))
         /\ s.curr.x = s.region.x1 + q.col - 1 /\ s.curr.y = q.row - Len(q.lines) + s.region.y2
         /\ s.curr.x \in s.region.x1 .. s.region.x2 /\ s.curr.y \in s.region.y1 .. s.region.y2 + 1
         /\ s.curr.y > s.region.y2 => q.col = 1
<1>1. s \in ScreenStates /\ q \in Papers(s.region) /\ Pictured(s.video, s.region, q.lines, q.rest)
  BY DEF Fits
<1>2. Placed(s.curr, s.region, q)
  BY DEF Fits
<1>3. QED
  BY <1>1, <1>2, Screen_, PaperFields DEF Placed

LEMMA FitsWhen ==
  ASSUME NEW s \in ScreenStates, NEW q \in Papers(s.region),
         Pictured(s.video, s.region, q.lines, q.rest),
         s.curr.x = s.region.x1 + q.col - 1, s.curr.y = q.row - Len(q.lines) + s.region.y2,
         s.curr.x \in s.region.x1 .. s.region.x2, s.curr.y \in s.region.y1 .. s.region.y2 + 1,
         s.curr.y > s.region.y2 => q.col = 1
  PROVE  Fits(s, q)
BY DEF Fits, Placed

\* The region is cleared.
LEMMA Cleared ==
  ASSUME NEW s \in ScreenStates, NEW text \in Seq(Line(s.region)), NEW rest \in Rest(s.region),
         Len(text) >= Height(s.region),
         \A i \in Len(text) - Height(s.region) + 1 .. Len(text) : text[i] = EmptyLine(s.region),
         \A c \in Cell \ In(s.region) : s.video[c] = rest[c]
  PROVE  /\ clearscroll(s) \in ScreenStates
         /\ Pictured(clearscroll(s).video, s.region, text, rest)
         /\ clearscroll(s).region = s.region
         /\ clearscroll(s).curr = s.curr /\ clearscroll(s).cursor = s.cursor
<1> DEFINE w == [c \in Cell |-> IF c \in In(s.region) THEN Blank ELSE s.video[c]]
<1>1. clearscroll(s) = [s EXCEPT !.video = w]
  BY DEF clearscroll
<1>2. /\ w \in [Cell -> Signs] /\ w = [c \in Cell |-> w[c]]
      /\ \A c \in Cell \ In(s.region) : w[c] = s.video[c]
  BY Screen_, ScreenFacts
<1>3. \A c \in In(s.region) : w[c] = Blank
  BY Screen_, RegionFacts
<1> HIDE DEF w
<1>4. \A c \in Cell \ In(s.region) : w[c] = rest[c]
  BY <1>2
<1>5. s.region \in Regions /\ s.video \in [Cell -> Signs]
  BY Screen_
<1>6. Pictured(w, s.region, text, rest)
  BY <1>2, <1>3, <1>4, <1>5, PictureCleared
<1>7. QED
  BY <1>1, <1>2, <1>6, NewVideo

\* c_scroll, in its two cases
LEMMA ScrollsSome ==
  ASSUME NEW s \in ScreenStates, NEW text, NEW rest, Pictured(s.video, s.region, text, rest),
         NEW n \in Nat, n <= s.region.y2 - s.region.y1,
         NEW more, HasMore(more, text, s.region, n)
  PROVE  /\ scroll(s, n) \in ScreenStates
         /\ Pictured(scroll(s, n).video, s.region, more, rest)
         /\ scroll(s, n).region = s.region
         /\ scroll(s, n).curr = s.curr /\ scroll(s, n).cursor = s.cursor
<1> DEFINE w == [c \in Cell |-> ScrolledTo(s.video, s.region, n, c)]
<1>1. s.region \in Regions /\ s.region.y1 \in Int /\ s.region.y2 \in Int
  BY Screen_, RegionFacts
<1>2. ~(n > s.region.y2 - s.region.y1)
  BY <1>1
<1>3. scroll(s, n) = [s EXCEPT !.video = w]
  BY <1>2 DEF scroll, ScrolledTo
<1>4. IsScroll(w, s.video, s.region, n)
  BY DEF IsScroll
<1> HIDE DEF w
<1>5. Pictured(w, s.region, more, rest)
  BY <1>1, <1>4, PictureScrolls
<1>6. w \in [Cell -> Signs]
  BY <1>5 DEF Pictured
<1>7. QED
  BY <1>3, <1>5, <1>6, NewVideo

LEMMA ScrollsAll ==
  ASSUME NEW s \in ScreenStates, NEW text \in Seq(Line(s.region)), NEW rest \in Rest(s.region),
         Len(text) >= Height(s.region),
         \A i \in Len(text) - Height(s.region) + 1 .. Len(text) : text[i] = EmptyLine(s.region),
         \A c \in Cell \ In(s.region) : s.video[c] = rest[c],
         NEW n \in Nat, n > s.region.y2 - s.region.y1
  PROVE  /\ scroll(s, n) \in ScreenStates /\ CursorThere(scroll(s, n))
         /\ Pictured(scroll(s, n).video, s.region, text, rest)
         /\ scroll(s, n).region = s.region
         /\ scroll(s, n).curr.x = s.region.x1 /\ scroll(s, n).curr.y = s.region.y1
<1> DEFINE t == clearscroll(s)
           u == Home(t)
<1>1. t \in ScreenStates /\ Pictured(t.video, s.region, text, rest) /\ t.region = s.region
  BY Cleared
<1> HIDE DEF t
<1>2. /\ u \in ScreenStates /\ u.video = t.video /\ u.region = s.region
      /\ u.curr.x = s.region.x1 /\ u.curr.y = s.region.y1
  BY <1>1, HomeIs
<1>3. scroll(s, n) = setcursor(u)
  BY DEF scroll, t
<1> HIDE DEF u
<1>4. QED
  BY <1>1, <1>2, <1>3, CursorSet

LEMMA OneMore ==
  ASSUME NEW r \in Regions, NEW text \in Seq(Line(r))
  PROVE  HasMore(Append(text, EmptyLine(r)), text, r, 1)
<1>1. EmptyLine(r) \in Line(r)
  BY RegionFacts
<1>2. QED
  BY <1>1, AppendProperties DEF HasMore

\* The region is scrolled late: there is room then.
LEMMA RoomFits ==
  ASSUME NEW s, NEW q, Fits(s, q)
  PROVE  /\ Fits(MadeRoom(s), Started(q, s.region))
         /\ MadeRoom(s).region = s.region
         /\ MadeRoom(s).curr.y <= s.region.y2
<1> DEFINE r == s.region
<1>1. /\ s \in ScreenStates /\ q \in Papers(r) /\ r \in Regions
      /\ Pictured(s.video, r, q.lines, q.rest)
      /\ s.curr.x \in Int /\ s.curr.y \in Int /\ q.row \in Int /\ q.col \in Int
      /\ Len(q.lines) \in Nat /\ q.lines \in Seq(Line(r))
      /\ s.curr.x = r.x1 + q.col - 1 /\ s.curr.y = q.row - Len(q.lines) + r.y2
      /\ s.curr.x \in r.x1 .. r.x2 /\ s.curr.y \in r.y1 .. r.y2 + 1
      /\ s.curr.y > r.y2 => q.col = 1
  BY FitsFacts
<1>2. /\ r.x1 \in Int /\ r.y1 \in Int /\ r.x2 \in Int /\ r.y2 \in Int
      /\ r.x1 <= r.x2 /\ r.y1 <= r.y2 /\ Height(r) \in Nat
  BY <1>1, RegionFacts
<1>3. CASE ~(s.curr.y > r.y2)
  <2>1. MadeRoom(s) = s
    BY <1>3 DEF MadeRoom
  <2>2. ~(q.row > Len(q.lines))
    BY <1>1, <1>2, <1>3
  <2>3. Started(q, r) = q
    BY <2>2 DEF Started
  <2>4. QED
    BY <1>1, <1>2, <1>3, <2>1, <2>3
<1>4. CASE s.curr.y > r.y2
  <2> DEFINE sc   == scroll(s, 1)
             more == Append(q.lines, EmptyLine(r))
             m    == [sc EXCEPT !.curr.y = r.y2]
             p    == [q EXCEPT !.lines = more]
  <2>1. s.curr.y - r.y2 = 1 /\ q.row = Len(q.lines) + 1 /\ q.col = 1 /\ s.curr.x = r.x1
    <3>1. /\ s.curr.y = r.y2 + 1 /\ q.col = 1
      BY <1>1, <1>2, <1>4
    <3>2. s.curr.y = q.row - Len(q.lines) + r.y2 /\ q.row \in Int /\ Len(q.lines) \in Int /\ r.y2 \in Int
      BY <1>1, <1>2
    <3>3. q.row = Len(q.lines) + 1
      BY <3>1, <3>2
    <3>4. s.curr.x = r.x1 + q.col - 1 /\ r.x1 \in Int
      BY <1>1, <1>2
    <3>5. QED
      BY <3>1, <3>2, <3>3, <3>4
  <2>2. MadeRoom(s) = m
    BY <1>4, <2>1 DEF MadeRoom
  <2>3. Started(q, r) = p
    <3>1. q.row > Len(q.lines)
      BY <1>1, <2>1
    <3>2. QED
      BY <3>1 DEF Started
  <2>4. HasMore(more, q.lines, r, 1)
    BY <1>1, OneMore
  <2>5. more \in Seq(Line(r)) /\ Len(more) = Len(q.lines) + 1
    BY <2>4 DEF HasMore
  <2>6. more[Len(more)] = EmptyLine(r)
    BY <2>4, <2>5, <1>1 DEF HasMore
  <2> HIDE DEF more
  <2>7. /\ sc \in ScreenStates /\ Pictured(sc.video, r, more, q.rest)
        /\ sc.region = r /\ sc.curr.x = r.x1
    <3>1. CASE 1 <= r.y2 - r.y1
      <4>1. 1 \in Nat /\ s \in ScreenStates /\ Pictured(s.video, s.region, q.lines, q.rest)
        BY <1>1
      <4>2. /\ scroll(s, 1) \in ScreenStates
            /\ Pictured(scroll(s, 1).video, s.region, more, q.rest)
            /\ scroll(s, 1).region = s.region /\ scroll(s, 1).curr = s.curr
        BY <2>4, <3>1, <4>1, ScrollsSome
      <4>3. QED
        BY <2>1, <4>2
    <3>2. CASE 1 > r.y2 - r.y1
      <4>1. Height(r) = 1
        BY <1>2, <3>2 DEF Height
      <4>2. Len(more) >= Height(r)
        BY <1>1, <2>5, <4>1
      <4>3. \A i \in Len(more) - Height(r) + 1 .. Len(more) : more[i] = EmptyLine(r)
        BY <1>1, <2>5, <2>6, <4>1
      <4>4. \A c \in Cell \ In(r) : s.video[c] = q.rest[c]
        BY <1>1, PictureBeside
      <4>5. q.rest \in Rest(r)
        BY <1>1, PaperFields
      <4>6. 1 \in Nat /\ s \in ScreenStates
        BY <1>1
      <4>7. /\ scroll(s, 1) \in ScreenStates
            /\ Pictured(scroll(s, 1).video, s.region, more, q.rest)
            /\ scroll(s, 1).region = s.region /\ scroll(s, 1).curr.x = s.region.x1
        BY <2>5, <3>2, <4>2, <4>3, <4>4, <4>5, <4>6, ScrollsAll
      <4>8. QED
        BY <4>7
    <3>3. QED
      BY <1>2, <3>1, <3>2
  <2> HIDE DEF sc
  <2>8. /\ m \in ScreenStates /\ m.video = sc.video /\ m.region = r
        /\ m.curr.x = r.x1 /\ m.curr.y = r.y2
    <3>1. sc.curr \in [x : Int, y : Int]
      BY <2>7, Screen_
    <3> DEFINE c == [sc.curr EXCEPT !.y = r.y2]
    <3>2. c \in [x : Int, y : Int] /\ c.x = r.x1 /\ c.y = r.y2
      BY <1>2, <2>7, <3>1
    <3>3. m = [sc EXCEPT !.curr = c]
      OBVIOUS
    <3> HIDE DEF c, m
    <3>4. QED
      BY <2>7, <3>2, <3>3, NewCurr
  <2>9. /\ p \in Papers(r) /\ p.lines = more /\ p.rest = q.rest
        /\ p.row = q.row /\ p.col = q.col
    BY <1>1, <2>5 DEF Papers
  <2> HIDE DEF m, p
  <2>10. Fits(m, p)
    <3>1. p \in Papers(m.region) /\ Pictured(m.video, m.region, p.lines, p.rest)
      BY <2>7, <2>8, <2>9
    <3>2. /\ m.curr.x = m.region.x1 + p.col - 1 /\ m.curr.y = p.row - Len(p.lines) + m.region.y2
          /\ m.curr.x \in m.region.x1 .. m.region.x2 /\ m.curr.y \in m.region.y1 .. m.region.y2 + 1
          /\ ~(m.curr.y > m.region.y2)
      BY <1>1, <1>2, <2>1, <2>5, <2>8, <2>9
    <3>3. QED
      BY <2>8, <3>1, <3>2, FitsWhen
  <2>11. QED
    BY <1>2, <2>2, <2>3, <2>8, <2>10
<1>5. QED
  BY <1>3, <1>4

-----------------------------------------------------------------------------
\* A screen with other characters and the cursor elsewhere, and the paper for it
DrawnAt(s, w, x, y) == [s EXCEPT !.video = w, !.curr = [x |-> x, y |-> y]]
OnPaper(q, text, row, col) == [q EXCEPT !.lines = text, !.row = row, !.col = col]

LEMMA AtIs ==
  ASSUME NEW s \in ScreenStates, NEW w \in [Cell -> Signs], NEW x \in Int, NEW y \in Int
  PROVE  /\ DrawnAt(s, w, x, y) \in ScreenStates
         /\ DrawnAt(s, w, x, y).video = w /\ DrawnAt(s, w, x, y).region = s.region
         /\ DrawnAt(s, w, x, y).curr.x = x /\ DrawnAt(s, w, x, y).curr.y = y
BY DEF DrawnAt, ScreenStates

LEMMA OnPaperIs ==
  ASSUME NEW r, NEW q \in Papers(r), NEW text \in Seq(Line(r)), NEW row \in Int, NEW col \in Int
  PROVE  /\ OnPaper(q, text, row, col) \in Papers(r)
         /\ OnPaper(q, text, row, col).lines = text /\ OnPaper(q, text, row, col).rest = q.rest
         /\ OnPaper(q, text, row, col).row = row /\ OnPaper(q, text, row, col).col = col
BY DEF OnPaper, Papers

\* The next character goes to column x of line y, which is in the region or below it.
Onwards(r, text, x, y, row, col) ==
  /\ x \in Int /\ y \in Int /\ row \in Int /\ col \in Int
  /\ x = r.x1 + col - 1 /\ y = row - Len(text) + r.y2
  /\ x \in r.x1 .. r.x2 /\ y \in r.y1 .. r.y2 + 1
  /\ y > r.y2 => col = 1

LEMMA OnwardFits ==
  ASSUME NEW r, NEW s \in ScreenStates, s.region = r, NEW q \in Papers(r), NEW w, NEW text,
         Pictured(w, r, text, q.rest),
         NEW x, NEW y, NEW row, NEW col, Onwards(r, text, x, y, row, col)
  PROVE  /\ Fits(setcursor(DrawnAt(s, w, x, y)), OnPaper(q, text, row, col))
         /\ setcursor(DrawnAt(s, w, x, y)).region = r
         /\ CursorThere(setcursor(DrawnAt(s, w, x, y)))
<1>0. x \in Int /\ y \in Int /\ row \in Int /\ col \in Int
  BY DEF Onwards
<1> DEFINE e == DrawnAt(s, w, x, y)
           p == OnPaper(q, text, row, col)
           t == setcursor(e)
<1>1. w \in [Cell -> Signs] /\ text \in Seq(Line(s.region))
  BY DEF Pictured
<1>2. e \in ScreenStates /\ e.video = w /\ e.region = s.region /\ e.curr.x = x /\ e.curr.y = y
  BY <1>0, <1>1, AtIs
<1>3. /\ p \in Papers(s.region) /\ p.lines = text /\ p.rest = q.rest
      /\ p.row = row /\ p.col = col
  BY <1>0, <1>1, OnPaperIs
<1> HIDE DEF e, p
<1>4. /\ t \in ScreenStates /\ CursorThere(t) /\ t.video = w /\ t.region = s.region
      /\ t.curr.x = x /\ t.curr.y = y
  BY <1>2, CursorSet
<1> HIDE DEF t
<1>5. Fits(t, p)
  BY <1>3, <1>4, FitsWhen DEF Onwards
<1>6. QED
  BY <1>4, <1>5 DEF t, e, p

\* c_putchar after the region is scrolled, and what is written on the paper by then
AtNewLine(s) ==
  DrawnAt(s, Erased(s.video, s.region, s.curr.x, s.curr.y), s.region.x1, s.curr.y + 1)
AtReturn(s) == DrawnAt(s, s.video, s.region.x1, s.curr.y)
AtOther(s, c) ==
  IF s.curr.x + 1 > s.region.x2
  THEN DrawnAt(s, draw(s.video, s.curr.x, s.curr.y, c), s.region.x1, s.curr.y + 1)
  ELSE DrawnAt(s, draw(s.video, s.curr.x, s.curr.y, c), s.curr.x + 1, s.curr.y)

PaperAtNewLine(q) == OnPaper(q, LineErased(q.lines, q.row, q.col), q.row + 1, 1)
PaperAtReturn(q)  == OnPaper(q, q.lines, q.row, 1)
PaperAtOther(q, r, c) ==
  IF q.col = Width(r)
  THEN OnPaper(q, LinePut(q.lines, q.row, q.col, c), q.row + 1, 1)
  ELSE OnPaper(q, LinePut(q.lines, q.row, q.col, c), q.row, q.col + 1)

LEMMA PutCharIs ==
  ASSUME NEW s0, NEW c, MadeRoom(s0) \in ScreenStates
  PROVE  /\ c = NL => putchar(s0, c) = setcursor(AtNewLine(MadeRoom(s0)))
         /\ c = CR => putchar(s0, c) = setcursor(AtReturn(MadeRoom(s0)))
         /\ c # NL /\ c # CR => putchar(s0, c) = setcursor(AtOther(MadeRoom(s0), c))
<1> DEFINE s == MadeRoom(s0)
           next == [x |-> s.region.x1, y |-> s.curr.y + 1]
           n == [s EXCEPT !.curr = next,
                       !.video = [p \in Cell |->
                          IF p[2] = s.curr.y /\ p[1] \in s.curr.x .. s.region.x2 THEN Blank ELSE @[p]]]
           k == [s EXCEPT !.curr.x = s.region.x1]
           o == [s EXCEPT !.video = draw(@, s.curr.x, s.curr.y, c),
                              !.curr = IF s.curr.x + 1 > s.region.x2 THEN next
                                       ELSE [x |-> s.curr.x + 1, y |-> s.curr.y]]
<1>1. putchar(s0, c) = setcursor(CASE c = NL -> n [] c = CR -> k [] OTHER -> o)
  BY DEF putchar
<1>2. s \in ScreenStates /\ s.curr \in [x : Int, y : Int] /\ DOMAIN s = {"video", "region", "curr", "cursor"}
  BY Screen_ DEF ScreenStates
<1> HIDE DEF s
<1>3. n = AtNewLine(s)
  BY <1>2 DEF AtNewLine, DrawnAt, Erased
<1>4. k = AtReturn(s)
  <2>1. [s.curr EXCEPT !.x = s.region.x1] = [x |-> s.region.x1, y |-> s.curr.y]
    BY <1>2
  <2>2. k = [s EXCEPT !.curr = [x |-> s.region.x1, y |-> s.curr.y]]
    BY <2>1
  <2>3. QED
    BY <1>2, <2>2 DEF AtReturn, DrawnAt
<1>5. o = AtOther(s, c)
  <2> DEFINE u == draw(s.video, s.curr.x, s.curr.y, c)
             x == IF s.curr.x + 1 > s.region.x2 THEN next ELSE [x |-> s.curr.x + 1, y |-> s.curr.y]
  <2>1. o = [s EXCEPT !.video = u, !.curr = x]
    BY <1>2
  <2>2. AtOther(s, c) = [s EXCEPT !.video = u, !.curr = x]
    BY <1>2 DEF AtOther, DrawnAt
  <2>3. QED
    BY <2>1, <2>2
<1> HIDE DEF n, k, o
<1>6. QED
  BY <1>1, <1>3, <1>4, <1>5, ScreenFacts DEF s

LEMMA WrittenIs ==
  ASSUME NEW q0, NEW r, NEW c, Started(q0, r) \in Papers(r)
  PROVE  /\ c = NL => Written(q0, r, c) = PaperAtNewLine(Started(q0, r))
         /\ c = CR => Written(q0, r, c) = PaperAtReturn(Started(q0, r))
         /\ c # NL /\ c # CR => Written(q0, r, c) = PaperAtOther(Started(q0, r), r, c)
<1> DEFINE q == Started(q0, r)
           next == [q EXCEPT !.row = @ + 1, !.col = 1]
           n == [next EXCEPT !.lines[q.row] = [x \in DOMAIN @ |-> IF x < q.col THEN @[x] ELSE Blank]]
           o == [(IF q.col = Width(r) THEN next ELSE [q EXCEPT !.col = @ + 1])
                       EXCEPT !.lines[q.row][q.col] = c]
<1>1. Written(q0, r, c) = CASE c = NL -> n [] c = CR -> [q EXCEPT !.col = 1] [] OTHER -> o
  BY DEF Written
<1>2. q \in Papers(r) /\ DOMAIN q = {"lines", "rest", "row", "col"}
  BY DEF Papers
<1> HIDE DEF q
<1>3. n = PaperAtNewLine(q)
  BY <1>2 DEF PaperAtNewLine, OnPaper, LineErased
<1>4. o = PaperAtOther(q, r, c)
  BY <1>2 DEF PaperAtOther, OnPaper, LinePut
<1>41. [q EXCEPT !.col = 1] = PaperAtReturn(q)
  BY <1>2 DEF PaperAtReturn, OnPaper, Papers
<1> HIDE DEF n, o
<1>5. QED
  BY <1>1, <1>3, <1>4, <1>41, ScreenFacts DEF q

\* The output of one character
LEMMA CharFits ==
  ASSUME NEW s0, NEW q0, Fits(s0, q0), NEW c \in Signs
  PROVE  /\ Fits(putchar(s0, c), Written(q0, s0.region, c))
         /\ putchar(s0, c).region = s0.region /\ CursorThere(putchar(s0, c))
<1> DEFINE r == s0.region
           s == MadeRoom(s0)
           q == Started(q0, r)
<1>1. Fits(s, q) /\ s.region = r /\ s.curr.y <= r.y2
  BY RoomFits
<1>2. /\ s \in ScreenStates /\ q \in Papers(s.region) /\ s.region \in Regions
      /\ Pictured(s.video, s.region, q.lines, q.rest)
      /\ s.curr.x \in Int /\ s.curr.y \in Int /\ q.row \in Int /\ q.col \in Int
      /\ Len(q.lines) \in Nat /\ q.lines \in Seq(Line(s.region))
      /\ s.curr.x = s.region.x1 + q.col - 1 /\ s.curr.y = q.row - Len(q.lines) + s.region.y2
      /\ s.curr.x \in s.region.x1 .. s.region.x2 /\ s.curr.y \in s.region.y1 .. s.region.y2 + 1
  BY <1>1, FitsFacts
<1>3. /\ r.x1 \in Int /\ r.y1 \in Int /\ r.x2 \in Int /\ r.y2 \in Int
      /\ r.x1 <= r.x2 /\ r.y1 <= r.y2 /\ r = s.region /\ r \in Regions
  BY <1>1, <1>2, RegionFacts
<1>4. /\ q.row = Len(q.lines) - r.y2 + s.curr.y /\ q.col = s.curr.x - r.x1 + 1
      /\ s.curr.y \in r.y1 .. r.y2
  <2>1. s.curr.y \in r.y1 .. r.y2
    BY <1>1, <1>2, <1>3
  <2>2. q.row = Len(q.lines) - r.y2 + s.curr.y
    BY <1>2, <1>3
  <2>3. q.col = s.curr.x - r.x1 + 1
    BY <1>2, <1>3
  <2>4. QED
    BY <2>1, <2>2, <2>3
<1>41. /\ s.curr.x \in Int /\ s.curr.y \in Int /\ q.row \in Int /\ q.col \in Int /\ Len(q.lines) \in Int
       /\ r.x1 \in Int /\ r.y1 \in Int /\ r.x2 \in Int /\ r.y2 \in Int
       /\ r.x1 <= s.curr.x /\ s.curr.x <= r.x2 /\ r.y1 <= s.curr.y /\ s.curr.y <= r.y2 /\ r.x1 <= r.x2
       /\ q.row = Len(q.lines) - r.y2 + s.curr.y /\ q.col = s.curr.x - r.x1 + 1
  BY <1>2, <1>3, <1>4
<1>42. s \in ScreenStates /\ s.region = r /\ q \in Papers(r)
  BY <1>2, <1>3
<1>5. /\ c = NL => putchar(s0, c) = setcursor(AtNewLine(s))
      /\ c = CR => putchar(s0, c) = setcursor(AtReturn(s))
      /\ c # NL /\ c # CR => putchar(s0, c) = setcursor(AtOther(s, c))
  BY <1>2, PutCharIs
<1>6. /\ c = NL => Written(q0, r, c) = PaperAtNewLine(q)
      /\ c = CR => Written(q0, r, c) = PaperAtReturn(q)
      /\ c # NL /\ c # CR => Written(q0, r, c) = PaperAtOther(q, r, c)
  BY <1>2, <1>3, WrittenIs
<1>7. s0.region = r
  OBVIOUS
<1> HIDE DEF s, q, r
<1>8. CASE c = NL
  <2> DEFINE w == Erased(s.video, r, s.curr.x, s.curr.y)
             L == LineErased(q.lines, q.row, q.col)
             y == s.curr.y + 1
             row == q.row + 1
             e == DrawnAt(s, w, r.x1, y)
             p == OnPaper(q, L, row, 1)
  <2>1. Pictured(w, r, L, q.rest) /\ Len(L) = Len(q.lines)
    <3>1. /\ r \in Regions /\ Pictured(s.video, r, q.lines, q.rest)
          /\ s.curr.x \in r.x1 .. r.x2 /\ s.curr.y \in r.y1 .. r.y2
          /\ q.row = Len(q.lines) - r.y2 + s.curr.y /\ q.col = s.curr.x - r.x1 + 1
      BY <1>2, <1>3, <1>4
    <3>2. Pictured(w, r, L, q.rest)
      BY <3>1, PictureErased
    <3>3. Len(L) = Len(q.lines)
      BY <3>1, <3>2, PictureErased
    <3>4. QED
      BY <3>2, <3>3
  <2>2. AtNewLine(s) = e
    BY <1>3 DEF AtNewLine
  <2>3. PaperAtNewLine(q) = p
    BY DEF PaperAtNewLine
  <2> HIDE DEF w, L
  <2>4. row \in Int /\ y \in Int /\ r.x1 = r.x1 + 1 - 1 /\ r.x1 \in r.x1 .. r.x2
    BY <1>41
  <2>5. y = row - Len(L) + r.y2
    <3>1. y = row - Len(q.lines) + r.y2
      BY <1>41, SMTT(30)
    <3>2. QED
      BY <2>1, <3>1
  <2>6. y \in r.y1 .. r.y2 + 1
    BY <1>41
  <2> HIDE DEF row, y
  <2>61. Onwards(r, L, r.x1, y, row, 1)
    BY <1>41, <2>4, <2>5, <2>6 DEF Onwards
  <2>7. Fits(setcursor(e), p) /\ setcursor(e).region = r /\ CursorThere(setcursor(e))
    BY <1>42, <2>1, <2>61, OnwardFits
  <2> HIDE DEF e, p
  <2>8. QED
    BY <1>5, <1>6, <1>7, <1>8, <2>2, <2>3, <2>7
<1>9. CASE c = CR
  <2> DEFINE e == DrawnAt(s, s.video, r.x1, s.curr.y)
             p == OnPaper(q, q.lines, q.row, 1)
  <2>1. AtReturn(s) = e
    BY <1>3 DEF AtReturn
  <2>2. PaperAtReturn(q) = p
    BY DEF PaperAtReturn
  <2>3. r.x1 = r.x1 + 1 - 1 /\ r.x1 \in r.x1 .. r.x2
    BY <1>3
  <2>31. /\ Pictured(s.video, r, q.lines, q.rest) /\ s.curr.y = q.row - Len(q.lines) + r.y2
         /\ s.curr.y \in r.y1 .. r.y2 + 1
    BY <1>2, <1>3
  <2>32. Onwards(r, q.lines, r.x1, s.curr.y, q.row, 1)
    BY <1>41, <2>3, <2>31 DEF Onwards
  <2>4. Fits(setcursor(e), p) /\ setcursor(e).region = r /\ CursorThere(setcursor(e))
    BY <1>42, <2>31, <2>32, OnwardFits
  <2> HIDE DEF e, p
  <2>5. QED
    BY <1>5, <1>6, <1>7, <1>9, <2>1, <2>2, <2>4
<1>10. CASE c # NL /\ c # CR
  <2> DEFINE w == draw(s.video, s.curr.x, s.curr.y, c)
             L == LinePut(q.lines, q.row, q.col, c)
             e == AtOther(s, c)
             p == PaperAtOther(q, r, c)
  <2>1. Pictured(w, r, L, q.rest) /\ Len(L) = Len(q.lines)
    <3>1. /\ r \in Regions /\ Pictured(s.video, r, q.lines, q.rest)
          /\ s.curr.x \in r.x1 .. r.x2 /\ s.curr.y \in r.y1 .. r.y2
          /\ q.row = Len(q.lines) - r.y2 + s.curr.y /\ q.col = s.curr.x - r.x1 + 1
      BY <1>2, <1>3, <1>4
    <3>2. Pictured(w, r, L, q.rest)
      BY <3>1, PictureWritten
    <3>3. Len(L) = Len(q.lines)
      BY <3>1, <3>2, PictureWritten
    <3>4. QED
      BY <3>2, <3>3
  <2>2. q.col = Width(r) <=> s.curr.x + 1 > r.x2
    <3>1. s.curr.x \in Int /\ s.curr.x <= r.x2 /\ q.col = s.curr.x - r.x1 + 1
      BY <1>2, <1>3, <1>4
    <3>2. QED
      BY <3>1, <1>3 DEF Width
  <2>3. CASE s.curr.x + 1 > r.x2
    <3> DEFINE y == s.curr.y + 1
               row == q.row + 1
    <3>1. e = DrawnAt(s, w, r.x1, y)
      BY <1>3, <2>3 DEF AtOther
    <3>2. p = OnPaper(q, L, row, 1)
      BY <2>2, <2>3 DEF PaperAtOther
    <3> HIDE DEF w, L, e, p
    <3>3. row \in Int /\ y \in Int /\ r.x1 = r.x1 + 1 - 1 /\ r.x1 \in r.x1 .. r.x2
      BY <1>41
    <3>4. y = row - Len(L) + r.y2
      <4>1. y = row - Len(q.lines) + r.y2
        BY <1>41, SMTT(30)
      <4>2. QED
        BY <2>1, <4>1
    <3>5. y \in r.y1 .. r.y2 + 1
      BY <1>41
    <3> HIDE DEF row, y
    <3>6. Onwards(r, L, r.x1, y, row, 1)
      BY <1>41, <3>3, <3>4, <3>5 DEF Onwards
    <3>7. Fits(setcursor(e), p) /\ setcursor(e).region = r /\ CursorThere(setcursor(e))
      BY <1>42, <2>1, <3>1, <3>2, <3>6, OnwardFits
    <3>8. QED
      BY <1>5, <1>6, <1>7, <1>10, <3>7 DEF e, p
  <2>4. CASE ~(s.curr.x + 1 > r.x2)
    <3> DEFINE x == s.curr.x + 1
               col == q.col + 1
    <3>1. e = DrawnAt(s, w, x, s.curr.y)
      BY <1>3, <2>4 DEF AtOther
    <3>2. p = OnPaper(q, L, q.row, col)
      BY <2>2, <2>4 DEF PaperAtOther
    <3> HIDE DEF w, L, e, p
    <3>3. col \in Int /\ x \in Int
      BY <1>41
    <3>31. x = r.x1 + col - 1
      BY <1>41
    <3>4. x \in r.x1 .. r.x2
      BY <1>41, <2>4
    <3>5. s.curr.y = q.row - Len(L) + r.y2
      <4>1. s.curr.y = q.row - Len(q.lines) + r.y2
        <5>1. PICK i \in Int, k \in Int, b \in Int, a \in Int :
                i = q.row /\ k = Len(q.lines) /\ b = r.y2 /\ a = s.curr.y /\ i = k - b + a
          BY <1>41
        <5>2. a = i - k + b
          BY <5>1, SMTT(30)
        <5>3. QED
          BY <5>1, <5>2
      <4>2. QED
        BY <2>1, <4>1
    <3>6. ~(s.curr.y > r.y2)
      BY <1>41
    <3>61. s.curr.y \in r.y1 .. r.y2 + 1
      BY <1>41
    <3> HIDE DEF x, col
    <3>7. Onwards(r, L, x, s.curr.y, q.row, col)
      BY <1>41, <3>3, <3>31, <3>4, <3>5, <3>6, <3>61 DEF Onwards
    <3>8. Fits(setcursor(e), p) /\ setcursor(e).region = r /\ CursorThere(setcursor(e))
      BY <1>42, <2>1, <3>1, <3>2, <3>7, OnwardFits
    <3>9. QED
      BY <1>5, <1>6, <1>7, <1>10, <3>8 DEF e, p
  <2>5. QED
    BY <2>3, <2>4
<1>11. QED
  BY <1>8, <1>9, <1>10

-----------------------------------------------------------------------------
\* A set of numbers that is not empty has a least one.
LEMMA LeastNumber ==
  ASSUME NEW U, U \subseteq Nat, U # {}
  PROVE  \E x \in U : \A y \in U : x <= y
<1> DEFINE R == OpToRel(<, Nat)
<1>1. IsWellFoundedOn(R, Nat)
  BY NatLessThanWellFounded
<1>2. PICK x \in U : \A y \in U : <<y, x>> \notin R
  <2> HIDE DEF R
  <2> QED BY <1>1, WFMin
<1>3. ASSUME NEW y \in U PROVE x <= y
  <2>1. x \in Nat /\ y \in Nat
    OBVIOUS
  <2>2. ~(y < x)
    BY <1>2, <2>1 DEF OpToRel
  <2>3. QED
    BY <2>1, <2>2
<1>4. QED
  BY <1>3

\* Induction: a set of numbers that holds 0 and the successor of every number it
\* holds is Nat.
LEMMA NatSetInduction ==
  ASSUME NEW T, T \subseteq Nat, 0 \in T, \A n \in T : n + 1 \in T
  PROVE  T = Nat
<1> DEFINE U == Nat \ T
<1>1. SUFFICES ASSUME U # {} PROVE FALSE
  OBVIOUS
<1>2. PICK x \in U : \A y \in U : x <= y
  <2>1. U \subseteq Nat
    OBVIOUS
  <2> HIDE DEF U
  <2>2. QED
    BY <1>1, <2>1, LeastNumber
<1>3. x \in Nat /\ x \notin T
  BY DEF U
<1> HIDE DEF U
<1>4. x # 0 /\ x - 1 \in Nat
  BY <1>3
<1>5. x - 1 \in U
  <2>1. x - 1 \notin T
    BY <1>3, <1>4
  <2>2. QED
    BY <2>1, <1>4 DEF U
<1>6. QED
  BY <1>2, <1>3, <1>5


\* The functions by which puts and the like are defined exist.
IsPuts(f, s, str, m) == f = [k \in 0 .. m |-> IF k = 0 THEN s ELSE putchar(f[k-1], str[k])]

LEMMA PutsExist ==
  ASSUME NEW s, NEW str, NEW n \in Nat
  PROVE  \E f : IsPuts(f, s, str, n)
<1> DEFINE T == {m \in Nat : \E f : IsPuts(f, s, str, m)}
<1>1. 0 \in T
  <2>1. IsPuts([k \in 0 .. 0 |-> s], s, str, 0)
    BY DEF IsPuts
  <2>2. QED
    BY <2>1
<1>2. ASSUME NEW m \in T PROVE m + 1 \in T
  <2>1. m \in Nat
    OBVIOUS
  <2>2. PICK f : IsPuts(f, s, str, m)
    OBVIOUS
  <2> DEFINE g == [k \in 0 .. m+1 |-> IF k = 0 THEN s ELSE putchar(f[k-1], str[k])]
  <2>3. \A i \in 0 .. m : g[i] = f[i]
    <3> SUFFICES ASSUME NEW i \in 0 .. m PROVE g[i] = f[i]
      OBVIOUS
    <3>1. i \in 0 .. m+1
      BY <2>1
    <3>2. f[i] = IF i = 0 THEN s ELSE putchar(f[i-1], str[i])
      BY <2>2 DEF IsPuts
    <3>3. QED
      BY <3>1, <3>2
  <2>4. \A i \in 0 .. m+1 : i # 0 => i - 1 \in 0 .. m
    BY <2>1
  <2>5. g = [k \in 0 .. m+1 |-> IF k = 0 THEN s ELSE putchar(g[k-1], str[k])]
    <3>1. ASSUME NEW k \in 0 .. m+1
          PROVE  (IF k = 0 THEN s ELSE putchar(f[k-1], str[k]))
                   = (IF k = 0 THEN s ELSE putchar(g[k-1], str[k]))
      <4> HIDE DEF g
      <4> QED BY <2>3, <2>4
    <3>2. QED
      BY <3>1
  <2>6. QED
    <3> HIDE DEF g
    <3> QED BY <2>1, <2>5 DEF IsPuts
<1>3. T = Nat
  <2> HIDE DEF T
  <2>1. T \subseteq Nat
    BY DEF T
  <2>2. QED
    BY <1>1, <1>2, <2>1, NatSetInduction
<1>4. QED
  BY <1>3

\* the lines of the paper after each character
IsWritten(f, q, r, str, m) == f = [k \in 0 .. m |-> IF k = 0 THEN q ELSE Written(f[k-1], r, str[k])]

LEMMA WrittenExist ==
  ASSUME NEW q, NEW r, NEW str, NEW n \in Nat
  PROVE  \E f : IsWritten(f, q, r, str, n)
<1> DEFINE T == {m \in Nat : \E f : IsWritten(f, q, r, str, m)}
<1>1. 0 \in T
  <2>1. IsWritten([k \in 0 .. 0 |-> q], q, r, str, 0)
    BY DEF IsWritten
  <2>2. QED
    BY <2>1
<1>2. ASSUME NEW m \in T PROVE m + 1 \in T
  <2>1. m \in Nat
    OBVIOUS
  <2>2. PICK f : IsWritten(f, q, r, str, m)
    OBVIOUS
  <2> DEFINE g == [k \in 0 .. m+1 |-> IF k = 0 THEN q ELSE Written(f[k-1], r, str[k])]
  <2>3. \A i \in 0 .. m : g[i] = f[i]
    <3> SUFFICES ASSUME NEW i \in 0 .. m PROVE g[i] = f[i]
      OBVIOUS
    <3>1. i \in 0 .. m+1
      BY <2>1
    <3>2. f[i] = IF i = 0 THEN q ELSE Written(f[i-1], r, str[i])
      BY <2>2 DEF IsWritten
    <3>3. QED
      BY <3>1, <3>2
  <2>4. \A i \in 0 .. m+1 : i # 0 => i - 1 \in 0 .. m
    BY <2>1
  <2>5. g = [k \in 0 .. m+1 |-> IF k = 0 THEN q ELSE Written(g[k-1], r, str[k])]
    <3>1. ASSUME NEW k \in 0 .. m+1
          PROVE  (IF k = 0 THEN q ELSE Written(f[k-1], r, str[k]))
                   = (IF k = 0 THEN q ELSE Written(g[k-1], r, str[k]))
      <4> HIDE DEF g
      <4> QED BY <2>3, <2>4
    <3>2. QED
      BY <3>1
  <2>6. QED
    <3> HIDE DEF g
    <3> QED BY <2>1, <2>5 DEF IsWritten
<1>3. T = Nat
  <2> HIDE DEF T
  <2>1. T \subseteq Nat
    BY DEF T
  <2>2. QED
    BY <1>1, <1>2, <2>1, NatSetInduction
<1>4. QED
  BY <1>3

\* the screen
IsPutsAt(f, v, r, x, y, str, m) == f = [k \in 0 .. m |-> IF k = 0 THEN v ELSE IF x + k - 1 > max_x THEN f[k-1] ELSE putchar_at(f[k-1], r, x + k - 1, y, str[k])]

LEMMA PutsAtExist ==
  ASSUME NEW v, NEW r, NEW x, NEW y, NEW str, NEW n \in Nat
  PROVE  \E f : IsPutsAt(f, v, r, x, y, str, n)
<1> DEFINE T == {m \in Nat : \E f : IsPutsAt(f, v, r, x, y, str, m)}
<1>1. 0 \in T
  <2>1. IsPutsAt([k \in 0 .. 0 |-> v], v, r, x, y, str, 0)
    BY DEF IsPutsAt
  <2>2. QED
    BY <2>1
<1>2. ASSUME NEW m \in T PROVE m + 1 \in T
  <2>1. m \in Nat
    OBVIOUS
  <2>2. PICK f : IsPutsAt(f, v, r, x, y, str, m)
    OBVIOUS
  <2> DEFINE g == [k \in 0 .. m+1 |-> IF k = 0 THEN v ELSE IF x + k - 1 > max_x THEN f[k-1] ELSE putchar_at(f[k-1], r, x + k - 1, y, str[k])]
  <2>3. \A i \in 0 .. m : g[i] = f[i]
    <3> SUFFICES ASSUME NEW i \in 0 .. m PROVE g[i] = f[i]
      OBVIOUS
    <3>1. i \in 0 .. m+1
      BY <2>1
    <3>2. f[i] = IF i = 0 THEN v ELSE IF x + i - 1 > max_x THEN f[i-1] ELSE putchar_at(f[i-1], r, x + i - 1, y, str[i])
      BY <2>2 DEF IsPutsAt
    <3>3. QED
      BY <3>1, <3>2
  <2>4. \A i \in 0 .. m+1 : i # 0 => i - 1 \in 0 .. m
    BY <2>1
  <2>5. g = [k \in 0 .. m+1 |-> IF k = 0 THEN v ELSE IF x + k - 1 > max_x THEN g[k-1] ELSE putchar_at(g[k-1], r, x + k - 1, y, str[k])]
    <3>1. ASSUME NEW k \in 0 .. m+1
          PROVE  (IF k = 0 THEN v ELSE IF x + k - 1 > max_x THEN f[k-1] ELSE putchar_at(f[k-1], r, x + k - 1, y, str[k]))
                   = (IF k = 0 THEN v ELSE IF x + k - 1 > max_x THEN g[k-1] ELSE putchar_at(g[k-1], r, x + k - 1, y, str[k]))
      <4> HIDE DEF g
      <4> QED BY <2>3, <2>4
    <3>2. QED
      BY <3>1
  <2>6. QED
    <3> HIDE DEF g
    <3> QED BY <2>1, <2>5 DEF IsPutsAt
<1>3. T = Nat
  <2> HIDE DEF T
  <2>1. T \subseteq Nat
    BY DEF T
  <2>2. QED
    BY <1>1, <1>2, <2>1, NatSetInduction
<1>4. QED
  BY <1>3

\* the paper
IsPutAllAt(f, q, r, x, y, str, m) == f = [k \in 0 .. m |-> IF k = 0 THEN q ELSE IF x + k - 1 > max_x THEN f[k-1] ELSE PutAt(f[k-1], r, x + k - 1, y, str[k])]

LEMMA PutAllAtExist ==
  ASSUME NEW q, NEW r, NEW x, NEW y, NEW str, NEW n \in Nat
  PROVE  \E f : IsPutAllAt(f, q, r, x, y, str, n)
<1> DEFINE T == {m \in Nat : \E f : IsPutAllAt(f, q, r, x, y, str, m)}
<1>1. 0 \in T
  <2>1. IsPutAllAt([k \in 0 .. 0 |-> q], q, r, x, y, str, 0)
    BY DEF IsPutAllAt
  <2>2. QED
    BY <2>1
<1>2. ASSUME NEW m \in T PROVE m + 1 \in T
  <2>1. m \in Nat
    OBVIOUS
  <2>2. PICK f : IsPutAllAt(f, q, r, x, y, str, m)
    OBVIOUS
  <2> DEFINE g == [k \in 0 .. m+1 |-> IF k = 0 THEN q ELSE IF x + k - 1 > max_x THEN f[k-1] ELSE PutAt(f[k-1], r, x + k - 1, y, str[k])]
  <2>3. \A i \in 0 .. m : g[i] = f[i]
    <3> SUFFICES ASSUME NEW i \in 0 .. m PROVE g[i] = f[i]
      OBVIOUS
    <3>1. i \in 0 .. m+1
      BY <2>1
    <3>2. f[i] = IF i = 0 THEN q ELSE IF x + i - 1 > max_x THEN f[i-1] ELSE PutAt(f[i-1], r, x + i - 1, y, str[i])
      BY <2>2 DEF IsPutAllAt
    <3>3. QED
      BY <3>1, <3>2
  <2>4. \A i \in 0 .. m+1 : i # 0 => i - 1 \in 0 .. m
    BY <2>1
  <2>5. g = [k \in 0 .. m+1 |-> IF k = 0 THEN q ELSE IF x + k - 1 > max_x THEN g[k-1] ELSE PutAt(g[k-1], r, x + k - 1, y, str[k])]
    <3>1. ASSUME NEW k \in 0 .. m+1
          PROVE  (IF k = 0 THEN q ELSE IF x + k - 1 > max_x THEN f[k-1] ELSE PutAt(f[k-1], r, x + k - 1, y, str[k]))
                   = (IF k = 0 THEN q ELSE IF x + k - 1 > max_x THEN g[k-1] ELSE PutAt(g[k-1], r, x + k - 1, y, str[k]))
      <4> HIDE DEF g
      <4> QED BY <2>3, <2>4
    <3>2. QED
      BY <3>1
  <2>6. QED
    <3> HIDE DEF g
    <3> QED BY <2>1, <2>5 DEF IsPutAllAt
<1>3. T = Nat
  <2> HIDE DEF T
  <2>1. T \subseteq Nat
    BY DEF T
  <2>2. QED
    BY <1>1, <1>2, <2>1, NatSetInduction
<1>4. QED
  BY <1>3

-----------------------------------------------------------------------------
\* c_puts, from the first character to the last
LEMMA StringFits ==
  ASSUME NEW s, NEW q, Fits(s, q), CursorThere(s), NEW str \in Seq(Signs)
  PROVE  /\ Fits(puts(s, str), WrittenAll(q, s.region, str))
         /\ puts(s, str).region = s.region /\ CursorThere(puts(s, str))
<1> DEFINE n == Len(str)
           r == s.region
           f == CHOOSE h : IsPuts(h, s, str, n)
           g == CHOOSE h : IsWritten(h, q, r, str, n)
<1>1. n \in Nat
  OBVIOUS
<1>2. IsPuts(f, s, str, n) /\ IsWritten(g, q, r, str, n)
  BY <1>1, PutsExist, WrittenExist
<1>3. puts(s, str) = f[n] /\ WrittenAll(q, r, str) = g[n]
  BY DEF puts, WrittenAll, IsPuts, IsWritten
<1> HIDE DEF f, g
<1>4. f[0] = s /\ g[0] = q
  BY <1>1, <1>2 DEF IsPuts, IsWritten
<1>5. ASSUME NEW k \in 0 .. n, k # 0
      PROVE  f[k] = putchar(f[k-1], str[k]) /\ g[k] = Written(g[k-1], r, str[k])
  BY <1>5, <1>2 DEF IsPuts, IsWritten
<1> DEFINE Good(m) == Fits(f[m], g[m]) /\ f[m].region = r /\ CursorThere(f[m])
           T == {m \in Nat : m <= n => Good(m)}
<1>6. 0 \in T
  BY <1>4
<1>7. ASSUME NEW m \in T PROVE m + 1 \in T
  <2>1. SUFFICES ASSUME m + 1 <= n PROVE Good(m + 1)
    OBVIOUS
  <2>2. m \in Nat /\ m + 1 \in 0 .. n /\ m + 1 # 0 /\ (m + 1) - 1 = m /\ m <= n
    BY <1>1, <2>1
  <2>3. Good(m)
    BY <2>2
  <2> DEFINE k == m + 1
  <2>4. str[k] \in Signs
    BY <1>1, <2>2
  <2>5. f[k] = putchar(f[m], str[k]) /\ g[k] = Written(g[m], r, str[k])
    BY <1>5, <2>2
  <2> HIDE DEF k, r
  <2>6. Good(k)
    BY <2>3, <2>4, <2>5, CharFits
  <2>7. QED
    BY <2>6 DEF k
<1>8. T = Nat
  <2> HIDE DEF T
  <2>1. T \subseteq Nat
    BY DEF T
  <2>2. QED
    BY <1>6, <1>7, <2>1, NatSetInduction
<1>9. Good(n)
  BY <1>1, <1>8
<1>10. QED
  BY <1>3, <1>9

\* Output at a place: the same characters are hit on both.
Hit(r, x, y, c) ==
  {p \in Cell : p[2] = y /\ IF c = NL THEN p[1] >= x /\ Side(r, p[1]) = Side(r, x) ELSE p[1] = x}
Stroke(c) == IF c = NL THEN Blank ELSE c

LEMMA PutAtHits ==
  ASSUME NEW v, v \in [Cell -> Signs], NEW r \in Regions, NEW x \in Nat, NEW y \in Nat, NEW c \in Signs
  PROVE  putchar_at(v, r, x, y, c) = Struck(v, Hit(r, x, y, c), Stroke(c))
<1>1. /\ r.x1 \in Int /\ r.x2 \in Int /\ r.x1 <= r.x2 /\ r.x2 <= max_x /\ max_x \in Int
  BY RegionFacts, ScreenFacts
<1>2. CASE c = NL
  <2> DEFINE limit == CASE x > r.x2             -> max_x
                        [] x \in r.x1 .. r.x2   -> r.x2
                        [] x < r.x1             -> r.x1 - 1
  <2>1. ASSUME NEW p \in Cell
        PROVE  p[1] \in x .. limit <=> p[1] >= x /\ Side(r, p[1]) = Side(r, x)
    <3>1. p[1] \in Int /\ p[1] <= max_x
      BY ScreenFacts DEF Cell
    <3>2. CASE x > r.x2
      <4>1. limit = max_x /\ Side(r, x) = "right"
        BY <1>1, <3>2 DEF Side
      <4>2. p[1] >= x => Side(r, p[1]) = "right"
        BY <1>1, <3>1, <3>2 DEF Side
      <4> HIDE DEF limit
      <4>3. QED
        BY <1>1, <3>1, <4>1, <4>2
    <3>3. CASE x \in r.x1 .. r.x2
      <4>1. limit = r.x2 /\ Side(r, x) = "in"
        BY <1>1, <3>3 DEF Side
      <4>2. p[1] >= x => (Side(r, p[1]) = "in" <=> p[1] <= r.x2)
        BY <1>1, <3>1, <3>3 DEF Side
      <4> HIDE DEF limit
      <4>3. QED
        BY <1>1, <3>1, <3>3, <4>1, <4>2
    <3>4. CASE x < r.x1
      <4>1. limit = r.x1 - 1 /\ Side(r, x) = "left"
        BY <1>1, <3>4 DEF Side
      <4>2. Side(r, p[1]) = "left" <=> p[1] < r.x1
        BY <1>1, <3>1 DEF Side
      <4> HIDE DEF limit
      <4>3. QED
        BY <1>1, <3>1, <4>1, <4>2
    <3>5. QED
      BY <1>1, <3>2, <3>3, <3>4
  <2>2. putchar_at(v, r, x, y, c)
          = [p \in Cell |-> IF p[2] = y /\ p[1] \in x .. limit THEN Blank ELSE v[p]]
    BY <1>2 DEF putchar_at
  <2> HIDE DEF limit
  <2>3. Stroke(c) = Blank /\ \A p \in Cell : p \in Hit(r, x, y, c) <=> p[2] = y /\ p[1] \in x .. limit
    BY <1>2, <2>1 DEF Stroke, Hit
  <2>4. QED
    BY <2>2, <2>3 DEF Struck
<1>3. CASE c # NL
  <2>1. putchar_at(v, r, x, y, c) = draw(v, x, y, c) /\ Stroke(c) = c
    BY <1>3 DEF putchar_at, Stroke
  <2>2. ASSUME NEW p \in Cell PROVE p \in Hit(r, x, y, c) <=> p = <<x, y>>
    BY <1>3 DEF Hit, Cell
  <2>3. draw(v, x, y, c) = [p \in Cell |-> IF p = <<x, y>> THEN c ELSE v[p]]
    BY DEF draw
  <2>4. QED
    BY <2>1, <2>2, <2>3 DEF Struck
<1>4. QED
  BY <1>2, <1>3

\* The paper p is the paper q with other characters, and v shows it.
Retouched(v, r, p, q) ==
  /\ p \in Papers(r) /\ Pictured(v, r, p.lines, p.rest)
  /\ Len(p.lines) = Len(q.lines) /\ p.row = q.row /\ p.col = q.col

LEMMA RetouchedFits ==
  ASSUME NEW s, NEW q, Fits(s, q), NEW w, NEW p, Retouched(w, s.region, p, q)
  PROVE  /\ Fits([s EXCEPT !.video = w], p) /\ [s EXCEPT !.video = w].region = s.region
         /\ CursorThere(s) => CursorThere([s EXCEPT !.video = w])
<1> DEFINE r == s.region
           t == [s EXCEPT !.video = w]
<1>1. /\ p \in Papers(r) /\ Pictured(w, r, p.lines, p.rest)
      /\ Len(p.lines) = Len(q.lines) /\ p.row = q.row /\ p.col = q.col
  BY DEF Retouched
<1>2. s \in ScreenStates /\ w \in [Cell -> Signs] /\ Placed(s.curr, r, q)
  BY <1>1 DEF Fits, Pictured
<1>3. t \in ScreenStates /\ t.video = w /\ t.region = r /\ t.curr = s.curr /\ t.cursor = s.cursor
  BY <1>2, NewVideo
<1> HIDE DEF t
<1>4. Placed(t.curr, r, p)
  BY <1>1, <1>2, <1>3 DEF Placed
<1>5. Fits(t, p)
  BY <1>1, <1>3, <1>4 DEF Fits
<1>6. CursorThere(s) => CursorThere(t)
  BY <1>3 DEF CursorThere
<1>7. QED
  BY <1>3, <1>5, <1>6 DEF t

\* The paper under the characters that are hit
LinesHit(text, r, hit, put) ==
  [n \in DOMAIN text |-> [k \in DOMAIN text[n] |->
     IF <<r.x1 + k - 1, n - (Len(text) - Height(r)) + r.y1 - 1>> \in hit \cap In(r) THEN put ELSE text[n][k]]]

LEMMA LinesHitAre ==
  ASSUME NEW r \in Regions, NEW text \in Seq(Line(r)), NEW hit, NEW put \in Signs
  PROVE  /\ LinesHit(text, r, hit, put) \in Seq(Line(r))
         /\ Len(LinesHit(text, r, hit, put)) = Len(text)
<1> DEFINE more == LinesHit(text, r, hit, put)
           n == Len(text)
<1>1. n \in Nat /\ DOMAIN text = 1 .. n /\ \A i \in 1 .. n : text[i] \in Line(r)
  OBVIOUS
<1>2. ASSUME NEW i \in 1 .. n PROVE more[i] \in Line(r)
  <2>1. text[i] \in Line(r) /\ DOMAIN text[i] = 1 .. Width(r)
    BY <1>1 DEF Line
  <2>2. \A k \in 1 .. Width(r) : text[i][k] \in Signs
    BY <2>1 DEF Line
  <2>3. more[i] = [k \in 1 .. Width(r) |->
          IF <<r.x1 + k - 1, i - (n - Height(r)) + r.y1 - 1>> \in hit \cap In(r) THEN put ELSE text[i][k]]
    BY <1>1, <2>1 DEF LinesHit
  <2> HIDE DEF more
  <2>4. QED
    BY <2>2, <2>3 DEF Line
<1>3. more = [i \in 1 .. n |-> more[i]]
  BY <1>1 DEF LinesHit
<1> HIDE DEF more
<1>4. more \in [1 .. n -> Line(r)]
  BY <1>2, <1>3
<1> HIDE DEF n
<1>5. more \in Seq(Line(r)) /\ Len(more) = n
  BY <1>1, <1>4
<1>6. QED
  BY <1>5 DEF more, n

LEMMA PictureStruck ==
  ASSUME NEW v, NEW r \in Regions, NEW text, NEW rest, Pictured(v, r, text, rest),
         NEW hit, NEW put \in Signs
  PROVE  Pictured(Struck(v, hit, put), r, LinesHit(text, r, hit, put),
                  [p \in DOMAIN rest |-> IF p \in hit THEN put ELSE rest[p]])
<1> DEFINE more  == LinesHit(text, r, hit, put)
           other == [p \in DOMAIN rest |-> IF p \in hit THEN put ELSE rest[p]]
           w     == Struck(v, hit, put)
<1>1. v \in [Cell -> Signs] /\ text \in Seq(Line(r)) /\ rest \in Rest(r) /\ Len(text) \in Nat
  BY DEF Pictured
<1>2. more \in Seq(Line(r)) /\ Len(more) = Len(text)
  BY <1>1, LinesHitAre
<1>3. other \in Rest(r)
  BY <1>1 DEF Rest
<1>4. \A c \in Cell \ In(r) : (c \in hit => other[c] = put) /\ (c \notin hit => other[c] = rest[c])
  BY <1>1 DEF Rest
<1>5. ASSUME NEW x \in r.x1 .. r.x2, NEW y \in r.y1 .. r.y2
      PROVE  /\ <<x, y>> \in hit => more[Len(text) - r.y2 + y][x - r.x1 + 1] = put
             /\ <<x, y>> \notin hit => more[Len(text) - r.y2 + y][x - r.x1 + 1]
                                        = text[Len(text) - r.y2 + y][x - r.x1 + 1]
  <2> DEFINE i == Len(text) - r.y2 + y
             k == x - r.x1 + 1
  <2>1. i \in 1 .. Len(text) /\ k \in 1 .. Width(r) /\ <<x, y>> \in In(r)
    BY PictureAt
  <2>2. r.x1 + k - 1 = x
    BY RegionFacts
  <2>3. i - (Len(text) - Height(r)) + r.y1 - 1 = y
    <3>1. PICK n \in Int, a \in Int, b \in Int : n = Len(text) /\ a = r.y1 /\ b = r.y2
      BY <1>1, RegionFacts
    <3>2. y \in Int
      OBVIOUS
    <3>3. (n - b + y) - (n - (b - a + 1)) + a - 1 = y
      BY <3>2
    <3>4. QED
      BY <3>1, <3>3 DEF Height
  <2> HIDE DEF i, k
  <2>4. DOMAIN text = 1 .. Len(text) /\ DOMAIN text[i] = 1 .. Width(r)
    BY <1>1, <2>1 DEF Line
  <2>5. more[i][k] = IF <<x, y>> \in hit \cap In(r) THEN put ELSE text[i][k]
    BY <2>1, <2>2, <2>3, <2>4 DEF LinesHit
  <2>6. QED
    BY <2>1, <2>5 DEF i, k
<1> HIDE DEF more, other, w
<1>6. w = Struck(v, hit, put)
  BY DEF w
<1>7. Pictured(w, r, more, other)
  BY <1>2, <1>3, <1>4, <1>5, <1>6, PictureHit
<1>8. QED
  BY <1>7 DEF w, more, other

\* c_putchar_at
LEMMA PutAtFits ==
  ASSUME NEW v, NEW r \in Regions, NEW p, NEW q, Retouched(v, r, p, q),
         NEW x \in Nat, NEW y \in Nat, NEW c \in Signs
  PROVE  Retouched(putchar_at(v, r, x, y, c), r, PutAt(p, r, x, y, c), q)
<1> DEFINE hit   == Hit(r, x, y, c)
           put   == Stroke(c)
           more  == LinesHit(p.lines, r, hit, put)
           other == [a \in DOMAIN p.rest |-> IF a \in hit THEN put ELSE p.rest[a]]
           to    == PutAt(p, r, x, y, c)
<1>1. /\ p \in Papers(r) /\ Pictured(v, r, p.lines, p.rest)
      /\ Len(p.lines) = Len(q.lines) /\ p.row = q.row /\ p.col = q.col
  BY DEF Retouched
<1>2. to = [p EXCEPT !.lines = more, !.rest = other]
  BY <1>1 DEF PutAt, LinesHit, Hit, Stroke, Top, Papers
<1>3. put \in Signs
  BY ScreenFacts DEF Stroke
<1>4. putchar_at(v, r, x, y, c) = Struck(v, hit, put)
  BY <1>1, PutAtHits DEF Pictured
<1> HIDE DEF hit, put
<1>5. Pictured(Struck(v, hit, put), r, more, other)
  BY <1>1, <1>3, PictureStruck
<1>6. Len(more) = Len(p.lines)
  BY <1>1, <1>3, LinesHitAre DEF Pictured
<1>7. more \in Seq(Line(r)) /\ other \in Rest(r)
  BY <1>5 DEF Pictured
<1> HIDE DEF more, other, to
<1>8. /\ to \in Papers(r) /\ to.lines = more /\ to.rest = other
      /\ to.row = p.row /\ to.col = p.col
  BY <1>1, <1>2, <1>7 DEF Papers
<1>9. QED
  BY <1>1, <1>4, <1>5, <1>6, <1>8 DEF Retouched, to

\* c_puts_at: the same with each of the characters that are still on the screen
LEMMA PutsAtFits ==
  ASSUME NEW v, NEW r \in Regions, NEW q, Retouched(v, r, q, q),
         NEW x \in Nat, NEW y \in Nat, NEW str \in Seq(Signs)
  PROVE  Retouched(puts_at(v, r, x, y, str), r, PutAllAt(q, r, x, y, str), q)
<1> DEFINE n == Len(str)
           f == CHOOSE h : IsPutsAt(h, v, r, x, y, str, n)
           g == CHOOSE h : IsPutAllAt(h, q, r, x, y, str, n)
<1>1. n \in Nat
  OBVIOUS
<1>2. IsPutsAt(f, v, r, x, y, str, n) /\ IsPutAllAt(g, q, r, x, y, str, n)
  BY <1>1, PutsAtExist, PutAllAtExist
<1>3. puts_at(v, r, x, y, str) = f[n] /\ PutAllAt(q, r, x, y, str) = g[n]
  BY DEF puts_at, PutAllAt, IsPutsAt, IsPutAllAt
<1> HIDE DEF f, g
<1>4. f[0] = v /\ g[0] = q
  BY <1>1, <1>2 DEF IsPutsAt, IsPutAllAt
<1>5. ASSUME NEW k \in 0 .. n, k # 0
      PROVE  /\ x + k - 1 > max_x => f[k] = f[k-1] /\ g[k] = g[k-1]
             /\ ~(x + k - 1 > max_x) => /\ f[k] = putchar_at(f[k-1], r, x + k - 1, y, str[k])
                                        /\ g[k] = PutAt(g[k-1], r, x + k - 1, y, str[k])
  BY <1>5, <1>2 DEF IsPutsAt, IsPutAllAt
<1> DEFINE Good(m) == Retouched(f[m], r, g[m], q)
           T == {m \in Nat : m <= n => Good(m)}
<1>6. 0 \in T
  BY <1>4
<1>7. ASSUME NEW m \in T PROVE m + 1 \in T
  <2>1. SUFFICES ASSUME m + 1 <= n PROVE Good(m + 1)
    OBVIOUS
  <2>2. m \in Nat /\ m + 1 \in 0 .. n /\ m + 1 # 0 /\ (m + 1) - 1 = m /\ m <= n
    BY <1>1, <2>1
  <2>3. Good(m)
    BY <2>2
  <2> DEFINE k == m + 1
             a == x + k - 1
  <2>4. str[k] \in Signs /\ a \in Nat
    BY <1>1, <2>2
  <2>5. /\ a > max_x => f[k] = f[m] /\ g[k] = g[m]
        /\ ~(a > max_x) => /\ f[k] = putchar_at(f[m], r, a, y, str[k])
                            /\ g[k] = PutAt(g[m], r, a, y, str[k])
    BY <1>5, <2>2
  <2> HIDE DEF k, a
  <2>6. Retouched(putchar_at(f[m], r, a, y, str[k]), r, PutAt(g[m], r, a, y, str[k]), q)
    BY <2>3, <2>4, PutAtFits
  <2>7. Good(k)
    BY <2>3, <2>5, <2>6
  <2>8. QED
    BY <2>7 DEF k
<1>8. T = Nat
  <2> HIDE DEF T
  <2>1. T \subseteq Nat
    BY DEF T
  <2>2. QED
    BY <1>6, <1>7, <2>1, NatSetInduction
<1>9. Good(n)
  BY <1>1, <1>8
<1>10. QED
  BY <1>3, <1>9

\* c_clearscroll and c_clearscreen
LEMMA WipedIs ==
  ASSUME NEW r \in Regions, NEW q \in Papers(r), NEW all \in BOOLEAN, Len(q.lines) >= Height(r)
  PROVE  /\ Wiped(q, r, all) \in Papers(r)
         /\ Len(Wiped(q, r, all).lines) = Len(q.lines)
         /\ Wiped(q, r, all).row = q.row /\ Wiped(q, r, all).col = q.col
         /\ \A i \in Len(q.lines) - Height(r) + 1 .. Len(q.lines) :
               Wiped(q, r, all).lines[i] = EmptyLine(r)
         /\ all => Wiped(q, r, all).rest = [c \in Cell \ In(r) |-> Blank]
         /\ ~all => Wiped(q, r, all).rest = q.rest
<1> DEFINE n     == Len(q.lines)
           t     == n - Height(r)
           text == [i \in DOMAIN q.lines |-> IF i > Top(q, r) THEN EmptyLine(r) ELSE q.lines[i]]
           rest  == IF all THEN [c \in DOMAIN q.rest |-> Blank] ELSE q.rest
           to    == Wiped(q, r, all)
<1>1. /\ q.lines \in Seq(Line(r)) /\ q.rest \in Rest(r) /\ n \in Nat /\ DOMAIN q.lines = 1 .. n
      /\ \A i \in 1 .. n : q.lines[i] \in Line(r)
  BY PaperFields
<1>2. Height(r) \in Nat /\ EmptyLine(r) \in Line(r) /\ t \in Nat
  BY <1>1, RegionFacts
<1>3. to = [q EXCEPT !.lines = text, !.rest = rest]
  BY DEF Wiped
<1>4. text = [i \in 1 .. n |-> IF i > t THEN EmptyLine(r) ELSE q.lines[i]]
  BY <1>1 DEF Top
<1>5. rest \in Rest(r) /\ (all => rest = [c \in Cell \ In(r) |-> Blank]) /\ (~all => rest = q.rest)
  BY <1>1, ScreenFacts DEF Rest
<1> HIDE DEF text, rest, to, n, t
<1>6. text \in Seq(Line(r)) /\ Len(text) = n
  <2>1. text \in [1 .. n -> Line(r)]
    BY <1>1, <1>2, <1>4
  <2>2. QED
    BY <1>1, <2>1
<1>7. ASSUME NEW i \in t + 1 .. n PROVE text[i] = EmptyLine(r)
  BY <1>1, <1>2, <1>4
<1>8. /\ to \in Papers(r) /\ to.lines = text /\ to.rest = rest
      /\ to.row = q.row /\ to.col = q.col
  BY <1>3, <1>5, <1>6 DEF Papers
<1>9. QED
  BY <1>5, <1>6, <1>7, <1>8 DEF to, n, t

-----------------------------------------------------------------------------
(* The calls of c_io.c *)

\* A call that shows the screen s, with the paper q
LEMMA ShowsThis ==
  ASSUME NEW s, NEW q, Show(s), paper' = q, Fits(s, q), CursorThere(s)
  PROVE  TextInv'
<1>1. s \in ScreenStates
  BY DEF Fits
<1>2. s = [video |-> s.video, region |-> s.region, curr |-> s.curr, cursor |-> s.cursor]
  BY <1>1 DEF ScreenStates
<1>3. Screen' = s
  BY <1>2 DEF Screen, Show
<1>4. QED
  BY <1>3 DEF TextInv

LEMMA InvFacts ==
  ASSUME TextInv
  PROVE  /\ Fits(Screen, paper) /\ CursorThere(Screen) /\ Screen \in ScreenStates
         /\ Screen.video = video /\ Screen.region = region
         /\ Screen.curr = curr /\ Screen.cursor = cursor
         /\ region \in Regions /\ video \in [Cell -> Signs] /\ paper \in Papers(region)
         /\ Pictured(video, region, paper.lines, paper.rest)
         /\ Len(paper.lines) \in Nat /\ Len(paper.lines) >= Height(region)
<1>1. Fits(Screen, paper) /\ CursorThere(Screen) /\ Screen \in ScreenStates
  BY DEF TextInv, Fits
<1>2. /\ Screen.video = video /\ Screen.region = region
      /\ Screen.curr = curr /\ Screen.cursor = cursor
  BY DEF Screen
<1>3. /\ paper \in Papers(region) /\ Pictured(video, region, paper.lines, paper.rest)
      /\ region \in Regions
  BY <1>1, <1>2 DEF Fits, ScreenStates
<1>4. QED
  BY <1>1, <1>2, <1>3, PaperFields DEF Pictured

\* c_puts
LEMMA PutsStep ==
  ASSUME TextInv, NEW str \in Seq(Signs), c_puts(str)
  PROVE  TextInv'
<1>1. Fits(puts(Screen, str), WrittenAll(paper, region, str)) /\ CursorThere(puts(Screen, str))
  BY InvFacts, StringFits
<1>2. QED
  BY <1>1, ShowsThis DEF c_puts

\* c_putchar_at and c_puts_at
LEMMA RetouchedSelf == ASSUME TextInv PROVE Retouched(video, region, paper, paper)
BY InvFacts DEF Retouched

LEMMA RetouchedStep ==
  ASSUME TextInv, NEW w, NEW p, Retouched(w, region, p, paper),
         Show([Screen EXCEPT !.video = w]), paper' = p
  PROVE  TextInv'
<1> DEFINE t == [Screen EXCEPT !.video = w]
<1>1. Fits(t, p) /\ CursorThere(t)
  <2>1. Retouched(w, Screen.region, p, paper)
    BY InvFacts
  <2>2. QED
    BY <2>1, InvFacts, RetouchedFits
<1>2. Show(t)
  OBVIOUS
<1> HIDE DEF t
<1>3. QED
  BY <1>1, <1>2, ShowsThis

LEMMA PutcharAtStep ==
  ASSUME TextInv, NEW x \in Nat, NEW y \in Nat, NEW c \in Signs, c_putchar_at(x, y, c)
  PROVE  TextInv'
<1> DEFINE w == putchar_at(video, region, x, y, c)
           p == PutAt(paper, region, x, y, c)
<1>1. Retouched(w, region, p, paper)
  BY InvFacts, RetouchedSelf, PutAtFits
<1>2. Show([Screen EXCEPT !.video = w]) /\ paper' = p
  BY InvFacts DEF c_putchar_at
<1> HIDE DEF w, p
<1>3. QED
  BY <1>1, <1>2, RetouchedStep

LEMMA PutsAtStep ==
  ASSUME TextInv, NEW x \in Nat, NEW y \in Nat, NEW str \in Seq(Signs), c_puts_at(x, y, str)
  PROVE  TextInv'
<1> DEFINE w == puts_at(video, region, x, y, str)
           p == PutAllAt(paper, region, x, y, str)
<1>1. Retouched(w, region, p, paper)
  BY InvFacts, RetouchedSelf, PutsAtFits
<1>2. Show([Screen EXCEPT !.video = w]) /\ paper' = p
  BY InvFacts DEF c_puts_at
<1> HIDE DEF w, p
<1>3. QED
  BY <1>1, <1>2, RetouchedStep

\* c_clearscroll and c_clearscreen
LEMMA BlankFits ==
  ASSUME NEW r \in Regions, NEW q \in Papers(r), Len(q.lines) >= Height(r)
  PROVE  Retouched(Blanks, r, Wiped(q, r, TRUE), q)
<1> DEFINE p == Wiped(q, r, TRUE)
<1>1. /\ p \in Papers(r) /\ Len(p.lines) = Len(q.lines) /\ p.row = q.row /\ p.col = q.col
      /\ \A i \in Len(q.lines) - Height(r) + 1 .. Len(q.lines) : p.lines[i] = EmptyLine(r)
      /\ p.rest = [c \in Cell \ In(r) |-> Blank]
  BY WipedIs
<1> HIDE DEF p
<1>2. p.lines \in Seq(Line(r)) /\ p.rest \in Rest(r)
  BY <1>1, PaperFields
<1>3. /\ Blanks = [c \in Cell |-> Blanks[c]] /\ Blanks \in [Cell -> Signs]
      /\ \A c \in Cell \ In(r) : Blanks[c] = p.rest[c]
  BY <1>1, ScreenFacts DEF Blanks
<1>4. \A c \in In(r) : Blanks[c] = Blank
  BY RegionFacts DEF Blanks
<1>5. Pictured(Blanks, r, p.lines, p.rest)
  BY <1>1, <1>2, <1>3, <1>4, PictureCleared
<1>6. QED
  BY <1>1, <1>5 DEF Retouched, p

LEMMA ClearStep == ASSUME TextInv, c_clearscroll \/ c_clearscreen PROVE TextInv'
<1>1. CASE c_clearscreen
  <2>1. Retouched(Blanks, region, Wiped(paper, region, TRUE), paper)
    BY InvFacts, BlankFits
  <2>2. QED
    BY <1>1, <2>1, RetouchedStep DEF c_clearscreen
<1>2. CASE c_clearscroll
  <2> DEFINE s == Screen
             t == clearscroll(s)
             p == Wiped(paper, region, FALSE)
  <2>1. /\ p \in Papers(region) /\ Len(p.lines) = Len(paper.lines)
        /\ p.row = paper.row /\ p.col = paper.col /\ p.rest = paper.rest
        /\ \A i \in Len(paper.lines) - Height(region) + 1 .. Len(paper.lines) :
              p.lines[i] = EmptyLine(region)
    BY InvFacts, WipedIs
  <2>2. Show(t) /\ paper' = p
    BY <1>2 DEF c_clearscroll
  <2>3. /\ s \in ScreenStates /\ s.region = region /\ s.video = video /\ Placed(s.curr, region, paper)
        /\ CursorThere(s) /\ Len(paper.lines) >= Height(region)
    BY InvFacts DEF Fits
  <2>4. \A c \in Cell \ In(region) : video[c] = paper.rest[c]
    BY InvFacts, PictureBeside
  <2> HIDE DEF p, s
  <2>5. p.lines \in Seq(Line(region)) /\ p.rest \in Rest(region)
    BY <2>1, PaperFields
  <2>6. /\ t \in ScreenStates /\ Pictured(t.video, region, p.lines, p.rest) /\ t.region = region
        /\ t.curr = s.curr /\ t.cursor = s.cursor
    BY <2>1, <2>3, <2>4, <2>5, Cleared
  <2> HIDE DEF t
  <2>7. Placed(t.curr, region, p)
    BY <2>1, <2>3, <2>6 DEF Placed
  <2>8. Fits(t, p)
    BY <2>1, <2>6, <2>7 DEF Fits
  <2>9. CursorThere(t)
    BY <2>3, <2>6 DEF CursorThere
  <2>10. QED
    BY <2>2, <2>8, <2>9, ShowsThis
<1>3. QED
  BY <1>1, <1>2

\* c_scroll
LEMMA ScrollAllStep ==
  ASSUME TextInv, NEW n \in Nat, c_scroll(n), n > region.y2 - region.y1
  PROVE  TextInv'
<1> DEFINE s == Screen
           t == scroll(s, n)
           p == Wiped(paper, region, FALSE)
           row == Top(paper, region) + 1
           q == [p EXCEPT !.row = row, !.col = 1]
<1>1. Show(t) /\ paper' = q
  BY DEF c_scroll
<1>2. /\ p \in Papers(region) /\ Len(p.lines) = Len(paper.lines) /\ p.rest = paper.rest
      /\ \A i \in Len(paper.lines) - Height(region) + 1 .. Len(paper.lines) :
            p.lines[i] = EmptyLine(region)
  BY InvFacts, WipedIs
<1>3. /\ s \in ScreenStates /\ s.region = region /\ s.video = video /\ region \in Regions
      /\ Len(paper.lines) \in Nat /\ Len(paper.lines) >= Height(region)
  BY InvFacts
<1>4. \A c \in Cell \ In(region) : video[c] = paper.rest[c]
  BY InvFacts, PictureBeside
<1> HIDE DEF p, s
<1>5. p.lines \in Seq(Line(region)) /\ p.rest \in Rest(region)
  BY <1>2, PaperFields
<1>6. /\ t \in ScreenStates /\ CursorThere(t) /\ Pictured(t.video, region, p.lines, p.rest)
      /\ t.region = region /\ t.curr.x = region.x1 /\ t.curr.y = region.y1
  BY <1>2, <1>3, <1>4, <1>5, ScrollsAll
<1> HIDE DEF t
<1>7. region.y1 \in Int /\ region.y2 \in Int /\ region.x1 \in Int /\ region.x2 \in Int
      /\ region.y1 <= region.y2 /\ region.x1 <= region.x2 /\ Height(region) \in Int
  BY <1>3, RegionFacts
<1>8. row \in Int
  BY <1>3, <1>7 DEF Top
<1> HIDE DEF row
<1>9. /\ q \in Papers(region) /\ q.lines = p.lines /\ q.rest = p.rest
      /\ q.row = row /\ q.col = 1
  <2>1. p \in Papers(region)
    BY <1>2
  <2>2. PICK col \in Int : col = 1
    OBVIOUS
  <2>3. q = [p EXCEPT !.row = row, !.col = col]
    BY <2>2
  <2> HIDE DEF q
  <2>4. /\ q \in Papers(region) /\ q.lines = p.lines /\ q.rest = p.rest
        /\ q.row = row /\ q.col = col
    BY <1>8, <2>1, <2>3 DEF Papers
  <2>5. QED
    BY <2>2, <2>4
<1> HIDE DEF q
<1>10. t.curr.y = q.row - Len(q.lines) + region.y2
  <2>1. PICK k \in Int, a \in Int, b \in Int : k = Len(paper.lines) /\ a = region.y1 /\ b = region.y2
    BY <1>3, <1>7
  <2>2. a = (k - (b - a + 1)) + 1 - k + b
    OBVIOUS
  <2>3. q.row = (k - (b - a + 1)) + 1
    BY <1>9, <2>1 DEF row, Top, Height
  <2>4. t.curr.y = a /\ Len(q.lines) = k /\ region.y2 = b
    BY <1>2, <1>6, <1>9, <2>1
  <2>5. a = q.row - k + b
    BY <2>2, <2>3
  <2>6. QED
    BY <2>4, <2>5
<1>11. /\ t.curr.x = region.x1 + q.col - 1
       /\ t.curr.x \in region.x1 .. region.x2 /\ t.curr.y \in region.y1 .. region.y2 + 1
  BY <1>6, <1>7, <1>9
<1>12. Placed(t.curr, region, q)
  BY <1>9, <1>10, <1>11 DEF Placed
<1>13. Fits(t, q)
  BY <1>6, <1>9, <1>12 DEF Fits
<1>14. QED
  BY <1>1, <1>6, <1>13, ShowsThis

LEMMA ScrollSomeStep ==
  ASSUME TextInv, NEW n \in Nat, c_scroll(n), ~(n > region.y2 - region.y1)
  PROVE  TextInv'
<1> DEFINE s    == Screen
           t    == scroll(s, n)
           r    == region
           more == paper.lines \o [i \in 1 .. n |-> EmptyLine(r)]
           row  == paper.row + n
           q    == [[paper EXCEPT !.lines = more] EXCEPT !.row = row]
<1>1. Show(t) /\ paper' = q
  BY DEF c_scroll
<1>2. /\ s \in ScreenStates /\ s.region = r /\ s.video = video /\ r \in Regions
      /\ Pictured(video, r, paper.lines, paper.rest) /\ Placed(s.curr, r, paper)
      /\ CursorThere(s) /\ paper \in Papers(r)
  BY InvFacts DEF Fits
<1>3. /\ r.y1 \in Int /\ r.y2 \in Int /\ EmptyLine(r) \in Line(r)
      /\ paper.lines \in Seq(Line(r)) /\ Len(paper.lines) \in Nat /\ paper.row \in Int
  BY <1>2, RegionFacts, PaperFields
<1>4. HasMore(more, paper.lines, r, n)
  <2> DEFINE e == [i \in 1 .. n |-> EmptyLine(r)]
  <2>1. e \in Seq(Line(r)) /\ Len(e) = n
    BY <1>3
  <2>2. \A i \in 1 .. n : e[i] = EmptyLine(r)
    OBVIOUS
  <2> HIDE DEF e
  <2> DEFINE l == paper.lines
  <2>21. l \in Seq(Line(r)) /\ Len(l) \in Nat
    BY <1>3
  <2> HIDE DEF l
  <2>22. /\ l \o e \in Seq(Line(r)) /\ Len(l \o e) = Len(l) + Len(e)
        /\ \A i \in 1 .. Len(l) + Len(e) : (l \o e)[i] = IF i <= Len(l) THEN l[i] ELSE e[i - Len(l)]
    BY <2>1, <2>21, ConcatProperties
  <2>23. \A i \in 1 .. Len(l) : (l \o e)[i] = l[i]
    BY <2>1, <2>21, <2>22
  <2>3. /\ paper.lines \o e \in Seq(Line(r)) /\ Len(paper.lines \o e) = Len(paper.lines) + n
        /\ \A i \in 1 .. Len(paper.lines) : (paper.lines \o e)[i] = paper.lines[i]
    BY <2>1, <2>22, <2>23 DEF l
  <2>4. ASSUME NEW i \in Len(paper.lines) + 1 .. Len(paper.lines) + n
        PROVE  (paper.lines \o e)[i] = EmptyLine(r)
    <3>1. i - Len(paper.lines) \in 1 .. n
      BY <1>3
    <3>2. (paper.lines \o e)[i] = e[i - Len(paper.lines)]
      <4>1. i \in 1 .. Len(paper.lines) + n /\ ~(i <= Len(paper.lines))
        BY <1>3
      <4>2. \A j \in 1 .. Len(paper.lines) + n :
              (paper.lines \o e)[j] = IF j <= Len(paper.lines) THEN paper.lines[j] ELSE e[j - Len(paper.lines)]
        BY <1>3, <2>1, ConcatProperties
      <4>3. QED
        BY <4>1, <4>2
    <3>3. QED
      BY <2>2, <3>1, <3>2
  <2>5. QED
    BY <2>3, <2>4 DEF HasMore, e
<1> HIDE DEF more, s
<1>5. n <= r.y2 - r.y1
  BY <1>3
<1>6. /\ t \in ScreenStates /\ Pictured(t.video, r, more, paper.rest) /\ t.region = r
      /\ t.curr = s.curr /\ t.cursor = s.cursor
  BY <1>2, <1>4, <1>5, ScrollsSome
<1> HIDE DEF t
<1>7. more \in Seq(Line(r)) /\ Len(more) = Len(paper.lines) + n
  BY <1>4 DEF HasMore
<1>71. row \in Int
  BY <1>3
<1> HIDE DEF row
<1>8. /\ q \in Papers(r) /\ q.lines = more /\ q.rest = paper.rest
      /\ q.row = row /\ q.col = paper.col
  BY <1>2, <1>3, <1>7, <1>71 DEF Papers
<1> HIDE DEF q
<1>9. Placed(t.curr, r, q)
  <2>1. q.row - Len(q.lines) + r.y2 = paper.row - Len(paper.lines) + r.y2
    <3>1. PICK a \in Int, k \in Int : a = paper.row /\ k = Len(paper.lines)
      BY <1>3
    <3>2. a + n - (k + n) = a - k
      OBVIOUS
    <3>3. QED
      BY <1>7, <1>8, <3>1, <3>2 DEF row
  <2>2. QED
    BY <1>2, <1>6, <1>8, <2>1 DEF Placed
<1>10. Fits(t, q)
  BY <1>6, <1>8, <1>9 DEF Fits
<1>11. CursorThere(t)
  BY <1>2, <1>6 DEF CursorThere
<1>12. QED
  BY <1>1, <1>10, <1>11, ShowsThis

\* c_moveto
LEMMA MovetoStep ==
  ASSUME TextInv, NEW x \in Nat, NEW y \in Nat, c_moveto(x, y)
  PROVE  TextInv'
<1> DEFINE r  == region
           px == bound(r.x1, (x + r.x1) % Word, r.x2)
           py == bound(r.y1, (y + r.y1) % Word, r.y2)
           t  == [Screen EXCEPT !.curr = [x |-> px, y |-> py]]
           row == Top(paper, r) + py - r.y1 + 1
           col == px - r.x1 + 1
           q  == [paper EXCEPT !.row = row, !.col = col]
           u  == setcursor(t)
<1>1. Show(u) /\ paper' = q
  BY DEF c_moveto
<1>2. /\ Screen \in ScreenStates /\ Screen.region = r /\ Screen.video = video /\ r \in Regions
      /\ Pictured(video, r, paper.lines, paper.rest) /\ paper \in Papers(r) /\ Len(paper.lines) \in Int
  BY InvFacts
<1>3. /\ r.x1 \in Nat /\ r.y1 \in Nat /\ r.x2 \in Int /\ r.y2 \in Int
      /\ r.x1 <= r.x2 /\ r.y1 <= r.y2 /\ Height(r) \in Int /\ Word \in Nat \ {0}
  <2>1. Word \in Nat \ {0}
    BY ScreenAssumption
  <2>2. QED
    BY <1>2, <2>1, RegionFacts
<1>4. px \in r.x1 .. r.x2 /\ py \in r.y1 .. r.y2
  <2>1. (x + r.x1) % Word \in Int /\ (y + r.y1) % Word \in Int
    <3>1. x + r.x1 \in Int /\ y + r.y1 \in Int
      BY <1>3
    <3> DEFINE a == x + r.x1
               b == y + r.y1
    <3> HIDE DEF a, b
    <3>2. a % Word \in Int /\ b % Word \in Int
      BY <1>3, <3>1 DEF a, b
    <3>3. QED
      BY <3>2 DEF a, b
  <2> DEFINE a == (x + r.x1) % Word
             b == (y + r.y1) % Word
  <2>2. a \in Int /\ b \in Int
    BY <2>1
  <2> HIDE DEF a, b
  <2>3. bound(r.x1, a, r.x2) \in r.x1 .. r.x2
    <3>1. PICK i \in Int, j \in Int : i = r.x1 /\ j = r.x2 /\ i <= j
      BY <1>3
    <3>2. bound(i, a, j) \in i .. j
      BY <2>2, <3>1, BoundWithin
    <3>3. QED
      BY <3>1, <3>2
  <2>4. bound(r.y1, b, r.y2) \in r.y1 .. r.y2
    <3>1. PICK i \in Int, j \in Int : i = r.y1 /\ j = r.y2 /\ i <= j
      BY <1>3
    <3>2. bound(i, b, j) \in i .. j
      BY <2>2, <3>1, BoundWithin
    <3>3. QED
      BY <3>1, <3>2
  <2>5. QED
    BY <2>3, <2>4 DEF a, b
<1> HIDE DEF px, py
<1>5. px \in Int /\ py \in Int
  BY <1>3, <1>4
<1>6. /\ t \in ScreenStates /\ t.video = video /\ t.region = r /\ t.curr.x = px /\ t.curr.y = py
  <2> DEFINE c == [x |-> px, y |-> py]
  <2>1. c \in [x : Int, y : Int] /\ c.x = px /\ c.y = py
    BY <1>5
  <2>2. t = [Screen EXCEPT !.curr = c]
    OBVIOUS
  <2> HIDE DEF c, t
  <2>3. QED
    BY <1>2, <2>1, <2>2, NewCurr
<1> HIDE DEF t
<1>7. /\ u \in ScreenStates /\ CursorThere(u) /\ u.video = video /\ u.region = r
      /\ u.curr.x = px /\ u.curr.y = py
  BY <1>6, CursorSet
<1> HIDE DEF u
<1>8. row \in Int /\ col \in Int
  <2>1. Top(paper, r) \in Int
    BY <1>2, <1>3 DEF Top
  <2>2. QED
    BY <1>3, <1>5, <2>1
<1> HIDE DEF row, col
<1>9. /\ q \in Papers(r) /\ q.lines = paper.lines /\ q.rest = paper.rest
      /\ q.row = row /\ q.col = col
  BY <1>2, <1>8 DEF Papers
<1> HIDE DEF q
<1>10. py = q.row - Len(q.lines) + r.y2
  <2>1. Len(paper.lines) \in Int /\ r.y1 \in Int /\ r.y2 \in Int
    BY <1>2, <1>3
  <2>2. PICK k \in Int, a \in Int, b \in Int : k = Len(paper.lines) /\ a = r.y1 /\ b = r.y2
    BY <2>1
  <2>3. py = ((k - (b - a + 1)) + py - a + 1) - k + b
    BY <1>5
  <2>4. q.row = (k - (b - a + 1)) + py - a + 1
    BY <1>9, <2>2 DEF row, Top, Height
  <2>5. QED
    BY <1>9, <2>2, <2>3, <2>4
<1>11. px = r.x1 + q.col - 1
  BY <1>3, <1>5, <1>9 DEF col
<1>12. px \in r.x1 .. r.x2 /\ py \in r.y1 .. r.y2 + 1 /\ ~(py > r.y2)
  BY <1>3, <1>4
<1>13. Placed(u.curr, r, q)
  BY <1>7, <1>10, <1>11, <1>12 DEF Placed
<1>14. Fits(u, q)
  BY <1>2, <1>7, <1>9, <1>13 DEF Fits
<1>15. QED
  BY <1>1, <1>7, <1>14, ShowsThis

\* c_setscroll, and the start: the paper begins with what the region shows.
LEMMA PaperBegins ==
  ASSUME NEW v \in [Cell -> Signs], NEW r \in Regions
  PROVE  /\ PaperOf(v, r) \in Papers(r)
         /\ Pictured(v, r, PaperOf(v, r).lines, PaperOf(v, r).rest)
         /\ PaperOf(v, r).row = 1 /\ PaperOf(v, r).col = 1
         /\ Len(PaperOf(v, r).lines) = Height(r)
<1> DEFINE text == [y \in 1 .. Height(r) |->
                      [x \in 1 .. Width(r) |-> v[<<r.x1 + x - 1, r.y1 + y - 1>>]]]
           rest  == [c \in Cell \ In(r) |-> v[c]]
           q     == PaperOf(v, r)
<1>1. /\ r.x1 \in Nat /\ r.y1 \in Nat /\ r.x2 \in Nat /\ r.y2 \in Nat
      /\ r.x2 <= max_x /\ r.y2 <= max_y /\ max_x \in Nat /\ max_y \in Nat
      /\ Height(r) \in Nat \ {0} /\ Width(r) \in Nat \ {0}
  BY ScreenFacts, RegionFacts
<1>2. ASSUME NEW x \in 1 .. Width(r), NEW y \in 1 .. Height(r)
      PROVE  v[<<r.x1 + x - 1, r.y1 + y - 1>>] \in Signs
  <2>1. r.x1 + x - 1 \in 0 .. max_x /\ r.y1 + y - 1 \in 0 .. max_y
    BY <1>1 DEF Width, Height
  <2>2. QED
    BY <2>1 DEF Cell
<1>3. q.lines = text /\ q.rest = rest /\ q.row = 1 /\ q.col = 1
      /\ q = [lines |-> text, rest |-> rest, row |-> 1, col |-> 1]
  BY DEF PaperOf
<1>4. ASSUME NEW y \in 1 .. Height(r) PROVE text[y] \in Line(r)
  BY <1>2 DEF Line
<1>5. text \in Seq(Line(r)) /\ Len(text) = Height(r)
  BY <1>1, <1>4
<1>6. rest \in Rest(r)
  BY DEF Rest
<1>7. ASSUME NEW x \in r.x1 .. r.x2, NEW y \in r.y1 .. r.y2
      PROVE  v[<<x, y>>] = text[Height(r) - r.y2 + y][x - r.x1 + 1]
  <2>1. /\ x \in Int /\ y \in Int /\ x - r.x1 + 1 \in 1 .. Width(r)
        /\ Height(r) - r.y2 + y \in 1 .. Height(r)
        /\ r.x1 + (x - r.x1 + 1) - 1 = x /\ r.y1 + (Height(r) - r.y2 + y) - 1 = y
    BY <1>1 DEF Width, Height
  <2> DEFINE i == x - r.x1 + 1
             j == Height(r) - r.y2 + y
  <2> HIDE DEF i, j
  <2>2. i \in 1 .. Width(r) /\ j \in 1 .. Height(r)
    BY <2>1 DEF i, j
  <2>3. text[j][i] = v[<<r.x1 + i - 1, r.y1 + j - 1>>]
    BY <2>2
  <2>4. QED
    BY <2>1, <2>3 DEF i, j
<1>8. \A c \in Cell \ In(r) : v[c] = rest[c]
  OBVIOUS
<1> HIDE DEF text, rest
<1>9. Pictured(v, r, text, rest)
  <2>1. Len(text) >= Height(r)
    BY <1>1, <1>5
  <2>2. \A x \in r.x1 .. r.x2, y \in r.y1 .. r.y2 :
          v[<<x, y>>] = text[Len(text) - r.y2 + y][x - r.x1 + 1]
    BY <1>5, <1>7
  <2>3. QED
    BY <1>5, <1>6, <1>8, <2>1, <2>2, PictureOf
<1>10. q \in Papers(r)
  BY <1>3, <1>5, <1>6 DEF Papers
<1>11. QED
  BY <1>3, <1>5, <1>9, <1>10

\* The cursor at the start of a region
LEMMA FitsAtHome ==
  ASSUME NEW s \in ScreenStates, s.curr.x = s.region.x1, s.curr.y = s.region.y1
  PROVE  Fits(s, PaperOf(s.video, s.region))
<1> DEFINE r == s.region
           q == PaperOf(s.video, s.region)
<1>1. s.video \in [Cell -> Signs] /\ r \in Regions
  BY DEF ScreenStates
<1>2. /\ q \in Papers(r) /\ Pictured(s.video, r, q.lines, q.rest)
      /\ q.row = 1 /\ q.col = 1 /\ Len(q.lines) = Height(r)
  BY <1>1, PaperBegins
<1> HIDE DEF q
<1>3. /\ r.x1 \in Int /\ r.y1 \in Int /\ r.x2 \in Int /\ r.y2 \in Int
      /\ r.x1 <= r.x2 /\ r.y1 <= r.y2
  BY <1>1, RegionFacts
<1>4. Placed(s.curr, r, q)
  <2>1. PICK x1 \in Int, x2 \in Int, y1 \in Int, y2 \in Int :
          x1 = r.x1 /\ x2 = r.x2 /\ y1 = r.y1 /\ y2 = r.y2
    BY <1>3
  <2>2. /\ x1 = x1 + 1 - 1 /\ y1 = 1 - (y2 - y1 + 1) + y2
        /\ x1 \in x1 .. x2 /\ y1 \in y1 .. y2 + 1 /\ ~(y1 > y2)
    BY <1>3, <2>1
  <2>3. /\ s.curr.x = x1 /\ s.curr.y = y1 /\ q.row = 1 /\ q.col = 1
        /\ Len(q.lines) = y2 - y1 + 1
    BY <1>2, <2>1 DEF Height
  <2>4. QED
    BY <2>1, <2>2, <2>3 DEF Placed
<1>5. QED
  BY <1>2, <1>4 DEF Fits, q

LEMMA SetscrollStep ==
  ASSUME TextInv, NEW x1 \in Nat, NEW y1 \in Nat, NEW x2 \in Nat, NEW y2 \in Nat,
         c_setscroll(x1, y1, x2, y2)
  PROVE  TextInv'
<1> DEFINE r == [x1 |-> bound(0, x1, max_x), y1 |-> bound(0, y1, max_y),
                 x2 |-> bound(bound(0, x1, max_x), x2, max_x),
                 y2 |-> bound(bound(0, y1, max_y), y2, max_y)]
           s == [Screen EXCEPT !.region = r]
           t == Home(s)
           u == setcursor(t)
<1>1. Show(u) /\ paper' = PaperOf(video, r)
  BY DEF c_setscroll
<1>2. r \in Regions
  <2>1. bound(0, x1, max_x) \in 0 .. max_x /\ bound(0, y1, max_y) \in 0 .. max_y
    <3>1. PICK i \in Int, j \in Int, k \in Int : i = 0 /\ j = max_x /\ k = max_y /\ i <= j /\ i <= k
      BY ScreenFacts
    <3>2. bound(i, x1, j) \in i .. j /\ bound(i, y1, k) \in i .. k
      BY <3>1 DEF bound
    <3>3. QED
      BY <3>1, <3>2
  <2>2. PICK a \in 0 .. max_x, b \in 0 .. max_y :
          a = bound(0, x1, max_x) /\ b = bound(0, y1, max_y)
    BY <2>1
  <2>3. bound(a, x2, max_x) \in a .. max_x /\ bound(b, y2, max_y) \in b .. max_y
    <3>1. PICK j \in Int, k \in Int : j = max_x /\ k = max_y /\ a <= j /\ b <= k
      BY ScreenFacts
    <3>2. bound(a, x2, j) \in a .. j /\ bound(b, y2, k) \in b .. k
      BY <3>1 DEF bound
    <3>3. QED
      BY <3>1, <3>2
  <2>4. PICK i \in a .. max_x, j \in b .. max_y :
          i = bound(a, x2, max_x) /\ j = bound(b, y2, max_y)
    BY <2>3
  <2>5. r = [x1 |-> a, y1 |-> b, x2 |-> i, y2 |-> j]
    BY <2>2, <2>4
  <2>6. a <= i /\ b <= j /\ i \in 0 .. max_x /\ j \in 0 .. max_y
    BY ScreenFacts
  <2>7. QED
    BY <2>5, <2>6 DEF Regions
<1> HIDE DEF r
<1>3. s \in ScreenStates /\ s.video = video /\ s.region = r
  <2>1. Screen \in ScreenStates /\ Screen.video = video
    BY InvFacts
  <2>2. QED
    BY <1>2, <2>1 DEF ScreenStates
<1> HIDE DEF s
<1>4. /\ t \in ScreenStates /\ t.video = video /\ t.region = r
      /\ t.curr.x = r.x1 /\ t.curr.y = r.y1
  BY <1>3, HomeIs
<1> HIDE DEF t
<1>5. /\ u \in ScreenStates /\ CursorThere(u) /\ u.video = video /\ u.region = r
      /\ u.curr.x = r.x1 /\ u.curr.y = r.y1
  BY <1>4, CursorSet
<1> HIDE DEF u
<1>6. Fits(u, PaperOf(video, r))
  <2>1. Fits(u, PaperOf(u.video, u.region))
    BY <1>5, FitsAtHome
  <2>2. QED
    BY <1>5, <2>1
<1>7. QED
  BY <1>1, <1>5, <1>6, ShowsThis

LEMMA TextStarts == ASSUME ScreenInit PROVE TextInv
<1>1. Screen \in ScreenStates /\ Screen.curr.x = Screen.region.x1 /\ Screen.curr.y = Screen.region.y1
  <2>1. region \in Regions /\ Blanks \in [Cell -> Signs]
    BY ScreenFacts DEF ScreenInit, Regions, Blanks
  <2>2. QED
    BY <2>1 DEF ScreenInit, Screen, ScreenStates
<1>2. Fits(Screen, PaperOf(Screen.video, Screen.region))
  BY <1>1, FitsAtHome
<1>3. PaperOf(Screen.video, Screen.region) = paper
  BY DEF ScreenInit, Screen
<1>4. CursorThere(Screen)
  <2>1. /\ Screen.curr.y = 0 /\ Screen.curr.x = 0 /\ Screen.cursor = 0
        /\ Screen.region.y2 = max_y
    BY DEF ScreenInit, Screen
  <2>2. 0 * Columns + 0 = 0 /\ ~(0 > max_y)
    BY ScreenFacts
  <2>3. QED
    BY <2>1, <2>2 DEF CursorThere
<1>5. QED
  BY <1>2, <1>3, <1>4 DEF TextInv

\* The invariant says what the property says.
LEMMA TextShows == ASSUME TextInv PROVE ShowsWhatIsWritten
<1> DEFINE r == region
           q == paper
           k == Len(q.lines)
<1>1. /\ Pictured(video, r, q.lines, q.rest) /\ r \in Regions /\ q \in Papers(r)
      /\ k \in Int
  BY InvFacts
<1>2. Placed(curr, r, q) /\ CursorThere(Screen) /\ curr \in [x : Int, y : Int]
      /\ Screen.curr = curr /\ Screen.cursor = cursor /\ Screen.region = r
  BY InvFacts DEF Fits, ScreenStates
<1>3. /\ r.x1 \in Int /\ r.y1 \in Int /\ r.x2 \in Int /\ r.y2 \in Int
      /\ q.row \in Int /\ q.col \in Int
  BY <1>1, RegionFacts, PaperFields
<1>4. ASSUME NEW x \in r.x1 .. r.x2, NEW y \in r.y1 .. r.y2
      PROVE  video[<<x, y>>] = q.lines[Top(q, r) + y - r.y1 + 1][x - r.x1 + 1]
  <2>1. video[<<x, y>>] = q.lines[k - r.y2 + y][x - r.x1 + 1]
    BY <1>1, PictureAt
  <2>2. k - r.y2 + y = Top(q, r) + y - r.y1 + 1
    <3>1. PICK m \in Int, a \in Int, b \in Int : m = k /\ a = r.y1 /\ b = r.y2
      BY <1>1, <1>3
    <3>2. y \in Int
      BY <1>3
    <3>3. m - b + y = (m - (b - a + 1)) + y - a + 1
      BY <3>2
    <3>4. Top(q, r) = m - (b - a + 1)
      BY <3>1 DEF Top, Height
    <3>5. QED
      BY <3>1, <3>3, <3>4
  <2>3. QED
    BY <2>1, <2>2
<1>5. \A c \in Cell \ In(r) : video[c] = q.rest[c]
  BY <1>1, PictureBeside
<1>6. curr.y = r.y1 + q.row - Top(q, r) - 1 /\ (q.row > k <=> curr.y > r.y2)
  <2>1. PICK m \in Int, a \in Int, b \in Int, i \in Int :
          m = k /\ a = r.y1 /\ b = r.y2 /\ i = q.row
    BY <1>1, <1>3
  <2>2. i - m + b = a + i - (m - (b - a + 1)) - 1 /\ (i > m <=> i - m + b > b)
    OBVIOUS
  <2>3. Top(q, r) = m - (b - a + 1)
    BY <2>1 DEF Top, Height
  <2>4. curr.y = i - m + b
    BY <1>2, <2>1 DEF Placed
  <2>5. QED
    BY <2>1, <2>2, <2>3, <2>4
<1>7. curr.x = r.x1 + q.col - 1
  BY <1>2 DEF Placed
<1>8. curr = [x |-> curr.x, y |-> curr.y]
  BY <1>2
<1>9. cursor = (IF curr.y > r.y2 THEN r.y2 ELSE curr.y) * Columns + curr.x
  BY <1>2 DEF CursorThere
<1>10. QED
  BY <1>4, <1>5, <1>6, <1>7, <1>8, <1>9 DEF ShowsWhatIsWritten

\* Each of the calls
LEMMA ScreenStep == ASSUME TextInv, ScreenNext PROVE TextInv'
<1>1. Coordinates \subseteq Nat /\ Letters \cup {NL, CR} \subseteq Signs /\ Rows \in Nat
  <2>1. Coordinates \subseteq Nat
    BY ScreenAssumption
  <2>2. QED
    BY <2>1, ScreenFacts DEF Signs
<1>2. CASE \E c \in Letters \cup {NL, CR} : c_puts(<<c>>)
  <2>1. PICK c \in Letters \cup {NL, CR} : c_puts(<<c>>)
    BY <1>2
  <2>2. <<c>> \in Seq(Signs)
    BY <1>1
  <2>3. QED
    BY <2>1, <2>2, PutsStep
<1>3. CASE \E x, y \in Coordinates : c_moveto(x, y)
  BY <1>1, <1>3, MovetoStep
<1>4. CASE \E x, y \in Coordinates : \E c \in Letters \cup {NL} : c_putchar_at(x, y, c)
  BY <1>1, <1>4, PutcharAtStep
<1>5. CASE \E x, y \in Coordinates : \E a, b \in Letters : c_puts_at(x, y, <<a, b>>)
  <2>1. PICK x \in Coordinates, y \in Coordinates, a \in Letters, b \in Letters :
          c_puts_at(x, y, <<a, b>>)
    BY <1>5
  <2>2. x \in Nat /\ y \in Nat /\ <<a, b>> \in Seq(Signs)
    BY <1>1
  <2>3. QED
    BY <2>1, <2>2, PutsAtStep
<1>6. CASE \E x1, y1, x2, y2 \in Coordinates : c_setscroll(x1, y1, x2, y2)
  BY <1>1, <1>6, SetscrollStep
<1>7. CASE c_clearscroll \/ c_clearscreen
  BY <1>7, ClearStep
<1>8. CASE \E n \in 0 .. Rows : c_scroll(n)
  <2>1. PICK n \in 0 .. Rows : c_scroll(n)
    BY <1>8
  <2>2. n \in Nat
    BY <1>1
  <2>3. QED
    BY <2>1, <2>2, ScrollAllStep, ScrollSomeStep
<1>9. QED
  BY <1>2, <1>3, <1>4, <1>5, <1>6, <1>7, <1>8 DEF ScreenNext

\* A message, and then something that is drawn over what there is
LEMMA DrawnOver ==
  ASSUME TextInv, NEW str \in Seq(Signs), NEW w, NEW p,
         Retouched(w, region, p, WrittenAll(paper, region, str)),
         Show([puts(Screen, str) EXCEPT !.video = w]), paper' = p
  PROVE  TextInv'
<1> DEFINE s == puts(Screen, str)
           q == WrittenAll(paper, region, str)
           t == [s EXCEPT !.video = w]
<1>1. Fits(s, q) /\ s.region = region /\ CursorThere(s)
  BY InvFacts, StringFits
<1>2. Show(t) /\ Retouched(w, s.region, p, q)
  BY <1>1
<1> HIDE DEF s, q
<1>3. Fits(t, p) /\ CursorThere(t)
  BY <1>1, <1>2, RetouchedFits
<1> HIDE DEF t
<1>4. QED
  BY <1>2, <1>3, ShowsThis

\* What a message leaves, for something to be drawn over
LEMMA AfterMessage ==
  ASSUME TextInv, NEW str \in Seq(Signs)
  PROVE  LET q == WrittenAll(paper, region, str)
         IN  /\ Retouched(puts(Screen, str).video, region, q, q)
             /\ q \in Papers(region) /\ Len(q.lines) >= Height(region) /\ region \in Regions
<1> DEFINE s == puts(Screen, str)
           q == WrittenAll(paper, region, str)
<1>1. Fits(s, q) /\ s.region = region /\ region \in Regions
  BY InvFacts, StringFits
<1> HIDE DEF s, q
<1>2. q \in Papers(region) /\ Pictured(s.video, region, q.lines, q.rest)
  BY <1>1 DEF Fits
<1>3. Len(q.lines) >= Height(region)
  BY <1>2 DEF Pictured
<1>4. Retouched(s.video, region, q, q)
  BY <1>2 DEF Retouched
<1>5. QED
  BY <1>1, <1>2, <1>3, <1>4 DEF s, q

LEMMA MessagesAreText ==
  Attached \in Seq(Signs) /\ Overflow \in Seq(Signs) /\ <<>> \in Seq(Signs)
<1>1. ASSUME NEW m \in Seq(Letters \cup {NL}) PROVE m \in Seq(Signs)
  BY ScreenFacts
<1>2. QED
  BY <1>1, MouseAssumption

LEMMA AttachStep == ASSUME TextInv, _ps2_mouse_init PROVE TextInv'
<1> DEFINE q == WrittenAll(paper, region, Attached)
           p == Wiped(q, region, TRUE)
<1>1. Show([puts(Screen, Attached) EXCEPT !.video = Blanks]) /\ paper' = p
  BY DEF _ps2_mouse_init
<1>2. q \in Papers(region) /\ Len(q.lines) >= Height(region) /\ region \in Regions
  BY AfterMessage, MessagesAreText
<1>3. Retouched(Blanks, region, p, q)
  <2> HIDE DEF q
  <2>1. QED
    BY <1>2, BlankFits
<1> HIDE DEF p
<1>4. QED
  BY <1>1, <1>3, DrawnOver, MessagesAreText

\* The pointer is taken off the text and drawn at another place.
LEMMA IsrDraws ==
  ASSUME NEW byte, _ps2_mouse_isr(byte)
  PROVE  \E message \in Seq(Signs), i \in 1 .. 4 :
           LET s == puts(Screen, message)
               q == WrittenAll(paper, region, message)
           IN  /\ Show([s EXCEPT !.video = draw(draw(s.video, pointer[1], pointer[2], Blank),
                                                pointer'[1], pointer'[2], Glyph[i])])
               /\ paper' = PutAt(PutAt(q, region, pointer[1], pointer[2], Blank),
                                 region, pointer'[1], pointer'[2], Glyph[i])
<1> DEFINE got   == Append(packet, byte)
           head  == got[1]
           whole == Len(got) = 3
           lost  == whole /\ head.overflow
           new   == whole /\ ~head.overflow
           held  == IF new THEN [b \in DOMAIN buttons |-> head[b]] ELSE buttons
           glyph == CASE held.left                                    -> Glyph[2]
                      [] ~held.left /\ held.right                      -> Glyph[3]
                      [] ~held.left /\ ~held.right /\ held.middle      -> Glyph[4]
                      [] OTHER                                        -> Glyph[1]
           message == IF lost THEN Overflow ELSE <<>>
           s == puts(Screen, message)
           q == WrittenAll(paper, region, message)
<1>1. /\ Show([s EXCEPT !.video = draw(draw(s.video, pointer[1], pointer[2], Blank),
                                       pointer'[1], pointer'[2], glyph)])
      /\ paper' = PutAt(PutAt(q, region, pointer[1], pointer[2], Blank),
                        region, pointer'[1], pointer'[2], glyph)
  BY DEF _ps2_mouse_isr
<1>2. message \in Seq(Signs)
  <2> HIDE DEF lost
  <2>1. QED
    BY MessagesAreText
<1> HIDE DEF message
<1>3. \E i \in 1 .. 4 : glyph = Glyph[i]
  <2> HIDE DEF held
  <2>1. glyph \in {Glyph[1], Glyph[2], Glyph[3], Glyph[4]}
    OBVIOUS
  <2>2. QED
    BY <2>1
<1> HIDE DEF glyph
<1>4. QED
  BY <1>1, <1>2, <1>3

LEMMA DrawIsPut ==
  ASSUME NEW v, NEW r, NEW x, NEW y, NEW c, c # NL
  PROVE  draw(v, x, y, c) = putchar_at(v, r, x, y, c)
BY DEF putchar_at

LEMMA PointStep ==
  ASSUME TextInv, NEW byte, _ps2_mouse_isr(byte), pointer \in Cell, pointer' \in Cell
  PROVE  TextInv'
<1>1. PICK message \in Seq(Signs), i \in 1 .. 4 :
        LET s == puts(Screen, message)
            q == WrittenAll(paper, region, message)
        IN  /\ Show([s EXCEPT !.video = draw(draw(s.video, pointer[1], pointer[2], Blank),
                                             pointer'[1], pointer'[2], Glyph[i])])
            /\ paper' = PutAt(PutAt(q, region, pointer[1], pointer[2], Blank),
                              region, pointer'[1], pointer'[2], Glyph[i])
  BY IsrDraws
<1>2. PICK x \in Nat, y \in Nat, tx \in Nat, ty \in Nat :
        x = pointer[1] /\ y = pointer[2] /\ tx = pointer'[1] /\ ty = pointer'[2]
  BY DEF Cell
<1>3. /\ Glyph[i] \in Signs /\ Glyph[i] # NL /\ Blank \in Signs /\ Blank # NL
  BY ScreenFacts, MouseAssumption DEF Signs
<1> DEFINE g == Glyph[i]
           q == WrittenAll(paper, region, message)
           v == puts(Screen, message).video
           v1 == draw(v, x, y, Blank)
           v2 == draw(v1, tx, ty, g)
           q1 == PutAt(q, region, x, y, Blank)
           q2 == PutAt(q1, region, tx, ty, g)
<1>4. Show([puts(Screen, message) EXCEPT !.video = v2]) /\ paper' = q2
  BY <1>1, <1>2
<1>5. Retouched(v, region, q, q) /\ region \in Regions
  BY AfterMessage
<1> HIDE DEF q, v, g
<1>6. v1 = putchar_at(v, region, x, y, Blank) /\ v2 = putchar_at(v1, region, tx, ty, g)
  BY <1>3, DrawIsPut DEF g
<1> HIDE DEF v1, v2
<1>7. Retouched(v1, region, q1, q)
  BY <1>3, <1>5, <1>6, PutAtFits
<1> HIDE DEF q1
<1>8. Retouched(v2, region, q2, q)
  BY <1>3, <1>5, <1>6, <1>7, PutAtFits DEF g
<1> HIDE DEF q2
<1>9. QED
  BY <1>4, <1>8, DrawnOver DEF q

\* For every screen, and all calls and interrupts of the mouse between them: the region
\* shows the last lines of what was written, all else is as it was put there, and the
\* cursor is where the next character goes.
THEOREM ScreenShowsText ==
  /\ ScreenInit /\ MouseInit
  /\ [][(ScreenNext /\ UNCHANGED mvars) \/ MouseNext]_<<svars, mvars>>
  => []ShowsWhatIsWritten
<1> DEFINE Either == (ScreenNext /\ UNCHANGED mvars) \/ MouseNext
<1>1. ScreenInit /\ MouseInit => TextInv /\ MouseInv
  BY TextStarts, PointerStarts
<1>2. TextInv /\ MouseInv /\ [Either]_<<svars, mvars>> => TextInv' /\ MouseInv'
  <2>1. SUFFICES ASSUME TextInv, MouseInv, [Either]_<<svars, mvars>> PROVE TextInv' /\ MouseInv'
    OBVIOUS
  <2>2. MouseInv'
    BY <2>1, PointerStays DEF mvars
  <2>3. CASE UNCHANGED <<svars, mvars>>
    BY <2>1, <2>2, <2>3 DEF svars, TextInv, Screen
  <2>4. CASE ScreenNext
    BY <2>1, <2>2, <2>4, ScreenStep
  <2>5. CASE _ps2_mouse_init
    BY <2>1, <2>2, <2>5, AttachStep
  <2>6. ASSUME NEW byte, _ps2_mouse_isr(byte),
               IF packet = <<>> THEN byte \in Heads ELSE byte \in Moves
        PROVE  TextInv'
    <3>1. pointer # NoPointer
      BY <2>6, IsrFacts
    <3>2. pointer \in Cell
      BY <2>1, <3>1 DEF MouseInv, PointerAgrees
    <3>3. pointer' \in Cell
      BY <2>1, <2>6, IsrStep
    <3>4. QED
      BY <2>1, <2>6, <3>2, <3>3, PointStep
  <2>7. QED
    BY <2>1, <2>2, <2>3, <2>4, <2>5, <2>6 DEF MouseNext
<1>3. TextInv => ShowsWhatIsWritten
  BY TextShows
<1>4. QED
  BY <1>1, <1>2, <1>3, PTL

-----------------------------------------------------------------------------
(* The text in a window *)

TextLine == [Across -> Printable \cup {Nul}]
TextRow  == [Visible -> SUBSET Printable]

\* What buffer l and picture s show of history r, when line y0 is written next: lines
\* above it only what has no gap before it, for they can have been drawn again.
Shows(l, s, r, y0) ==
  /\ l \in [Down -> TextLine] /\ s \in [Down -> TextRow] /\ r \in Seq(TextLine)
  /\ Len(r) >= YMax + 1
  /\ \A y \in Down, x \in Visible : LET c == r[RowOf(r, y)][x] IN
       c # Nul => /\ l[y][x] = c
                  /\ y >= y0 \/ y = YMax => c \in s[y][x]
                  /\ (\A k \in 0 .. x : r[RowOf(r, y)][k] # Nul) => c \in s[y][x]
  /\ \A x \in Visible : r[Len(r)][x] = Nul => s[YMax][x] = {}

GlInv == /\ at \in [x : Nat, y : 0 .. YMax + 1]
         /\ Shows(lines, shown, rows, at.y)

LEMMA Window ==
  /\ XMax \in Nat /\ XMax > 0 /\ YMax \in Nat /\ LastColumn \in Nat /\ LastColumn > XMax
  /\ YMax \in Down /\ Down \subseteq Nat /\ Visible \subseteq Across /\ Across \subseteq Nat
  /\ NoText \in TextLine /\ NoGlyphs \in TextRow
BY GlTextAssumption DEF Down, Visible, Across, NoText, NoGlyphs, TextLine, TextRow

\* The rows of the history that the lines show are different, and there.
LEMMA RowsApart ==
  ASSUME NEW r \in Seq(TextLine), Len(r) >= YMax + 1
  PROVE  /\ \A y \in Down : RowOf(r, y) \in 1 .. Len(r) /\ r[RowOf(r, y)] \in TextLine
         /\ \A y, z \in Down : RowOf(r, y) = RowOf(r, z) => y = z
         /\ RowOf(r, YMax) = Len(r)
<1>1. \A y \in Down : RowOf(r, y) \in 1 .. Len(r)
  BY Window DEF RowOf, Down
<1>2. \A y, z \in Down : RowOf(r, y) = RowOf(r, z) => y = z
  BY Window DEF RowOf, Down
<1>3. RowOf(r, YMax) = Len(r)
  BY Window DEF RowOf
<1>4. QED
  BY <1>1, <1>2, <1>3

LEMMA ShownStays == ASSUME NEW y0, Shows(lines, shown, rows, y0) PROVE PrintedStays
<1>1. \A y \in Down, x \in Visible :
        LET c == rows[RowOf(rows, y)][x]
        IN (c # Nul /\ \A k \in 0 .. x : rows[RowOf(rows, y)][k] # Nul) => c \in shown[y][x]
  BY DEF Shows
<1>2. \A x \in Visible :
        LET c == rows[Len(rows)][x]
        IN IF c = Nul THEN shown[YMax][x] = {} ELSE c \in shown[YMax][x]
  BY Window, RowsApart DEF Shows
<1>3. QED
  BY <1>1, <1>2 DEF PrintedStays

LEMMA ShowsFurther ==
  ASSUME NEW l, NEW s, NEW r, NEW y0 \in Nat, NEW y1 \in Nat, y1 >= y0, Shows(l, s, r, y0)
  PROVE  Shows(l, s, r, y1)
BY Window DEF Shows

\* A glyph is put on the line that is written.
LEMMA PutShows ==
  ASSUME NEW l, NEW s, NEW r, NEW y0 \in Down, NEW x0 \in Across, NEW c \in Printable,
         Shows(l, s, r, y0),
         NEW m, m = [l EXCEPT ![y0][x0] = c],
         NEW t, t = do_draw_character(s, x0, y0, c),
         NEW q, q = [r EXCEPT ![RowOf(r, y0)][x0] = c]
  PROVE  Shows(m, t, q, y0)
<1> DEFINE n == RowOf(r, y0)
<1>1. /\ l \in [Down -> TextLine] /\ s \in [Down -> TextRow] /\ r \in Seq(TextLine)
      /\ Len(r) >= YMax + 1
  BY DEF Shows
<1>2. n \in 1 .. Len(r) /\ \A y \in Down : RowOf(r, y) = n <=> y = y0
  BY <1>1, RowsApart
<1> HIDE DEF n
<1>3. /\ m \in [Down -> TextLine]
      /\ \A y \in Down, x \in Across : m[y][x] = IF y = y0 /\ x = x0 THEN c ELSE l[y][x]
  BY <1>1 DEF TextLine
<1>4. /\ t \in [Down -> TextRow]
      /\ \A y \in Down, x \in Visible : t[y][x] = IF y = y0 /\ x = x0 THEN s[y][x] \cup {c}
                                                  ELSE s[y][x]
  <2>1. CASE x0 \in Visible
    <3> DEFINE w == [s[y0] EXCEPT ![x0] = s[y0][x0] \cup {c}]
    <3>1. s[y0] \in TextRow
      BY <1>1
    <3>2. w \in TextRow /\ \A x \in Visible : w[x] = IF x = x0 THEN s[y0][x] \cup {c} ELSE s[y0][x]
      <4>1. s[y0][x0] \cup {c} \in SUBSET Printable
        BY <2>1, <3>1 DEF TextRow
      <4> DEFINE g == s[y0][x0] \cup {c}
      <4>2. w = [s[y0] EXCEPT ![x0] = g] /\ g = s[y0][x0] \cup {c}
        OBVIOUS
      <4> HIDE DEF g, w
      <4>3. QED
        BY <2>1, <3>1, <4>1, <4>2 DEF TextRow
    <3>3. t = [s EXCEPT ![y0] = w]
      BY <2>1 DEF do_draw_character
    <3> HIDE DEF w
    <3>4. t \in [Down -> TextRow] /\ t[y0] = w /\ \A y \in Down : y # y0 => t[y] = s[y]
      BY <1>1, <3>2, <3>3
    <3>5. QED
      BY <3>2, <3>4
  <2>2. CASE x0 \notin Visible
    BY <1>1, <2>2 DEF do_draw_character
  <2>3. QED
    BY <2>1, <2>2
<1>5. /\ q \in Seq(TextLine) /\ Len(q) = Len(r)
      /\ \A i \in 1 .. Len(r), x \in Across : q[i][x] = IF i = n /\ x = x0 THEN c ELSE r[i][x]
  <2> DEFINE w == [r[n] EXCEPT ![x0] = c]
  <2>1. q = [r EXCEPT ![n] = w]
    BY DEF n
  <2>2. r[n] \in TextLine
    BY <1>1, <1>2
  <2>3. w \in TextLine /\ \A x \in Across : w[x] = IF x = x0 THEN c ELSE r[n][x]
    BY <2>2 DEF TextLine
  <2> HIDE DEF w
  <2>4. q \in Seq(TextLine) /\ Len(q) = Len(r) /\ q[n] = w
        /\ \A i \in 1 .. Len(r) : i # n => q[i] = r[i]
    BY <1>1, <1>2, <2>1, <2>3
  <2>5. \A i \in 1 .. Len(r), x \in Across : q[i][x] = IF i = n /\ x = x0 THEN c ELSE r[i][x]
    <3>1. SUFFICES ASSUME NEW i \in 1 .. Len(r), NEW x \in Across
                   PROVE  q[i][x] = IF i = n /\ x = x0 THEN c ELSE r[i][x]
      OBVIOUS
    <3>2. CASE i = n
      BY <2>3, <2>4, <3>2
    <3>3. CASE i # n
      BY <2>4, <3>3
    <3>4. QED
      BY <3>2, <3>3
  <2>6. QED
    BY <2>4, <2>5
<1>6. \A y \in Down : RowOf(q, y) = RowOf(r, y) /\ RowOf(r, y) \in 1 .. Len(r)
  BY <1>1, <1>5, RowsApart DEF RowOf
<1>7. \A y \in Down, x \in Across :
        q[RowOf(q, y)][x] = IF y = y0 /\ x = x0 THEN c ELSE r[RowOf(r, y)][x]
  <2>1. SUFFICES ASSUME NEW y \in Down, NEW x \in Across
                 PROVE  q[RowOf(q, y)][x] = IF y = y0 /\ x = x0 THEN c ELSE r[RowOf(r, y)][x]
    OBVIOUS
  <2> DEFINE i == RowOf(r, y)
  <2>2. i \in 1 .. Len(r) /\ RowOf(q, y) = i /\ (i = n <=> y = y0)
    BY <1>2, <1>6
  <2> HIDE DEF i
  <2>3. q[i][x] = IF i = n /\ x = x0 THEN c ELSE r[i][x]
    BY <1>5, <2>2
  <2>4. q[RowOf(q, y)][x] = IF y = y0 /\ x = x0 THEN c ELSE r[i][x]
    BY <2>2, <2>3
  <2>5. QED
    BY <2>4 DEF i
<1>8. c # Nul
  BY GlTextAssumption
<1>9. \A x \in Visible : x \in Across /\ 0 .. x \subseteq Across
  BY Window DEF Visible, Across
<1>10. ASSUME NEW y \in Down, NEW x \in Visible, q[RowOf(q, y)][x] # Nul
       PROVE  /\ m[y][x] = q[RowOf(q, y)][x]
              /\ y >= y0 \/ y = YMax => q[RowOf(q, y)][x] \in t[y][x]
              /\ (\A k \in 0 .. x : q[RowOf(q, y)][k] # Nul) => q[RowOf(q, y)][x] \in t[y][x]
  <2> DEFINE old == r[RowOf(r, y)][x]
             new == q[RowOf(q, y)][x]
  <2>1. x \in Across
    BY <1>9
  <2>2. new = IF y = y0 /\ x = x0 THEN c ELSE old
    BY <1>7, <2>1
  <2>3. m[y][x] = IF y = y0 /\ x = x0 THEN c ELSE l[y][x]
    BY <1>3, <2>1
  <2>4. t[y][x] = IF y = y0 /\ x = x0 THEN s[y][x] \cup {c} ELSE s[y][x]
    BY <1>4
  <2>5. CASE y = y0 /\ x = x0
    <3> HIDE DEF old, new
    <3>1. new = c /\ m[y][x] = c /\ c \in t[y][x]
      BY <2>5, <2>2, <2>3, <2>4
    <3>2. m[y][x] = new /\ new \in t[y][x]
      BY <3>1
    <3>3. QED
      BY <3>2 DEF new
  <2>6. CASE y = y0 /\ x # x0
    <3>1. y >= y0
      BY <2>6, Window
    <3>2. q[RowOf(q, y)][x] = r[RowOf(r, y)][x] /\ m[y][x] = l[y][x] /\ t[y][x] = s[y][x]
      <4> HIDE DEF old, new
      <4>1. new = old /\ m[y][x] = l[y][x] /\ t[y][x] = s[y][x]
        BY <2>6, <2>2, <2>3, <2>4
      <4>2. QED
        BY <4>1 DEF old, new
    <3>3. l[y][x] = r[RowOf(r, y)][x] /\ r[RowOf(r, y)][x] \in s[y][x]
      BY <1>10, <3>1, <3>2 DEF Shows
    <3>4. QED
      BY <3>2, <3>3
  <2>7. CASE y # y0
    <3>1. \A k \in Across : q[RowOf(q, y)][k] = r[RowOf(r, y)][k]
      BY <1>7, <2>7
    <3>2. m[y][x] = l[y][x] /\ t[y][x] = s[y][x]
      BY <1>3, <1>4, <1>9, <2>7
    <3>3. /\ l[y][x] = r[RowOf(r, y)][x]
          /\ y >= y0 \/ y = YMax => r[RowOf(r, y)][x] \in s[y][x]
          /\ (\A k \in 0 .. x : r[RowOf(r, y)][k] # Nul) => r[RowOf(r, y)][x] \in s[y][x]
      BY <1>9, <1>10, <3>1 DEF Shows
    <3>4. QED
      BY <1>9, <3>1, <3>2, <3>3
  <2>8. QED
    BY <2>5, <2>6, <2>7
<1>11. ASSUME NEW x \in Visible, q[Len(q)][x] = Nul
       PROVE  t[YMax][x] = {}
  <2>1. RowOf(q, YMax) = Len(q) /\ RowOf(r, YMax) = Len(r) /\ YMax \in Down
    BY <1>1, <1>5, RowsApart, Window
  <2>2. ~(YMax = y0 /\ x = x0) /\ r[Len(r)][x] = Nul
    BY <1>7, <1>8, <1>9, <1>11, <2>1
  <2>3. s[YMax][x] = {}
    BY <2>2 DEF Shows
  <2>4. QED
    BY <1>4, <2>1, <2>2, <2>3
<1>12. QED
  BY <1>1, <1>3, <1>4, <1>5, <1>10, <1>11 DEF Shows

\* What leaves the window is the first of the rows that it shows.
LEMMA HistoryGrows ==
  ASSUME NEW r \in Seq(TextLine), Len(r) >= YMax + 1, NEW q, q = Append(r, NoText)
  PROVE  /\ q \in Seq(TextLine) /\ Len(q) = Len(r) + 1 /\ q[Len(q)] = NoText
         /\ RowOf(q, YMax) = Len(q)
         /\ \A y \in Down : y < YMax => /\ y + 1 \in Down
                                        /\ q[RowOf(q, y)] = r[RowOf(r, y + 1)]
<1>1. NoText \in TextLine
  BY Window
<1> HIDE DEF NoText
<1>2. /\ q \in Seq(TextLine) /\ Len(q) = Len(r) + 1 /\ q[Len(q)] = NoText
      /\ \A i \in 1 .. Len(r) : q[i] = r[i]
  BY <1>1, AppendProperties
<1>3. Len(q) >= YMax + 1
  BY <1>2, Window
<1>4. RowOf(q, YMax) = Len(q)
  BY <1>2, <1>3, RowsApart
<1>5. ASSUME NEW y \in Down, y < YMax
      PROVE  y + 1 \in Down /\ q[RowOf(q, y)] = r[RowOf(r, y + 1)]
  <2>1. y + 1 \in Down
    BY <1>5, Window DEF Down
  <2>2. RowOf(r, y + 1) \in 1 .. Len(r)
    BY <2>1, RowsApart
  <2>3. RowOf(q, y) = RowOf(r, y + 1)
    BY <1>2, Window DEF RowOf
  <2>4. QED
    BY <1>2, <2>1, <2>2, <2>3
<1>6. QED
  BY <1>2, <1>4, <1>5

\* Scrolled or not, the window shows the history where the next character goes.
LEMMA ScrolledShows ==
  ASSUME GlInv
  PROVE  Here \in Down /\ Shows(gl_scroll, Redrawn, History, Here)
<1>1. at \in [x : Nat, y : 0 .. YMax + 1] /\ Shows(lines, shown, rows, at.y)
  BY DEF GlInv
<1>2. at.y \in 0 .. YMax + 1
  BY <1>1
<1>3. CASE ~Full
  <2>1. /\ Here = at.y /\ gl_scroll = lines /\ Redrawn = shown /\ History = rows
    BY <1>3 DEF Here, gl_scroll, Redrawn, History
  <2>2. at.y \in Down
    BY <1>2, <1>3, Window DEF Full, Down
  <2>3. QED
    BY <1>1, <2>1, <2>2
<1>4. CASE Full
  <2> DEFINE m == gl_scroll
             t == Redrawn
             q == History
  <2>1. Here = YMax /\ Here \in Down
    BY <1>4, Window DEF Here
  <2>2. /\ lines \in [Down -> TextLine] /\ shown \in [Down -> TextRow]
        /\ rows \in Seq(TextLine) /\ Len(rows) >= YMax + 1
        /\ \A y \in Down, x \in Visible :
             rows[RowOf(rows, y)][x] # Nul => lines[y][x] = rows[RowOf(rows, y)][x]
    BY <1>1 DEF Shows
  <2>3. m = [y \in Down |-> IF y < YMax THEN Raised(y) ELSE lines[y]]
    BY <1>4 DEF gl_scroll
  <2>4. t = [y \in Down |-> IF y < YMax THEN Drawn(m[y]) ELSE NoGlyphs]
    BY <1>4 DEF Redrawn
  <2>5. q = Append(rows, NoText)
    BY <1>4 DEF History
  <2> HIDE DEF m, t, q
  <2>6. /\ q \in Seq(TextLine) /\ Len(q) = Len(rows) + 1 /\ q[Len(q)] = NoText
        /\ RowOf(q, YMax) = Len(q)
        /\ \A y \in Down : y < YMax => /\ y + 1 \in Down
                                       /\ q[RowOf(q, y)] = rows[RowOf(rows, y + 1)]
    <3>1. rows \in Seq(TextLine) /\ Len(rows) >= YMax + 1
      BY <2>2
    <3>2. QED
      BY <2>5, <3>1, HistoryGrows
  <2>7. ASSUME NEW y \in Down, y < YMax
        PROVE  /\ Raised(y) \in TextLine
               /\ \A x \in Visible : Raised(y)[x] = lines[y + 1][x]
    <3>1. lines[y] \in TextLine /\ lines[y + 1] \in TextLine
      BY <2>2, <2>6, <2>7
    <3>2. Visible \subseteq Across /\ \A x \in Visible : x < XMax
      BY Window DEF Visible
    <3>3. QED
      BY <3>1, <3>2 DEF Raised, TextLine
  <2>8. m \in [Down -> TextLine]
    BY <2>2, <2>3, <2>7
  <2>9. ASSUME NEW line \in TextLine
        PROVE  Drawn(line) \in TextRow
    <3>1. ASSUME NEW x \in Visible, \A k \in 0 .. x : line[k] # Nul
          PROVE  line[x] \in Printable
      <4>1. x \in Across /\ x \in 0 .. x
        BY Window DEF Visible, Across
      <4>2. QED
        BY <3>1, <4>1 DEF TextLine
    <3>2. QED
      BY <3>1 DEF Drawn, TextRow
  <2>10. t \in [Down -> TextRow]
    <3>1. \A y \in Down : m[y] \in TextLine
      BY <2>8
    <3>2. NoGlyphs \in TextRow
      BY Window
    <3>3. QED
      BY <2>4, <2>9, <3>1, <3>2
  <2>11. q[RowOf(q, YMax)] = NoText /\ \A x \in Visible : NoText[x] = Nul
    BY <2>6, Window DEF NoText
  <2>12. ASSUME NEW y \in Down, NEW x \in Visible, q[RowOf(q, y)][x] # Nul
         PROVE  /\ m[y][x] = q[RowOf(q, y)][x]
                /\ y < YMax
                /\ (\A k \in 0 .. x : q[RowOf(q, y)][k] # Nul) => q[RowOf(q, y)][x] \in t[y][x]
    <3>1. y < YMax
      <4>1. y # YMax
        BY <2>11, <2>12
      <4>2. QED
        BY <4>1, Window DEF Down
    <3>2. y + 1 \in Down /\ q[RowOf(q, y)] = rows[RowOf(rows, y + 1)]
      BY <2>6, <3>1
    <3>3. \A k \in Visible : m[y][k] = lines[y + 1][k]
      BY <2>3, <2>7, <3>1
    <3>4. \A k \in Visible : q[RowOf(q, y)][k] # Nul => m[y][k] = q[RowOf(q, y)][k]
      BY <2>2, <3>2, <3>3
    <3>5. ASSUME \A k \in 0 .. x : q[RowOf(q, y)][k] # Nul
          PROVE  m[y][x] \in t[y][x]
      <4>1. 0 .. x \subseteq Visible
        BY Window DEF Visible
      <4>2. \A k \in 0 .. x : m[y][k] # Nul
        BY <3>4, <3>5, <4>1
      <4>3. t[y] = Drawn(m[y])
        BY <2>4, <3>1
      <4>4. t[y][x] = {m[y][x]}
        BY <4>2, <4>3 DEF Drawn
      <4>5. QED
        BY <4>4
    <3>6. m[y][x] = q[RowOf(q, y)][x]
      BY <2>12, <3>4
    <3>7. QED
      BY <3>1, <3>5, <3>6
  <2>13. \A x \in Visible : t[YMax][x] = {}
    BY <2>4, Window DEF NoGlyphs
  <2>14. Len(q) >= YMax + 1
    BY <2>2, <2>6, Window
  <2>15. Shows(m, t, q, YMax)
    <3>1. ASSUME NEW y \in Down, NEW x \in Visible, q[RowOf(q, y)][x] # Nul
          PROVE  /\ m[y][x] = q[RowOf(q, y)][x]
                 /\ y >= YMax \/ y = YMax => q[RowOf(q, y)][x] \in t[y][x]
                 /\ (\A k \in 0 .. x : q[RowOf(q, y)][k] # Nul) => q[RowOf(q, y)][x] \in t[y][x]
      <4>1. ~(y >= YMax) /\ y # YMax
        BY <2>12, <3>1, Window DEF Down
      <4>2. QED
        BY <2>12, <3>1, <4>1
    <3>2. QED
      BY <2>6, <2>8, <2>10, <2>13, <2>14, <3>1 DEF Shows
  <2>16. QED
    BY <2>1, <2>15 DEF m, t, q
<1>5. QED
  BY <1>3, <1>4

LEMMA MovedShows ==
  ASSUME GlInv, NEW to, MovedTo(to), to.x \in Nat, to.y \in {Here, Here + 1},
         to = [x |-> to.x, y |-> to.y]
  PROVE  GlInv'
<1>1. Here \in Down /\ Shows(gl_scroll, Redrawn, History, Here)
  BY ScrolledShows
<1>2. to.y \in 0 .. YMax + 1 /\ Here \in Nat /\ to.y \in Nat /\ to.y >= Here
  BY <1>1, Window DEF Down
<1>3. Shows(gl_scroll, Redrawn, History, to.y)
  BY <1>1, <1>2, ShowsFurther
<1>4. lines' = gl_scroll /\ shown' = Redrawn /\ rows' = History /\ at' = to
  BY DEF MovedTo
<1>5. Shows(lines', shown', rows', at'.y)
  BY <1>3, <1>4
<1>6. at' \in [x : Nat, y : 0 .. YMax + 1]
  BY <1>2, <1>4
<1>7. Shows(lines, shown, rows, at.y)'
  BY <1>5 DEF Shows, RowOf
<1>8. QED
  BY <1>6, <1>7 DEF GlInv

LEMMA PutKeeps ==
  ASSUME GlInv, NEW c, Put(c)
  PROVE  GlInv'
<1>1. Here \in Down /\ Shows(gl_scroll, Redrawn, History, Here)
  BY ScrolledShows
<1>2. /\ c \in Printable /\ at.x <= LastColumn
      /\ lines' = [gl_scroll EXCEPT ![Here][at.x] = c]
      /\ shown' = do_draw_character(Redrawn, at.x, Here, c)
      /\ rows' = [History EXCEPT ![RowOf(History, Here)][at.x] = c]
      /\ at' = IF at.x + 1 > XMax THEN [x |-> 0, y |-> Here + 1] ELSE [x |-> at.x + 1, y |-> Here]
  BY DEF Put
<1>3. at.x \in Nat
  BY DEF GlInv
<1>4. at.x \in Across
  BY <1>2, <1>3, Window DEF Across
<1>5. Shows(lines', shown', rows', Here)
  BY <1>1, <1>2, <1>4, PutShows
<1>6. at' \in [x : Nat, y : {Here, Here + 1}]
  BY <1>2, <1>3
<1>7. at'.y \in 0 .. YMax + 1 /\ Here \in Nat /\ at'.y \in Nat /\ at'.y >= Here
  BY <1>1, <1>6, Window DEF Down
<1>8. Shows(lines', shown', rows', at'.y)
  BY <1>5, <1>7, ShowsFurther
<1>9. at' \in [x : Nat, y : 0 .. YMax + 1]
  BY <1>6, <1>7
<1>10. Shows(lines, shown, rows, at.y)'
  BY <1>8 DEF Shows, RowOf
<1>11. QED
  BY <1>9, <1>10 DEF GlInv

LEMMA GlStart == ASSUME GlInit PROVE GlInv
<1>1. NoText \in TextLine /\ NoGlyphs \in TextRow /\ 0 \in 0 .. YMax + 1
  BY Window
<1>2. at \in [x : Nat, y : 0 .. YMax + 1]
  BY <1>1 DEF GlInit
<1>3. /\ lines \in [Down -> TextLine] /\ shown \in [Down -> TextRow]
  BY <1>1 DEF GlInit
<1>4. rows \in Seq(TextLine) /\ Len(rows) = YMax + 1 /\ \A n \in 1 .. YMax + 1 : rows[n] = NoText
  BY <1>1, Window DEF GlInit
<1>5. \A y \in Down : rows[RowOf(rows, y)] = NoText
  BY <1>4, RowsApart, Window
<1>6. \A x \in Visible : NoText[x] = Nul /\ shown[YMax][x] = {}
  BY Window DEF GlInit, NoText, NoGlyphs
<1>7. Shows(lines, shown, rows, at.y)
  BY <1>3, <1>4, <1>5, <1>6, Window DEF Shows
<1>8. QED
  BY <1>2, <1>7 DEF GlInv

\* For every window and every sequence of characters: what is printed stays visible
\* until its row leaves the window, and the last line shows its own row alone.
THEOREM PrintingKeepsText == GlInit /\ [][GlNext]_glVars => []PrintedStays
<1>1. GlInit => GlInv
  BY GlStart
<1>2. GlInv /\ [GlNext]_glVars => GlInv'
  <2>1. SUFFICES ASSUME GlInv, [GlNext]_glVars PROVE GlInv'
    OBVIOUS
  <2>2. CASE UNCHANGED glVars
    BY <2>1, <2>2 DEF glVars, GlInv, Shows, RowOf
  <2>3. at.x \in Nat /\ TabWidth \in Nat
    BY <2>1, GlTextAssumption DEF GlInv
  <2>4. ASSUME NEW c, gl_putchar(c) PROVE GlInv'
    <3>1. CASE MovedTo([x |-> 0, y |-> Here + 1])
      BY <2>1, <3>1, MovedShows
    <3>2. CASE MovedTo([x |-> 0, y |-> Here])
      BY <2>1, <3>2, MovedShows
    <3>3. CASE MovedTo([x |-> at.x + TabWidth, y |-> Here])
      BY <2>1, <2>3, <3>3, MovedShows
    <3>4. CASE Put(c)
      BY <2>1, <3>4, PutKeeps
    <3>5. QED
      BY <2>4, <3>1, <3>2, <3>3, <3>4 DEF gl_putchar
  <2>5. QED
    BY <2>1, <2>2, <2>4 DEF GlNext
<1>3. GlInv => PrintedStays
  BY ShownStays DEF GlInv
<1>4. QED
  BY <1>1, <1>2, <1>3, PTL

-----------------------------------------------------------------------------
(***************************************************************************)
(* Keyboard and WinMan, for any scan codes, sizes of reads, processes and  *)
(* screens.  No step changes both who has a screen and what is read, so    *)
(* that the two halves of the invariant are kept separately.               *)
(***************************************************************************)

\* A process has no screen before get_screen_buffer has stored its pid.
NoneBefore ==
  \A p \in Pids, i \in Screens :
    owner[i] = p => p <= spawned /\ stage[p] \notin {TEST, SET}

\* the half of the window manager
ScreensInv == WinTypeOK /\ NoneBefore /\ OneScreenEach

\* What is stored for the request on file is what was typed since it was made.
StoredIsTyped ==
  request # NoRequest =>
    IF request.size = 0 THEN buf[request.pid] = <<>> /\ typed[request.pid] = <<>>
                        ELSE buf[request.pid] = typed[request.pid]

\* the inductive invariant
IInv == ScreensInv /\ HolderWaits /\ StoredIsTyped

-----------------------------------------------------------------------------
\* Initially the screens taken are those of processes that have ended.
LEMMA WinInitially == ASSUME WinInit PROVE ScreensInv
<1> USE WinManAssumption DEF Screens, Quadrants, Pids, NOBODY
<1>1. PICK n \in Taken : owner = [i \in Screens |-> IF i < n THEN i + 1 ELSE NOBODY]
  BY DEF WinInit
<1>2. n \in 0 .. DEFAULT_SCREENS /\ n <= GONE
  OBVIOUS
<1>3. \A i \in Screens : owner[i] = IF i < n THEN i + 1 ELSE NOBODY
  BY <1>1
<1>4. WinTypeOK
  <2>1. owner \in [Screens -> Pids \cup {NOBODY}]
    BY <1>1, <1>2
  <2>2. screens \in [Quadrants -> Screens] /\ active_quad \in Quadrants
    BY DEF WinInit
  <2>3. spawned \in GONE .. MAX_PID
    BY DEF WinInit
  <2>4. stage \in [Pids -> Stages] /\ index \in [Pids -> Screens]
    BY DEF WinInit, Stages
  <2> QED BY <2>1, <2>2, <2>3, <2>4 DEF WinTypeOK
<1>5. NoneBefore
  BY <1>2, <1>3 DEF WinInit, NoneBefore, TEST, SET, ENDED
<1>6. OneScreenEach
  BY <1>2, <1>3 DEF OneScreenEach
<1> QED BY <1>4, <1>5, <1>6 DEF ScreensInv

\* What a key does to quadrants and focus leaves owners and processes alone.
LEMMA FocusMoves ==
  ASSUME ScreensInv, NEW key \in Keys, keyboard_isr(key)
  PROVE  ScreensInv'
<1> USE DEF ScreensInv
<1>1. UNCHANGED <<owner, spawned, stage, index>>
  BY DEF keyboard_isr
<1>2. active_quad' \in Quadrants
  BY DEF keyboard_isr, switch_active, WinTypeOK
<1>3. screens' \in [Quadrants -> Screens]
  <2>1. CASE key \in FunctionKeys
    BY <2>1, <1>2, KeyboardAssumption DEF keyboard_isr, set_active, WinTypeOK
  <2>2. CASE key \notin FunctionKeys
    BY <2>2 DEF keyboard_isr, WinTypeOK
  <2> QED BY <2>1, <2>2
<1>4. WinTypeOK'
  BY <1>1, <1>2, <1>3 DEF WinTypeOK
<1> QED BY <1>1, <1>4 DEF NoneBefore, OneScreenEach

\* The store in get_screen_buffer gives a screen to a process that has none.
LEMMA ScreenStored ==
  ASSUME ScreensInv, NEW p \in Pids, SetScreen(p)
  PROVE  ScreensInv'
<1> USE DEF ScreensInv
<1>1. index[p] \in Screens /\ owner' = [owner EXCEPT ![index[p]] = p]
  BY DEF SetScreen, WinTypeOK
<1>2. \A i \in Screens : owner[i] # p
  BY DEF SetScreen, NoneBefore
<1>3. stage' = [stage EXCEPT ![p] = RUNS] /\ UNCHANGED <<screens, active_quad, spawned, index>>
  BY DEF SetScreen
<1>4. WinTypeOK'
  BY <1>1, <1>3 DEF WinTypeOK, Stages
<1>5. NoneBefore'
  BY <1>1, <1>3 DEF NoneBefore, WinTypeOK, SetScreen, TEST, SET, RUNS, Pids
<1>6. OneScreenEach'
  BY <1>1, <1>2 DEF OneScreenEach, WinTypeOK
<1> QED BY <1>4, <1>5, <1>6

\* All other steps of a process leave the owners alone and do not return to the search.
LEMMA WinStep ==
  ASSUME ScreensInv, [Next]_vars
  PROVE  ScreensInv'
<1> USE DEF ScreensInv
<1>1. ASSUME UNCHANGED winVars PROVE ScreensInv'
  BY <1>1 DEF winVars, WinTypeOK, NoneBefore, OneScreenEach
<1>2. ASSUME Spawn PROVE ScreensInv'
  BY <1>2, WinManAssumption DEF Spawn, WinTypeOK, NoneBefore, OneScreenEach, Pids
<1>3. ASSUME NEW p \in Pids, TestScreen(p) PROVE ScreensInv'
  <2>1. UNCHANGED <<owner, screens, active_quad, spawned>>
    BY <1>3 DEF TestScreen
  <2>2. stage' \in [Pids -> Stages] /\ index' \in [Pids -> Screens]
    BY <1>3 DEF TestScreen, WinTypeOK, Stages
  <2>3. stage[p] = TEST /\ \A o \in Pids \ {p} : stage'[o] = stage[o]
    BY <1>3 DEF TestScreen, WinTypeOK
  <2>4. NoneBefore'
    BY <2>1, <2>3 DEF NoneBefore
  <2> QED BY <2>1, <2>2, <2>4 DEF WinTypeOK, OneScreenEach
<1>4. ASSUME NEW p \in Pids, Exit(p) PROVE ScreensInv'
  BY <1>4 DEF Exit, WinTypeOK, NoneBefore, OneScreenEach, Stages, TEST, SET, ENDED
<1>5. CASE UNCHANGED vars
  BY <1>5, <1>1 DEF vars
<1>6. CASE Next
  <2>1. ASSUME NEW p \in Pids, NEW size \in Sizes, sys_read(p, size) PROVE ScreensInv'
    BY <2>1, <1>1 DEF sys_read
  <2>2. ASSUME NEW p \in Pids, sys_exit(p) PROVE ScreensInv'
    BY <2>2, <1>4 DEF sys_exit
  <2>3. ASSUME NEW p \in Pids, get_screen_buffer(p) PROVE ScreensInv'
    BY <2>3, <1>3, ScreenStored DEF get_screen_buffer
  <2>4. CASE sys_fork
    BY <2>4, <1>2 DEF sys_fork
  <2>5. CASE syscall
    BY <2>5, <1>1 DEF syscall
  <2>6. ASSUME NEW key \in Keys, keyboard_isr(key) PROVE ScreensInv'
    BY <2>6, FocusMoves
  <2> QED BY <1>6, <2>1, <2>2, <2>3, <2>4, <2>5, <2>6 DEF Next
<1> QED BY <1>5, <1>6

\* OneScreenEach for any number of screens and processes: from the races in
\* get_screen_buffer (win_man.c) no process comes out with two screens.
THEOREM OneScreenAtMost == Spec => []OneScreenEach
<1>1. Init => ScreensInv
  BY WinInitially DEF Init
<1>2. ScreensInv /\ [Next]_vars => ScreensInv'
  BY WinStep
<1>3. ScreensInv => OneScreenEach
  BY DEF ScreensInv
<1> QED BY <1>1, <1>2, <1>3, PTL DEF Spec

-----------------------------------------------------------------------------
\* What a read that ends in a step returns, which ReadsWhatWasTyped says of every step
Returned(p) ==
  /\ typed'[p] # <<>>
  /\ IF request.size = 0
     THEN Len(typed'[p]) = 1 /\ buf'[p] = <<buf'[p][1], typed'[p][1]>>
     ELSE buf'[p] = Answer(typed'[p], request.size)

\* A process in _buf_block runs a user program.
LEMMA WaitingRun ==
  ASSUME TypeOK, NEW o \in waiting
  PROVE  o \in 1 .. spawned /\ stage[o] = RUNS /\ o \in Pids
<1>1. spawned \in Int /\ spawned <= MAX_PID
  BY WinManAssumption DEF TypeOK, WinTypeOK
<1>2. o \in Running
  BY DEF TypeOK
<1>3. o \in 1 .. spawned /\ stage[o] = RUNS
  BY <1>2 DEF Running
<1> QED BY <1>1, <1>3, WinManAssumption DEF Pids

\* The answer to what was stored and one character more is what was stored, if that
\* is the newline or the buffer is full.
LEMMA AnswerIsStored ==
  ASSUME NEW s \in Seq(Chars), NEW c \in Chars, NEW size \in Nat,
         Len(s) <= size, c.code = NEWLINE \/ Len(s) = size
  PROVE  Answer(Append(s, c), size) = s
<1> DEFINE t == Append(s, c)
<1>1. Len(t) = Len(s) + 1 /\ t[Len(s) + 1] = c
  OBVIOUS
<1>2. SubSeq(t, 1, Len(s)) = s
  OBVIOUS
<1>3. CASE c.code = NEWLINE
  <2>1. Answer(t, size) = SubSeq(t, 1, IF Len(s) < size THEN Len(s) ELSE size)
    BY <1>1, <1>3 DEF Answer
  <2>2. (IF Len(s) < size THEN Len(s) ELSE size) = Len(s)
    OBVIOUS
  <2> QED BY <1>2, <2>1, <2>2
<1>4. CASE c.code # NEWLINE /\ Len(s) = size
  <2>1. Answer(t, size) = SubSeq(t, 1, IF Len(s) + 1 < size THEN Len(s) + 1 ELSE size)
    BY <1>1, <1>4 DEF Answer
  <2> QED BY <1>2, <1>4, <2>1
<1> QED BY <1>3, <1>4

\* A character for the process with the focus: it is stored for the request of that
\* process, or ends it, or changes nothing but what the process was typed.
LEMMA CharacterTyped ==
  ASSUME IInv, NEW p \in Pids \cup {NOBODY}, NEW c \in Chars, NEW flags \in Flags,
         write_to_active(c, flags, p),
         typed' = IF p \in waiting THEN [typed EXCEPT ![p] = Append(@, c)] ELSE typed
  PROVE  /\ request' \in {NoRequest} \cup [pid : Pids, size : Sizes, index : Nat]
         /\ waiting' \subseteq waiting
         /\ buf' \in [Pids -> Seq(Chars \cup Flags)]
         /\ typed' \in [Pids -> Seq(Chars)]
         /\ request' # NoRequest =>
              /\ request'.pid \in waiting'
              /\ request'.index = Len(buf'[request'.pid])
              /\ request'.index <= request'.size
         /\ StoredIsTyped'
         /\ \A o \in waiting : o \notin waiting' => Returned(o)
<1> USE KeyboardAssumption
<1> USE DEF IInv, HolderWaits, TypeOK
<1>p. \A o \in waiting : o \in Pids
  BY WaitingRun
<1>0. typed' \in [Pids -> Seq(Chars)]
  <2>1. CASE p \in waiting
    <3>1. p \in Pids
      BY <1>p, <2>1 DEF Running, NOBODY
    <3>2. Append(typed[p], c) \in Seq(Chars)
      BY <3>1
    <3> QED BY <2>1, <3>2
  <2>2. CASE p \notin waiting
    BY <2>2
  <2> QED BY <2>1, <2>2
<1>1. NoRequest.pid = NOBODY /\ NOBODY \notin Pids
  BY DEF NoRequest, NOBODY, Pids
<1>2. CASE p = NOBODY \/ request.pid # p
  <2>1. UNCHANGED <<request, waiting, buf>>
    BY <1>2 DEF write_to_active
  <2>2. request # NoRequest => typed'[request.pid] = typed[request.pid]
    BY <1>1, <1>2
  <2> QED BY <1>0, <2>1, <2>2 DEF StoredIsTyped
<1>3. CASE p # NOBODY /\ request.pid = p
  <2>1. /\ p \in Pids /\ p \in waiting /\ request # NoRequest
        /\ request \in [pid : Pids, size : Sizes, index : Nat]
        /\ request.size \in Nat /\ request.index \in Nat
    BY <1>1, <1>3
  <2>2. /\ request.index = Len(buf[p]) /\ request.index <= request.size
        /\ typed' = [typed EXCEPT ![p] = Append(@, c)]
        /\ typed'[p] = Append(typed[p], c) /\ typed[p] \in Seq(Chars)
    BY <1>3, <2>1
  <2>3. CASE request.size = 0
    <3>1. buf' = [buf EXCEPT ![p] = <<flags, c>>] /\ Complete(p)
      BY <1>3, <2>3 DEF write_to_active
    <3>2. typed[p] = <<>>
      BY <1>3, <2>1, <2>3 DEF StoredIsTyped
    <3>3. typed'[p] = <<c>>
      BY <2>2, <3>2
    <3>4. buf'[p] = <<flags, c>> /\ <<flags, c>> \in Seq(Chars \cup Flags)
      BY <2>1, <3>1
    <3>5. Len(typed'[p]) = 1 /\ typed'[p][1] = c /\ typed'[p] # <<>>
      <4>1. Len(<<c>>) = 1 /\ <<c>>[1] = c /\ <<c>> # <<>>
        OBVIOUS
      <4> HIDE DEF IInv, HolderWaits, TypeOK
      <4> QED BY <3>3, <4>1, Zenon
    <3>6. buf'[p] = <<buf'[p][1], typed'[p][1]>>
      <4> HIDE DEF IInv, HolderWaits, TypeOK
      <4> QED BY <3>4, <3>5
    <3>7. Returned(p)
      <4> HIDE DEF IInv, HolderWaits, TypeOK
      <4> QED BY <2>3, <3>5, <3>6 DEF Returned
    <3> QED BY <1>0, <2>1, <3>1, <3>4, <3>7 DEF Complete, StoredIsTyped
  <2>4. CASE request.size # 0 /\ (c.code = NEWLINE \/ request.index = request.size)
    <3>1. UNCHANGED buf /\ Complete(p)
      BY <1>3, <2>4 DEF write_to_active
    <3>2. buf[p] = typed[p]
      BY <1>3, <2>1, <2>4 DEF StoredIsTyped
    <3>3. Answer(Append(typed[p], c), request.size) = typed[p]
      BY <2>1, <2>2, <2>4, <3>2, AnswerIsStored
    <3>4. typed'[p] # <<>>
      BY <2>2
    <3>5. Returned(p)
      BY <2>2, <2>4, <3>1, <3>2, <3>3, <3>4 DEF Returned
    <3> QED BY <1>0, <2>1, <3>1, <3>5 DEF Complete, StoredIsTyped
  <2>5. CASE request.size # 0 /\ c.code # NEWLINE /\ request.index # request.size
    <3>1. /\ buf' = [buf EXCEPT ![p] = Append(@, c)]
          /\ request' = [request EXCEPT !.index = request.index + 1]
          /\ UNCHANGED waiting
      BY <1>3, <2>5 DEF write_to_active
    <3>2. /\ buf'[p] = Append(buf[p], c) /\ buf[p] \in Seq(Chars \cup Flags)
          /\ buf'[p] \in Seq(Chars \cup Flags) /\ Len(buf'[p]) = Len(buf[p]) + 1
      <4>1. buf[p] \in Seq(Chars \cup Flags) /\ buf'[p] = Append(buf[p], c)
        BY <2>1, <3>1
      <4>2. c \in Chars \cup Flags
        OBVIOUS
      <4> QED BY <4>1, <4>2
    <3>3. /\ request'.pid = p /\ request'.size = request.size
          /\ request'.index = request.index + 1
          /\ request' \in [pid : Pids, size : Sizes, index : Nat]
      <4> HIDE DEF IInv, HolderWaits, TypeOK
      <4>1. request.index + 1 \in Nat
        BY <2>1
      <4> QED BY <1>3, <2>1, <3>1, <4>1
    <3>4. buf' \in [Pids -> Seq(Chars \cup Flags)]
      BY <3>1, <3>2
    <3>5. request'.index = Len(buf'[p]) /\ request'.index <= request'.size
      BY <2>1, <2>2, <2>5, <3>2, <3>3
    <3>6. buf'[p] = typed'[p]
      BY <1>3, <2>1, <2>2, <2>5, <3>2 DEF StoredIsTyped
    <3> QED BY <1>0, <2>1, <2>5, <3>1, <3>3, <3>4, <3>5, <3>6 DEF StoredIsTyped
  <2> QED BY <2>3, <2>4, <2>5
<1> QED BY <1>2, <1>3

\* A key, whatever it does to the focus first
LEMMA KeyStep ==
  ASSUME IInv, NEW key \in Keys, keyboard_isr(key)
  PROVE  /\ HolderWaits' /\ StoredIsTyped'
         /\ \A o \in waiting : o \notin waiting' => Returned(o)
<1> USE DEF IInv, HolderWaits, TypeOK
<1>1. WinTypeOK'
  BY FocusMoves DEF ScreensInv
<1>2. /\ {shift_pressed', ctrl_pressed', alt_pressed', win_pressed'} \subseteq BOOLEAN
      /\ await_next' \in BOOLEAN /\ in_service' \in BOOLEAN
  BY DEF keyboard_isr, Modify
<1>3. Running' = Running
  BY DEF keyboard_isr, Running
<1>4. CASE key \notin Characters
  <2>1. UNCHANGED readVars
    BY <1>4 DEF keyboard_isr
  <2> QED BY <1>1, <1>2, <1>3, <2>1 DEF readVars, StoredIsTyped
<1>5. CASE key \in Characters
  <2> DEFINE quad == IF await_next /\ win_pressed THEN switch_active(Moved(active_quad, key))
                     ELSE active_quad
             p == ActivePid(quad)
             c == [code |-> key, upper |-> shift_pressed]
             flags == [shift |-> shift_pressed, alt |-> alt_pressed, ctrl |-> ctrl_pressed]
  <2>1. Character(key, quad)
    BY <1>5 DEF keyboard_isr
  <2>2. quad \in Quadrants
    BY DEF switch_active, WinTypeOK
  <2>3. p \in Pids \cup {NOBODY}
    BY <2>2 DEF ActivePid, WinTypeOK
  <2>4. c \in Chars /\ flags \in Flags
    BY <1>5 DEF Chars, Flags
  <2>5. /\ write_to_active(c, flags, p)
        /\ typed' = IF p \in waiting THEN [typed EXCEPT ![p] = Append(@, c)] ELSE typed
    BY <2>1 DEF Character
  <2> HIDE DEF quad, p, c, flags
  <2> QED BY <1>1, <1>2, <1>3, <2>3, <2>4, <2>5, CharacterTyped
<1> QED BY <1>4, <1>5

\* Every step keeps the half of the reads, and no read ends but as it should.
LEMMA ReadStep ==
  ASSUME IInv, [Next]_vars
  PROVE  /\ HolderWaits' /\ StoredIsTyped'
         /\ \A o \in waiting : o \notin waiting' => Returned(o)
<1> USE DEF IInv, HolderWaits, TypeOK
<1>1. WinTypeOK'
  BY WinStep DEF ScreensInv
<1>2. ASSUME UNCHANGED <<modifiers, await_next, readVars>>, in_service' \in BOOLEAN,
             waiting \subseteq Running'
      PROVE  /\ HolderWaits' /\ StoredIsTyped'
             /\ \A o \in waiting : o \notin waiting' => Returned(o)
  BY <1>1, <1>2 DEF modifiers, readVars, StoredIsTyped
<1>3. CASE UNCHANGED vars
  BY <1>2, <1>3 DEF vars, winVars, Running
<1>4. CASE Next
  <2>1. ASSUME NEW p \in Pids, NEW size \in Sizes, sys_read(p, size)
        PROVE  /\ HolderWaits' /\ StoredIsTyped'
               /\ \A o \in waiting : o \notin waiting' => Returned(o)
    <3> USE <2>1
    <3>1. /\ waiting' = waiting \cup {p} /\ p \in Running /\ p \notin waiting
          /\ UNCHANGED <<winVars, modifiers, await_next>> /\ in_service' = FALSE
          /\ buf' = [buf EXCEPT ![p] = <<>>] /\ typed' = [typed EXCEPT ![p] = <<>>]
      BY DEF sys_read
    <3>2. Running' = Running
      BY <3>1 DEF winVars, Running
    <3>3. buf'[p] = <<>> /\ typed'[p] = <<>>
          /\ \A o \in Pids \ {p} : buf'[o] = buf[o] /\ typed'[o] = typed[o]
      BY <3>1
    <3>4. buf' \in [Pids -> Seq(Chars \cup Flags)] /\ typed' \in [Pids -> Seq(Chars)]
      BY <3>1
    <3>5. CASE request' = [pid |-> p, size |-> size, index |-> 0]
      <4>1. request'.pid = p /\ request'.size = size /\ request'.index = 0
            /\ request' \in [pid : Pids, size : Sizes, index : Nat]
        BY <3>5
      <4>2. size \in Nat
        BY KeyboardAssumption
      <4>3. TypeOK'
        BY <1>1, <3>1, <3>2, <3>4, <4>1 DEF modifiers
      <4>4. request'.index = Len(buf'[p]) /\ request'.index <= request'.size
        BY <3>3, <4>1, <4>2
      <4> QED BY <3>1, <3>3, <4>1, <4>3, <4>4 DEF StoredIsTyped
    <3>6. CASE request.index # -1 /\ UNCHANGED request
      <4>1. request # NoRequest /\ request.pid \in waiting /\ request.pid \in Pids \ {p}
        BY <3>1, <3>6 DEF NoRequest
      <4> QED BY <1>1, <3>1, <3>2, <3>3, <3>4, <3>6, <4>1 DEF modifiers, StoredIsTyped
    <3> QED BY <3>5, <3>6 DEF sys_read
  <2>2. ASSUME NEW p \in Pids, sys_exit(p)
        PROVE  /\ HolderWaits' /\ StoredIsTyped'
               /\ \A o \in waiting : o \notin waiting' => Returned(o)
    <3> USE <2>2
    <3>1. /\ UNCHANGED <<request, waiting, modifiers, await_next>> /\ in_service' = FALSE
          /\ buf' = [buf EXCEPT ![p] = <<>>] /\ typed' = [typed EXCEPT ![p] = <<>>]
          /\ p \notin waiting /\ Exit(p)
      BY DEF sys_exit
    <3>2. waiting \subseteq Running'
      BY <3>1 DEF Exit, Running, WinTypeOK, Pids
    <3>3. \A o \in Pids \ {p} : buf'[o] = buf[o] /\ typed'[o] = typed[o]
      BY <3>1
    <3>4. buf' \in [Pids -> Seq(Chars \cup Flags)] /\ typed' \in [Pids -> Seq(Chars)]
      BY <3>1
    <3>5. request # NoRequest => request.pid \in Pids \ {p}
      BY <3>1
    <3> QED BY <1>1, <3>1, <3>2, <3>3, <3>4, <3>5 DEF modifiers, StoredIsTyped
  <2>3. ASSUME NEW p \in Pids, get_screen_buffer(p)
        PROVE  /\ HolderWaits' /\ StoredIsTyped'
               /\ \A o \in waiting : o \notin waiting' => Returned(o)
    <3>1. stage[p] # RUNS /\ UNCHANGED spawned /\ \A o \in Pids \ {p} : stage'[o] = stage[o]
      BY <2>3 DEF get_screen_buffer, TestScreen, SetScreen, WinTypeOK, TEST, SET, RUNS
    <3>2. ASSUME NEW o \in waiting PROVE o \in Running'
      <4>1. o \in 1 .. spawned /\ stage[o] = RUNS /\ o \in Pids
        BY WaitingRun
      <4> QED BY <3>1, <4>1 DEF Running
    <3> QED BY <1>2, <2>3, <3>2 DEF get_screen_buffer
  <2>4. CASE sys_fork
    <3>1. waiting \subseteq Running'
      BY <2>4, WinManAssumption DEF sys_fork, Spawn, Running, WinTypeOK
    <3> QED BY <1>2, <2>4, <3>1 DEF sys_fork
  <2>5. CASE syscall
    BY <1>2, <2>5 DEF syscall, winVars, Running
  <2>6. ASSUME NEW key \in Keys, keyboard_isr(key)
        PROVE  /\ HolderWaits' /\ StoredIsTyped'
               /\ \A o \in waiting : o \notin waiting' => Returned(o)
    BY <2>6, KeyStep
  <2> QED BY <1>4, <2>1, <2>2, <2>3, <2>4, <2>5, <2>6 DEF Next
<1> QED BY <1>3, <1>4

\* The invariant holds from the start and in every step.
LEMMA Invariance == Spec => []IInv
<1>1. ASSUME Init PROVE IInv
  <2>1. ScreensInv
    BY <1>1, WinInitially DEF Init
  <2>2. TypeOK
    <3>1. [p \in Pids |-> <<>>] \in [Pids -> Seq(Chars \cup Flags)]
          /\ [p \in Pids |-> <<>>] \in [Pids -> Seq(Chars)]
      OBVIOUS
    <3>2. {} \subseteq Running
      OBVIOUS
    <3> QED BY <1>1, <2>1, <3>1, <3>2 DEF Init, TypeOK, ScreensInv
  <2> QED BY <1>1, <2>1, <2>2 DEF Init, IInv, HolderWaits, StoredIsTyped
<1>2. IInv /\ [Next]_vars => IInv'
  BY WinStep, ReadStep DEF IInv
<1> QED BY <1>1, <1>2, PTL DEF Spec

\* HolderWaits for any keys, sizes and processes: a request on file is that of a
\* process in _buf_block, and what it has been given fits (keyboard.c).
THEOREM RequestsInStep == Spec => []HolderWaits
<1>1. IInv => HolderWaits
  BY DEF IInv
<1> QED BY <1>1, Invariance, PTL

\* ReadsWhatWasTyped for any keys, sizes and processes: a read returns the characters
\* that were typed for its process while it waited, as many as it asked for.
THEOREM ReadsReturnWhatWasTyped == Spec => ReadsWhatWasTyped
<1>1. IInv /\ [Next]_vars =>
        [\A p \in waiting : p \notin waiting' =>
           /\ typed'[p] # <<>>
           /\ IF request.size = 0
              THEN Len(typed'[p]) = 1 /\ buf'[p] = <<buf'[p][1], typed'[p][1]>>
              ELSE buf'[p] = Answer(typed'[p], request.size)]_vars
  BY ReadStep DEF Returned
<1> QED BY <1>1, Invariance, PTL DEF Spec, ReadsWhatWasTyped

===============================================================================
