------------------------------ MODULE SioProofs -------------------------------
(***************************************************************************)
(* Both paths of the serial driver keep the order of the characters, for   *)
(* buffers of any size and any number of characters, writes and processes. *)
(***************************************************************************)
EXTENDS Sio, SequenceTheorems, TLAPS

Line == Chars \cup {CR, LF}   \* what is written and received
Char == Line \cup {NONE}

\* the count of a buffer is the distance of its pointers; the output buffer is also
\* left with its first pointer wrapped to the start and the second at the end
Spans(b) == \/ b.next + b.count = b.last
            \/ b.count = 0 /\ b.last = BUF_SIZE

History == /\ current \in Procs
           /\ stored \in Seq(Char) /\ taken \in Seq(Char)
           /\ written \in Seq(Line) /\ wire \in Seq(Line)

InFlight(c) == IF c = NONE THEN <<>> ELSE <<c>>

InputInv == /\ rx.next + rx.count = rx.last
            /\ taken \o Buffered(rx) = stored

OutputInv ==
  /\ Spans(tx)
  /\ ~tx.sending => tx.count = 0 /\ tx.last = 0 /\ tx.next = 0 /\ txd = NONE
  /\ Buffered(tx) \in Seq(Line)
  /\ wire \o InFlight(txd) \o Buffered(tx) = written

\* The inductive invariant: the order of the characters says where they are only
\* together with the distances of the pointers.
IInv == TypeOK /\ History /\ (Intact => InputInv /\ OutputInv)

-----------------------------------------------------------------------------
(* One buffer *)

LEMMA BufferFields ==
  ASSUME NEW b \in Buffers
  PROVE  /\ b.buffer \in [Index -> Char]
         /\ b.last \in 0 .. BUF_SIZE /\ b.next \in 0 .. BUF_SIZE /\ b.count \in 0 .. BUF_SIZE
         /\ b.last \in Nat /\ b.next \in Nat /\ b.count \in Nat
         /\ b.overrun \in BOOLEAN /\ b.sending \in BOOLEAN
BY SioAssumption DEF Buffers, Char, Line

\* What is between the pointers is a sequence of characters.
LEMMA BufferedSeq ==
  ASSUME NEW b \in Buffers, Spans(b)
  PROVE  /\ Buffered(b) \in Seq(Char)
         /\ Len(Buffered(b)) = b.count
         /\ \A i \in 1 .. b.count : Buffered(b)[i] = b.buffer[b.next + i - 1]
<1>1. \A i \in 1 .. b.count : b.next + i - 1 \in Index
  BY BufferFields, SioAssumption DEF Spans, Index
<1>2. \A i \in 1 .. b.count : b.buffer[b.next + i - 1] \in Char
  BY <1>1, BufferFields
<1>3. Buffered(b) \in [1 .. b.count -> Char]
  BY <1>2 DEF Buffered
<1>4. b.count \in Nat
  BY BufferFields
<1>5. Buffered(b) \in Seq(Char) /\ Len(Buffered(b)) = b.count
  BY <1>3, <1>4
<1>6. QED
  BY <1>5 DEF Buffered

\* *last++ = ch; ++count puts the character behind the others, or past the end.
LEMMA StoreFits ==
  ASSUME NEW b \in Buffers, Spans(b), NEW ch \in Char
  PROVE  /\ Store(b, ch) \in Buffers
         /\ Spans(Store(b, ch))
         /\ Store(b, ch).sending = b.sending
         /\ Store(b, ch).next = b.next
         /\ b.overrun => Store(b, ch).overrun
         /\ ~Store(b, ch).overrun =>
              /\ Store(b, ch).next + Store(b, ch).count = Store(b, ch).last
              /\ Buffered(Store(b, ch)) = Append(Buffered(b), ch)
<1> DEFINE c == Store(b, ch)
<1>1. CASE b.last \in Index
  <2>1. c = [b EXCEPT !.buffer[b.last] = ch, !.last = @ + 1, !.count = @ + 1]
    BY <1>1 DEF Store
  <2>2. /\ b.next + b.count = b.last /\ b.last \in 0 .. BUF_SIZE-1
    BY <1>1, BufferFields, SioAssumption DEF Spans, Index
  <2>3. /\ c.buffer = [b.buffer EXCEPT ![b.last] = ch]
        /\ c.last = b.last + 1 /\ c.count = b.count + 1
        /\ c.next = b.next /\ c.overrun = b.overrun /\ c.sending = b.sending
    BY <2>1 DEF Buffers
  <2>4. c \in Buffers
    <3>1. [b.buffer EXCEPT ![b.last] = ch] \in [Index -> Char]
      BY BufferFields
    <3>2. b.last + 1 \in 0 .. BUF_SIZE /\ b.count + 1 \in 0 .. BUF_SIZE
      BY <2>2, BufferFields, SioAssumption
    <3>3. c = [buffer |-> [b.buffer EXCEPT ![b.last] = ch], last |-> b.last + 1,
               next |-> b.next, count |-> b.count + 1, overrun |-> b.overrun,
               sending |-> b.sending]
      BY <2>1 DEF Buffers
    <3>4. QED
      BY <3>1, <3>2, <3>3, BufferFields DEF Buffers, Char, Line
  <2>5. c.next + c.count = c.last
    BY <2>2, <2>3, BufferFields
  <2>6. Spans(c)
    BY <2>5 DEF Spans
  <2>7. Buffered(c) = Append(Buffered(b), ch)
    <3>1. /\ Buffered(b) \in Seq(Char) /\ Len(Buffered(b)) = b.count
          /\ \A i \in 1 .. b.count : Buffered(b)[i] = b.buffer[b.next + i - 1]
      BY BufferedSeq
    <3>2. /\ Buffered(c) \in Seq(Char) /\ Len(Buffered(c)) = b.count + 1
          /\ \A i \in 1 .. b.count + 1 : Buffered(c)[i] = c.buffer[b.next + i - 1]
      <4> HIDE DEF c
      <4> QED BY BufferedSeq, <2>3, <2>4, <2>6
    <3>3. /\ Append(Buffered(b), ch) \in Seq(Char)
          /\ Len(Append(Buffered(b), ch)) = b.count + 1
          /\ \A i \in 1 .. b.count : Append(Buffered(b), ch)[i] = Buffered(b)[i]
          /\ Append(Buffered(b), ch)[b.count + 1] = ch
      BY <3>1, AppendProperties
    <3> HIDE DEF c
    <3>4. ASSUME NEW i \in 1 .. b.count + 1
          PROVE  Buffered(c)[i] = Append(Buffered(b), ch)[i]
      <4>1. CASE i = b.count + 1
        <5>1. b.next + i - 1 = b.last
          BY <4>1, <2>2, BufferFields
        <5>2. c.buffer[b.last] = ch
          BY <2>3, <1>1, BufferFields
        <5>3. QED
          BY <3>2, <3>3, <4>1, <5>1, <5>2
      <4>2. CASE i # b.count + 1
        <5>1. i \in 1 .. b.count
          BY <4>2, BufferFields
        <5>2. b.next + i - 1 \in Index /\ b.next + i - 1 # b.last
          BY <5>1, <2>2, BufferFields, SioAssumption DEF Index
        <5>3. c.buffer[b.next + i - 1] = b.buffer[b.next + i - 1]
          BY <5>2, <2>3, BufferFields
        <5>4. QED
          BY <5>1, <5>3, <3>1, <3>2, <3>3
      <4>3. QED
        BY <4>1, <4>2
    <3>5. QED
      BY <3>2, <3>3, <3>4, SeqEqual
  <2>8. QED
    BY <2>3, <2>4, <2>5, <2>6, <2>7
<1>2. CASE b.last \notin Index
  <2>1. c = [b EXCEPT !.overrun = TRUE]
    BY <1>2 DEF Store
  <2>2. c \in Buffers /\ c.overrun
    BY <2>1 DEF Buffers
  <2>3. c.next = b.next /\ c.count = b.count /\ c.last = b.last /\ c.sending = b.sending
    BY <2>1 DEF Buffers
  <2>4. Spans(c)
    BY <2>3 DEF Spans
  <2>5. QED
    BY <2>2, <2>3, <2>4
<1>3. QED
  BY <1>1, <1>2

\* The buffer whose first character is taken: that character and the rest.
LEMMA FirstAndRest ==
  ASSUME NEW b \in Buffers, b.next + b.count = b.last, b.count > 0,
         NEW c \in Buffers, Spans(c), c.buffer = b.buffer, c.count = b.count - 1,
         c.count > 0 => c.next = b.next + 1
  PROVE  /\ b.buffer[b.next] \in Char
         /\ Buffered(b) = <<b.buffer[b.next]>> \o Buffered(c)
<1> DEFINE e == b.buffer[b.next]
<1>1. /\ b.next \in Index
      /\ e \in Char
  BY BufferFields, SioAssumption DEF Index
<1>2. Spans(b)
  BY DEF Spans
<1>3. /\ Buffered(b) \in Seq(Char) /\ Len(Buffered(b)) = b.count
      /\ \A i \in 1 .. b.count : Buffered(b)[i] = b.buffer[b.next + i - 1]
  BY <1>2, BufferedSeq
<1>4. /\ Buffered(c) \in Seq(Char) /\ Len(Buffered(c)) = c.count
      /\ \A i \in 1 .. c.count : Buffered(c)[i] = c.buffer[c.next + i - 1]
  BY BufferedSeq
<1>5. <<e>> \in Seq(Char) /\ Len(<<e>>) = 1 /\ <<e>>[1] = e
  BY <1>1
<1> HIDE DEF e
<1>6. /\ <<e>> \o Buffered(c) \in Seq(Char)
      /\ Len(<<e>> \o Buffered(c)) = 1 + c.count
      /\ \A i \in 1 .. 1 + c.count : (<<e>> \o Buffered(c))[i] =
             IF i <= 1 THEN <<e>>[i] ELSE Buffered(c)[i - 1]
  <2>1. /\ <<e>> \o Buffered(c) \in Seq(Char)
        /\ Len(<<e>> \o Buffered(c)) = Len(<<e>>) + Len(Buffered(c))
        /\ \A i \in 1 .. Len(<<e>>) + Len(Buffered(c)) : (<<e>> \o Buffered(c))[i] =
             IF i <= Len(<<e>>) THEN <<e>>[i] ELSE Buffered(c)[i - Len(<<e>>)]
    BY <1>4, <1>5, ConcatProperties
  <2>2. QED
    BY <2>1, <1>4, <1>5
<1>7. ASSUME NEW i \in 1 .. b.count
      PROVE  Buffered(b)[i] = (<<e>> \o Buffered(c))[i]
  <2>1. b.count \in Nat /\ c.count \in Nat /\ b.next \in Nat /\ 1 + c.count = b.count
    BY BufferFields
  <2>2. CASE i = 1
    <3>1. Buffered(b)[i] = e
      <4>1. b.next + i - 1 = b.next
        BY <2>1, <2>2
      <4>2. QED
        BY <1>3, <4>1 DEF e
    <3>2. QED
      BY <3>1, <1>5, <1>6, <2>1, <2>2
  <2>3. CASE i # 1
    <3>1. i - 1 \in 1 .. c.count /\ c.count > 0 /\ i \in Int
      BY <2>1, <2>3
    <3>2. (<<e>> \o Buffered(c))[i] = Buffered(c)[i - 1]
      BY <1>6, <2>1, <3>1
    <3>3. Buffered(c)[i - 1] = b.buffer[c.next + (i - 1) - 1]
      BY <1>4, <3>1
    <3>4. c.next + (i - 1) - 1 = b.next + i - 1
      BY <2>1, <3>1
    <3>5. QED
      BY <1>3, <3>2, <3>3, <3>4
  <2>4. QED
    BY <2>2, <2>3
<1>8. QED
  <2>1. Len(Buffered(b)) = Len(<<e>> \o Buffered(c))
    BY <1>3, <1>6, BufferFields
  <2>2. Buffered(b) = <<e>> \o Buffered(c)
    BY <1>3, <1>6, <1>7, <2>1, SeqEqual
  <2>3. QED
    BY <1>1, <2>2 DEF e

\* The pointers start over, or the first one moves on.
LEMMA ResetFits ==
  ASSUME NEW b \in Buffers
  PROVE  /\ Reset(b) \in Buffers /\ Reset(b).buffer = b.buffer
         /\ Reset(b).count = 0 /\ Reset(b).next = 0 /\ Reset(b).last = 0
         /\ Reset(b).overrun = b.overrun /\ Reset(b).sending = b.sending
<1> DEFINE c == Reset(b)
<1>1. c = [b EXCEPT !.last = 0, !.next = 0, !.count = 0]
  BY DEF Reset
<1> HIDE DEF c
<1>2. /\ c.buffer = b.buffer /\ c.count = 0 /\ c.next = 0 /\ c.last = 0
      /\ c.overrun = b.overrun /\ c.sending = b.sending
  BY <1>1 DEF Buffers
<1>3. c \in Buffers
  <2>1. c = [buffer |-> b.buffer, last |-> 0, next |-> 0, count |-> 0,
             overrun |-> b.overrun, sending |-> b.sending]
    BY <1>1 DEF Buffers
  <2>2. 0 \in 0 .. BUF_SIZE
    BY SioAssumption
  <2>3. QED
    BY <2>1, <2>2 DEF Buffers
<1>4. QED
  BY <1>2, <1>3 DEF c

LEMMA NextFits ==
  ASSUME NEW b \in Buffers, b.next + b.count = b.last, b.count > 0
  PROVE  [b EXCEPT !.next = @ + 1, !.count = @ - 1] \in Buffers
<1> DEFINE c == [b EXCEPT !.next = @ + 1, !.count = @ - 1]
<1>1. b.next + 1 \in 0 .. BUF_SIZE /\ b.count - 1 \in 0 .. BUF_SIZE
  BY BufferFields, SioAssumption
<1>2. c = [b EXCEPT !.next = b.next + 1, !.count = b.count - 1]
  OBVIOUS
<1> HIDE DEF c
<1>3. c = [buffer |-> b.buffer, last |-> b.last, next |-> b.next + 1,
           count |-> b.count - 1, overrun |-> b.overrun, sending |-> b.sending]
  BY <1>2 DEF Buffers
<1>4. c \in Buffers
  BY <1>1, <1>3 DEF Buffers
<1>5. QED
  BY <1>4 DEF c

\* An empty buffer holds nothing.
LEMMA EmptyBuffered == ASSUME NEW b, b.count = 0 PROVE Buffered(b) = <<>>
BY DEF Buffered

-----------------------------------------------------------------------------
(* Sequences *)

LEMMA MapOutLine ==
  ASSUME NEW ch \in Line
  PROVE  /\ MapOut(ch) \in Seq(Line)
         /\ ch = LF => MapOut(ch) = <<CR>> \o <<LF>>
         /\ ch # LF => MapOut(ch) = <<ch>>
         /\ Head(MapOut(ch)) \in Line
         /\ Head(MapOut(ch)) = IF ch = LF THEN CR ELSE ch
<1>1. CR \in Line /\ LF \in Line
  BY DEF Line
<1>2. CASE ch = LF
  <2>1. MapOut(ch) = <<CR, LF>>
    BY <1>2 DEF MapOut
  <2>2. <<CR, LF>> = <<CR>> \o <<LF>>
    <3>1. <<CR>> \in Seq(Line) /\ <<LF>> \in Seq(Line) /\ <<CR, LF>> \in Seq(Line)
      BY <1>1
    <3>2. Len(<<CR>>) = 1 /\ Len(<<LF>>) = 1 /\ Len(<<CR, LF>>) = 2
      OBVIOUS
    <3>3. /\ <<CR>> \o <<LF>> \in Seq(Line) /\ Len(<<CR>> \o <<LF>>) = 2
          /\ (<<CR>> \o <<LF>>)[1] = CR /\ (<<CR>> \o <<LF>>)[2] = LF
      BY <3>1, <3>2, ConcatProperties
    <3>4. \A i \in 1 .. Len(<<CR, LF>>) : <<CR, LF>>[i] = (<<CR>> \o <<LF>>)[i]
      BY <3>2, <3>3
    <3>5. QED
      BY <3>1, <3>2, <3>3, <3>4, SeqEqual
  <2>3. QED
    BY <1>1, <1>2, <2>1, <2>2
<1>3. CASE ch # LF
  BY <1>3 DEF MapOut
<1>4. QED
  BY <1>2, <1>3

LEMMA LineIsNotNone == NONE \notin Line /\ Line \subseteq Char
BY SioAssumption DEF Line, Char

LEMMA InFlightSeq ==
  ASSUME NEW c \in Char PROVE InFlight(c) \in Seq(Line)
BY DEF InFlight, Char

\* What a write leaves in the buffer, when all of it waits there.
LEMMA StoreAllFits ==
  ASSUME NEW b \in Buffers, Spans(b), NEW ch \in Line, Buffered(b) \in Seq(Line)
  PROVE  /\ StoreAll(b, ch) \in Buffers
         /\ StoreAll(b, ch).sending = b.sending
         /\ ~StoreAll(b, ch).overrun =>
              /\ Spans(StoreAll(b, ch))
              /\ Buffered(StoreAll(b, ch)) = Buffered(b) \o MapOut(ch)
<1>1. CR \in Line /\ LF \in Line /\ Line \subseteq Char
  BY DEF Line, Char
<1>2. CASE ch # LF
  <2>1. StoreAll(b, ch) = Store(b, ch)
    BY <1>2 DEF StoreAll
  <2>2. Append(Buffered(b), ch) = Buffered(b) \o <<ch>>
    BY <1>1, AppendIsConcat
  <2>3. MapOut(ch) = <<ch>>
    BY <1>2 DEF MapOut
  <2>4. /\ Store(b, ch) \in Buffers /\ Spans(Store(b, ch)) /\ Store(b, ch).sending = b.sending
        /\ ~Store(b, ch).overrun => Buffered(Store(b, ch)) = Append(Buffered(b), ch)
    <3>1. ch \in Char
      BY <1>1
    <3>2. QED
      BY <3>1, StoreFits
  <2>5. QED
    BY <2>1, <2>2, <2>3, <2>4
<1>3. CASE ch = LF
  <2> DEFINE c == Store(b, CR)
             d == Store(c, LF)
  <2>1. StoreAll(b, ch) = d /\ MapOut(ch) = <<CR>> \o <<LF>>
    BY <1>3, MapOutLine DEF StoreAll
  <2>2. /\ c \in Buffers /\ Spans(c) /\ c.sending = b.sending
        /\ ~c.overrun => Buffered(c) = Append(Buffered(b), CR)
    BY <1>1, StoreFits
  <2> HIDE DEF c
  <2>3. /\ d \in Buffers /\ Spans(d) /\ d.sending = c.sending
        /\ c.overrun => d.overrun
        /\ ~d.overrun => Buffered(d) = Append(Buffered(c), LF)
    BY <1>1, <2>2, StoreFits
  <2> HIDE DEF d
  <2>4. ASSUME ~d.overrun PROVE Buffered(d) = Buffered(b) \o MapOut(ch)
    <3>1. Buffered(c) = Append(Buffered(b), CR) /\ Buffered(d) = Append(Buffered(c), LF)
      BY <2>2, <2>3, <2>4
    <3>2. Append(Buffered(b), CR) = Buffered(b) \o <<CR>>
      BY <1>1, AppendIsConcat
    <3>3. Append(Buffered(b), CR) \in Seq(Line)
      BY <1>1, AppendProperties
    <3>4. Append(Buffered(c), LF) = Buffered(c) \o <<LF>>
      BY <1>1, <3>1, <3>3, AppendIsConcat
    <3>5. <<CR>> \in Seq(Line) /\ <<LF>> \in Seq(Line)
      BY <1>1
    <3>6. (Buffered(b) \o <<CR>>) \o <<LF>> = Buffered(b) \o (<<CR>> \o <<LF>>)
      BY <3>5, ConcatAssociative
    <3>7. QED
      BY <2>1, <3>1, <3>2, <3>4, <3>6
  <2>5. QED
    BY <2>1, <2>2, <2>3, <2>4
<1>4. QED
  BY <1>2, <1>3

\* What a write leaves in the empty buffer, when its first character goes out at once.
LEMMA StoreRestFits ==
  ASSUME NEW b \in Buffers, Spans(b), b.count = 0, NEW ch \in Line
  PROVE  /\ StoreRest(b, ch) \in Buffers
         /\ StoreRest(b, ch).sending = b.sending
         /\ ~StoreRest(b, ch).overrun =>
              /\ Spans(StoreRest(b, ch))
              /\ Buffered(StoreRest(b, ch)) \in Seq(Line)
              /\ MapOut(ch) = <<Head(MapOut(ch))>> \o Buffered(StoreRest(b, ch))
<1>1. CR \in Line /\ LF \in Line /\ Line \subseteq Char
  BY DEF Line, Char
<1>2. Buffered(b) = <<>>
  BY EmptyBuffered
<1>3. CASE ch # LF
  <2>1. StoreRest(b, ch) = b /\ MapOut(ch) = <<ch>> /\ Head(MapOut(ch)) = ch
    BY <1>3, MapOutLine DEF StoreRest
  <2>2. <<ch>> = <<ch>> \o <<>>
    OBVIOUS
  <2>3. QED
    BY <1>2, <2>1, <2>2
<1>4. CASE ch = LF
  <2>1. /\ StoreRest(b, ch) = Store(b, LF)
        /\ MapOut(ch) = <<CR>> \o <<LF>> /\ Head(MapOut(ch)) = CR
    BY <1>4, MapOutLine DEF StoreRest
  <2>2. Append(<<>>, LF) = <<LF>> /\ <<LF>> \in Seq(Line)
    BY <1>1
  <2>3. QED
    BY <1>1, <1>2, <2>1, <2>2, StoreFits
<1>5. QED
  BY <1>3, <1>4

\* The parts of a sequence that goes to the line go there.
LEMMA PartsOfLine ==
  ASSUME NEW e \in Char, NEW s \in Seq(Char), <<e>> \o s \in Seq(Line)
  PROVE  e \in Line /\ s \in Seq(Line)
<1> DEFINE t == <<e>> \o s
<1>1. <<e>> \in Seq(Char) /\ Len(<<e>>) = 1 /\ <<e>>[1] = e
  OBVIOUS
<1>2. Len(s) \in Nat /\ s \in [1 .. Len(s) -> Char]
  BY LenProperties
<1>3. /\ Len(t) = 1 + Len(s) /\ t[1] = e
      /\ \A i \in 1 .. Len(s) : t[i + 1] = s[i]
  <2>1. /\ Len(t) = Len(<<e>>) + Len(s)
        /\ \A i \in 1 .. Len(<<e>>) + Len(s) :
             t[i] = IF i <= Len(<<e>>) THEN <<e>>[i] ELSE s[i - Len(<<e>>)]
    BY <1>1, ConcatProperties
  <2> HIDE DEF t
  <2>2. /\ Len(t) = 1 + Len(s)
        /\ \A i \in 1 .. 1 + Len(s) : t[i] = IF i <= 1 THEN <<e>>[i] ELSE s[i - 1]
    BY <1>1, <2>1
  <2>3. t[1] = e
    BY <1>1, <1>2, <2>2
  <2>4. ASSUME NEW i \in 1 .. Len(s) PROVE t[i + 1] = s[i]
    <3>1. i + 1 \in 1 .. 1 + Len(s) /\ ~(i + 1 <= 1) /\ (i + 1) - 1 = i
      BY <1>2
    <3>2. QED
      BY <2>2, <3>1
  <2>5. QED
    BY <2>2, <2>3, <2>4
<1>4. \A i \in 1 .. Len(t) : t[i] \in Line
  BY ElementOfSeq
<1> HIDE DEF t
<1>5. e \in Line
  BY <1>2, <1>3, <1>4
<1>6. ASSUME NEW i \in 1 .. Len(s) PROVE s[i] \in Line
  <2>1. i + 1 \in 1 .. Len(t)
    BY <1>2, <1>3
  <2>2. QED
    BY <1>3, <1>4, <2>1
<1>7. s \in [1 .. Len(s) -> Line]
  BY <1>2, <1>6
<1>8. QED
  BY <1>2, <1>5, <1>7

\* Four pieces in a row, of which the last two are one.
LEMMA Regroup ==
  ASSUME NEW S, NEW s \in Seq(S), NEW t \in Seq(S), NEW u \in Seq(S), NEW v \in Seq(S)
  PROVE  /\ s \o t \o (u \o v) = (s \o t \o u) \o v
         /\ s \o (t \o u) = s \o t \o u
<1>1. \A x, y, z \in Seq(S) : (x \o y) \o z = x \o (y \o z)
  <2>1. SUFFICES ASSUME NEW x \in Seq(S), NEW y \in Seq(S), NEW z \in Seq(S)
                 PROVE  (x \o y) \o z = x \o (y \o z)
    OBVIOUS
  <2>2. QED
    BY ConcatAssociative, SMTT(60)
<1>2. s \o t \in Seq(S)
  BY ConcatProperties
<1>3. s \o t \o u = s \o (t \o u)
  BY <1>1
<1>4. ((s \o t) \o u) \o v = (s \o t) \o (u \o v)
  BY <1>1, <1>2
<1>5. QED
  BY <1>3, <1>4

-----------------------------------------------------------------------------
(* The steps *)

InputPart  == rx \in Buffers /\ stored \in Seq(Char) /\ taken \in Seq(Char)
OutputPart == /\ tx \in Buffers /\ ier \subseteq {RX, TX} /\ txd \in Char
              /\ written \in Seq(Line) /\ wire \in Seq(Line)
Readers    == current \in Procs /\ reading \in Seq(Procs \ {current}) /\ var \in [Procs -> Char]

\* The invariant falls into what each path of the driver has.
AllParts == /\ InputPart /\ OutputPart /\ Readers
            /\ Intact => InputInv /\ OutputInv

LEMMA Parts == (IInv <=> AllParts) /\ (IInv' <=> AllParts')
BY DEF AllParts, IInv, TypeOK, History, InputPart, OutputPart, Readers, Char, Line

LEMMA InitParts == Init => IInv
<1>1. SUFFICES ASSUME Init PROVE IInv
  OBVIOUS
<1>2. Empty(TRUE) \in Buffers /\ Empty(FALSE) \in Buffers
  BY SioAssumption DEF Empty, Buffers
<1>3. InputPart
  <2>1. rx = Empty(FALSE) /\ stored = <<>> /\ taken = <<>>
    BY <1>1 DEF Init
  <2>2. QED
    BY <1>2, <2>1, EmptySeq DEF InputPart
<1>4. txd \in Line /\ written = <<txd>> /\ wire = <<>> /\ written \in Seq(Line)
  BY <1>1 DEF Init, Line
<1>5. OutputPart
  <2>1. tx = Empty(TRUE) /\ ier = {TX, RX}
    BY <1>1 DEF Init
  <2>2. QED
    BY <1>2, <1>4, <2>1, LineIsNotNone, EmptySeq DEF OutputPart
<1>6. Readers
  <2>1. reading = <<>> /\ var = [p \in Procs |-> NONE]
    BY <1>1 DEF Init
  <2>2. current \in Procs
    BY <1>1, SioAssumption DEF Init
  <2>3. QED
    BY <2>1, <2>2 DEF Readers, Char
<1>7. Buffered(rx) = <<>> /\ Buffered(tx) = <<>>
  BY <1>1 DEF Init, Empty, Buffered
<1>8. InputInv
  <2>1. <<>> \o <<>> = <<>>
    OBVIOUS
  <2>2. QED
    BY <1>1, <1>7, <2>1 DEF Init, InputInv, Empty
<1>9. OutputInv
  <2>1. Spans(tx) /\ tx.sending
    BY <1>1 DEF Init, Empty, Spans
  <2>2. InFlight(txd) = <<txd>>
    BY <1>4, LineIsNotNone DEF InFlight
  <2>3. <<>> \o <<txd>> \o <<>> = <<txd>>
    <3>1. <<>> \o <<txd>> = <<txd>> /\ <<txd>> \o <<>> = <<txd>>
      BY <1>4, ConcatEmptySeq
    <3>2. QED
      BY <3>1
  <2>4. Buffered(tx) \in Seq(Line)
    BY <1>7
  <2>5. QED
    BY <1>4, <1>7, <2>1, <2>2, <2>3, <2>4 DEF OutputInv
<1>10. QED
  BY <1>3, <1>5, <1>6, <1>8, <1>9, Parts DEF AllParts

\* What a step leaves alone stays as it was.
LEMMA InputKept ==
  ASSUME UNCHANGED <<rx, stored, taken>>
  PROVE  (InputPart => InputPart') /\ (InputInv => InputInv')
BY DEF InputPart, InputInv, Buffered

LEMMA OutputKept ==
  ASSUME UNCHANGED output
  PROVE  (OutputPart => OutputPart') /\ (OutputInv => OutputInv') /\ tx' = tx
BY DEF output, OutputPart, OutputInv, Buffered, Spans, InFlight

LEMMA ReadersKept ==
  ASSUME UNCHANGED <<reading, var, current>> PROVE Readers => Readers'
BY DEF Readers

\* Who waits is not who is chosen to run.
LEMMA WaitersDoNotRun ==
  ASSUME NEW q \in Seq(Procs), NEW p, p \notin ToSet(q)
  PROVE  q \in Seq(Procs \ {p})
<1>1. \A i \in 1 .. Len(q) : q[i] \in Procs \ {p}
  BY ElementOfSeq DEF ToSet
<1>2. Len(q) \in Nat /\ q \in [1 .. Len(q) -> Procs]
  BY LenProperties
<1>3. q \in [1 .. Len(q) -> Procs \ {p}]
  BY <1>1, <1>2
<1>4. QED
  BY <1>2, <1>3

LEMMA ScheduleInv == IInv /\ Schedule => IInv'
<1>1. SUFFICES ASSUME IInv, Schedule PROVE IInv'
  OBVIOUS
<1>2. UNCHANGED <<rx, stored, taken, reading, var>> /\ UNCHANGED output /\ Intact
  BY <1>1 DEF Schedule, input
<1>3. Readers'
  <2>1. reading \in Seq(Procs)
    BY <1>1, Parts, SeqMonotonic DEF AllParts, Readers
  <2>2. current' \in Procs /\ current' \notin ToSet(reading)
    BY <1>1 DEF Schedule
  <2>3. reading \in Seq(Procs \ {current'})
    BY <2>1, <2>2, WaitersDoNotRun
  <2>4. QED
    BY <1>1, <1>2, <2>2, <2>3, Parts DEF AllParts, Readers
<1>4. QED
  BY <1>1, <1>2, <1>3, Parts, InputKept, OutputKept DEF AllParts

LEMMA ReadInv == IInv /\ sys_read => IInv'
<1>1. SUFFICES ASSUME IInv, sys_read PROVE IInv'
  OBVIOUS
<1>2. /\ UNCHANGED output /\ UNCHANGED stored
      /\ InputPart /\ OutputPart /\ Readers /\ InputInv /\ OutputInv
      /\ ~rx.overrun /\ ~tx.overrun
  BY <1>1, Parts DEF AllParts, sys_read, Intact
<1>3. OutputPart' /\ OutputInv'
  BY <1>2, OutputKept
<1>4. CASE rx.count > 0
  <2> DEFINE e == rx.buffer[rx.next]
             left == [rx EXCEPT !.next = @ + 1, !.count = @ - 1]
  <2>1. /\ rx' = Taken /\ var' = [var EXCEPT ![current] = e]
        /\ taken' = Append(taken, e)
        /\ UNCHANGED <<reading, current>>
    BY <1>1, <1>4 DEF sys_read
  <2>2. rx \in Buffers /\ rx.next + rx.count = rx.last
    BY <1>2 DEF InputPart, InputInv
  <2>3. /\ Taken = IF left.count < 1 THEN Reset(left) ELSE left
        /\ left.buffer = rx.buffer /\ left.next = rx.next + 1 /\ left.count = rx.count - 1
        /\ left.last = rx.last /\ left.overrun = rx.overrun /\ left.sending = rx.sending
    BY <2>2 DEF Taken, Buffers
  <2>4. left \in Buffers
    BY <1>4, <2>2, NextFits
  <2> HIDE DEF left
  <2>5. /\ Taken \in Buffers /\ Taken.buffer = rx.buffer /\ Taken.count = rx.count - 1
        /\ Taken.count > 0 => Taken.next = rx.next + 1
        /\ Taken.next + Taken.count = Taken.last
        /\ Taken.overrun = rx.overrun
    <3>1. CASE left.count < 1
      <4>1. Taken = Reset(left) /\ left.count = 0
        BY <1>4, <2>2, <2>3, <3>1, BufferFields
      <4>2. /\ Reset(left) \in Buffers /\ Reset(left).buffer = left.buffer
            /\ Reset(left).count = 0 /\ Reset(left).next = 0 /\ Reset(left).last = 0
            /\ Reset(left).overrun = left.overrun
        BY <2>4, ResetFits
      <4>3. QED
        BY <2>3, <4>1, <4>2
    <3>2. CASE ~(left.count < 1)
      BY <2>2, <2>3, <2>4, <3>2, BufferFields
    <3>3. QED
      BY <3>1, <3>2
  <2>6. Spans(Taken)
    BY <2>5 DEF Spans
  <2>7. e \in Char /\ Buffered(rx) = <<e>> \o Buffered(Taken)
    BY <1>4, <2>2, <2>5, <2>6, FirstAndRest
  <2> HIDE DEF e
  <2>8. taken' \o Buffered(Taken) = stored
    <3>1. Buffered(Taken) \in Seq(Char) /\ <<e>> \in Seq(Char) /\ taken \in Seq(Char)
      BY <1>2, <2>5, <2>6, <2>7, BufferedSeq DEF InputPart
    <3>2. taken' = taken \o <<e>>
      BY <2>1, <2>7, <3>1, AppendIsConcat
    <3>3. taken \o (<<e>> \o Buffered(Taken)) = (taken \o <<e>>) \o Buffered(Taken)
      BY <3>1, Regroup
    <3>4. QED
      BY <1>2, <2>7, <3>2, <3>3 DEF InputInv
  <2>9. InputPart' /\ InputInv'
    <3>1. taken' \in Seq(Char)
      BY <1>2, <2>1, <2>7, AppendProperties DEF InputPart
    <3>2. InputPart'
      BY <1>2, <2>1, <2>5, <3>1 DEF InputPart
    <3>3. Buffered(rx') = Buffered(Taken)
      BY <2>1
    <3>4. InputInv'
      BY <1>2, <2>1, <2>5, <2>8, <3>3 DEF InputInv, Buffered
    <3>5. QED
      BY <3>2, <3>4
  <2>10. Readers'
    BY <1>2, <2>1, <2>7 DEF Readers
  <2>11. QED
    BY <1>3, <2>9, <2>10, Parts DEF AllParts
<1>5. CASE ~(rx.count > 0)
  <2>1. /\ reading' = Append(reading, current) /\ var' = [var EXCEPT ![current] = NONE]
        /\ current' \in Procs \ ToSet(reading') /\ UNCHANGED <<rx, taken>>
    BY <1>1, <1>5 DEF sys_read
  <2>2. InputPart' /\ InputInv'
    BY <1>2, <2>1, InputKept
  <2>3. reading' \in Seq(Procs)
    <3>1. current \in Procs
      BY <1>2 DEF Readers
    <3>2. QED
      BY <1>2, <2>1, <3>1, SeqMonotonic, AppendProperties DEF Readers
  <2>4. reading' \in Seq(Procs \ {current'})
    BY <2>1, <2>3, WaitersDoNotRun
  <2>5. Readers'
    BY <1>2, <2>1, <2>4 DEF Readers, Char
  <2>6. QED
    BY <1>3, <2>2, <2>5, Parts DEF AllParts
<1>6. QED
  BY <1>4, <1>5

LEMMA ReceiveInv == ASSUME NEW ch \in Chars \cup {CR} PROVE IInv /\ isr_rx(ch) => IInv'
<1> DEFINE e == MapIn(ch)
<1>1. SUFFICES ASSUME IInv, isr_rx(ch) PROVE IInv'
  OBVIOUS
<1>2. /\ UNCHANGED output /\ UNCHANGED <<current, taken>>
      /\ InputPart /\ OutputPart /\ Readers /\ InputInv /\ OutputInv
      /\ ~rx.overrun /\ ~tx.overrun
  BY <1>1, Parts DEF AllParts, isr_rx, Intact
<1>3. OutputPart' /\ OutputInv'
  BY <1>2, OutputKept
<1>4. e \in Char
  BY DEF MapIn, Char, Line
<1>5. CASE reading # <<>>
  <2>1. /\ reading' = Tail(reading) /\ UNCHANGED <<rx, stored>>
        /\ var' = [var EXCEPT ![current] = e] \/ var' = var
    BY <1>1, <1>5 DEF isr_rx
  <2>2. InputPart' /\ InputInv'
    BY <1>2, <2>1, InputKept
  <2>3. reading' \in Seq(Procs \ {current})
    BY <1>2, <1>5, <2>1, HeadTailProperties DEF Readers
  <2> HIDE DEF e
  <2>4. var' \in [Procs -> Char]
    BY <1>2, <1>4, <2>1 DEF Readers
  <2>5. Readers'
    BY <1>2, <2>3, <2>4 DEF Readers
  <2>6. QED
    BY <1>3, <2>2, <2>5, Parts DEF AllParts
<1>6. CASE reading = <<>>
  <2>1. rx' = Store(rx, e) /\ stored' = Append(stored, e) /\ UNCHANGED <<reading, var>>
    BY <1>1, <1>6 DEF isr_rx
  <2>2. Readers'
    BY <1>2, <2>1, ReadersKept
  <2>3. rx \in Buffers /\ Spans(rx)
    BY <1>2 DEF InputPart, InputInv, Spans
  <2> HIDE DEF e
  <2>4. InputPart'
    BY <1>2, <1>4, <2>1, <2>3, StoreFits, AppendProperties DEF InputPart
  <2>5. ASSUME ~rx'.overrun PROVE InputInv'
    <3>1. /\ rx'.next + rx'.count = rx'.last
          /\ Buffered(rx') = Append(Buffered(rx), e)
      BY <1>4, <2>1, <2>3, <2>5, StoreFits
    <3>2. Buffered(rx) \in Seq(Char) /\ <<e>> \in Seq(Char) /\ <<>> \in Seq(Char)
          /\ taken \in Seq(Char) /\ stored \in Seq(Char)
      BY <1>2, <1>4, <2>3, BufferedSeq, EmptySeq DEF InputPart
    <3>3. Buffered(rx') = Buffered(rx) \o <<e>> /\ stored' = stored \o <<e>>
      BY <1>4, <2>1, <3>1, <3>2, AppendIsConcat
    <3>4. taken \o Buffered(rx) \o <<e>> = taken \o (Buffered(rx) \o <<e>>)
      BY <3>2, Regroup
    <3>5. taken' \o Buffered(rx') = stored'
      BY <1>2, <3>3, <3>4 DEF InputInv
    <3>6. QED
      BY <3>1, <3>5 DEF InputInv, Buffered
  <2>6. QED
    BY <1>3, <2>2, <2>4, <2>5, Parts DEF AllParts, Intact
<1>7. QED
  BY <1>5, <1>6

LEMMA WriteInv == ASSUME NEW ch \in Chars \cup {CR, LF} PROVE IInv /\ sys_write(ch) => IInv'
<1>1. SUFFICES ASSUME IInv, sys_write(ch) PROVE IInv'
  OBVIOUS
<1>2. /\ UNCHANGED input /\ UNCHANGED <<current, wire>>
      /\ written' = written \o MapOut(ch)
      /\ InputPart /\ OutputPart /\ Readers /\ InputInv /\ OutputInv
      /\ ~rx.overrun /\ ~tx.overrun
  BY <1>1, Parts DEF AllParts, sys_write, Intact
<1>3. InputPart' /\ InputInv' /\ Readers'
  BY <1>2, InputKept, ReadersKept DEF input
<1>4. ch \in Line /\ MapOut(ch) \in Seq(Line) /\ Head(MapOut(ch)) \in Line
  BY MapOutLine DEF Line
<1>5. written' \in Seq(Line)
  BY <1>2, <1>4, ConcatProperties DEF OutputPart
<1>6. /\ tx \in Buffers /\ Spans(tx) /\ Buffered(tx) \in Seq(Line)
      /\ wire \in Seq(Line) /\ InFlight(txd) \in Seq(Line)
      /\ wire \o InFlight(txd) \o Buffered(tx) = written
  BY <1>2, InFlightSeq DEF OutputPart, OutputInv
<1>7. CASE tx.sending
  <2>1. tx' = StoreAll(tx, ch) /\ UNCHANGED <<txd, ier>>
    BY <1>1, <1>7 DEF sys_write
  <2>2. /\ tx' \in Buffers /\ tx'.sending
        /\ ~tx'.overrun => Spans(tx') /\ Buffered(tx') = Buffered(tx) \o MapOut(ch)
    BY <1>4, <1>6, <1>7, <2>1, StoreAllFits
  <2>3. OutputPart'
    BY <1>2, <1>5, <2>1, <2>2 DEF OutputPart
  <2>4. ASSUME ~tx'.overrun PROVE OutputInv'
    <3>1. Spans(tx') /\ Buffered(tx') = Buffered(tx) \o MapOut(ch)
      BY <2>2, <2>4
    <3>2. Buffered(tx') \in Seq(Line)
      BY <1>4, <1>6, <3>1, ConcatProperties
    <3>3. wire \o InFlight(txd) \o (Buffered(tx) \o MapOut(ch))
            = (wire \o InFlight(txd) \o Buffered(tx)) \o MapOut(ch)
      <4> DEFINE f == InFlight(txd)
                 q == Buffered(tx)
                 m == MapOut(ch)
      <4>1. wire \in Seq(Line) /\ f \in Seq(Line) /\ q \in Seq(Line) /\ m \in Seq(Line)
        BY <1>4, <1>6
      <4> HIDE DEF f, q, m
      <4>2. wire \o f \o (q \o m) = (wire \o f \o q) \o m
        BY <4>1, Regroup, SMTT(60)
      <4>3. QED
        BY <4>2 DEF f, q, m
    <3>4. wire' \o InFlight(txd') \o Buffered(tx') = written'
      BY <1>2, <1>6, <2>1, <3>1, <3>3
    <3>5. QED
      BY <2>2, <3>1, <3>2, <3>4 DEF OutputInv, Spans, Buffered, InFlight
  <2>5. QED
    BY <1>3, <2>3, <2>4, Parts DEF AllParts, Intact
<1>8. CASE ~tx.sending
  <2> DEFINE b == [tx EXCEPT !.sending = TRUE]
             h == Head(MapOut(ch))
  <2>1. tx' = StoreRest(b, ch) /\ txd' = h /\ ier' = ier \cup {TX}
    BY <1>1, <1>8 DEF sys_write
  <2>2. /\ b \in Buffers /\ b.sending /\ b.count = tx.count
        /\ b.next = tx.next /\ b.last = tx.last
    BY <1>6 DEF Buffers
  <2>3. tx.count = 0 /\ txd = NONE
    BY <1>2, <1>8 DEF OutputInv
  <2>4. Spans(b) /\ b.count = 0
    BY <1>6, <2>2, <2>3 DEF Spans
  <2> HIDE DEF b, h
  <2>5. /\ tx' \in Buffers /\ tx'.sending
        /\ ~tx'.overrun => /\ Spans(tx') /\ Buffered(tx') \in Seq(Line)
                           /\ MapOut(ch) = <<h>> \o Buffered(tx')
    BY <1>4, <2>1, <2>2, <2>4, StoreRestFits DEF h
  <2>6. h \in Line /\ h \in Char /\ h # NONE
    BY <1>4, LineIsNotNone DEF h
  <2>7. OutputPart'
    BY <1>2, <1>5, <2>1, <2>5, <2>6 DEF OutputPart
  <2>8. ASSUME ~tx'.overrun PROVE OutputInv'
    <3>1. InFlight(txd) = <<>> /\ Buffered(tx) = <<>> /\ InFlight(txd') = <<h>>
      BY <2>1, <2>3, <2>6, EmptyBuffered DEF InFlight
    <3>2. written = wire
      <4>1. wire \o <<>> = wire
        BY <1>6, ConcatEmptySeq
      <4>2. QED
        BY <1>6, <3>1, <4>1
    <3>3. <<h>> \in Seq(Line) /\ Buffered(tx') \in Seq(Line)
          /\ MapOut(ch) = <<h>> \o Buffered(tx')
      BY <2>5, <2>6, <2>8
    <3>4. wire \o (<<h>> \o Buffered(tx')) = wire \o <<h>> \o Buffered(tx')
      BY <1>6, <3>3, Regroup
    <3>5. wire' \o InFlight(txd') \o Buffered(tx') = written'
      BY <1>2, <3>1, <3>2, <3>3, <3>4
    <3>6. QED
      BY <2>5, <2>8, <3>3, <3>5 DEF OutputInv, Spans, Buffered, InFlight
  <2>9. QED
    BY <1>3, <2>7, <2>8, Parts DEF AllParts, Intact
<1>9. QED
  BY <1>7, <1>8

LEMMA TransmitInv == IInv /\ Transmit => IInv'
<1>1. SUFFICES ASSUME IInv, Transmit PROVE IInv'
  OBVIOUS
<1>2. /\ UNCHANGED input /\ UNCHANGED <<current, tx, ier, written>>
      /\ txd # NONE /\ wire' = Append(wire, txd) /\ txd' = NONE
      /\ InputPart /\ OutputPart /\ Readers /\ InputInv /\ OutputInv
  BY <1>1, Parts DEF AllParts, Transmit
<1>3. InputPart' /\ InputInv' /\ Readers'
  BY <1>2, InputKept, ReadersKept DEF input
<1>4. txd \in Line /\ wire \in Seq(Line)
  BY <1>2 DEF OutputPart, Char
<1>5. wire' = wire \o <<txd>> /\ wire' \in Seq(Line)
  BY <1>2, <1>4, AppendIsConcat, AppendProperties
<1>6. OutputPart'
  BY <1>2, <1>5 DEF OutputPart, Char
<1>7. wire' \o InFlight(txd') = wire \o InFlight(txd)
  <2>1. wire' \o <<>> = wire'
    BY <1>5, ConcatEmptySeq
  <2>2. QED
    BY <1>2, <1>5, <2>1 DEF InFlight
<1>8. OutputInv'
  <2>1. wire' \o InFlight(txd') \o Buffered(tx') = written'
    BY <1>2, <1>7 DEF OutputInv
  <2>2. QED
    BY <1>2, <2>1 DEF OutputInv, Spans, Buffered, InFlight
<1>9. QED
  BY <1>3, <1>6, <1>8, Parts DEF AllParts

LEMMA SendInv == IInv /\ isr_tx => IInv'
<1>1. SUFFICES ASSUME IInv, isr_tx PROVE IInv'
  OBVIOUS
<1>2. /\ UNCHANGED input /\ UNCHANGED <<current, wire, written>> /\ txd = NONE
      /\ InputPart /\ OutputPart /\ Readers /\ InputInv /\ OutputInv
  BY <1>1, Parts DEF AllParts, isr_tx
<1>3. InputPart' /\ InputInv' /\ Readers'
  BY <1>2, InputKept, ReadersKept DEF input
<1>4. /\ tx \in Buffers /\ Spans(tx) /\ Buffered(tx) \in Seq(Line)
      /\ wire \in Seq(Line) /\ InFlight(txd) = <<>>
      /\ wire \o Buffered(tx) = written
  <2>1. wire \in Seq(Line) /\ wire \o InFlight(txd) \o Buffered(tx) = written
    BY <1>2 DEF OutputPart, OutputInv
  <2>2. wire \o <<>> = wire
    BY <2>1, ConcatEmptySeq
  <2>3. QED
    BY <1>2, <2>1, <2>2 DEF OutputPart, OutputInv, InFlight
<1>5. CASE tx.sending /\ tx.count > 0
  <2> DEFINE e == tx.buffer[tx.next]
             c == [tx EXCEPT !.next = (tx.next + 1) % BUF_SIZE, !.count = tx.count - 1]
  <2>1. txd' = e /\ tx' = c /\ UNCHANGED ier
    BY <1>1, <1>5 DEF isr_tx
  <2>2. /\ tx.next + tx.count = tx.last /\ tx.next \in 0 .. BUF_SIZE-1
        /\ tx.last \in 0 .. BUF_SIZE /\ tx.count \in Nat
    BY <1>4, <1>5, BufferFields, SioAssumption DEF Spans
  <2>3. /\ (tx.next + 1) % BUF_SIZE \in 0 .. BUF_SIZE
        /\ tx.count - 1 \in 0 .. BUF_SIZE
        /\ tx.count > 1 => (tx.next + 1) % BUF_SIZE = tx.next + 1
        /\ tx.count = 1 => (tx.next + 1) % BUF_SIZE = tx.next + 1 \/ tx.last = BUF_SIZE
    BY <1>5, <2>2, SioAssumption
  <2>4. /\ c.buffer = tx.buffer /\ c.last = tx.last /\ c.count = tx.count - 1
        /\ c.next = (tx.next + 1) % BUF_SIZE /\ c.sending = tx.sending
    BY <1>4 DEF Buffers
  <2>. c = [tx EXCEPT !.next = (tx.next + 1) % BUF_SIZE, !.count = tx.count - 1]
    OBVIOUS
  <2> HIDE DEF c
  <2>5. c = [buffer |-> tx.buffer, last |-> tx.last, next |-> (tx.next + 1) % BUF_SIZE,
             count |-> tx.count - 1, overrun |-> tx.overrun, sending |-> tx.sending]
    BY <1>4 DEF Buffers
  <2>6. c \in Buffers
    BY <1>4, <2>3, <2>5 DEF Buffers
  <2>7. Spans(c)
    BY <1>5, <2>2, <2>3, <2>4 DEF Spans
  <2>8. c.count > 0 => c.next = tx.next + 1
    BY <2>2, <2>3, <2>4
  <2>9. e \in Char /\ Buffered(tx) = <<e>> \o Buffered(c)
    BY <1>4, <1>5, <2>2, <2>4, <2>6, <2>7, <2>8, FirstAndRest
  <2> HIDE DEF e
  <2>10. Buffered(c) \in Seq(Char) /\ <<e>> \in Seq(Char)
    BY <2>6, <2>7, <2>9, BufferedSeq
  <2>11. e \in Line /\ Buffered(c) \in Seq(Line)
    BY <1>4, <2>9, <2>10, PartsOfLine
  <2>12. OutputPart'
    BY <1>2, <2>1, <2>6, <2>9 DEF OutputPart
  <2>13. InFlight(txd') = <<e>>
    BY <2>1, <2>11, LineIsNotNone DEF InFlight
  <2>14. wire' \o InFlight(txd') \o Buffered(c) = written'
    <3>1. wire \o (<<e>> \o Buffered(c)) = wire \o <<e>> \o Buffered(c)
      BY <1>4, <2>11, Regroup
    <3>2. QED
      BY <1>2, <1>4, <2>9, <2>13, <3>1
  <2>15. OutputInv'
    <3>1. /\ Spans(tx') /\ tx'.sending /\ Buffered(tx') \in Seq(Line)
          /\ wire' \o InFlight(txd') \o Buffered(tx') = written'
      BY <1>5, <2>1, <2>4, <2>7, <2>11, <2>14
    <3>2. QED
      BY <3>1 DEF OutputInv, Spans, Buffered, InFlight
  <2>16. QED
    BY <1>3, <2>12, <2>15, Parts DEF AllParts
<1>6. CASE ~(tx.sending /\ tx.count > 0)
  <2> DEFINE b == Reset(tx)
             c == [b EXCEPT !.sending = FALSE]
  <2>1. tx' = c /\ ier' = ier \ {TX} /\ UNCHANGED txd
    BY <1>1, <1>6 DEF isr_tx
  <2>2. tx.count = 0 /\ Buffered(tx) = <<>>
    <3>1. tx.count = 0
      BY <1>2, <1>4, <1>6, BufferFields DEF OutputInv
    <3>2. QED
      BY <3>1, EmptyBuffered
  <2>3. b \in Buffers /\ b.count = 0 /\ b.next = 0 /\ b.last = 0
    BY <1>4, ResetFits
  <2> HIDE DEF b
  <2>4. c \in Buffers /\ c.count = 0 /\ c.next = 0 /\ c.last = 0 /\ ~c.sending
    BY <2>3 DEF Buffers
  <2> HIDE DEF c
  <2>5. Spans(c) /\ Buffered(c) = <<>>
    BY <2>4, EmptyBuffered DEF Spans
  <2>6. OutputPart'
    BY <1>2, <2>1, <2>4 DEF OutputPart
  <2>7. wire' \o InFlight(txd') \o Buffered(c) = written'
    <3>1. wire \o <<>> = wire
      BY <1>4, ConcatEmptySeq
    <3>2. QED
      BY <1>2, <1>4, <2>1, <2>2, <2>5, <3>1
  <2>8. OutputInv'
    BY <1>2, <2>1, <2>2, <2>4, <2>5, <1>4, <2>7 DEF OutputInv, Spans, Buffered, InFlight
  <2>9. QED
    BY <1>3, <2>6, <2>8, Parts DEF AllParts
<1>7. QED
  BY <1>5, <1>6

LEMMA NextInv == IInv /\ [Next]_vars => IInv'
<1>1. SUFFICES ASSUME IInv, [Next]_vars PROVE IInv'
  OBVIOUS
<1>2. ASSUME UNCHANGED vars PROVE IInv'
  <2>1. UNCHANGED input /\ UNCHANGED output /\ UNCHANGED current
    BY <1>2 DEF vars
  <2>2. UNCHANGED <<rx, stored, taken>> /\ UNCHANGED <<reading, var, current>>
    BY <2>1 DEF input
  <2>3. Intact' => Intact
    BY <2>1, <2>2, OutputKept DEF Intact
  <2>4. QED
    BY <1>1, <2>1, <2>2, <2>3, InputKept, OutputKept, ReadersKept, Parts DEF AllParts
<1>3. CASE Damaged
  BY <1>2, <1>3 DEF Damaged
<1>4. QED
  BY <1>1, <1>2, <1>3, ScheduleInv, ReadInv, ReceiveInv, WriteInv, TransmitInv, SendInv
     DEF Next

-----------------------------------------------------------------------------
\* The inductive invariant of the two paths holds in every reachable state.
THEOREM Invariance == Spec => []IInv
<1>1. QED
  BY InitParts, NextInv, PTL DEF Spec

\* Reads take the characters of the serial line in the order in which they came, none
\* lost or read twice (_sio_readc, _isr_sio), for a buffer of any size and any input.
THEOREM InputKeepsItsOrder == Spec => []InputInOrder
<1>1. IInv => InputInOrder
  BY DEF IInv, InputInv, InputInOrder
<1>2. QED
  BY <1>1, Invariance, PTL

\* What is written leaves on the line in the order of the writes (_sio_writec and the
\* transmitter interrupt), whether it went through the buffer or not.
THEOREM OutputKeepsItsOrder == Spec => []OutputInOrder
<1>1. IInv => OutputInOrder
  BY DEF IInv, OutputInv, OutputInOrder, InFlight
<1>2. QED
  BY <1>1, Invariance, PTL

===============================================================================
