----------------------------- MODULE DerpFsProofs ------------------------------
(***************************************************************************)
(* Theorems about DerpFs, for partitions of any geometry and any number of *)
(* files and open FILEs: no sector is lost or shared, buffers stay in      *)
(* place, and the calls do what FileStore promises.                        *)
(*                                                                         *)
(* The invariant, Sound, relates three things: the disk, the table of      *)
(* FILEs and, for each slot, the sequence of the sectors of its file.  The *)
(* loops of fs.c and ufs.c are recursive functions: a lemma says that the  *)
(* function exists, one says what a round keeps, and one follows it along. *)
(***************************************************************************)
EXTENDS DerpFs, FiniteSetTheorems, SequenceTheorems, WellFoundedInduction, TLAPS

-----------------------------------------------------------------------------
(* What is kept, of a disk d and a table T of FILEs; L is the sectors of   *)
(* each slot's file, in their order.                                       *)

\* the sectors of files
Usable == (1 .. Size-1) \ Metadata

\* the sector at place k of a file with sectors l, and what follows the last
At(l, k) == IF k \in 1 .. Len(l) THEN l[k] ELSE EOC

Holds(l, s) == \E k \in 1 .. Len(l) : l[k] = s

\* The three tables list the same files, and each sector is in one place of one.
Listed(d, L) ==
  /\ L \in [Slot -> Seq(Usable)]
  /\ \A i \in Slot : d.fp[i] = At(L[i], 1)
  /\ \A i \in Slot : d.name[i] # BLANK <=> Len(L[i]) > 0
  /\ \A i, j \in Slot : d.name[i] = d.name[j] /\ d.name[i] # BLANK => i = j
  /\ \A i, j \in Slot : \A k \in 1 .. Len(L[i]), m \in 1 .. Len(L[j]) :
       L[i][k] = L[j][m] => i = j /\ k = m
  /\ \A s \in 1 .. Size-1 : s \in d.used <=> s \in Metadata \/ \E i \in Slot : Holds(L[i], s)

\* What x, on the disk or in a buffer, is at place k of a file: only the last sector
\* is not full.
Fits(x, l, k) ==
  /\ x \in FileSector
  /\ x.next = At(l, k+1)
  /\ x.count <= DataLength
  /\ k < Len(l) => x.count = DataLength

\* A sector was linked to a file for a byte to go on in.
Begun(x, k) == k > 1 => x.count > 0

\* FILE f has place k of the file in its buffer.
Buffers(f, i, k) == f.open /\ SlotOf(f) = i /\ f.bufindex + 1 = k

\* an open FILE
InPlace(f, l) ==
  LET k == f.bufindex + 1 IN
  /\ k \in 1 .. Len(l)
  /\ f.bufsect = l[k]
  /\ Fits(f.buffer, l, k)
  /\ Begun(f.buffer, k)
  /\ f.offset - f.bufindex * DataLength \in 0 .. f.buffer.count

Sound(d, T, L) ==
  /\ d \in Disk
  /\ T \in [Handle -> FILE]
  /\ Listed(d, L)
  /\ \A i \in Slot : \A k \in 1 .. Len(L[i]) :
       /\ Fits(d.sector[L[i][k]], L[i], k)
       /\ Begun(d.sector[L[i][k]], k) \/ \E h \in Handle : Buffers(T[h], i, k)
  /\ \A h \in Handle : T[h].open => SlotOf(T[h]) \in Slot /\ InPlace(T[h], L[SlotOf(T[h])])
  /\ \A g, h \in Handle : T[g].open /\ T[h].open /\ SlotOf(T[g]) = SlotOf(T[h]) => g = h

Lists(d) == [i \in Slot |-> Chain(d, d.fp[i])]

IInv == Survived => Sound(disk, file_pointers, Lists(disk))

-----------------------------------------------------------------------------
(* Numbers *)

\* The constants of the partition, and the numbers of its sectors and slots.
LEMMA Geometry ==
  /\ PerBlock \in Nat /\ PerBlock > 3 /\ Blocks \in Nat /\ Blocks > 0
  /\ Size \in Nat /\ Size > 1 /\ Size - 1 = Blocks * PerBlock
  /\ DataLength \in Nat /\ DataLength > 0
  /\ Sector = 0 .. Size-1 /\ Usable \subseteq 1 .. Size-1 /\ Usable \subseteq Sector
  /\ EOC \in Sector /\ EOC \notin Usable
  /\ Slot = 0 .. Size-2 /\ Slot \subseteq Nat /\ NONE \notin Slot
<1>1. /\ PerBlock \in Nat /\ PerBlock > 3 /\ Blocks \in Nat /\ Blocks > 0
      /\ DataLength \in Nat /\ DataLength > 0
  BY DiskAssumption
<1>2. Blocks * PerBlock \in Nat /\ Blocks * PerBlock > 0
  BY <1>1
<1> DEFINE z == Blocks * PerBlock
<1>3. Size = z + 1 /\ Slot = 0 .. z-1 /\ z \in Nat /\ z > 0
  BY <1>2 DEF Size, Slot
<1> HIDE DEF z
<1>4. Size \in Nat /\ Size > 1 /\ Size - 1 = z /\ Slot = 0 .. Size-2 /\ Slot \subseteq Nat
      /\ NONE \notin Slot
  BY <1>3 DEF NONE
<1>5. /\ Sector = 0 .. Size-1 /\ Usable \subseteq 1 .. Size-1 /\ Usable \subseteq Sector
      /\ EOC \in Sector /\ EOC \notin Usable
  BY <1>4 DEF Sector, Usable, EOC
<1>6. QED
  BY <1>1, <1>4, <1>5 DEF z

\* A number is so many times another and a rest.
LEMMA DivMod ==
  ASSUME NEW a \in Nat, NEW b \in Nat \ {0}
  PROVE  /\ a \div b \in Nat /\ a % b \in 0 .. b-1
         /\ a = (a \div b) * b + (a % b)
OBVIOUS

\* A number of sectors and a rest less than a sector are quotient and remainder.
LEMMA DivModIs ==
  ASSUME NEW b \in Nat \ {0}, NEW q \in Nat, NEW r \in 0 .. b-1
  PROVE  /\ q*b + r \in Nat
         /\ (q*b + r) \div b = q /\ (q*b + r) % b = r
<1> DEFINE a == q*b + r
<1>1. a \in Nat
  OBVIOUS
<1>2. a \div b = q
  <2>1. a \div b \in Nat /\ a % b \in 0 .. b-1 /\ a = (a \div b) * b + (a % b)
    BY <1>1
  <2> DEFINE p == a \div b
             s == a % b
  <2>2. p \in Nat /\ s \in 0 .. b-1 /\ q*b + r = p*b + s
    BY <2>1
  <2> HIDE DEF p, s
  <2>3. CASE p < q
    <3>1. q - p - 1 \in Nat
      BY <2>2, <2>3
    <3>2. q*b = p*b + b + (q-p-1)*b
      BY <2>2, <3>1
    <3>3. (q-p-1)*b \in Nat /\ p*b \in Nat
      BY <2>2, <3>1
    <3>4. QED
      BY <2>2, <3>2, <3>3
  <2>4. CASE q < p
    <3>1. p - q - 1 \in Nat
      BY <2>2, <2>4
    <3>2. p*b = q*b + b + (p-q-1)*b
      BY <2>2, <3>1
    <3>3. (p-q-1)*b \in Nat /\ q*b \in Nat
      BY <2>2, <3>1
    <3>4. QED
      BY <2>2, <3>2, <3>3
  <2>5. p = q
    BY <2>2, <2>3, <2>4
  <2>6. QED
    BY <2>5 DEF p
<1>3. a % b = r
  <2>1. a % b \in 0 .. b-1 /\ a = (a \div b) * b + (a % b)
    BY <1>1
  <2>2. a = q*b + (a % b) /\ q*b \in Nat
    BY <1>2, <2>1
  <2> DEFINE s == a % b
             m == q*b
  <2>3. m + r = m + s /\ m \in Nat /\ s \in Int
    BY <2>1, <2>2
  <2> HIDE DEF s, m
  <2>4. s = r
    BY <2>3
  <2>5. QED
    BY <2>4 DEF s
<1>4. QED
  BY <1>1, <1>2, <1>3

\* The slot that a FILE is given is the slot it is about.
LEMMA SlotOfIs ==
  ASSUME NEW f, NEW i \in Slot, f.ibindex = i % PerBlock,
         \/ f.ib = (i \div PerBlock) * PerBlock + 1
         \/ (f.ib = i \div PerBlock + 1 /\ i < PerBlock)
  PROVE  SlotOf(f) = i
<1> DEFINE b == PerBlock
           q == i \div b
           r == i % b
<1>1. b \in Nat \ {0} /\ i \in Nat
  BY Geometry
<1>2. q \in Nat /\ r \in 0 .. b-1 /\ i = q*b + r
  BY <1>1, DivMod
<1>3. f.ibindex = r /\ (f.ib = q*b + 1 \/ (f.ib = q + 1 /\ i < b))
  OBVIOUS
<1>4. SlotOf(f) = ((f.ib - 1) \div b) * b + f.ibindex
  BY DEF SlotOf, BlockOf
<1> HIDE DEF b, q, r
<1>5. CASE f.ib = q*b + 1
  <2>1. f.ib - 1 = q*b + 0 /\ 0 \in 0 .. b-1
    BY <1>1, <1>2, <1>5
  <2>2. (f.ib - 1) \div b = q
    BY <1>1, <1>2, <2>1, DivModIs
  <2>3. QED
    BY <1>2, <1>3, <1>4, <2>2
<1>6. CASE f.ib = q + 1 /\ i < b
  <2>1. q = 0
    <3>1. i = 0*b + i /\ i \in 0 .. b-1
      BY <1>1, <1>6
    <3>2. i \div b = 0
      BY <1>1, <3>1, DivModIs
    <3>3. QED
      BY <3>2 DEF q, b
  <2>2. f.ib - 1 = 0*b + 0 /\ 0 \in 0 .. b-1
    BY <1>1, <1>6, <2>1
  <2>3. (f.ib - 1) \div b = 0
    BY <1>1, <2>2, DivModIs
  <2>4. QED
    BY <1>1, <1>2, <1>3, <1>4, <2>1, <2>3
<1>7. QED
  BY <1>3, <1>5, <1>6

-----------------------------------------------------------------------------
(***************************************************************************)
(* Induction over a set of numbers, from the well-foundedness of < on Nat. *)
(***************************************************************************)

\* A set of numbers that is not empty has a least one.
LEMMA LeastNumber ==
  ASSUME NEW U, U \subseteq Nat, U # {}
  PROVE  \E x \in U : \A y \in U : x <= y
<1> DEFINE R == OpToRel(<, Nat)
<1>1. IsWellFoundedOn(R, Nat)
  BY NatLessThanWellFounded, Zenon
<1>2. PICK x \in U : \A y \in U : <<y, x>> \notin R
  <2> HIDE DEF R
  <2> QED BY <1>1, WFMin
<1>3. ASSUME NEW y \in U PROVE x <= y
  <2>1. x \in Nat /\ y \in Nat
    OBVIOUS
  <2>2. ~(y < x)
    BY <1>2, <2>1 DEF OpToRel
  <2>3. QED
    BY <2>1, <2>2
<1>4. QED
  BY <1>3

\* Min gives the least element.
LEMMA MinLeast ==
  ASSUME NEW U, U \subseteq Nat, U # {}
  PROVE  Min(U) \in U /\ \A y \in U : Min(U) <= y
<1>1. \E x \in U : \A y \in U : x <= y
  BY LeastNumber
<1>2. QED
  BY <1>1 DEF Min

\* Induction: a set of numbers that holds 0 and the successor of every number it
\* holds is Nat.
LEMMA NatSetInduction ==
  ASSUME NEW T, T \subseteq Nat, 0 \in T, \A n \in T : n + 1 \in T
  PROVE  T = Nat
<1> DEFINE U == Nat \ T
<1>1. SUFFICES ASSUME U # {} PROVE FALSE
  OBVIOUS
<1>2. PICK x \in U : \A y \in U : x <= y
  <2>1. U \subseteq Nat
    OBVIOUS
  <2> HIDE DEF U
  <2>2. QED
    BY <1>1, <2>1, LeastNumber
<1>3. x \in Nat /\ x \notin T
  BY DEF U
<1> HIDE DEF U
<1>4. x # 0 /\ x - 1 \in Nat
  BY <1>3
<1>5. x - 1 \in U
  <2>1. x - 1 \notin T
    BY <1>3, <1>4
  <2>2. QED
    BY <2>1, <1>4 DEF U
<1>6. QED
  BY <1>2, <1>3, <1>5

-----------------------------------------------------------------------------
(***************************************************************************)
(* A walk along links that are those of a sequence of sectors gives        *)
(* that sequence.                                                          *)
(***************************************************************************)

\* f gives what a walk of at most left sectors visits, for each left up to k.
IsWalk(f, d, k) ==
  f = [left \in 0 .. k |->
         [m \in Sector |-> IF m = EOC \/ left = 0 THEN <<>>
                                      ELSE <<m>> \o f[left-1][d.sector[m].next]]]

\* There is such a function.
LEMMA WalkExists ==
  ASSUME NEW d, NEW n \in Nat
  PROVE  \E f : IsWalk(f, d, n)
<1> DEFINE T == {k \in Nat : \E f : IsWalk(f, d, k)}
<1>1. 0 \in T
  <2> DEFINE f == [left \in 0 .. 0 |-> [m \in Sector |-> <<>>]]
  <2>1. IsWalk(f, d, 0)
    BY DEF IsWalk
  <2>2. QED
    BY <2>1
<1>2. ASSUME NEW k \in T PROVE k + 1 \in T
  <2>1. k \in Nat
    OBVIOUS
  <2>2. PICK f : IsWalk(f, d, k)
    OBVIOUS
  <2> DEFINE Round(g, left) == [m \in Sector |->
                                  IF m = EOC \/ left = 0 THEN <<>>
                                  ELSE <<m>> \o g[left-1][d.sector[m].next]]
             h == [left \in 0 .. k+1 |-> Round(f, left)]
  <2>3. f = [left \in 0 .. k |-> Round(f, left)]
    BY <2>2, Zenon DEF IsWalk
  <2>4. \A left \in 0 .. k : h[left] = f[left]
    <3> HIDE DEF Round
    <3> QED BY <2>1, <2>3
  <2>5. \A left \in 0 .. k+1 : Round(f, left) = Round(h, left)
    <3> SUFFICES ASSUME NEW left \in 0 .. k+1 PROVE Round(f, left) = Round(h, left)
      BY Zenon
    <3>1. left = 0 \/ left - 1 \in 0 .. k
      BY <2>1
    <3> HIDE DEF h
    <3>2. QED
      BY <3>1, <2>4
  <2>6. h = [left \in 0 .. k+1 |-> Round(h, left)]
    BY <2>5, Zenon
  <2>7. IsWalk(h, d, k+1)
    <3> HIDE DEF h
    <3> QED BY <2>6, Zenon DEF IsWalk
  <2>8. QED
    BY <2>1, <2>7
<1>3. T = Nat
  <2>1. T \subseteq Nat
    OBVIOUS
  <2> HIDE DEF T
  <2>2. QED
    BY <1>1, <1>2, <2>1, NatSetInduction
<1>4. QED
  BY <1>3

\* A sequence without repetitions is no longer than there are sectors.
LEMMA NoLongerThanUsable ==
  ASSUME NEW s \in Seq(Usable), \A i, j \in 1 .. Len(s) : s[i] = s[j] => i = j
  PROVE  Len(s) <= Size-1
<1>1. IsFiniteSet(1 .. Size-1) /\ Cardinality(1 .. Size-1) = Size-1
  BY FS_Interval, Geometry
<1>2. s \in Injection(1 .. Len(s), 1 .. Size-1)
  <2>1. \A k \in 1 .. Len(s) : s[k] \in 1 .. Size-1
    <3>1. \A k \in 1 .. Len(s) : s[k] \in Usable
      OBVIOUS
    <3>2. QED
      BY <3>1, Geometry
  <2>2. QED
    BY <2>1 DEF Injection, IsInjective
<1>3. Cardinality(1 .. Len(s)) <= Size-1
  BY <1>1, <1>2, FS_Injection
<1>4. Cardinality(1 .. Len(s)) = Len(s)
  BY FS_Interval
<1>5. QED
  BY <1>3, <1>4

\* the last j elements of s
Suffix(s, j) == [k \in 1 .. j |-> s[Len(s) - j + k]]

\* Chain follows links that are those of a sequence of sectors to the end of it.
LEMMA ChainIs ==
  ASSUME NEW d, NEW s \in Seq(Usable),
         \A i, j \in 1 .. Len(s) : s[i] = s[j] => i = j,
         \A i \in 1 .. Len(s) : d.sector[s[i]].next = At(s, i+1)
  PROVE  Chain(d, At(s, 1)) = s
<1> DEFINE f == CHOOSE g : IsWalk(g, d, Size)
<1>1. Size-1 \in Nat /\ Size \in Nat
  BY Geometry
<1>2. IsWalk(f, d, Size)
  BY <1>1, WalkExists
<1>3. Chain(d, At(s, 1)) = f[Size][At(s, 1)]
  BY DEF Chain, IsWalk
<1> HIDE DEF f
<1>4. Len(s) \in Nat /\ Len(s) <= Size-1
  BY NoLongerThanUsable
<1>5. \A i : At(s, i) \in Sector
  <2>1. \A k \in 1 .. Len(s) : s[k] \in Sector
    <3>1. \A k \in 1 .. Len(s) : s[k] \in Usable
      OBVIOUS
    <3>2. QED
      BY <3>1, Geometry
  <2>2. QED
    BY <2>1, Geometry DEF At
<1>6. EOC \notin Usable
  BY Geometry
<1> DEFINE T == {j \in Nat : j <= Len(s) => \A left \in j .. Size :
                               f[left][At(s, Len(s)-j+1)] = Suffix(s, j)}
<1>7. ASSUME NEW left \in 0 .. Size, NEW m \in Sector
      PROVE  f[left][m] = IF m = EOC \/ left = 0 THEN <<>>
                                      ELSE <<m>> \o f[left-1][d.sector[m].next]
  <2>1. f[left] = [x \in Sector |-> IF x = EOC \/ left = 0 THEN <<>>
                                               ELSE <<x>> \o f[left-1][d.sector[x].next]]
    <3> DEFINE Round(g, y) == [x \in Sector |->
                                 IF x = EOC \/ y = 0 THEN <<>>
                                 ELSE <<x>> \o g[y-1][d.sector[x].next]]
    <3>1. f = [y \in 0 .. Size |-> Round(f, y)]
      BY <1>2 DEF IsWalk
    <3>2. f[left] = Round(f, left)
      <4> HIDE DEF Round
      <4> QED BY <3>1
    <3>3. QED
      BY <3>2
  <2>2. QED
    BY <2>1
<1>8. 0 \in T
  <2>1. At(s, Len(s)-0+1) = EOC
    BY <1>4 DEF At
  <2>2. \A left \in 0 .. Size : f[left][EOC] = <<>>
    BY <1>7, Geometry
  <2>3. Suffix(s, 0) = <<>>
    BY DEF Suffix
  <2>4. QED
    BY <2>1, <2>2, <2>3
<1>9. ASSUME NEW j \in T PROVE j + 1 \in T
  <2>1. j \in Nat /\ j + 1 \in Nat
    OBVIOUS
  <2>2. SUFFICES ASSUME j + 1 <= Len(s), NEW left \in j+1 .. Size
                 PROVE  f[left][At(s, Len(s)-(j+1)+1)] = Suffix(s, j+1)
    BY <2>1, Zenon
  <2> DEFINE p == Len(s) - j
  <2>3. p \in 1 .. Len(s) /\ Len(s)-(j+1)+1 = p /\ Len(s)-j+1 = p+1 /\ left # 0
        /\ left-1 \in j .. Size /\ left \in 0 .. Size /\ j <= Len(s)
    BY <2>1, <2>2, <1>1, <1>4
  <2>4. f[left-1][At(s, p+1)] = Suffix(s, j)
    BY <2>1, <2>3
  <2>5. At(s, p) = s[p] /\ s[p] \in Usable /\ s[p] # EOC
    BY <2>3, <1>6 DEF At
  <2>6. d.sector[s[p]].next = At(s, p+1)
    BY <2>3
  <2>7. f[left][s[p]] = <<s[p]>> \o Suffix(s, j)
    <3>1. f[left][s[p]] = <<s[p]>> \o f[left-1][d.sector[s[p]].next]
      <4> HIDE DEF p
      <4> QED BY <1>7, <2>3, <2>5, Geometry
    <3>2. QED
      BY <3>1, <2>4, <2>6
  <2>8. <<s[p]>> \o Suffix(s, j) = Suffix(s, j+1)
    <3>1. Suffix(s, j) \in Seq(Usable) /\ Len(Suffix(s, j)) = j
      <4>1. \A k \in 1 .. j : Len(s) - j + k \in 1 .. Len(s)
        BY <1>4, <2>1, <2>3
      <4>2. \A k \in 1 .. j : s[Len(s) - j + k] \in Usable
        BY <4>1
      <4>3. QED
        BY <2>1, <4>2 DEF Suffix
    <3>2. Suffix(s, j+1) \in Seq(Usable) /\ Len(Suffix(s, j+1)) = j+1
      BY <1>1, <2>1, <2>2, <1>4 DEF Suffix
    <3>3. ASSUME NEW k \in 1 .. j+1
          PROVE  (<<s[p]>> \o Suffix(s, j))[k] = Suffix(s, j+1)[k]
      <4>1. CASE k = 1
        <5>1. Len(s) - (j+1) + 1 = p
          BY <2>1, <1>4
        <5>2. QED
          BY <4>1, <5>1, <3>1, <2>1 DEF Suffix
      <4>2. CASE k # 1
        <5>1. k - 1 \in 1 .. j /\ Len(s) - j + (k-1) = Len(s) - (j+1) + k
          BY <4>2, <2>1, <1>4
        <5>2. (<<s[p]>> \o Suffix(s, j))[k] = Suffix(s, j)[k-1]
          BY <5>1, <3>1, <2>1
        <5>3. QED
          BY <5>1, <5>2, <2>1 DEF Suffix
      <4>3. QED
        BY <4>1, <4>2
    <3>4. <<s[p]>> \o Suffix(s, j) \in Seq(Usable) /\ Len(<<s[p]>> \o Suffix(s, j)) = j+1
      BY <3>1, <2>5, <2>1
    <3>5. QED
      BY <3>2, <3>3, <3>4, SeqEqual
  <2>9. QED
    BY <2>3, <2>5, <2>7, <2>8
<1>10. T = Nat
  <2>1. T \subseteq Nat
    OBVIOUS
  <2> HIDE DEF T
  <2>2. QED
    BY <1>8, <1>9, <2>1, NatSetInduction
<1>11. f[Size][At(s, 1)] = Suffix(s, Len(s))
  <2>1. Len(s) \in T /\ Len(s)-Len(s)+1 = 1 /\ Size \in Len(s) .. Size
    BY <1>10, <1>4, <1>1
  <2>2. QED
    BY <2>1
<1>12. Suffix(s, Len(s)) = s
  <2>1. \A k \in 1 .. Len(s) : Len(s) - Len(s) + k = k
    BY <1>4
  <2>2. QED
    BY <2>1 DEF Suffix
<1>13. QED
  BY <1>3, <1>11, <1>12

-----------------------------------------------------------------------------
(* One file changes *)

\* Of a sound disk, the lists are the chains that Chain follows.
LEMMA ListsAre ==
  ASSUME NEW d, NEW T, NEW L, Sound(d, T, L)
  PROVE  /\ Lists(d) = L
         /\ \A i \in Slot : Chain(d, d.fp[i]) = L[i]
<1>1. ASSUME NEW i \in Slot PROVE Chain(d, d.fp[i]) = L[i]
  <2>1. /\ L[i] \in Seq(Usable) /\ d.fp[i] = At(L[i], 1)
        /\ \A k, m \in 1 .. Len(L[i]) : L[i][k] = L[i][m] => k = m
    BY DEF Sound, Listed
  <2>2. \A k \in 1 .. Len(L[i]) : d.sector[L[i][k]].next = At(L[i], k+1)
    BY DEF Sound, Fits
  <2>3. QED
    BY <2>1, <2>2, ChainIs
<1>2. L = [i \in Slot |-> L[i]]
  BY DEF Sound, Listed
<1>3. QED
  BY <1>1, <1>2 DEF Lists

\* What is known of a disk, a table and lists that are sound.
LEMMA SoundTypes ==
  ASSUME NEW d, NEW T, NEW L, Sound(d, T, L)
  PROVE  /\ d.used \subseteq 1 .. Size-1 /\ d.fp \in [Slot -> Sector]
         /\ d.name \in [Slot -> Names \cup {BLANK}] /\ d.sector \in [Sector -> FileSector]
         /\ d \in Disk
         /\ T \in [Handle -> FILE] /\ \A h \in Handle : T[h] \in FILE
         /\ L \in [Slot -> Seq(Usable)] /\ \A i \in Slot : L[i] \in Seq(Usable)
         /\ \A i \in Slot : Len(L[i]) \in Nat /\ \A k \in 1 .. Len(L[i]) : L[i][k] \in Usable
<1>1. d \in Disk /\ T \in [Handle -> FILE] /\ L \in [Slot -> Seq(Usable)]
  BY DEF Sound, Listed
<1>2. \A i \in Slot : L[i] \in Seq(Usable)
  BY <1>1
<1>3. \A i \in Slot : Len(L[i]) \in Nat /\ \A k \in 1 .. Len(L[i]) : L[i][k] \in Usable
  BY <1>2
<1>4. QED
  BY <1>1, <1>2, <1>3 DEF Disk

\* Where files begin, that they are those with a name, and that names and places are
\* theirs alone.
LEMMA SoundParts ==
  ASSUME NEW d, NEW T, NEW L, Sound(d, T, L)
  PROVE  /\ \A i \in Slot : d.fp[i] = At(L[i], 1)
         /\ \A i \in Slot : d.name[i] # BLANK <=> Len(L[i]) > 0
         /\ \A i, j \in Slot : d.name[i] = d.name[j] /\ d.name[i] # BLANK => i = j
         /\ \A i, j \in Slot : \A k \in 1 .. Len(L[i]), m \in 1 .. Len(L[j]) :
              L[i][k] = L[j][m] => i = j /\ k = m
<1>1. Listed(d, L)
  BY DEF Sound
<1>2. QED
  BY <1>1 DEF Listed

\* From disk d, table T and lists L, to disk e with FILE f in the place of h: only
\* the file of slot i and what is open on it have changed.  The file has sectors l
\* now, each of which it had or no file had.
Changed(d, T, L, i, h, e, f, l) ==
  /\ i \in Slot /\ h \in Handle /\ e \in Disk /\ f \in FILE /\ l \in Seq(Usable)
  /\ T[h].open => SlotOf(T[h]) = i
  /\ \A g \in Handle : g # h /\ T[g].open => SlotOf(T[g]) # i
  /\ \A k, m \in 1 .. Len(l) : l[k] = l[m] => k = m
  /\ \A k \in 1 .. Len(l) : l[k] \in d.used => Holds(L[i], l[k])
  /\ e.fp = [d.fp EXCEPT ![i] = At(l, 1)]
  /\ e.name[i] # BLANK <=> Len(l) > 0
  /\ \A j \in Slot : j # i => e.name[j] = d.name[j]
  /\ \A j \in Slot : j # i /\ e.name[i] # BLANK => e.name[i] # d.name[j]
  /\ \A s \in 1 .. Size-1 :
       s \in e.used <=> Holds(l, s) \/ (s \in d.used /\ ~Holds(L[i], s))
  /\ \A s \in Sector : ~Holds(l, s) => e.sector[s] = d.sector[s]
  /\ \A k \in 1 .. Len(l) : Fits(e.sector[l[k]], l, k)
  /\ \A k \in 1 .. Len(l) : Begun(e.sector[l[k]], k) \/ Buffers(f, i, k)
  /\ f.open => SlotOf(f) = i /\ InPlace(f, l)

\* A change of one file, and of the FILE that is open on it, keeps a disk sound.
LEMMA OneFile ==
  ASSUME NEW d, NEW T, NEW L, NEW i, NEW h, NEW e, NEW f, NEW l,
         Sound(d, T, L), Changed(d, T, L, i, h, e, f, l)
  PROVE  Sound(e, [T EXCEPT ![h] = f], [L EXCEPT ![i] = l])
<1> SUFFICES ASSUME i \in Slot, h \in Handle, e \in Disk, f \in FILE, l \in Seq(Usable),
                 T[h].open => SlotOf(T[h]) = i,
                 \A g \in Handle : g # h /\ T[g].open => SlotOf(T[g]) # i,
                 \A k, m \in 1 .. Len(l) : l[k] = l[m] => k = m,
                 \A k \in 1 .. Len(l) : l[k] \in d.used => Holds(L[i], l[k]),
                 e.fp = [d.fp EXCEPT ![i] = At(l, 1)],
                 e.name[i] # BLANK <=> Len(l) > 0,
                 \A j \in Slot : j # i => e.name[j] = d.name[j],
                 \A j \in Slot : j # i /\ e.name[i] # BLANK => e.name[i] # d.name[j],
                 \A s \in 1 .. Size-1 :
                     s \in e.used <=> Holds(l, s) \/ (s \in d.used /\ ~Holds(L[i], s)),
                 \A s \in Sector : ~Holds(l, s) => e.sector[s] = d.sector[s],
                 \A k \in 1 .. Len(l) : Fits(e.sector[l[k]], l, k),
                 \A k \in 1 .. Len(l) : Begun(e.sector[l[k]], k) \/ Buffers(f, i, k),
                 f.open => SlotOf(f) = i /\ InPlace(f, l)
             PROVE  Sound(e, [T EXCEPT ![h] = f], [L EXCEPT ![i] = l])
  BY DEF Changed
<1> DEFINE U == [T EXCEPT ![h] = f]
           M == [L EXCEPT ![i] = l]
<1>1. /\ T \in [Handle -> FILE] /\ d.fp \in [Slot -> Sector] /\ L \in [Slot -> Seq(Usable)]
      /\ \A j \in Slot : \A k \in 1 .. Len(L[j]) : L[j][k] \in Usable
  BY SoundTypes
<1>2. U \in [Handle -> FILE] /\ U[h] = f /\ \A g \in Handle : g # h => U[g] = T[g]
  BY <1>1
<1>3. M \in [Slot -> Seq(Usable)] /\ M[i] = l /\ \A j \in Slot : j # i => M[j] = L[j]
  BY <1>1
<1>4. e.fp[i] = At(l, 1) /\ \A j \in Slot : j # i => e.fp[j] = d.fp[j]
  BY <1>1
<1>5. Listed(d, L) /\ Usable \subseteq 1 .. Size-1 /\ Usable \subseteq Sector
  BY Geometry DEF Sound
<1> HIDE DEF U, M
\* no sector of another file is one of l
<1>6. ASSUME NEW j \in Slot, j # i, NEW k \in 1 .. Len(L[j]) PROVE ~Holds(l, L[j][k])
  <2>1. SUFFICES ASSUME NEW m \in 1 .. Len(l), l[m] = L[j][k] PROVE FALSE
    BY DEF Holds
  <2>2. L[j][k] \in 1 .. Size-1 /\ Holds(L[j], L[j][k])
    BY <1>1, <1>5 DEF Holds
  <2>3. L[j][k] \in d.used
    BY <1>5, <2>2 DEF Listed
  <2>4. PICK n \in 1 .. Len(L[i]) : L[i][n] = L[j][k]
    BY <2>1, <2>3 DEF Holds
  <2>5. QED
    BY <1>5, <1>6, <2>4 DEF Listed
<1>7. Listed(e, M)
  <2>1. \A j \in Slot : e.fp[j] = At(M[j], 1)
    BY <1>3, <1>4, <1>5 DEF Listed
  <2>2. \A j \in Slot : e.name[j] # BLANK <=> Len(M[j]) > 0
    BY <1>3, <1>5 DEF Listed
  <2>3. ASSUME NEW j \in Slot, NEW k \in Slot, e.name[j] = e.name[k], e.name[j] # BLANK
        PROVE  j = k
    <3>1. d.name[j] = d.name[k] /\ d.name[j] # BLANK => j = k
      BY SoundParts
    <3>2. /\ j # i => e.name[j] = d.name[j]
          /\ k # i => e.name[k] = d.name[k]
          /\ j # i /\ e.name[i] # BLANK => e.name[i] # d.name[j]
          /\ k # i /\ e.name[i] # BLANK => e.name[i] # d.name[k]
      OBVIOUS
    <3>3. QED
      BY <2>3, <3>1, <3>2, Zenon
  <2>4. ASSUME NEW j \in Slot, NEW g \in Slot, NEW k \in 1 .. Len(M[j]), NEW m \in 1 .. Len(M[g]),
               M[j][k] = M[g][m]
        PROVE  j = g /\ k = m
    <3>1. CASE j = i /\ g = i
      BY <1>3, <2>4, <3>1
    <3>2. CASE j = i /\ g # i
      BY <1>3, <1>6, <2>4, <3>2 DEF Holds
    <3>3. CASE j # i /\ g = i
      BY <1>3, <1>6, <2>4, <3>3 DEF Holds
    <3>4. CASE j # i /\ g # i
      BY <1>3, <1>5, <2>4, <3>4 DEF Listed
    <3>5. QED
      BY <3>1, <3>2, <3>3, <3>4
  <2>5. ASSUME NEW s \in 1 .. Size-1
        PROVE  s \in e.used <=> s \in Metadata \/ \E j \in Slot : Holds(M[j], s)
    <3>1. s \in d.used <=> s \in Metadata \/ \E j \in Slot : Holds(L[j], s)
      BY <1>5 DEF Listed
    <3>2. \A j \in Slot : Holds(L[j], s) /\ Holds(L[i], s) => j = i
      BY <1>5 DEF Listed, Holds
    <3>3. s \in Metadata => ~Holds(L[i], s)
      BY <1>1 DEF Holds, Usable
    <3>4. s \in e.used <=> Holds(l, s) \/ (s \in d.used /\ ~Holds(L[i], s))
      OBVIOUS
    <3>5. Holds(M[i], s) <=> Holds(l, s)
      BY <1>3
    <3>6. \A j \in Slot : j # i => (Holds(M[j], s) <=> Holds(L[j], s))
      BY <1>3
    <3>7. QED
      BY <3>1, <3>2, <3>3, <3>4, <3>5, <3>6
  <2>6. QED
    BY <1>3, <2>1, <2>2, <2>3, <2>4, <2>5 DEF Listed
<1>8. ASSUME NEW j \in Slot, NEW k \in 1 .. Len(M[j])
      PROVE  /\ Fits(e.sector[M[j][k]], M[j], k)
             /\ Begun(e.sector[M[j][k]], k) \/ \E g \in Handle : Buffers(U[g], j, k)
  <2>1. CASE j = i
    BY <1>2, <1>3, <2>1
  <2>2. CASE j # i
    <3>1. M[j] = L[j] /\ k \in 1 .. Len(L[j])
      BY <1>3, <2>2
    <3>2. ~Holds(l, L[j][k]) /\ L[j][k] \in Sector
      BY <1>1, <1>5, <1>6, <2>2, <3>1
    <3>3. e.sector[M[j][k]] = d.sector[L[j][k]] /\ M[j] = L[j]
      BY <3>1, <3>2
    <3>4. /\ Fits(d.sector[L[j][k]], L[j], k)
          /\ Begun(d.sector[L[j][k]], k) \/ \E g \in Handle : Buffers(T[g], j, k)
      BY <3>3 DEF Sound
    <3>5. \A g \in Handle : Buffers(T[g], j, k) => Buffers(U[g], j, k)
      BY <1>2, <2>2 DEF Buffers
    <3>6. QED
      BY <3>3, <3>4, <3>5
  <2>3. QED
    BY <2>1, <2>2
<1>9. ASSUME NEW g \in Handle, U[g].open
      PROVE  SlotOf(U[g]) \in Slot /\ InPlace(U[g], M[SlotOf(U[g])])
  <2>1. CASE g = h
    BY <1>2, <1>3, <1>9, <2>1
  <2>2. CASE g # h
    <3>1. U[g] = T[g] /\ SlotOf(T[g]) # i
      BY <1>2, <1>9, <2>2
    <3>2. SlotOf(T[g]) \in Slot /\ InPlace(T[g], L[SlotOf(T[g])])
      BY <1>9, <3>1 DEF Sound
    <3>3. QED
      BY <1>3, <3>1, <3>2
  <2>3. QED
    BY <2>1, <2>2
<1>10. ASSUME NEW g1 \in Handle, NEW g2 \in Handle, U[g1].open, U[g2].open,
              SlotOf(U[g1]) = SlotOf(U[g2])
       PROVE  g1 = g2
  <2>1. \A g3, g4 \in Handle :
          T[g3].open /\ T[g4].open /\ SlotOf(T[g3]) = SlotOf(T[g4]) => g3 = g4
    BY DEF Sound
  <2>2. QED
    BY <1>2, <1>10, <2>1
<1>11. Sound(e, U, M)
  BY <1>2, <1>7, <1>8, <1>9, <1>10 DEF Sound
<1>12. QED
  BY <1>11 DEF U, M

\* What is known of an open FILE.
LEMMA OpenFile ==
  ASSUME NEW d, NEW T, NEW L, Sound(d, T, L), NEW h \in Handle, T[h].open
  PROVE  LET f == T[h]
             i == SlotOf(f)
         IN  /\ i \in Slot /\ InPlace(f, L[i]) /\ f \in FILE
             /\ f.bufindex \in Nat /\ f.bufindex + 1 \in 1 .. Len(L[i])
             /\ f.bufsect = L[i][f.bufindex+1] /\ f.bufsect \in Usable /\ Holds(L[i], f.bufsect)
             /\ \A g \in Handle : g # h /\ T[g].open => SlotOf(T[g]) # i
             /\ \A g \in Handle : \A k : Buffers(T[g], i, k) => g = h
<1> DEFINE f == T[h]
           i == SlotOf(f)
<1>1. i \in Slot /\ InPlace(f, L[i]) /\ f \in FILE
  BY SoundTypes DEF Sound
<1>2. \A g \in Handle : T[g].open /\ SlotOf(T[g]) = i => g = h
  BY DEF Sound
<1>3. f.bufindex \in Nat /\ f.bufindex + 1 \in 1 .. Len(L[i]) /\ f.bufsect = L[i][f.bufindex+1]
  BY <1>1 DEF InPlace, FILE
<1>4. L[i][f.bufindex+1] \in Usable /\ Holds(L[i], L[i][f.bufindex+1])
  BY <1>1, <1>3, SoundTypes DEF Holds
<1>5. \A g \in Handle : \A k : Buffers(T[g], i, k) => g = h
  BY <1>2 DEF Buffers
<1> HIDE DEF f, i
<1>6. QED
  BY <1>1, <1>2, <1>3, <1>4, <1>5 DEF f, i

\* OneFile, when the file keeps its sectors and they may be written.
LEMMA Rewritten ==
  ASSUME NEW d, NEW T, NEW L, Sound(d, T, L), NEW i \in Slot, NEW h \in Handle,
         NEW x \in [Sector -> FileSector], NEW f \in FILE,
         T[h].open => SlotOf(T[h]) = i,
         \A g \in Handle : g # h /\ T[g].open => SlotOf(T[g]) # i,
         \A s \in Sector : ~Holds(L[i], s) => x[s] = d.sector[s],
         \A k \in 1 .. Len(L[i]) : Fits(x[L[i][k]], L[i], k),
         \A k \in 1 .. Len(L[i]) : Begun(x[L[i][k]], k) \/ Buffers(f, i, k),
         f.open => SlotOf(f) = i /\ InPlace(f, L[i])
  PROVE  Sound([d EXCEPT !.sector = x], [T EXCEPT ![h] = f], L)
<1> DEFINE e == [d EXCEPT !.sector = x]
           l == L[i]
<1>1. e \in Disk /\ e.used = d.used /\ e.fp = d.fp /\ e.name = d.name /\ e.sector = x
  <2>1. d \in Disk
    BY SoundTypes
  <2>2. QED
    BY <2>1 DEF Disk
<1>2. l \in Seq(Usable)
  BY SoundTypes
<1>3. Listed(d, L)
  BY DEF Sound
<1>4. e.fp = [d.fp EXCEPT ![i] = At(l, 1)]
  <2>1. d.fp[i] = At(l, 1) /\ d.fp \in [Slot -> Sector]
    BY <1>3, SoundTypes DEF Listed
  <2>2. QED
    BY <1>1, <2>1
<1>5. \A k, m \in 1 .. Len(l) : l[k] = l[m] => k = m
  BY <1>3 DEF Listed
<1>6. \A k \in 1 .. Len(l) : l[k] \in d.used => Holds(L[i], l[k])
  BY DEF Holds
<1>7. e.name[i] # BLANK <=> Len(l) > 0
  BY <1>1, <1>3 DEF Listed
<1>8. \A j \in Slot : j # i => e.name[j] = d.name[j]
  BY <1>1
<1>9. \A j \in Slot : j # i /\ e.name[i] # BLANK => e.name[i] # d.name[j]
  BY <1>1, <1>3 DEF Listed
<1>10. \A s \in 1 .. Size-1 : s \in e.used <=> Holds(l, s) \/ (s \in d.used /\ ~Holds(L[i], s))
  BY <1>1, <1>3 DEF Listed
<1>11. [L EXCEPT ![i] = l] = L
  BY SoundTypes
<1>12. /\ \A s \in Sector : ~Holds(l, s) => e.sector[s] = d.sector[s]
       /\ \A k \in 1 .. Len(l) : Fits(e.sector[l[k]], l, k)
       /\ \A k \in 1 .. Len(l) : Begun(e.sector[l[k]], k) \/ Buffers(f, i, k)
       /\ f.open => SlotOf(f) = i /\ InPlace(f, l)
  BY <1>1
<1> HIDE DEF e, l
<1>13. Changed(d, T, L, i, h, e, f, l)
  BY <1>1, <1>2, <1>4, <1>5, <1>6, <1>7, <1>8, <1>9, <1>10, <1>12, Zenon DEF Changed
<1>14. Sound(e, [T EXCEPT ![h] = f], [L EXCEPT ![i] = l])
  BY <1>13, OneFile
<1>15. QED
  BY <1>11, <1>14 DEF e, l

\* A FILE changes and keeps its place in the file.
LEMMA Kept ==
  ASSUME NEW d, NEW T, NEW L, Sound(d, T, L), NEW h \in Handle, T[h].open,
         NEW f \in FILE, f.open, SlotOf(f) = SlotOf(T[h]), f.bufindex = T[h].bufindex,
         InPlace(f, L[SlotOf(f)])
  PROVE  Sound(d, [T EXCEPT ![h] = f], L)
<1> DEFINE i == SlotOf(T[h])
<1>1. i \in Slot /\ \A g \in Handle : g # h /\ T[g].open => SlotOf(T[g]) # i
  BY OpenFile
<1>2. \A k \in 1 .. Len(L[i]) : Fits(d.sector[L[i][k]], L[i], k)
  BY <1>1 DEF Sound
<1>3. ASSUME NEW k \in 1 .. Len(L[i]), ~Begun(d.sector[L[i][k]], k) PROVE Buffers(f, i, k)
  <2>1. \E g \in Handle : Buffers(T[g], i, k)
    BY <1>1, <1>3 DEF Sound
  <2>2. Buffers(T[h], i, k)
    BY <2>1, OpenFile
  <2>3. QED
    BY <2>2 DEF Buffers
<1>4. d.sector \in [Sector -> FileSector] /\ d \in Disk
  BY SoundTypes
<1>5. Sound([d EXCEPT !.sector = d.sector], [T EXCEPT ![h] = f], L)
  <2> HIDE DEF i
  <2>1. SlotOf(T[h]) = i /\ SlotOf(f) = i
    BY DEF i
  <2>2. QED
    BY <1>1, <1>2, <1>3, <1>4, <2>1, Rewritten
<1>6. [d EXCEPT !.sector = d.sector] = d
  BY <1>4 DEF Disk
<1>7. QED
  BY <1>5, <1>6

\* The disk has what the buffer has.
Clean(d, f) == d.sector[f.bufsect] = f.buffer

\* fflush keeps a disk sound, and leaves in the sector what is in the buffer.
LEMMA Flushed ==
  ASSUME NEW d, NEW T, NEW L, Sound(d, T, L), NEW h \in Handle, T[h].open
  PROVE  Sound(fflush(d, T[h]), T, L) /\ Clean(fflush(d, T[h]), T[h])
<1> DEFINE f == T[h]
           i == SlotOf(f)
           x == [d.sector EXCEPT ![f.bufsect] = f.buffer]
<1>1. /\ i \in Slot /\ InPlace(f, L[i]) /\ f \in FILE
      /\ f.bufsect = L[i][f.bufindex+1] /\ f.bufsect \in Usable /\ Holds(L[i], f.bufsect)
      /\ f.bufindex + 1 \in 1 .. Len(L[i])
      /\ \A g \in Handle : g # h /\ T[g].open => SlotOf(T[g]) # i
      /\ \A g \in Handle : \A k : Buffers(T[g], i, k) => g = h
  <2>1. i \in Slot /\ InPlace(f, L[i]) /\ f \in FILE /\ f.bufindex + 1 \in 1 .. Len(L[i])
    BY OpenFile
  <2>2. f.bufsect = L[i][f.bufindex+1] /\ f.bufsect \in Usable /\ Holds(L[i], f.bufsect)
    BY OpenFile
  <2>3. \A g \in Handle : g # h /\ T[g].open => SlotOf(T[g]) # i
    BY OpenFile
  <2>4. \A g \in Handle : \A k : Buffers(T[g], i, k) => g = h
    BY <2>3 DEF Buffers
  <2>5. QED
    BY <2>1, <2>2, <2>3, <2>4
<1>2. d.sector \in [Sector -> FileSector] /\ T = [T EXCEPT ![h] = f]
  BY SoundTypes
<1>3. f.buffer \in FileSector /\ f.bufsect \in Sector
  BY <1>1, Geometry DEF FILE
<1>4. x \in [Sector -> FileSector] /\ x[f.bufsect] = f.buffer
      /\ \A s \in Sector : s # f.bufsect => x[s] = d.sector[s]
  BY <1>2, <1>3
<1>5. fflush(d, f) = [d EXCEPT !.sector = x]
  BY DEF fflush
<1>6. fflush(d, f).sector = x
  BY <1>5, SoundTypes DEF Disk
<1> HIDE DEF f, i, x
<1>7. ASSUME NEW k \in 1 .. Len(L[i])
      PROVE  Fits(x[L[i][k]], L[i], k) /\ (Begun(x[L[i][k]], k) \/ Buffers(f, i, k))
  <2>1. CASE k = f.bufindex + 1
    BY <1>1, <1>4, <2>1 DEF InPlace
  <2>2. CASE k # f.bufindex + 1
    <3>1. L[i][k] # L[i][f.bufindex+1]
      BY <1>1, <2>2 DEF Sound, Listed
    <3>2. L[i][k] \in Sector
      BY <1>1, SoundTypes, Geometry
    <3>3. x[L[i][k]] = d.sector[L[i][k]]
      BY <1>1, <1>4, <3>1, <3>2
    <3>4. Fits(d.sector[L[i][k]], L[i], k)
      BY <1>1 DEF Sound
    <3>5. Begun(d.sector[L[i][k]], k) \/ \E g \in Handle : Buffers(T[g], i, k)
      BY <1>1 DEF Sound
    <3>6. ~Buffers(T[h], i, k)
      BY <2>2 DEF Buffers, f
    <3>7. QED
      BY <1>1, <3>3, <3>4, <3>5, <3>6
  <2>3. QED
    BY <2>1, <2>2
<1>8. \A s \in Sector : ~Holds(L[i], s) => x[s] = d.sector[s]
  BY <1>1, <1>4
<1>9. T[h].open => SlotOf(T[h]) = i
  BY DEF f, i
<1>10. f.open => SlotOf(f) = i /\ InPlace(f, L[i])
  BY <1>1 DEF i
<1>11. Sound([d EXCEPT !.sector = x], [T EXCEPT ![h] = f], L)
  BY <1>1, <1>4, <1>7, <1>8, <1>9, <1>10, Rewritten
<1>12. QED
  BY <1>2, <1>4, <1>5, <1>6, <1>11 DEF Clean, f

\* A sound disk with all buffers of a file flushed has begun all its sectors.
LEMMA AllBegun ==
  ASSUME NEW d, NEW T, NEW L, Sound(d, T, L), NEW i \in Slot,
         \A h \in Handle : T[h].open /\ SlotOf(T[h]) = i => Clean(d, T[h])
  PROVE  \A k \in 1 .. Len(L[i]) : Fits(d.sector[L[i][k]], L[i], k) /\ Begun(d.sector[L[i][k]], k)
<1> SUFFICES ASSUME NEW k \in 1 .. Len(L[i])
             PROVE  Fits(d.sector[L[i][k]], L[i], k) /\ Begun(d.sector[L[i][k]], k)
  OBVIOUS
<1>1. Fits(d.sector[L[i][k]], L[i], k)
  BY DEF Sound
<1>2. ASSUME NEW h \in Handle, Buffers(T[h], i, k) PROVE Begun(d.sector[L[i][k]], k)
  <2>1. T[h].open /\ SlotOf(T[h]) = i /\ T[h].bufindex + 1 = k
    BY <1>2 DEF Buffers
  <2>2. InPlace(T[h], L[i])
    BY <2>1 DEF Sound
  <2>3. Begun(T[h].buffer, k) /\ T[h].bufsect = L[i][k]
    BY <2>1, <2>2 DEF InPlace
  <2>4. T[h].buffer = d.sector[L[i][k]]
    BY <2>1, <2>3 DEF Clean
  <2>5. QED
    BY <2>3, <2>4
<1>3. QED
  BY <1>1, <1>2 DEF Sound

\* Rewritten, when nothing is written.
LEMMA TableOnly ==
  ASSUME NEW d, NEW T, NEW L, Sound(d, T, L), NEW i \in Slot, NEW h \in Handle, NEW f \in FILE,
         T[h].open => SlotOf(T[h]) = i /\ Clean(d, T[h]),
         \A g \in Handle : g # h /\ T[g].open => SlotOf(T[g]) # i,
         f.open => SlotOf(f) = i /\ InPlace(f, L[i])
  PROVE  Sound(d, [T EXCEPT ![h] = f], L)
<1>1. \A g \in Handle : T[g].open /\ SlotOf(T[g]) = i => Clean(d, T[g])
  OBVIOUS
<1>2. /\ \A k \in 1 .. Len(L[i]) : Fits(d.sector[L[i][k]], L[i], k)
      /\ \A k \in 1 .. Len(L[i]) : Begun(d.sector[L[i][k]], k) \/ Buffers(f, i, k)
  BY <1>1, AllBegun
<1>3. d.sector \in [Sector -> FileSector] /\ d \in Disk
  BY SoundTypes
<1>4. Sound([d EXCEPT !.sector = d.sector], [T EXCEPT ![h] = f], L)
  BY <1>2, <1>3, Rewritten
<1>5. [d EXCEPT !.sector = d.sector] = d
  BY <1>3 DEF Disk
<1>6. QED
  BY <1>4, <1>5

MovedTo(f, offset) == [f EXCEPT !.offset = offset]

\* Another sector of the file is loaded, and the offset set to a byte of it.
LEMMA Loaded ==
  ASSUME NEW d, NEW T, NEW L, Sound(d, T, L), NEW h \in Handle, T[h].open, Clean(d, T[h]),
         NEW k \in 1 .. Len(L[SlotOf(T[h])]), NEW offset \in Nat,
         offset - (k-1) * DataLength \in 0 .. d.sector[L[SlotOf(T[h])][k]].count,
         NEW f, f = MovedTo(Load(d, T[h], L[SlotOf(T[h])][k], k-1), offset)
  PROVE  f \in FILE /\ SlotOf(f) = SlotOf(T[h]) /\ Sound(d, [T EXCEPT ![h] = f], L)
<1> DEFINE i == SlotOf(T[h])
           s == L[i][k]
<1>12. f = MovedTo(Load(d, T[h], s, k-1), offset)
  OBVIOUS
<1>1. i \in Slot /\ T[h] \in FILE /\ \A g \in Handle : g # h /\ T[g].open => SlotOf(T[g]) # i
  BY OpenFile
<1>2. \A g \in Handle : T[g].open /\ SlotOf(T[g]) = i => Clean(d, T[g])
  BY <1>1
<1> HIDE DEF i
<1>3. Fits(d.sector[s], L[i], k) /\ Begun(d.sector[s], k)
  BY <1>1, <1>2, AllBegun DEF i
<1>4. k \in Nat /\ k - 1 \in Nat
  BY <1>1, SoundTypes DEF i
<1>5. s \in Sector
  BY <1>1, SoundTypes, Geometry DEF i
<1>6. d.sector[s] \in FileSector
  BY <1>5, SoundTypes
<1>7. /\ f \in FILE /\ f.open /\ f.ib = T[h].ib /\ f.ibindex = T[h].ibindex
      /\ f.bufsect = s /\ f.buffer = d.sector[s] /\ f.bufindex = k-1 /\ f.offset = offset
  BY <1>1, <1>4, <1>5, <1>6, <1>12, ZenonT(60) DEF FILE, Load, MovedTo
<1>8. SlotOf(f) = i
  BY <1>7 DEF SlotOf, i
<1>9. InPlace(f, L[i])
  <2>1. f.bufindex + 1 = k /\ k \in 1 .. Len(L[i])
    BY <1>4, <1>7 DEF i
  <2>2. offset - (k-1) * DataLength \in 0 .. d.sector[s].count
    BY DEF i
  <2> HIDE DEF s
  <2>3. QED
    BY <1>3, <1>7, <2>1, <2>2 DEF InPlace, s
<1>10. Sound(d, [T EXCEPT ![h] = f], L)
  <2>1. T[h].open => SlotOf(T[h]) = i /\ Clean(d, T[h])
    BY DEF i
  <2>2. f.open => SlotOf(f) = i /\ InPlace(f, L[i])
    BY <1>8, <1>9
  <2>3. QED
    BY <1>1, <1>7, <2>1, <2>2, TableOnly
<1>11. QED
  BY <1>7, <1>8, <1>10 DEF i

\* A FILE that is not in use is not open.
LEMMA ClosedIsFile == Closed \in FILE /\ ~Closed.open
<1>1. [i \in 0 .. DataLength-1 |-> 0] \in [0 .. DataLength-1 -> Bytes \cup {0}]
  OBVIOUS
<1>2. BlankSector \in FileSector
  BY <1>1, Geometry DEF BlankSector, FileSector
<1>3. 0 \in 0 .. PerBlock-1 /\ 0 \in Sector
  BY Geometry
<1>4. QED
  BY <1>2, <1>3 DEF Closed, FILE

\* A FILE is closed that was flushed.
LEMMA Closing ==
  ASSUME NEW d, NEW T, NEW L, Sound(d, T, L), NEW h \in Handle, T[h].open, Clean(d, T[h])
  PROVE  Sound(d, [T EXCEPT ![h] = Closed], L)
<1> DEFINE i == SlotOf(T[h])
<1>1. i \in Slot /\ \A g \in Handle : g # h /\ T[g].open => SlotOf(T[g]) # i
  BY OpenFile
<1>2. T[h].open => SlotOf(T[h]) = i /\ Clean(d, T[h])
  OBVIOUS
<1> HIDE DEF i
<1>3. QED
  BY <1>1, <1>2, ClosedIsFile, TableOnly

\* A FILE for slot i, before it is open.
LEMMA FileAtIs ==
  ASSUME NEW d \in Disk, NEW i \in Slot, d.fp[i] \in Sector,
         NEW ib \in Nat,
         \/ ib = (i \div PerBlock) * PerBlock + 1
         \/ (ib = i \div PerBlock + 1 /\ i < PerBlock)
  PROVE  LET f == [FileAt(d, i, ib) EXCEPT !.open = TRUE]
         IN  /\ f \in FILE /\ f.open /\ SlotOf(f) = i /\ f.bufindex = 0 /\ f.offset = 0
             /\ f.bufsect = d.fp[i] /\ f.buffer = d.sector[d.fp[i]]
<1> DEFINE f == [FileAt(d, i, ib) EXCEPT !.open = TRUE]
<1>1. i % PerBlock \in 0 .. PerBlock-1
  BY Geometry, DivMod
<1>2. d.sector[d.fp[i]] \in FileSector
  BY DEF Disk
<1>3. Closed \in FILE
  BY ClosedIsFile
<1>4. /\ f \in FILE /\ f.open /\ f.ib = ib /\ f.ibindex = i % PerBlock /\ f.bufindex = 0
      /\ f.offset = 0 /\ f.bufsect = d.fp[i] /\ f.buffer = d.sector[d.fp[i]]
  BY <1>1, <1>2, <1>3 DEF FILE, FileAt, Load, Closed
<1> HIDE DEF f
<1>5. SlotOf(f) = i
  BY <1>4, SlotOfIs
<1>6. QED
  BY <1>4, <1>5 DEF f

\* A FILE is opened for a file that exists and that no other is about.
LEMMA Opening ==
  ASSUME NEW d, NEW T, NEW L, Sound(d, T, L), NEW h \in Handle, ~T[h].open, NEW i \in Slot,
         Len(L[i]) > 0, \A g \in Handle : T[g].open => SlotOf(T[g]) # i,
         i < PerBlock
  PROVE  LET f == [FileAt(d, i, i \div PerBlock + 1) EXCEPT !.open = TRUE]
         IN  /\ Sound(d, [T EXCEPT ![h] = f], L)
             /\ f.open /\ SlotOf(f) = i /\ f.bufindex = 0 /\ f.offset = 0 /\ Clean(d, f)
<1> DEFINE ib == i \div PerBlock + 1
           f == [FileAt(d, i, ib) EXCEPT !.open = TRUE]
<1>1. ib \in Nat
  <2> DEFINE b == PerBlock
  <2>1. i \in Nat /\ b \in Nat \ {0}
    BY Geometry
  <2> HIDE DEF b
  <2>2. i \div b \in Nat
    BY <2>1
  <2>3. QED
    BY <2>2 DEF b
<1>2. d \in Disk /\ d.fp[i] \in Sector /\ d.fp[i] = At(L[i], 1) /\ 1 \in 1 .. Len(L[i])
  <2>1. d \in Disk /\ d.fp[i] \in Sector /\ Len(L[i]) \in Nat
    BY SoundTypes
  <2>2. Listed(d, L)
    BY DEF Sound
  <2>3. d.fp[i] = At(L[i], 1)
    BY <2>2 DEF Listed
  <2>4. QED
    BY <2>1, <2>3
<1>3. d.fp[i] = L[i][1]
  BY <1>2 DEF At
<1>4. ib = i \div PerBlock + 1 /\ i < PerBlock
  OBVIOUS
<1> HIDE DEF ib
<1>5. /\ f \in FILE /\ f.open /\ SlotOf(f) = i /\ f.bufindex = 0 /\ f.offset = 0
      /\ f.bufsect = d.fp[i] /\ f.buffer = d.sector[d.fp[i]]
  BY <1>1, <1>2, <1>4, FileAtIs
<1> HIDE DEF f
<1>6. Fits(f.buffer, L[i], 1) /\ Begun(f.buffer, 1)
  BY <1>2, <1>3, <1>5 DEF Sound, Begun
<1>7. f.buffer.count \in Nat
  BY <1>6, Geometry DEF Fits, FileSector
<1>8. InPlace(f, L[i])
  <2>1. f.offset - f.bufindex * DataLength = 0
    BY <1>5, Geometry
  <2>2. f.bufindex + 1 = 1
    BY <1>5
  <2>3. QED
    BY <1>2, <1>3, <1>5, <1>6, <1>7, <2>1, <2>2 DEF InPlace
<1>9. Sound(d, [T EXCEPT ![h] = f], L)
  BY <1>5, <1>8, TableOnly
<1>10. Clean(d, f)
  BY <1>5 DEF Clean
<1>11. QED
  BY <1>5, <1>9, <1>10 DEF f, ib

-----------------------------------------------------------------------------
(* The loops.  For each there is a function that gives its state after each *)
(* round.                                                                  *)

\* What holds at first and is kept by each round holds after every round.
LEMMA Along ==
  ASSUME NEW N \in Nat, NEW S, 0 \in S, \A n \in 1 .. N : n-1 \in S => n \in S
  PROVE  \A n \in 0 .. N : n \in S
<1> DEFINE T == {n \in Nat : n <= N => n \in S}
<1>1. 0 \in T
  OBVIOUS
<1>2. ASSUME NEW n \in T PROVE n+1 \in T
  <2>1. n \in Nat /\ (n <= N => n \in S)
    OBVIOUS
  <2>2. n+1 <= N => n+1 \in 1 .. N /\ (n+1)-1 = n
    BY <2>1
  <2>3. n+1 <= N => n+1 \in S
    BY <2>1, <2>2
  <2>4. QED
    BY <2>1, <2>3
<1>3. T \subseteq Nat
  OBVIOUS
<1> HIDE DEF T
<1>4. T = Nat
  BY <1>1, <1>2, <1>3, NatSetInduction
<1>5. QED
  BY <1>4 DEF T

\* the sectors at 0 .. k links from s
Links(f, d, s, k) ==
  f = [m \in 0 .. k |-> IF m = 0 THEN s ELSE d.sector[f[m-1]].next]

\* There is such a function, for any number of links.
LEMMA LinksExists ==
  ASSUME NEW d, NEW s, NEW n \in Nat
  PROVE  \E f : Links(f, d, s, n)
<1> DEFINE Round(g, m) == IF m = 0 THEN s ELSE d.sector[g[m-1]].next
           T == {k \in Nat : \E f : f = [m \in 0 .. k |-> Round(f, m)]}
<1>1. 0 \in T
  <2> DEFINE f == [m \in 0 .. 0 |-> s]
  <2>1. \A m \in 0 .. 0 : Round(f, m) = s
    OBVIOUS
  <2>2. f = [m \in 0 .. 0 |-> Round(f, m)]
    <3> HIDE DEF Round
    <3> QED BY <2>1
  <2> HIDE DEF f, Round
  <2>3. QED
    BY <2>2
<1>2. ASSUME NEW k \in T PROVE k+1 \in T
  <2>1. k \in Nat
    OBVIOUS
  <2>2. PICK f : f = [m \in 0 .. k |-> Round(f, m)]
    <3> HIDE DEF Round
    <3> QED OBVIOUS
  <2> DEFINE h == [m \in 0 .. k+1 |-> Round(f, m)]
  <2>3. \A m \in 0 .. k : h[m] = f[m]
    <3> HIDE DEF Round
    <3> QED BY <2>1, <2>2
  <2>4. \A m \in 0 .. k+1 : Round(f, m) = Round(h, m)
    <3> SUFFICES ASSUME NEW m \in 0 .. k+1 PROVE Round(f, m) = Round(h, m)
      OBVIOUS
    <3>1. m = 0 \/ m-1 \in 0 .. k
      BY <2>1
    <3> HIDE DEF h
    <3>2. QED
      BY <3>1, <2>3
  <2>5. h = [m \in 0 .. k+1 |-> Round(h, m)]
    BY <2>4
  <2> HIDE DEF h, Round
  <2>6. QED
    BY <2>1, <2>5
<1>3. T = Nat
  <2>1. T \subseteq Nat
    OBVIOUS
  <2> HIDE DEF T
  <2>2. QED
    BY <1>1, <1>2, <2>1, NatSetInduction
<1>4. QED
  BY <1>3 DEF Links

\* the sums of the first 0 .. k of the numbers c
Sums(f, c, k) ==
  f = [m \in 0 .. k |-> IF m = 0 THEN 0 ELSE f[m-1] + c[m]]

\* There is such a function, for any number of summands.
LEMMA SumsExists ==
  ASSUME NEW c, NEW n \in Nat
  PROVE  \E f : Sums(f, c, n)
<1> DEFINE Round(g, m) == IF m = 0 THEN 0 ELSE g[m-1] + c[m]
           T == {k \in Nat : \E f : f = [m \in 0 .. k |-> Round(f, m)]}
<1>1. 0 \in T
  <2> DEFINE f == [m \in 0 .. 0 |-> 0]
  <2>1. \A m \in 0 .. 0 : Round(f, m) = 0
    OBVIOUS
  <2>2. f = [m \in 0 .. 0 |-> Round(f, m)]
    <3> HIDE DEF Round
    <3> QED BY <2>1
  <2> HIDE DEF f, Round
  <2>3. QED
    BY <2>2
<1>2. ASSUME NEW k \in T PROVE k+1 \in T
  <2>1. k \in Nat
    OBVIOUS
  <2>2. PICK f : f = [m \in 0 .. k |-> Round(f, m)]
    <3> HIDE DEF Round
    <3> QED OBVIOUS
  <2> DEFINE h == [m \in 0 .. k+1 |-> Round(f, m)]
  <2>3. \A m \in 0 .. k : h[m] = f[m]
    <3> HIDE DEF Round
    <3> QED BY <2>1, <2>2
  <2>4. \A m \in 0 .. k+1 : Round(f, m) = Round(h, m)
    <3> SUFFICES ASSUME NEW m \in 0 .. k+1 PROVE Round(f, m) = Round(h, m)
      OBVIOUS
    <3>1. m = 0 \/ m-1 \in 0 .. k
      BY <2>1
    <3> HIDE DEF h
    <3>2. QED
      BY <3>1, <2>3
  <2>5. h = [m \in 0 .. k+1 |-> Round(h, m)]
    BY <2>4
  <2> HIDE DEF h, Round
  <2>6. QED
    BY <2>1, <2>5
<1>3. T = Nat
  <2>1. T \subseteq Nat
    OBVIOUS
  <2> HIDE DEF T
  <2>2. QED
    BY <1>1, <1>2, <2>1, NatSetInduction
<1>4. QED
  BY <1>3 DEF Sums

\* disk d after the sectors of l were toggled one by one
Freed(f, d, l, k) ==
  f = [m \in 0 .. k |-> IF m = 0 THEN d ELSE toggle(f[m-1], l[m])]

\* There is such a function, for any number of sectors.
LEMMA FreedExists ==
  ASSUME NEW d, NEW l, NEW n \in Nat
  PROVE  \E f : Freed(f, d, l, n)
<1> DEFINE Round(g, m) == IF m = 0 THEN d ELSE toggle(g[m-1], l[m])
           T == {k \in Nat : \E f : f = [m \in 0 .. k |-> Round(f, m)]}
<1>1. 0 \in T
  <2> DEFINE f == [m \in 0 .. 0 |-> d]
  <2>1. \A m \in 0 .. 0 : Round(f, m) = d
    OBVIOUS
  <2>2. f = [m \in 0 .. 0 |-> Round(f, m)]
    <3> HIDE DEF Round
    <3> QED BY <2>1
  <2> HIDE DEF f, Round
  <2>3. QED
    BY <2>2
<1>2. ASSUME NEW k \in T PROVE k+1 \in T
  <2>1. k \in Nat
    OBVIOUS
  <2>2. PICK f : f = [m \in 0 .. k |-> Round(f, m)]
    <3> HIDE DEF Round
    <3> QED OBVIOUS
  <2> DEFINE h == [m \in 0 .. k+1 |-> Round(f, m)]
  <2>3. \A m \in 0 .. k : h[m] = f[m]
    <3> HIDE DEF Round
    <3> QED BY <2>1, <2>2
  <2>4. \A m \in 0 .. k+1 : Round(f, m) = Round(h, m)
    <3> SUFFICES ASSUME NEW m \in 0 .. k+1 PROVE Round(f, m) = Round(h, m)
      OBVIOUS
    <3>1. m = 0 \/ m-1 \in 0 .. k
      BY <2>1
    <3> HIDE DEF h
    <3>2. QED
      BY <3>1, <2>3
  <2>5. h = [m \in 0 .. k+1 |-> Round(h, m)]
    BY <2>4
  <2> HIDE DEF h, Round
  <2>6. QED
    BY <2>1, <2>5
<1>3. T = Nat
  <2>1. T \subseteq Nat
    OBVIOUS
  <2> HIDE DEF T
  <2>2. QED
    BY <1>1, <1>2, <2>1, NatSetInduction
<1>4. QED
  BY <1>3 DEF Freed

\* the rounds of fread
ReadRounds(f, start, k) ==
  f = [m \in 0 .. k |-> IF m = 0 THEN start ELSE ReadByte(f[m-1])]

\* There is such a function, for any number of rounds.
LEMMA ReadRoundsExists ==
  ASSUME NEW start, NEW n \in Nat
  PROVE  \E f : ReadRounds(f, start, n)
<1> DEFINE Round(g, m) == IF m = 0 THEN start ELSE ReadByte(g[m-1])
           T == {k \in Nat : \E f : f = [m \in 0 .. k |-> Round(f, m)]}
<1>1. 0 \in T
  <2> DEFINE f == [m \in 0 .. 0 |-> start]
  <2>1. \A m \in 0 .. 0 : Round(f, m) = start
    OBVIOUS
  <2>2. f = [m \in 0 .. 0 |-> Round(f, m)]
    <3> HIDE DEF Round
    <3> QED BY <2>1
  <2> HIDE DEF f, Round
  <2>3. QED
    BY <2>2
<1>2. ASSUME NEW k \in T PROVE k+1 \in T
  <2>1. k \in Nat
    OBVIOUS
  <2>2. PICK f : f = [m \in 0 .. k |-> Round(f, m)]
    <3> HIDE DEF Round
    <3> QED OBVIOUS
  <2> DEFINE h == [m \in 0 .. k+1 |-> Round(f, m)]
  <2>3. \A m \in 0 .. k : h[m] = f[m]
    <3> HIDE DEF Round
    <3> QED BY <2>1, <2>2
  <2>4. \A m \in 0 .. k+1 : Round(f, m) = Round(h, m)
    <3> SUFFICES ASSUME NEW m \in 0 .. k+1 PROVE Round(f, m) = Round(h, m)
      OBVIOUS
    <3>1. m = 0 \/ m-1 \in 0 .. k
      BY <2>1
    <3> HIDE DEF h
    <3>2. QED
      BY <3>1, <2>3
  <2>5. h = [m \in 0 .. k+1 |-> Round(h, m)]
    BY <2>4
  <2> HIDE DEF h, Round
  <2>6. QED
    BY <2>1, <2>5
<1>3. T = Nat
  <2>1. T \subseteq Nat
    OBVIOUS
  <2> HIDE DEF T
  <2>2. QED
    BY <1>1, <1>2, <2>1, NatSetInduction
<1>4. QED
  BY <1>3 DEF ReadRounds

\* the rounds of fwrite
WriteRounds(f, start, bytes, k) ==
  f = [m \in 0 .. k |-> IF m = 0 THEN start ELSE WriteByte(f[m-1], bytes[m])]

\* There is such a function, for any number of rounds.
LEMMA WriteRoundsExists ==
  ASSUME NEW start, NEW bytes, NEW n \in Nat
  PROVE  \E f : WriteRounds(f, start, bytes, n)
<1> DEFINE Round(g, m) == IF m = 0 THEN start ELSE WriteByte(g[m-1], bytes[m])
           T == {k \in Nat : \E f : f = [m \in 0 .. k |-> Round(f, m)]}
<1>1. 0 \in T
  <2> DEFINE f == [m \in 0 .. 0 |-> start]
  <2>1. \A m \in 0 .. 0 : Round(f, m) = start
    OBVIOUS
  <2>2. f = [m \in 0 .. 0 |-> Round(f, m)]
    <3> HIDE DEF Round
    <3> QED BY <2>1
  <2> HIDE DEF f, Round
  <2>3. QED
    BY <2>2
<1>2. ASSUME NEW k \in T PROVE k+1 \in T
  <2>1. k \in Nat
    OBVIOUS
  <2>2. PICK f : f = [m \in 0 .. k |-> Round(f, m)]
    <3> HIDE DEF Round
    <3> QED OBVIOUS
  <2> DEFINE h == [m \in 0 .. k+1 |-> Round(f, m)]
  <2>3. \A m \in 0 .. k : h[m] = f[m]
    <3> HIDE DEF Round
    <3> QED BY <2>1, <2>2
  <2>4. \A m \in 0 .. k+1 : Round(f, m) = Round(h, m)
    <3> SUFFICES ASSUME NEW m \in 0 .. k+1 PROVE Round(f, m) = Round(h, m)
      OBVIOUS
    <3>1. m = 0 \/ m-1 \in 0 .. k
      BY <2>1
    <3> HIDE DEF h
    <3>2. QED
      BY <3>1, <2>3
  <2>5. h = [m \in 0 .. k+1 |-> Round(h, m)]
    BY <2>4
  <2> HIDE DEF h, Round
  <2>6. QED
    BY <2>1, <2>5
<1>3. T = Nat
  <2>1. T \subseteq Nat
    OBVIOUS
  <2> HIDE DEF T
  <2>2. QED
    BY <1>1, <1>2, <2>1, NatSetInduction
<1>4. QED
  BY <1>3 DEF WriteRounds

-----------------------------------------------------------------------------
(* A file as its user sees it.                                             *)

\* Seen, for any disk and table
Buffering(T, s) == {h \in Handle : T[h].open /\ T[h].bufsect = s}
Shown(d, T, s) ==
  IF Buffering(T, s) = {} THEN d.sector[s] ELSE T[CHOOSE h \in Buffering(T, s) : TRUE].buffer

\* A sector of a file is shown by the FILE that is about the file, if it buffers it.
LEMMA ShownIs ==
  ASSUME NEW d, NEW T, NEW L, Sound(d, T, L), NEW i \in Slot, NEW k \in 1 .. Len(L[i])
  PROVE  /\ \A h \in Handle : T[h].open /\ SlotOf(T[h]) = i =>
              Shown(d, T, L[i][k]) = IF T[h].bufindex + 1 = k THEN T[h].buffer
                                                              ELSE d.sector[L[i][k]]
         /\ (\A h \in Handle : T[h].open => SlotOf(T[h]) # i) =>
              Shown(d, T, L[i][k]) = d.sector[L[i][k]]
         /\ \A h \in Handle : T[h].open /\ T[h].bufsect = L[i][k] <=> Buffers(T[h], i, k)
         /\ Fits(Shown(d, T, L[i][k]), L[i], k) /\ Begun(Shown(d, T, L[i][k]), k)
<1> DEFINE s == L[i][k]
<1>1. ASSUME NEW h \in Handle PROVE h \in Buffering(T, s) <=> Buffers(T[h], i, k)
  <2>1. CASE ~T[h].open
    BY <2>1 DEF Buffering, Buffers
  <2>2. CASE T[h].open
    <3> DEFINE j == SlotOf(T[h])
               m == T[h].bufindex + 1
    <3>1. j \in Slot /\ m \in 1 .. Len(L[j]) /\ T[h].bufsect = L[j][m]
      BY <2>2, OpenFile
    <3>2. L[j][m] = L[i][k] <=> j = i /\ m = k
      <4> HIDE DEF j, m
      <4> QED BY <3>1, SoundParts
    <3>3. QED
      BY <2>2, <3>1, <3>2 DEF Buffering, Buffers
  <2>3. QED
    BY <2>1, <2>2
<1>2. \A g, h \in Handle : Buffers(T[g], i, k) /\ Buffers(T[h], i, k) => g = h
  BY DEF Sound, Buffers
<1>3. ASSUME NEW h \in Handle, Buffers(T[h], i, k) PROVE Shown(d, T, s) = T[h].buffer
  <2>1. Buffering(T, s) = {h}
    BY <1>1, <1>2, <1>3 DEF Buffering
  <2>2. QED
    BY <2>1 DEF Shown
<1>4. ASSUME \A h \in Handle : ~Buffers(T[h], i, k) PROVE Shown(d, T, s) = d.sector[s]
  <2>1. Buffering(T, s) = {}
    BY <1>1, <1>4 DEF Buffering
  <2>2. QED
    BY <2>1 DEF Shown
<1> HIDE DEF s
<1>5. ASSUME NEW h \in Handle, T[h].open, SlotOf(T[h]) = i
      PROVE  Shown(d, T, s) = IF T[h].bufindex + 1 = k THEN T[h].buffer ELSE d.sector[s]
  <2>1. \A g \in Handle : Buffers(T[g], i, k) => g = h
    BY <1>5, OpenFile
  <2>2. CASE T[h].bufindex + 1 = k
    BY <1>3, <1>5, <2>2 DEF Buffers
  <2>3. CASE T[h].bufindex + 1 # k
    BY <1>4, <2>1, <2>3 DEF Buffers
  <2>4. QED
    BY <2>2, <2>3
<1>6. ASSUME \A h \in Handle : T[h].open => SlotOf(T[h]) # i
      PROVE  Shown(d, T, s) = d.sector[s]
  BY <1>4, <1>6 DEF Buffers
<1>7. Fits(Shown(d, T, s), L[i], k) /\ Begun(Shown(d, T, s), k)
  <2>1. CASE \E h \in Handle : Buffers(T[h], i, k)
    <3>1. PICK h \in Handle : Buffers(T[h], i, k)
      BY <2>1
    <3>2. T[h].open /\ SlotOf(T[h]) = i /\ T[h].bufindex + 1 = k
      BY <3>1 DEF Buffers
    <3>3. InPlace(T[h], L[i])
      BY <3>2 DEF Sound
    <3>4. QED
      BY <1>3, <3>1, <3>2, <3>3 DEF InPlace
  <2>2. CASE ~\E h \in Handle : Buffers(T[h], i, k)
    <3>1. Fits(d.sector[s], L[i], k) /\ Begun(d.sector[s], k)
      BY <2>2 DEF Sound, s
    <3>2. QED
      BY <1>4, <2>2, <3>1
  <2>3. QED
    BY <2>1, <2>2
<1>8. \A h \in Handle : T[h].open /\ T[h].bufsect = s <=> Buffers(T[h], i, k)
  BY <1>1 DEF Buffering
<1>9. QED
  BY <1>5, <1>6, <1>7, <1>8 DEF s

\* The sectors of a file but the last are full.
Length(d, T, l) == (Len(l) - 1) * DataLength + Shown(d, T, l[Len(l)]).count

\* _fs_get_file_size counts the bytes of the file, the buffered ones as they are in
\* the buffer.
LEMMA SizeIs ==
  ASSUME NEW d, NEW T, NEW L, Sound(d, T, L), NEW h \in Handle, T[h].open
  PROVE  get_file_size(d, T[h]) = Length(d, T, L[SlotOf(T[h])])
<1> DEFINE f == T[h]
           i == SlotOf(f)
           l == L[i]
           Count(s) == IF s = f.bufsect THEN f.buffer.count ELSE d.sector[s].count
           c == [m \in 1 .. Len(l) |-> Count(l[m])]
           chain == Chain(d, d.fp[i])
           Upto(g) == [m \in 0 .. Len(l) |-> IF m = 0 THEN 0 ELSE g[m-1] + Count(l[m])]
           g == CHOOSE g : g = Upto(g)
<1>1. i \in Slot /\ f.bufindex + 1 \in 1 .. Len(l) /\ f.bufsect = l[f.bufindex+1]
  BY OpenFile
<1>2. Len(l) \in Nat /\ Len(l) > 0 /\ l \in Seq(Usable)
  BY <1>1, SoundTypes
<1>3. chain = l
  BY <1>1, ListsAre
<1>4. get_file_size(d, f) = g[Len(l)]
  BY <1>3 DEF get_file_size
<1>5. \A m \in 1 .. Len(l) : Count(l[m]) = Shown(d, T, l[m]).count
  <2>1. \A m \in 1 .. Len(l) : l[m] = f.bufsect <=> f.bufindex + 1 = m
    BY <1>1 DEF Sound, Listed
  <2>2. \A m \in 1 .. Len(l) :
          Shown(d, T, l[m]) = IF f.bufindex + 1 = m THEN f.buffer ELSE d.sector[l[m]]
    BY <1>1, ShownIs
  <2>3. QED
    BY <2>1, <2>2
<1>6. \A m \in 1 .. Len(l) : /\ Shown(d, T, l[m]).count \in Nat
                             /\ m < Len(l) => Shown(d, T, l[m]).count = DataLength
  <2> SUFFICES ASSUME NEW m \in 1 .. Len(l)
               PROVE  /\ Shown(d, T, l[m]).count \in Nat
                      /\ m < Len(l) => Shown(d, T, l[m]).count = DataLength
    OBVIOUS
  <2>1. Fits(Shown(d, T, l[m]), l, m)
    BY <1>1, ShownIs
  <2>2. QED
    BY <2>1, Geometry DEF Fits, FileSector
<1>7. g = Upto(g)
  <2>1. PICK e : Sums(e, c, Len(l))
    BY <1>2, SumsExists
  <2>2. e = Upto(e)
    <3>1. \A m \in 1 .. Len(l) : c[m] = Count(l[m])
      OBVIOUS
    <3> HIDE DEF c, Count, l
    <3>2. QED
      BY <2>1, <3>1 DEF Sums
  <2> HIDE DEF Upto
  <2>3. QED
    BY <2>2
<1>8. g[0] = 0 /\ \A m \in 1 .. Len(l) : g[m] = g[m-1] + Shown(d, T, l[m]).count
  <2> HIDE DEF g, Count
  <2>1. \A m \in 0 .. Len(l) : g[m] = IF m = 0 THEN 0 ELSE g[m-1] + Count(l[m])
    BY <1>7
  <2>2. QED
    BY <1>2, <1>5, <2>1
<1> HIDE DEF g, l
<1> DEFINE S == {m \in Nat : m < Len(l) => g[m] = m * DataLength}
<1>9. \A m \in 0 .. Len(l) : m \in S
  <2>1. 0 \in S
    BY <1>8, Geometry
  <2>2. ASSUME NEW m \in 1 .. Len(l), m-1 \in S PROVE m \in S
    <3>1. SUFFICES ASSUME m < Len(l) PROVE g[m] = m * DataLength
      BY <1>2
    <3>2. g[m-1] = (m-1) * DataLength /\ Shown(d, T, l[m]).count = DataLength
      BY <1>2, <1>6, <2>2, <3>1
    <3>3. g[m] = (m-1) * DataLength + DataLength
      BY <1>8, <3>2
    <3>4. QED
      BY <3>3, Geometry
  <2> HIDE DEF S
  <2>3. QED
    BY <1>2, <2>1, <2>2, Along
<1>10. Len(l)-1 \in S /\ Len(l)-1 < Len(l)
  BY <1>2, <1>9
<1>11. g[Len(l)] = (Len(l)-1) * DataLength + Shown(d, T, l[Len(l)]).count
  BY <1>2, <1>8, <1>10
<1>12. QED
  BY <1>4, <1>11 DEF Length, l

\* Following links from a place of a file leads to the places behind it.
LEMMA WalkIs ==
  ASSUME NEW d, NEW T, NEW L, Sound(d, T, L), NEW i \in Slot, NEW a \in 1 .. Len(L[i]),
         NEW n \in Nat, a + n <= Len(L[i])
  PROVE  Walk(d, L[i][a], n) = L[i][a+n]
<1> DEFINE l == L[i]
           s == l[a]
           After(g) == [k \in 0 .. n |-> IF k = 0 THEN s ELSE d.sector[g[k-1]].next]
           g == CHOOSE g : g = After(g)
<1>1. Len(l) \in Nat /\ a \in Nat
  BY SoundTypes
<1>2. Walk(d, s, n) = g[n]
  BY DEF Walk
<1>3. g = After(g)
  <2>1. PICK e : Links(e, d, s, n)
    BY LinksExists
  <2>2. e = After(e)
    BY <2>1 DEF Links
  <2> HIDE DEF After
  <2>3. QED
    BY <2>2
<1>4. g[0] = s /\ \A k \in 1 .. n : g[k] = d.sector[g[k-1]].next
  <2> HIDE DEF g, s
  <2>1. \A k \in 0 .. n : g[k] = IF k = 0 THEN s ELSE d.sector[g[k-1]].next
    BY <1>3
  <2>2. QED
    BY <2>1
<1>5. \A k \in 1 .. Len(l) : d.sector[l[k]].next = At(l, k+1)
  BY DEF Sound, Fits
<1> HIDE DEF g, l
<1> DEFINE S == {k \in Nat : g[k] = l[a+k]}
<1>6. \A k \in 0 .. n : k \in S
  <2>1. 0 \in S
    BY <1>1, <1>4
  <2>2. ASSUME NEW k \in 1 .. n, k-1 \in S PROVE k \in S
    <3>1. a+(k-1) \in 1 .. Len(l) /\ a+(k-1)+1 = a+k /\ a+k \in 1 .. Len(l)
      BY <1>1 DEF l
    <3>2. g[k] = At(l, a+k)
      BY <1>4, <1>5, <2>2, <3>1
    <3>3. QED
      BY <3>1, <3>2 DEF At
  <2> HIDE DEF S
  <2>3. QED
    BY <2>1, <2>2, Along
<1>7. QED
  BY <1>2, <1>6 DEF l

\* Nothing changes for the users of the files.
Quiet(d, T, e, U, L) ==
  /\ Sound(e, U, L)
  /\ e.name = d.name
  /\ \A i \in Slot : \A k \in 1 .. Len(L[i]) : Shown(e, U, L[i][k]) = Shown(d, T, L[i][k])

\* A sector of another file is shown as before.
LEMMA ShownOther ==
  ASSUME NEW d, NEW T, NEW L, Sound(d, T, L), NEW e, NEW U, NEW M, Sound(e, U, M),
         NEW h \in Handle, \A g \in Handle : g # h => U[g] = T[g],
         NEW i \in Slot, T[h].open => SlotOf(T[h]) = i, U[h].open => SlotOf(U[h]) = i,
         NEW j \in Slot, j # i, M[j] = L[j], NEW k \in 1 .. Len(L[j]),
         e.sector[L[j][k]] = d.sector[L[j][k]]
  PROVE  Shown(e, U, L[j][k]) = Shown(d, T, L[j][k])
<1>1. \A g \in Handle : g # h => U[g] = T[g]
  OBVIOUS
<1>2. k \in 1 .. Len(M[j])
  OBVIOUS
<1>3. CASE \E g \in Handle : g # h /\ T[g].open /\ SlotOf(T[g]) = j
  <2>1. PICK g \in Handle : g # h /\ T[g].open /\ SlotOf(T[g]) = j
    BY <1>3
  <2>2. U[g] = T[g]
    BY <1>1, <2>1
  <2>3. Shown(d, T, L[j][k]) = IF T[g].bufindex + 1 = k THEN T[g].buffer ELSE d.sector[L[j][k]]
    BY <2>1, ShownIs
  <2>4. Shown(e, U, M[j][k]) = IF U[g].bufindex + 1 = k THEN U[g].buffer ELSE e.sector[M[j][k]]
    BY <1>2, <2>1, <2>2, ShownIs
  <2>5. QED
    BY <2>2, <2>3, <2>4
<1>4. CASE ~\E g \in Handle : g # h /\ T[g].open /\ SlotOf(T[g]) = j
  <2>1. \A g \in Handle : T[g].open => SlotOf(T[g]) # j
    BY <1>4
  <2>2. \A g \in Handle : U[g].open => SlotOf(U[g]) # j
    BY <1>1, <1>4
  <2>3. Shown(d, T, L[j][k]) = d.sector[L[j][k]]
    BY <2>1, ShownIs
  <2>4. Shown(e, U, M[j][k]) = e.sector[M[j][k]]
    BY <1>2, <2>2, ShownIs
  <2>5. QED
    BY <2>3, <2>4
<1>5. QED
  BY <1>3, <1>4

\* fflush changes nothing for the users of files.
LEMMA QuietFlush ==
  ASSUME NEW d, NEW T, NEW L, Sound(d, T, L), NEW h \in Handle, T[h].open
  PROVE  Quiet(d, T, fflush(d, T[h]), T, L) /\ Clean(fflush(d, T[h]), T[h])
<1> DEFINE e == fflush(d, T[h])
           f == T[h]
           i == SlotOf(f)
<1>1. Sound(e, T, L) /\ Clean(e, f)
  BY Flushed
<1>2. d \in Disk /\ f.bufsect \in Sector /\ d.sector \in [Sector -> FileSector]
  BY SoundTypes, OpenFile, Geometry
<1>3. e.name = d.name /\ \A s \in Sector : s # f.bufsect => e.sector[s] = d.sector[s]
  BY <1>2 DEF fflush, Disk
<1> HIDE DEF e
<1>4. i \in Slot /\ f.bufindex + 1 \in 1 .. Len(L[i]) /\ f.bufsect = L[i][f.bufindex+1]
  BY OpenFile
<1>5. ASSUME NEW j \in Slot, NEW k \in 1 .. Len(L[j]), ~(j = i /\ k = f.bufindex + 1)
      PROVE  e.sector[L[j][k]] = d.sector[L[j][k]]
  <2>1. L[j][k] # f.bufsect
    BY <1>4, <1>5 DEF Sound, Listed
  <2>2. L[j][k] \in Sector
    BY SoundTypes, Geometry
  <2>3. QED
    BY <1>3, <2>1, <2>2
<1>6. ASSUME NEW j \in Slot, NEW k \in 1 .. Len(L[j])
      PROVE  Shown(e, T, L[j][k]) = Shown(d, T, L[j][k])
  <2>1. CASE j = i
    <3>1. T[h].open /\ SlotOf(T[h]) = i /\ f = T[h]
      OBVIOUS
    <3> HIDE DEF f, i
    <3>2. Shown(d, T, L[i][k]) = IF f.bufindex + 1 = k THEN f.buffer ELSE d.sector[L[i][k]]
      BY <1>4, <2>1, <3>1, ShownIs
    <3>3. Shown(e, T, L[i][k]) = IF f.bufindex + 1 = k THEN f.buffer ELSE e.sector[L[i][k]]
      BY <1>1, <1>4, <2>1, <3>1, ShownIs
    <3>4. QED
      BY <1>4, <1>5, <2>1, <3>2, <3>3
  <2>2. CASE j # i
    <3>1. T[h].open => SlotOf(T[h]) = i
      OBVIOUS
    <3>2. e.sector[L[j][k]] = d.sector[L[j][k]]
      BY <1>5, <2>2
    <3> HIDE DEF i, f
    <3>3. QED
      BY <1>1, <1>4, <2>2, <3>1, <3>2, ShownOther
  <2>3. QED
    BY <2>1, <2>2
<1>7. QED
  BY <1>1, <1>3, <1>6 DEF Quiet, e, f

\* A FILE that is, or was, about a file shows what the disk has.
LEMMA QuietTable ==
  ASSUME NEW d, NEW T, NEW L, Sound(d, T, L), NEW i \in Slot, NEW h \in Handle, NEW f,
         Sound(d, [T EXCEPT ![h] = f], L),
         T[h].open => SlotOf(T[h]) = i /\ Clean(d, T[h]),
         \A g \in Handle : g # h /\ T[g].open => SlotOf(T[g]) # i,
         f.open => SlotOf(f) = i /\ Clean(d, f)
  PROVE  Quiet(d, T, d, [T EXCEPT ![h] = f], L)
<1> DEFINE U == [T EXCEPT ![h] = f]
<1>1. U[h] = f /\ \A g \in Handle : g # h => U[g] = T[g]
  BY SoundTypes
<1>2. Sound(d, U, L)
  OBVIOUS
<1> HIDE DEF U
<1>3. \A g \in Handle : T[g].open /\ SlotOf(T[g]) = i => g = h /\ Clean(d, T[g])
  OBVIOUS
<1>4. \A g \in Handle : U[g].open /\ SlotOf(U[g]) = i => g = h /\ Clean(d, U[g])
  BY <1>1
<1>5. ASSUME NEW V, Sound(d, V, L),
             \A g \in Handle : V[g].open /\ SlotOf(V[g]) = i => Clean(d, V[g]),
             NEW k \in 1 .. Len(L[i])
      PROVE  Shown(d, V, L[i][k]) = d.sector[L[i][k]]
  <2>1. CASE \E g \in Handle : V[g].open /\ SlotOf(V[g]) = i
    <3>1. PICK g \in Handle : V[g].open /\ SlotOf(V[g]) = i
      BY <2>1
    <3>2. V[g].bufsect = L[i][V[g].bufindex+1]
      BY <1>5, <3>1, OpenFile
    <3>3. d.sector[V[g].bufsect] = V[g].buffer
      BY <1>5, <3>1 DEF Clean
    <3>4. Shown(d, V, L[i][k]) = IF V[g].bufindex + 1 = k THEN V[g].buffer ELSE d.sector[L[i][k]]
      BY <1>5, <3>1, ShownIs
    <3>5. QED
      BY <3>2, <3>3, <3>4
  <2>2. CASE ~\E g \in Handle : V[g].open /\ SlotOf(V[g]) = i
    <3>1. \A g \in Handle : V[g].open => SlotOf(V[g]) # i
      BY <2>2
    <3>2. QED
      BY <1>5, <3>1, ShownIs
  <2>3. QED
    BY <2>1, <2>2
<1>6. ASSUME NEW j \in Slot, NEW k \in 1 .. Len(L[j])
      PROVE  Shown(d, U, L[j][k]) = Shown(d, T, L[j][k])
  <2>1. CASE j = i
    <3>1. Shown(d, T, L[i][k]) = d.sector[L[i][k]]
      BY <1>3, <1>5, <2>1
    <3>2. Shown(d, U, L[i][k]) = d.sector[L[i][k]]
      BY <1>2, <1>4, <1>5, <2>1
    <3>3. QED
      BY <2>1, <3>1, <3>2
  <2>2. CASE j # i
    <3>1. U[h].open => SlotOf(U[h]) = i
      BY <1>1
    <3>2. QED
      BY <1>1, <1>2, <2>2, <3>1, ShownOther
  <2>3. QED
    BY <2>1, <2>2
<1>7. QED
  BY <1>2, <1>6 DEF Quiet, U

\* A flushed FILE loads a sector of its file and moves to a byte of it.
LEMMA QuietLoad ==
  ASSUME NEW d, NEW T, NEW L, Sound(d, T, L), NEW h \in Handle, T[h].open, Clean(d, T[h]),
         NEW k \in 1 .. Len(L[SlotOf(T[h])]), NEW offset \in Nat,
         offset - (k-1) * DataLength \in 0 .. d.sector[L[SlotOf(T[h])][k]].count,
         NEW f, f = MovedTo(Load(d, T[h], L[SlotOf(T[h])][k], k-1), offset)
  PROVE  /\ f \in FILE /\ SlotOf(f) = SlotOf(T[h]) /\ f.open /\ Clean(d, f) /\ f.offset = offset
         /\ Quiet(d, T, d, [T EXCEPT ![h] = f], L)
<1> DEFINE i == SlotOf(T[h])
<1>1. f \in FILE /\ SlotOf(f) = i /\ Sound(d, [T EXCEPT ![h] = f], L)
  BY Loaded
<1>2. i \in Slot /\ T[h] \in FILE /\ \A g \in Handle : g # h /\ T[g].open => SlotOf(T[g]) # i
  BY OpenFile
<1>3. f.open /\ f.buffer = d.sector[L[i][k]] /\ f.bufsect = L[i][k] /\ f.offset = offset
  BY <1>2 DEF Load, FILE, MovedTo
<1>4. Clean(d, f)
  BY <1>3 DEF Clean
<1>5. T[h].open => SlotOf(T[h]) = i /\ Clean(d, T[h])
  OBVIOUS
<1> HIDE DEF i
<1>6. Quiet(d, T, d, [T EXCEPT ![h] = f], L)
  BY <1>1, <1>2, <1>4, <1>5, QuietTable
<1>7. QED
  BY <1>1, <1>3, <1>4, <1>6 DEF i

\* A FILE moves within its buffer.
LEMMA QuietMove ==
  ASSUME NEW d, NEW T, NEW L, Sound(d, T, L), NEW h \in Handle, T[h].open, NEW offset \in Nat,
         offset - T[h].bufindex * DataLength \in 0 .. T[h].buffer.count,
         NEW f, f = MovedTo(T[h], offset)
  PROVE  /\ f \in FILE /\ SlotOf(f) = SlotOf(T[h]) /\ f.open /\ f.offset = offset
         /\ Quiet(d, T, d, [T EXCEPT ![h] = f], L)
<1> DEFINE i == SlotOf(T[h])
           U == [T EXCEPT ![h] = f]
<1>1. i \in Slot /\ T[h] \in FILE /\ InPlace(T[h], L[i])
  BY OpenFile
<1>2. /\ f \in FILE /\ f.open /\ f.ib = T[h].ib /\ f.ibindex = T[h].ibindex /\ f.offset = offset
      /\ f.bufsect = T[h].bufsect /\ f.buffer = T[h].buffer /\ f.bufindex = T[h].bufindex
  BY <1>1 DEF FILE, MovedTo
<1>3. U[h] = f /\ \A g \in Handle : g # h => U[g] = T[g]
  BY SoundTypes
<1>4. SlotOf(f) = i
  BY <1>2 DEF SlotOf
<1>5. InPlace(f, L[i])
  BY <1>1, <1>2 DEF InPlace
<1>6. Sound(d, U, L)
  BY <1>2, <1>4, <1>5, Kept
<1> HIDE DEF U
<1>7. ASSUME NEW s PROVE Shown(d, U, s) = Shown(d, T, s)
  <2>1. \A g \in Handle : U[g].open = T[g].open /\ U[g].bufsect = T[g].bufsect
                          /\ U[g].buffer = T[g].buffer
    <3> SUFFICES ASSUME NEW g \in Handle
                 PROVE  U[g].open = T[g].open /\ U[g].bufsect = T[g].bufsect
                        /\ U[g].buffer = T[g].buffer
      OBVIOUS
    <3>1. CASE g = h
      <4>1. f.open = T[h].open
        BY <1>1, <1>2 DEF FILE
      <4>2. QED
        BY <1>2, <1>3, <3>1, <4>1
    <3>2. CASE g # h
      BY <1>3, <3>2
    <3>3. QED
      BY <3>1, <3>2
  <2>2. Buffering(U, s) = Buffering(T, s)
    BY <2>1 DEF Buffering
  <2>3. ASSUME Buffering(T, s) # {}
        PROVE  (CHOOSE g \in Buffering(T, s) : TRUE) \in Handle
    BY <2>3 DEF Buffering
  <2>4. QED
    BY <2>1, <2>2, <2>3 DEF Shown
<1>8. QED
  BY <1>2, <1>4, <1>6, <1>7 DEF Quiet, U

\* Two changes that no user sees are one that no user sees.
LEMMA QuietThen ==
  ASSUME NEW d, NEW T, NEW e, NEW U, NEW x, NEW V, NEW L,
         Quiet(d, T, e, U, L), Quiet(e, U, x, V, L)
  PROVE  Quiet(d, T, x, V, L)
BY DEF Quiet

-----------------------------------------------------------------------------
(* Seeks *)

\* The offset of h changes, and nothing else that its user sees.
Moves(T, U, h, offset) ==
  /\ U[h].open /\ SlotOf(U[h]) = SlotOf(T[h]) /\ U[h].offset = offset
  /\ \A g \in Handle : g # h => U[g] = T[g]

\* With the buffer flushed, the user sees the sectors as they are on the disk.
LEMMA CleanShown ==
  ASSUME NEW d, NEW T, NEW L, Sound(d, T, L), NEW h \in Handle, T[h].open, Clean(d, T[h]),
         NEW k \in 1 .. Len(L[SlotOf(T[h])])
  PROVE  Shown(d, T, L[SlotOf(T[h])][k]) = d.sector[L[SlotOf(T[h])][k]]
<1> DEFINE i == SlotOf(T[h])
<1>1. i \in Slot /\ T[h].bufsect = L[i][T[h].bufindex+1]
  BY OpenFile
<1>2. Shown(d, T, L[i][k]) = IF T[h].bufindex + 1 = k THEN T[h].buffer ELSE d.sector[L[i][k]]
  BY <1>1, ShownIs
<1>3. QED
  BY <1>1, <1>2 DEF Clean

\* An offset up to the end of the file is at a byte of its sector or at its end.
LEMMA OffsetIn ==
  ASSUME NEW d, NEW T, NEW L, Sound(d, T, L), NEW i \in Slot, NEW offset \in Nat,
         offset <= Length(d, T, L[i]), (offset \div DataLength) + 1 <= Len(L[i])
  PROVE  LET index == offset \div DataLength
         IN  /\ index \in Nat /\ index + 1 \in 1 .. Len(L[i])
             /\ offset - index * DataLength \in 0 .. Shown(d, T, L[i][index+1]).count
<1> DEFINE b == DataLength
           index == offset \div b
           l == L[i]
<1>1. b \in Nat \ {0}
  BY Geometry
<1> HIDE DEF b
<1>2. index \in Nat /\ offset % b \in 0 .. b-1 /\ offset = index * b + (offset % b)
  BY <1>1
<1>3. index + 1 \in 1 .. Len(l)
  BY <1>2, SoundTypes DEF b
<1>4. Fits(Shown(d, T, l[index+1]), l, index+1)
  BY <1>3, ShownIs
<1> HIDE DEF index, l
<1>5. Shown(d, T, l[index+1]).count \in Nat
  BY <1>4, Geometry DEF Fits, FileSector
<1>6. offset - index * b \in 0 .. b-1
  BY <1>1, <1>2
<1>7. CASE index + 1 < Len(l)
  <2>1. Shown(d, T, l[index+1]).count = b
    BY <1>4, <1>7 DEF Fits, b
  <2>2. QED
    BY <1>1, <1>2, <1>3, <1>6, <2>1 DEF b, index, l
<1>8. CASE index + 1 = Len(l)
  <2>1. offset <= index * b + Shown(d, T, l[index+1]).count
    BY <1>2, <1>3, <1>8 DEF Length, b, l
  <2>2. offset - index * b <= Shown(d, T, l[index+1]).count
    BY <1>1, <1>2, <1>5, <2>1
  <2>3. QED
    BY <1>1, <1>2, <1>3, <1>5, <1>6, <2>2 DEF b, index, l
<1>9. QED
  BY <1>3, <1>7, <1>8, SoundTypes DEF l

\* The offset of an open FILE is never past the end of the file.
LEMMA OffsetUpTo ==
  ASSUME NEW d, NEW T, NEW L, Sound(d, T, L), NEW h \in Handle, T[h].open
  PROVE  /\ T[h].offset \in Nat /\ Length(d, T, L[SlotOf(T[h])]) \in Nat
         /\ T[h].offset <= Length(d, T, L[SlotOf(T[h])])
<1> DEFINE f == T[h]
           i == SlotOf(f)
           l == L[i]
           k == f.bufindex + 1
           n == Len(l)
           last == Shown(d, T, l[n])
<1>1. i \in Slot /\ InPlace(f, l) /\ f \in FILE /\ f.bufindex \in Nat /\ k \in 1 .. Len(l)
  BY OpenFile
<1>2. n \in Nat /\ n > 0 /\ f.offset \in Nat /\ DataLength \in Nat
  <2>1. n \in Nat /\ DataLength \in Nat
    BY <1>1, SoundTypes, Geometry
  <2>2. f.offset \in Nat
    BY <1>1 DEF FILE
  <2> HIDE DEF f, i, l, n
  <2>3. QED
    BY <1>1, <2>1, <2>2 DEF n
<1>3. Fits(last, l, n)
  <2>1. n \in 1 .. Len(l)
    BY <1>2
  <2>2. QED
    BY <1>1, <2>1, ShownIs
<1>4. last.count \in Nat
  BY <1>3, Geometry DEF Fits, FileSector
<1>5. Fits(f.buffer, l, k) /\ f.offset - f.bufindex * DataLength \in 0 .. f.buffer.count
  BY <1>1 DEF InPlace
<1>6. f.buffer.count \in 0 .. DataLength
  BY <1>5, Geometry DEF Fits, FileSector
<1>7. Length(d, T, l) = (n-1) * DataLength + last.count
  BY DEF Length
<1>8. CASE k = n
  <2>1. last = f.buffer
    <3>1. Shown(d, T, l[k]) = IF f.bufindex + 1 = k THEN f.buffer ELSE d.sector[l[k]]
      BY <1>1, ShownIs
    <3>2. QED
      BY <1>8, <3>1
  <2>2. f.bufindex = n-1
    BY <1>1, <1>2, <1>8
  <2> HIDE DEF f, i, l, k, n, last
  <2>3. QED
    BY <1>2, <1>4, <1>5, <1>7, <2>1, <2>2 DEF f, i, l
<1>9. CASE k < n
  <2> HIDE DEF f, i, l, n, last
  <2>1. n-1 - (f.bufindex+1) \in Nat
    BY <1>1, <1>2, <1>9
  <2>2. (n-1) * DataLength = (f.bufindex+1) * DataLength + (n-1 - (f.bufindex+1)) * DataLength
    BY <1>1, <1>2
  <2>3. (n-1 - (f.bufindex+1)) * DataLength \in Nat
    BY <1>2, <2>1
  <2>4. (f.bufindex+1) * DataLength = f.bufindex * DataLength + DataLength
        /\ f.bufindex * DataLength \in Nat
    BY <1>1, <1>2
  <2>5. f.offset <= (n-1) * DataLength /\ (n-1) * DataLength \in Nat
    BY <1>2, <1>5, <1>6, <2>2, <2>3, <2>4
  <2>6. QED
    BY <1>2, <1>4, <1>7, <2>5 DEF f, i, l
<1>10. QED
  BY <1>1, <1>2, <1>8, <1>9

\* A seek that finds the sector of the offset moves its user there, and changes
\* nothing else.
LEMMA SoughtIs ==
  ASSUME NEW d, NEW T, NEW L, Sound(d, T, L), NEW h \in Handle, T[h].open, NEW offset \in Nat,
         NEW i, i = SlotOf(T[h]), offset <= Length(d, T, L[i]),
         NEW index, index = offset \div DataLength, index + 1 <= Len(L[i]), NEW e, NEW U,
         LET f == T[h] IN
         \/ /\ index = f.bufindex /\ e \in {d, fflush(d, f)}
            /\ U = [T EXCEPT ![h] = MovedTo(f, offset)]
         \/ /\ e = fflush(d, f)
            /\ U = [T EXCEPT ![h] = MovedTo(Load(e, f, L[i][index+1], index), offset)]
  PROVE  Quiet(d, T, e, U, L) /\ Moves(T, U, h, offset)
<1> DEFINE f == T[h]
           d1 == fflush(d, f)
           at == offset - index * DataLength
<1>1. i \in Slot /\ f \in FILE /\ f.bufindex \in Nat
  BY OpenFile
<1>2. Quiet(d, T, d1, T, L) /\ Clean(d1, f)
  BY QuietFlush
<1>3. index \in Nat /\ index + 1 \in 1 .. Len(L[i]) /\ at \in 0 .. Shown(d, T, L[i][index+1]).count
  BY <1>1, OffsetIn
<1>4. ASSUME NEW x, Quiet(d, T, x, T, L), index = f.bufindex,
             U = [T EXCEPT ![h] = MovedTo(f, offset)]
      PROVE  Quiet(d, T, x, U, L) /\ Moves(T, U, h, offset)
  <2> DEFINE k == MovedTo(f, offset)
  <2>1. Shown(d, T, L[i][index+1]) = f.buffer
    BY <1>1, <1>3, <1>4, ShownIs
  <2>2. offset - f.bufindex * DataLength \in 0 .. f.buffer.count
    BY <1>3, <1>4, <2>1
  <2>3. k.open /\ SlotOf(k) = i /\ Quiet(x, T, x, U, L) /\ k.offset = offset
    <3>1. Sound(x, T, L) /\ k = MovedTo(T[h], offset)
      BY <1>4 DEF Quiet
    <3> HIDE DEF k
    <3>2. k.open /\ SlotOf(k) = i /\ k.offset = offset /\ Quiet(x, T, x, [T EXCEPT ![h] = k], L)
      BY <2>2, <3>1, QuietMove
    <3>3. QED
      BY <1>4, <3>1, <3>2
  <2>4. U[h] = k /\ \A g \in Handle : g # h => U[g] = T[g]
    BY <1>4, SoundTypes
  <2> HIDE DEF k
  <2>5. Quiet(d, T, x, U, L)
    BY <1>4, <2>3, QuietThen
  <2>6. QED
    BY <2>3, <2>4, <2>5 DEF Moves
<1>5. CASE e = d1 /\ U = [T EXCEPT ![h] = MovedTo(Load(e, f, L[i][index+1], index), offset)]
  <2> DEFINE k == MovedTo(Load(e, f, L[i][index+1], index), offset)
  <2>1. Sound(e, T, L) /\ Clean(e, f)
    BY <1>2, <1>5 DEF Quiet
  <2>2. Shown(e, T, L[i][index+1]) = e.sector[L[i][index+1]]
    BY <1>3, <2>1, CleanShown
  <2>3. Shown(e, T, L[i][index+1]) = Shown(d, T, L[i][index+1])
    BY <1>1, <1>2, <1>3, <1>5 DEF Quiet
  <2>4. offset - ((index+1)-1) * DataLength \in 0 .. e.sector[L[i][index+1]].count /\ (index+1)-1 = index
    BY <1>3, <2>2, <2>3
  <2>5. k = MovedTo(Load(e, T[h], L[SlotOf(T[h])][index+1], (index+1)-1), offset)
    BY <2>4
  <2>8. U[h] = k /\ \A g \in Handle : g # h => U[g] = T[g]
    BY <1>5, SoundTypes
  <2>9. U = [T EXCEPT ![h] = k]
    BY <1>5
  <2> HIDE DEF k
  <2>6. SlotOf(k) = i /\ k.open /\ k.offset = offset /\ Quiet(e, T, e, [T EXCEPT ![h] = k], L)
    <3>1. /\ index+1 \in 1 .. Len(L[SlotOf(T[h])])
          /\ offset - ((index+1)-1) * DataLength \in 0 .. e.sector[L[SlotOf(T[h])][index+1]].count
      BY <1>3, <2>4
    <3>2. SlotOf(k) = SlotOf(T[h]) /\ k.open /\ k.offset = offset
          /\ Quiet(e, T, e, [T EXCEPT ![h] = k], L)
      BY <2>1, <2>5, <3>1, QuietLoad
    <3>3. QED
      BY <3>2
  <2>7. Quiet(d, T, e, U, L)
    BY <1>2, <1>5, <2>6, <2>9, QuietThen
  <2>10. QED
    BY <2>6, <2>7, <2>8 DEF Moves
<1>6. Quiet(d, T, d, T, L)
  BY DEF Quiet
<1>7. QED
  BY <1>2, <1>4, <1>5, <1>6

-----------------------------------------------------------------------------
(* The calls of fseek *)

\* The sector of an offset is the last that does not begin behind it.
LEMMA InSector ==
  ASSUME NEW offset \in Nat
  PROVE  /\ offset \div DataLength \in Nat
         /\ \A q \in Nat : q * DataLength <= offset => q <= offset \div DataLength
<1> DEFINE b == DataLength
           a == offset \div b
<1>1. b \in Nat \ {0}
  BY Geometry
<1> HIDE DEF b
<1>2. a \in Nat /\ offset % b \in 0 .. b-1 /\ offset = a * b + (offset % b)
  BY <1>1
<1>3. ASSUME NEW q \in Nat, q * b <= offset, q > a PROVE FALSE
  <2> HIDE DEF a
  <2>1. q - a - 1 \in Nat /\ q = a + 1 + (q - a - 1)
    BY <1>2, <1>3
  <2>2. q * b = a * b + b + (q - a - 1) * b /\ (q - a - 1) * b \in Nat
    BY <1>1, <1>2, <2>1
  <2>3. QED
    BY <1>1, <1>2, <1>3, <2>2
<1>4. QED
  BY <1>2, <1>3 DEF b
\* A seek is answered: it is done if ok.
Answered(L, h, offset, ok) ==
  \/ /\ ok
     /\ result' = [call |-> "fseek", value |-> 0]
     /\ Quiet(disk, file_pointers, disk', file_pointers', L)
     /\ Moves(file_pointers, file_pointers', h, offset)
  \/ /\ ~ok
     /\ result' = [call |-> "fseek", value |-> NONE]
     /\ UNCHANGED <<disk, file_pointers>>

\* From the first sector of the file to any other.
LEMMA FromStartIs ==
  ASSUME NEW d, NEW T, NEW L, Sound(d, T, L), NEW h \in Handle, T[h].open,
         NEW i, i = SlotOf(T[h]), NEW index \in Nat, index + 1 <= Len(L[i])
  PROVE  FromStart(fflush(d, T[h]), T[h], index)
           = Load(fflush(d, T[h]), T[h], L[i][index+1], index)
<1> DEFINE e == fflush(d, T[h])
<1>1. Sound(e, T, L)
  BY QuietFlush DEF Quiet
<1> HIDE DEF e
<1>2. i \in Slot /\ Len(L[i]) \in Nat
  BY OpenFile, SoundTypes
<1>3. 1 \in 1 .. Len(L[i]) /\ 1 + index <= Len(L[i]) /\ 1 + index = index + 1
  BY <1>2
<1>4. e.fp[i] = L[i][1]
  BY <1>1, <1>2, <1>3 DEF Sound, Listed, At
<1>5. Walk(e, L[i][1], index) = L[i][1+index]
  BY <1>1, <1>2, <1>3, WalkIs
<1>6. FromStart(e, T[h], index) = Load(e, T[h], L[i][index+1], index)
  BY <1>3, <1>4, <1>5 DEF FromStart
<1>7. QED
  BY <1>6 DEF e

\* A seek to a sector of the file that may not be the buffered one
LEMMA SoughtOne ==
  ASSUME NEW L, Sound(disk, file_pointers, L), NEW h \in Handle, file_pointers[h].open,
         NEW offset \in Nat, NEW index, index = offset \div DataLength,
         offset <= Length(disk, file_pointers, L[SlotOf(file_pointers[h])]),
         index + 1 <= Len(L[SlotOf(file_pointers[h])]),
         NEW stays \in BOOLEAN, NEW loaded, Sought(h, offset, index, stays, loaded),
         stays => index = file_pointers[h].bufindex,
         ~stays => \/ loaded = file_pointers[h] /\ index = file_pointers[h].bufindex
                   \/ loaded = Load(fflush(disk, file_pointers[h]), file_pointers[h],
                                    L[SlotOf(file_pointers[h])][index+1], index)
  PROVE  Answered(L, h, offset, TRUE)
<1> DEFINE f == file_pointers[h]
           i == SlotOf(f)
<1>1. /\ disk' = IF stays THEN disk ELSE fflush(disk, f)
      /\ file_pointers' = [file_pointers EXCEPT ![h] = MovedTo(IF stays THEN f ELSE loaded, offset)]
      /\ result' = [call |-> "fseek", value |-> 0]
  BY DEF Sought, MovedTo
<1>2. CASE stays \/ (loaded = f /\ index = f.bufindex)
  <2>1. file_pointers' = [file_pointers EXCEPT ![h] = MovedTo(f, offset)]
    BY <1>1, <1>2
  <2>2. index = f.bufindex /\ disk' \in {disk, fflush(disk, f)}
    BY <1>1, <1>2
  <2>3. /\ Quiet(disk, file_pointers, disk', file_pointers', L)
        /\ Moves(file_pointers, file_pointers', h, offset)
    BY <2>1, <2>2, SoughtIs
  <2>4. QED
    BY <1>1, <2>3 DEF Answered
<1>3. CASE ~stays /\ loaded = Load(fflush(disk, f), f, L[i][index+1], index)
  <2>1. disk' = fflush(disk, f)
    BY <1>1, <1>3
  <2>2. file_pointers' = [file_pointers EXCEPT ![h] =
                            MovedTo(Load(disk', f, L[i][index+1], index), offset)]
    BY <1>1, <1>3, <2>1
  <2>3. /\ Quiet(disk, file_pointers, disk', file_pointers', L)
        /\ Moves(file_pointers, file_pointers', h, offset)
    BY <2>1, <2>2, SoughtIs
  <2>4. QED
    BY <1>1, <2>3 DEF Answered
<1>4. QED
  BY <1>2, <1>3

\* fseek from the start of the file is refused just behind the end of the file.
LEMMA SeekAbsIs ==
  ASSUME NEW L, Sound(disk, file_pointers, L), NEW h \in Handle, file_pointers[h].open,
         NEW offset \in Nat, fseek_abs(h, offset), fault' = "none"
  PROVE  Answered(L, h, offset, offset <= Length(disk, file_pointers, L[SlotOf(file_pointers[h])]))
<1> DEFINE f == file_pointers[h]
           i == SlotOf(f)
           index == offset \div DataLength
           size == Length(disk, file_pointers, L[i])
<1>1. get_file_size(disk, f) = size /\ size \in Nat
  BY SizeIs, OffsetUpTo
<1>2. CASE offset > size
  <2>1. Invalid
    BY <1>1, <1>2 DEF fseek_abs
  <2>2. ~(offset <= size)
    BY <1>1, <1>2
  <2>3. QED
    BY <2>1, <2>2 DEF Invalid, Answered
<1>3. CASE offset <= size
  <2>1. /\ Sought(h, offset, index, index = f.bufindex, FromStart(fflush(disk, f), f, index))
        /\ SeekFault(f, offset, index, FALSE) = "none"
    <3>1. ~(offset > get_file_size(disk, f))
      BY <1>1, <1>3
    <3>2. QED
      BY <3>1 DEF fseek_abs
  <2>2. index = f.bufindex \/ ~(index >= Len(Chain(disk, disk.fp[i])))
    BY <2>1 DEF SeekFault
  <2>3. index \in Nat
    BY InSector
  <2>4. i \in Slot /\ Len(L[i]) \in Nat /\ f.bufindex + 1 <= Len(L[i])
    BY OpenFile, SoundTypes
  <2>5. index + 1 <= Len(L[i])
    <3>1. Chain(disk, disk.fp[i]) = L[i]
      BY <2>4, ListsAre
    <3> HIDE DEF index, f, i
    <3>2. QED
      BY <2>2, <2>3, <2>4, <3>1
  <2>6. FromStart(fflush(disk, f), f, index) = Load(fflush(disk, f), f, L[i][index+1], index)
    BY <2>3, <2>5, FromStartIs
  <2> DEFINE loaded == FromStart(fflush(disk, f), f, index)
             stays == index = f.bufindex
  <2>8. stays \in BOOLEAN /\ Sought(h, offset, index, stays, loaded)
    BY <2>1
  <2> HIDE DEF loaded, index
  <2>9. Answered(L, h, offset, TRUE)
    BY <1>3, <2>5, <2>6, <2>8, SoughtOne DEF loaded, index
  <2>10. QED
    BY <1>3, <2>9 DEF Answered
<1>4. QED
  BY <1>1, <1>2, <1>3

\* What is counted modulo w.
LEMMA Wraps ==
  ASSUME NEW n \in Nat, NEW w \in Nat \ {0}
  PROVE  n % w \in Nat /\ n % w <= n /\ (n < w => n % w = n)
BY DivMod

\* fseek from the position on is refused from the end of the file on.
LEMMA SeekRelIs ==
  ASSUME NEW L, Sound(disk, file_pointers, L), NEW h \in Handle, file_pointers[h].open,
         NEW by \in Nat, fseek_rel(h, by), fault' = "none"
  PROVE  Answered(L, h, file_pointers[h].offset + by,
                  file_pointers[h].offset + by
                    < Length(disk, file_pointers, L[SlotOf(file_pointers[h])]))
<1> DEFINE f == file_pointers[h]
           i == SlotOf(f)
           offset == f.offset + by
           to == offset % Word
           index == to \div DataLength
           jumps == index - f.bufindex
           d == fflush(disk, f)
           size == Length(disk, file_pointers, L[i])
<1>1. get_file_size(disk, f) = size /\ size \in Nat /\ f.offset \in Nat
  BY SizeIs, OffsetUpTo
<1>5. offset \in Nat /\ to \in Nat /\ to <= offset /\ (offset < Word => to = offset)
  <2>1. offset \in Nat
    BY <1>1
  <2> HIDE DEF offset
  <2>2. QED
    BY <2>1, FsAssumption, Wraps
<1>2. CASE to >= size
  <2>1. Invalid
    BY <1>1, <1>2 DEF fseek_rel
  <2>2. ~(offset < size)
    <3> HIDE DEF offset, to, size
    <3>1. QED
      BY <1>1, <1>2, <1>5
  <2>3. QED
    BY <2>1, <2>2 DEF Invalid, Answered
<1>3. CASE to < size
  <2> DEFINE stays == index = f.bufsect
             loaded == CASE jumps = 0 -> f
                         [] jumps > 0 -> Load(d, f, Walk(d, f.bufsect, jumps), index)
                         [] jumps < 0 -> Load(d, f, 0, index)
  <2>1. Sought(h, to, index, stays, loaded) /\ SeekFault(f, offset, index, TRUE) = "none"
    <3>1. ~(to >= get_file_size(disk, f))
      <4> HIDE DEF to, size
      <4>1. QED
        BY <1>1, <1>3, <1>5
    <3>2. QED
      BY <3>1 DEF fseek_rel
  <2>14. to = offset
    <3>1. ~(offset >= Word)
      BY <2>1 DEF SeekFault
    <3> HIDE DEF offset, to
    <3>2. QED
      BY <1>5, <3>1, FsAssumption
  <2>2. /\ stays => index = f.bufindex
        /\ index = f.bufindex \/ ~(index >= Len(Chain(disk, disk.fp[i])))
    BY <2>1 DEF SeekFault
  <2>3. to \in Nat
    BY <1>5
  <2>4. /\ i \in Slot /\ Len(L[i]) \in Nat /\ f.bufindex \in Nat /\ f.bufindex + 1 \in 1 .. Len(L[i])
        /\ f.bufsect = L[i][f.bufindex+1] /\ InPlace(f, L[i])
    BY OpenFile, SoundTypes
  <2>5. Chain(disk, disk.fp[i]) = L[i]
    BY <2>4, ListsAre
  <2>6. Sound(d, file_pointers, L)
    BY QuietFlush DEF Quiet
  <2>7. f.bufindex * DataLength <= to
    <3>1. f.offset - f.bufindex * DataLength \in 0 .. f.buffer.count
      BY <2>4 DEF InPlace
    <3>2. f.bufindex * DataLength \in Nat
      <4>1. f.bufindex \in Nat /\ DataLength \in Nat
        BY <2>4, Geometry
      <4> HIDE DEF f
      <4>2. QED
        BY <4>1
    <3>3. f.bufindex * DataLength <= offset
      BY <1>1, <3>1, <3>2
    <3>4. QED
      BY <2>14, <3>3
  <2>8. index \in Nat /\ f.bufindex <= index
    BY <2>3, <2>4, <2>7, InSector
  <2>9. index + 1 <= Len(L[i])
    <3> HIDE DEF index, f, i, stays
    <3>1. QED
      BY <2>2, <2>4, <2>5, <2>8
  <2>10. \/ loaded = f /\ index = f.bufindex
         \/ loaded = Load(d, f, L[i][index+1], index)
    <3>1. CASE index = f.bufindex
      <4>1. jumps = 0
        BY <2>4, <3>1
      <4>2. QED
        BY <3>1, <4>1
    <3>2. CASE index # f.bufindex
      <4>1. jumps \in Nat /\ jumps > 0 /\ jumps # 0 /\ ~(jumps < 0) /\ (f.bufindex + 1) + jumps = index + 1
        <5> HIDE DEF index, f
        <5>1. QED
          BY <2>4, <2>8, <3>2
      <4> HIDE DEF jumps, d, index, i
      <4>2. Walk(d, L[i][f.bufindex+1], jumps) = L[i][(f.bufindex+1) + jumps]
        BY <2>4, <2>6, <2>9, <4>1, WalkIs
      <4>3. QED
        BY <2>4, <4>1, <4>2
    <3>3. QED
      BY <3>1, <3>2
  <2>11. stays \in BOOLEAN /\ to <= size
    <3> HIDE DEF to, size
    <3>1. QED
      BY <1>1, <1>3, <1>5
  <2> HIDE DEF loaded, index, stays, to
  <2>12. Answered(L, h, to, TRUE)
    BY <2>1, <2>2, <2>3, <2>9, <2>10, <2>11, SoughtOne DEF index
  <2>13. QED
    BY <1>3, <2>12, <2>14 DEF Answered, offset
<1>4. QED
  <2> HIDE DEF to, size
  <2>1. QED
    BY <1>1, <1>2, <1>3, <1>5

\* fseek back is refused just before the start of the file.
LEMMA SeekRevIs ==
  ASSUME NEW L, Sound(disk, file_pointers, L), NEW h \in Handle, file_pointers[h].open,
         NEW by \in Nat, fseek_rel_rev(h, by), fault' = "none"
  PROVE  Answered(L, h, file_pointers[h].offset - by, file_pointers[h].offset - by >= 0)
<1> DEFINE f == file_pointers[h]
           i == SlotOf(f)
           offset == f.offset - by
           index == offset \div DataLength
           size == Length(disk, file_pointers, L[i])
<1>1. size \in Nat /\ f.offset \in Nat /\ f.offset <= size
  BY OffsetUpTo
<1>2. CASE by > f.offset
  <2>1. Invalid
    BY <1>2 DEF fseek_rel_rev
  <2>2. ~(offset >= 0)
    BY <1>1, <1>2
  <2>3. QED
    BY <2>1, <2>2 DEF Invalid, Answered
<1>3. CASE ~(by > f.offset)
  <2> DEFINE stays == index = f.bufsect
             loaded == FromStart(fflush(disk, f), f, index)
  <2>1. Sought(h, offset, index, stays, loaded) /\ SeekFault(f, offset, index, TRUE) = "none"
    BY <1>3 DEF fseek_rel_rev
  <2>2. /\ stays => index = f.bufindex
        /\ index = f.bufindex \/ ~(index >= Len(Chain(disk, disk.fp[i])))
    BY <2>1 DEF SeekFault
  <2>3. offset \in Nat /\ offset <= size /\ offset >= 0
    BY <1>1, <1>3
  <2>4. index \in Nat
    BY <2>3, InSector
  <2>5. i \in Slot /\ Len(L[i]) \in Nat /\ f.bufindex + 1 <= Len(L[i])
    BY OpenFile, SoundTypes
  <2>6. index + 1 <= Len(L[i])
    <3>1. Chain(disk, disk.fp[i]) = L[i]
      BY <2>5, ListsAre
    <3> HIDE DEF index, f, i, stays
    <3>2. QED
      BY <2>2, <2>4, <2>5, <3>1
  <2>7. loaded = Load(fflush(disk, f), f, L[i][index+1], index)
    BY <2>4, <2>6, FromStartIs
  <2>8. stays \in BOOLEAN
    OBVIOUS
  <2> HIDE DEF loaded, index, stays, offset
  <2>9. Answered(L, h, offset, TRUE)
    BY <2>1, <2>2, <2>3, <2>6, <2>7, <2>8, SoughtOne DEF index
  <2>10. QED
    BY <2>3, <2>9 DEF Answered, offset
<1>4. QED
  BY <1>2, <1>3
-----------------------------------------------------------------------------
(* What the users see, of a disk, a table and lists that are sound.        *)

Listing(L) == {i \in Slot : Len(L[i]) > 0}

Text(d, T, l) ==
  [k \in 1 .. Length(d, T, l) |->
     Shown(d, T, l[(k-1) \div DataLength + 1]).data[(k-1) % DataLength]]

NamesOf(d, L) == {d.name[i] : i \in Listing(L)}

ContentsOf(d, T, L) ==
  [n \in NamesOf(d, L) |->
     Text(d, T, L[CHOOSE i \in Listing(L) : d.name[i] = n])]

UsersOf(d, T) ==
  [h \in {g \in Handle : T[g].open} |-> [name |-> d.name[SlotOf(T[h])], pos |-> T[h].offset]]

\* The length of a file is a number.
LEMMA LengthIs ==
  ASSUME NEW d, NEW T, NEW L, Sound(d, T, L), NEW i \in Listing(L)
  PROVE  Length(d, T, L[i]) \in Nat
<1> DEFINE l == L[i]
           x == Shown(d, T, l[Len(l)])
<1>1. i \in Slot /\ Len(l) \in 1 .. Len(l) /\ Len(l) \in Nat
  BY SoundTypes DEF Listing
<1>2. Fits(x, l, Len(l))
  BY <1>1, ShownIs
<1>3. x.count \in Nat /\ DataLength \in Nat
  BY <1>2, Geometry DEF Fits, FileSector
<1> HIDE DEF x, l
<1>4. (Len(l) - 1) * DataLength \in Nat
  BY <1>1, <1>3
<1>5. QED
  BY <1>3, <1>4 DEF Length, x, l

\* A byte of a file is in one of its sectors.
LEMMA ByteIn ==
  ASSUME NEW d, NEW T, NEW L, Sound(d, T, L), NEW i \in Listing(L),
         NEW k \in 1 .. Length(d, T, L[i])
  PROVE  (k-1) \div DataLength + 1 \in 1 .. Len(L[i])
<1> DEFINE l == L[i]
           x == Shown(d, T, l[Len(l)])
           b == DataLength
           q == (k-1) \div b
<1>1. i \in Slot /\ Len(l) \in 1 .. Len(l) /\ Len(l) \in Nat
  BY SoundTypes DEF Listing
<1>2. Fits(x, l, Len(l))
  BY <1>1, ShownIs
<1>3. x.count \in Nat /\ x.count <= b /\ b \in Nat \ {0}
  BY <1>2, Geometry DEF Fits, FileSector
<1>4. k <= (Len(l) - 1) * b + x.count /\ k \in Nat /\ k - 1 \in Nat
  <2>1. Length(d, T, l) \in Nat /\ Length(d, T, l) = (Len(l) - 1) * b + x.count
    BY LengthIs DEF Length
  <2> HIDE DEF l, x, b
  <2>2. QED
    BY <2>1 DEF l
<1> HIDE DEF x, l, b
<1>5. q \in Nat /\ (k-1) % b \in 0 .. b-1 /\ k-1 = q * b + ((k-1) % b)
  BY <1>3, <1>4
<1> HIDE DEF q
<1>6. (Len(l) - 1) * b + b = Len(l) * b
  BY <1>1, <1>3
<1>7. q * b < Len(l) * b
  BY <1>1, <1>3, <1>4, <1>5, <1>6
<1>8. ~(q >= Len(l))
  <2>1. SUFFICES ASSUME q >= Len(l) PROVE FALSE
    OBVIOUS
  <2>2. q = Len(l) + (q - Len(l)) /\ q - Len(l) \in Nat
    BY <1>1, <1>5, <2>1
  <2>3. q * b = Len(l) * b + (q - Len(l)) * b /\ (q - Len(l)) * b \in Nat
    BY <1>1, <1>3, <1>5, <2>2
  <2>4. QED
    BY <1>1, <1>3, <1>5, <1>7, <2>3, SMTT(90)
<1>9. QED
  BY <1>1, <1>5, <1>8 DEF l, q, b

\* Each file is found under its name.
LEMMA ContentsOfIs ==
  ASSUME NEW d, NEW T, NEW L, Sound(d, T, L)
  PROVE  /\ DOMAIN ContentsOf(d, T, L) = NamesOf(d, L)
         /\ \A i \in Listing(L) : d.name[i] \in NamesOf(d, L)
         /\ \A i \in Listing(L) : ContentsOf(d, T, L)[d.name[i]] = Text(d, T, L[i])
         /\ \A i \in Listing(L) : d.name[i] \in Names
         /\ \A i, j \in Listing(L) : d.name[i] = d.name[j] => i = j
<1>1. \A i, j \in Listing(L) : d.name[i] = d.name[j] => i = j
  BY SoundParts DEF Listing
<1>2. ASSUME NEW i \in Listing(L) PROVE ContentsOf(d, T, L)[d.name[i]] = Text(d, T, L[i])
  <2>1. (CHOOSE j \in Listing(L) : d.name[j] = d.name[i]) = i
    BY <1>1
  <2>2. QED
    BY <2>1 DEF ContentsOf, NamesOf
<1>3. ASSUME NEW i \in Listing(L) PROVE d.name[i] \in Names
  <2>1. i \in Slot /\ Len(L[i]) > 0
    BY DEF Listing
  <2>2. d.name[i] # BLANK
    BY <2>1, SoundParts
  <2>3. d.name[i] \in Names \cup {BLANK}
    BY <2>1, SoundTypes
  <2>4. QED
    BY <2>2, <2>3
<1>4. QED
  BY <1>1, <1>2, <1>3 DEF ContentsOf, NamesOf
\* What Contents and Users are.
LEMMA ContentsAre ==
  Survived /\ Sound(disk, file_pointers, Lists(disk)) =>
    /\ Contents = ContentsOf(disk, file_pointers, Lists(disk))
    /\ Users = UsersOf(disk, file_pointers)
    /\ Open = {h \in Handle : file_pointers[h].open}
<1> DEFINE L == Lists(disk)
           T == file_pointers
<1> SUFFICES ASSUME Sound(disk, T, L)
             PROVE  Contents = ContentsOf(disk, T, L) /\ Users = UsersOf(disk, T)
  BY DEF Open
<1>1. L \in [Slot -> Seq(Usable)] /\ \A i \in Slot : Chain(disk, disk.fp[i]) = L[i]
  BY ListsAre, SoundTypes
<1> HIDE DEF L
<1>2. Files = Listing(L)
  <2>1. ASSUME NEW i \in Slot PROVE disk.fp[i] # EOC <=> Len(L[i]) > 0
    <3>1. disk.fp[i] = At(L[i], 1)
      BY DEF Sound, Listed
    <3>2. Len(L[i]) \in Nat /\ \A k \in 1 .. Len(L[i]) : L[i][k] \in Usable
      BY <1>1, SoundTypes
    <3>3. QED
      BY <3>1, <3>2, Geometry DEF At
  <2>2. QED
    BY <2>1 DEF Files, Listing
<1>3. ASSUME NEW i \in Listing(L), NEW k \in 1 .. Len(L[i])
      PROVE  Seen(L[i][k]) = Shown(disk, T, L[i][k])
  <2> DEFINE s == L[i][k]
             at == {h \in Open : T[h].bufsect = s}
  <2>1. i \in Slot
    BY DEF Listing
  <2>2. at = Buffering(T, s)
    BY DEF Open, Buffering
  <2>3. \A h \in Handle : T[h].open /\ T[h].bufsect = s <=> Buffers(T[h], i, k)
    BY <2>1, ShownIs
  <2>4. \A g, h \in at : g = h
    BY <2>2, <2>3 DEF Buffering, Buffers, Sound
  <2>5. at \subseteq Nat
    BY FsAssumption DEF Open, Handle
  <2> HIDE DEF at
  <2>6. ASSUME at # {} PROVE Min(at) = CHOOSE h \in at : TRUE
    BY <2>4, <2>5, <2>6, MinLeast
  <2>7. Seen(s) = IF at = {} THEN disk.sector[s] ELSE T[Min(at)].buffer
    BY DEF Seen, at
  <2>8. QED
    BY <2>2, <2>6, <2>7 DEF Shown
<1>4. ASSUME NEW i \in Listing(L) PROVE Content(i) = Text(disk, T, L[i])
  <2>1. Chain(disk, disk.fp[i]) = L[i] /\ Len(L[i]) \in 1 .. Len(L[i]) /\ Len(L[i]) \in Nat
    BY <1>1, SoundTypes DEF Listing
  <2> DEFINE bytes == (Len(L[i])-1) * DataLength + Seen(L[i][Len(L[i])]).count
  <2>2. bytes = Length(disk, T, L[i])
    BY <1>3, <2>1 DEF Length
  <2>3. Content(i) = [k \in 1 .. bytes |->
                        Seen(L[i][(k-1) \div DataLength + 1]).data[(k-1) % DataLength]]
    BY <2>1 DEF Content, Last
  <2> HIDE DEF bytes
  <2>4. \A k \in 1 .. bytes : (k-1) \div DataLength + 1 \in 1 .. Len(L[i])
    BY <2>2, ByteIn
  <2>5. \A k \in 1 .. bytes : Seen(L[i][(k-1) \div DataLength + 1])
                                = Shown(disk, T, L[i][(k-1) \div DataLength + 1])
    BY <1>3, <2>4
  <2>6. QED
    BY <2>2, <2>3, <2>5 DEF Text
<1>5. Contents = ContentsOf(disk, T, L)
  <2>1. ASSUME NEW n \in {disk.name[i] : i \in Files}
        PROVE  Content(SlotNamed(n)) = Text(disk, T, L[CHOOSE i \in Listing(L) : disk.name[i] = n])
    <3>1. SlotNamed(n) = CHOOSE i \in Listing(L) : disk.name[i] = n
      BY <1>2 DEF SlotNamed
    <3>2. \E i \in Listing(L) : disk.name[i] = n
      BY <1>2
    <3>3. (CHOOSE i \in Listing(L) : disk.name[i] = n) \in Listing(L)
      BY <3>2
    <3>4. QED
      BY <1>4, <3>1, <3>3
  <2>2. QED
    BY <1>2, <2>1 DEF Contents, ContentsOf, NamesOf
<1>6. Users = UsersOf(disk, T)
  BY DEF Users, UsersOf, Open
<1>7. QED
  BY <1>5, <1>6 DEF L

\* If nothing changes for the users of the files, their contents are the same.
LEMMA QuietContents ==
  ASSUME NEW d, NEW T, NEW L, Sound(d, T, L), NEW e, NEW U, Quiet(d, T, e, U, L)
  PROVE  ContentsOf(e, U, L) = ContentsOf(d, T, L)
<1>1. ASSUME NEW i \in Listing(L) PROVE Text(e, U, L[i]) = Text(d, T, L[i])
  <2>1. i \in Slot /\ Len(L[i]) \in 1 .. Len(L[i])
    BY SoundTypes DEF Listing
  <2>2. \A k \in 1 .. Len(L[i]) : Shown(e, U, L[i][k]) = Shown(d, T, L[i][k])
    BY <2>1 DEF Quiet
  <2>3. Length(e, U, L[i]) = Length(d, T, L[i])
    BY <2>1, <2>2 DEF Length
  <2>4. \A k \in 1 .. Length(d, T, L[i]) : (k-1) \div DataLength + 1 \in 1 .. Len(L[i])
    BY ByteIn
  <2>5. QED
    BY <2>2, <2>3, <2>4 DEF Text
<1>2. e.name = d.name
  BY DEF Quiet
<1>3. \A n \in {d.name[i] : i \in Listing(L)} :
        (CHOOSE i \in Listing(L) : d.name[i] = n) \in Listing(L)
  OBVIOUS
<1>4. QED
  BY <1>1, <1>2, <1>3 DEF ContentsOf, NamesOf

\* The contents, if one file changes.
LEMMA OtherText ==
  ASSUME NEW d, NEW T, NEW L, Sound(d, T, L), NEW e, NEW U, NEW M, Sound(e, U, M),
         NEW h \in Handle, \A g \in Handle : g # h => U[g] = T[g],
         NEW i \in Slot, T[h].open => SlotOf(T[h]) = i, U[h].open => SlotOf(U[h]) = i,
         NEW j \in Listing(L), j # i, M[j] = L[j],
         \A s \in Sector : Holds(L[j], s) => e.sector[s] = d.sector[s]
  PROVE  Text(e, U, M[j]) = Text(d, T, L[j])
<1> DEFINE l == L[j]
<1>1. j \in Slot /\ Len(l) \in 1 .. Len(l)
  BY SoundTypes DEF Listing
<1>2. ASSUME NEW k \in 1 .. Len(l) PROVE Shown(e, U, l[k]) = Shown(d, T, l[k])
  <2>1. e.sector[L[j][k]] = d.sector[L[j][k]]
    BY <1>1, SoundTypes, Geometry DEF Holds
  <2>2. QED
    BY <1>1, <2>1, ShownOther
<1>3. Length(e, U, l) = Length(d, T, l)
  BY <1>1, <1>2 DEF Length
<1>4. \A k \in 1 .. Length(d, T, l) : (k-1) \div DataLength + 1 \in 1 .. Len(l)
  BY ByteIn
<1>5. QED
  BY <1>2, <1>3, <1>4 DEF Text
-----------------------------------------------------------------------------
(* The calls: each keeps what is sound and is a call of the store.         *)

\* ContentsAre, of the state after a call.
LEMMA ContentsAfter ==
  Survived' /\ Sound(disk', file_pointers', Lists(disk')) =>
    /\ Contents' = ContentsOf(disk', file_pointers', Lists(disk'))
    /\ Users' = UsersOf(disk', file_pointers')
    /\ Open' = {h \in Handle : file_pointers'[h].open}
<1>1. (Survived /\ Sound(disk, file_pointers, Lists(disk)) =>
         /\ Contents = ContentsOf(disk, file_pointers, Lists(disk))
         /\ Users = UsersOf(disk, file_pointers)
         /\ Open = {h \in Handle : file_pointers[h].open})'
  BY ContentsAre, PTL
<1>2. QED
  BY <1>1

\* What the user of an open FILE has.
LEMMA UserIs ==
  ASSUME NEW d, NEW T, NEW L, Sound(d, T, L), NEW h \in Handle, T[h].open
  PROVE  /\ h \in DOMAIN UsersOf(d, T)
         /\ UsersOf(d, T)[h].name = d.name[SlotOf(T[h])] /\ UsersOf(d, T)[h].pos = T[h].offset
         /\ SlotOf(T[h]) \in Listing(L)
         /\ d.name[SlotOf(T[h])] \in DOMAIN ContentsOf(d, T, L)
         /\ ContentsOf(d, T, L)[d.name[SlotOf(T[h])]] = Text(d, T, L[SlotOf(T[h])])
         /\ Len(Text(d, T, L[SlotOf(T[h])])) = Length(d, T, L[SlotOf(T[h])])
<1> DEFINE i == SlotOf(T[h])
<1>1. i \in Listing(L)
  <2>1. i \in Slot /\ T[h].bufindex + 1 \in 1 .. Len(L[i]) /\ Len(L[i]) \in Nat
    BY OpenFile, SoundTypes
  <2> HIDE DEF i
  <2>2. QED
    BY <2>1 DEF Listing
<1>2. /\ UsersOf(d, T)[h].name = d.name[i] /\ UsersOf(d, T)[h].pos = T[h].offset
      /\ h \in DOMAIN UsersOf(d, T)
  BY DEF UsersOf
<1>3. Length(d, T, L[i]) \in Nat
  BY <1>1, LengthIs
<1> HIDE DEF i
<1>4. Len(Text(d, T, L[i])) = Length(d, T, L[i])
  BY <1>3 DEF Text
<1>5. ContentsOf(d, T, L)[d.name[i]] = Text(d, T, L[i])
  BY <1>1, ContentsOfIs
<1>6. d.name[i] \in DOMAIN ContentsOf(d, T, L)
  BY <1>1, ContentsOfIs
<1>7. QED
  BY <1>1, <1>2, <1>4, <1>5, <1>6 DEF i

\* What the users see, in the state before a call and in the state after it.
LEMMA Before ==
  ASSUME IInv, Survived
  PROVE  /\ Sound(disk, file_pointers, Lists(disk))
         /\ Contents = ContentsOf(disk, file_pointers, Lists(disk))
         /\ Users = UsersOf(disk, file_pointers)
         /\ Open = {h \in Handle : file_pointers[h].open}
         /\ DOMAIN Users = Open
BY ContentsAre DEF IInv, UsersOf

\* What is sound after a call that is no fault is what the users of files then see.
LEMMA After ==
  ASSUME Survived', NEW M, Sound(disk', file_pointers', M)
  PROVE  /\ Contents' = ContentsOf(disk', file_pointers', M)
         /\ Users' = UsersOf(disk', file_pointers')
         /\ IInv'
<1>1. Lists(disk') = M
  BY ListsAre
<1>2. QED
  BY <1>1, ContentsAfter DEF IInv

\* A step that changes nothing for the users of files, but where in them they are.
LEMMA QuietStep ==
  ASSUME IInv, Survived, Survived',
         Quiet(disk, file_pointers, disk', file_pointers', Lists(disk))
  PROVE  IInv' /\ Contents' = Contents /\ Users' = UsersOf(disk, file_pointers')
<1>1. Sound(disk', file_pointers', Lists(disk)) /\ disk'.name = disk.name
  BY DEF Quiet
<1>2. UsersOf(disk', file_pointers') = UsersOf(disk, file_pointers')
  BY <1>1 DEF UsersOf
<1>3. QED
  BY <1>1, <1>2, Before, After, QuietContents

\* the users, when that of FILE h is elsewhere
WithUserAt(V, h, to) == [V EXCEPT ![h].pos = to]

\* The user of one FILE is moved.
LEMMA MovesUsers ==
  ASSUME NEW d, NEW T, NEW U, NEW h \in Handle, T[h].open, NEW offset, Moves(T, U, h, offset)
  PROVE  UsersOf(d, U) = WithUserAt(UsersOf(d, T), h, offset)
<1> DEFINE V == UsersOf(d, T)
           W == UsersOf(d, U)
<1>1. \A g \in Handle : U[g].open <=> T[g].open
  BY DEF Moves
<1>2. DOMAIN W = DOMAIN V /\ h \in DOMAIN V
  BY <1>1 DEF UsersOf
<1>3. \A g \in DOMAIN V : W[g] = IF g = h THEN [V[h] EXCEPT !.pos = offset] ELSE V[g]
  BY <1>1 DEF UsersOf, Moves
<1>4. W = [g \in DOMAIN W |-> W[g]]
  BY DEF UsersOf
<1> HIDE DEF V, W
<1>5. W = [V EXCEPT ![h].pos = offset]
  BY <1>2, <1>3, <1>4
<1>6. QED
  BY <1>5 DEF V, W, WithUserAt

\* A call of fseek that moves its user or is refused is one of the store.
LEMMA SeekStep ==
  ASSUME IInv, Survived, Survived', fault' = "none", NEW h \in Open, NEW offset, NEW ok \in BOOLEAN,
         Answered(Lists(disk), h, offset, ok)
  PROVE  IInv' /\ Store!SeekTo(h, offset, ok)
<1>1. h \in Handle /\ file_pointers[h].open
  BY DEF Open
<1>2. CASE /\ ok
           /\ result' = [call |-> "fseek", value |-> 0]
           /\ Quiet(disk, file_pointers, disk', file_pointers', Lists(disk))
           /\ Moves(file_pointers, file_pointers', h, offset)
  <2>1. IInv' /\ Contents' = Contents /\ Users' = UsersOf(disk, file_pointers')
    BY <1>2, QuietStep
  <2>2. Users' = WithUserAt(Users, h, offset)
    BY <1>1, <1>2, <2>1, Before, MovesUsers
  <2>3. QED
    BY <1>2, <2>1, <2>2 DEF Store!SeekTo, Store!Move, WithUserAt
<1>3. CASE /\ ~ok
           /\ result' = [call |-> "fseek", value |-> NONE]
           /\ UNCHANGED <<disk, file_pointers>>
  <2>1. Quiet(disk, file_pointers, disk', file_pointers', Lists(disk))
    BY <1>3, Before DEF Quiet
  <2>2. IInv' /\ Contents' = Contents /\ Users' = Users
    BY <1>3, <2>1, QuietStep, Before
  <2>3. QED
    BY <1>3, <2>2 DEF Store!SeekTo
<1>4. QED
  BY <1>2, <1>3 DEF Answered

\* The three kinds of fseek are those of the store.
LEMMA SeekCalls ==
  ASSUME IInv, Survived, Survived', fault' = "none", NEW h \in Open, Seek(h)
  PROVE  IInv' /\ \E by \in Offsets : Store!SeekAbs(h, by) \/ Store!SeekRel(h, by) \/ Store!SeekRev(h, by)
<1> DEFINE L == Lists(disk)
           T == file_pointers
           size == Length(disk, T, L[SlotOf(T[h])])
<1>1. h \in Handle /\ T[h].open /\ Sound(disk, T, L)
  BY Before DEF Open
<1>2. /\ Len(Store!Content(h)) = size /\ Users[h].pos = T[h].offset
      /\ size \in Nat /\ T[h].offset \in Nat
  <2>1. Contents = ContentsOf(disk, T, L) /\ Users = UsersOf(disk, T)
    BY Before
  <2>2. Users[h].name = disk.name[SlotOf(T[h])] /\ Users[h].pos = T[h].offset
    BY <1>1, <2>1, UserIs
  <2>3. Len(Contents[disk.name[SlotOf(T[h])]]) = size
    <3>1. Contents[disk.name[SlotOf(T[h])]] = Text(disk, T, L[SlotOf(T[h])])
      BY <1>1, <2>1, UserIs
    <3>2. Len(Text(disk, T, L[SlotOf(T[h])])) = size
      BY <1>1, UserIs
    <3>3. QED
      BY <3>1, <3>2
  <2>4. size \in Nat /\ T[h].offset \in Nat
    BY <1>1, OffsetUpTo
  <2>5. QED
    BY <2>2, <2>3, <2>4 DEF Store!Content
<1>3. PICK by \in Offsets : fseek_abs(h, by) \/ fseek_rel(h, by) \/ fseek_rel_rev(h, by)
  BY DEF Seek
<1>4. by \in Nat
  BY FsAssumption
<1>5. CASE fseek_abs(h, by)
  <2> DEFINE ok == by <= size
  <2>1. Answered(L, h, by, ok) /\ ok \in BOOLEAN
    BY <1>1, <1>4, <1>5, SeekAbsIs
  <2> HIDE DEF ok
  <2>2. IInv' /\ Store!SeekTo(h, by, ok)
    BY <2>1, SeekStep
  <2>3. QED
    BY <1>2, <2>2 DEF Store!SeekAbs, ok
<1>6. CASE fseek_rel(h, by)
  <2> DEFINE ok == T[h].offset + by < size
  <2>1. Answered(L, h, T[h].offset + by, ok) /\ ok \in BOOLEAN
    BY <1>1, <1>4, <1>6, SeekRelIs
  <2> HIDE DEF ok
  <2>2. IInv' /\ Store!SeekTo(h, T[h].offset + by, ok)
    BY <2>1, SeekStep
  <2>3. QED
    BY <1>2, <2>2 DEF Store!SeekRel, ok
<1>7. CASE fseek_rel_rev(h, by)
  <2> DEFINE ok == T[h].offset - by >= 0
  <2>1. Answered(L, h, T[h].offset - by, ok) /\ ok \in BOOLEAN
    BY <1>1, <1>4, <1>7, SeekRevIs
  <2> HIDE DEF ok
  <2>2. IInv' /\ Store!SeekTo(h, T[h].offset - by, ok)
    BY <2>1, SeekStep
  <2>3. QED
    BY <1>2, <2>2 DEF Store!SeekRev, ok
<1>8. QED
  BY <1>3, <1>5, <1>6, <1>7
\* fflush is that of the store.
LEMMA FlushStep ==
  ASSUME IInv, Survived, Survived', fault' = "none", NEW h \in Open, fflush_call(h)
  PROVE  IInv' /\ Store!Flush(h)
<1>1. h \in Handle /\ file_pointers[h].open
  BY DEF Open
<1>2. /\ disk' = fflush(disk, file_pointers[h]) /\ file_pointers' = file_pointers
      /\ result' = [call |-> "fflush", value |-> 0]
  BY DEF fflush_call
<1>3. Quiet(disk, file_pointers, disk', file_pointers', Lists(disk))
  BY <1>1, <1>2, Before, QuietFlush
<1>4. IInv' /\ Contents' = Contents /\ Users' = Users
  BY <1>2, <1>3, Before, QuietStep
<1>5. QED
  BY <1>2, <1>4 DEF Store!Flush

\* fclose is that of the store: the buffer of the FILE is not lost.
LEMMA CloseStep ==
  ASSUME IInv, Survived, Survived', fault' = "none", NEW h \in Open, fclose(h)
  PROVE  IInv' /\ Store!Close(h)
<1> DEFINE T == file_pointers
           L == Lists(disk)
           e == fflush(disk, T[h])
           i == SlotOf(T[h])
<1>1. h \in Handle /\ T[h].open /\ Sound(disk, T, L)
  BY Before DEF Open
<1>2. disk' = e /\ T' = [T EXCEPT ![h] = Closed] /\ result' = [call |-> "fclose", value |-> 0]
  BY DEF fclose
<1>3. Quiet(disk, T, e, T, L) /\ Clean(e, T[h])
  BY <1>1, QuietFlush
<1> HIDE DEF e, L
<1>4. Sound(e, T, L)
  BY <1>3 DEF Quiet
<1>5. Sound(e, [T EXCEPT ![h] = Closed], L)
  BY <1>1, <1>3, <1>4, Closing
<1>6. i \in Slot /\ \A g \in Handle : g # h /\ T[g].open => SlotOf(T[g]) # i
  BY <1>1, OpenFile
<1>7. Quiet(e, T, e, [T EXCEPT ![h] = Closed], L)
  <2>1. T[h].open => SlotOf(T[h]) = i /\ Clean(e, T[h])
    BY <1>3
  <2> HIDE DEF i
  <2>2. QED
    BY <1>1, <1>4, <1>5, <1>6, <2>1, ClosedIsFile, QuietTable
<1>8. Quiet(disk, T, disk', T', L)
  BY <1>2, <1>3, <1>7, QuietThen
<1>9. IInv' /\ Contents' = Contents /\ Users' = UsersOf(disk, T')
  BY <1>8, QuietStep DEF L
<1>10. Users' = Store!Drop(Users, h)
  <2>1. T'[h] = Closed /\ \A g \in Handle : g # h => T'[g] = T[g]
    BY <1>1, <1>2, SoundTypes
  <2>2. {g \in Handle : T'[g].open} = {g \in Handle : T[g].open} \ {h}
    BY <2>1, ClosedIsFile
  <2>3. Users = UsersOf(disk, T)
    BY Before
  <2>4. \A g \in {g \in Handle : T'[g].open} : T'[g] = T[g]
    BY <2>1, <2>2
  <2> HIDE DEF T
  <2>5. QED
    BY <1>9, <2>2, <2>3, <2>4 DEF Store!Drop, UsersOf
<1>11. QED
  BY <1>2, <1>9, <1>10 DEF Store!Close

-----------------------------------------------------------------------------
(* Files that come and go                                                  *)

\* A function with the names of the files and their bytes is the contents.
LEMMA ContentsIf ==
  ASSUME NEW d, NEW T, NEW L, Sound(d, T, L), NEW F, DOMAIN F = NamesOf(d, L),
         F = [n \in DOMAIN F |-> F[n]],
         \A i \in Listing(L) : F[d.name[i]] = Text(d, T, L[i])
  PROVE  ContentsOf(d, T, L) = F
<1> DEFINE G == ContentsOf(d, T, L)
<1>1. G = [n \in DOMAIN G |-> G[n]] /\ DOMAIN G = DOMAIN F
  BY ContentsOfIs DEF ContentsOf
<1>2. ASSUME NEW n \in DOMAIN F PROVE G[n] = F[n]
  <2>1. PICK i \in Listing(L) : d.name[i] = n
    BY DEF NamesOf
  <2>2. G[d.name[i]] = Text(d, T, L[i])
    BY ContentsOfIs
  <2>3. QED
    BY <2>1, <2>2
<1> HIDE DEF G
<1>3. QED
  BY <1>1, <1>2 DEF G

\* OneFile, and what other users see.
OthersSame(d, T, L, e, U, i) ==
  \A j \in Listing(L) : j # i => Text(e, U, L[j]) = Text(d, T, L[j])

\* OneFile, with the other files as their users see them.
LEMMA OthersKept ==
  ASSUME NEW d, NEW T, NEW L, NEW i, NEW h, NEW e, NEW f, NEW l,
         Sound(d, T, L), Changed(d, T, L, i, h, e, f, l),
         NEW V, V = [T EXCEPT ![h] = f]
  PROVE  Sound(e, V, [L EXCEPT ![i] = l]) /\ OthersSame(d, T, L, e, V, i)
<1> DEFINE U == [T EXCEPT ![h] = f]
           M == [L EXCEPT ![i] = l]
<1>7. V = U
  OBVIOUS
<1>1. Sound(e, U, M)
  BY OneFile
<1>2. i \in Slot /\ h \in Handle /\ l \in Seq(Usable)
      /\ (T[h].open => SlotOf(T[h]) = i) /\ (f.open => SlotOf(f) = i)
      /\ \A s \in Sector : ~Holds(l, s) => e.sector[s] = d.sector[s]
  BY DEF Changed
<1>3. U[h] = f /\ \A g \in Handle : g # h => U[g] = T[g]
  BY <1>2, SoundTypes
<1>4. M[i] = l /\ \A k \in Slot : k # i => M[k] = L[k]
  BY <1>2, SoundTypes
<1> HIDE DEF U, M
<1>5. ASSUME NEW j \in Listing(L), j # i PROVE Text(e, U, L[j]) = Text(d, T, L[j])
  <2>1. j \in Slot /\ M[j] = L[j]
    BY <1>4, <1>5 DEF Listing
  <2>2. ASSUME NEW s \in Sector, Holds(L[j], s) PROVE ~Holds(l, s)
    BY <1>1, <1>2, <1>4, <1>5, <2>1, <2>2 DEF Sound, Listed, Holds
  <2>3. U[h].open => SlotOf(U[h]) = i
    BY <1>2, <1>3
  <2>4. Text(e, U, M[j]) = Text(d, T, L[j])
    BY <1>1, <1>2, <1>3, <1>5, <2>1, <2>2, <2>3, OtherText
  <2>5. QED
    BY <2>1, <2>4
<1>6. QED
  BY <1>1, <1>5, <1>7 DEF OthersSame, M

\* The loop of _fs_delete_file clears the bits of the sectors of a file, and no
\* others.
LEMMA FreedIs ==
  ASSUME NEW d \in Disk, NEW l \in Seq(Usable), \A j, k \in 1 .. Len(l) : l[j] = l[k] => j = k,
         \A k \in 1 .. Len(l) : l[k] \in d.used, NEW f, Freed(f, d, l, Len(l))
  PROVE  f[Len(l)] = [d EXCEPT !.used = {s \in d.used : ~Holds(l, s)}]
<1> DEFINE Left(n) == {s \in d.used : ~\E k \in 1 .. n : l[k] = s}
           S == {n \in Nat : f[n] = [d EXCEPT !.used = Left(n)]}
<1>1. f[0] = d /\ \A n \in 1 .. Len(l) : f[n] = toggle(f[n-1], l[n])
  <2>1. \A n \in 0 .. Len(l) : f[n] = IF n = 0 THEN d ELSE toggle(f[n-1], l[n])
    BY DEF Freed
  <2>2. QED
    BY <2>1
<1>2. 0 \in S
  <2>1. Left(0) = d.used
    OBVIOUS
  <2>2. QED
    BY <1>1, <2>1 DEF Disk
<1>3. ASSUME NEW n \in 1 .. Len(l), n-1 \in S PROVE n \in S
  <2>1. f[n-1] = [d EXCEPT !.used = Left(n-1)]
    BY <1>3
  <2>2. l[n] # 0 /\ l[n] \in Left(n-1)
    <3>1. l[n] \in Usable
      OBVIOUS
    <3>2. l[n] # 0
      BY <3>1, Geometry DEF EOC
    <3>3. QED
      BY <3>2
  <2>3. Left(n) = Left(n-1) \ {l[n]}
    OBVIOUS
  <2>4. toggle(f[n-1], l[n]) = [d EXCEPT !.used = Left(n)]
    <3> HIDE DEF Left
    <3>1. f[n-1].used = Left(n-1)
      BY <2>1 DEF Disk
    <3>2. QED
      BY <2>1, <2>2, <2>3, <3>1 DEF toggle, Disk
  <2>5. QED
    BY <1>1, <2>4
<1> HIDE DEF S
<1>4. Len(l) \in S
  <2>1. Len(l) \in Nat
    OBVIOUS
  <2>2. \A n \in 0 .. Len(l) : n \in S
    BY <1>2, <1>3, <2>1, Along
  <2>3. QED
    BY <2>1, <2>2
<1>5. Left(Len(l)) = {s \in d.used : ~Holds(l, s)}
  BY DEF Holds
<1>6. QED
  BY <1>4, <1>5 DEF S
\* A slot is emptied and its sectors are freed.
LEMMA Emptied ==
  ASSUME NEW d, NEW T, NEW L, Sound(d, T, L), NEW h \in Handle, T[h].open, NEW i, i = SlotOf(T[h]),
         NEW e, e = [d EXCEPT !.used = {s \in d.used : ~Holds(L[i], s)},
                              !.fp[i] = EOC, !.name[i] = BLANK]
  PROVE  Changed(d, T, L, i, h, e, Closed, <<>>)
<1>1. i \in Slot /\ \A g \in Handle : g # h /\ T[g].open => SlotOf(T[g]) # i
  BY OpenFile
<1>2. /\ d.used \subseteq 1 .. Size-1 /\ d.fp \in [Slot -> Sector] /\ d \in Disk
      /\ d.name \in [Slot -> Names \cup {BLANK}] /\ d.sector \in [Sector -> FileSector]
  BY SoundTypes
<1>3. /\ e.used = {s \in d.used : ~Holds(L[i], s)} /\ e.sector = d.sector
      /\ e.fp = [d.fp EXCEPT ![i] = EOC] /\ e.name = [d.name EXCEPT ![i] = BLANK]
  BY <1>2 DEF Disk
<1>4. e = [used |-> e.used, fp |-> e.fp, name |-> e.name, sector |-> e.sector]
  BY <1>2 DEF Disk
<1>5. e.used \subseteq 1 .. Size-1 /\ e.fp \in [Slot -> Sector]
      /\ e.name \in [Slot -> Names \cup {BLANK}] /\ e.sector \in [Sector -> FileSector]
  BY <1>1, <1>2, <1>3, Geometry
<1>6. e \in Disk
  BY <1>4, <1>5, Zenon DEF Disk
<1>7. <<>> \in Seq(Usable) /\ Len(<<>>) = 0 /\ 1 .. Len(<<>>) = {}
  OBVIOUS
<1>8. At(<<>>, 1) = EOC /\ \A s : ~Holds(<<>>, s)
  BY <1>7 DEF At, Holds
<1>9. e.name[i] = BLANK /\ \A j \in Slot : j # i => e.name[j] = d.name[j]
  BY <1>1, <1>2, <1>3
<1>10. QED
  BY <1>1, <1>2, <1>3, <1>6, <1>7, <1>8, <1>9, ClosedIsFile DEF Changed

\* What fdelete leaves on the disk.
LEMMA DeleteIs ==
  ASSUME IInv, Survived, NEW h \in Open, fdelete(h)
  PROVE  LET i == SlotOf(file_pointers[h]) IN
         disk' = [disk EXCEPT !.used = {s \in disk.used : ~Holds(Lists(disk)[i], s)},
                              !.fp[i] = EOC, !.name[i] = BLANK]
<1> DEFINE T == file_pointers
           L == Lists(disk)
           i == SlotOf(T[h])
           l == L[i]
           chain == Chain(disk, disk.fp[i])
           d == [disk EXCEPT !.name[i] = BLANK, !.fp[i] = EOC]
           Upto(g) == [n \in 0 .. Len(l) |-> IF n = 0 THEN d ELSE toggle(g[n-1], l[n])]
           g == CHOOSE g : g = Upto(g)
<1>1. h \in Handle /\ T[h].open /\ Sound(disk, T, L)
  BY Before DEF Open
<1>2. i \in Slot
  BY <1>1, OpenFile
<1>3. chain = l /\ l \in Seq(Usable)
  BY <1>1, <1>2, ListsAre, SoundTypes
<1>4. disk' = g[Len(l)]
  BY <1>3 DEF fdelete
<1>5. Len(l) \in Nat
  BY <1>3
<1> HIDE DEF L
<1>6. g = Upto(g)
  <2> HIDE DEF l, d
  <2>1. PICK e : Freed(e, d, l, Len(l))
    BY <1>5, FreedExists
  <2>2. e = Upto(e)
    BY <2>1 DEF Freed
  <2> HIDE DEF Upto
  <2>3. QED
    BY <2>2
<1>7. Freed(g, d, l, Len(l))
  <2> HIDE DEF g, l, d
  <2>1. QED
    BY <1>6 DEF Freed
<1>8. disk \in Disk /\ disk.fp \in [Slot -> Sector] /\ disk.name \in [Slot -> Names \cup {BLANK}]
  BY <1>1, SoundTypes
<1>9. d.used = disk.used /\ d \in Disk
  BY <1>2, <1>8, Geometry DEF Disk
<1>10. \A k \in 1 .. Len(l) : l[k] \in disk.used
  <2>1. Listed(disk, L)
    BY <1>1 DEF Sound
  <2>2. ASSUME NEW k \in 1 .. Len(l) PROVE l[k] \in disk.used
    <3>1. l[k] \in 1 .. Size-1 /\ Holds(l, l[k])
      <4> HIDE DEF l
      <4>1. l[k] \in Usable
        BY <1>3
      <4>2. QED
        BY <4>1, Geometry DEF Holds
    <3>2. QED
      BY <1>2, <2>1, <3>1 DEF Listed
  <2>3. QED
    BY <2>2
<1>11. \A j, k \in 1 .. Len(l) : l[j] = l[k] => j = k
  BY <1>1, <1>2 DEF Sound, Listed
<1>12. g[Len(l)] = [d EXCEPT !.used = {s \in d.used : ~Holds(l, s)}]
  <2> HIDE DEF g, l, d
  <2>1. QED
    BY <1>3, <1>7, <1>9, <1>10, <1>11, FreedIs, SMTT(90)
<1>13. QED
  <2> HIDE DEF g, l
  <2>1. [d EXCEPT !.used = {s \in disk.used : ~Holds(l, s)}]
          = [disk EXCEPT !.used = {s \in disk.used : ~Holds(l, s)}, !.fp[i] = EOC, !.name[i] = BLANK]
    BY <1>8 DEF Disk
  <2>2. QED
    BY <1>4, <1>9, <1>12, <2>1 DEF L, l

\* fdelete is that of the store: the other files stay as they were.
LEMMA DeleteStep ==
  ASSUME IInv, Survived, Survived', fault' = "none", NEW h \in Open, fdelete(h)
  PROVE  IInv' /\ Store!Delete(h)
<1> DEFINE T == file_pointers
           L == Lists(disk)
           i == SlotOf(T[h])
           M == [L EXCEPT ![i] = <<>>]
           n == disk.name[i]
<1>1. h \in Handle /\ T[h].open /\ Sound(disk, T, L)
  BY Before DEF Open
<1>2. T' = [T EXCEPT ![h] = Closed] /\ result' = [call |-> "fdelete", value |-> 0]
  BY DEF fdelete
<1>3. disk' = [disk EXCEPT !.used = {s \in disk.used : ~Holds(L[i], s)},
                           !.fp[i] = EOC, !.name[i] = BLANK]
  BY DeleteIs, Zenon
<1> HIDE DEF L
<1>4. Changed(disk, T, L, i, h, disk', Closed, <<>>)
  <2> HIDE DEF i
  <2>1. i = SlotOf(T[h])
    BY DEF i
  <2>2. QED
    BY <1>1, <1>3, <2>1, Emptied, Zenon
<1>5. /\ Sound(disk', T', M)
      /\ \A j \in Listing(L) : j # i => Text(disk', T', L[j]) = Text(disk, T, L[j])
  <2> DEFINE l == <<>>
  <2>1. M = [L EXCEPT ![i] = l] /\ Changed(disk, T, L, i, h, disk', Closed, l)
    BY <1>4
  <2> HIDE DEF i, l, M
  <2>2. /\ Sound(disk', T', [L EXCEPT ![i] = l])
        /\ \A j \in Listing(L) : j # i => Text(disk', T', L[j]) = Text(disk, T, L[j])
    <3>1. h \in Handle /\ Sound(disk, T, L)
      BY <1>1
    <3>2. Changed(disk, T, L, i, h, disk', Closed, l)
      BY <2>1
    <3>3. T' = [T EXCEPT ![h] = Closed]
      BY <1>2
    <3> HIDE DEF T
    <3>4. Sound(disk', T', [L EXCEPT ![i] = l])
      BY <3>1, <3>2, <3>3, OthersKept
    <3>5. OthersSame(disk, T, L, disk', T', i)
      BY <3>1, <3>2, <3>3, OthersKept
    <3>6. QED
      BY <3>4, <3>5 DEF OthersSame
  <2>3. QED
    BY <2>1, <2>2
<1>6. IInv' /\ Contents' = ContentsOf(disk', T', M) /\ Users' = UsersOf(disk', T')
  BY <1>5, After
<1>7. Contents = ContentsOf(disk, T, L) /\ Users = UsersOf(disk, T)
  BY Before DEF L
<1>8. i \in Listing(L) /\ Users[h].name = n
  BY <1>1, <1>7, UserIs
<1>9. disk'.name[i] = BLANK /\ \A j \in Slot : j # i => disk'.name[j] = disk.name[j]
  <2>1. disk'.name = [disk.name EXCEPT ![i] = BLANK]
    BY <1>3, <1>1, SoundTypes DEF Disk
  <2>2. QED
    BY <1>1, <1>8, <2>1, SoundTypes DEF Listing
<1>10. M[i] = <<>> /\ \A j \in Slot : j # i => M[j] = L[j]
  BY <1>1, <1>8, SoundTypes DEF Listing
<1> HIDE DEF M, i
<1>11. Listing(M) = Listing(L) \ {i}
  <2>1. ~(Len(M[i]) > 0)
    BY <1>10
  <2>2. QED
    BY <1>10, <2>1 DEF Listing
<1>12. \A j \in Listing(L) : n = disk.name[j] => j = i
  BY <1>1, <1>8, ContentsOfIs
<1>13. NamesOf(disk', M) = NamesOf(disk, L) \ {n}
  <2>1. \A j \in Listing(M) : disk'.name[j] = disk.name[j] /\ disk.name[j] # n
    BY <1>9, <1>11, <1>12 DEF Listing
  <2>2. \A j \in Listing(L) : disk.name[j] # n => j \in Listing(M) /\ disk'.name[j] = disk.name[j]
    BY <1>9, <1>11 DEF Listing
  <2> HIDE DEF n
  <2>3. QED
    BY <1>11, <2>1, <2>2 DEF NamesOf
<1>14. Contents' = Store!Drop(Contents, n)
  <2> DEFINE F == Store!Drop(Contents, n)
  <2>1. DOMAIN Contents = NamesOf(disk, L)
    BY <1>1, <1>7, ContentsOfIs
  <2>2. DOMAIN F = NamesOf(disk', M) /\ F = [m \in DOMAIN F |-> F[m]]
    BY <1>13, <2>1 DEF Store!Drop
  <2>3. ASSUME NEW j \in Listing(M) PROVE F[disk'.name[j]] = Text(disk', T', M[j])
    <3>1. j \in Listing(L) /\ j # i /\ j \in Slot
      BY <1>11 DEF Listing
    <3>2. disk'.name[j] = disk.name[j] /\ M[j] = L[j] /\ disk.name[j] # n
      BY <1>9, <1>10, <1>12, <3>1
    <3>3. disk.name[j] \in DOMAIN Contents /\ Contents[disk.name[j]] = Text(disk, T, L[j])
      BY <1>1, <1>7, <2>1, <3>1, ContentsOfIs
    <3>4. F[disk.name[j]] = Contents[disk.name[j]]
      BY <3>2, <3>3 DEF Store!Drop
    <3>5. QED
      BY <1>5, <3>1, <3>2, <3>3, <3>4
  <2> HIDE DEF F
  <2>4. ContentsOf(disk', T', M) = F
    BY <1>5, <2>2, <2>3, ContentsIf
  <2>5. QED
    BY <1>6, <2>4 DEF F
<1>15. Users' = Store!Drop(Users, h)
  <2>1. T'[h] = Closed /\ \A g \in Handle : g # h => T'[g] = T[g]
    BY <1>1, <1>2, SoundTypes
  <2>2. {g \in Handle : T'[g].open} = {g \in Handle : T[g].open} \ {h}
    BY <2>1, ClosedIsFile
  <2>3. \A g \in {g \in Handle : T'[g].open} : T'[g] = T[g] /\ disk'.name[SlotOf(T[g])] = disk.name[SlotOf(T[g])]
    <3>1. \A g \in Handle : g # h /\ T[g].open => SlotOf(T[g]) # i /\ SlotOf(T[g]) \in Slot
      BY <1>1, OpenFile DEF i
    <3>2. QED
      BY <1>9, <2>1, <2>2, <3>1
  <2> HIDE DEF T
  <2>4. QED
    BY <1>6, <1>7, <2>2, <2>3 DEF Store!Drop, UsersOf
<1>16. QED
  BY <1>2, <1>6, <1>8, <1>14, <1>15 DEF Store!Delete
AtStart(n) == [name |-> n, pos |-> 0]

\* FILE f is opened in the place of h, for the file that disk e has for the name n.
Opened(d, T, e, U, h, f, n) ==
  /\ h \in Handle /\ ~T[h].open
  /\ f.open /\ f.offset = 0 /\ e.name[SlotOf(f)] = n
  /\ \A g \in Handle : T[g].open => e.name[SlotOf(T[g])] = d.name[SlotOf(T[g])]
  /\ U = [T EXCEPT ![h] = f]

\* A FILE is opened: it has one more user, at the start.
LEMMA OpenedUsers ==
  ASSUME NEW d, NEW T, NEW L, Sound(d, T, L), NEW e, NEW U, NEW h, NEW f, NEW n,
         Opened(d, T, e, U, h, f, n)
  PROVE  UsersOf(e, U) = Store!Add(UsersOf(d, T), h, AtStart(n))
<1> DEFINE V == UsersOf(d, T)
           new == [name |-> n, pos |-> 0]
<1>9. h \in Handle /\ ~T[h].open /\ f.open /\ f.offset = 0 /\ e.name[SlotOf(f)] = n
      /\ \A g \in Handle : T[g].open => e.name[SlotOf(T[g])] = d.name[SlotOf(T[g])]
  BY DEF Opened
<1>1. U[h] = f /\ \A g \in Handle : g # h => U[g] = T[g]
  BY SoundTypes DEF Opened
<1>2. {g \in Handle : U[g].open} = {g \in Handle : T[g].open} \cup {h}
  BY <1>1, <1>9
<1>3. DOMAIN V = {g \in Handle : T[g].open} /\ h \notin DOMAIN V
  BY <1>9 DEF UsersOf
<1>4. \A g \in {g \in Handle : U[g].open} :
        [name |-> e.name[SlotOf(U[g])], pos |-> U[g].offset] = IF g \in DOMAIN V THEN V[g] ELSE new
  <2> SUFFICES ASSUME NEW g \in Handle, U[g].open
               PROVE  [name |-> e.name[SlotOf(U[g])], pos |-> U[g].offset]
                        = IF g \in DOMAIN V THEN V[g] ELSE new
    OBVIOUS
  <2>1. CASE g = h
    BY <1>1, <1>3, <1>9, <2>1
  <2>2. CASE g # h
    <3>1. U[g] = T[g] /\ T[g].open /\ g \in DOMAIN V
      BY <1>1, <1>3, <2>2
    <3>2. V[g] = [name |-> d.name[SlotOf(T[g])], pos |-> T[g].offset]
      BY <3>1 DEF UsersOf
    <3>3. e.name[SlotOf(T[g])] = d.name[SlotOf(T[g])]
      BY <1>9, <3>1
    <3> HIDE DEF V, new
    <3>4. QED
      BY <3>1, <3>2, <3>3
  <2>3. QED
    BY <2>1, <2>2
<1>5. UsersOf(e, U) = [g \in {g \in Handle : U[g].open} |->
                         [name |-> e.name[SlotOf(U[g])], pos |-> U[g].offset]]
  BY DEF UsersOf
<1>6. Store!Add(V, h, new) = [g \in DOMAIN V \cup {h} |-> IF g \in DOMAIN V THEN V[g] ELSE new]
  BY DEF Store!Add
<1>7. UsersOf(e, U) = Store!Add(V, h, new)
  <2> DEFINE D == {g \in Handle : U[g].open}
             F(g) == [name |-> e.name[SlotOf(U[g])], pos |-> U[g].offset]
             G(g) == IF g \in DOMAIN V THEN V[g] ELSE new
  <2>1. D = DOMAIN V \cup {h}
    BY <1>2, <1>3
  <2>2. UsersOf(e, U) = [g \in D |-> F(g)]
    BY <1>5
  <2>3. Store!Add(V, h, new) = [g \in D |-> G(g)]
    BY <1>6, <2>1
  <2>4. \A g \in D : F(g) = G(g)
    BY <1>4
  <2> HIDE DEF D, F, G
  <2>5. QED
    BY <2>2, <2>3, <2>4
<1> HIDE DEF V, new
<1>8. QED
  BY <1>7 DEF V, new, AtStart

\* A name that no file has is not in use.
LEMMA NotInUse ==
  ASSUME IInv, Survived, NEW n \in Names,
         \A g \in Handle : file_pointers[g].open => disk.name[SlotOf(file_pointers[g])] # n
  PROVE  ~Store!InUse(n)
<1>1. Users = UsersOf(disk, file_pointers)
  BY Before
<1>2. \A g \in DOMAIN Users : g \in Handle /\ file_pointers[g].open
                              /\ Users[g].name = disk.name[SlotOf(file_pointers[g])]
  BY <1>1 DEF UsersOf
<1>3. QED
  BY <1>2 DEF Store!InUse

\* fopen of a name that a file has is that of the store.
LEMMA OpenOld ==
  ASSUME IInv, Survived, Survived', fault' = "none", NEW n \in Names, NEW i \in Slot, i < PerBlock,
         disk.name[i] = n, \A h \in Open : SlotOf(file_pointers[h]) # i, Available # {},
         allocate_filepointer(FileAt(disk, i, i \div PerBlock + 1)), UNCHANGED disk
  PROVE  IInv' /\ Store!Open(n)
<1> DEFINE T == file_pointers
           L == Lists(disk)
           h == Min(Available)
           f == [FileAt(disk, i, i \div PerBlock + 1) EXCEPT !.open = TRUE]
<1>1. Sound(disk, T, L) /\ \A g \in Handle : T[g].open => SlotOf(T[g]) # i
  BY Before
<1>2. h \in Handle /\ ~T[h].open
  <2>1. Available \subseteq Nat
    BY FsAssumption DEF Available, Handle
  <2>2. h \in Available
    BY <2>1, MinLeast
  <2> HIDE DEF h
  <2>3. QED
    BY <2>2 DEF Available, Open
<1> HIDE DEF h, L
<1>3. T' = [T EXCEPT ![h] = f] /\ result' = [call |-> "fopen", value |-> h]
  BY DEF allocate_filepointer, h
<1>4. n # BLANK /\ Len(L[i]) > 0
  BY <1>1, DiskAssumption DEF Sound, Listed, BLANK
<1>5. /\ Sound(disk, [T EXCEPT ![h] = f], L) /\ f.open /\ SlotOf(f) = i /\ f.offset = 0
      /\ Clean(disk, f)
  BY <1>1, <1>2, <1>4, Opening
<1> HIDE DEF f
<1>6. Quiet(disk, T, disk, [T EXCEPT ![h] = f], L)
  BY <1>1, <1>2, <1>5, QuietTable
<1>7. IInv' /\ Contents' = Contents /\ Users' = UsersOf(disk, T')
  <2>1. Quiet(disk, T, disk', T', L)
    BY <1>3, <1>6
  <2>2. QED
    BY <2>1, QuietStep DEF L
<1>8. Users' = Store!Add(Users, h, [name |-> n, pos |-> 0])
  <2>1. Users = UsersOf(disk, T)
    BY Before
  <2>4. Opened(disk, T, disk, T', h, f, n)
    BY <1>2, <1>3, <1>5 DEF Opened
  <2> HIDE DEF T
  <2>2. UsersOf(disk, T') = Store!Add(UsersOf(disk, T), h, AtStart(n))
    BY <1>1, <2>4, OpenedUsers
  <2>3. QED
    BY <1>7, <2>1, <2>2 DEF AtStart
<1>9. Contents' = Store!Add(Contents, n, <<>>)
  <2>1. i \in Listing(L) /\ Contents = ContentsOf(disk, T, L)
    BY <1>4, Before DEF Listing, L
  <2>2. n \in DOMAIN Contents
    BY <1>1, <2>1, ContentsOfIs
  <2>3. Contents = [m \in DOMAIN Contents |-> Contents[m]]
    BY <2>1 DEF ContentsOf
  <2>4. QED
    BY <1>7, <2>2, <2>3 DEF Store!Add
<1>10. ~Store!InUse(n)
  <2>1. \A g \in Handle : T[g].open => disk.name[SlotOf(T[g])] # n
    <3> SUFFICES ASSUME NEW g \in Handle, T[g].open PROVE disk.name[SlotOf(T[g])] # n
      OBVIOUS
    <3>1. SlotOf(T[g]) \in Slot /\ SlotOf(T[g]) # i
      BY <1>1, OpenFile
    <3>2. QED
      BY <1>1, <1>4, <3>1 DEF Sound, Listed
  <2>2. QED
    BY <2>1, NotInUse
<1>11. h \in Handle \ DOMAIN Users
  BY <1>2, Before DEF UsersOf
<1>12. QED
  BY <1>3, <1>7, <1>8, <1>9, <1>10, <1>11 DEF Store!Open

HandedOut(f) == [f EXCEPT !.open = TRUE]

\* A slot that has no file gets one of one sector.
LEMMA Created ==
  ASSUME NEW d, NEW T, NEW L, Sound(d, T, L), NEW h \in Handle, ~T[h].open,
         NEW i \in Slot, d.fp[i] = EOC, NEW s \in 1 .. Size-1, s \notin d.used,
         NEW n \in Names, \A j \in Slot : d.name[j] # n,
         NEW e, e = create_file(d, n, i, s), NEW ib \in Nat, ib = (i \div PerBlock) * PerBlock + 1,
         NEW f, f = HandedOut(FileAt(e, i, ib)), NEW m, m = <<s>>
  PROVE  Changed(d, T, L, i, h, e, f, m) /\ f.open /\ f.offset = 0 /\ SlotOf(f) = i
<1> DEFINE l == <<s>>
<1>1. /\ d.used \subseteq 1 .. Size-1 /\ d.fp \in [Slot -> Sector] /\ d \in Disk
      /\ d.name \in [Slot -> Names \cup {BLANK}] /\ d.sector \in [Sector -> FileSector]
  BY SoundTypes
<1>2. Listed(d, L)
  BY DEF Sound
<1>3. s \in Usable /\ s \in Sector /\ s # 0
  BY <1>2, Geometry DEF Listed, Usable
<1>4. BlankSector \in FileSector
  <2>1. [j \in 0 .. DataLength-1 |-> 0] \in [0 .. DataLength-1 -> Bytes \cup {0}]
    OBVIOUS
  <2>2. QED
    BY <2>1, Geometry DEF BlankSector, FileSector
<1>5. /\ e.used = d.used \cup {s} /\ e.fp = [d.fp EXCEPT ![i] = s]
      /\ e.name = [d.name EXCEPT ![i] = n] /\ e.sector = [d.sector EXCEPT ![s] = BlankSector]
      /\ e = [used |-> e.used, fp |-> e.fp, name |-> e.name, sector |-> e.sector]
  BY <1>1, <1>3 DEF create_file, toggle, Disk
<1>6. e \in Disk
  <2>1. /\ e.used \subseteq 1 .. Size-1 /\ e.fp \in [Slot -> Sector]
        /\ e.name \in [Slot -> Names \cup {BLANK}] /\ e.sector \in [Sector -> FileSector]
    BY <1>1, <1>3, <1>4, <1>5
  <2>2. QED
    BY <1>5, <2>1 DEF Disk
<1>7. l \in Seq(Usable) /\ Len(l) = 1 /\ l[1] = s /\ 1 .. Len(l) = {1}
  BY <1>3
<1> HIDE DEF l
<1>8. At(l, 1) = s /\ At(l, 2) = EOC /\ \A x : Holds(l, x) <=> x = s
  BY <1>7 DEF At, Holds
<1>9. e.fp[i] = s /\ e.sector[s] = BlankSector /\ e.fp[i] \in Sector
  BY <1>1, <1>3, <1>5
<1>10. /\ f \in FILE /\ f.open /\ SlotOf(f) = i /\ f.bufindex = 0 /\ f.offset = 0
       /\ f.bufsect = s /\ f.buffer = BlankSector
  BY <1>6, <1>9, FileAtIs DEF HandedOut
<1>11. L[i] \in Seq(Usable) /\ Len(L[i]) = 0
  <2>1. L[i] \in Seq(Usable) /\ d.fp[i] = At(L[i], 1) /\ Len(L[i]) \in Nat
    BY <1>2, SoundTypes DEF Listed
  <2>2. Len(L[i]) > 0 => d.fp[i] \in Usable
    BY <2>1 DEF At
  <2>3. QED
    BY <2>1, <2>2, Geometry
<1>12. \A g \in Handle : T[g].open => SlotOf(T[g]) # i
  <2> SUFFICES ASSUME NEW g \in Handle, T[g].open, SlotOf(T[g]) = i PROVE FALSE
    OBVIOUS
  <2>1. T[g].bufindex + 1 \in 1 .. Len(L[i])
    BY OpenFile
  <2>2. QED
    BY <1>11, <2>1
<1>13. \A x : ~Holds(L[i], x)
  BY <1>11 DEF Holds
<1>14. Fits(BlankSector, l, 1) /\ Begun(BlankSector, 1)
  BY <1>4, <1>7, <1>8, Geometry DEF Fits, Begun, BlankSector
<1>15. InPlace(f, l)
  <2>1. f.offset - f.bufindex * DataLength = 0 /\ f.bufindex + 1 = 1
    BY <1>10, Geometry
  <2>2. f.buffer.count = 0
    BY <1>10 DEF BlankSector
  <2>3. QED
    BY <1>7, <1>10, <1>14, <2>1, <2>2 DEF InPlace
<1>16. n # BLANK
  BY DiskAssumption DEF BLANK
<1>17. \A x \in 1 .. Size-1 : x \in e.used <=> Holds(l, x) \/ (x \in d.used /\ ~Holds(L[i], x))
  BY <1>5, <1>8, <1>13
<1>18. e.name[i] = n /\ \A j \in Slot : j # i => e.name[j] = d.name[j]
  BY <1>1, <1>5
<1>19. \A x \in Sector : ~Holds(l, x) => e.sector[x] = d.sector[x]
  BY <1>1, <1>5, <1>8
<1>20. \A k \in 1 .. Len(l) : l[k] = s /\ k = 1
  BY <1>7
<1>21. Changed(d, T, L, i, h, e, f, l)
  BY <1>5, <1>6, <1>7, <1>8, <1>9, <1>10, <1>12, <1>14, <1>15, <1>16, <1>17, <1>18, <1>19, <1>20
     DEF Changed
<1>22. QED
  BY <1>10, <1>21 DEF l
\* fopen of a name that no file has is that of the store: the file is empty.
LEMMA OpenNew ==
  ASSUME IInv, Survived, Survived', fault' = "none", NEW n \in Names,
         \A j \in Slot : disk.name[j] # n, Available # {},
         find_empty_fspointer(disk) # NONE, find_empty_sector(disk) # 0, open_new(n)
  PROVE  IInv' /\ Store!Open(n)
<1> DEFINE T == file_pointers
           L == Lists(disk)
           h == Min(Available)
           i == find_empty_fspointer(disk)
           s == find_empty_sector(disk)
           e == create_file(disk, n, i, s)
           ib == (i \div PerBlock) * PerBlock + 1
           f == [FileAt(e, i, ib) EXCEPT !.open = TRUE]
           M == [L EXCEPT ![i] = <<s>>]
<1>1. Sound(disk, T, L) /\ Contents = ContentsOf(disk, T, L) /\ Users = UsersOf(disk, T)
  BY Before
<1>2. h \in Handle /\ ~T[h].open
  <2>1. Available \subseteq Nat
    BY FsAssumption DEF Available, Handle
  <2>2. h \in Available
    BY <2>1, MinLeast
  <2> HIDE DEF h
  <2>3. QED
    BY <2>2 DEF Available, Open
<1>3. T' = [T EXCEPT ![h] = f] /\ result' = [call |-> "fopen", value |-> h] /\ disk' = e
  BY DEF open_new, allocate_filepointer
<1>4. i \in Slot /\ disk.fp[i] = EOC
  <2> DEFINE free == {j \in Slot : disk.fp[j] = EOC}
  <2>1. free \subseteq Nat
    BY Geometry
  <2>2. free # {} /\ i = Min(free)
    BY DEF find_empty_fspointer
  <2>3. i \in free
    <3> HIDE DEF free
    <3>1. QED
      BY <2>1, <2>2, MinLeast
  <2>4. QED
    BY <2>3
<1>5. s \in 1 .. Size-1 /\ s \notin disk.used
  <2> DEFINE free == 1 .. Size-1 \ disk.used
  <2>1. free \subseteq Nat
    OBVIOUS
  <2>2. free # {} /\ s = Min(free)
    BY DEF find_empty_sector
  <2>3. s \in free
    <3> HIDE DEF free
    <3>1. QED
      BY <2>1, <2>2, MinLeast
  <2>4. QED
    BY <2>3
<1>6. ib \in Nat
  <2> DEFINE b == PerBlock
  <2>1. i \in Nat /\ b \in Nat \ {0}
    BY <1>4, Geometry
  <2> HIDE DEF b, i
  <2>2. i \div b \in Nat
    BY <2>1
  <2>3. QED
    BY <2>1, <2>2 DEF b
<1> HIDE DEF h, L, i, s
<1>7. Changed(disk, T, L, i, h, e, f, <<s>>) /\ f.open /\ f.offset = 0 /\ SlotOf(f) = i
  <2> DEFINE l == <<s>>
  <2>1. /\ e = create_file(disk, n, i, s) /\ ib = (i \div PerBlock) * PerBlock + 1
        /\ f = HandedOut(FileAt(e, i, ib)) /\ l = <<s>>
    BY DEF HandedOut
  <2> HIDE DEF e, f, ib, l
  <2>2. Changed(disk, T, L, i, h, e, f, l) /\ f.open /\ f.offset = 0 /\ SlotOf(f) = i
    BY <1>1, <1>2, <1>4, <1>5, <1>6, <2>1, Created
  <2>3. QED
    BY <2>2 DEF l
<1> HIDE DEF e, f
<1>8. Sound(e, T', M) /\ OthersSame(disk, T, L, e, T', i)
  <2> DEFINE l == <<s>>
  <2> HIDE DEF l
  <2>1. Changed(disk, T, L, i, h, e, f, l)
    BY <1>7 DEF l
  <2>2. Sound(e, T', [L EXCEPT ![i] = l]) /\ OthersSame(disk, T, L, e, T', i)
    BY <1>1, <1>3, <2>1, OthersKept
  <2>3. QED
    BY <2>2 DEF l
<1>9. IInv' /\ Contents' = ContentsOf(disk', T', M) /\ Users' = UsersOf(disk', T')
  <2> HIDE DEF M
  <2>1. Sound(disk', T', M)
    BY <1>3, <1>8
  <2>2. QED
    BY <2>1, After
<1>10. e.name[i] = n /\ \A j \in Slot : j # i => e.name[j] = disk.name[j]
  BY <1>1, <1>4, SoundTypes DEF e, create_file, toggle, Disk
<1>11. M[i] = <<s>> /\ \A j \in Slot : j # i => M[j] = L[j]
  BY <1>1, <1>4, SoundTypes
<1>12. \A g \in Handle : T[g].open => SlotOf(T[g]) \in Slot /\ SlotOf(T[g]) # i
  <2> SUFFICES ASSUME NEW g \in Handle, T[g].open PROVE SlotOf(T[g]) \in Slot /\ SlotOf(T[g]) # i
    OBVIOUS
  <2>1. SlotOf(T[g]) \in Slot /\ SlotOf(T[g]) \in Listing(L)
    BY <1>1, OpenFile, UserIs
  <2>2. disk.fp[SlotOf(T[g])] # EOC
    <3> DEFINE j == SlotOf(T[g])
    <3>1. Len(L[j]) > 0 /\ Len(L[j]) \in Nat /\ \A k \in 1 .. Len(L[j]) : L[j][k] \in Usable
      BY <1>1, <2>1, SoundTypes DEF Listing
    <3>2. disk.fp[j] = At(L[j], 1)
      BY <1>1, <2>1 DEF Sound, Listed
    <3> HIDE DEF j
    <3>3. disk.fp[j] # EOC
      BY <3>1, <3>2, Geometry DEF At
    <3>4. QED
      BY <3>3 DEF j
  <2>3. QED
    BY <1>4, <2>1, <2>2
<1> HIDE DEF M
<1>13. i \notin Listing(L)
  <2>1. disk.fp[i] = At(L[i], 1) /\ Len(L[i]) \in Nat /\ \A k \in 1 .. Len(L[i]) : L[i][k] \in Usable
    BY <1>1, <1>4, SoundTypes DEF Sound, Listed
  <2>2. QED
    BY <1>4, <2>1, Geometry DEF Listing, At
<1>14. Listing(M) = Listing(L) \cup {i}
  <2>1. Len(M[i]) = 1
    BY <1>11
  <2>2. ASSUME NEW j \in Slot PROVE Len(M[j]) > 0 <=> Len(L[j]) > 0 \/ j = i
    <3>1. CASE j = i
      BY <2>1, <3>1
    <3>2. CASE j # i
      BY <1>11, <3>2
    <3>3. QED
      BY <3>1, <3>2
  <2>3. QED
    BY <1>4, <2>2 DEF Listing
<1>15. Users' = Store!Add(Users, h, [name |-> n, pos |-> 0])
  <2>1. \A g \in Handle : T[g].open => e.name[SlotOf(T[g])] = disk.name[SlotOf(T[g])]
    BY <1>10, <1>12
  <2>4. Opened(disk, T, e, T', h, f, n)
    BY <1>2, <1>3, <1>7, <1>10, <2>1 DEF Opened
  <2> HIDE DEF T
  <2>2. UsersOf(e, T') = Store!Add(UsersOf(disk, T), h, AtStart(n))
    BY <1>1, <2>4, OpenedUsers
  <2>3. QED
    BY <1>1, <1>3, <1>9, <2>2 DEF AtStart
<1>16. Text(e, T', M[i]) = <<>>
  <2>1. i \in Slot /\ Len(M[i]) = 1 /\ M[i][1] = s /\ 1 \in 1 .. Len(M[i])
    BY <1>4, <1>11
  <2>2. T'[h] = f
    BY <1>1, <1>2, <1>3, SoundTypes
  <2>3. f.bufindex = 0 /\ f.buffer.count = 0
    <3>1. e.fp[i] = s /\ e.sector[s] = BlankSector
      BY <1>1, <1>4, <1>5, SoundTypes, Geometry, SMTT(90) DEF e, create_file, toggle, Disk
    <3>2. f.bufindex = 0 /\ f.buffer = e.sector[e.fp[i]]
      BY DEF f, FileAt, Load, Closed
    <3>3. QED
      BY <3>1, <3>2 DEF BlankSector
  <2>4. Shown(e, T', M[i][1]) = f.buffer
    <3>1. T'[h].open /\ SlotOf(T'[h]) = i /\ T'[h].bufindex + 1 = 1
      BY <1>7, <2>2, <2>3
    <3>2. QED
      BY <1>2, <1>8, <2>1, <2>2, <3>1, ShownIs
  <2>5. Length(e, T', M[i]) = 0
    BY <2>1, <2>3, <2>4, Geometry DEF Length
  <2>6. QED
    BY <2>5 DEF Text
<1>17. Contents' = Store!Add(Contents, n, <<>>)
  <2> DEFINE F == Store!Add(Contents, n, <<>>)
  <2>1. DOMAIN Contents = NamesOf(disk, L)
    BY <1>1, ContentsOfIs
  <2>2. NamesOf(e, M) = NamesOf(disk, L) \cup {n}
    <3>1. \A j \in Listing(L) : e.name[j] = disk.name[j]
      BY <1>10, <1>13 DEF Listing
    <3>2. QED
      BY <1>10, <1>14, <3>1 DEF NamesOf
  <2>3. DOMAIN F = NamesOf(e, M) /\ F = [m \in DOMAIN F |-> F[m]]
    BY <2>1, <2>2 DEF Store!Add
  <2>4. ASSUME NEW j \in Listing(M) PROVE F[e.name[j]] = Text(e, T', M[j])
    <3>1. CASE j = i
      <4>1. n \notin DOMAIN Contents
        BY <2>1 DEF NamesOf, Listing
      <4>2. F[n] = <<>>
        BY <4>1 DEF Store!Add
      <4>3. QED
        BY <1>10, <1>16, <3>1, <4>2
    <3>2. CASE j # i
      <4>1. j \in Listing(L) /\ j \in Slot /\ e.name[j] = disk.name[j] /\ M[j] = L[j]
        BY <1>10, <1>11, <1>14, <3>2 DEF Listing
      <4>2. disk.name[j] \in DOMAIN Contents /\ Contents[disk.name[j]] = Text(disk, T, L[j])
        BY <1>1, <2>1, <4>1, ContentsOfIs
      <4>3. F[disk.name[j]] = Contents[disk.name[j]]
        BY <4>2 DEF Store!Add
      <4>4. Text(e, T', L[j]) = Text(disk, T, L[j])
        BY <1>8, <3>2, <4>1 DEF OthersSame
      <4>5. QED
        BY <4>1, <4>2, <4>3, <4>4
    <3>3. QED
      BY <3>1, <3>2
  <2> HIDE DEF F
  <2>5. ContentsOf(e, T', M) = F
    BY <1>8, <2>3, <2>4, ContentsIf
  <2>6. QED
    BY <1>3, <1>9, <2>5 DEF F
<1>18. ~Store!InUse(n)
  BY <1>12, NotInUse
<1>19. h \in Handle \ DOMAIN Users
  BY <1>1, <1>2 DEF UsersOf
<1>20. QED
  BY <1>3, <1>9, <1>15, <1>17, <1>18, <1>19 DEF Store!Open

\* fopen is that of the store.
LEMMA OpenStep ==
  ASSUME IInv, Survived, Survived', fault' = "none", NEW n \in Names, fopen(n)
  PROVE  IInv' /\ Store!Open(n)
<1>1. PICK found \in find_file(disk, n) : \E i \in {found, NONE} :
        /\ fault' = OpenFault(n, found, i)
        /\ \/ /\ i \in Slot
              /\ allocate_filepointer(FileAt(disk, i, i \div PerBlock + 1))
              /\ UNCHANGED disk
           \/ i \in Behind /\ allocate_filepointer(FileBehind(i)) /\ UNCHANGED disk
           \/ i = NONE /\ Available = {} /\ result' = NULL /\ UNCHANGED <<disk, file_pointers>>
           \/ i = NONE /\ Available # {} /\ open_new(n)
  BY DEF fopen
<1>2. PICK i \in {found, NONE} :
        /\ fault' = OpenFault(n, found, i)
        /\ \/ /\ i \in Slot
              /\ allocate_filepointer(FileAt(disk, i, i \div PerBlock + 1))
              /\ UNCHANGED disk
           \/ i \in Behind /\ allocate_filepointer(FileBehind(i)) /\ UNCHANGED disk
           \/ i = NONE /\ Available = {} /\ result' = NULL /\ UNCHANGED <<disk, file_pointers>>
           \/ i = NONE /\ Available # {} /\ open_new(n)
  BY <1>1
<1>3. NONE \notin Slot
  BY Geometry
<1>4. CASE Available = {}
  <2>1. result' = NULL /\ UNCHANGED <<disk, file_pointers>>
    BY <1>2, <1>4 DEF allocate_filepointer
  <2>2. Quiet(disk, file_pointers, disk', file_pointers', Lists(disk))
    BY <2>1, Before DEF Quiet
  <2>3. IInv' /\ Contents' = Contents /\ Users' = Users
    BY <2>1, <2>2, QuietStep, Before
  <2>4. DOMAIN Users = Handle
    BY <1>4, Before DEF Available, Open
  <2>5. QED
    BY <2>1, <2>3, <2>4 DEF Store!Open, NULL
<1>5. CASE Available # {}
  <2>1. /\ ~(found \in Slot /\ i = NONE)
        /\ i \notin Behind
        /\ ~(i \in Slot /\ i >= PerBlock)
        /\ ~(i \in Slot /\ disk.name[i] # n)
        /\ ~(i = NONE /\ n \in Range(disk.name))
        /\ ~(i = NONE /\ 0 \in {find_empty_sector(disk), find_empty_fspointer(disk) + 1})
        /\ ~(i # NONE /\ \E h \in Open : SlotOf(file_pointers[h]) = i)
    BY <1>2, <1>5 DEF OpenFault
  <2>2. CASE i \in Slot
    <3>1. i < PerBlock /\ disk.name[i] = n /\ i # NONE
      BY <1>3, <2>1, <2>2, Geometry
    <3>2. allocate_filepointer(FileAt(disk, i, i \div PerBlock + 1)) /\ UNCHANGED disk
      BY <1>2, <2>1, <2>2, <3>1
    <3>3. \A h \in Open : SlotOf(file_pointers[h]) # i
      BY <2>1, <3>1
    <3>4. QED
      BY <1>5, <2>2, <3>1, <3>2, <3>3, OpenOld
  <2>3. CASE i = NONE
    <3>1. open_new(n)
      BY <1>2, <1>3, <1>5, <2>1, <2>3
    <3>2. \A j \in Slot : disk.name[j] # n
      <4>1. DOMAIN disk.name = Slot
        BY Before, SoundTypes
      <4>2. QED
        BY <2>1, <2>3, <4>1 DEF Range
    <3>3. find_empty_fspointer(disk) # NONE /\ find_empty_sector(disk) # 0
      BY <2>1, <2>3 DEF NONE
    <3>4. QED
      BY <1>5, <3>1, <3>2, <3>3, OpenNew
  <2>4. QED
    BY <1>2, <2>1, <2>2, <2>3
<1>6. QED
  BY <1>4, <1>5
-----------------------------------------------------------------------------
(* Reading                                                                 *)

\* If nothing changes for the users of files, a file has the same bytes.
LEMMA QuietText ==
  ASSUME NEW d, NEW T, NEW L, Sound(d, T, L), NEW e, NEW U, Quiet(d, T, e, U, L),
         NEW i \in Listing(L)
  PROVE  Text(e, U, L[i]) = Text(d, T, L[i]) /\ Length(e, U, L[i]) = Length(d, T, L[i])
<1>1. i \in Slot /\ Len(L[i]) \in 1 .. Len(L[i])
  BY SoundTypes DEF Listing
<1>2. \A k \in 1 .. Len(L[i]) : Shown(e, U, L[i][k]) = Shown(d, T, L[i][k])
  BY <1>1 DEF Quiet
<1>3. Length(e, U, L[i]) = Length(d, T, L[i])
  BY <1>1, <1>2 DEF Length
<1>4. \A k \in 1 .. Length(d, T, L[i]) : (k-1) \div DataLength + 1 \in 1 .. Len(L[i])
  BY ByteIn
<1>5. QED
  BY <1>2, <1>3, <1>4 DEF Text

\* What is known of the place of an open FILE, in numbers.
LEMMA Place ==
  ASSUME NEW d, NEW T, NEW L, Sound(d, T, L), NEW h \in Handle, T[h].open
  PROVE  LET f == T[h]
             l == L[SlotOf(f)]
             b == f.bufindex * DataLength
         IN  /\ b \in Nat /\ f.offset \in Nat /\ f.bufindex \in Nat
             /\ f.buffer.count \in 0 .. DataLength
             /\ f.offset - b \in 0 .. f.buffer.count
             /\ f.bufindex + 1 \in 1 .. Len(l) /\ Len(l) \in Nat
             /\ f.buffer.next = At(l, f.bufindex + 2)
             /\ f.bufindex + 1 < Len(l) => f.buffer.count = DataLength
             /\ f.buffer.data \in [0 .. DataLength-1 -> Bytes \cup {0}]
             /\ Shown(d, T, l[f.bufindex+1]) = f.buffer
<1> DEFINE f == T[h]
           i == SlotOf(f)
           l == L[i]
           b == f.bufindex * DataLength
<1>1. i \in Slot /\ InPlace(f, l) /\ f \in FILE /\ f.bufindex \in Nat /\ f.bufindex + 1 \in 1 .. Len(l)
  BY OpenFile
<1>2. Len(l) \in Nat /\ DataLength \in Nat
  BY <1>1, SoundTypes, Geometry
<1>3. f.offset \in Nat /\ f.buffer \in FileSector
  BY <1>1 DEF FILE
<1>4. Shown(d, T, l[f.bufindex+1]) = f.buffer
  BY <1>1, ShownIs
<1> HIDE DEF f, l
<1>5. b \in Nat
  BY <1>1, <1>2
<1>6. f.offset - b \in 0 .. f.buffer.count /\ Fits(f.buffer, l, f.bufindex+1)
  BY <1>1 DEF InPlace
<1>7. f.bufindex + 1 + 1 = f.bufindex + 2
  BY <1>1
<1>8. /\ f.buffer.count \in 0 .. DataLength /\ f.buffer.next = At(l, f.bufindex + 2)
      /\ f.buffer.data \in [0 .. DataLength-1 -> Bytes \cup {0}]
      /\ f.bufindex + 1 < Len(l) => f.buffer.count = DataLength
  BY <1>2, <1>3, <1>6, <1>7, Geometry DEF Fits, FileSector
<1>9. QED
  BY <1>1, <1>2, <1>3, <1>4, <1>5, <1>6, <1>8 DEF f, l

\* Sectors one after another do not overlap.
LEMMA Sectors ==
  ASSUME NEW m \in Nat, NEW n \in Nat, m < n, NEW b \in Nat
  PROVE  n * b \in Nat /\ m * b \in Nat /\ m * b + b <= n * b
<1>1. n - m - 1 \in Nat /\ n = m + 1 + (n - m - 1)
  OBVIOUS
<1>2. n * b = m * b + b + (n - m - 1) * b
  BY <1>1
<1>3. (n - m - 1) * b \in Nat /\ m * b \in Nat /\ n * b \in Nat
  BY <1>1
<1>4. QED
  BY <1>2, <1>3

\* The end of a sector that is not full, or that none follows, is the end of the file.
LEMMA AtEnd ==
  ASSUME NEW d, NEW T, NEW L, Sound(d, T, L), NEW h \in Handle, T[h].open,
         T[h].offset - T[h].bufindex * DataLength = T[h].buffer.count,
         T[h].buffer.count < DataLength \/ T[h].buffer.next = EOC
  PROVE  T[h].offset = Length(d, T, L[SlotOf(T[h])])
<1> DEFINE f == T[h]
           l == L[SlotOf(f)]
           b == f.bufindex * DataLength
<1>1. /\ b \in Nat /\ f.offset \in Nat /\ f.bufindex \in Nat /\ f.buffer.count \in 0 .. DataLength
      /\ f.bufindex + 1 \in 1 .. Len(l) /\ Len(l) \in Nat
      /\ f.buffer.next = At(l, f.bufindex + 2)
      /\ f.bufindex + 1 < Len(l) => f.buffer.count = DataLength
      /\ Shown(d, T, l[f.bufindex+1]) = f.buffer
  BY Place
<1>2. SlotOf(f) \in Slot /\ \A k \in 1 .. Len(l) : l[k] \in Usable
  BY OpenFile, SoundTypes
<1>3. f.offset - b = f.buffer.count /\ (f.buffer.count < DataLength \/ f.buffer.next = EOC)
  OBVIOUS
<1> HIDE DEF f, l, b
<1>4. f.bufindex + 1 = Len(l)
  <2>1. CASE f.buffer.count < DataLength
    BY <1>1, <2>1, Geometry, SMTT(90)
  <2>2. CASE f.buffer.next = EOC
    <3>1. SUFFICES ASSUME f.bufindex + 1 < Len(l) PROVE FALSE
      BY <1>1
    <3>2. f.bufindex + 2 \in 1 .. Len(l)
      BY <1>1, <3>1
    <3>3. l[f.bufindex + 2] = EOC
      BY <1>1, <2>2, <3>2 DEF At
    <3>4. QED
      BY <1>2, <3>2, <3>3, Geometry
  <2>3. QED
    BY <1>3, <2>1, <2>2
<1>5. Length(d, T, l) = b + f.buffer.count
  <2>1. Len(l) - 1 = f.bufindex
    BY <1>1, <1>4
  <2>2. QED
    BY <1>1, <1>4, <2>1 DEF Length, b
<1>6. f.offset = b + f.buffer.count
  BY <1>1, <1>3
<1>7. QED
  BY <1>5, <1>6 DEF f, l

\* A byte of the buffer is a byte of the file.
LEMMA ByteIs ==
  ASSUME NEW d, NEW T, NEW L, Sound(d, T, L), NEW h \in Handle, T[h].open,
         NEW at \in Nat, at < T[h].buffer.count, NEW pos, pos = T[h].bufindex * DataLength + at
  PROVE  /\ pos \in Nat /\ pos + 1 \in 1 .. Length(d, T, L[SlotOf(T[h])])
         /\ Text(d, T, L[SlotOf(T[h])])[pos+1] = T[h].buffer.data[at]
         /\ T[h].buffer.data[at] \in Nat
         /\ pos \div DataLength = T[h].bufindex
<1> DEFINE f == T[h]
           l == L[SlotOf(f)]
           b == f.bufindex * DataLength
           n == Len(l)
           last == Shown(d, T, l[n])
<1>1. /\ b \in Nat /\ f.bufindex \in Nat /\ f.buffer.count \in 0 .. DataLength
      /\ f.bufindex + 1 \in 1 .. n /\ n \in Nat
      /\ f.bufindex + 1 < n => f.buffer.count = DataLength
      /\ Shown(d, T, l[f.bufindex+1]) = f.buffer
      /\ f.buffer.data \in [0 .. DataLength-1 -> Bytes \cup {0}]
  BY Place
<1>2. SlotOf(f) \in Listing(L) /\ SlotOf(f) \in Slot
  BY OpenFile, UserIs
<1>3. Length(d, T, l) \in Nat
  BY <1>2, LengthIs
<1>4. DataLength \in Nat \ {0} /\ Bytes \subseteq Nat
  BY Geometry, DiskAssumption
<1>5. at < f.buffer.count /\ pos = b + at
  OBVIOUS
<1>6. Fits(last, l, n)
  BY <1>1, <1>2, ShownIs, SMTT(90)
<1> DEFINE q == f.bufindex
           c == f.buffer.count
<1>7. last.count \in Nat /\ Length(d, T, l) = (n-1) * DataLength + last.count
  <2> HIDE DEF last, l
  <2>1. QED
    BY <1>6, Geometry DEF Fits, FileSector, Length, last
<1>14. b = q * DataLength /\ q \in Nat /\ c \in 0 .. DataLength /\ q + 1 \in 1 .. n /\ n \in Nat
       /\ (q + 1 < n => c = DataLength) /\ at < c /\ b \in Nat
  BY <1>1
<1>15. pos = b + at /\ (q + 1 = n => last.count = c)
  BY <1>1
<1> DEFINE byte == f.buffer.data[at]
<1>8. at \in 0 .. DataLength-1
  <2> HIDE DEF c, q, n, b
  <2>1. QED
    BY <1>4, <1>14
<1>12. byte \in Nat
  <2> DEFINE data == f.buffer.data
  <2>1. data \in [0 .. DataLength-1 -> Bytes \cup {0}]
    BY <1>1
  <2> HIDE DEF data
  <2>2. data[at] \in Bytes \cup {0}
    BY <1>8, <2>1
  <2>3. data[at] \in Nat
    BY <1>4, <2>2
  <2>4. QED
    BY <2>3 DEF data
<1> DEFINE size == Length(d, T, l)
<1>16. q + 1 \in 1 .. n /\ Shown(d, T, l[q+1]).data[at] = byte
  BY <1>1
<1> HIDE DEF byte, q, c, b, n, last, f, l
<1>9. pos \in Nat /\ pos \div DataLength = q /\ pos % DataLength = at
  <2>1. pos = q * DataLength + at
    BY <1>14, <1>15
  <2>2. q \in Nat /\ DataLength \in Nat \ {0}
    BY <1>4, <1>14
  <2>3. /\ q * DataLength + at \in Nat
        /\ (q * DataLength + at) \div DataLength = q /\ (q * DataLength + at) % DataLength = at
    BY <1>8, <2>2, DivModIs
  <2>4. QED
    BY <2>1, <2>3
<1>10. pos + 1 <= size
  <2>1. CASE q + 1 = n
    <3>1. size = b + c
      <4>1. n - 1 = q
        BY <1>14, <2>1
      <4>2. QED
        BY <1>7, <1>14, <1>15, <2>1, <4>1
    <3>2. QED
      BY <1>4, <1>14, <1>15, <3>1
  <2>2. CASE q + 1 < n
    <3>1. q \in Nat /\ n-1 \in Nat /\ q < n-1
      BY <1>14, <2>2
    <3>2. (n-1) * DataLength \in Nat /\ b + DataLength <= (n-1) * DataLength
      BY <1>4, <1>14, <3>1, Sectors
    <3>3. QED
      BY <1>4, <1>7, <1>8, <1>14, <1>15, <3>2
  <2>3. QED
    BY <1>14, <2>1, <2>2
<1>11. pos + 1 \in 1 .. size
  BY <1>3, <1>9, <1>10
<1>17. Text(d, T, l)[pos+1] = byte
  <2>1. (pos+1)-1 = pos
    BY <1>9
  <2>2. Text(d, T, l)[pos+1] = Shown(d, T, l[q + 1]).data[at]
    BY <1>9, <1>11, <2>1 DEF Text
  <2>3. QED
    BY <1>16, <2>2
<1>18. QED
  BY <1>9, <1>11, <1>12, <1>17 DEF f, l, byte, q
\* the offset of the first byte of the buffer of f
FirstByte(f) == f.bufindex * DataLength

\* What is counted in a FILE are numbers.
LEMMA FirstByteIs ==
  ASSUME NEW f \in FILE
  PROVE  FirstByte(f) \in Nat /\ f.bufindex \in Nat /\ f.buffer.count \in Nat
<1>1. f.bufindex \in Nat /\ f.buffer \in FileSector /\ DataLength \in Nat
  BY Geometry DEF FILE
<1>2. f.buffer.count \in Nat
  BY <1>1, Geometry DEF FileSector
<1>3. f.bufindex * DataLength \in Nat
  BY <1>1
<1>4. QED
  BY <1>1, <1>2, <1>3 DEF FirstByte

\* Nothing has happened to any file on the way to disk e and FILE f, which is at pos.
Reading(d, T, L, h, e, f, pos) == Quiet(d, T, e, [T EXCEPT ![h] = MovedTo(f, pos)], L)

\* what fread keeps from round to round
Round(d, f, at, read, done) == [d |-> d, f |-> f, at |-> at, read |-> read, done |-> done]

\* fread by the user of h, from disk d and table T, after n rounds
ReadState(d, T, L, h, e, f, at, read, done, n) ==
  LET l   == L[SlotOf(T[h])]
      pos == T[h].offset + Len(read)
  IN /\ f \in FILE /\ f.offset = T[h].offset /\ f.open /\ SlotOf(f) = SlotOf(T[h])
     /\ at \in Nat /\ done \in BOOLEAN
     /\ read \in Seq(Nat) /\ Len(read) <= n /\ (~done => Len(read) = n)
     /\ \A j \in 1 .. Len(read) : read[j] = Text(d, T, l)[T[h].offset + j]
     /\ Reading(d, T, L, h, e, f, pos)
     /\ \/ pos = FirstByte(f) + at
        \/ at = 0 /\ read = <<>> /\ pos = FirstByte(f) + DataLength
     /\ read = <<>> => at < DataLength
     /\ done => pos = Length(d, T, l) \/ f.buffer.next # EOC

Refilled(f, s, x, index) == [f EXCEPT !.bufsect = s, !.buffer = x, !.bufindex = index]

\* A FILE that is moved to where it is stays what it was.
LEMMA RefilledIs ==
  ASSUME NEW f \in FILE, NEW s, NEW x, NEW index
  PROVE  MovedTo(Refilled(f, s, x, index), f.offset) = Refilled(f, s, x, index)
BY DEF MovedTo, Refilled, FILE

\* It does not matter whether a FILE is moved or its buffer filled first.
LEMMA MovedRefill ==
  ASSUME NEW f \in FILE, NEW s, NEW x, NEW index, NEW offset
  PROVE  MovedTo(Refilled(f, s, x, index), offset) = Refilled(MovedTo(f, offset), s, x, index)
BY DEF MovedTo, Refilled, FILE

\* what MovedTo keeps
LEMMA MovedIs ==
  ASSUME NEW f \in FILE, NEW offset \in Nat
  PROVE  LET g == MovedTo(f, offset)
         IN  /\ g \in FILE /\ g.offset = offset /\ g.open = f.open /\ SlotOf(g) = SlotOf(f)
             /\ g.bufindex = f.bufindex /\ g.bufsect = f.bufsect /\ g.buffer = f.buffer
             /\ \A d : fflush(d, g) = fflush(d, f)
             /\ \A to : MovedTo(g, to) = MovedTo(f, to)
             /\ \A d, s, index : MovedTo(Load(d, g, s, index), offset) = Load(d, g, s, index)
             /\ \A d, s, index : MovedTo(Load(d, f, s, index), offset) = Load(d, g, s, index)
<1> DEFINE g == MovedTo(f, offset)
<1>1. /\ g \in FILE /\ g.offset = offset /\ g.open = f.open
      /\ g.ib = f.ib /\ g.ibindex = f.ibindex
      /\ g.bufindex = f.bufindex /\ g.bufsect = f.bufsect /\ g.buffer = f.buffer
  BY DEF MovedTo, FILE
<1>2. \A to : MovedTo(g, to) = MovedTo(f, to)
  BY DEF MovedTo, FILE
<1>3. ASSUME NEW d, NEW s, NEW index
      PROVE  MovedTo(Load(d, g, s, index), offset) = Load(d, g, s, index)
  <2> HIDE DEF g
  <2>1. Load(d, g, s, index) = Refilled(g, s, d.sector[s], index)
    BY DEF Load, Refilled
  <2>2. MovedTo(Refilled(g, s, d.sector[s], index), offset) = Refilled(g, s, d.sector[s], index)
    BY <1>1, RefilledIs
  <2>3. QED
    BY <2>1, <2>2
<1>6. ASSUME NEW d, NEW s, NEW index
      PROVE  MovedTo(Load(d, f, s, index), offset) = Load(d, g, s, index)
  <2>1. Load(d, f, s, index) = Refilled(f, s, d.sector[s], index)
    BY DEF Load, Refilled
  <2>2. Load(d, g, s, index) = Refilled(g, s, d.sector[s], index)
    <3> HIDE DEF g
    <3>1. QED
      BY DEF Load, Refilled
  <2>3. MovedTo(Refilled(f, s, d.sector[s], index), offset) = Refilled(g, s, d.sector[s], index)
    BY MovedRefill
  <2>4. QED
    BY <2>1, <2>2, <2>3
<1> HIDE DEF g
<1>4. SlotOf(g) = SlotOf(f) /\ \A d : fflush(d, g) = fflush(d, f)
  BY <1>1 DEF SlotOf, fflush
<1>5. QED
  BY <1>1, <1>2, <1>3, <1>4, <1>6 DEF g

\* One byte more is read from the buffer.
LEMMA ReadOn ==
  ASSUME NEW d, NEW T, NEW L, Sound(d, T, L), NEW h \in Handle, T[h].open, NEW n \in Nat,
         NEW e, NEW f \in FILE, NEW at \in Nat, NEW read \in Seq(Nat),
         f.open, f.offset = T[h].offset, SlotOf(f) = SlotOf(T[h]), Len(read) = n,
         \A j \in 1 .. n : read[j] = Text(d, T, L[SlotOf(T[h])])[T[h].offset + j],
         NEW pos, pos = T[h].offset + n, Reading(d, T, L, h, e, f, pos),
         pos = FirstByte(f) + at, at < f.buffer.count,
         NEW byte, byte = f.buffer.data[at]
  PROVE  ReadState(d, T, L, h, e, f, at + 1, Append(read, byte), FALSE, n + 1)
<1> DEFINE i == SlotOf(T[h])
           g == MovedTo(f, pos)
           U == [T EXCEPT ![h] = g]
           to == pos + 1
           t == Text(d, T, L[i])
           b == FirstByte(f)
<1>1. T[h].offset \in Nat
  BY OffsetUpTo
<1>15. b \in Nat /\ f.buffer.count \in Nat
  BY FirstByteIs
<1>16. pos \in Nat /\ to \in Nat /\ to = T[h].offset + (n+1)
  <2> DEFINE o == T[h].offset
  <2>1. o \in Nat /\ pos = o + n
    BY <1>1
  <2> HIDE DEF o
  <2>2. pos \in Nat /\ pos + 1 = o + (n+1)
    BY <2>1
  <2>3. QED
    BY <2>2 DEF o
<1>2. i \in Listing(L)
  BY UserIs
<1>3. /\ g.open /\ SlotOf(g) = i /\ g.offset = pos /\ g.bufindex = f.bufindex /\ g.buffer = f.buffer
      /\ MovedTo(g, to) = MovedTo(f, to)
  BY <1>16, MovedIs
<1>5. Quiet(d, T, e, U, L)
  BY DEF Reading
<1>4. Sound(e, U, L) /\ U[h] = g
  BY <1>5, SoundTypes DEF Quiet
<1>6. Text(e, U, L[i]) = t
  <2> HIDE DEF U
  <2>1. QED
    BY <1>2, <1>5, QuietText
<1>7. t[pos+1] = byte /\ byte \in Nat
  <2> HIDE DEF U, g, t, i
  <2>1. U[h].open /\ at < U[h].buffer.count /\ pos = U[h].bufindex * DataLength + at
    BY <1>3, <1>4 DEF FirstByte
  <2>2. Text(e, U, L[SlotOf(U[h])])[pos+1] = U[h].buffer.data[at] /\ U[h].buffer.data[at] \in Nat
    <3>1. Sound(e, U, L) /\ U[h].open /\ at < U[h].buffer.count
          /\ pos = U[h].bufindex * DataLength + at
      BY <1>4, <2>1
    <3>2. QED
      BY <3>1, ByteIs, SMTT(60)
  <2>3. QED
    BY <1>3, <1>4, <1>6, <2>2
<1>8. Reading(d, T, L, h, e, f, to)
  <2>1. [U EXCEPT ![h] = MovedTo(g, to)] = [T EXCEPT ![h] = MovedTo(f, to)]
    BY <1>3, SoundTypes
  <2>2. to - U[h].bufindex * DataLength \in 0 .. U[h].buffer.count
    <3>1. U[h].bufindex = f.bufindex /\ U[h].buffer = f.buffer
      BY <1>3, <1>4
    <3>2. pos = b + at /\ at < f.buffer.count
      OBVIOUS
    <3> HIDE DEF b, U, g
    <3>3. to - b \in 0 .. f.buffer.count
      BY <1>15, <3>2
    <3>4. QED
      BY <3>1, <3>3 DEF b, FirstByte
  <2> HIDE DEF U, g, to
  <2>3. U[h].open
    BY <1>3, <1>4
  <2>4. Quiet(e, U, e, [U EXCEPT ![h] = MovedTo(U[h], to)], L)
    BY <1>16, <1>4, <2>2, <2>3, QuietMove
  <2>5. Quiet(d, T, e, [U EXCEPT ![h] = MovedTo(g, to)], L)
    BY <1>4, <1>5, <2>4, QuietThen
  <2>6. QED
    BY <2>1, <2>5 DEF Reading
<1> DEFINE more == Append(read, byte)
<1>9. /\ more \in Seq(Nat) /\ Len(more) = n + 1
      /\ \A j \in 1 .. n+1 : more[j] = t[T[h].offset + j]
  <2>2. \A j \in 1 .. n : read[j] = t[T[h].offset + j]
    OBVIOUS
  <2> HIDE DEF t
  <2>1. more \in Seq(Nat) /\ Len(more) = n + 1 /\ more[n+1] = byte
        /\ \A j \in 1 .. n : more[j] = read[j]
    BY <1>7
  <2>3. t[T[h].offset + (n+1)] = byte
    <3>1. T[h].offset + (n+1) = pos + 1
      BY <1>16
    <3>2. QED
      BY <1>7, <3>1
  <2>4. \A j \in 1 .. n+1 : j \in 1 .. n \/ j = n+1
    OBVIOUS
  <2> HIDE DEF more
  <2>5. QED
    BY <2>1, <2>2, <2>3, <2>4, SMTT(90)
<1>10. to = b + (at + 1)
  BY <1>15
<1> HIDE DEF more, to, t, i
<1>11. Len(more) > 0 /\ more # <<>> /\ Len(more) <= n+1 /\ at + 1 \in Nat
  BY <1>9
<1>12. \A j \in 1 .. Len(more) : more[j] = Text(d, T, L[SlotOf(T[h])])[T[h].offset + j]
  BY <1>9 DEF t, i
<1>13. T[h].offset + Len(more) = to
  BY <1>16, <1>9
<1>14. Reading(d, T, L, h, e, f, T[h].offset + Len(more))
       /\ T[h].offset + Len(more) = FirstByte(f) + (at+1)
  BY <1>8, <1>10, <1>13
<1>17. ReadState(d, T, L, h, e, f, at + 1, more, FALSE, n + 1)
  BY <1>9, <1>11, <1>12, <1>14 DEF ReadState
<1>18. QED
  BY <1>17 DEF more
\* Place, with the product named.
LEMMA PlaceIs ==
  ASSUME NEW d, NEW T, NEW L, Sound(d, T, L), NEW h \in Handle, T[h].open, NEW f, f = T[h],
         NEW l, l = L[SlotOf(f)]
  PROVE  /\ FirstByte(f) \in Nat /\ f.bufindex \in Nat /\ f.offset \in Nat
         /\ f.buffer.count \in 0 .. DataLength
         /\ f.offset - FirstByte(f) \in 0 .. f.buffer.count
         /\ f.bufindex + 1 \in 1 .. Len(l) /\ Len(l) \in Nat
         /\ f.buffer.next = At(l, f.bufindex + 2)
BY Place DEF FirstByte

\* PlaceIs, for the same in one word.
InNumbers(f, l) ==
  /\ FirstByte(f) \in Nat /\ f.bufindex \in Nat /\ f.buffer.count \in 0 .. DataLength
  /\ f.offset - FirstByte(f) \in 0 .. f.buffer.count
  /\ f.bufindex + 1 \in 1 .. Len(l) /\ f.buffer.next = At(l, f.bufindex + 2)

\* PlaceIs, for a FILE of the table.
LEMMA NumbersAre ==
  ASSUME NEW d, NEW T, NEW L, Sound(d, T, L), NEW h \in Handle, T[h].open
  PROVE  InNumbers(T[h], L[SlotOf(T[h])])
BY Place DEF FirstByte, InNumbers

\* What Load sets, and what it keeps.
LEMMA LoadIs ==
  ASSUME NEW d, d.sector \in [Sector -> FileSector], NEW f \in FILE, NEW s \in Sector,
         NEW index \in Nat, NEW g, g = Load(d, f, s, index)
  PROVE  /\ g \in FILE /\ g.open = f.open /\ g.offset = f.offset /\ SlotOf(g) = SlotOf(f)
         /\ g.bufindex = index /\ g.bufsect = s /\ g.buffer = d.sector[s]
<1> DEFINE x == d.sector[s]
<1>1. x \in FileSector
  OBVIOUS
<1>2. g = [f EXCEPT !.bufsect = s, !.buffer = x, !.bufindex = index]
  BY DEF Load
<1> HIDE DEF x
<1>3. /\ g \in FILE /\ g.open = f.open /\ g.offset = f.offset
      /\ g.ib = f.ib /\ g.ibindex = f.ibindex
      /\ g.bufindex = index /\ g.bufsect = s /\ g.buffer = x
  BY <1>1, <1>2 DEF FILE
<1>4. SlotOf(g) = SlotOf(f)
  BY <1>3 DEF SlotOf
<1>5. QED
  BY <1>3, <1>4 DEF x

\* A FILE is about the same slot with another sector in its buffer.
LEMMA LoadSlot ==
  ASSUME NEW d, NEW f \in FILE, f.open, NEW i, SlotOf(f) = i, NEW s, NEW index,
         NEW g, g = Load(d, f, s, index)
  PROVE  g.open /\ SlotOf(g) = i
<1> DEFINE x == d.sector[s]
<1>1. g = [f EXCEPT !.bufsect = s, !.buffer = x, !.bufindex = index]
  BY DEF Load
<1> HIDE DEF x
<1>2. g.open /\ g.ib = f.ib /\ g.ibindex = f.ibindex
  BY <1>1 DEF FILE
<1>3. QED
  BY <1>2 DEF SlotOf

Over(k) == [k EXCEPT !.done = TRUE]
OverAt(k, d) == [k EXCEPT !.d = d, !.done = TRUE]
On(k, d, f, at, read) == [k EXCEPT !.d = d, !.f = f, !.at = at, !.read = read]

\* A round that reads a byte.
LEMMA RoundOn ==
  ASSUME NEW d, NEW f, NEW at, NEW read, NEW done, NEW e, NEW g, NEW to, NEW more
  PROVE  On(Round(d, f, at, read, done), e, g, to, more) = Round(e, g, to, more, done)
<1> DEFINE k == Round(d, f, at, read, done)
<1>1. [k EXCEPT !.d = e] = Round(e, f, at, read, done)
  BY DEF Round
<1>2. [Round(e, f, at, read, done) EXCEPT !.f = g] = Round(e, g, at, read, done)
  BY DEF Round
<1>3. [Round(e, g, at, read, done) EXCEPT !.at = to] = Round(e, g, to, read, done)
  BY DEF Round
<1>4. [Round(e, g, to, read, done) EXCEPT !.read = more] = Round(e, g, to, more, done)
  BY DEF Round
<1> HIDE DEF k
<1>5. [k EXCEPT !.d = e, !.f = g, !.at = to, !.read = more] =
        [[[[k EXCEPT !.d = e] EXCEPT !.f = g] EXCEPT !.at = to] EXCEPT !.read = more]
  OBVIOUS
<1>6. QED
  BY <1>1, <1>2, <1>3, <1>4, <1>5 DEF k, On

\* A round that reads none.
LEMMA RoundOver ==
  ASSUME NEW d, NEW f, NEW at, NEW read, NEW done
  PROVE  Over(Round(d, f, at, read, done)) = Round(d, f, at, read, TRUE)
<1>1. \A x : [Round(d, f, at, read, done) EXCEPT !.done = x] = Round(d, f, at, read, x)
  BY DEF Round
<1>2. [Round(d, f, at, read, done) EXCEPT !.done = TRUE] = Round(d, f, at, read, TRUE)
  BY <1>1, Zenon
<1>3. QED
  BY <1>2 DEF Over

\* A round that reads none, and flushes the buffer.
LEMMA RoundOverAt ==
  ASSUME NEW d, NEW f, NEW at, NEW read, NEW done, NEW e
  PROVE  OverAt(Round(d, f, at, read, done), e) = Over(Round(e, f, at, read, done))
<1> DEFINE k == Round(d, f, at, read, done)
<1>1. [k EXCEPT !.d = e] = Round(e, f, at, read, done)
  BY DEF Round
<1> HIDE DEF k
<1>2. \A x : [k EXCEPT !.d = e, !.done = x] = [[k EXCEPT !.d = e] EXCEPT !.done = x]
  OBVIOUS
<1>3. [k EXCEPT !.d = e, !.done = TRUE] = [[k EXCEPT !.d = e] EXCEPT !.done = TRUE]
  BY <1>2, Zenon
<1>4. QED
  BY <1>1, <1>3 DEF k, OverAt, Over

\* The next byte is not in the buffer.
Past(f, read) == (f.offset + Len(read)) \div DataLength > f.bufindex

\* the four outcomes of a round of fread
LEMMA ReadOver ==
  ASSUME NEW d, NEW f \in FILE, NEW at \in Nat, NEW read, NEW done,
         done \/ at >= f.buffer.count
  PROVE  ReadByte(Round(d, f, at, read, done)) = Over(Round(d, f, at, read, done))
<1> DEFINE k == Round(d, f, at, read, done)
<1>1. k.f = f /\ k.at = at /\ k.done = done
  BY DEF Round
<1> HIDE DEF k
<1>2. f.buffer.count \in Nat
  BY FirstByteIs
<1>3. ~(~done /\ at < f.buffer.count)
  BY <1>2
<1>4. QED
  BY <1>1, <1>3 DEF ReadByte, Over, k

\* ReadByte, from the buffer.
LEMMA ReadBuffered ==
  ASSUME NEW d, NEW f \in FILE, NEW at \in Nat, NEW read, NEW done,
         ~done, at < f.buffer.count, ~Past(f, read), NEW byte, byte = f.buffer.data[at]
  PROVE  ReadByte(Round(d, f, at, read, done)) = Round(d, f, at + 1, Append(read, byte), done)
<1> DEFINE k == Round(d, f, at, read, done)
<1>1. k.d = d /\ k.f = f /\ k.at = at /\ k.read = read /\ k.done = done
  BY DEF Round
<1> HIDE DEF k
<1>2. f.buffer.count \in Nat
  BY FirstByteIs
<1>3. ~(done \/ at >= f.buffer.count)
  BY <1>2
<1>4. ReadByte(k) = On(k, d, f, at + 1, Append(read, byte))
  BY <1>1, <1>3 DEF ReadByte, On, Past
<1>5. QED
  BY <1>4, RoundOn DEF k

\* ReadByte, at the end of the last sector.
LEMMA ReadToEnd ==
  ASSUME NEW d, NEW f \in FILE, NEW at \in Nat, NEW read, NEW done,
         ~done, at < f.buffer.count, Past(f, read), f.buffer.next = EOC
  PROVE  ReadByte(Round(d, f, at, read, done)) = Over(Round(fflush(d, f), f, at, read, done))
<1> DEFINE k == Round(d, f, at, read, done)
<1>1. k.d = d /\ k.f = f /\ k.at = at /\ k.read = read /\ k.done = done
  BY DEF Round
<1> HIDE DEF k
<1>2. f.buffer.count \in Nat
  BY FirstByteIs
<1>3. ~(done \/ at >= f.buffer.count)
  BY <1>2
<1>4. ReadByte(k) = OverAt(k, fflush(d, f))
  BY <1>1, <1>3 DEF ReadByte, OverAt, Past
<1>5. QED
  BY <1>4, RoundOverAt DEF k

\* ReadByte, from the next sector.
LEMMA ReadOnward ==
  ASSUME NEW d, NEW f \in FILE, NEW at \in Nat, NEW read, NEW done,
         ~done, at < f.buffer.count, Past(f, read), f.buffer.next # EOC,
         NEW e, e = fflush(d, f), NEW g, g = Load(e, f, f.buffer.next, f.bufindex + 1),
         NEW byte, byte = g.buffer.data[0]
  PROVE  ReadByte(Round(d, f, at, read, done)) = Round(e, g, 0 + 1, Append(read, byte), done)
<1> DEFINE k == Round(d, f, at, read, done)
<1>1. k.d = d /\ k.f = f /\ k.at = at /\ k.read = read /\ k.done = done
  BY DEF Round
<1> HIDE DEF k
<1>2. f.buffer.count \in Nat
  BY FirstByteIs
<1>3. ~(done \/ at >= f.buffer.count)
  BY <1>2
<1>4. ReadByte(k) = On(k, e, g, 0 + 1, Append(read, byte))
  BY <1>1, <1>3 DEF ReadByte, On, Past
<1>5. QED
  BY <1>4, RoundOn DEF k
\* A round of fread reads the next byte of the file, or finds its end.
LEMMA ReadRound ==
  ASSUME NEW d, NEW T, NEW L, Sound(d, T, L), NEW h \in Handle, T[h].open, NEW n \in Nat,
         NEW e, NEW f \in FILE, NEW at \in Nat, NEW read \in Seq(Nat), NEW done \in BOOLEAN,
         ReadState(d, T, L, h, e, f, at, read, done, n)
  PROVE  \E e1, f1, at1, read1, done1 :
           /\ ReadByte(Round(e, f, at, read, done)) = Round(e1, f1, at1, read1, done1)
           /\ ReadState(d, T, L, h, e1, f1, at1, read1, done1, n + 1)
<1> DEFINE i == SlotOf(T[h])
           l == L[i]
           t == Text(d, T, l)
           pos == T[h].offset + Len(read)
           g == MovedTo(f, pos)
           U == [T EXCEPT ![h] = g]
           b == FirstByte(f)
           count == f.buffer.count
           k == Round(e, f, at, read, done)
<1>1. /\ f \in FILE /\ f.offset = T[h].offset /\ f.open /\ SlotOf(f) = i
      /\ at \in Nat /\ done \in BOOLEAN
      /\ read \in Seq(Nat) /\ Len(read) <= n /\ (~done => Len(read) = n)
      /\ \A j \in 1 .. Len(read) : read[j] = t[T[h].offset + j]
      /\ Reading(d, T, L, h, e, f, pos)
      /\ \/ pos = b + at
         \/ at = 0 /\ read = <<>> /\ pos = b + DataLength
      /\ read = <<>> => at < DataLength
      /\ done => pos = Length(d, T, l) \/ f.buffer.next # EOC
  BY DEF ReadState
<1>2. pos \in Nat /\ T[h].offset \in Nat
  <2>1. T[h].offset \in Nat
    BY OffsetUpTo
  <2> DEFINE o == T[h].offset
  <2> HIDE DEF o
  <2>2. o + Len(read) \in Nat
    BY <1>1, <2>1 DEF o
  <2>3. QED
    BY <2>1, <2>2 DEF o
<1>3. i \in Listing(L) /\ i \in Slot
  BY UserIs, OpenFile
<1>4. Quiet(d, T, e, U, L)
  BY <1>1 DEF Reading
<1>5. Sound(e, U, L) /\ U[h] = g
  BY <1>4, SoundTypes DEF Quiet
<1>6. /\ g \in FILE /\ g.open /\ SlotOf(g) = i /\ g.offset = pos
      /\ g.bufindex = f.bufindex /\ g.buffer = f.buffer /\ g.bufsect = f.bufsect
      /\ fflush(e, g) = fflush(e, f)
  BY <1>1, <1>2, MovedIs
<1>7. Length(e, U, l) = Length(d, T, l)
  <2> HIDE DEF U
  <2>1. QED
    BY <1>3, <1>4, QuietText
<1>8. /\ b \in Nat /\ f.bufindex \in Nat /\ count \in 0 .. DataLength /\ pos - b \in 0 .. count
      /\ f.bufindex + 1 \in 1 .. Len(l) /\ f.buffer.next = At(l, f.bufindex + 2)
  <2> HIDE DEF U, g, b, count, l, i, pos
  <2>1. g = U[h] /\ U[h].open /\ l = L[SlotOf(g)]
    BY <1>5, <1>6 DEF l
  <2>2. InNumbers(U[h], L[SlotOf(U[h])])
    BY <1>5, <2>1, NumbersAre
  <2>3. InNumbers(g, l)
    BY <2>1, <2>2, Zenon
  <2>4. /\ FirstByte(g) \in Nat /\ g.bufindex \in Nat /\ g.buffer.count \in 0 .. DataLength
        /\ g.offset - FirstByte(g) \in 0 .. g.buffer.count
        /\ g.bufindex + 1 \in 1 .. Len(l) /\ g.buffer.next = At(l, g.bufindex + 2)
    BY <2>3 DEF InNumbers
  <2>5. FirstByte(g) = b
    BY <1>6 DEF b, FirstByte
  <2>6. QED
    BY <1>6, <2>4, <2>5 DEF count
<1>9. DataLength \in Nat /\ DataLength > 0
  BY Geometry
<1>10. f \in FILE /\ at \in Nat /\ done \in BOOLEAN
  BY <1>1
<1>11. ASSUME pos - b = count, count < DataLength \/ f.buffer.next = EOC
       PROVE  pos = Length(d, T, l)
  <2> HIDE DEF U, g, b, count, l, i, pos
  <2>1. U[h].open /\ U[h].offset - U[h].bufindex * DataLength = U[h].buffer.count
        /\ (U[h].buffer.count < DataLength \/ U[h].buffer.next = EOC)
    BY <1>5, <1>6, <1>11 DEF b, count, FirstByte
  <2>2. U[h].offset = Length(e, U, L[SlotOf(U[h])])
    BY <1>5, <2>1, AtEnd
  <2>3. QED
    BY <1>5, <1>6, <1>7, <2>2 DEF l
<1>12. CASE done \/ at >= count
  <2>1. ReadByte(k) = Round(e, f, at, read, TRUE)
    <3>1. ReadByte(k) = Over(k)
      <4>1. done = TRUE \/ at >= f.buffer.count
        BY <1>10, <1>12
      <4>2. QED
        BY <1>10, <4>1, ReadOver
    <3>2. Over(k) = Round(e, f, at, read, TRUE)
      BY RoundOver, Zenon
    <3>3. QED
      BY <3>1, <3>2
  <2>2. ReadState(d, T, L, h, e, f, at, read, TRUE, n+1)
    <3>1. pos = Length(d, T, l) \/ f.buffer.next # EOC
      <4>1. CASE done
        BY <1>1, <4>1
      <4>2. CASE at >= count
        <5> HIDE DEF b, count, pos, l
        <5>1. pos - b = count
          <6>1. pos = b + at \/ pos = b + DataLength
            BY <1>1
          <6>2. QED
            BY <1>2, <1>8, <1>9, <1>10, <4>2, <6>1
        <5>2. QED
          BY <1>11, <5>1
      <4>3. QED
        BY <1>12, <4>1, <4>2
    <3>2. Len(read) <= n+1
      BY <1>1
    <3>3. QED
      BY <1>1, <3>1, <3>2 DEF ReadState
  <2>3. QED
    BY <2>1, <2>2
<1>13. at < count \/ at >= count
  BY <1>1, <1>8
<1>14. CASE ~done /\ at < count
  <2>1. Len(read) = n /\ pos = T[h].offset + n
    BY <1>1, <1>14
  <2>2. Past(f, read) <=> pos \div DataLength > f.bufindex
    BY <1>1 DEF Past
  <2>3. CASE pos = b + at
    <3>1. ~Past(f, read)
      <4>1. pos = U[h].bufindex * DataLength + at /\ U[h].open /\ at < U[h].buffer.count
        BY <1>5, <1>6, <1>14, <2>3 DEF FirstByte
      <4> HIDE DEF U, pos
      <4>2. pos \div DataLength = U[h].bufindex
        BY <1>5, <1>10, <4>1, ByteIs, SMTT(90)
      <4>3. pos \div DataLength = f.bufindex
        BY <1>5, <1>6, <4>2
      <4>4. QED
        BY <1>8, <2>2, <4>3
    <3> DEFINE byte == f.buffer.data[at]
    <3>2. byte = f.buffer.data[at] /\ at < f.buffer.count /\ pos = FirstByte(f) + at
      BY <1>14, <2>3
    <3> HIDE DEF byte
    <3>3. ~done /\ at < f.buffer.count
      BY <1>10, <1>14
    <3>4. ReadByte(k) = Round(e, f, at + 1, Append(read, byte), done)
      BY <1>10, <3>1, <3>2, <3>3, ReadBuffered
    <3>5. ReadState(d, T, L, h, e, f, at + 1, Append(read, byte), FALSE, n + 1)
      <4>1. \A j \in 1 .. n : read[j] = Text(d, T, L[SlotOf(T[h])])[T[h].offset + j]
        BY <1>1, <2>1
      <4>2. Reading(d, T, L, h, e, f, pos)
        BY <1>1
      <4> HIDE DEF pos
      <4>3. QED
        BY <1>1, <2>1, <4>1, <4>2, <3>2, ReadOn
    <3>6. done = FALSE
      BY <1>10, <3>3
    <3>7. QED
      BY <3>4, <3>5, <3>6
  <2>4. CASE at = 0 /\ read = <<>> /\ pos = b + DataLength
    <3>1. count = DataLength /\ pos - b = count /\ b \in Nat
      <4> HIDE DEF b, count, pos
      <4>1. QED
        BY <1>2, <1>8, <1>9, <2>4
    <3>2. Past(f, read)
      <4>1. (f.bufindex + 1) * DataLength = b + DataLength
        BY <1>8, <1>9 DEF FirstByte
      <4>2. pos = (f.bufindex + 1) * DataLength + 0
        BY <2>4, <4>1, <1>2
      <4>3. pos \div DataLength = f.bufindex + 1
        BY <1>8, <1>9, <4>2, DivModIs, SMTT(90)
      <4>4. QED
        BY <1>8, <2>2, <4>3
    <3>3. ~done /\ at < f.buffer.count /\ read = <<>>
      BY <1>10, <1>14, <2>4
    <3> DEFINE x == fflush(e, f)
    <3>4. Quiet(e, U, x, U, L) /\ Clean(x, U[h]) /\ Quiet(d, T, x, U, L)
      <4> HIDE DEF U, g
      <4>1. U[h].open /\ fflush(e, U[h]) = x
        BY <1>5, <1>6
      <4>2. Quiet(e, U, x, U, L) /\ Clean(x, U[h])
        BY <1>5, <4>1, QuietFlush
      <4>3. QED
        BY <1>4, <4>2, QuietThen
    <3>5. CASE f.buffer.next = EOC
      <4>1. ReadByte(k) = Over(Round(x, f, at, read, done))
        BY <1>10, <3>2, <3>3, <3>5, ReadToEnd
      <4>2. Over(Round(x, f, at, read, done)) = Round(x, f, at, read, TRUE)
        <5> HIDE DEF x
        <5>1. QED
          BY RoundOver, Zenon
      <4>3. Reading(d, T, L, h, x, f, pos)
        BY <3>4 DEF Reading
      <4>4. ReadState(d, T, L, h, x, f, at, read, TRUE, n + 1)
        <5>1. pos = Length(d, T, l)
          BY <1>11, <3>1, <3>5
        <5>2. Len(read) <= n+1
          BY <1>1
        <5> HIDE DEF x
        <5>3. QED
          BY <1>1, <4>3, <5>1, <5>2 DEF ReadState
      <4>5. QED
        BY <4>1, <4>2, <4>4
    <3>6. CASE f.buffer.next # EOC
      <4> DEFINE p == f.bufindex + 2
                 s == f.buffer.next
                 f1 == Load(x, f, s, f.bufindex + 1)
                 byte == f1.buffer.data[0]
      <4>1. p \in 1 .. Len(l) /\ s = l[p] /\ p-1 = f.bufindex + 1 /\ p \in Nat /\ p > 1
        BY <1>8, <3>6, SoundTypes DEF At
      <4>2. s \in Sector /\ s \in Usable
        BY <1>3, <4>1, SoundTypes, Geometry
      <4>3. Sound(x, U, L) /\ x.sector \in [Sector -> FileSector]
        <5> HIDE DEF U, x
        <5>1. Sound(x, U, L)
          BY <3>4 DEF Quiet
        <5>2. QED
          BY <5>1, SoundTypes
      <4>4. /\ f1 \in FILE /\ f1.open /\ f1.offset = T[h].offset /\ SlotOf(f1) = i
            /\ f1.bufindex = f.bufindex + 1 /\ f1.buffer = x.sector[s]
        <5> DEFINE index == f.bufindex + 1
        <5>1. f1 = Load(x, f, s, index) /\ index \in Nat
          BY <1>8
        <5>5. x.sector \in [Sector -> FileSector] /\ s \in Sector
          BY <4>2, <4>3
        <5>3. f.open /\ f.offset = T[h].offset /\ SlotOf(f) = i
          BY <1>1
        <5> HIDE DEF x, s, f1, i, index
        <5>2. f1 \in FILE /\ f1.offset = f.offset /\ f1.bufindex = index /\ f1.buffer = x.sector[s]
          BY <5>1, <5>5, LoadIs
        <5>6. f1.open /\ SlotOf(f1) = i
          BY <5>1, <5>3, LoadSlot
        <5>4. QED
          BY <5>2, <5>3, <5>6 DEF index
      <4>5. FirstByte(f1) = pos /\ (p-1) * DataLength = pos
        <5>1. (f.bufindex + 1) * DataLength = b + DataLength
          BY <1>8, <1>9 DEF FirstByte
        <5> HIDE DEF f1, p
        <5>2. QED
          BY <2>4, <4>1, <4>4, <5>1 DEF FirstByte
      <4>6. f1.buffer.count \in Nat /\ f1.buffer.count > 0
        <5>1. \A a \in Handle : U[a].open /\ SlotOf(U[a]) = i => Clean(x, U[a])
          <6> HIDE DEF U, x
          <6>1. U[h].open /\ SlotOf(U[h]) = i
            BY <1>5, <1>6
          <6>2. \A a \in Handle : a # h /\ U[a].open => SlotOf(U[a]) # i
            BY <4>3, <6>1, OpenFile
          <6>3. QED
            BY <3>4, <6>2
        <5> HIDE DEF U, x, p, l, s, f1
        <5>2. Fits(x.sector[L[i][p]], L[i], p) /\ Begun(x.sector[L[i][p]], p)
          BY <1>3, <4>1, <4>3, <5>1, AllBegun DEF l
        <5>3. QED
          BY <4>1, <4>4, <5>2, Geometry, SMTT(90) DEF Begun, Fits, FileSector, l
      <4>7. Reading(d, T, L, h, x, f1, pos)
        <5>1. MovedTo(f1, pos) = MovedTo(Load(x, g, s, f.bufindex + 1), pos)
          <6> HIDE DEF x, s
          <6>1. QED
            BY <1>1, <1>2, MovedIs
        <5> DEFINE y == MovedTo(Load(x, g, s, f.bufindex + 1), pos)
        <5>2. [U EXCEPT ![h] = y] = [T EXCEPT ![h] = MovedTo(f1, pos)]
          BY <5>1, SoundTypes
        <5>3. Quiet(x, U, x, [U EXCEPT ![h] = y], L)
          <6>1. y = MovedTo(Load(x, U[h], L[SlotOf(U[h])][p], p-1), pos)
            <7> HIDE DEF U, x, g, p, s, pos
            <7>1. QED
              BY <1>5, <1>6, <4>1 DEF l
          <6>2. p \in 1 .. Len(L[SlotOf(U[h])]) /\ U[h].open
            <7> HIDE DEF U, p, s, pos
            <7>1. QED
              BY <1>5, <1>6, <4>1 DEF l
          <6>3. pos - (p-1) * DataLength \in 0 .. x.sector[L[SlotOf(U[h])][p]].count
            <7> HIDE DEF U, x, g, p, s, pos, f1
            <7>1. x.sector[L[SlotOf(U[h])][p]] = f1.buffer
              BY <1>5, <1>6, <4>1, <4>4 DEF l
            <7>2. QED
              BY <1>2, <4>5, <4>6, <7>1
          <6>4. pos \in Nat /\ Clean(x, U[h])
            BY <1>2, <3>4
          <6> HIDE DEF U, x, y, g, p, s, pos, f1
          <6>5. QED
            BY <4>3, <6>1, <6>2, <6>3, <6>4, QuietLoad
        <5>4. Quiet(d, T, x, [U EXCEPT ![h] = y], L)
          <6> HIDE DEF U, x, y
          <6>1. QED
            BY <3>4, <5>3, QuietThen
        <5>5. QED
          BY <5>2, <5>4 DEF Reading
      <4>8. ReadByte(k) = Round(x, f1, 0 + 1, Append(read, byte), done)
        <5>1. /\ x = fflush(e, f) /\ f1 = Load(x, f, f.buffer.next, f.bufindex + 1)
              /\ byte = f1.buffer.data[0]
          OBVIOUS
        <5>3. ~done /\ at < f.buffer.count
          BY <3>3
        <5>4. Past(f, read) /\ f.buffer.next # EOC
          BY <3>2, <3>6
        <5> HIDE DEF byte, f1, x
        <5>2. QED
          BY <1>10, <5>1, <5>3, <5>4, ReadOnward
      <4>9. ReadState(d, T, L, h, x, f1, 0 + 1, Append(read, byte), FALSE, n + 1)
        <5>1. \A j \in 1 .. n : read[j] = Text(d, T, L[SlotOf(T[h])])[T[h].offset + j]
          BY <1>1, <2>1
        <5>2. byte = f1.buffer.data[0] /\ 0 \in Nat /\ 0 < f1.buffer.count /\ pos = FirstByte(f1) + 0
              /\ pos = T[h].offset + n
          BY <1>2, <2>1, <4>5, <4>6
        <5> HIDE DEF byte, pos, f1, x
        <5>3. QED
          BY <1>1, <2>1, <4>4, <4>7, <5>1, <5>2, ReadOn
      <4>10. done = FALSE
        BY <1>10, <3>3
      <4>11. QED
        BY <4>8, <4>9, <4>10
    <3>7. QED
      BY <3>5, <3>6
  <2>5. QED
    BY <1>1, <2>3, <2>4
<1>15. QED
  BY <1>10, <1>12, <1>13, <1>14

\* Before the first round.
LEMMA ReadStarts ==
  ASSUME NEW d, NEW T, NEW L, Sound(d, T, L), NEW h \in Handle, T[h].open,
         NEW at, at = T[h].offset % DataLength
  PROVE  ReadState(d, T, L, h, d, T[h], at, <<>>, FALSE, 0)
<1> DEFINE f == T[h]
           o == f.offset
           b == FirstByte(f)
           q == f.bufindex
           r == o - b
<1>1. /\ b \in Nat /\ q \in Nat /\ o \in Nat /\ f.buffer.count \in 0 .. DataLength
      /\ o - b \in 0 .. f.buffer.count
  BY PlaceIs
<1>2. f \in FILE
  BY OpenFile
<1>3. DataLength \in Nat \ {0}
  BY Geometry
<1>4. MovedTo(f, o + 0) = f
  <2>1. o + 0 = o
    BY <1>1
  <2>2. MovedTo(f, o) = f
    BY <1>2 DEF MovedTo, FILE
  <2> HIDE DEF f, o
  <2>3. QED
    BY <2>1, <2>2
<1>5. Reading(d, T, L, h, d, f, o + 0)
  <2>1. [T EXCEPT ![h] = MovedTo(f, o + 0)] = T
    BY <1>4, SoundTypes
  <2>2. Quiet(d, T, d, T, L)
    BY DEF Quiet
  <2> HIDE DEF f, o
  <2>3. QED
    BY <2>1, <2>2 DEF Reading
<1>6. b = q * DataLength
  BY DEF FirstByte
<1>7. at = o % DataLength
  OBVIOUS
<1> HIDE DEF f, o, b, q
<1>8. r \in 0 .. DataLength /\ o = b + r
  BY <1>1, <1>3
<1> HIDE DEF r
<1>9. at \in Nat /\ at < DataLength /\ (o = b + at \/ (at = 0 /\ o = b + DataLength))
  <2>1. CASE r \in 0 .. DataLength-1
    <3>1. (q * DataLength + r) % DataLength = r
      BY <1>1, <1>3, <2>1, DivModIs
    <3>2. at = r
      BY <1>6, <1>7, <1>8, <3>1
    <3>3. QED
      BY <1>3, <1>8, <2>1, <3>2
  <2>2. CASE r = DataLength
    <3>1. (q+1) * DataLength = b + DataLength
      BY <1>1, <1>3, <1>6
    <3> DEFINE q1 == q + 1
    <3>2. (q1 * DataLength + 0) % DataLength = 0
      <4>1. q1 \in Nat /\ 0 \in 0 .. DataLength-1
        BY <1>1, <1>3
      <4> HIDE DEF q1
      <4>2. QED
        BY <1>3, <4>1, DivModIs
    <3>3. o = (q+1) * DataLength + 0
      BY <1>1, <1>3, <1>8, <2>2, <3>1
    <3>4. at = 0
      BY <1>7, <3>2, <3>3
    <3>5. QED
      BY <1>3, <1>8, <2>2, <3>4
  <2>3. QED
    BY <1>3, <1>8, <2>1, <2>2
<1>10. Len(<<>>) = 0 /\ <<>> \in Seq(Nat) /\ o + 0 = o
  BY <1>1
<1>11. f.open /\ f = T[h] /\ o = T[h].offset
  BY DEF f, o
<1>12. ReadState(d, T, L, h, d, f, at, <<>>, FALSE, 0)
  BY <1>2, <1>5, <1>9, <1>10, <1>11 DEF ReadState, b, o
<1>13. QED
  BY <1>12 DEF f

ReadIs(d, T, L, h, k, n) ==
  \E e, f, at, read, done : k = Round(e, f, at, read, done)
                            /\ ReadState(d, T, L, h, e, f, at, read, done, n)

\* ReadRound, for what fread keeps as one value.
LEMMA ReadOnce ==
  ASSUME NEW d, NEW T, NEW L, Sound(d, T, L), NEW h \in Handle, T[h].open, NEW n \in Nat,
         NEW k, ReadIs(d, T, L, h, k, n)
  PROVE  ReadIs(d, T, L, h, ReadByte(k), n + 1)
<1>1. PICK e, f, at, read, done : /\ k = Round(e, f, at, read, done)
                                  /\ ReadState(d, T, L, h, e, f, at, read, done, n)
  BY DEF ReadIs
<1>2. f \in FILE /\ at \in Nat /\ read \in Seq(Nat) /\ done \in BOOLEAN
  BY <1>1 DEF ReadState
<1>3. \E e1, f1, at1, read1, done1 :
           /\ ReadByte(Round(e, f, at, read, done)) = Round(e1, f1, at1, read1, done1)
           /\ ReadState(d, T, L, h, e1, f1, at1, read1, done1, n + 1)
  BY <1>1, <1>2, ReadRound
<1>4. QED
  BY <1>1, <1>3 DEF ReadIs

\* What is so before the first round and after each is so after the last.
LEMMA ReadAll ==
  ASSUME NEW d, NEW T, NEW L, Sound(d, T, L), NEW h \in Handle, T[h].open, NEW size \in Nat,
         NEW start, ReadIs(d, T, L, h, start, 0), NEW g, ReadRounds(g, start, size)
  PROVE  ReadIs(d, T, L, h, g[size], size)
<1> DEFINE S == {n \in Nat : n <= size => ReadIs(d, T, L, h, g[n], n)}
<1>1. \A n \in 0 .. size : g[n] = IF n = 0 THEN start ELSE ReadByte(g[n-1])
  BY DEF ReadRounds
<1>2. 0 \in S
  BY <1>1
<1>3. ASSUME NEW n \in 1 .. size, n-1 \in S PROVE n \in S
  <2>1. ReadIs(d, T, L, h, g[n-1], n-1) /\ n-1 \in Nat /\ (n-1)+1 = n
    BY <1>3
  <2>2. g[n] = ReadByte(g[n-1])
    BY <1>1
  <2>3. ReadIs(d, T, L, h, ReadByte(g[n-1]), (n-1)+1)
    BY <2>1, ReadOnce
  <2>4. QED
    BY <2>1, <2>2, <2>3
<1> HIDE DEF S
<1>4. \A n \in 0 .. size : n \in S
  BY <1>2, <1>3, Along
<1>5. size \in S
  BY <1>4
<1>6. QED
  BY <1>5 DEF S

\* What fread leaves, when its rounds are over.
LEMMA ReadDone ==
  ASSUME IInv, Survived, NEW h \in Open, NEW size \in Nat, fread(h, size)
  PROVE  \E k : /\ ReadIs(disk, file_pointers, Lists(disk), h, k, size)
                /\ disk' = k.d
                /\ file_pointers' = [file_pointers EXCEPT ![h] = [k.f EXCEPT !.offset = @ + Len(k.read)]]
                /\ result' = [call |-> "fread", value |-> k.read]
                /\ fault' = ReadFault(k.f, k.read, size)
<1> DEFINE T == file_pointers
           L == Lists(disk)
           at == T[h].offset % DataLength
           start == Round(disk, T[h], at, <<>>, FALSE)
           Upto(g) == [n \in 0 .. size |-> IF n = 0 THEN start ELSE ReadByte(g[n-1])]
           g == CHOOSE g : g = Upto(g)
           k == g[size]
<1>1. h \in Handle /\ T[h].open /\ Sound(disk, T, L)
  BY Before DEF Open
<1>2. /\ disk' = k.d
      /\ file_pointers' = [T EXCEPT ![h] = [k.f EXCEPT !.offset = @ + Len(k.read)]]
      /\ result' = [call |-> "fread", value |-> k.read]
      /\ fault' = ReadFault(k.f, k.read, size)
  BY DEF fread, Round
<1>3. ReadIs(disk, T, L, h, start, 0)
  <2> HIDE DEF L, at
  <2>1. ReadState(disk, T, L, h, disk, T[h], at, <<>>, FALSE, 0)
    BY <1>1, ReadStarts DEF at
  <2>2. QED
    BY <2>1 DEF ReadIs
<1>4. g = Upto(g)
  <2> HIDE DEF start
  <2>1. PICK e : ReadRounds(e, start, size)
    BY ReadRoundsExists
  <2>2. e = Upto(e)
    BY <2>1 DEF ReadRounds
  <2> HIDE DEF Upto
  <2>3. QED
    BY <2>2
<1>5. ReadRounds(g, start, size)
  <2> HIDE DEF g, start
  <2>1. QED
    BY <1>4 DEF ReadRounds
<1>6. ReadIs(disk, T, L, h, k, size)
  <2> HIDE DEF g, start, L
  <2>1. QED
    BY <1>1, <1>3, <1>5, ReadAll
<1> HIDE DEF k
<1>7. QED
  BY <1>2, <1>6

\* Bytes that are those of a file from an offset on are a part of it.
LEMMA Excerpt ==
  ASSUME NEW t, NEW read \in Seq(Nat), NEW o \in Nat,
         \A j \in 1 .. Len(read) : read[j] = t[o + j]
  PROVE  read = SubSeq(t, o + 1, o + Len(read))
<1> DEFINE n == Len(read)
           s == SubSeq(t, o + 1, o + n)
<1>1. n \in Nat /\ o + 1 \in Int /\ o + n \in Int
  OBVIOUS
<1>2. \A i \in o + 1 .. o + n : t[i] \in Nat
  <2> SUFFICES ASSUME NEW i \in o + 1 .. o + n PROVE t[i] \in Nat
    OBVIOUS
  <2>1. i - o \in 1 .. n /\ o + (i - o) = i
    BY <1>1
  <2> DEFINE j == i - o
  <2> HIDE DEF j
  <2>2. j \in 1 .. n /\ o + j = i
    BY <2>1 DEF j
  <2>3. read[j] = t[i] /\ read[j] \in Nat
    <3>1. j \in 1 .. Len(read)
      BY <2>2
    <3>2. read[j] = t[o + j]
      BY <3>1
    <3>3. read[j] \in Nat
      BY <3>1
    <3>4. QED
      BY <2>2, <3>2, <3>3
  <2>4. QED
    BY <2>3
<1>3. (o + n) - (o + 1) + 1 = n /\ (o + 1 <= o + n <=> n > 0)
  BY <1>1
<1>4. s \in Seq(Nat) /\ Len(s) = n /\ \A j \in 1 .. n : s[j] = t[(o + 1) + j - 1]
  <2> DEFINE p == o + 1
             q == o + n
  <2>1. p \in Int /\ q \in Int /\ q - p + 1 = n /\ (p <= q <=> n > 0) /\ \A i \in p .. q : t[i] \in Nat
    BY <1>1, <1>2, <1>3
  <2> HIDE DEF p, q
  <2>2. /\ SubSeq(t, p, q) \in Seq(Nat)
        /\ Len(SubSeq(t, p, q)) = IF p <= q THEN q - p + 1 ELSE 0
        /\ \A i \in 1 .. q-p+1 : SubSeq(t, p, q)[i] = t[p+i-1]
    BY <2>1, SubSeqProperties
  <2>3. Len(SubSeq(t, p, q)) = n
    BY <1>1, <2>1, <2>2
  <2>4. QED
    BY <2>1, <2>2, <2>3 DEF p, q
<1>5. \A j \in 1 .. n : (o + 1) + j - 1 = o + j
  BY <1>1
<1> HIDE DEF s
<1>6. \A j \in 1 .. n : read[j] = s[j]
  BY <1>4, <1>5
<1>7. QED
  BY <1>4, <1>6, SeqEqual DEF s

\* fread is that of the store, unless it stops short: it returns the bytes of the
\* file from the position on.
LEMMA ReadStep ==
  ASSUME IInv, Survived, Survived', NEW h \in Open, NEW size \in Offsets, fread(h, size)
  PROVE  IInv' /\ (fault' = "none" => Store!Read(h, size))
<1> DEFINE T == file_pointers
           L == Lists(disk)
           i == SlotOf(T[h])
           t == Text(disk, T, L[i])
           o == T[h].offset
<1>1. h \in Handle /\ T[h].open /\ Sound(disk, T, L)
  BY Before DEF Open
<1>2. size \in Nat
  BY FsAssumption
<1>3. PICK k : /\ ReadIs(disk, T, L, h, k, size)
               /\ disk' = k.d
               /\ file_pointers' = [T EXCEPT ![h] = [k.f EXCEPT !.offset = @ + Len(k.read)]]
               /\ result' = [call |-> "fread", value |-> k.read]
               /\ fault' = ReadFault(k.f, k.read, size)
  BY <1>2, ReadDone
<1>4. PICK e, f, at, read, done : /\ k = Round(e, f, at, read, done)
                                  /\ ReadState(disk, T, L, h, e, f, at, read, done, size)
  BY <1>3 DEF ReadIs
<1> DEFINE n == Len(read)
           pos == o + n
<1>5. /\ f.offset = o /\ f.open /\ SlotOf(f) = i /\ f \in FILE
      /\ read \in Seq(Nat) /\ n <= size /\ (~done => n = size) /\ done \in BOOLEAN
      /\ \A j \in 1 .. n : read[j] = t[o + j]
      /\ Reading(disk, T, L, h, e, f, pos)
      /\ done => pos = Length(disk, T, L[i]) \/ f.buffer.next # EOC
  BY <1>4 DEF ReadState
<1>6. /\ disk' = e /\ file_pointers' = [T EXCEPT ![h] = MovedTo(f, pos)]
      /\ result' = [call |-> "fread", value |-> read] /\ fault' = ReadFault(f, read, size)
  <2>1. k.d = e /\ k.f = f /\ k.read = read
    BY <1>4 DEF Round
  <2>2. [k.f EXCEPT !.offset = @ + Len(k.read)] = MovedTo(f, pos)
    BY <1>5, <2>1 DEF MovedTo
  <2> HIDE DEF pos
  <2>3. QED
    BY <1>3, <2>1, <2>2
<1>7. Quiet(disk, T, disk', file_pointers', L)
  BY <1>5, <1>6 DEF Reading
<1>8. IInv' /\ Contents' = Contents /\ Users' = UsersOf(disk, file_pointers')
  BY <1>7, QuietStep
<1>9. o \in Nat /\ n \in Nat /\ pos \in Nat /\ Length(disk, T, L[i]) \in Nat
  <2>1. o \in Nat /\ Length(disk, T, L[i]) \in Nat
    BY <1>1, OffsetUpTo
  <2>2. n \in Nat
    BY <1>5
  <2> HIDE DEF o, n
  <2>3. QED
    BY <2>1, <2>2
<1>10. Moves(T, file_pointers', h, pos)
  <2>1. /\ MovedTo(f, pos).open /\ SlotOf(MovedTo(f, pos)) = i /\ MovedTo(f, pos).offset = pos
    BY <1>5, <1>9, MovedIs
  <2>2. file_pointers'[h] = MovedTo(f, pos) /\ \A g \in Handle : g # h => file_pointers'[g] = T[g]
    BY <1>1, <1>6, SoundTypes
  <2> HIDE DEF pos
  <2>3. QED
    BY <2>1, <2>2 DEF Moves
<1>11. Users' = WithUserAt(Users, h, pos)
  <2> HIDE DEF pos
  <2>1. UsersOf(disk, file_pointers') = WithUserAt(UsersOf(disk, T), h, pos)
    <3> HIDE DEF T
    <3>1. QED
      BY <1>1, <1>10, MovesUsers
  <2>2. Users = UsersOf(disk, T)
    BY Before
  <2>3. QED
    BY <1>8, <2>1, <2>2
<1>12. /\ Users[h].pos = o /\ Store!Content(h) = t /\ Len(t) = Length(disk, T, L[i])
  <2>1. Contents = ContentsOf(disk, T, L) /\ Users = UsersOf(disk, T)
    BY Before
  <2>2. Users[h].name = disk.name[i] /\ Users[h].pos = o
    BY <1>1, <2>1, UserIs
  <2>3. Contents[disk.name[i]] = t /\ Len(t) = Length(disk, T, L[i])
    BY <1>1, <2>1, UserIs
  <2>4. QED
    BY <2>2, <2>3 DEF Store!Content
<1>13. pos <= Length(disk, T, L[i])
  <2>1. Sound(disk', file_pointers', L)
    BY <1>7 DEF Quiet
  <2>2. file_pointers'[h].open /\ file_pointers'[h].offset = pos /\ SlotOf(file_pointers'[h]) = i
    BY <1>10 DEF Moves
  <2>3. i \in Listing(L)
    BY <1>1, UserIs
  <2> HIDE DEF L, i, pos
  <2>4. file_pointers'[h].offset <= Length(disk', file_pointers', L[SlotOf(file_pointers'[h])])
    BY <1>1, <2>1, <2>2, OffsetUpTo
  <2>5. Length(disk', file_pointers', L[i]) = Length(disk, T, L[i])
    BY <1>1, <1>7, <2>3, QuietText
  <2>6. QED
    BY <2>2, <2>4, <2>5
<1>14. read = SubSeq(t, o + 1, o + n)
  <2> HIDE DEF t, o
  <2>1. QED
    BY <1>5, <1>9, Excerpt
<1>15. ASSUME fault' = "none"
       PROVE  n = IF size <= Len(t) - o THEN size ELSE Len(t) - o
  <2>1. ~(n < size /\ f.buffer.next # EOC)
    BY <1>6, <1>15 DEF ReadFault
  <2>2. n = size \/ pos = Length(disk, T, L[i])
    BY <1>2, <1>5, <1>9, <2>1
  <2>3. n <= size /\ Len(t) = Length(disk, T, L[i])
    BY <1>5, <1>12
  <2> HIDE DEF t, i, n, o
  <2>4. QED
    BY <1>2, <1>9, <1>13, <2>2, <2>3
<1>16. QED
  <2>1. result'.call = "fread" /\ result'.value = read
    BY <1>6
  <2> HIDE DEF t, o, n
  <2>2. QED
    BY <1>8, <1>11, <1>12, <1>14, <1>15, <2>1 DEF Store!Read, Store!Move, WithUserAt
-----------------------------------------------------------------------------
(* Writing                                                                 *)

\* The next byte of FILE f, at place at of its buffer, becomes b.
PutByte(f, at, b) ==
  [f EXCEPT !.buffer.data[at] = b, !.offset = @ + 1,
            !.buffer.count = IF at >= @ THEN @ + 1 ELSE @]

\* a FILE with another buffer and offset
Rebuffer(f, y, to) == [f EXCEPT !.buffer = y, !.offset = to]

\* What Rebuffer sets, and what it keeps.
LEMMA Rebuffered ==
  ASSUME NEW f \in FILE, f.open, NEW y \in FileSector, NEW to \in Nat,
         NEW g, g = Rebuffer(f, y, to)
  PROVE  /\ g \in FILE /\ g.open /\ g.ib = f.ib /\ g.ibindex = f.ibindex
         /\ g.bufindex = f.bufindex /\ g.bufsect = f.bufsect /\ g.offset = to
         /\ g.buffer = y
<1>1. g \in FILE
  BY DEF FILE, Rebuffer
<1>2. /\ g.open /\ g.ib = f.ib /\ g.ibindex = f.ibindex
      /\ g.bufindex = f.bufindex /\ g.bufsect = f.bufsect /\ g.offset = to
      /\ g.buffer = y
  BY DEF FILE, Rebuffer
<1>3. QED
  BY <1>1, <1>2

\* What PutByte sets, and what it keeps.
LEMMA PutIs ==
  ASSUME NEW f \in FILE, NEW at \in Nat, at < DataLength, NEW b \in Bytes,
         f.buffer.count \in 0 .. DataLength, f.open,
         NEW g, g = PutByte(f, at, b)
  PROVE  /\ g \in FILE /\ g.open /\ SlotOf(g) = SlotOf(f)
         /\ g.bufindex = f.bufindex /\ g.bufsect = f.bufsect /\ g.offset = f.offset + 1
         /\ g.buffer.next = f.buffer.next
         /\ g.buffer.count = IF at >= f.buffer.count THEN f.buffer.count + 1 ELSE f.buffer.count
         /\ g.buffer.data = [f.buffer.data EXCEPT ![at] = b]
<1> DEFINE x == f.buffer
           c == IF at >= x.count THEN x.count + 1 ELSE x.count
           data == [x.data EXCEPT ![at] = b]
           y == [x EXCEPT !.data = data, !.count = c]
<1>1. x \in FileSector /\ f.offset \in Nat
  BY DEF FILE
<1>2. data \in [0 .. DataLength-1 -> Bytes \cup {0}]
  <2>1. x.data \in [0 .. DataLength-1 -> Bytes \cup {0}]
    BY <1>1 DEF FileSector
  <2>2. at \in 0 .. DataLength-1
    BY Geometry
  <2>3. QED
    BY <2>1, <2>2
<1>3. c \in 0 .. Size + DataLength
  BY Geometry
<1>4. g = [f EXCEPT !.buffer = y, !.offset = f.offset + 1]
  BY <1>1 DEF PutByte, FILE, FileSector
<1> HIDE DEF c, data
<1>5. y \in FileSector /\ y.next = x.next /\ y.count = c /\ y.data = data
  BY <1>1, <1>2, <1>3 DEF FileSector
<1> HIDE DEF y
<1>6. /\ g \in FILE /\ g.open /\ g.ib = f.ib /\ g.ibindex = f.ibindex
      /\ g.bufindex = f.bufindex /\ g.bufsect = f.bufsect /\ g.offset = f.offset + 1
      /\ g.buffer = y
  <2> DEFINE to == f.offset + 1
  <2>1. to \in Nat
    BY <1>1
  <2>2. g = Rebuffer(f, y, to)
    BY <1>4 DEF Rebuffer
  <2> HIDE DEF to, x
  <2>3. /\ g \in FILE /\ g.open /\ g.ib = f.ib /\ g.ibindex = f.ibindex
        /\ g.bufindex = f.bufindex /\ g.bufsect = f.bufsect /\ g.offset = to
        /\ g.buffer = y
    BY <1>5, <2>1, <2>2, Rebuffered
  <2>4. QED
    BY <2>3 DEF to
<1>7. SlotOf(g) = SlotOf(f)
  BY <1>6 DEF SlotOf
<1>8. QED
  BY <1>5, <1>6, <1>7 DEF c, data

\* text t with byte b at offset o of it
WithByte(t, o, b) ==
  [p \in 1 .. IF o + 1 > Len(t) THEN o + 1 ELSE Len(t) |-> IF p = o + 1 THEN b ELSE t[p]]

\* text t with the first n of some bytes from offset o of it on
WithBytes(t, o, bytes, n) ==
  [p \in 1 .. IF o + n > Len(t) THEN o + n ELSE Len(t) |->
     IF p \in o+1 .. o+n THEN bytes[p - o] ELSE t[p]]

\* With no byte written, a file is as it was.
LEMMA NoBytes ==
  ASSUME NEW t, NEW size \in Nat, t = [p \in 1 .. size |-> t[p]], NEW o \in 0 .. size, NEW bytes
  PROVE  WithBytes(t, o, bytes, 0) = t
<1>1. Len(t) = size
  BY SMT
<1>2. o + 0 = o /\ ~(o > size) /\ \A p \in 1 .. size : p \notin o+1 .. o
  OBVIOUS
<1>3. QED
  BY <1>1, <1>2 DEF WithBytes

\* n+1 bytes are n bytes and one.
LEMMA OneByteMore ==
  ASSUME NEW t, Len(t) \in Nat, NEW o \in Nat, o <= Len(t), NEW bytes, NEW n \in Nat
  PROVE  WithByte(WithBytes(t, o, bytes, n), o + n, bytes[n+1]) = WithBytes(t, o, bytes, n + 1)
<1> DEFINE size == IF o + n > Len(t) THEN o + n ELSE Len(t)
           u == WithBytes(t, o, bytes, n)
           to == IF o + (n+1) > Len(t) THEN o + (n+1) ELSE Len(t)
<1>1. size \in Nat /\ to \in Nat
  OBVIOUS
<1>2. Len(u) = size
  <2>1. u = [p \in 1 .. size |-> u[p]]
    BY DEF WithBytes
  <2> HIDE DEF u, size
  <2>2. QED
    BY <1>1, <2>1
<1>3. \A p \in 1 .. size : u[p] = IF p \in o+1 .. o+n THEN bytes[p - o] ELSE t[p]
  BY DEF WithBytes
<1>4. to = IF (o + n) + 1 > size THEN (o + n) + 1 ELSE size
  OBVIOUS
<1>5. ASSUME NEW p \in 1 .. to
      PROVE  (IF p = (o + n) + 1 THEN bytes[n+1] ELSE u[p])
               = IF p \in o+1 .. o+(n+1) THEN bytes[p - o] ELSE t[p]
  <2>1. CASE p = (o + n) + 1
    <3>1. p - o = n + 1 /\ p \in o+1 .. o+(n+1)
      BY <2>1
    <3>2. QED
      BY <2>1, <3>1
  <2>2. CASE p # (o + n) + 1
    <3>1. p \in 1 .. size /\ (p \in o+1 .. o+(n+1) <=> p \in o+1 .. o+n)
      BY <2>2
    <3> HIDE DEF u, size
    <3>2. QED
      BY <1>3, <2>2, <3>1
  <2>3. QED
    BY <2>1, <2>2
<1>6. WithByte(u, o + n, bytes[n+1]) =
        [p \in 1 .. to |-> IF p = (o + n) + 1 THEN bytes[n+1] ELSE u[p]]
  <2> HIDE DEF u, size, to
  <2>1. QED
    BY <1>2, <1>4 DEF WithByte
<1>7. WithBytes(t, o, bytes, n + 1) =
        [p \in 1 .. to |-> IF p \in o+1 .. o+(n+1) THEN bytes[p - o] ELSE t[p]]
  BY DEF WithBytes
<1> HIDE DEF u, to
<1>8. QED
  BY <1>5, <1>6, <1>7 DEF u

\* FILE g is f, the open FILE h with sectors l, after byte b was put at its offset,
\* place at of its buffer; the table with it is U.
Putting(T, L, h, f, l, at, b, g, U) ==
  /\ h \in Handle /\ f = T[h] /\ f.open /\ l = L[SlotOf(f)]
  /\ at \in Nat /\ at < DataLength /\ f.offset = FirstByte(f) + at
  /\ b \in Bytes /\ g = PutByte(f, at, b)
  /\ U = [T EXCEPT ![h] = g]

\* buffer y is x with byte b at place at
ByteAt(x, at, b, y) ==
  /\ y.next = x.next
  /\ y.count = IF at >= x.count THEN x.count + 1 ELSE x.count
  /\ y.data = [x.data EXCEPT ![at] = b]

\* A FILE whose buffer gets a byte stays in place.
LEMMA PutPlace ==
  ASSUME NEW d, NEW T, NEW L, Sound(d, T, L), NEW h, NEW f, NEW l, NEW at, NEW b, NEW g,
         NEW U, Putting(T, L, h, f, l, at, b, g, U)
  PROVE  /\ g \in FILE /\ g.open /\ SlotOf(g) = SlotOf(f) /\ InPlace(g, l)
         /\ g.bufindex = f.bufindex /\ g.bufsect = f.bufsect /\ g.offset = f.offset + 1
         /\ FirstByte(g) = FirstByte(f)
         /\ at <= f.buffer.count /\ f.buffer.count \in 0 .. DataLength
         /\ ByteAt(f.buffer, at, b, g.buffer)
<1>0. /\ h \in Handle /\ f = T[h] /\ f.open /\ l = L[SlotOf(f)]
      /\ at \in Nat /\ at < DataLength /\ f.offset = FirstByte(f) + at
      /\ b \in Bytes /\ g = PutByte(f, at, b)
  BY DEF Putting
<1>1. /\ FirstByte(f) \in Nat /\ f.bufindex \in Nat /\ f.offset \in Nat
      /\ f.buffer.count \in 0 .. DataLength
      /\ f.offset - FirstByte(f) \in 0 .. f.buffer.count
  BY <1>0, PlaceIs
<1>2. f \in FILE /\ InPlace(f, l)
  BY <1>0, OpenFile
<1>3. /\ g \in FILE /\ g.open /\ SlotOf(g) = SlotOf(f)
      /\ g.bufindex = f.bufindex /\ g.bufsect = f.bufsect /\ g.offset = f.offset + 1
      /\ g.buffer.next = f.buffer.next
      /\ g.buffer.count = IF at >= f.buffer.count THEN f.buffer.count + 1 ELSE f.buffer.count
      /\ g.buffer.data = [f.buffer.data EXCEPT ![at] = b]
  BY <1>0, <1>1, <1>2, PutIs
<1>4. FirstByte(g) = FirstByte(f)
  BY <1>3 DEF FirstByte
<1>5. at <= f.buffer.count
  BY <1>0, <1>1
<1>6. InPlace(g, l)
  <2>1. /\ f.bufindex + 1 \in 1 .. Len(l) /\ f.bufsect = l[f.bufindex+1]
        /\ f.buffer.next = At(l, (f.bufindex+1)+1)
        /\ f.bufindex + 1 < Len(l) => f.buffer.count = DataLength
    BY <1>2 DEF InPlace, Fits
  <2>2. g.buffer \in FileSector
    BY <1>3 DEF FILE
  <2>3. g.buffer.count <= DataLength /\ g.buffer.count > 0
    <3> DEFINE count == f.buffer.count
    <3>1. /\ count \in Nat /\ at <= count /\ count <= DataLength
          /\ g.buffer.count = IF at >= count THEN count + 1 ELSE count
      BY <1>0, <1>1, <1>3, <1>5
    <3> HIDE DEF count
    <3>2. QED
      BY <1>0, <3>1, Geometry
  <2>4. f.bufindex + 1 < Len(l) => g.buffer.count = DataLength
    <3>1. ASSUME f.bufindex + 1 < Len(l) PROVE ~(at >= f.buffer.count) /\ f.buffer.count = DataLength
      <4>1. f.buffer.count = DataLength
        BY <2>1, <3>1
      <4>2. QED
        BY <1>0, <4>1, Geometry
    <3>2. QED
      BY <1>3, <3>1
  <2>5. Fits(g.buffer, l, g.bufindex + 1) /\ Begun(g.buffer, g.bufindex + 1)
    BY <1>3, <2>1, <2>2, <2>3, <2>4 DEF Fits, Begun
  <2>6. g.offset - FirstByte(g) \in 0 .. g.buffer.count
    <3> DEFINE base == FirstByte(f)
               count == f.buffer.count
    <3>1. base \in Nat /\ count \in Nat /\ at <= count /\ g.offset = (base + at) + 1 /\ FirstByte(g) = base
      BY <1>0, <1>1, <1>3, <1>4, <1>5
    <3>2. g.buffer.count = IF at >= count THEN count + 1 ELSE count
      BY <1>3
    <3> HIDE DEF base, count
    <3>3. g.offset - FirstByte(g) = at + 1
      BY <1>0, <3>1
    <3>4. QED
      BY <1>0, <3>1, <3>2, <3>3
  <2>7. QED
    BY <1>3, <2>1, <2>5, <2>6 DEF InPlace, FirstByte
<1>7. ByteAt(f.buffer, at, b, g.buffer)
  BY <1>3 DEF ByteAt
<1>8. QED
  BY <1>1, <1>3, <1>4, <1>5, <1>6, <1>7

\* From disk d, table T and lists L to disk e, table U and lists M only FILE h and the
\* file of slot i change.
OnlyFile(d, T, L, e, U, M, h, i) ==
  /\ h \in Handle /\ i \in Slot
  /\ \A g \in Handle : g # h => U[g] = T[g]
  /\ T[h].open => SlotOf(T[h]) = i
  /\ U[h].open => SlotOf(U[h]) = i
  /\ \A j \in Slot : j # i => M[j] = L[j]
  /\ \A j \in Slot : j # i => \A s \in Sector : Holds(L[j], s) => e.sector[s] = d.sector[s]

\* Other files have the same bytes, if what is theirs is the same.
LEMMA OnlyFileText ==
  ASSUME NEW d, NEW T, NEW L, Sound(d, T, L), NEW e, NEW U, NEW M, Sound(e, U, M),
         NEW h, NEW i, OnlyFile(d, T, L, e, U, M, h, i)
  PROVE  OthersSame(d, T, L, e, U, i)
<1>1. /\ h \in Handle /\ i \in Slot
      /\ \A g \in Handle : g # h => U[g] = T[g]
      /\ T[h].open => SlotOf(T[h]) = i
      /\ U[h].open => SlotOf(U[h]) = i
  BY DEF OnlyFile
<1>2. ASSUME NEW j \in Listing(L), j # i PROVE Text(e, U, L[j]) = Text(d, T, L[j])
  <2>1. M[j] = L[j] /\ \A s \in Sector : Holds(L[j], s) => e.sector[s] = d.sector[s]
    BY <1>2 DEF OnlyFile, Listing
  <2>2. Text(e, U, M[j]) = Text(d, T, L[j])
    BY <1>1, <1>2, <2>1, OtherText
  <2>3. QED
    BY <2>1, <2>2
<1>3. QED
  BY <1>2 DEF OthersSame

\* A byte put in the buffer keeps a disk sound, and other files as they are.
LEMMA PutSound ==
  ASSUME NEW d, NEW T, NEW L, Sound(d, T, L), NEW h, NEW f, NEW l, NEW at, NEW b, NEW g,
         NEW U, Putting(T, L, h, f, l, at, b, g, U)
  PROVE  /\ Sound(d, U, L) /\ U[h] = g /\ \A x \in Handle : x # h => U[x] = T[x]
         /\ OthersSame(d, T, L, d, U, SlotOf(f))
<1>0. h \in Handle /\ f = T[h] /\ f.open /\ l = L[SlotOf(f)] /\ U = [T EXCEPT ![h] = g]
  BY DEF Putting
<1>1. g \in FILE /\ g.open /\ SlotOf(g) = SlotOf(f) /\ InPlace(g, l) /\ g.bufindex = f.bufindex
  BY PutPlace
<1>2. T \in [Handle -> FILE] /\ SlotOf(f) \in Slot
  BY <1>0, SoundTypes, OpenFile
<1>3. U[h] = g /\ \A x \in Handle : x # h => U[x] = T[x]
  BY <1>0, <1>2
<1>4. Sound(d, U, L)
  BY <1>0, <1>1, Kept
<1>5. OnlyFile(d, T, L, d, U, L, h, SlotOf(f))
  BY <1>0, <1>1, <1>2, <1>3 DEF OnlyFile
<1>6. QED
  BY <1>3, <1>4, <1>5, OnlyFileText

\* What the FILE shows, with the byte.
LEMMA PutShown ==
  ASSUME NEW d, NEW T, NEW L, Sound(d, T, L), NEW h, NEW f, NEW l, NEW at, NEW b, NEW g,
         NEW U, Putting(T, L, h, f, l, at, b, g, U),
         NEW k \in 1 .. Len(l)
  PROVE  /\ k = f.bufindex + 1 => /\ Shown(d, T, l[k]) = f.buffer
                                  /\ ByteAt(f.buffer, at, b, Shown(d, U, l[k]))
         /\ k # f.bufindex + 1 => Shown(d, U, l[k]) = Shown(d, T, l[k])
<1>0. h \in Handle /\ f = T[h] /\ f.open /\ l = L[SlotOf(f)] /\ SlotOf(f) \in Slot
  BY OpenFile DEF Putting
<1>1. /\ g.open /\ SlotOf(g) = SlotOf(f) /\ g.bufindex = f.bufindex
      /\ ByteAt(f.buffer, at, b, g.buffer)
  BY PutPlace
<1>2. Sound(d, U, L) /\ U[h] = g
  BY PutSound
<1> DEFINE i == SlotOf(f)
<1>3. i = SlotOf(f) /\ i \in Slot /\ l = L[i]
  BY <1>0
<1> HIDE DEF i
<1>4. Shown(d, T, L[i][k]) = IF T[h].bufindex + 1 = k THEN T[h].buffer ELSE d.sector[L[i][k]]
  BY <1>0, <1>3, ShownIs
<1>5. Shown(d, U, L[i][k]) = IF U[h].bufindex + 1 = k THEN U[h].buffer ELSE d.sector[L[i][k]]
  BY <1>0, <1>1, <1>2, <1>3, ShownIs
<1>6. QED
  BY <1>0, <1>1, <1>2, <1>3, <1>4, <1>5

\* A byte put in the buffer makes the file longer if it is put at its end.
LEMMA PutLength ==
  ASSUME NEW d, NEW T, NEW L, Sound(d, T, L), NEW h, NEW f, NEW l, NEW at, NEW b, NEW g,
         NEW U, Putting(T, L, h, f, l, at, b, g, U)
  PROVE  /\ Length(d, T, l) \in Nat /\ f.offset <= Length(d, T, l)
         /\ Length(d, U, l) = IF f.offset + 1 > Length(d, T, l) THEN f.offset + 1
                                                                ELSE Length(d, T, l)
<1>0. /\ h \in Handle /\ f = T[h] /\ f.open /\ l = L[SlotOf(f)] /\ at \in Nat /\ at < DataLength
      /\ f.offset = FirstByte(f) + at
  BY DEF Putting
<1>1. /\ FirstByte(f) \in Nat /\ f.bufindex \in Nat /\ f.offset \in Nat
      /\ f.bufindex + 1 \in 1 .. Len(l) /\ Len(l) \in Nat
  BY <1>0, PlaceIs
<1>2. Length(d, T, l) \in Nat /\ f.offset <= Length(d, T, l)
  BY <1>0, OffsetUpTo
<1> DEFINE last == Len(l)
           rest == (last - 1) * DataLength
           n == Shown(d, T, l[last]).count
           m == Shown(d, U, l[last]).count
<1>3. last \in 1 .. Len(l) /\ Length(d, T, l) = rest + n /\ Length(d, U, l) = rest + m
  BY <1>1 DEF Length
<1>4. CASE f.bufindex + 1 < last
  <2>1. n = m
    BY <1>1, <1>3, <1>4, PutShown
  <2>2. FirstByte(f) + DataLength <= rest /\ rest \in Nat
    <3> DEFINE q == f.bufindex
               p == last - 1
    <3>1. q \in Nat /\ p \in Nat /\ q < p /\ DataLength \in Nat
      BY <1>1, <1>4, Geometry
    <3> HIDE DEF q, p
    <3>2. p * DataLength \in Nat /\ q * DataLength + DataLength <= p * DataLength
      BY <3>1, Sectors
    <3>3. QED
      BY <3>2 DEF FirstByte, q, p
  <2>3. n \in Nat
    <3>1. Shown(d, T, l[last]) \in FileSector
      <4>1. SlotOf(f) \in Slot
        BY <1>0, OpenFile
      <4>2. Fits(Shown(d, T, l[last]), l, last)
        BY <1>0, <1>3, <4>1, ShownIs
      <4>3. QED
        BY <4>2 DEF Fits
    <3>2. QED
      BY <3>1, Geometry DEF FileSector
  <2> HIDE DEF last, rest, n, m
  <2>4. f.offset + 1 <= rest
    BY <1>0, <1>1, <2>2, Geometry
  <2>5. QED
    BY <1>1, <1>3, <2>1, <2>2, <2>3, <2>4
<1>5. CASE f.bufindex + 1 = last
  <2>1. n = f.buffer.count /\ ByteAt(f.buffer, at, b, Shown(d, U, l[last]))
    BY <1>3, <1>5, PutShown
  <2>2. m = IF at >= n THEN n + 1 ELSE n
    BY <2>1 DEF ByteAt
  <2>3. rest = FirstByte(f)
    BY <1>1, <1>5 DEF FirstByte
  <2>4. at <= f.buffer.count /\ f.buffer.count \in 0 .. DataLength
    BY PutPlace
  <2> HIDE DEF last, rest, n, m
  <2>5. n \in Nat /\ at <= n
    BY <2>1, <2>4, Geometry
  <2>6. QED
    BY <1>0, <1>1, <1>2, <1>3, <2>2, <2>3, <2>5
<1>6. QED
  BY <1>1, <1>2, <1>4, <1>5

\* A byte put in the buffer is put in the file at the offset.
LEMMA PutText ==
  ASSUME NEW d, NEW T, NEW L, Sound(d, T, L), NEW h, NEW f, NEW l, NEW at, NEW b, NEW g,
         NEW U, Putting(T, L, h, f, l, at, b, g, U)
  PROVE  Text(d, U, l) = WithByte(Text(d, T, l), f.offset, b)
<1>0. /\ h \in Handle /\ f = T[h] /\ f.open /\ l = L[SlotOf(f)] /\ at \in Nat /\ at < DataLength
      /\ f.offset = FirstByte(f) + at
  BY DEF Putting
<1>1. /\ f.bufindex \in Nat /\ f.offset \in Nat /\ FirstByte(f) \in Nat
  BY <1>0, PlaceIs
<1>2. Sound(d, U, L) /\ SlotOf(f) \in Listing(L)
  BY <1>0, PutSound, UserIs
<1> DEFINE old == Length(d, T, l)
           new == Length(d, U, l)
           t == Text(d, T, l)
<1>3. old \in Nat /\ f.offset <= old /\ new = IF f.offset + 1 > old THEN f.offset + 1 ELSE old
  BY PutLength
<1>4. t = [p \in 1 .. old |-> t[p]] /\ Len(t) = old
  <2>1. t = [p \in 1 .. old |-> t[p]]
    BY DEF Text
  <2> HIDE DEF t, old
  <2>2. Len(t) = old
    BY <1>3, <2>1
  <2>3. QED
    BY <2>1, <2>2
<1>5. ASSUME NEW p \in 1 .. new
      PROVE  Shown(d, U, l[(p-1) \div DataLength + 1]).data[(p-1) % DataLength]
               = IF p = f.offset + 1 THEN b ELSE t[p]
  <2> DEFINE o == p - 1
             q == o \div DataLength
             r == o % DataLength
  <2>1. new \in Nat /\ o \in Nat
    <3> HIDE DEF new, old
    <3>1. new \in Nat
      BY <1>1, <1>3
    <3>2. QED
      BY <3>1
  <2>2. q \in Nat /\ r \in 0 .. DataLength-1 /\ o = q * DataLength + r
    <3>1. DataLength \in Nat \ {0}
      BY Geometry
    <3>2. o \div DataLength \in Nat /\ o % DataLength \in 0 .. DataLength-1
          /\ o = (o \div DataLength) * DataLength + (o % DataLength)
      <4> HIDE DEF o
      <4>1. QED
        BY <2>1, <3>1, DivMod
    <3>3. QED
      BY <3>2
  <2>3. q + 1 \in 1 .. Len(l)
    BY <1>0, <1>2, ByteIn
  <2>4. CASE p = f.offset + 1
    <3>1. o = f.bufindex * DataLength + at
      BY <1>0, <1>1, <2>4 DEF FirstByte
    <3>2. at \in 0 .. DataLength-1
      BY <1>0, Geometry
    <3>3. q = f.bufindex /\ r = at
      <4> DEFINE index == f.bufindex
      <4>1. DataLength \in Nat \ {0} /\ index \in Nat
        BY <1>1, Geometry
      <4>2. o = index * DataLength + at
        BY <3>1
      <4> HIDE DEF o, index
      <4>3. (index * DataLength + at) \div DataLength = index /\ (index * DataLength + at) % DataLength = at
        BY <3>2, <4>1, DivModIs
      <4>4. QED
        BY <4>2, <4>3 DEF index
    <3> HIDE DEF q, r, o
    <3>4. ByteAt(f.buffer, at, b, Shown(d, U, l[q+1])) /\ Shown(d, T, l[q+1]) = f.buffer
      BY <2>3, <3>3, PutShown
    <3>5. f.buffer.data \in [0 .. DataLength-1 -> Bytes \cup {0}]
      BY <1>0, OpenFile DEF FILE, FileSector
    <3>6. Shown(d, U, l[q+1]).data[r] = b
      BY <3>2, <3>3, <3>4, <3>5 DEF ByteAt
    <3>7. QED
      BY <2>4, <3>6 DEF q, r, o
  <2>5. CASE p # f.offset + 1
    <3>1. p \in 1 .. old
      <4> HIDE DEF new, old
      <4>1. QED
        BY <1>1, <1>3, <2>5
    <3>2. t[p] = Shown(d, T, l[q+1]).data[r]
      BY <3>1 DEF Text
    <3>3. CASE q # f.bufindex
      <4>1. q + 1 # f.bufindex + 1
        <5> HIDE DEF q
        <5>1. QED
          BY <1>1, <2>2, <3>3
      <4> HIDE DEF q, r
      <4>2. Shown(d, U, l[q+1]) = Shown(d, T, l[q+1])
        BY <2>3, <4>1, PutShown
      <4>3. QED
        BY <2>5, <3>2, <4>2 DEF q, r
    <3>4. CASE q = f.bufindex
      <4>1. r # at
        <5> HIDE DEF q, r
        <5>1. q * DataLength = FirstByte(f)
          BY <3>4 DEF FirstByte
        <5>2. o # f.offset
          BY <1>1, <2>5
        <5> HIDE DEF o
        <5>3. QED
          BY <1>0, <2>2, <5>1, <5>2
      <4> HIDE DEF q, r
      <4>2. ByteAt(f.buffer, at, b, Shown(d, U, l[q+1])) /\ Shown(d, T, l[q+1]) = f.buffer
        BY <2>3, <3>4, PutShown
      <4>3. f.buffer.data \in [0 .. DataLength-1 -> Bytes \cup {0}]
        BY <1>0, OpenFile DEF FILE, FileSector
      <4>4. Shown(d, U, l[q+1]).data[r] = f.buffer.data[r]
        BY <2>2, <4>1, <4>2, <4>3 DEF ByteAt
      <4>5. QED
        BY <2>5, <3>2, <4>2, <4>4 DEF q, r
    <3>5. QED
      BY <3>3, <3>4
  <2>6. QED
    BY <2>4, <2>5
<1>6. WithByte(t, f.offset, b) = [p \in 1 .. new |-> IF p = f.offset + 1 THEN b ELSE t[p]]
  <2> HIDE DEF t, new, old
  <2>1. QED
    BY <1>3, <1>4 DEF WithByte
<1>7. Text(d, U, l) = [p \in 1 .. new |-> Shown(d, U, l[(p-1) \div DataLength + 1]).data[(p-1) % DataLength]]
  BY DEF Text
<1> HIDE DEF t, new
<1>8. QED
  BY <1>5, <1>6, <1>7 DEF t

\* From disk d, table T and lists L, byte b was written to the FILE h at its offset:
\* the disk is e, the FILE g with its offset at place at of the buffer, the table U and
\* the lists M.
Wrote(d, T, L, h, b, e, g, at, U, M) ==
  /\ U = [T EXCEPT ![h] = g] /\ g \in FILE /\ g.open /\ SlotOf(g) = SlotOf(T[h])
  /\ at \in Nat /\ at <= DataLength /\ g.offset = FirstByte(g) + at
  /\ g.offset = T[h].offset + 1
  /\ Sound(e, U, M) /\ e.name = d.name
  /\ OthersSame(d, T, L, e, U, SlotOf(T[h]))
  /\ \A j \in Slot : j # SlotOf(T[h]) => M[j] = L[j]
  /\ Text(e, U, M[SlotOf(T[h])]) = WithByte(Text(d, T, L[SlotOf(T[h])]), T[h].offset, b)

\* what fwrite keeps from round to round
Writing(d, f, at) == [d |-> d, f |-> f, at |-> at]

\* WriteByte, into the buffer.
LEMMA WriteHere ==
  ASSUME NEW d, NEW f \in FILE, NEW at \in Nat, ~(at >= DataLength), NEW b
  PROVE  WriteByte(Writing(d, f, at), b) = Writing(d, PutByte(f, at, b), at + 1)
BY DEF WriteByte, Writing, PutByte

\* A byte is written into the buffer.
LEMMA WroteHere ==
  ASSUME NEW d, NEW T, NEW L, Sound(d, T, L), NEW h, NEW f, NEW l, NEW at, NEW b, NEW g,
         NEW U, Putting(T, L, h, f, l, at, b, g, U)
  PROVE  Wrote(d, T, L, h, b, d, g, at + 1, U, L)
<1>0. /\ h \in Handle /\ f = T[h] /\ f.open /\ l = L[SlotOf(f)] /\ U = [T EXCEPT ![h] = g]
      /\ at \in Nat /\ at < DataLength /\ f.offset = FirstByte(f) + at
  BY DEF Putting
<1>1. /\ g \in FILE /\ g.open /\ SlotOf(g) = SlotOf(f) /\ g.offset = f.offset + 1
      /\ FirstByte(g) = FirstByte(f)
  BY PutPlace
<1>2. Sound(d, U, L) /\ OthersSame(d, T, L, d, U, SlotOf(f))
  BY PutSound
<1>3. Text(d, U, l) = WithByte(Text(d, T, l), f.offset, b)
  BY PutText
<1>4. g.offset = FirstByte(g) + (at + 1) /\ at + 1 \in Nat /\ at + 1 <= DataLength
  <2> DEFINE base == FirstByte(f)
  <2>1. base \in Nat
    BY <1>0, PlaceIs
  <2>2. g.offset = (base + at) + 1
    BY <1>0, <1>1
  <2> HIDE DEF base
  <2>3. g.offset = base + (at + 1)
    BY <1>0, <2>1, <2>2
  <2>4. at + 1 \in Nat /\ at + 1 <= DataLength
    BY <1>0, Geometry
  <2>5. QED
    BY <1>1, <2>3, <2>4 DEF base
<1> DEFINE to == at + 1
<1> HIDE DEF to
<1>5. Wrote(d, T, L, h, b, d, g, to, U, L)
  BY <1>0, <1>1, <1>2, <1>3, <1>4 DEF Wrote, to
<1>6. QED
  BY <1>5 DEF to

\* Nothing happens to any file on the way to disk c, FILE f and table V.
Prepared(d, T, L, h, c, f, V) ==
  /\ h \in Handle /\ T[h].open /\ f.open /\ f.offset = T[h].offset /\ SlotOf(f) = SlotOf(T[h])
  /\ V = [T EXCEPT ![h] = f]
  /\ Quiet(d, T, c, V, L)

\* Nothing happens to any file, and then a byte is written.
LEMMA WroteQuietly ==
  ASSUME NEW d, NEW T, NEW L, Sound(d, T, L), NEW h, NEW b, NEW c, NEW f, NEW V,
         Prepared(d, T, L, h, c, f, V), NEW e, NEW g, NEW at, NEW U, NEW M, Wrote(c, V, L, h, b, e, g, at, U, M)
  PROVE  Wrote(d, T, L, h, b, e, g, at, U, M)
<1>0. /\ h \in Handle /\ T[h].open /\ f.open /\ f.offset = T[h].offset
      /\ SlotOf(f) = SlotOf(T[h]) /\ V = [T EXCEPT ![h] = f] /\ Quiet(d, T, c, V, L)
  BY DEF Prepared
<1> DEFINE i == SlotOf(T[h])
<1>1. V[h] = f /\ T \in [Handle -> FILE] /\ SlotOf(V[h]) = i /\ V[h].offset = T[h].offset
  BY <1>0, SoundTypes
<1>2. i \in Listing(L)
  BY <1>0, UserIs
<1>3. c.name = d.name /\ Sound(c, V, L)
  BY <1>0 DEF Quiet
<1>4. /\ U = [V EXCEPT ![h] = g] /\ g \in FILE /\ g.open /\ SlotOf(g) = i
      /\ at \in Nat /\ at <= DataLength /\ g.offset = FirstByte(g) + at
      /\ g.offset = T[h].offset + 1
      /\ Sound(e, U, M) /\ e.name = c.name
      /\ OthersSame(c, V, L, e, U, i)
      /\ \A j \in Slot : j # i => M[j] = L[j]
      /\ Text(e, U, M[i]) = WithByte(Text(c, V, L[i]), T[h].offset, b)
  BY <1>1 DEF Wrote
<1>5. \A j \in Listing(L) : Text(c, V, L[j]) = Text(d, T, L[j])
  BY <1>0, QuietText
<1>6. U = [T EXCEPT ![h] = g]
  BY <1>0, <1>1, <1>4
<1>7. OthersSame(d, T, L, e, U, i)
  BY <1>4, <1>5 DEF OthersSame
<1>8. Text(e, U, M[i]) = WithByte(Text(d, T, L[i]), T[h].offset, b)
  BY <1>2, <1>4, <1>5
<1>9. e.name = d.name
  BY <1>3, <1>4
<1> HIDE DEF i
<1>10. QED
  BY <1>4, <1>6, <1>7, <1>8, <1>9 DEF Wrote, i

\* WriteByte, into the sector that follows.
LEMMA WriteOnward ==
  ASSUME NEW d, NEW f \in FILE, NEW at \in Nat, at >= DataLength, NEW b,
         f.buffer.next # EOC,
         NEW e, e = fflush(d, f), NEW g, g = Load(e, f, f.buffer.next, f.bufindex + 1)
  PROVE  WriteByte(Writing(d, f, at), b) = Writing(e, PutByte(g, 0, b), 0 + 1)
<1> DEFINE k == Writing(d, f, at)
<1>1. k.d = d /\ k.f = f /\ k.at = at
  BY DEF Writing
<1>2. [f EXCEPT !.buffer.next = f.buffer.next] = f
  BY DEF FILE, FileSector
<1> HIDE DEF k
<1>3. GoOn(k) = Writing(e, g, 0)
  BY <1>1, <1>2 DEF GoOn, Writing
<1>4. WriteByte(k, b) = LET j == GoOn(k) IN
         [d  |-> j.d,
          f  |-> [j.f EXCEPT !.buffer.data[j.at] = b, !.offset = @ + 1,
                             !.buffer.count = IF j.at >= @ THEN @ + 1 ELSE @],
          at |-> j.at + 1]
  BY <1>1 DEF WriteByte
<1>5. GoOn(k).d = e /\ GoOn(k).f = g /\ GoOn(k).at = 0
  BY <1>3 DEF Writing
<1>6. WriteByte(k, b) = Writing(e, PutByte(g, 0, b), 0 + 1)
  BY <1>4, <1>5 DEF Writing, PutByte
<1>7. QED
  BY <1>6 DEF k

\* FILE f, the open FILE h, is at the end of its buffer, and it goes on in the next
\* sector: as FILE g, with disk e and table V.
Onward(d, T, h, f, e, g, V) ==
  /\ h \in Handle /\ f = T[h] /\ f.open /\ f.offset = FirstByte(f) + DataLength
  /\ f.buffer.next # EOC /\ e = fflush(d, f)
  /\ g = Load(e, f, f.buffer.next, f.bufindex + 1)
  /\ V = [T EXCEPT ![h] = g]

\* A FILE goes on to the next sector of its file.
LEMMA GoneOn ==
  ASSUME NEW d, NEW T, NEW L, Sound(d, T, L), NEW h, NEW f, NEW e, NEW g, NEW V,
         Onward(d, T, h, f, e, g, V)
  PROVE  /\ g \in FILE /\ g.open /\ g.offset = f.offset /\ SlotOf(g) = SlotOf(f)
         /\ FirstByte(g) = f.offset
         /\ Quiet(d, T, e, V, L)
<1>0. h \in Handle /\ f = T[h] /\ f.open /\ f.offset = FirstByte(f) + DataLength
  BY DEF Onward
<1>a. /\ f.buffer.next # EOC /\ e = fflush(d, f)
      /\ g = Load(e, f, f.buffer.next, f.bufindex + 1)
      /\ V = [T EXCEPT ![h] = g]
  BY DEF Onward
<1> DEFINE l == L[SlotOf(f)]
           index == f.bufindex + 1
           p == f.bufindex + 2
           s == f.buffer.next
           pos == f.offset
<1>1. /\ FirstByte(f) \in Nat /\ f.bufindex \in Nat /\ pos \in Nat
      /\ f.bufindex + 1 \in 1 .. Len(l) /\ Len(l) \in Nat /\ s = At(l, p)
  <2> HIDE DEF s, p, pos, index
  <2>1. l = L[SlotOf(f)]
    OBVIOUS
  <2> HIDE DEF l
  <2>2. QED
    BY <1>0, <2>1, PlaceIs DEF s, p, pos
<1>2. f \in FILE /\ SlotOf(f) \in Slot
  BY <1>0, OpenFile
<1>3. p \in 1 .. Len(l) /\ s = l[p] /\ p-1 = index /\ index \in Nat
  BY <1>1, <1>a DEF At
<1>4. s \in Sector /\ s \in Usable
  <2>1. l \in Seq(Usable)
    BY <1>2, SoundTypes
  <2> HIDE DEF l, p, s
  <2>2. s \in Usable
    BY <1>3, <2>1
  <2>3. QED
    BY <2>2, Geometry
<1>5. Quiet(d, T, e, T, L) /\ Clean(e, f) /\ Sound(e, T, L)
  <2>1. Quiet(d, T, e, T, L) /\ Clean(e, f)
    BY <1>0, <1>a, QuietFlush
  <2>2. QED
    BY <2>1 DEF Quiet
<1>6. e.sector \in [Sector -> FileSector]
  BY <1>5, SoundTypes
<1>7. /\ g \in FILE /\ g.open /\ g.offset = pos /\ SlotOf(g) = SlotOf(f)
      /\ g.bufindex = index /\ g.buffer = e.sector[s]
  <2>1. g = Load(e, f, s, index)
    BY <1>a
  <2> HIDE DEF s, index, pos
  <2>2. g \in FILE /\ g.offset = f.offset /\ g.bufindex = index /\ g.buffer = e.sector[s]
    BY <1>2, <1>3, <1>4, <1>6, <2>1, LoadIs
  <2>3. g.open /\ SlotOf(g) = SlotOf(f)
    BY <1>0, <1>2, <2>1, LoadSlot
  <2>4. QED
    BY <2>2, <2>3 DEF pos
<1>8. FirstByte(g) = pos /\ (p-1) * DataLength = pos
  <2>1. index * DataLength = FirstByte(f) + DataLength
    BY <1>1, Geometry DEF FirstByte
  <2> HIDE DEF index, p
  <2>2. QED
    BY <1>0, <1>3, <1>7, <2>1 DEF FirstByte
<1>9. e.sector[l[p]].count \in Nat
  <2>1. e.sector[s] \in FileSector
    BY <1>4, <1>6
  <2>2. e.sector[s].count \in 0 .. Size + DataLength
    BY <2>1 DEF FileSector
  <2> HIDE DEF p, s, l
  <2>3. QED
    BY <1>3, <2>2, Geometry
<1>10. MovedTo(Load(e, f, s, index), pos) = g
  <2>1. g = Load(e, f, s, index) /\ pos = g.offset
    BY <1>7, <1>a
  <2>2. MovedTo(g, g.offset) = g
    BY <1>7 DEF MovedTo, FILE
  <2>3. QED
    BY <2>1, <2>2
<1>11. Quiet(e, T, e, V, L)
  <2>1. p \in 1 .. Len(L[SlotOf(T[h])])
    BY <1>0, <1>3
  <2>2. pos - (p-1) * DataLength \in 0 .. e.sector[L[SlotOf(T[h])][p]].count
    <3> HIDE DEF p
    <3>1. pos - (p-1) * DataLength = 0
      BY <1>1, <1>8
    <3>2. QED
      BY <1>0, <1>9, <3>1
  <2>3. g = MovedTo(Load(e, T[h], L[SlotOf(T[h])][p], p-1), pos)
    BY <1>0, <1>3, <1>10
  <2>4. Clean(e, T[h]) /\ T[h].open /\ pos \in Nat
    BY <1>0, <1>1, <1>5
  <2> HIDE DEF p, pos, s, l, index
  <2>5. Quiet(e, T, e, [T EXCEPT ![h] = g], L)
    BY <1>0, <1>5, <2>1, <2>2, <2>3, <2>4, QuietLoad
  <2>6. QED
    BY <1>a, <2>5
<1>12. Quiet(d, T, e, V, L)
  BY <1>5, <1>11, QuietThen
<1>13. QED
  BY <1>7, <1>8, <1>12

\* A byte is written into the next sector of the file.
OnwardWith(d, T, h, f, e, g, V, b, x, U) ==
  /\ Onward(d, T, h, f, e, g, V)
  /\ b \in Bytes /\ x = PutByte(g, 0, b) /\ U = [T EXCEPT ![h] = x]

\* A byte written into the sector that follows is a byte written into the file.
LEMMA WroteOnward ==
  ASSUME NEW d, NEW T, NEW L, Sound(d, T, L), NEW h, NEW f, NEW e, NEW g, NEW V, NEW b,
         NEW x, NEW U, OnwardWith(d, T, h, f, e, g, V, b, x, U)
  PROVE  Wrote(d, T, L, h, b, e, x, 0 + 1, U, L) /\ x.bufindex = f.bufindex + 1
<1>0. /\ h \in Handle /\ f = T[h] /\ f.open /\ V = [T EXCEPT ![h] = g]
      /\ g = Load(e, f, f.buffer.next, f.bufindex + 1)
  BY DEF Onward, OnwardWith
<1>b. /\ Onward(d, T, h, f, e, g, V) /\ b \in Bytes /\ x = PutByte(g, 0, b)
      /\ U = [T EXCEPT ![h] = x]
  BY DEF OnwardWith
<1>1. /\ g \in FILE /\ g.open /\ g.offset = f.offset /\ SlotOf(g) = SlotOf(f)
      /\ FirstByte(g) = f.offset /\ Quiet(d, T, e, V, L)
  BY <1>b, GoneOn
<1>2. V[h] = g /\ U = [V EXCEPT ![h] = x]
  BY <1>0, <1>b, SoundTypes
<1>3. f.offset \in Nat
  BY <1>0, OffsetUpTo
<1>5. Sound(e, V, L)
  BY <1>1 DEF Quiet
<1> DEFINE l == L[SlotOf(g)]
<1>6. Putting(V, L, h, g, l, 0, b, x, U)
  <2>1. 0 \in Nat /\ 0 < DataLength /\ g.offset = FirstByte(g) + 0
    BY <1>1, <1>3, Geometry
  <2>2. QED
    BY <1>0, <1>b, <1>1, <1>2, <2>1 DEF Putting
<1>7. Wrote(e, V, L, h, b, e, x, 0 + 1, U, L)
  BY <1>5, <1>6, WroteHere
<1> DEFINE at == 0 + 1
<1> HIDE DEF at
<1>8. Wrote(e, V, L, h, b, e, x, at, U, L)
  BY <1>7 DEF at
<1>9. Wrote(d, T, L, h, b, e, x, at, U, L)
  <2>1. Prepared(d, T, L, h, e, g, V)
    BY <1>0, <1>1 DEF Prepared
  <2>2. QED
    BY <1>8, <2>1, WroteQuietly
<1>10. x.bufindex = g.bufindex
  BY <1>5, <1>6, PutPlace
<1>11. g.bufindex = f.bufindex + 1
  <2>1. f \in FILE
    BY <1>0, OpenFile
  <2>2. QED
    BY <1>0, <2>1 DEF Load, FILE
<1>12. QED
  BY <1>9, <1>10, <1>11 DEF at

\* The user of h, with FILE f, writes byte b at the end of a full sector that is the
\* last of the file, and sector s is free.
Extending(d, T, L, h, f, i, l, s, b) ==
  /\ h \in Handle /\ f = T[h] /\ f.open /\ i = SlotOf(f) /\ l = L[i]
  /\ f.offset = FirstByte(f) + DataLength /\ f.buffer.next = EOC
  /\ s \in 1 .. Size-1 /\ s \notin d.used
  /\ d.sector[s].next = EOC /\ d.sector[s].count = 0
  /\ b \in Bytes

LinkTo(x, s) == [x EXCEPT !.next = s]
Linked(d, f, s) == [d EXCEPT !.used = @ \cup {s}, !.sector[f.bufsect] = LinkTo(f.buffer, s)]

\* The buffered sector is the last of the file, and full; the new one is free.
LEMMA ExtendingIs ==
  ASSUME NEW d, NEW T, NEW L, Sound(d, T, L), NEW h, NEW f, NEW i, NEW l, NEW s, NEW b,
         Extending(d, T, L, h, f, i, l, s, b)
  PROVE  /\ f \in FILE /\ i \in Slot /\ i \in Listing(L) /\ l \in Seq(Usable)
         /\ Len(l) \in Nat /\ Len(l) = f.bufindex + 1 /\ f.bufindex \in Nat
         /\ f.bufsect = l[Len(l)] /\ f.bufsect \in Sector
         /\ f.buffer \in FileSector /\ f.buffer.count = DataLength
         /\ s \in Usable /\ s \in Sector /\ s # f.bufsect /\ ~Holds(l, s)
<1>0. /\ h \in Handle /\ f = T[h] /\ f.open /\ i = SlotOf(f) /\ l = L[i]
      /\ f.offset = FirstByte(f) + DataLength /\ f.buffer.next = EOC
      /\ s \in 1 .. Size-1 /\ s \notin d.used
  BY DEF Extending
<1>1. /\ f \in FILE /\ i \in Slot /\ f.bufindex + 1 \in 1 .. Len(l)
      /\ f.bufsect = l[f.bufindex+1] /\ f.bufsect \in Usable /\ Holds(l, f.bufsect)
  BY <1>0, OpenFile
<1>2. /\ FirstByte(f) \in Nat /\ f.bufindex \in Nat /\ f.buffer.count \in 0 .. DataLength
      /\ f.offset - FirstByte(f) \in 0 .. f.buffer.count
      /\ Len(l) \in Nat /\ f.buffer.next = At(l, f.bufindex + 2)
  BY <1>0, PlaceIs, SMTT(90)
<1>3. l \in Seq(Usable) /\ i \in Listing(L)
  BY <1>0, <1>1, SoundTypes, UserIs
<1>4. Len(l) = f.bufindex + 1
  <2>1. ~(f.bufindex + 2 \in 1 .. Len(l))
    BY <1>0, <1>2, <1>3, Geometry, SMTT(90) DEF At
  <2>2. QED
    BY <1>1, <1>2, <2>1
<1>5. f.buffer.count = DataLength
  <2> DEFINE base == FirstByte(f)
             count == f.buffer.count
  <2>1. base \in Nat /\ count \in 0 .. DataLength /\ f.offset = base + DataLength
        /\ f.offset - base \in 0 .. count
    BY <1>0, <1>2
  <2> HIDE DEF base, count
  <2>2. count = DataLength
    BY <2>1, Geometry
  <2>3. QED
    BY <2>2 DEF count
<1>6. \A t \in 1 .. Size-1 : t \in d.used <=> t \in Metadata \/ \E j \in Slot : Holds(L[j], t)
  BY DEF Sound, Listed
<1>7. s \in Usable /\ ~Holds(l, s)
  BY <1>0, <1>1, <1>6 DEF Usable
<1>8. f.bufsect \in Sector /\ s \in Sector /\ f.buffer \in FileSector
  BY <1>1, <1>7, Geometry DEF FILE
<1>9. s # f.bufsect
  BY <1>1, <1>7
<1>10. QED
  BY <1>1, <1>2, <1>3, <1>4, <1>5, <1>7, <1>8, <1>9

\* LinkTo sets a link, and nothing else.
LEMMA LinkToIs ==
  ASSUME NEW x \in FileSector, NEW s \in Sector
  PROVE  /\ LinkTo(x, s) \in FileSector /\ LinkTo(x, s).next = s
         /\ LinkTo(x, s).count = x.count /\ LinkTo(x, s).data = x.data
BY DEF LinkTo, FileSector

\* The disk with another sector linked to the file
LEMMA LinkedIs ==
  ASSUME NEW d, NEW T, NEW L, Sound(d, T, L), NEW h, NEW f, NEW i, NEW l, NEW s, NEW b,
         Extending(d, T, L, h, f, i, l, s, b), NEW e, e = Linked(d, f, s)
  PROVE  /\ e \in Disk /\ e.fp = d.fp /\ e.name = d.name /\ e.used = d.used \cup {s}
         /\ e.sector[f.bufsect] = LinkTo(f.buffer, s)
         /\ \A t \in Sector : t # f.bufsect => e.sector[t] = d.sector[t]
<1> DEFINE y == LinkTo(f.buffer, s)
           sector == [d.sector EXCEPT ![f.bufsect] = y]
           used == d.used \cup {s}
<1>1. d \in Disk /\ d.used \subseteq 1 .. Size-1 /\ d.sector \in [Sector -> FileSector]
  BY SoundTypes
<1>2. f.bufsect \in Sector /\ f.buffer \in FileSector /\ s \in Sector
  BY ExtendingIs
<1>3. s \in 1 .. Size-1
  BY DEF Extending
<1>4. e = [d EXCEPT !.used = used, !.sector = sector]
  BY <1>1 DEF Linked, Disk
<1>5. y \in FileSector
  BY <1>2, LinkToIs
<1> HIDE DEF y
<1>6. sector \in [Sector -> FileSector] /\ sector[f.bufsect] = y
      /\ \A t \in Sector : t # f.bufsect => sector[t] = d.sector[t]
  BY <1>1, <1>2, <1>5
<1>7. used \in SUBSET (1 .. Size-1)
  BY <1>1, <1>3
<1> HIDE DEF sector, used
<1>8. e \in Disk /\ e.fp = d.fp /\ e.name = d.name /\ e.used = used /\ e.sector = sector
  BY <1>1, <1>4, <1>6, <1>7 DEF Disk
<1>9. QED
  BY <1>6, <1>8 DEF y, used

\* the FILE with the byte in the new sector
Extended(d, f, s, b) ==
  PutByte(Load(Linked(d, f, s), [f EXCEPT !.buffer = LinkTo(@, s)], s, f.bufindex + 1), 0, b)

\* The FILE has the new sector in its buffer, with one byte.
LEMMA ExtendedIs ==
  ASSUME NEW d, NEW T, NEW L, Sound(d, T, L), NEW h, NEW f, NEW i, NEW l, NEW s, NEW b,
         Extending(d, T, L, h, f, i, l, s, b), NEW x, x = Extended(d, f, s, b)
  PROVE  /\ x \in FILE /\ x.open /\ SlotOf(x) = i
         /\ x.bufindex = Len(l) /\ x.bufsect = s /\ x.offset = f.offset + 1
         /\ x.buffer.next = EOC /\ x.buffer.count = 1 /\ x.buffer.data[0] = b
<1>0. h \in Handle /\ f = T[h] /\ f.open /\ i = SlotOf(f) /\ b \in Bytes
      /\ d.sector[s].next = EOC /\ d.sector[s].count = 0
  BY DEF Extending
<1>1. /\ f \in FILE /\ Len(l) = f.bufindex + 1 /\ f.bufindex \in Nat
      /\ f.buffer \in FileSector /\ s \in Sector /\ s # f.bufsect
  BY ExtendingIs
<1> DEFINE e == Linked(d, f, s)
           y == LinkTo(f.buffer, s)
           full == [f EXCEPT !.buffer = y]
           index == f.bufindex + 1
           g == Load(e, full, s, index)
<1>2. e \in Disk /\ e.sector[s] = d.sector[s]
  BY <1>1, LinkedIs
<1>3. e.sector \in [Sector -> FileSector]
  BY <1>2 DEF Disk
<1>4. y \in FileSector
  BY <1>1, LinkToIs
<1>5. full \in FILE /\ full.open /\ full.offset = f.offset /\ full.ib = f.ib /\ full.ibindex = f.ibindex
  <2> HIDE DEF y
  <2>1. QED
    BY <1>0, <1>1, <1>4 DEF FILE
<1>6. SlotOf(full) = i /\ full \in FILE /\ full.open /\ full.offset = f.offset
  <2>1. SlotOf(full) = SlotOf(f)
    <3> HIDE DEF full
    <3>1. QED
      BY <1>5 DEF SlotOf
  <2> HIDE DEF full
  <2>2. QED
    BY <1>0, <1>5, <2>1
<1>7. index \in Nat /\ index = Len(l)
  BY <1>1
<1>8. g = Load(e, full, s, index) /\ x = PutByte(g, 0, b)
  BY DEF Extended
<1> HIDE DEF e, y, full, index, g
<1>9. g \in FILE /\ g.offset = f.offset /\ g.bufindex = index /\ g.bufsect = s /\ g.buffer = d.sector[s]
  BY <1>1, <1>2, <1>3, <1>6, <1>7, <1>8, LoadIs
<1>10. g.open /\ SlotOf(g) = i
  BY <1>6, <1>8, LoadSlot
<1>11. 0 \in Nat /\ 0 < DataLength /\ g.buffer.count \in 0 .. DataLength
  BY <1>0, <1>9, Geometry
<1>12. /\ x \in FILE /\ x.open /\ SlotOf(x) = SlotOf(g)
       /\ x.bufindex = g.bufindex /\ x.bufsect = g.bufsect /\ x.offset = g.offset + 1
       /\ x.buffer.next = g.buffer.next
       /\ x.buffer.count = IF 0 >= g.buffer.count THEN g.buffer.count + 1 ELSE g.buffer.count
       /\ x.buffer.data = [g.buffer.data EXCEPT ![0] = b]
  BY <1>0, <1>8, <1>9, <1>10, <1>11, PutIs
<1>13. x.buffer.count = 1
  BY <1>0, <1>9, <1>12
<1>14. x.buffer.data[0] = b
  <2>1. g.buffer.data \in [0 .. DataLength-1 -> Bytes \cup {0}]
    BY <1>9 DEF FILE, FileSector
  <2>2. 0 \in 0 .. DataLength-1
    BY Geometry
  <2>3. QED
    BY <1>12, <2>1, <2>2
<1>15. QED
  BY <1>0, <1>7, <1>9, <1>10, <1>12, <1>13, <1>14

\* A file with one more sector
Longer(l, s) == Append(l, s)

\* m is l and one sector more
OneLonger(l, s, m) ==
  /\ m \in Seq(Usable) /\ Len(m) \in Nat /\ Len(m) = Len(l) + 1
  /\ m[Len(m)] = s /\ \A k \in 1 .. Len(l) : m[k] = l[k]
  /\ \A t : Holds(m, t) <=> Holds(l, t) \/ t = s
  /\ \A k \in 1 .. Len(l) : k < Len(l) => At(m, k+1) = At(l, k+1)
  /\ At(m, Len(l) + 1) = s /\ At(m, Len(m) + 1) = EOC
  /\ Len(l) > 0 => At(m, 1) = At(l, 1)

\* A file with one sector more.
LEMMA AppendedIs ==
  ASSUME NEW l \in Seq(Usable), NEW s \in Usable, NEW m, m = Longer(l, s)
  PROVE  OneLonger(l, s, m)
<1>1. /\ m \in Seq(Usable) /\ Len(m) \in Nat /\ Len(l) \in Nat /\ Len(m) = Len(l) + 1
      /\ m[Len(m)] = s /\ \A k \in 1 .. Len(l) : m[k] = l[k]
  BY DEF Longer
<1>2. ASSUME NEW t PROVE Holds(m, t) <=> Holds(l, t) \/ t = s
  <2>1. ASSUME Holds(m, t) PROVE Holds(l, t) \/ t = s
    <3>1. PICK k \in 1 .. Len(m) : m[k] = t
      BY <2>1 DEF Holds
    <3>2. k \in 1 .. Len(l) \/ k = Len(m)
      BY <1>1
    <3>3. QED
      BY <1>1, <3>1, <3>2 DEF Holds
  <2>2. ASSUME Holds(l, t) PROVE Holds(m, t)
    <3>1. PICK k \in 1 .. Len(l) : l[k] = t
      BY <2>2 DEF Holds
    <3>2. k \in 1 .. Len(m) /\ m[k] = t
      BY <1>1, <3>1
    <3>3. QED
      BY <3>2 DEF Holds
  <2>3. ASSUME t = s PROVE Holds(m, t)
    <3>1. Len(m) \in 1 .. Len(m)
      BY <1>1
    <3>2. QED
      BY <1>1, <2>3, <3>1 DEF Holds
  <2>4. QED
    BY <2>1, <2>2, <2>3
<1>3. ASSUME NEW k \in 1 .. Len(l), k < Len(l) PROVE At(m, k+1) = At(l, k+1)
  <2> DEFINE n == k + 1
  <2>1. n \in 1 .. Len(l) /\ n \in 1 .. Len(m)
    BY <1>1, <1>3
  <2> HIDE DEF n
  <2>2. At(m, n) = At(l, n)
    BY <1>1, <2>1 DEF At
  <2>3. QED
    BY <2>2 DEF n
<1>4. At(m, Len(l) + 1) = s /\ At(m, Len(m) + 1) = EOC
  <2>1. Len(m) \in 1 .. Len(m) /\ ~(Len(m) + 1 \in 1 .. Len(m))
    BY <1>1
  <2>2. QED
    BY <1>1, <2>1 DEF At
<1>5. Len(l) > 0 => At(m, 1) = At(l, 1)
  BY <1>1 DEF At
<1>6. QED
  BY <1>1, <1>2, <1>3, <1>4, <1>5 DEF OneLonger

\* The sectors of the longer file.
LEMMA ExtendedSectors ==
  ASSUME NEW d, NEW T, NEW L, Sound(d, T, L), NEW h, NEW f, NEW i, NEW l, NEW s, NEW b,
         Extending(d, T, L, h, f, i, l, s, b), NEW e, e = Linked(d, f, s),
         NEW x, x = Extended(d, f, s, b), NEW m, m = Longer(l, s), NEW k \in 1 .. Len(m)
  PROVE  /\ k < Len(l) => e.sector[m[k]] = d.sector[l[k]] /\ m[k] = l[k] /\ l[k] # f.bufsect
         /\ Fits(e.sector[m[k]], m, k)
         /\ Begun(e.sector[m[k]], k) \/ Buffers(x, i, k)
<1>0. /\ i \in Slot /\ l = L[i] /\ d.sector[s].next = EOC /\ d.sector[s].count = 0
  BY ExtendingIs DEF Extending
<1> DEFINE n == Len(l)
<1>1. /\ l \in Seq(Usable) /\ n \in Nat /\ n > 0
      /\ f.bufsect = l[n] /\ f.bufsect \in Sector
      /\ f.buffer \in FileSector /\ f.buffer.count = DataLength
      /\ s \in Usable /\ s \in Sector /\ s # f.bufsect
  BY ExtendingIs
<1>a. n \in 1 .. n /\ n = Len(l)
  BY <1>1
<1>2. /\ e.sector[f.bufsect] = LinkTo(f.buffer, s)
      /\ \A t \in Sector : t # f.bufsect => e.sector[t] = d.sector[t]
  BY LinkedIs
<1>3. x.open /\ SlotOf(x) = i /\ x.bufindex = n
  BY ExtendedIs
<1>b. OneLonger(l, s, m)
  BY <1>1, AppendedIs
<1>4. /\ Len(m) \in Nat /\ Len(m) = n + 1
      /\ m[Len(m)] = s /\ \A j \in 1 .. n : m[j] = l[j]
      /\ \A j \in 1 .. n : j < n => At(m, j+1) = At(l, j+1)
      /\ At(m, n + 1) = s /\ At(m, Len(m) + 1) = EOC
  BY <1>b DEF OneLonger
<1>c. \A j \in 1 .. n : l[j] \in Usable /\ l[j] \in Sector
  BY <1>1, Geometry
<1>d. \A p, q \in 1 .. n : l[p] = l[q] => p = q
  BY <1>0 DEF Sound, Listed
<1>e. k < Len(l) <=> k < n
  OBVIOUS
<1>f. \A j \in 1 .. n : Fits(d.sector[l[j]], l, j)
  BY <1>0 DEF Sound
<1>g. \A j \in 1 .. n : Fits(d.sector[l[j]], l, j) /\ (j < n => d.sector[l[j]].count = DataLength)
  BY <1>a, <1>f DEF Fits
<1> HIDE DEF n
<1>5. k < n \/ k = n \/ k = Len(m)
  BY <1>1, <1>4
<1>6. ASSUME k < n
      PROVE  /\ e.sector[m[k]] = d.sector[l[k]] /\ m[k] = l[k] /\ l[k] # f.bufsect
             /\ Fits(e.sector[m[k]], m, k) /\ Begun(e.sector[m[k]], k)
  <2>1. k \in 1 .. n /\ k # n
    BY <1>1, <1>4, <1>6
  <2>2. m[k] = l[k] /\ At(m, k+1) = At(l, k+1) /\ l[k] \in Sector
    BY <1>4, <1>6, <1>c, <2>1
  <2>3. l[k] # f.bufsect
    BY <1>1, <1>a, <1>d, <2>1
  <2>4. e.sector[m[k]] = d.sector[l[k]]
    BY <1>2, <2>2, <2>3
  <2>5. Fits(d.sector[l[k]], l, k) /\ d.sector[l[k]].count = DataLength
    BY <1>6, <1>g, <2>1
  <2>6. Fits(e.sector[m[k]], m, k) /\ e.sector[m[k]].count = DataLength
    BY <2>2, <2>4, <2>5 DEF Fits
  <2>7. QED
    BY <2>2, <2>3, <2>4, <2>6, Geometry DEF Begun
<1>7. ASSUME k = n
      PROVE  Fits(e.sector[m[k]], m, k) /\ Begun(e.sector[m[k]], k)
  <2>1. m[k] = f.bufsect /\ At(m, k+1) = s
    BY <1>1, <1>4, <1>7, <1>a
  <2>2. e.sector[m[k]] = LinkTo(f.buffer, s)
    BY <1>2, <2>1
  <2>3. /\ LinkTo(f.buffer, s) \in FileSector /\ LinkTo(f.buffer, s).next = s
        /\ LinkTo(f.buffer, s).count = DataLength
    BY <1>1, LinkToIs
  <2>4. QED
    BY <2>1, <2>2, <2>3, Geometry DEF Fits, Begun
<1>8. ASSUME k = Len(m)
      PROVE  Fits(e.sector[m[k]], m, k) /\ Buffers(x, i, k)
  <2>1. m[k] = s /\ At(m, k+1) = EOC
    BY <1>4, <1>8
  <2>2. e.sector[m[k]] = d.sector[s] /\ d.sector[s] \in FileSector
    BY <1>1, <1>2, <2>1, SoundTypes
  <2>3. Fits(e.sector[m[k]], m, k)
    BY <1>0, <1>8, <2>1, <2>2, Geometry DEF Fits
  <2>4. Buffers(x, i, k)
    BY <1>3, <1>4, <1>8 DEF Buffers
  <2>5. QED
    BY <2>3, <2>4
<1>9. QED
  <2>1. k < n => ~(k = n) /\ ~(k = Len(m))
    BY <1>1, <1>4
  <2>2. QED
    BY <1>5, <1>6, <1>7, <1>8, <1>e, <2>1

\* The FILE is in place, in the new sector.
LEMMA ExtendedPlace ==
  ASSUME NEW d, NEW T, NEW L, Sound(d, T, L), NEW h, NEW f, NEW i, NEW l, NEW s, NEW b,
         Extending(d, T, L, h, f, i, l, s, b), NEW x, x = Extended(d, f, s, b),
         NEW m, m = Longer(l, s)
  PROVE  InPlace(x, m) /\ x.offset = FirstByte(x) + 1
<1>1. /\ l \in Seq(Usable) /\ Len(l) \in Nat /\ Len(l) = f.bufindex + 1 /\ f.bufindex \in Nat
      /\ s \in Usable
  BY ExtendingIs
<1>2. /\ x \in FILE /\ x.bufindex = Len(l) /\ x.bufsect = s /\ x.offset = f.offset + 1
      /\ x.buffer.next = EOC /\ x.buffer.count = 1
  BY ExtendedIs
<1>3. /\ Len(m) \in Nat /\ Len(m) = Len(l) + 1 /\ m[Len(m)] = s /\ At(m, Len(m) + 1) = EOC
  <2>1. OneLonger(l, s, m)
    BY <1>1, AppendedIs
  <2>2. QED
    BY <2>1 DEF OneLonger
<1>4. FirstByte(x) = f.offset /\ f.offset \in Nat
  <2>1. FirstByte(x) = FirstByte(f) + DataLength
    BY <1>1, <1>2, Geometry DEF FirstByte
  <2>2. f.offset = FirstByte(f) + DataLength
    BY DEF Extending
  <2>3. FirstByte(f) \in Nat
    BY <1>1, Geometry DEF FirstByte
  <2>4. QED
    BY <2>1, <2>2, <2>3, Geometry
<1>5. x.offset - FirstByte(x) = 1 /\ x.offset = FirstByte(x) + 1
  BY <1>2, <1>4
<1>6. x.buffer \in FileSector
  BY <1>2 DEF FILE
<1>7. Fits(x.buffer, m, Len(m)) /\ Begun(x.buffer, Len(m))
  BY <1>2, <1>3, <1>6, Geometry DEF Fits, Begun
<1>8. x.bufindex + 1 = Len(m) /\ Len(m) \in 1 .. Len(m)
  BY <1>1, <1>2, <1>3
<1>9. x.offset - x.bufindex * DataLength \in 0 .. x.buffer.count
  BY <1>2, <1>5 DEF FirstByte
<1>10. QED
  BY <1>2, <1>3, <1>5, <1>7, <1>8, <1>9 DEF InPlace

\* A file that gets a sector is the only one that changes.
LEMMA ExtendedChanged ==
  ASSUME NEW d, NEW T, NEW L, Sound(d, T, L), NEW h, NEW f, NEW i, NEW l, NEW s, NEW b,
         Extending(d, T, L, h, f, i, l, s, b), NEW e, e = Linked(d, f, s),
         NEW x, x = Extended(d, f, s, b), NEW m, m = Longer(l, s)
  PROVE  Changed(d, T, L, i, h, e, x, m)
<1>0. h \in Handle /\ f = T[h] /\ f.open /\ i = SlotOf(f) /\ l = L[i] /\ s \notin d.used
  BY DEF Extending
<1>1. /\ i \in Slot /\ i \in Listing(L) /\ l \in Seq(Usable) /\ Len(l) \in Nat
      /\ f.bufsect \in Sector /\ s \in Usable /\ f.bufsect = l[Len(l)] /\ Len(l) = f.bufindex + 1
      /\ f.bufindex \in Nat /\ ~Holds(l, s)
  BY ExtendingIs
<1>2. OneLonger(l, s, m)
  BY <1>1, AppendedIs
<1>3. /\ e \in Disk /\ e.fp = d.fp /\ e.name = d.name /\ e.used = d.used \cup {s}
      /\ \A t \in Sector : t # f.bufsect => e.sector[t] = d.sector[t]
  BY LinkedIs
<1>4. x \in FILE /\ x.open /\ SlotOf(x) = i
  BY ExtendedIs
<1>5. \A g \in Handle : g # h /\ T[g].open => SlotOf(T[g]) # i
  BY <1>0, OpenFile
<1>6. /\ \A j \in Slot : d.fp[j] = At(L[j], 1)
      /\ \A j \in Slot : d.name[j] # BLANK <=> Len(L[j]) > 0
      /\ \A j, k \in Slot : d.name[j] = d.name[k] /\ d.name[j] # BLANK => j = k
      /\ \A j, k \in 1 .. Len(l) : l[j] = l[k] => j = k
      /\ \A t \in 1 .. Size-1 : t \in d.used <=> t \in Metadata \/ \E j \in Slot : Holds(L[j], t)
  <2>1. Listed(d, L)
    BY DEF Sound
  <2>2. /\ \A j \in Slot : d.fp[j] = At(L[j], 1)
        /\ \A j \in Slot : d.name[j] # BLANK <=> Len(L[j]) > 0
        /\ \A j, k \in Slot : d.name[j] = d.name[k] /\ d.name[j] # BLANK => j = k
        /\ \A t \in 1 .. Size-1 : t \in d.used <=> t \in Metadata \/ \E j \in Slot : Holds(L[j], t)
    BY <2>1 DEF Listed
  <2>3. \A j, k \in 1 .. Len(L[i]) : L[i][j] = L[i][k] => j = k
    BY <1>1, <2>1 DEF Listed
  <2>4. QED
    BY <1>0, <2>2, <2>3
<1>7. d.fp \in [Slot -> Sector]
  BY SoundTypes
<1>8. /\ m \in Seq(Usable) /\ Len(m) \in Nat /\ Len(m) = Len(l) + 1
      /\ m[Len(m)] = s /\ \A k \in 1 .. Len(l) : m[k] = l[k]
      /\ \A t : Holds(m, t) <=> Holds(l, t) \/ t = s
      /\ At(m, 1) = At(l, 1)
  BY <1>1, <1>2 DEF OneLonger
<1>9. \A j, k \in 1 .. Len(m) : m[j] = m[k] => j = k
  <2> SUFFICES ASSUME NEW j \in 1 .. Len(m), NEW k \in 1 .. Len(m), m[j] = m[k] PROVE j = k
    OBVIOUS
  <2>1. \A n \in 1 .. Len(m) : n \in 1 .. Len(l) \/ n = Len(m)
    BY <1>1, <1>8
  <2>2. \A n \in 1 .. Len(l) : m[n] = l[n] /\ l[n] # s
    BY <1>1, <1>8 DEF Holds
  <2>3. CASE j \in 1 .. Len(l) /\ k \in 1 .. Len(l)
    BY <1>6, <2>2, <2>3
  <2>4. QED
    BY <1>8, <2>1, <2>2, <2>3
<1>10. ASSUME NEW k \in 1 .. Len(m), m[k] \in d.used PROVE Holds(L[i], m[k])
  <2>1. Holds(m, m[k])
    BY DEF Holds
  <2>2. QED
    BY <1>0, <1>8, <1>10, <2>1
<1>11. e.fp = [d.fp EXCEPT ![i] = At(m, 1)]
  BY <1>0, <1>1, <1>3, <1>6, <1>7, <1>8
<1>12. e.name[i] # BLANK /\ Len(m) > 0
  <2>1. Len(L[i]) > 0
    BY <1>1 DEF Listing
  <2>2. QED
    BY <1>1, <1>3, <1>6, <1>8, <2>1
<1>13. /\ \A j \in Slot : j # i => e.name[j] = d.name[j]
       /\ \A j \in Slot : j # i /\ e.name[i] # BLANK => e.name[i] # d.name[j]
  BY <1>1, <1>3, <1>6
<1>14. ASSUME NEW t \in 1 .. Size-1
       PROVE  t \in e.used <=> Holds(m, t) \/ (t \in d.used /\ ~Holds(L[i], t))
  <2>1. Holds(l, t) => t \in d.used
    BY <1>0, <1>1, <1>6
  <2>2. QED
    BY <1>0, <1>3, <1>8, <2>1
<1>15. ASSUME NEW t \in Sector, ~Holds(m, t) PROVE e.sector[t] = d.sector[t]
  <2>1. Holds(l, f.bufsect)
    <3>1. Len(l) \in 1 .. Len(l)
      BY <1>1
    <3>2. QED
      BY <1>1, <3>1 DEF Holds
  <2>2. QED
    BY <1>3, <1>8, <1>15, <2>1
<1>16. \A k \in 1 .. Len(m) : /\ Fits(e.sector[m[k]], m, k)
                              /\ Begun(e.sector[m[k]], k) \/ Buffers(x, i, k)
  BY ExtendedSectors
<1>17. InPlace(x, m)
  BY ExtendedPlace
<1>18. QED
  BY <1>0, <1>1, <1>3, <1>4, <1>5, <1>8, <1>9, <1>10, <1>11, <1>12, <1>13, <1>14, <1>15,
     <1>16, <1>17 DEF Changed

\* Table U has FILE x for h, and lists M the sectors m for slot i.
HasNow(U, M, h, i, x, m) == U[h] = x /\ M[i] = m

\* The byte in the new sector is the last of the file.
LEMMA ExtendedText ==
  ASSUME NEW d, NEW T, NEW L, Sound(d, T, L), NEW h, NEW f, NEW i, NEW l, NEW s, NEW b,
         Extending(d, T, L, h, f, i, l, s, b), NEW e, e = Linked(d, f, s),
         NEW x, x = Extended(d, f, s, b), NEW m, m = Longer(l, s),
         NEW U, NEW M, Sound(e, U, M), HasNow(U, M, h, i, x, m)
  PROVE  Text(e, U, m) = WithByte(Text(d, T, l), f.offset, b)
<1>0. /\ h \in Handle /\ f = T[h] /\ f.open /\ i = SlotOf(f) /\ l = L[i]
      /\ f.offset = FirstByte(f) + DataLength /\ f.buffer.next = EOC
  BY DEF Extending
<1>a. U[h] = x /\ M[i] = m
  BY DEF HasNow
<1> DEFINE n == Len(l)
<1>1. /\ l \in Seq(Usable) /\ n \in Nat /\ n = f.bufindex + 1 /\ f.bufindex \in Nat
      /\ n > 0 /\ n \in 1 .. n /\ f.bufsect = l[n] /\ f.bufsect \in Sector
      /\ f.buffer \in FileSector /\ f.buffer.count = DataLength
      /\ s \in Usable /\ i \in Slot /\ i \in Listing(L)
  BY ExtendingIs
<1>2. /\ x.open /\ SlotOf(x) = i /\ x.bufindex = n /\ x.buffer.count = 1 /\ x.buffer.data[0] = b
  BY ExtendedIs
<1>3. OneLonger(l, s, m)
  BY <1>1, AppendedIs
<1>4. Len(m) \in Nat /\ Len(m) = n + 1 /\ m[Len(m)] = s /\ \A k \in 1 .. n : m[k] = l[k]
  BY <1>3 DEF OneLonger
<1>5. /\ e.sector[f.bufsect] = LinkTo(f.buffer, s)
      /\ \A t \in Sector : t # f.bufsect => e.sector[t] = d.sector[t]
  BY LinkedIs
<1>6. LinkTo(f.buffer, s).data = f.buffer.data
  <2>1. s \in Sector
    BY <1>1, Geometry
  <2>2. QED
    BY <1>1, <2>1, LinkToIs
<1>7. f.offset \in Nat /\ f.offset = n * DataLength
  <2> DEFINE q == f.bufindex
  <2>1. q \in Nat /\ n = q + 1 /\ f.offset = q * DataLength + DataLength /\ DataLength \in Nat
    BY <1>0, <1>1, Geometry DEF FirstByte
  <2> HIDE DEF q, n
  <2>2. (q + 1) * DataLength = q * DataLength + DataLength /\ q * DataLength \in Nat
    BY <2>1
  <2>3. QED
    BY <2>1, <2>2
<1>8. Length(d, T, l) = f.offset
  <2>1. f.offset - f.bufindex * DataLength = f.buffer.count
    <3>1. FirstByte(f) \in Nat
      BY <1>1, Geometry DEF FirstByte
    <3>2. f.offset - FirstByte(f) = DataLength
      BY <1>0, <3>1, Geometry
    <3>3. QED
      BY <1>1, <3>2 DEF FirstByte
  <2> HIDE DEF n
  <2>2. QED
    BY <1>0, <2>1, AtEnd
<1>9. ASSUME NEW k \in 1 .. n
      PROVE  Shown(e, U, m[k]).data = Shown(d, T, l[k]).data
  <2>1. k \in 1 .. Len(m) /\ k # n + 1 /\ k \in 1 .. Len(l)
    BY <1>1, <1>4
  <2>2. Shown(d, T, L[i][k]) = IF T[h].bufindex + 1 = k THEN T[h].buffer ELSE d.sector[L[i][k]]
    BY <1>0, <1>1, <2>1, ShownIs
  <2>3. Shown(e, U, M[i][k]) = IF U[h].bufindex + 1 = k THEN U[h].buffer ELSE e.sector[M[i][k]]
    <3>1. k \in 1 .. Len(M[i]) /\ U[h].open /\ SlotOf(U[h]) = i
      BY <1>a, <1>2, <2>1
    <3> HIDE DEF n
    <3>2. QED
      BY <1>0, <1>1, <3>1, ShownIs
  <2>4. Shown(e, U, m[k]) = e.sector[l[k]]
    <3> HIDE DEF n
    <3>1. QED
      BY <1>a, <1>2, <1>4, <2>1, <2>3
  <2>5. CASE k = n
    <3>1. Shown(d, T, l[k]) = f.buffer
      BY <1>0, <1>1, <2>2, <2>5
    <3>2. Shown(e, U, m[k]) = LinkTo(f.buffer, s)
      BY <1>1, <1>5, <2>4, <2>5
    <3>3. QED
      BY <1>6, <3>1, <3>2
  <2>6. CASE k # n
    <3>1. e.sector[m[k]] = d.sector[l[k]]
      <4>1. k < Len(l)
        BY <1>1, <2>6
      <4>2. QED
        BY <2>1, <4>1, ExtendedSectors
    <3>2. Shown(d, T, l[k]) = d.sector[l[k]]
      BY <1>0, <1>1, <2>2, <2>6
    <3>3. QED
      BY <1>4, <2>4, <3>1, <3>2
  <2>7. QED
    BY <2>5, <2>6
<1>10. Shown(e, U, m[n+1]) = x.buffer
  <2> DEFINE k == n + 1
  <2>1. k \in 1 .. Len(m) /\ k = n + 1
    BY <1>1, <1>4
  <2> HIDE DEF k
  <2>2. Shown(e, U, M[i][k]) = IF U[h].bufindex + 1 = k THEN U[h].buffer ELSE e.sector[M[i][k]]
    <3>1. k \in 1 .. Len(M[i]) /\ U[h].open /\ SlotOf(U[h]) = i
      BY <1>a, <1>2, <2>1
    <3> HIDE DEF n
    <3>2. QED
      BY <1>0, <1>1, <3>1, ShownIs
  <2>3. QED
    BY <1>a, <1>2, <2>1, <2>2
<1>11. Length(e, U, m) = f.offset + 1
  <2>1. Len(m) - 1 = n /\ Len(m) = n + 1
    BY <1>1, <1>4
  <2> HIDE DEF n
  <2>2. QED
    BY <1>2, <1>7, <1>10, <2>1 DEF Length
<1> DEFINE old == f.offset
           t == Text(d, T, l)
<1>12. t = [p \in 1 .. old |-> t[p]] /\ Len(t) = old
  <2>1. t = [p \in 1 .. old |-> t[p]]
    BY <1>8 DEF Text
  <2> HIDE DEF t, old
  <2>2. Len(t) = old
    BY <1>7, <2>1 DEF old
  <2>3. QED
    BY <2>1, <2>2
<1>13. ASSUME NEW p \in 1 .. old+1
       PROVE  Shown(e, U, m[(p-1) \div DataLength + 1]).data[(p-1) % DataLength]
                = IF p = old + 1 THEN b ELSE t[p]
  <2> DEFINE o == p - 1
             q == o \div DataLength
             r == o % DataLength
  <2>1. CASE p = old + 1
    <3>1. o = n * DataLength + 0
      BY <1>1, <1>7, <2>1, Geometry, SMTT(90)
    <3>2. 0 \in 0 .. DataLength-1 /\ n \in Nat /\ DataLength \in Nat \ {0}
      BY <1>1, Geometry
    <3>3. q = n /\ r = 0
      <4> HIDE DEF o, n
      <4>1. (n * DataLength + 0) \div DataLength = n /\ (n * DataLength + 0) % DataLength = 0
        BY <3>2, DivModIs
      <4>2. QED
        BY <3>1, <4>1
    <3>4. QED
      BY <1>2, <1>10, <2>1, <3>3
  <2>2. CASE p # old + 1
    <3>1. p \in 1 .. old
      BY <1>7, <2>2
    <3>2. q + 1 \in 1 .. n
      BY <1>0, <1>1, <1>8, <3>1, ByteIn
    <3>3. t[p] = Shown(d, T, l[q+1]).data[r]
      BY <1>8, <3>1 DEF Text
    <3> DEFINE k == q + 1
    <3> HIDE DEF r, n, t, old
    <3>4. Shown(e, U, m[k]).data = Shown(d, T, l[k]).data
      <4> HIDE DEF k
      <4>1. k \in 1 .. n
        BY <3>2 DEF k
      <4>2. QED
        BY <1>9, <4>1
    <3>5. QED
      BY <2>2, <3>3, <3>4 DEF r
  <2>3. QED
    BY <2>1, <2>2
<1>14. WithByte(t, old, b) = [p \in 1 .. old+1 |-> IF p = old + 1 THEN b ELSE t[p]]
  <2> HIDE DEF t, old
  <2>1. old \in Nat
    BY <1>7 DEF old
  <2>2. QED
    BY <1>12, <2>1 DEF WithByte
<1>15. Text(e, U, m) = [p \in 1 .. old+1 |-> Shown(e, U, m[(p-1) \div DataLength + 1]).data[(p-1) % DataLength]]
  BY <1>11 DEF Text
<1> HIDE DEF t, old, n
<1>16. QED
  BY <1>13, <1>14, <1>15 DEF t, old

\* A byte is written into a new sector.
ExtendingWith(d, T, L, h, f, i, l, s, b, e, x, U, M) ==
  /\ Extending(d, T, L, h, f, i, l, s, b)
  /\ e = Linked(d, f, s) /\ x = Extended(d, f, s, b)
  /\ U = [T EXCEPT ![h] = x] /\ M = [L EXCEPT ![i] = Longer(l, s)]

\* A byte written into a new sector is a byte written into the file.
LEMMA WroteNew ==
  ASSUME NEW d, NEW T, NEW L, Sound(d, T, L), NEW h, NEW f, NEW i, NEW l, NEW s, NEW b,
         NEW e, NEW x, NEW U, NEW M, ExtendingWith(d, T, L, h, f, i, l, s, b, e, x, U, M)
  PROVE  Wrote(d, T, L, h, b, e, x, 1, U, M) /\ x.bufindex = f.bufindex + 1
         /\ Len(M[i]) > 0
<1>0. h \in Handle /\ f = T[h] /\ f.open /\ i = SlotOf(f) /\ l = L[i]
  BY DEF Extending, ExtendingWith
<1>a. /\ Extending(d, T, L, h, f, i, l, s, b)
      /\ e = Linked(d, f, s) /\ x = Extended(d, f, s, b)
      /\ U = [T EXCEPT ![h] = x] /\ M = [L EXCEPT ![i] = Longer(l, s)]
  BY DEF ExtendingWith
<1>b. e = Linked(d, f, s) /\ x = Extended(d, f, s, b)
  BY <1>a
<1>c. Extending(d, T, L, h, f, i, l, s, b)
  BY <1>a
<1>d. U = [T EXCEPT ![h] = x]
  BY <1>a
<1> DEFINE m == Longer(l, s)
<1>1. m = Longer(l, s)
  OBVIOUS
<1> HIDE DEF m
<1>2. Changed(d, T, L, i, h, e, x, m)
  BY <1>1, <1>b, <1>c, ExtendedChanged
<1>3. Sound(e, U, [L EXCEPT ![i] = m]) /\ OthersSame(d, T, L, e, U, i)
  BY <1>2, <1>d, OthersKept
<1>4. i \in Slot /\ L \in [Slot -> Seq(Usable)] /\ T \in [Handle -> FILE]
      /\ Len(l) = f.bufindex + 1 /\ l \in Seq(Usable) /\ s \in Usable
  BY <1>c, ExtendingIs, SoundTypes
<1>5. M = [L EXCEPT ![i] = m] /\ M[i] = m /\ (\A j \in Slot : j # i => M[j] = L[j]) /\ U[h] = x
  BY <1>0, <1>1, <1>4, <1>a
<1>6. Sound(e, U, M)
  BY <1>3, <1>5
<1>7. Text(e, U, m) = WithByte(Text(d, T, l), f.offset, b)
  <2>1. HasNow(U, M, h, i, x, m)
    BY <1>5 DEF HasNow
  <2>2. QED
    BY <1>1, <1>6, <1>b, <1>c, <2>1, ExtendedText
<1>8. x \in FILE /\ x.open /\ SlotOf(x) = i /\ x.offset = f.offset + 1 /\ x.bufindex = Len(l)
  BY <1>b, <1>c, ExtendedIs
<1>9. x.offset = FirstByte(x) + 1
  BY <1>1, <1>b, <1>c, ExtendedPlace
<1>10. e.name = d.name
  BY <1>b, <1>c, LinkedIs
<1>11. 1 \in Nat /\ 1 <= DataLength
  BY Geometry
<1>12. Wrote(d, T, L, h, b, e, x, 1, U, M)
  BY <1>0, <1>d, <1>3, <1>5, <1>6, <1>7, <1>8, <1>9, <1>10, <1>11 DEF Wrote
<1>13. Len(m) > 0
  <2>1. OneLonger(l, s, m)
    BY <1>1, <1>4, AppendedIs
  <2>2. QED
    BY <1>4, <2>1 DEF OneLonger
<1>14. QED
  BY <1>4, <1>5, <1>8, <1>12, <1>13

\* WriteByte, into a new sector.
LEMMA WriteNew ==
  ASSUME NEW d \in Disk, NEW f \in FILE, NEW at \in Nat, at >= DataLength, NEW b,
         f.buffer.next = EOC, NEW s, s = find_empty_sector(d), s \in 1 .. Size-1, s \notin d.used
  PROVE  WriteByte(Writing(d, f, at), b) = Writing(Linked(d, f, s), Extended(d, f, s, b), 0 + 1)
<1> DEFINE k == Writing(d, f, at)
           full == [f EXCEPT !.buffer = LinkTo(@, s)]
           e == Linked(d, f, s)
           g == Load(e, full, s, f.bufindex + 1)
<1>1. k.d = d /\ k.f = f /\ k.at = at
  BY DEF Writing
<1>2. full = [f EXCEPT !.buffer.next = s] /\ full.bufindex = f.bufindex
      /\ full.bufsect = f.bufsect /\ full.buffer = LinkTo(f.buffer, s)
  BY DEF FILE, FileSector, LinkTo
<1>3. toggle(d, s) = [d EXCEPT !.used = @ \cup {s}]
  BY Geometry DEF toggle
<1>4. fflush(toggle(d, s), full) = e
  <2> HIDE DEF full
  <2>1. QED
    BY <1>2, <1>3 DEF fflush, Linked, Disk
<1> HIDE DEF k, e
<1>5. GoOn(k) = Writing(e, g, 0)
  BY <1>1, <1>2, <1>4 DEF GoOn, Writing
<1>6. WriteByte(k, b) = LET j == GoOn(k) IN
         [d  |-> j.d,
          f  |-> [j.f EXCEPT !.buffer.data[j.at] = b, !.offset = @ + 1,
                             !.buffer.count = IF j.at >= @ THEN @ + 1 ELSE @],
          at |-> j.at + 1]
  BY <1>1 DEF WriteByte
<1>7. GoOn(k).d = e /\ GoOn(k).f = g /\ GoOn(k).at = 0
  BY <1>5 DEF Writing
<1>8. WriteByte(k, b) = Writing(e, PutByte(g, 0, b), 0 + 1)
  BY <1>6, <1>7 DEF Writing, PutByte
<1>9. QED
  BY <1>8 DEF k, e, Extended

\* In the course of a call the FILE goes on once, or it has not gone on yet and all but
\* the buffer and the offset is as it was.
Phase(d, T, L, h, e, f, M) ==
  \/ f.bufindex = T[h].bufindex + 1
  \/ /\ f.bufindex = T[h].bufindex /\ f.buffer.next = T[h].buffer.next
     /\ e = d /\ M = L

\* fwrite by the user of h, from disk d and table T, after n of the bytes
WriteState(d, T, L, h, bytes, e, f, at, U, M, n) ==
  /\ U = [T EXCEPT ![h] = f] /\ f \in FILE /\ f.open /\ SlotOf(f) = SlotOf(T[h])
  /\ at \in Nat /\ at <= DataLength /\ f.offset = FirstByte(f) + at
  /\ f.offset = T[h].offset + n
  /\ Sound(e, U, M) /\ e.name = d.name
  /\ OthersSame(d, T, L, e, U, SlotOf(T[h]))
  /\ \A j \in Slot : j # SlotOf(T[h]) => M[j] = L[j]
  /\ Text(e, U, M[SlotOf(T[h])])
       = WithBytes(Text(d, T, L[SlotOf(T[h])]), T[h].offset, bytes, n)
  /\ Phase(d, T, L, h, e, f, M)

\* One byte more is written.
LEMMA WroteMore ==
  ASSUME NEW d, NEW T, NEW L, Sound(d, T, L), NEW h \in Handle, T[h].open, NEW bytes, NEW n \in Nat,
         NEW e, NEW f, NEW at, NEW U, NEW M, WriteState(d, T, L, h, bytes, e, f, at, U, M, n),
         NEW b, b = bytes[n+1], NEW e1, NEW f1, NEW at1, NEW U1, NEW M1,
         Wrote(e, U, M, h, b, e1, f1, at1, U1, M1), Phase(d, T, L, h, e1, f1, M1)
  PROVE  WriteState(d, T, L, h, bytes, e1, f1, at1, U1, M1, n + 1)
<1> DEFINE i == SlotOf(T[h])
           o == T[h].offset
           t == Text(d, T, L[i])
<1>1. /\ U = [T EXCEPT ![h] = f] /\ f \in FILE /\ f.open /\ SlotOf(f) = i
      /\ f.offset = o + n /\ e.name = d.name /\ OthersSame(d, T, L, e, U, i)
      /\ \A j \in Slot : j # i => M[j] = L[j]
      /\ Text(e, U, M[i]) = WithBytes(t, o, bytes, n)
  BY DEF WriteState
<1>2. T \in [Handle -> FILE] /\ U[h] = f
  BY <1>1, SoundTypes
<1>3. /\ U1 = [U EXCEPT ![h] = f1] /\ f1 \in FILE /\ f1.open /\ SlotOf(f1) = i
      /\ at1 \in Nat /\ at1 <= DataLength /\ f1.offset = FirstByte(f1) + at1
      /\ f1.offset = (o + n) + 1
      /\ Sound(e1, U1, M1) /\ e1.name = e.name
      /\ OthersSame(e, U, M, e1, U1, i)
      /\ \A j \in Slot : j # i => M1[j] = M[j]
      /\ Text(e1, U1, M1[i]) = WithByte(Text(e, U, M[i]), o + n, b)
  BY <1>1, <1>2 DEF Wrote
<1>4. o \in Nat /\ Len(t) \in Nat /\ o <= Len(t)
  <2>1. Len(t) = Length(d, T, L[i])
    BY UserIs
  <2> HIDE DEF t, i, o
  <2>2. T[h].offset \in Nat /\ Length(d, T, L[SlotOf(T[h])]) \in Nat
        /\ T[h].offset <= Length(d, T, L[SlotOf(T[h])])
    BY OffsetUpTo
  <2>3. QED
    BY <2>1, <2>2 DEF i, o
<1> HIDE DEF t, o
<1>5. WithByte(WithBytes(t, o, bytes, n), o + n, bytes[n+1]) = WithBytes(t, o, bytes, n + 1)
  BY <1>4, OneByteMore
<1>6. Text(e1, U1, M1[i]) = WithBytes(t, o, bytes, n + 1)
  BY <1>1, <1>3, <1>5
<1>7. U1 = [T EXCEPT ![h] = f1]
  BY <1>1, <1>2, <1>3
<1>8. OthersSame(d, T, L, e1, U1, i)
  <2>1. ASSUME NEW j \in Listing(L), j # i PROVE Text(e1, U1, L[j]) = Text(d, T, L[j])
    <3>1. M[j] = L[j] /\ j \in Listing(M)
      BY <1>1, <2>1 DEF Listing
    <3>2. Text(e1, U1, M[j]) = Text(e, U, M[j])
      BY <1>3, <2>1, <3>1 DEF OthersSame
    <3>3. Text(e, U, L[j]) = Text(d, T, L[j])
      BY <1>1, <2>1 DEF OthersSame
    <3>4. QED
      BY <3>1, <3>2, <3>3
  <2>2. QED
    BY <2>1 DEF OthersSame
<1>9. f1.offset = o + (n + 1)
  BY <1>3, <1>4
<1>10. e1.name = d.name /\ \A j \in Slot : j # i => M1[j] = L[j]
  BY <1>1, <1>3
<1> DEFINE k == n + 1
<1> HIDE DEF i, k
<1>11. WriteState(d, T, L, h, bytes, e1, f1, at1, U1, M1, k)
  BY <1>3, <1>6, <1>7, <1>8, <1>9, <1>10 DEF WriteState, i, o, t, k
<1>12. QED
  BY <1>11 DEF k

\* The call is none of the faults.
Permitted(d, f, bytes) ==
  /\ bytes \in Seq(Bytes) /\ Len(bytes) <= DataLength + 1
  /\ f.offset \div DataLength = f.bufindex
  /\ (f.offset % DataLength) + Len(bytes) > DataLength /\ f.buffer.next = EOC =>
       /\ find_empty_sector(d) # 0
       /\ d.sector[find_empty_sector(d)].next = EOC
       /\ d.sector[find_empty_sector(d)].count = 0

\* A sector that is found to be empty is marked in no bitmap.
LEMMA FreeSector ==
  ASSUME NEW d \in Disk, NEW s, s = find_empty_sector(d), s # 0
  PROVE  s \in 1 .. Size-1 /\ s \notin d.used
<1> DEFINE free == 1 .. Size-1 \ d.used
<1>1. s = IF free = {} THEN 0 ELSE Min(free)
  BY DEF find_empty_sector
<1>2. free \subseteq Nat
  BY Geometry
<1>3. free # {} /\ s = Min(free)
  BY <1>1
<1> HIDE DEF free
<1>4. s \in free
  BY <1>2, <1>3, MinLeast
<1>5. QED
  BY <1>4 DEF free

\* Where the bytes end that fit into the buffer.
LEMMA Room ==
  ASSUME NEW d, NEW T, NEW L, Sound(d, T, L), NEW h \in Handle, T[h].open, NEW bytes, NEW n \in Nat,
         Permitted(d, T[h], bytes), n + 1 <= Len(bytes),
         NEW f, f.bufindex \in {T[h].bufindex, T[h].bufindex + 1}, f.offset = T[h].offset + n,
         f.offset = FirstByte(f) + DataLength
  PROVE  f.bufindex = T[h].bufindex /\ (T[h].offset % DataLength) + Len(bytes) > DataLength
<1> DEFINE o == T[h].offset
           q == T[h].bufindex
           r == o % DataLength
           len == Len(bytes)
           base == q * DataLength
<1>1. len \in Nat /\ len <= DataLength + 1 /\ o \div DataLength = q /\ n + 1 <= len
  BY DEF Permitted
<1>2. q \in Nat /\ o \in Nat
  <2>1. T[h] \in FILE
    BY OpenFile
  <2>2. QED
    BY <2>1 DEF FILE
<1>3. DataLength \in Nat \ {0}
  BY Geometry
<1>4. o = base + r /\ r \in 0 .. DataLength-1 /\ base \in Nat
  <2> HIDE DEF o
  <2>1. o = (o \div DataLength) * DataLength + (o % DataLength) /\ o % DataLength \in 0 .. DataLength-1
    BY <1>2, <1>3, DivMod
  <2> HIDE DEF q
  <2>2. q * DataLength \in Nat
    BY <1>2, <1>3
  <2>3. QED
    BY <1>1, <2>1, <2>2
<1>5. FirstByte(f) = IF f.bufindex = q THEN base ELSE base + DataLength
  <2>1. CASE f.bufindex = q
    BY <2>1 DEF FirstByte
  <2>2. CASE f.bufindex = q + 1 /\ f.bufindex # q
    <3> HIDE DEF q
    <3>1. (q + 1) * DataLength = q * DataLength + DataLength
      BY <1>2, <1>3
    <3>2. QED
      BY <2>2, <3>1 DEF FirstByte
  <2>3. QED
    BY <2>1, <2>2
<1>6. o + n = FirstByte(f) + DataLength
  OBVIOUS
<1> HIDE DEF base, r, o, len
<1>7. f.bufindex = q
  <2> SUFFICES ASSUME f.bufindex # q PROVE FALSE
    OBVIOUS
  <2>1. (base + r) + n = (base + DataLength) + DataLength
    BY <1>4, <1>5, <1>6
  <2>2. QED
    BY <1>1, <1>3, <1>4, <2>1
<1>8. (base + r) + n = base + DataLength
  BY <1>4, <1>5, <1>6, <1>7
<1>9. r + len > DataLength
  BY <1>1, <1>3, <1>4, <1>8
<1>10. QED
  BY <1>7, <1>9 DEF r, o, len

\* One round of fwrite
LEMMA WriteRound ==
  ASSUME NEW d, NEW T, NEW L, Sound(d, T, L), NEW h \in Handle, T[h].open, NEW bytes, NEW n \in Nat,
         Permitted(d, T[h], bytes), n + 1 <= Len(bytes), NEW b, b = bytes[n+1],
         NEW e, NEW f, NEW at, NEW U, NEW M, WriteState(d, T, L, h, bytes, e, f, at, U, M, n)
  PROVE  \E e1, f1, at1, U1, M1 :
           /\ WriteByte(Writing(e, f, at), b) = Writing(e1, f1, at1)
           /\ WriteState(d, T, L, h, bytes, e1, f1, at1, U1, M1, n + 1)
<1> DEFINE i == SlotOf(T[h])
           More(e1, f1, at1, U1, M1) == Wrote(e, U, M, h, b, e1, f1, at1, U1, M1)
                                        /\ Phase(d, T, L, h, e1, f1, M1)
                                        /\ WriteByte(Writing(e, f, at), b) = Writing(e1, f1, at1)
<1>1. /\ U = [T EXCEPT ![h] = f] /\ f \in FILE /\ f.open /\ SlotOf(f) = i
      /\ at \in Nat /\ at <= DataLength /\ f.offset = FirstByte(f) + at
      /\ f.offset = T[h].offset + n
      /\ Sound(e, U, M) /\ Phase(d, T, L, h, e, f, M)
  BY DEF WriteState
<1>2. T \in [Handle -> FILE] /\ U[h] = f
  BY <1>1, SoundTypes
<1>3. b \in Bytes
  <2>1. bytes \in Seq(Bytes) /\ n + 1 \in 1 .. Len(bytes)
    BY DEF Permitted
  <2>2. QED
    BY <2>1
<1>4. ASSUME NEW e1, NEW f1, NEW at1, NEW U1, NEW M1, More(e1, f1, at1, U1, M1)
      PROVE  WriteState(d, T, L, h, bytes, e1, f1, at1, U1, M1, n + 1)
  BY <1>4, WroteMore
<1> SUFFICES \E e1, f1, at1, U1, M1 : More(e1, f1, at1, U1, M1)
  BY <1>4
<1>5. CASE at < DataLength
  <2> DEFINE g == PutByte(f, at, b)
             V == [U EXCEPT ![h] = g]
             l == M[SlotOf(f)]
  <2>1. g = PutByte(f, at, b) /\ V = [U EXCEPT ![h] = g] /\ l = M[SlotOf(f)]
    OBVIOUS
  <2> HIDE DEF g, V, l
  <2>2. Putting(U, M, h, f, l, at, b, g, V)
    BY <1>1, <1>2, <1>3, <1>5, <2>1 DEF Putting
  <2>3. Wrote(e, U, M, h, b, e, g, at + 1, V, M)
    BY <1>1, <2>2, WroteHere
  <2>4. g.bufindex = f.bufindex /\ ByteAt(f.buffer, at, b, g.buffer)
    BY <1>1, <2>2, PutPlace
  <2>5. Phase(d, T, L, h, e, g, M)
    BY <1>1, <2>4 DEF Phase, ByteAt
  <2>6. WriteByte(Writing(e, f, at), b) = Writing(e, g, at + 1)
    <3>1. ~(at >= DataLength)
      BY <1>1, <1>5, Geometry
    <3>2. QED
      BY <1>1, <2>1, <3>1, WriteHere
  <2>7. More(e, g, at + 1, V, M)
    BY <2>3, <2>5, <2>6
  <2> HIDE DEF More
  <2>8. QED
    BY <2>7
<1>6. CASE ~(at < DataLength)
  <2>1. at = DataLength /\ at >= DataLength /\ f.offset = FirstByte(f) + DataLength
    BY <1>1, <1>6, Geometry
  <2>2. f.bufindex \in {T[h].bufindex, T[h].bufindex + 1}
    BY <1>1 DEF Phase
  <2>3. f.bufindex = T[h].bufindex /\ (T[h].offset % DataLength) + Len(bytes) > DataLength
    BY <1>1, <2>1, <2>2, Room
  <2>4. f.buffer.next = T[h].buffer.next /\ e = d /\ M = L
    <3>1. T[h].bufindex \in Nat
      BY OpenFile
    <3>2. QED
      BY <1>1, <2>3, <3>1 DEF Phase
  <2>5. CASE f.buffer.next # EOC
    <3> DEFINE c == fflush(e, f)
               g == Load(c, f, f.buffer.next, f.bufindex + 1)
               V == [U EXCEPT ![h] = g]
               x == PutByte(g, 0, b)
               W == [U EXCEPT ![h] = x]
    <3>1. /\ c = fflush(e, f) /\ g = Load(c, f, f.buffer.next, f.bufindex + 1)
          /\ x = PutByte(g, 0, b) /\ W = [U EXCEPT ![h] = x] /\ V = [U EXCEPT ![h] = g]
      OBVIOUS
    <3> HIDE DEF c, g, V, x, W
    <3>2. Onward(e, U, h, f, c, g, V)
      BY <1>1, <1>2, <2>1, <2>5, <3>1, Zenon DEF Onward
    <3>8. OnwardWith(e, U, h, f, c, g, V, b, x, W)
      BY <1>3, <3>1, <3>2 DEF OnwardWith
    <3>3. Wrote(e, U, M, h, b, c, x, 0 + 1, W, M) /\ x.bufindex = f.bufindex + 1
      BY <1>1, <3>8, WroteOnward
    <3>4. Phase(d, T, L, h, c, x, M)
      BY <2>3, <3>3 DEF Phase
    <3>5. WriteByte(Writing(e, f, at), b) = Writing(c, x, 0 + 1)
      BY <1>1, <2>1, <2>5, <3>1, WriteOnward
    <3>6. More(c, x, 0 + 1, W, M)
      BY <3>3, <3>4, <3>5
    <3> HIDE DEF More
    <3>7. QED
      BY <3>6
  <2>6. CASE f.buffer.next = EOC
    <3> DEFINE s == find_empty_sector(e)
               l == M[i]
               c == Linked(e, f, s)
               x == Extended(e, f, s, b)
               W == [U EXCEPT ![h] = x]
               N == [M EXCEPT ![i] = Longer(l, s)]
    <3>1. s # 0 /\ e.sector[s].next = EOC /\ e.sector[s].count = 0
      BY <2>3, <2>4, <2>6 DEF Permitted
    <3>2. e \in Disk
      BY <1>1, SoundTypes
    <3>3. s = find_empty_sector(e) /\ l = M[i]
      OBVIOUS
    <3> HIDE DEF s, l
    <3>4. s \in 1 .. Size-1 /\ s \notin e.used
      BY <3>1, <3>2, <3>3, FreeSector
    <3>5. Extending(e, U, M, h, f, i, l, s, b)
      BY <1>1, <1>2, <1>3, <2>1, <2>6, <3>1, <3>3, <3>4 DEF Extending
    <3>6. c = Linked(e, f, s) /\ x = Extended(e, f, s, b) /\ W = [U EXCEPT ![h] = x]
          /\ N = [M EXCEPT ![i] = Longer(l, s)]
      OBVIOUS
    <3> HIDE DEF c, x, W, N
    <3>7. Wrote(e, U, M, h, b, c, x, 1, W, N) /\ x.bufindex = f.bufindex + 1
      <4>1. ExtendingWith(e, U, M, h, f, i, l, s, b, c, x, W, N)
        BY <3>5, <3>6 DEF ExtendingWith
      <4>2. QED
        BY <1>1, <4>1, WroteNew
    <3>8. Phase(d, T, L, h, c, x, N)
      BY <2>3, <3>7 DEF Phase
    <3>9. WriteByte(Writing(e, f, at), b) = Writing(c, x, 0 + 1)
      BY <1>1, <2>1, <2>6, <3>2, <3>3, <3>4, <3>6, WriteNew
    <3>10. 0 + 1 = 1
      OBVIOUS
    <3>11. More(c, x, 1, W, N)
      BY <3>7, <3>8, <3>9, <3>10
    <3> HIDE DEF More
    <3>12. QED
      BY <3>11
  <2>7. QED
    BY <2>5, <2>6
<1>7. QED
  BY <1>5, <1>6

\* Before the first round.
LEMMA WriteStarts ==
  ASSUME NEW d, NEW T, NEW L, Sound(d, T, L), NEW h \in Handle, T[h].open, NEW bytes,
         Permitted(d, T[h], bytes), NEW at, at = T[h].offset % DataLength
  PROVE  WriteState(d, T, L, h, bytes, d, T[h], at, T, L, 0)
<1> DEFINE f == T[h]
           i == SlotOf(f)
           t == Text(d, T, L[i])
           o == f.offset
<1>1. f \in FILE /\ f.open /\ T \in [Handle -> FILE] /\ T = [T EXCEPT ![h] = f]
  BY OpenFile, SoundTypes
<1>2. o \in Nat /\ DataLength \in Nat \ {0}
  BY <1>1, Geometry DEF FILE
<1>3. o = FirstByte(f) + at /\ at \in Nat /\ at <= DataLength
  <2>1. o \div DataLength = f.bufindex
    BY DEF Permitted
  <2> HIDE DEF f, o
  <2>2. o = (o \div DataLength) * DataLength + (o % DataLength) /\ o % DataLength \in 0 .. DataLength-1
    BY <1>2, DivMod
  <2>3. at = o % DataLength
    BY DEF o, f
  <2>4. (o \div DataLength) * DataLength = FirstByte(f)
    BY <2>1 DEF FirstByte
  <2>5. o = FirstByte(f) + at /\ at \in 0 .. DataLength-1
    BY <2>2, <2>3, <2>4
  <2>6. QED
    BY <1>2, <2>5
<1>4. t = WithBytes(t, o, bytes, 0)
  <2> DEFINE size == Length(d, T, L[i])
  <2>1. size \in Nat /\ o <= size
    BY OffsetUpTo
  <2>2. t = [p \in 1 .. size |-> t[p]]
    BY DEF Text
  <2> HIDE DEF size, t, o
  <2>3. o \in 0 .. size
    BY <1>2, <2>1
  <2>4. QED
    BY <2>1, <2>2, <2>3, NoBytes
<1>5. o = o + 0
  BY <1>2
<1>6. OthersSame(d, T, L, d, T, i) /\ Phase(d, T, L, h, d, f, L)
  BY DEF OthersSame, Phase
<1> HIDE DEF f, t, o, i
<1>7. f = T[h] /\ i = SlotOf(T[h]) /\ o = T[h].offset /\ t = Text(d, T, L[i])
  BY DEF f, t, o, i
<1>8. WriteState(d, T, L, h, bytes, d, f, at, T, L, 0)
  BY <1>1, <1>3, <1>4, <1>5, <1>6, <1>7 DEF WriteState
<1>9. QED
  BY <1>7, <1>8

WriteIs(d, T, L, h, bytes, k, n) ==
  \E e, f, at, U, M : k = Writing(e, f, at) /\ WriteState(d, T, L, h, bytes, e, f, at, U, M, n)

\* WriteRound, for what fwrite keeps as one value.
LEMMA WriteOnce ==
  ASSUME NEW d, NEW T, NEW L, Sound(d, T, L), NEW h \in Handle, T[h].open, NEW bytes, NEW n \in Nat,
         Permitted(d, T[h], bytes), n + 1 <= Len(bytes), NEW b, b = bytes[n+1],
         NEW k, WriteIs(d, T, L, h, bytes, k, n)
  PROVE  WriteIs(d, T, L, h, bytes, WriteByte(k, b), n + 1)
<1>1. PICK e, f, at, U, M : k = Writing(e, f, at) /\ WriteState(d, T, L, h, bytes, e, f, at, U, M, n)
  BY DEF WriteIs
<1>2. \E e1, f1, at1, U1, M1 :
           /\ WriteByte(Writing(e, f, at), b) = Writing(e1, f1, at1)
           /\ WriteState(d, T, L, h, bytes, e1, f1, at1, U1, M1, n + 1)
  BY <1>1, WriteRound
<1>3. QED
  BY <1>1, <1>2 DEF WriteIs

\* What is so before the first round and after each is so after the last.
LEMMA WriteAll ==
  ASSUME NEW d, NEW T, NEW L, Sound(d, T, L), NEW h \in Handle, T[h].open, NEW bytes,
         Permitted(d, T[h], bytes), NEW size \in Nat, size = Len(bytes),
         NEW start, WriteIs(d, T, L, h, bytes, start, 0), NEW g, WriteRounds(g, start, bytes, size)
  PROVE  WriteIs(d, T, L, h, bytes, g[size], size)
<1> DEFINE S == {n \in Nat : n <= size => WriteIs(d, T, L, h, bytes, g[n], n)}
<1>1. \A n \in 0 .. size : g[n] = IF n = 0 THEN start ELSE WriteByte(g[n-1], bytes[n])
  BY DEF WriteRounds
<1>2. 0 \in S
  BY <1>1
<1>3. ASSUME NEW n \in 1 .. size, n-1 \in S PROVE n \in S
  <2> DEFINE p == n - 1
             b == bytes[n]
  <2>1. WriteIs(d, T, L, h, bytes, g[p], p) /\ p \in Nat /\ p + 1 = n /\ p + 1 <= Len(bytes)
    BY <1>3
  <2>2. g[n] = WriteByte(g[p], b)
    BY <1>1
  <2>3. b = bytes[p+1]
    BY <2>1
  <2> HIDE DEF p, b
  <2>4. WriteIs(d, T, L, h, bytes, WriteByte(g[p], b), p + 1)
    BY <2>1, <2>3, WriteOnce
  <2>5. QED
    BY <2>1, <2>2, <2>4
<1> HIDE DEF S
<1>4. \A n \in 0 .. size : n \in S
  BY <1>2, <1>3, Along
<1>5. size \in S
  BY <1>4
<1>6. QED
  BY <1>5 DEF S

\* What fwrite leaves, when its rounds are over.
LEMMA WriteDone ==
  ASSUME IInv, Survived, NEW h \in Open, NEW bytes, fwrite(h, bytes),
         Permitted(disk, file_pointers[h], bytes)
  PROVE  \E k : /\ WriteIs(disk, file_pointers, Lists(disk), h, bytes, k, Len(bytes))
                /\ disk' = k.d
                /\ file_pointers' = [file_pointers EXCEPT ![h] = k.f]
                /\ result' = [call |-> "fwrite", value |-> Len(bytes)]
<1> DEFINE T == file_pointers
           L == Lists(disk)
           at == T[h].offset % DataLength
           start == Writing(disk, T[h], at)
           size == Len(bytes)
           Upto(g) == [n \in 0 .. size |-> IF n = 0 THEN start ELSE WriteByte(g[n-1], bytes[n])]
           g == CHOOSE g : g = Upto(g)
           k == g[size]
<1>1. h \in Handle /\ T[h].open /\ Sound(disk, T, L)
  BY Before DEF Open
<1>a. size \in Nat
  BY DEF Permitted
<1>2. /\ disk' = k.d
      /\ file_pointers' = [T EXCEPT ![h] = k.f]
      /\ result' = [call |-> "fwrite", value |-> Len(bytes)]
  BY DEF fwrite, Writing
<1>3. WriteIs(disk, T, L, h, bytes, start, 0)
  <2> HIDE DEF L, at
  <2>1. WriteState(disk, T, L, h, bytes, disk, T[h], at, T, L, 0)
    BY <1>1, WriteStarts DEF at
  <2>2. QED
    BY <2>1 DEF WriteIs
<1>4. g = Upto(g)
  <2> HIDE DEF start, size
  <2>1. PICK e : WriteRounds(e, start, bytes, size)
    BY <1>a, WriteRoundsExists
  <2>2. e = Upto(e)
    BY <2>1 DEF WriteRounds
  <2> HIDE DEF Upto
  <2>3. QED
    BY <2>2
<1>5. WriteRounds(g, start, bytes, size)
  <2> HIDE DEF g, start, size
  <2>1. QED
    BY <1>4 DEF WriteRounds
<1>6. WriteIs(disk, T, L, h, bytes, k, size)
  <2>1. size = Len(bytes)
    OBVIOUS
  <2> HIDE DEF g, start, L, size
  <2>2. QED
    BY <1>1, <1>3, <1>5, <1>a, <2>1, WriteAll
<1> HIDE DEF k
<1>7. QED
  BY <1>2, <1>6

\* A call of fwrite that is no fault begins in the buffered sector, and finds a
\* sector to go on in if it needs one.
LEMMA IsPermitted ==
  ASSUME NEW h \in Open, NEW bytes \in Strings, fwrite(h, bytes), fault' = "none"
  PROVE  Permitted(disk, file_pointers[h], bytes)
<1> DEFINE f == file_pointers[h]
           at == f.offset % DataLength
           more == at + Len(bytes) > DataLength /\ f.buffer.next = EOC
<1>1. WriteFault(f, more, find_empty_sector(disk)) = "none"
  BY DEF fwrite
<1>2. /\ f.offset \div DataLength = f.bufindex
      /\ more => /\ find_empty_sector(disk) # 0
                 /\ disk.sector[find_empty_sector(disk)].next = EOC
                 /\ disk.sector[find_empty_sector(disk)].count = 0
  <2> HIDE DEF more, f
  <2>1. QED
    BY <1>1 DEF WriteFault
<1>3. bytes \in Seq(Bytes) /\ Len(bytes) <= DataLength + 1
  <2>1. bytes \in Seq(Bytes) /\ Len(bytes) \in 1 .. DataLength+1
    BY FsAssumption
  <2>2. QED
    BY <2>1, Geometry
<1>4. QED
  BY <1>2, <1>3 DEF Permitted

\* fwrite is that of the store: its bytes are in the file, and nothing else has
\* changed.
LEMMA WriteStep ==
  ASSUME IInv, Survived, Survived', fault' = "none", NEW h \in Open, NEW bytes \in Strings,
         fwrite(h, bytes)
  PROVE  IInv' /\ Store!Write(h, bytes)
<1> DEFINE T == file_pointers
           L == Lists(disk)
           i == SlotOf(T[h])
           t == Text(disk, T, L[i])
           o == T[h].offset
           n == Len(bytes)
<1>1. h \in Handle /\ T[h].open /\ Sound(disk, T, L)
  BY Before DEF Open
<1>2. Permitted(disk, T[h], bytes)
  BY IsPermitted
<1>3. PICK k : /\ WriteIs(disk, T, L, h, bytes, k, n)
               /\ disk' = k.d
               /\ file_pointers' = [T EXCEPT ![h] = k.f]
               /\ result' = [call |-> "fwrite", value |-> n]
  BY <1>2, WriteDone
<1>4. PICK e, f, at, U, M : /\ k = Writing(e, f, at)
                            /\ WriteState(disk, T, L, h, bytes, e, f, at, U, M, n)
  BY <1>3 DEF WriteIs
<1>5. /\ U = [T EXCEPT ![h] = f] /\ f \in FILE /\ f.open /\ SlotOf(f) = i /\ f.offset = o + n
      /\ Sound(e, U, M) /\ e.name = disk.name /\ OthersSame(disk, T, L, e, U, i)
      /\ \A j \in Slot : j # i => M[j] = L[j]
      /\ Text(e, U, M[i]) = WithBytes(t, o, bytes, n)
  BY <1>4 DEF WriteState
<1>6. disk' = e /\ file_pointers' = U
  <2>1. k.d = e /\ k.f = f
    BY <1>4 DEF Writing
  <2>2. QED
    BY <1>3, <1>5, <2>1
<1>7. /\ Contents' = ContentsOf(e, U, M) /\ Users' = UsersOf(e, U) /\ IInv'
  <2>1. Sound(disk', file_pointers', M)
    BY <1>5, <1>6
  <2>2. QED
    BY <1>6, <2>1, After
<1>8. Contents = ContentsOf(disk, T, L) /\ Users = UsersOf(disk, T)
  BY Before
<1>9. i \in Listing(L) /\ i \in Slot /\ disk.name[i] \in DOMAIN Contents
      /\ Contents[disk.name[i]] = t /\ Users[h].name = disk.name[i] /\ Users[h].pos = o
  BY <1>1, <1>8, UserIs, OpenFile
<1>10. Listing(M) = Listing(L)
  <2>1. \A j \in Slot : disk.name[j] # BLANK <=> Len(L[j]) > 0
    BY <1>1 DEF Sound, Listed
  <2>2. \A j \in Slot : e.name[j] # BLANK <=> Len(M[j]) > 0
    BY <1>5 DEF Sound, Listed
  <2> HIDE DEF L
  <2>3. QED
    BY <1>5, <2>1, <2>2 DEF Listing
<1> DEFINE new == WithBytes(t, o, bytes, n)
           F == [Contents EXCEPT ![disk.name[i]] = new]
<1>11. DOMAIN F = NamesOf(e, M) /\ F = [x \in DOMAIN F |-> F[x]]
  <2>1. DOMAIN Contents = NamesOf(disk, L)
    BY <1>1, <1>8, ContentsOfIs
  <2>2. NamesOf(e, M) = NamesOf(disk, L)
    BY <1>5, <1>10 DEF NamesOf
  <2> HIDE DEF L, new
  <2>3. QED
    BY <2>1, <2>2
<1>12. ASSUME NEW j \in Listing(M) PROVE F[e.name[j]] = Text(e, U, M[j])
  <2>1. j \in Listing(L) /\ j \in Slot
    BY <1>10 DEF Listing
  <2>2. /\ disk.name[j] \in DOMAIN Contents /\ Contents[disk.name[j]] = Text(disk, T, L[j])
        /\ (j # i => disk.name[j] # disk.name[i])
    <3> HIDE DEF L, i
    <3>1. QED
      BY <1>1, <1>8, <1>9, <2>1, ContentsOfIs
  <2>3. CASE j = i
    <3> HIDE DEF new, i, t
    <3>1. QED
      BY <1>5, <1>9, <2>3 DEF new
  <2>4. CASE j # i
    <3>1. Text(e, U, L[j]) = Text(disk, T, L[j]) /\ M[j] = L[j]
      BY <1>5, <2>1, <2>4 DEF OthersSame
    <3> HIDE DEF new, i, L
    <3>2. QED
      BY <1>5, <2>2, <2>4, <3>1
  <2>5. QED
    BY <2>3, <2>4
<1>13. Contents' = F
  <2>1. Sound(e, U, M)
    BY <1>5
  <2>2. \A j \in Listing(M) : F[e.name[j]] = Text(e, U, M[j])
    BY <1>12
  <2> HIDE DEF F
  <2>3. ContentsOf(e, U, M) = F
    BY <1>11, <2>1, <2>2, ContentsIf
  <2>4. QED
    BY <1>7, <2>3
<1>14. Users' = WithUserAt(Users, h, o + n)
  <2>1. T \in [Handle -> FILE]
    BY <1>1, SoundTypes
  <2> DEFINE to == o + n
  <2>2. f.offset = to
    BY <1>5
  <2> HIDE DEF to, L
  <2>3. Moves(T, U, h, to)
    BY <1>1, <1>5, <2>1, <2>2 DEF Moves
  <2>4. UsersOf(disk, U) = WithUserAt(UsersOf(disk, T), h, to)
    BY <1>1, <2>3, MovesUsers
  <2>5. UsersOf(e, U) = UsersOf(disk, U)
    BY <1>5 DEF UsersOf
  <2>6. QED
    BY <1>7, <1>8, <2>4, <2>5 DEF to
<1>15. new = [p \in 1 .. IF o + n > Len(t) THEN o + n ELSE Len(t) |->
                 IF p \in o+1 .. o+n THEN bytes[p - o] ELSE t[p]]
  BY DEF WithBytes
<1>16. Store!Content(h) = t
  BY <1>9 DEF Store!Content
<1>17. result'.call = "fwrite" /\ result'.value = n
  BY <1>3
<1>18. Store!Write(h, bytes)
  <2>1. F = [Contents EXCEPT ![Users[h].name] = new]
    BY <1>9
  <2> HIDE DEF F, new, t, o, n
  <2>2. Contents' = [Contents EXCEPT ![Users[h].name] = new]
    BY <1>13, <2>1
  <2>3. Store!Move(h, o + n)
    BY <1>14 DEF Store!Move, WithUserAt
  <2>4. Users[h].pos = o
    BY <1>9
  <2>5. QED
    BY <1>15, <1>16, <1>17, <2>2, <2>3, <2>4 DEF Store!Write, n
<1>19. QED
  BY <1>7, <1>18
-----------------------------------------------------------------------------
(* The theorems                                                            *)

\* A formatted partition has no files.
NoFiles == [i \in Slot |-> <<>>]

\* What _fs_format leaves is a disk.
LEMMA FormattedDisk == Formatted \in Disk
<1>1. Metadata \in SUBSET (1 .. Size-1)
  <2>1. ASSUME NEW b \in 0 .. Blocks-1 PROVE (b*PerBlock + 1) .. (b*PerBlock + 1)+2 \subseteq 1 .. Size-1
    <3>1. b*PerBlock \in Nat /\ b*PerBlock + PerBlock <= Blocks*PerBlock
      BY <2>1, Geometry, Sectors
    <3>2. QED
      BY <3>1, Geometry
  <2>2. QED
    BY <2>1 DEF Metadata, IndexBlocks
<1>2. BlankSector \in FileSector /\ BootRecord \in FileSector
  BY Geometry DEF BlankSector, BootRecord, FileSector
<1>3. [s \in Sector |-> IF s = 0 THEN BootRecord ELSE BlankSector] \in [Sector -> FileSector]
  BY <1>2
<1>4. QED
  BY <1>1, <1>3, Geometry DEF Formatted, Disk

\* It has no files, and no sector is in use but those of the metadata.
LEMMA FormattedListed == Listed(Formatted, NoFiles)
<1>1. \A i \in Slot : NoFiles[i] = <<>> /\ Len(NoFiles[i]) = 0 /\ At(NoFiles[i], 1) = EOC
  BY DEF NoFiles, At
<1>2. NoFiles \in [Slot -> Seq(Usable)]
  BY DEF NoFiles
<1>3. \A i \in Slot : Formatted.fp[i] = EOC /\ Formatted.name[i] = BLANK
  BY DEF Formatted
<1>4. \A i \in Slot : \A s : ~Holds(NoFiles[i], s)
  BY <1>1 DEF Holds
<1>5. Formatted.used = Metadata
  BY DEF Formatted
<1>6. QED
  BY <1>1, <1>2, <1>3, <1>4, <1>5 DEF Listed

\* It is sound, with no FILE open.
LEMMA FormattedSound ==
  ASSUME Init
  PROVE  Sound(disk, file_pointers, NoFiles)
<1>1. disk = Formatted /\ file_pointers = [h \in Handle |-> Closed]
  BY DEF Init
<1>2. file_pointers \in [Handle -> FILE] /\ \A h \in Handle : ~file_pointers[h].open
  BY <1>1, ClosedIsFile
<1>3. \A i \in Slot : Len(NoFiles[i]) = 0
  BY DEF NoFiles
<1>4. QED
  BY <1>1, <1>2, <1>3, FormattedDisk, FormattedListed DEF Sound

\* The behaviour begins with all as it should be, and with a store without files.
LEMMA InitIs ==
  ASSUME Init
  PROVE  IInv /\ Store!Init
<1>1. Sound(disk, file_pointers, NoFiles) /\ Survived /\ result = [call |-> "boot", value |-> 0]
  BY FormattedSound DEF Init, Survived
<1>2. Lists(disk) = NoFiles
  BY <1>1, ListsAre
<1>3. IInv
  BY <1>1, <1>2 DEF IInv
<1>4. Listing(NoFiles) = {}
  BY DEF Listing, NoFiles
<1>5. Contents = [n \in {} |-> <<>>]
  <2>1. Contents = ContentsOf(disk, file_pointers, NoFiles)
    BY <1>1, <1>2, <1>3, Before
  <2>2. NamesOf(disk, NoFiles) = {}
    BY <1>4 DEF NamesOf
  <2>3. QED
    BY <2>1, <2>2 DEF ContentsOf
<1>6. Users = [h \in {} |-> <<>>]
  <2>1. Open = {}
    BY ClosedIsFile DEF Init, Open
  <2>2. QED
    BY <2>1 DEF Users
<1>7. QED
  BY <1>1, <1>3, <1>5, <1>6 DEF Store!Init

\* Every step that is not a fault keeps what is sound, and is a call of the store.
LEMMA StepIs ==
  ASSUME IInv, Next, fault' = "none"
  PROVE  IInv' /\ Store!Next
<1>1. Survived /\ Survived'
  BY DEF Next, Survived
<1>2. DOMAIN Users = Open
  BY <1>1, Before
<1>3. CASE \E n \in Names : fopen(n)
  BY <1>1, <1>3, OpenStep DEF Store!Next
<1>4. ASSUME NEW h \in Open, fclose(h) PROVE IInv' /\ Store!Next
  BY <1>1, <1>2, <1>4, CloseStep DEF Store!Next
<1>5. ASSUME NEW h \in Open, fdelete(h) PROVE IInv' /\ Store!Next
  BY <1>1, <1>2, <1>5, DeleteStep DEF Store!Next
<1>6. ASSUME NEW h \in Open, fflush_call(h) PROVE IInv' /\ Store!Next
  BY <1>1, <1>2, <1>6, FlushStep DEF Store!Next
<1>7. ASSUME NEW h \in Open, Seek(h) PROVE IInv' /\ Store!Next
  <2>1. IInv' /\ \E by \in Offsets : Store!SeekAbs(h, by) \/ Store!SeekRel(h, by) \/ Store!SeekRev(h, by)
    BY <1>1, <1>7, SeekCalls
  <2>2. QED
    BY <1>2, <2>1 DEF Store!Next
<1>8. ASSUME NEW h \in Open, NEW size \in Offsets, fread(h, size) PROVE IInv' /\ Store!Next
  BY <1>1, <1>2, <1>8, ReadStep DEF Store!Next
<1>9. ASSUME NEW h \in Open, NEW bytes \in Strings, fwrite(h, bytes) PROVE IInv' /\ Store!Next
  BY <1>1, <1>2, <1>9, WriteStep DEF Store!Next
<1>10. QED
  BY <1>3, <1>4, <1>5, <1>6, <1>7, <1>8, <1>9 DEF Next

\* Only fread stops short.
LEMMA OnlyRead ==
  ASSUME Next, fault' = "short read"
  PROVE  \E h \in Open, size \in Offsets : fread(h, size)
<1>1. ASSUME NEW n \in Names, fopen(n) PROVE FALSE
  BY <1>1 DEF fopen, OpenFault
<1>2. ASSUME NEW h \in Open, fclose(h) \/ fdelete(h) \/ fflush_call(h) PROVE FALSE
  BY <1>2 DEF fclose, fdelete, fflush_call
<1>3. ASSUME NEW h \in Open, Seek(h) PROVE FALSE
  <2>1. PICK by \in Offsets : fseek_abs(h, by) \/ fseek_rel(h, by) \/ fseek_rel_rev(h, by)
    BY <1>3 DEF Seek
  <2>2. fault' = "none" \/ \E f, to, index, relative : fault' = SeekFault(f, to, index, relative)
    BY <2>1 DEF fseek_abs, fseek_rel, fseek_rel_rev, Invalid
  <2>3. QED
    BY <2>2 DEF SeekFault
<1>4. ASSUME NEW h \in Open, NEW bytes \in Strings, fwrite(h, bytes) PROVE FALSE
  BY <1>4 DEF fwrite, WriteFault
<1>5. QED
  BY <1>1, <1>2, <1>3, <1>4 DEF Next

\* A step keeps what is sound, or is a fault that nothing follows.
LEMMA StepKeeps ==
  ASSUME IInv, [Next]_vars
  PROVE  IInv'
<1>1. CASE Next
  <2>1. CASE fault' = "none"
    BY <1>1, <2>1, StepIs
  <2>2. CASE fault' = "short read"
    <3>1. Survived /\ Survived'
      BY <1>1, <2>2 DEF Next, Survived
    <3>2. QED
      BY <1>1, <2>2, <3>1, OnlyRead, ReadStep
  <2>3. CASE ~Survived'
    BY <2>3 DEF IInv
  <2>4. QED
    BY <2>1, <2>2, <2>3 DEF Survived
<1>2. CASE UNCHANGED vars
  BY <1>2 DEF vars, IInv, Survived
<1>3. QED
  BY <1>1, <1>2

\* As long as a behaviour has no fault, the disk, the tables and the buffers of open
\* FILEs describe the same files, every sector in one place of one of them.
THEOREM Invariance == Spec => []IInv
<1>1. Init => IInv
  BY InitIs
<1>2. IInv /\ [Next]_vars => IInv'
  BY StepKeeps
<1>3. QED
  BY <1>1, <1>2, PTL DEF Spec

\* Where the lists agree with the tables, no sector is lost or shared.
LEMMA Accounted == IInv => SectorsAccountedFor
<1> SUFFICES ASSUME IInv, Survived PROVE
      /\ disk.used = Metadata \cup UNION {SectorsOf(disk, i) : i \in Files}
      /\ Metadata \cap UNION {SectorsOf(disk, i) : i \in Files} = {}
      /\ \A i \in Files : IsInjective(Chain(disk, disk.fp[i]))
      /\ \A i, j \in Files : i # j => SectorsOf(disk, i) \cap SectorsOf(disk, j) = {}
      /\ \A i \in Slot : i \in Files <=> disk.name[i] # BLANK
      /\ \A s \in UNION {SectorsOf(disk, i) : i \in Files} :
           disk.sector[s].next # EOC => disk.sector[s].count = DataLength
  BY DEF SectorsAccountedFor
<1> DEFINE L == Lists(disk)
           T == file_pointers
<1>1. Sound(disk, T, L)
  BY DEF IInv
<1>2. \A i \in Slot : Chain(disk, disk.fp[i]) = L[i]
  BY <1>1, ListsAre
<1>3. /\ \A i \in Slot : L[i] \in Seq(Usable) /\ Len(L[i]) \in Nat
      /\ \A i \in Slot : \A k \in 1 .. Len(L[i]) : L[i][k] \in Usable
      /\ disk.used \subseteq 1 .. Size-1
  BY <1>1, SoundTypes
<1> HIDE DEF L, T
<1>4. /\ \A i \in Slot : disk.fp[i] = At(L[i], 1)
      /\ \A i \in Slot : disk.name[i] # BLANK <=> Len(L[i]) > 0
      /\ \A i, j \in Slot : \A k \in 1 .. Len(L[i]), m \in 1 .. Len(L[j]) :
           L[i][k] = L[j][m] => i = j /\ k = m
      /\ \A s \in 1 .. Size-1 : s \in disk.used <=> s \in Metadata \/ \E i \in Slot : Holds(L[i], s)
      /\ \A i \in Slot : \A k \in 1 .. Len(L[i]) : Fits(disk.sector[L[i][k]], L[i], k)
  BY <1>1 DEF Sound, Listed
<1>5. \A i \in Slot : i \in Files <=> Len(L[i]) > 0
  BY <1>3, <1>4, Geometry, SMTT(90) DEF Files, At
<1>6. \A i \in Slot : \A s : s \in SectorsOf(disk, i) <=> Holds(L[i], s)
  <2>1. ASSUME NEW i \in Slot PROVE Range(L[i]) = {L[i][k] : k \in 1 .. Len(L[i])}
    BY <1>3 DEF Range
  <2>2. QED
    BY <1>2, <2>1 DEF SectorsOf, Holds
<1>7. \A s : s \in UNION {SectorsOf(disk, i) : i \in Files} <=> \E i \in Slot : Holds(L[i], s)
  <2>1. \A i \in Slot : \A s : Holds(L[i], s) => i \in Files
    BY <1>3, <1>5 DEF Holds
  <2>2. Files \subseteq Slot
    BY DEF Files
  <2>3. QED
    BY <1>6, <2>1, <2>2
<1>8. \A i \in Slot : \A s : Holds(L[i], s) => s \in Usable
  BY <1>3 DEF Holds
<1>9. disk.used = Metadata \cup UNION {SectorsOf(disk, i) : i \in Files}
  <2>1. Metadata \subseteq 1 .. Size-1
    BY FormattedDisk DEF Formatted, Disk
  <2>2. Usable \subseteq 1 .. Size-1
    BY Geometry
  <2>3. QED
    BY <1>3, <1>4, <1>7, <1>8, <2>1, <2>2
<1>10. Metadata \cap UNION {SectorsOf(disk, i) : i \in Files} = {}
  BY <1>7, <1>8 DEF Usable
<1>11. ASSUME NEW i \in Files PROVE IsInjective(Chain(disk, disk.fp[i]))
  <2>1. i \in Slot /\ DOMAIN L[i] = 1 .. Len(L[i])
    BY <1>3 DEF Files
  <2>2. QED
    BY <1>2, <1>4, <2>1 DEF IsInjective
<1>12. ASSUME NEW i \in Files, NEW j \in Files, i # j PROVE SectorsOf(disk, i) \cap SectorsOf(disk, j) = {}
  <2>1. i \in Slot /\ j \in Slot
    BY DEF Files
  <2>2. \A s : ~(Holds(L[i], s) /\ Holds(L[j], s))
    BY <1>4, <1>12, <2>1 DEF Holds
  <2>3. QED
    BY <1>6, <2>1, <2>2
<1>13. ASSUME NEW s \in UNION {SectorsOf(disk, i) : i \in Files}, disk.sector[s].next # EOC
       PROVE  disk.sector[s].count = DataLength
  <2>1. PICK i \in Slot : Holds(L[i], s)
    BY <1>7
  <2>2. PICK k \in 1 .. Len(L[i]) : L[i][k] = s
    BY <2>1 DEF Holds
  <2>3. Fits(disk.sector[s], L[i], k)
    BY <1>4, <2>2
  <2>4. k + 1 \in 1 .. Len(L[i])
    BY <1>13, <2>3 DEF Fits, At
  <2>5. k < Len(L[i])
    BY <1>3, <2>4
  <2>6. QED
    BY <2>3, <2>5 DEF Fits
<1>14. \A i \in Slot : i \in Files <=> disk.name[i] # BLANK
  BY <1>4, <1>5
<1>15. QED
  BY <1>9, <1>10, <1>11, <1>12, <1>13, <1>14

\* Where open FILEs are in place, what is flushed goes to its place.
LEMMA Placed == IInv => BufferInPlace
<1> SUFFICES ASSUME IInv, Survived, NEW h \in Open
             PROVE  LET f     == file_pointers[h]
                        chain == Chain(disk, disk.fp[SlotOf(f)])
                    IN /\ f.bufindex < Len(chain)
                       /\ chain[f.bufindex + 1] = f.bufsect
                       /\ f.buffer.next = disk.sector[f.bufsect].next
                       /\ f.offset - f.bufindex * DataLength \in 0 .. f.buffer.count
  BY DEF BufferInPlace
<1> DEFINE L == Lists(disk)
           f == file_pointers[h]
           i == SlotOf(f)
           k == f.bufindex + 1
<1>1. Sound(disk, file_pointers, L) /\ h \in Handle /\ file_pointers[h].open
  BY Before DEF Open
<1>2. i \in Slot /\ InPlace(f, L[i]) /\ f.bufindex \in Nat /\ k \in 1 .. Len(L[i])
  BY <1>1, OpenFile
<1>3. Chain(disk, disk.fp[i]) = L[i] /\ Len(L[i]) \in Nat
  BY <1>1, <1>2, ListsAre, SoundTypes
<1>4. Fits(disk.sector[L[i][k]], L[i], k)
  BY <1>1, <1>2 DEF Sound
<1> HIDE DEF L, f, i
<1>5. /\ f.bufsect = L[i][k] /\ Fits(f.buffer, L[i], k)
      /\ f.offset - f.bufindex * DataLength \in 0 .. f.buffer.count
  BY <1>2 DEF InPlace
<1>6. f.buffer.next = disk.sector[f.bufsect].next
  BY <1>4, <1>5 DEF Fits
<1>7. f.bufindex < Len(L[i])
  BY <1>2, <1>3
<1>8. QED
  BY <1>3, <1>5, <1>6, <1>7 DEF f, i

\* Sectors are neither lost nor shared, whatever files are created, grown and deleted.
THEOREM SectorsAlwaysAccountedFor == Spec => []SectorsAccountedFor
BY Invariance, Accounted, PTL

\* What is flushed goes to its place, whatever was sought, read and written before.
THEOREM BuffersStayInPlace == Spec => []BufferInPlace
BY Invariance, Placed, PTL

\* A step that is no fault is one of the store, or changes nothing.
LEMMA StepImplements ==
  ASSUME IInv, [Next]_vars
  PROVE  [fault' = "none" => [Store!Next]_(Store!vars)]_vars
<1>1. CASE Next
  BY <1>1, StepIs
<1>2. CASE UNCHANGED vars
  BY <1>2
<1>3. QED
  BY <1>1, <1>2

\* Every call that is not a fault is a call of the store of named strings of bytes,
\* with the same answer: for every partition, any number of files and open FILEs.
THEOREM ImplementsFileStore == Spec => Implements
<1>1. Init => Store!Init
  BY InitIs
<1>2. IInv /\ [Next]_vars => [fault' = "none" => [Store!Next]_(Store!vars)]_vars
  BY StepImplements
<1>3. QED
  BY <1>1, <1>2, Invariance, PTL DEF Spec, Implements
====
