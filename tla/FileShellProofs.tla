--------------------------- MODULE FileShellProofs ----------------------------
(***************************************************************************)
(* What one shell, stopped at any access and any number of times, leaves   *)
(* on a partition of any geometry: PointersMarked, NamesLeadToFiles and    *)
(* LeaksOnlyByCrash of FileShell.  With two shells they do not hold.       *)
(***************************************************************************)
EXTENDS FileShell, FiniteSetTheorems, WellFoundedInduction, TLAPS

-----------------------------------------------------------------------------
(* The disk *)

\* No file of the shell has a second sector, so that every chain ends where it begins.
EndedSectors == [next: {EOC}, count: Nat, data: [0 .. DataLength-1 -> Nat]]

NamedIn(d) == {i \in Slot : d.name[i] # BLANK}

Disks == [used: SUBSET (1 .. Size-1), fp: [Slot -> Sector],
          name: [Slot -> Names \cup {BLANK}], sector: [Sector -> EndedSectors]]

\* what PointersMarked and NamesLeadToFiles say of the disk, with its types
Sound(d) ==
  /\ d \in Disks
  /\ Metadata \subseteq d.used
  /\ \A i \in Slot : d.fp[i] # EOC => d.fp[i] \in d.used \ Metadata
  /\ \A i, j \in Slot : d.fp[i] # EOC /\ d.fp[i] = d.fp[j] => i = j
  /\ \A i \in Slot : d.name[i] # BLANK => d.fp[i] # EOC

Free(d, i)  == i \in Slot /\ d.fp[i] = EOC
Loose(d, s) == s \in d.used \ Metadata /\ \A i \in Slot : d.fp[i] # s

\* the sectors that no name leads to
Leaked(d) == d.used \ (Metadata \cup {d.fp[i] : i \in NamedIn(d)})

-----------------------------------------------------------------------------
(* The shell *)

Fields == {"at", "cmd", "offset", "name", "slot", "sector", "next", "copy", "file"}

IndexBlock(d, b) == [used |-> d.used \cap BlockSectors(b),
                     fp   |-> [i \in BlockSlots(b) |-> d.fp[i]]]
NameTable(d, i)  == [j \in NameSector(i) |-> d.name[j]]

Naming   == {"open", "create", "sector", "mark", "mark write", "point", "point write",
             "name", "name write"}
HasFile  == {"typing", "close"}

\* What the shell knows of disk d and the table of FILEs fs when it is at r.at: the
\* order of the accesses is such that what it has in hand is never of a named file,
\* and what it has read is still what the disk has.
Knows(d, fs, r) ==
  /\ r.at \in Naming  => r.name \in Names
  /\ r.at \in {"word", "open"} => r.file = NONE
  /\ r.at = "sector"  => r.slot = NONE \/ Free(d, r.slot)
  /\ r.at \in {"mark", "mark write"} =>
       Free(d, r.slot) /\ r.sector \in (1 .. Size-1) \ d.used
  /\ r.at \in {"point", "point write"} => Free(d, r.slot) /\ Loose(d, r.sector)
  /\ r.at \in {"name", "name write"} =>
       /\ r.slot \in Slot /\ r.sector # EOC
       /\ d.fp[r.slot] = r.sector /\ d.name[r.slot] = BLANK
  /\ r.at = "blank" => r.slot \in Slot /\ r.sector \in Sector
  /\ r.at = "opened" => r.file = NONE \/ r.file \in DOMAIN fs
  /\ r.at \in HasFile => r.file \in DOMAIN fs
  /\ r.at = "unname" => r.slot \in Slot
  /\ r.at \in {"unpoint", "unpoint write"} => r.slot \in Slot /\ d.name[r.slot] = BLANK
  /\ r.at = "unpoint write" => r.sector = d.fp[r.slot]
  /\ r.at = "unmark" => r.sector = EOC \/ Loose(d, r.sector)
  /\ r.at = "unmark write" => Loose(d, r.sector) /\ r.next = EOC
  /\ r.at \in {"mark write", "unmark write"} => r.copy = IndexBlock(d, BlockOf(r.sector))
  /\ r.at \in {"point write", "unpoint write"} =>
       r.copy = IndexBlock(d, r.slot \div PerBlock)
  /\ r.at \in {"name write", "unname"} => r.copy = NameTable(d, r.slot)

\* the sector that the shell has in hand: only it is lost when the machine stops
Hand(d, r) ==
  IF r.at \in {"point", "point write", "name", "name write", "unmark", "unmark write"}
  THEN r.sector
  ELSE IF r.at \in {"unpoint", "unpoint write"} THEN d.fp[r.slot] ELSE 0

FILEs == [by: Shells, slot: Slot, bufsect: Sector, offset: Nat, buffer: EndedSectors]

Table(fs) == /\ fs = [h \in DOMAIN fs |-> fs[h]]
             /\ DOMAIN fs \subseteq Handle
             /\ \A h \in DOMAIN fs : fs[h] \in FILEs

Words(l) == \/ l = <<>>
            \/ \E n \in Names : l = << <<"name", n>> >>
            \/ \E n \in Names, k \in Nat : l = << <<"offset", k>>, <<"name", n>> >>

\* What holds of the one shell p, the disk and the table of FILEs.
Inv(p) ==
  /\ Sound(disk) /\ Table(file_pointers) /\ Words(last) /\ crashes \in Nat
  /\ DOMAIN shell = Shells /\ DOMAIN shell[p] = Fields /\ shell[p].offset \in Nat
  /\ Knows(disk, file_pointers, shell[p])
  /\ Cardinality(Leaked(disk) \ {Hand(disk, shell[p])}) <= crashes

\* The inductive invariant.
OneShell == \E p \in Shells : Shells = {p}
IInv     == \E p \in Shells : Shells = {p} /\ Inv(p)

-----------------------------------------------------------------------------
(* Numbers *)

LEMMA Geometry ==
  /\ PerBlock \in Nat /\ PerBlock > 3 /\ Blocks \in Nat /\ Blocks > 0
  /\ Size \in Nat /\ Size > 1 /\ Size - 1 = Blocks * PerBlock
  /\ 0 \in Sector /\ 0 \notin 1 .. Size-1 /\ 1 .. Size-1 \subseteq Sector
  /\ Slot \subseteq Nat /\ NONE \notin Slot
<1>1. /\ PerBlock \in Nat /\ PerBlock > 3 /\ Blocks \in Nat /\ Blocks > 0
  BY DiskAssumption
<1>2. Blocks * PerBlock \in Nat /\ Blocks * PerBlock > 0
  BY <1>1
<1>3. QED
  BY <1>1, <1>2 DEF Size, Sector, Slot, NONE

\* Every block lies within the partition, and so do its metadata.
LEMMA BlockWithin ==
  ASSUME NEW b \in 0 .. Blocks-1
  PROVE  /\ b * PerBlock \in Nat /\ (b + 1) * PerBlock = b * PerBlock + PerBlock
         /\ (b + 1) * PerBlock <= Blocks * PerBlock
<1>1. b \in Nat /\ b + 1 <= Blocks
  BY Geometry
<1>2. QED
  BY <1>1, Geometry

LEMMA MetadataWithin == Metadata \subseteq 1 .. Size-1
<1>1. SUFFICES ASSUME NEW s \in Metadata PROVE s \in 1 .. Size-1
  OBVIOUS
<1>2. PICK b \in 0 .. Blocks-1 : s \in b*PerBlock + 1 .. b*PerBlock + 1 + 2
  BY DEF Metadata, IndexBlocks
<1> DEFINE m == b * PerBlock
           z == Blocks * PerBlock
           n == (b + 1) * PerBlock
<1>3. m \in Nat /\ n = m + PerBlock /\ n <= z /\ z = Size - 1 /\ s \in m + 1 .. m + 1 + 2
  BY <1>2, BlockWithin, Geometry
<1> HIDE DEF m, n, z
<1>4. QED
  BY <1>3, Geometry

\* A number is in the block of its quotient.
LEMMA InItsBlock ==
  ASSUME NEW n \in Nat
  PROVE  n \in (n \div PerBlock) * PerBlock .. ((n \div PerBlock) + 1) * PerBlock - 1
<1> DEFINE b == PerBlock
<1>1. b \in Nat \ {0}
  BY Geometry
<1> HIDE DEF b
<1>2. n \in (n \div b) * b .. ((n \div b) + 1) * b - 1
  BY <1>1
<1>3. QED
  BY <1>2 DEF b

LEMMA SlotInBlock == ASSUME NEW i \in Slot PROVE i \in BlockSlots(i \div PerBlock)
BY InItsBlock, Geometry DEF BlockSlots

LEMMA SectorInBlock == ASSUME NEW s \in 1 .. Size-1 PROVE s \in BlockSectors(BlockOf(s))
<1> DEFINE q == (s - 1) \div PerBlock
<1>1. s - 1 \in Nat /\ s \in Nat
  BY Geometry
<1>2. s - 1 \in q * PerBlock .. (q + 1) * PerBlock - 1
  BY <1>1, InItsBlock
<1>3. q \in Nat
  <2> DEFINE b == PerBlock
  <2>1. b \in Nat \ {0}
    BY Geometry
  <2> HIDE DEF b
  <2>2. (s - 1) \div b \in Nat
    BY <1>1, <2>1
  <2>3. QED
    BY <2>2 DEF b
<1> HIDE DEF q
<1>4. q * PerBlock \in Nat /\ (q + 1) * PerBlock \in Nat
  BY <1>3, Geometry
<1>5. s \in q * PerBlock + 1 .. (q + 1) * PerBlock
  BY <1>1, <1>2, <1>4
<1>6. QED
  BY <1>5 DEF q, BlockSectors, BlockOf

LEMMA SlotInNameSector == ASSUME NEW i \in Slot PROVE i \in NameSector(i)
BY SlotInBlock DEF NameSector

\* A search for the lowest returns one of those it looks for.
LEMMA MinFound ==
  ASSUME NEW S, S \subseteq Nat, S # {} PROVE Min(S) \in S
<1> DEFINE R == OpToRel(<, Nat)
<1>1. IsWellFoundedOn(R, Nat)
  BY NatLessThanWellFounded
<1>2. PICK x \in S : \A y \in S : <<y, x>> \notin R
  <2> HIDE DEF R
  <2> QED BY <1>1, WFMin
<1>3. ASSUME NEW y \in S PROVE x <= y
  <2>1. x \in Nat /\ y \in Nat /\ ~(y < x)
    BY <1>2 DEF OpToRel
  <2>2. QED
    BY <2>1
<1>4. QED
  BY <1>3 DEF Min

-----------------------------------------------------------------------------
(* What one access changes *)

LEMMA DiskFields ==
  ASSUME NEW d \in Disks
  PROVE  /\ d.used \subseteq 1 .. Size-1 /\ d.fp \in [Slot -> Sector]
         /\ d.name \in [Slot -> Names \cup {BLANK}] /\ d.sector \in [Sector -> EndedSectors]
BY DEF Disks

LEMMA UsedIsFinite == ASSUME NEW d \in Disks PROVE IsFiniteSet(d.used)
<1>1. IsFiniteSet(1 .. Size-1)
  BY Geometry, FS_Interval
<1>2. QED
  BY <1>1, DiskFields, FS_Subset

\* An index block, a table of names or a sector of a file is written.
NewTables(d, U, F) == [d EXCEPT !.used = U, !.fp = F]
NewNames(d, N)     == [d EXCEPT !.name = N]

LEMMA BlockChanged ==
  ASSUME NEW d \in Disks, NEW U \in SUBSET (1 .. Size-1), NEW F \in [Slot -> Sector]
  PROVE  /\ NewTables(d, U, F) \in Disks
         /\ NewTables(d, U, F).used = U /\ NewTables(d, U, F).fp = F
         /\ NewTables(d, U, F).name = d.name /\ NewTables(d, U, F).sector = d.sector
<1> DEFINE e == NewTables(d, U, F)
<1>1. e = [d EXCEPT !.used = U, !.fp = F]
  BY DEF NewTables
<1> HIDE DEF e
<1>2. e = [used |-> U, fp |-> F, name |-> d.name, sector |-> d.sector]
  BY <1>1 DEF Disks
<1>3. e \in Disks /\ e.used = U /\ e.fp = F /\ e.name = d.name /\ e.sector = d.sector
  BY <1>2, DiskFields DEF Disks
<1>4. QED
  BY <1>3 DEF e

LEMMA NamesChanged ==
  ASSUME NEW d \in Disks, NEW N \in [Slot -> Names \cup {BLANK}]
  PROVE  /\ NewNames(d, N) \in Disks
         /\ NewNames(d, N).used = d.used /\ NewNames(d, N).fp = d.fp
         /\ NewNames(d, N).name = N /\ NewNames(d, N).sector = d.sector
<1>1. NewNames(d, N) = [used |-> d.used, fp |-> d.fp, name |-> N, sector |-> d.sector]
  BY DEF Disks, NewNames
<1>2. QED
  BY <1>1, DiskFields DEF Disks

LEMMA SectorChanged ==
  ASSUME NEW d \in Disks, NEW s, NEW b \in EndedSectors,
         NEW e, e = [d EXCEPT !.sector[s] = b]
  PROVE  e \in Disks /\ e.used = d.used /\ e.fp = d.fp /\ e.name = d.name
<1>1. [d.sector EXCEPT ![s] = b] \in [Sector -> EndedSectors]
  BY DiskFields
<1>2. e = [used |-> d.used, fp |-> d.fp, name |-> d.name, sector |-> [d.sector EXCEPT ![s] = b]]
  BY DEF Disks
<1>3. QED
  BY <1>1, <1>2, DiskFields DEF Disks

\* Only the contents of sectors change.
LEMMA DataEffect ==
  ASSUME NEW d, Sound(d), NEW e \in Disks, e.used = d.used, e.fp = d.fp, e.name = d.name
  PROVE  /\ Sound(e) /\ Leaked(e) = Leaked(d)
         /\ \A s : Loose(e, s) <=> Loose(d, s)
         /\ \A i : Free(e, i) <=> Free(d, i)
BY DEF Sound, Leaked, NamedIn, Loose, Free

-----------------------------------------------------------------------------
(* A sector that is read, changed and written back *)

\* what WriteIB and WriteNames make of disk d
WithBlock(d, b, c) == [d EXCEPT !.used = (@ \ BlockSectors(b)) \cup c.used,
                                !.fp = [i \in Slot |-> IF i \in BlockSlots(b)
                                                       THEN c.fp[i] ELSE @[i]]]
WithNames(d, c) == [d EXCEPT !.name = [i \in Slot |-> IF i \in DOMAIN c THEN c[i] ELSE @[i]]]

\* a sector marked or unmarked, a pointer and a name set, by one shell alone
ToggledIn(d, s)    == WithBlock(d, BlockOf(s),
                        [IndexBlock(d, BlockOf(s)) EXCEPT !.used = toggled(@, s)])
PointedTo(d, i, t) == WithBlock(d, i \div PerBlock,
                        [IndexBlock(d, i \div PerBlock) EXCEPT !.fp[i] = t])
NamedAs(d, i, n)   == WithNames(d, [NameTable(d, i) EXCEPT ![i] = n])

\* Only the bit of s changes, since the block is still what was read.
LEMMA ToggleWritten ==
  ASSUME NEW d \in Disks, NEW s \in 1 .. Size-1
  PROVE  /\ ToggledIn(d, s) \in Disks /\ ToggledIn(d, s).used = toggled(d.used, s)
         /\ ToggledIn(d, s).fp = d.fp /\ ToggledIn(d, s).name = d.name
<1> DEFINE b == BlockOf(s)
           e == ToggledIn(d, s)
           c == IndexBlock(d, b)
           w == [c EXCEPT !.used = toggled(@, s)]
           U == (d.used \ BlockSectors(b)) \cup w.used
           F == [i \in Slot |-> IF i \in BlockSlots(b) THEN w.fp[i] ELSE d.fp[i]]
<1>1. s \in BlockSectors(b)
  BY SectorInBlock
<1>2. /\ w.used = toggled(d.used \cap BlockSectors(b), s)
      /\ w.fp = [i \in BlockSlots(b) |-> d.fp[i]]
  BY DEF IndexBlock
<1>3. e = NewTables(d, U, F)
  BY DEF ToggledIn, WithBlock, NewTables
<1> HIDE DEF b, w
<1>4. U = toggled(d.used, s)
  BY <1>1, <1>2 DEF toggled
<1>5. F = d.fp
  BY <1>2, DiskFields
<1>6. U \in SUBSET (1 .. Size-1)
  BY <1>4, DiskFields DEF toggled
<1>7. F \in [Slot -> Sector]
  BY <1>5, DiskFields
<1> HIDE DEF U, F
<1>8. e \in Disks /\ e.used = U /\ e.fp = F /\ e.name = d.name /\ e.sector = d.sector
  BY <1>3, <1>6, <1>7, BlockChanged
<1>9. QED
  BY <1>4, <1>5, <1>8

\* Only the pointer of slot i changes.
LEMMA PointerWritten ==
  ASSUME NEW d \in Disks, NEW i \in Slot, NEW t \in Sector
  PROVE  /\ PointedTo(d, i, t) \in Disks /\ PointedTo(d, i, t).used = d.used
         /\ PointedTo(d, i, t).fp = [d.fp EXCEPT ![i] = t]
         /\ PointedTo(d, i, t).name = d.name
<1> DEFINE b == i \div PerBlock
           e == PointedTo(d, i, t)
           c == IndexBlock(d, b)
           w == [c EXCEPT !.fp[i] = t]
           U == (d.used \ BlockSectors(b)) \cup w.used
           F == [j \in Slot |-> IF j \in BlockSlots(b) THEN w.fp[j] ELSE d.fp[j]]
<1>1. i \in BlockSlots(b)
  BY SlotInBlock
<1>2. /\ w.used = d.used \cap BlockSectors(b)
      /\ w.fp = [[j \in BlockSlots(b) |-> d.fp[j]] EXCEPT ![i] = t]
  BY DEF IndexBlock
<1>3. e = NewTables(d, U, F)
  BY DEF PointedTo, WithBlock, NewTables
<1> HIDE DEF b, w
<1>4. U = d.used
  BY <1>2
<1>5. F = [d.fp EXCEPT ![i] = t]
  BY <1>1, <1>2, DiskFields
<1>6. U \in SUBSET (1 .. Size-1)
  BY <1>4, DiskFields
<1>7. F \in [Slot -> Sector]
  BY <1>5, DiskFields
<1> HIDE DEF U, F
<1>8. e \in Disks /\ e.used = U /\ e.fp = F /\ e.name = d.name /\ e.sector = d.sector
  BY <1>3, <1>6, <1>7, BlockChanged
<1>9. QED
  BY <1>4, <1>5, <1>8

\* Only the name of slot i changes.
LEMMA NameWritten ==
  ASSUME NEW d \in Disks, NEW i \in Slot, NEW n \in Names \cup {BLANK}
  PROVE  /\ NamedAs(d, i, n) \in Disks /\ NamedAs(d, i, n).used = d.used
         /\ NamedAs(d, i, n).fp = d.fp /\ NamedAs(d, i, n).name = [d.name EXCEPT ![i] = n]
<1> DEFINE e == NamedAs(d, i, n)
           c == NameTable(d, i)
           w == [c EXCEPT ![i] = n]
           N == [j \in Slot |-> IF j \in DOMAIN w THEN w[j] ELSE d.name[j]]
<1>1. i \in NameSector(i)
  BY SlotInNameSector
<1>2. DOMAIN w = NameSector(i) /\ \A j \in NameSector(i) : w[j] = IF j = i THEN n ELSE d.name[j]
  BY <1>1 DEF NameTable
<1>3. e = NewNames(d, N)
  BY DEF NamedAs, WithNames, NewNames
<1> HIDE DEF w
<1>4. N = [d.name EXCEPT ![i] = n]
  BY <1>1, <1>2, DiskFields
<1>5. N \in [Slot -> Names \cup {BLANK}]
  BY <1>4, DiskFields
<1> HIDE DEF N
<1>6. e \in Disks /\ e.used = d.used /\ e.fp = d.fp /\ e.name = N /\ e.sector = d.sector
  BY <1>3, <1>5, NamesChanged
<1>7. QED
  BY <1>4, <1>6

-----------------------------------------------------------------------------
(* What one write changes *)

\* A sector that is free is marked: it becomes one that no file has, and leaks until
\* a name leads to it.
LEMMA MarkEffect ==
  ASSUME NEW d, Sound(d), NEW s \in (1 .. Size-1) \ d.used,
         NEW e, e = ToggledIn(d, s)
  PROVE  /\ Sound(e) /\ Loose(e, s) /\ Leaked(e) \ {s} \subseteq Leaked(d)
         /\ \A i : Free(d, i) => Free(e, i)
<1>1. /\ e \in Disks /\ e.used = d.used \cup {s} /\ e.fp = d.fp /\ e.name = d.name
  BY ToggleWritten DEF Sound, toggled
<1>2. \A i \in Slot : d.fp[i] # s
  BY Geometry DEF Sound, EOC
<1>3. Sound(e)
  BY <1>1 DEF Sound
<1>4. Loose(e, s)
  BY <1>1, <1>2 DEF Sound, Loose
<1>5. Leaked(e) \ {s} \subseteq Leaked(d)
  BY <1>1 DEF Leaked, NamedIn
<1>6. QED
  BY <1>1, <1>3, <1>4, <1>5 DEF Free

LEMMA UnmarkEffect ==
  ASSUME NEW d, Sound(d), NEW s, Loose(d, s), NEW e, e = ToggledIn(d, s)
  PROVE  Sound(e) /\ Leaked(e) \subseteq Leaked(d) \ {s}
<1>1. s \in 1 .. Size-1 /\ s \in d.used /\ d \in Disks
  BY DiskFields DEF Loose, Sound
<1>2. /\ e \in Disks /\ e.used = d.used \ {s} /\ e.fp = d.fp /\ e.name = d.name
  BY <1>1, ToggleWritten DEF toggled
<1>3. Sound(e)
  BY <1>2 DEF Sound, Loose
<1>4. QED
  BY <1>2, <1>3 DEF Leaked, NamedIn

\* A slot without a name is pointed elsewhere.
LEMMA PointerEffect ==
  ASSUME NEW d, Sound(d), NEW i \in Slot, d.name[i] = BLANK, NEW t \in Sector,
         NEW e, e = PointedTo(d, i, t)
  PROVE  /\ e \in Disks /\ e.used = d.used /\ e.name = d.name
         /\ e.fp[i] = t /\ \A j \in Slot \ {i} : e.fp[j] = d.fp[j]
         /\ Leaked(e) = Leaked(d)
<1>1. /\ e \in Disks /\ e.used = d.used /\ e.name = d.name
      /\ e.fp = [d.fp EXCEPT ![i] = t]
  BY PointerWritten DEF Sound
<1>2. e.fp[i] = t /\ \A j \in Slot \ {i} : e.fp[j] = d.fp[j]
  BY <1>1, DiskFields DEF Sound
<1>3. NamedIn(e) = NamedIn(d) /\ i \notin NamedIn(d) /\ NamedIn(d) \subseteq Slot
  BY <1>1 DEF NamedIn
<1>4. \A j \in NamedIn(d) : e.fp[j] = d.fp[j]
  BY <1>2, <1>3
<1>5. Leaked(e) = Leaked(d)
  BY <1>1, <1>3, <1>4 DEF Leaked
<1>6. QED
  BY <1>1, <1>2, <1>5

LEMMA PointEffect ==
  ASSUME NEW d, Sound(d), NEW i, Free(d, i), NEW s, Loose(d, s),
         NEW e, e = PointedTo(d, i, s)
  PROVE  /\ Sound(e) /\ Leaked(e) = Leaked(d) /\ i \in Slot
         /\ e.fp[i] = s /\ s # EOC /\ e.name[i] = BLANK
<1>1. i \in Slot /\ d.fp[i] = EOC /\ d.name[i] = BLANK
  BY DEF Free, Sound
<1>2. s \in d.used \ Metadata /\ s # EOC /\ s \in Sector /\ \A j \in Slot : d.fp[j] # s
  BY DiskFields, Geometry DEF Loose, Sound, EOC
<1>3. /\ e \in Disks /\ e.used = d.used /\ e.name = d.name
      /\ e.fp[i] = s /\ \A j \in Slot \ {i} : e.fp[j] = d.fp[j]
      /\ Leaked(e) = Leaked(d)
  BY <1>1, <1>2, PointerEffect
<1>4. Sound(e)
  BY <1>1, <1>2, <1>3 DEF Sound
<1>5. QED
  BY <1>1, <1>2, <1>3, <1>4

LEMMA UnpointEffect ==
  ASSUME NEW d, Sound(d), NEW i \in Slot, d.name[i] = BLANK,
         NEW e, e = PointedTo(d, i, EOC)
  PROVE  /\ Sound(e) /\ Leaked(e) = Leaked(d)
         /\ d.fp[i] = EOC \/ Loose(e, d.fp[i])
<1>1. EOC \in Sector
  BY Geometry DEF EOC
<1>2. /\ e \in Disks /\ e.used = d.used /\ e.name = d.name
      /\ e.fp[i] = EOC /\ \A j \in Slot \ {i} : e.fp[j] = d.fp[j]
      /\ Leaked(e) = Leaked(d)
  BY <1>1, PointerEffect
<1>3. Sound(e)
  BY <1>2 DEF Sound
<1>4. d.fp[i] = EOC \/ Loose(e, d.fp[i])
  BY <1>2 DEF Sound, Loose
<1>5. QED
  BY <1>2, <1>3, <1>4

LEMMA NameEffect ==
  ASSUME NEW d, Sound(d), NEW i \in Slot, d.fp[i] # EOC, NEW n \in Names,
         NEW e, e = NamedAs(d, i, n)
  PROVE  Sound(e) /\ Leaked(e) \subseteq Leaked(d) \ {d.fp[i]}
<1>1. /\ e \in Disks /\ e.used = d.used /\ e.fp = d.fp
      /\ e.name = [d.name EXCEPT ![i] = n]
  BY NameWritten DEF Sound
<1>2. n # BLANK
  BY DiskAssumption DEF BLANK
<1>3. e.name[i] = n /\ \A j \in Slot \ {i} : e.name[j] = d.name[j]
  BY <1>1, DiskFields DEF Sound
<1>4. Sound(e)
  BY <1>1, <1>3 DEF Sound
<1>5. i \in NamedIn(e) /\ NamedIn(d) \subseteq NamedIn(e)
  BY <1>2, <1>3 DEF NamedIn
<1>6. QED
  BY <1>1, <1>4, <1>5 DEF Leaked

LEMMA UnnameEffect ==
  ASSUME NEW d, Sound(d), NEW i \in Slot, NEW e, e = NamedAs(d, i, BLANK)
  PROVE  /\ Sound(e) /\ e.name[i] = BLANK /\ e.fp = d.fp
         /\ Leaked(e) \ {d.fp[i]} \subseteq Leaked(d)
<1>1. /\ e \in Disks /\ e.used = d.used /\ e.fp = d.fp
      /\ e.name = [d.name EXCEPT ![i] = BLANK]
  BY NameWritten DEF Sound
<1>2. e.name[i] = BLANK /\ \A j \in Slot \ {i} : e.name[j] = d.name[j]
  BY <1>1, DiskFields DEF Sound
<1>3. Sound(e)
  BY <1>1, <1>2 DEF Sound
<1>4. NamedIn(d) \subseteq NamedIn(e) \cup {i}
  BY <1>2 DEF NamedIn
<1>5. Leaked(e) \ {d.fp[i]} \subseteq Leaked(d)
  BY <1>1, <1>4 DEF Leaked
<1>6. QED
  BY <1>1, <1>2, <1>3, <1>5

-----------------------------------------------------------------------------
(* Steps of the shell *)

LEMMA LessLeaks ==
  ASSUME NEW d \in Disks, NEW h, NEW A, A \subseteq Leaked(d) \ {h}, NEW n \in Nat,
         Cardinality(Leaked(d) \ {h}) <= n
  PROVE  Cardinality(A) <= n /\ IsFiniteSet(A)
<1> DEFINE B == Leaked(d) \ {h}
<1>1. IsFiniteSet(B)
  <2>1. B \subseteq d.used
    BY DEF Leaked
  <2>2. QED
    BY <2>1, UsedIsFinite, FS_Subset
<1> HIDE DEF B
<1>2. A \subseteq B /\ Cardinality(B) <= n
  BY DEF B
<1>3. IsFiniteSet(A) /\ Cardinality(A) <= Cardinality(B)
  BY <1>1, <1>2, FS_Subset
<1>4. Cardinality(A) \in Nat /\ Cardinality(B) \in Nat
  BY <1>1, <1>3, FS_CardinalityType
<1>5. QED
  BY <1>2, <1>3, <1>4

\* Sector 0 is never marked, so that a shell with nothing in hand has nothing to lose.
LEMMA NothingInHand ==
  ASSUME NEW d \in Disks PROVE Leaked(d) \ {0} = Leaked(d)
BY DiskFields, Geometry DEF Leaked

\* What there is to show of a step.
LEMMA Stepped ==
  ASSUME NEW p \in Shells, Inv(p), crashes' = crashes,
         Sound(disk'), Table(file_pointers'), Words(last'),
         DOMAIN shell' = Shells, DOMAIN shell'[p] = Fields, shell'[p].offset \in Nat,
         Knows(disk', file_pointers', shell'[p]),
         Leaked(disk') \ {Hand(disk', shell'[p])} \subseteq Leaked(disk) \ {Hand(disk, shell[p])}
  PROVE  Inv(p)'
<1>1. disk \in Disks /\ crashes \in Nat
  BY DEF Inv, Sound
<1>2. Cardinality(Leaked(disk) \ {Hand(disk, shell[p])}) <= crashes
  BY DEF Inv
<1>3. Cardinality(Leaked(disk') \ {Hand(disk', shell'[p])}) <= crashes
  BY <1>1, <1>2, LessLeaks
<1>4. QED
  BY <1>1, <1>3 DEF Inv

\* q is r at another label.
MovedTo(q, r, to) ==
  /\ DOMAIN q = Fields /\ q.at = to /\ q.cmd = r.cmd /\ q.offset = r.offset
  /\ q.name = r.name /\ q.slot = r.slot /\ q.sector = r.sector /\ q.next = r.next
  /\ q.copy = r.copy /\ q.file = r.file

LEMMA Went ==
  ASSUME NEW p \in Shells, DOMAIN shell = Shells, NEW r, DOMAIN r = Fields, NEW to,
         Go(p, r, to)
  PROVE  DOMAIN shell' = Shells /\ MovedTo(shell'[p], r, to)
<1>1. shell'[p] = [r EXCEPT !.at = to] /\ DOMAIN shell' = Shells
  BY DEF Go
<1>2. QED
  BY <1>1 DEF Fields, MovedTo

LEMMA PromptFields ==
  /\ DOMAIN Prompt = Fields /\ Prompt.at = "prompt" /\ Prompt.offset = 0
  /\ \A d, fs : Knows(d, fs, Prompt) /\ Hand(d, Prompt) = 0
<1>1. DOMAIN Prompt = Fields /\ Prompt.at = "prompt" /\ Prompt.offset = 0
  BY DEF Prompt, Fields
<1>2. ASSUME NEW d, NEW fs PROVE Knows(d, fs, Prompt) /\ Hand(d, Prompt) = 0
  BY <1>1 DEF Knows, Hand, Naming, HasFile
<1>3. QED
  BY <1>1, <1>2

\* Back at the prompt with nothing more leaked than there was.
LEMMA IsDone ==
  ASSUME NEW p \in Shells, Inv(p), crashes' = crashes,
         Sound(disk'), Table(file_pointers'), Words(last'), Done(p),
         Leaked(disk') \subseteq Leaked(disk) \ {Hand(disk, shell[p])}
  PROVE  Inv(p)'
<1>1. DOMAIN shell' = Shells /\ shell'[p] = Prompt
  BY DEF Done, Inv
<1>2. QED
  BY <1>1, PromptFields, Stepped

\* A shell at one of these labels has nothing in hand.
LEMMA EmptyHanded ==
  ASSUME NEW d \in Disks, NEW r,
         r.at \notin {"point", "point write", "name", "name write", "unmark", "unmark write",
                      "unpoint", "unpoint write"}
  PROVE  Hand(d, r) = 0 /\ Leaked(d) \ {Hand(d, r)} = Leaked(d)
BY NothingInHand DEF Hand

-----------------------------------------------------------------------------
(* fopen creates a file *)

\* A search for a free slot, and one for a free sector.
LEMMA SearchesFind ==
  /\ find_empty_fspointer(disk) = NONE \/ Free(disk, find_empty_fspointer(disk))
  /\ find_empty_sector(disk) = 0 \/ find_empty_sector(disk) \in (1 .. Size-1) \ disk.used
<1>1. find_empty_fspointer(disk) = NONE \/ Free(disk, find_empty_fspointer(disk))
  <2> DEFINE free == {i \in Slot : disk.fp[i] = EOC}
  <2>1. free # {} => Min(free) \in free
    BY MinFound, Geometry
  <2>2. QED
    BY <2>1 DEF find_empty_fspointer, Free
<1>2. find_empty_sector(disk) = 0 \/ find_empty_sector(disk) \in (1 .. Size-1) \ disk.used
  <2> DEFINE free == 1 .. Size-1 \ disk.used
  <2>1. free \subseteq Nat
    BY Geometry
  <2>2. free # {} => Min(free) \in free
    BY <2>1, MinFound
  <2>3. QED
    BY <2>2 DEF find_empty_sector
<1>3. QED
  BY <1>1, <1>2

LEMMA FindSlotInv == ASSUME NEW p \in Shells, Inv(p), FindSlot(p) PROVE Inv(p)'
<1> DEFINE r == shell[p]
           i == find_empty_fspointer(disk)
           s == [r EXCEPT !.slot = i]
           q == shell'[p]
<1>1. /\ r.at = "create" /\ Go(p, s, "sector")
      /\ disk' = disk /\ file_pointers' = file_pointers /\ last' = last /\ crashes' = crashes
  BY DEF FindSlot, At
<1>2. DOMAIN s = Fields /\ s.slot = i /\ s.name = r.name /\ s.offset = r.offset
  BY DEF Inv, Fields
<1>3. /\ DOMAIN shell' = Shells /\ DOMAIN q = Fields
      /\ q.at = "sector" /\ q.slot = i /\ q.name = r.name /\ q.offset = r.offset
  <2> HIDE DEF s
  <2>1. DOMAIN shell' = Shells /\ MovedTo(q, s, "sector")
    BY <1>1, <1>2, Went DEF Inv
  <2>2. QED
    BY <1>2, <2>1 DEF MovedTo
<1> HIDE DEF s, q
<1>4. r.name \in Names
  BY <1>1 DEF Inv, Knows, Naming
<1>5. Knows(disk, file_pointers, q)
  BY <1>3, <1>4, SearchesFind DEF Knows, Naming, HasFile
<1>6. Leaked(disk) \ {Hand(disk, q)} = Leaked(disk) \ {Hand(disk, r)}
  BY <1>1, <1>3 DEF Hand
<1>7. QED
  BY <1>1, <1>3, <1>5, <1>6, Stepped DEF Inv, q

\* A FILE is added to the table, or there is no room for it.
LEMMA OpenedFits ==
  ASSUME NEW p \in Shells, Inv(p), NEW r, DOMAIN r = Fields, r.slot \in Slot,
         NEW s \in Sector, NEW b \in EndedSectors, Opened(p, r, s, b)
  PROVE  /\ Table(file_pointers')
         /\ DOMAIN shell' = Shells /\ DOMAIN shell'[p] = Fields
         /\ shell'[p].at = "opened" /\ shell'[p].offset = r.offset
         /\ shell'[p].file = NONE \/ shell'[p].file \in DOMAIN file_pointers'
<1> DEFINE free == Handle \ DOMAIN file_pointers
           h == Min(free)
<1>1. CASE free = {}
  <2> DEFINE t == [r EXCEPT !.file = NONE]
  <2>1. Go(p, t, "opened") /\ UNCHANGED file_pointers
    BY <1>1 DEF Opened
  <2>2. DOMAIN t = Fields /\ t.file = NONE /\ t.offset = r.offset
    BY DEF Fields
  <2> HIDE DEF t
  <2>3. /\ DOMAIN shell' = Shells /\ DOMAIN shell'[p] = Fields
        /\ shell'[p].at = "opened" /\ shell'[p].offset = r.offset /\ shell'[p].file = NONE
    <3>1. DOMAIN shell' = Shells /\ MovedTo(shell'[p], t, "opened")
      BY <2>1, <2>2, Went DEF Inv
    <3>2. QED
      BY <2>2, <3>1 DEF MovedTo
  <2>4. Table(file_pointers')
    BY <2>1 DEF Inv, Table
  <2>5. QED
    BY <2>3, <2>4
<1>2. CASE free # {}
  <2> DEFINE t == [r EXCEPT !.file = h]
             new == [by |-> p, slot |-> r.slot, bufsect |-> s, offset |-> 0, buffer |-> b]
  <2>1. /\ Go(p, t, "opened")
        /\ file_pointers' = [x \in DOMAIN file_pointers \cup {h} |->
                               IF x # h THEN file_pointers[x] ELSE new]
    BY <1>2 DEF Opened
  <2>2. h \in Handle
    <3>1. free \subseteq Nat
      BY ShellAssumption DEF Handle
    <3>2. QED
      BY <1>2, <3>1, MinFound
  <2>3. DOMAIN t = Fields /\ t.file = h /\ t.offset = r.offset
    BY DEF Fields
  <2> HIDE DEF t
  <2>4. /\ DOMAIN shell' = Shells /\ DOMAIN shell'[p] = Fields
        /\ shell'[p].at = "opened" /\ shell'[p].offset = r.offset /\ shell'[p].file = h
    <3>1. DOMAIN shell' = Shells /\ MovedTo(shell'[p], t, "opened")
      BY <2>1, <2>3, Went DEF Inv
    <3>2. QED
      BY <2>3, <3>1 DEF MovedTo
  <2>5. new \in FILEs
    BY DEF FILEs
  <2> HIDE DEF h, new
  <2>6. Table(file_pointers')
    BY <2>1, <2>2, <2>5 DEF Inv, Table
  <2>7. QED
    BY <2>1, <2>4, <2>6
<1>3. QED
  BY <1>1, <1>2

\* So a step that ends the opening keeps the invariant, if the disk is as it should be.
LEMMA OpenedInv ==
  ASSUME NEW p \in Shells, Inv(p), NEW r, DOMAIN r = Fields, r.slot \in Slot, r.offset \in Nat,
         NEW s \in Sector, NEW b \in EndedSectors, Opened(p, r, s, b),
         last' = last, crashes' = crashes, Sound(disk'),
         Leaked(disk') \subseteq Leaked(disk) \ {Hand(disk, shell[p])}
  PROVE  Inv(p)'
<1> DEFINE q == shell'[p]
<1>1. /\ Table(file_pointers')
      /\ DOMAIN shell' = Shells /\ DOMAIN q = Fields
      /\ q.at = "opened" /\ q.offset = r.offset
      /\ q.file = NONE \/ q.file \in DOMAIN file_pointers'
  BY OpenedFits
<1> HIDE DEF q
<1>2. Knows(disk', file_pointers', q)
  BY <1>1 DEF Knows, Naming, HasFile
<1>3. Words(last')
  BY DEF Inv
<1>4. QED
  BY <1>1, <1>2, <1>3, Stepped DEF q

LEMMA FindSectorInv == ASSUME NEW p \in Shells, Inv(p), FindSector(p) PROVE Inv(p)'
<1> DEFINE r == shell[p]
           s == find_empty_sector(disk)
           t == [r EXCEPT !.sector = s]
           q == shell'[p]
<1>1. /\ r.at = "sector" /\ r.slot # NONE
      /\ s = 0 => Opened(p, r, 0, BlankSector)
      /\ s # 0 => Go(p, t, "mark") /\ file_pointers' = file_pointers
      /\ disk' = disk /\ last' = last /\ crashes' = crashes
  BY DEF FindSector, At
<1>2. Sound(disk) /\ DOMAIN r = Fields /\ r.offset \in Nat
  BY DEF Inv
<1>3. Free(disk, r.slot) /\ r.name \in Names
  BY <1>1 DEF Inv, Knows, Naming
<1>4. Hand(disk, r) = 0 /\ Leaked(disk) \ {Hand(disk, r)} = Leaked(disk)
  BY <1>1, <1>2, EmptyHanded DEF Sound
<1>5. CASE s = 0
  <2>1. BlankSector \in EndedSectors
    BY DEF BlankSector, EndedSectors
  <2>2. r.slot \in Slot
    BY <1>3 DEF Free
  <2>3. Opened(p, r, 0, BlankSector)
    BY <1>1, <1>5
  <2> HIDE DEF r
  <2>4. QED
    BY <1>1, <1>2, <1>4, <2>1, <2>2, <2>3, Geometry, OpenedInv DEF r
<1>6. CASE s # 0
  <2>1. /\ DOMAIN t = Fields /\ t.sector = s /\ t.slot = r.slot
        /\ t.name = r.name /\ t.offset = r.offset
    BY <1>2 DEF Fields
  <2> HIDE DEF t
  <2>2. /\ DOMAIN shell' = Shells /\ DOMAIN q = Fields
        /\ q.at = "mark" /\ q.slot = r.slot /\ q.sector = s /\ q.name = r.name
        /\ q.offset = r.offset
    <3>1. DOMAIN shell' = Shells /\ MovedTo(q, t, "mark")
      BY <1>1, <1>6, <2>1, Went DEF Inv
    <3>2. QED
      BY <2>1, <3>1 DEF MovedTo
  <2>3. s \in (1 .. Size-1) \ disk.used
    BY <1>6, SearchesFind
  <2> HIDE DEF q, s
  <2>4. Knows(disk, file_pointers, q)
    BY <1>3, <2>2, <2>3 DEF Knows, Naming, HasFile
  <2>5. Hand(disk, q) = Hand(disk, r)
    BY <1>4, <2>2 DEF Hand
  <2>6. QED
    BY <1>1, <1>6, <2>2, <2>4, <2>5, Stepped DEF Inv, q
<1>7. QED
  BY <1>5, <1>6

\* What is read is what the disk has, and it stays so until it is written back.
LEMMA MarkReadInv == ASSUME NEW p \in Shells, Inv(p), MarkRead(p) PROVE Inv(p)'
<1> DEFINE r == shell[p]
           c == IndexBlock(disk, BlockOf(shell[p].sector))
           t == [r EXCEPT !.copy = c]
           q == shell'[p]
<1>1. /\ r.at = "mark" /\ Go(p, t, "mark write")
      /\ disk' = disk /\ file_pointers' = file_pointers /\ last' = last /\ crashes' = crashes
  BY DEF MarkRead, At, ReadIB, IndexBlock
<1> HIDE DEF c
<1>2. /\ DOMAIN t = Fields /\ t.copy = c /\ t.slot = r.slot /\ t.sector = r.sector
      /\ t.name = r.name /\ t.offset = r.offset
  BY DEF Inv, Fields
<1> HIDE DEF t
<1>3. /\ DOMAIN shell' = Shells /\ DOMAIN q = Fields
      /\ q.at = "mark write" /\ q.copy = c /\ q.slot = r.slot /\ q.sector = r.sector
      /\ q.name = r.name /\ q.offset = r.offset
  <2>1. DOMAIN shell = Shells
    BY DEF Inv
  <2>2. DOMAIN shell' = Shells /\ MovedTo(q, t, "mark write")
    BY <1>1, <1>2, <2>1, Went
  <2>3. QED
    BY <1>2, <2>2 DEF MovedTo
<1>4. Free(disk, r.slot) /\ r.sector \in (1 .. Size-1) \ disk.used /\ r.name \in Names
  BY <1>1 DEF Inv, Knows, Naming
<1> HIDE DEF q
<1>5. Knows(disk, file_pointers, q)
  BY <1>3, <1>4 DEF Knows, Naming, HasFile, c
<1>6. Leaked(disk) \ {Hand(disk, q)} = Leaked(disk) \ {Hand(disk, r)}
  BY <1>1, <1>3 DEF Hand
<1>7. QED
  BY <1>1, <1>3, <1>5, <1>6, Stepped DEF Inv, q

LEMMA PointReadInv == ASSUME NEW p \in Shells, Inv(p), PointRead(p) PROVE Inv(p)'
<1> DEFINE r == shell[p]
           c == IndexBlock(disk, shell[p].slot \div PerBlock)
           t == [r EXCEPT !.copy = c]
           q == shell'[p]
<1>1. /\ r.at = "point" /\ Go(p, t, "point write")
      /\ disk' = disk /\ file_pointers' = file_pointers /\ last' = last /\ crashes' = crashes
  BY DEF PointRead, At, ReadIB, IndexBlock
<1> HIDE DEF c
<1>2. /\ DOMAIN t = Fields /\ t.copy = c /\ t.slot = r.slot /\ t.sector = r.sector
      /\ t.name = r.name /\ t.offset = r.offset
  BY DEF Inv, Fields
<1> HIDE DEF t
<1>3. /\ DOMAIN shell' = Shells /\ DOMAIN q = Fields
      /\ q.at = "point write" /\ q.copy = c /\ q.slot = r.slot /\ q.sector = r.sector
      /\ q.name = r.name /\ q.offset = r.offset
  <2>1. DOMAIN shell = Shells
    BY DEF Inv
  <2>2. DOMAIN shell' = Shells /\ MovedTo(q, t, "point write")
    BY <1>1, <1>2, <2>1, Went
  <2>3. QED
    BY <1>2, <2>2 DEF MovedTo
<1>4. Free(disk, r.slot) /\ Loose(disk, r.sector) /\ r.name \in Names
  BY <1>1 DEF Inv, Knows, Naming
<1> HIDE DEF q
<1>5. Knows(disk, file_pointers, q)
  BY <1>3, <1>4 DEF Knows, Naming, HasFile, c
<1>6. Leaked(disk) \ {Hand(disk, q)} = Leaked(disk) \ {Hand(disk, r)}
  BY <1>1, <1>3 DEF Hand
<1>7. QED
  BY <1>1, <1>3, <1>5, <1>6, Stepped DEF Inv, q

LEMMA NameReadInv == ASSUME NEW p \in Shells, Inv(p), NameRead(p) PROVE Inv(p)'
<1> DEFINE r == shell[p]
           c == NameTable(disk, shell[p].slot)
           t == [r EXCEPT !.copy = c]
           q == shell'[p]
<1>1. /\ r.at = "name" /\ Go(p, t, "name write")
      /\ disk' = disk /\ file_pointers' = file_pointers /\ last' = last /\ crashes' = crashes
  BY DEF NameRead, At, ReadNames, NameTable
<1> HIDE DEF c
<1>2. /\ DOMAIN t = Fields /\ t.copy = c /\ t.slot = r.slot /\ t.sector = r.sector
      /\ t.name = r.name /\ t.offset = r.offset
  BY DEF Inv, Fields
<1> HIDE DEF t
<1>3. /\ DOMAIN shell' = Shells /\ DOMAIN q = Fields
      /\ q.at = "name write" /\ q.copy = c /\ q.slot = r.slot /\ q.sector = r.sector
      /\ q.name = r.name /\ q.offset = r.offset
  <2>1. DOMAIN shell = Shells
    BY DEF Inv
  <2>2. DOMAIN shell' = Shells /\ MovedTo(q, t, "name write")
    BY <1>1, <1>2, <2>1, Went
  <2>3. QED
    BY <1>2, <2>2 DEF MovedTo
<1>4. /\ r.slot \in Slot /\ r.sector # EOC /\ r.name \in Names
      /\ disk.fp[r.slot] = r.sector /\ disk.name[r.slot] = BLANK
  BY <1>1 DEF Inv, Knows, Naming
<1> HIDE DEF q
<1>5. Knows(disk, file_pointers, q)
  BY <1>3, <1>4 DEF Knows, Naming, HasFile, c
<1>6. Leaked(disk) \ {Hand(disk, q)} = Leaked(disk) \ {Hand(disk, r)}
  BY <1>1, <1>3 DEF Hand
<1>7. QED
  BY <1>1, <1>3, <1>5, <1>6, Stepped DEF Inv, q

LEMMA MarkWriteInv == ASSUME NEW p \in Shells, Inv(p), MarkWrite(p) PROVE Inv(p)'
<1> DEFINE r == shell[p]
           t == [r EXCEPT !.copy = <<>>]
           q == shell'[p]
<1>1. /\ r.at = "mark write" /\ Go(p, t, "point")
      /\ disk' = WithBlock(disk, BlockOf(r.sector), [r.copy EXCEPT !.used = toggled(@, r.sector)])
      /\ file_pointers' = file_pointers /\ last' = last /\ crashes' = crashes
  BY DEF MarkWrite, At, WriteIB, WithBlock
<1>2. /\ DOMAIN t = Fields /\ t.slot = r.slot /\ t.sector = r.sector
      /\ t.name = r.name /\ t.offset = r.offset
  BY DEF Inv, Fields
<1> HIDE DEF t
<1>3. /\ DOMAIN shell' = Shells /\ DOMAIN q = Fields
      /\ q.at = "point" /\ q.slot = r.slot /\ q.sector = r.sector
      /\ q.name = r.name /\ q.offset = r.offset
  <2>1. DOMAIN shell = Shells
    BY DEF Inv
  <2>2. DOMAIN shell' = Shells /\ MovedTo(q, t, "point")
    BY <1>1, <1>2, <2>1, Went
  <2>3. QED
    BY <1>2, <2>2 DEF MovedTo
<1> HIDE DEF q
<1>4. Sound(disk) /\ disk \in Disks
  BY DEF Inv, Sound
<1>5. /\ Free(disk, r.slot) /\ r.sector \in (1 .. Size-1) \ disk.used /\ r.name \in Names
      /\ r.copy = IndexBlock(disk, BlockOf(r.sector))
  BY <1>1 DEF Inv, Knows, Naming
<1>6. disk' = ToggledIn(disk, r.sector)
  BY <1>1, <1>5 DEF ToggledIn
<1>7. /\ Sound(disk') /\ Loose(disk', r.sector) /\ Free(disk', r.slot)
      /\ Leaked(disk') \ {r.sector} \subseteq Leaked(disk)
  BY <1>4, <1>5, <1>6, MarkEffect
<1>8. Knows(disk', file_pointers', q)
  BY <1>3, <1>5, <1>7 DEF Knows, Naming, HasFile
<1>9. Leaked(disk') \ {Hand(disk', q)} \subseteq Leaked(disk) \ {Hand(disk, r)}
  <2>1. Leaked(disk) \ {Hand(disk, r)} = Leaked(disk)
    BY <1>1, <1>4, EmptyHanded
  <2>2. Hand(disk', q) = r.sector
    BY <1>3 DEF Hand
  <2>3. QED
    BY <1>7, <2>1, <2>2
<1>10. QED
  BY <1>1, <1>3, <1>7, <1>8, <1>9, Stepped DEF Inv, q

LEMMA PointWriteInv == ASSUME NEW p \in Shells, Inv(p), PointWrite(p) PROVE Inv(p)'
<1> DEFINE r == shell[p]
           t == [r EXCEPT !.copy = <<>>]
           q == shell'[p]
<1>1. /\ r.at = "point write" /\ Go(p, t, "name")
      /\ disk' = WithBlock(disk, r.slot \div PerBlock, [r.copy EXCEPT !.fp[r.slot] = r.sector])
      /\ file_pointers' = file_pointers /\ last' = last /\ crashes' = crashes
  BY DEF PointWrite, At, WriteIB, WithBlock
<1>2. /\ DOMAIN t = Fields /\ t.slot = r.slot /\ t.sector = r.sector
      /\ t.name = r.name /\ t.offset = r.offset
  BY DEF Inv, Fields
<1> HIDE DEF t
<1>3. /\ DOMAIN shell' = Shells /\ DOMAIN q = Fields
      /\ q.at = "name" /\ q.slot = r.slot /\ q.sector = r.sector
      /\ q.name = r.name /\ q.offset = r.offset
  <2>1. DOMAIN shell = Shells
    BY DEF Inv
  <2>2. DOMAIN shell' = Shells /\ MovedTo(q, t, "name")
    BY <1>1, <1>2, <2>1, Went
  <2>3. QED
    BY <1>2, <2>2 DEF MovedTo
<1> HIDE DEF q
<1>4. Sound(disk) /\ disk \in Disks
  BY DEF Inv, Sound
<1>5. /\ Free(disk, r.slot) /\ Loose(disk, r.sector) /\ r.name \in Names
      /\ r.copy = IndexBlock(disk, r.slot \div PerBlock)
  BY <1>1 DEF Inv, Knows, Naming
<1>6. disk' = PointedTo(disk, r.slot, r.sector)
  BY <1>1, <1>5 DEF PointedTo
<1>7. /\ Sound(disk') /\ Leaked(disk') = Leaked(disk) /\ r.slot \in Slot
      /\ disk'.fp[r.slot] = r.sector /\ r.sector # EOC /\ disk'.name[r.slot] = BLANK
  BY <1>4, <1>5, <1>6, PointEffect
<1>8. Knows(disk', file_pointers', q)
  BY <1>3, <1>5, <1>7 DEF Knows, Naming, HasFile
<1>9. Leaked(disk') \ {Hand(disk', q)} \subseteq Leaked(disk) \ {Hand(disk, r)}
  BY <1>1, <1>3, <1>7 DEF Hand
<1>10. QED
  BY <1>1, <1>3, <1>7, <1>8, <1>9, Stepped DEF Inv, q

LEMMA NameWriteInv == ASSUME NEW p \in Shells, Inv(p), NameWrite(p) PROVE Inv(p)'
<1> DEFINE r == shell[p]
           t == [r EXCEPT !.copy = <<>>]
           q == shell'[p]
<1>1. /\ r.at = "name write" /\ Go(p, t, "blank")
      /\ disk' = WithNames(disk, [r.copy EXCEPT ![r.slot] = r.name])
      /\ file_pointers' = file_pointers /\ last' = last /\ crashes' = crashes
  BY DEF NameWrite, At, WriteNames, WithNames
<1>2. /\ DOMAIN t = Fields /\ t.slot = r.slot /\ t.sector = r.sector
      /\ t.name = r.name /\ t.offset = r.offset
  BY DEF Inv, Fields
<1> HIDE DEF t
<1>3. /\ DOMAIN shell' = Shells /\ DOMAIN q = Fields
      /\ q.at = "blank" /\ q.slot = r.slot /\ q.sector = r.sector
      /\ q.name = r.name /\ q.offset = r.offset
  <2>1. DOMAIN shell = Shells
    BY DEF Inv
  <2>2. DOMAIN shell' = Shells /\ MovedTo(q, t, "blank")
    BY <1>1, <1>2, <2>1, Went
  <2>3. QED
    BY <1>2, <2>2 DEF MovedTo
<1> HIDE DEF q
<1>4. Sound(disk) /\ disk \in Disks
  BY DEF Inv, Sound
<1>5. /\ r.slot \in Slot /\ r.sector # EOC /\ r.name \in Names
      /\ disk.fp[r.slot] = r.sector
      /\ r.copy = NameTable(disk, r.slot)
  BY <1>1 DEF Inv, Knows, Naming
<1>6. disk' = NamedAs(disk, r.slot, r.name)
  BY <1>1, <1>5 DEF NamedAs
<1>7. /\ Sound(disk') /\ Leaked(disk') \subseteq Leaked(disk) \ {r.sector}
      /\ r.slot \in Slot /\ r.sector \in Sector
  <2>1. r.sector \in Sector
    BY <1>4, <1>5, DiskFields
  <2>2. QED
    BY <1>4, <1>5, <1>6, <2>1, NameEffect
<1>8. Knows(disk', file_pointers', q)
  BY <1>3, <1>5, <1>7 DEF Knows, Naming, HasFile
<1>9. Leaked(disk') \ {Hand(disk', q)} \subseteq Leaked(disk) \ {Hand(disk, r)}
  <2>1. Hand(disk, r) = r.sector
    BY <1>1 DEF Hand
  <2>2. QED
    BY <1>7, <2>1
<1>10. QED
  BY <1>1, <1>3, <1>7, <1>8, <1>9, Stepped DEF Inv, q

\* The sector becomes a blank one, and the FILE is handed out.
LEMMA BlankInv == ASSUME NEW p \in Shells, Inv(p), Blank(p) PROVE Inv(p)'
<1> DEFINE r == shell[p]
<1>1. /\ r.at = "blank" /\ disk' = [disk EXCEPT !.sector[r.sector] = BlankSector]
      /\ Opened(p, r, r.sector, BlankSector) /\ last' = last /\ crashes' = crashes
  BY DEF Blank, At
<1>2. /\ Sound(disk) /\ disk \in Disks /\ DOMAIN r = Fields /\ r.offset \in Nat
  BY DEF Inv, Sound
<1>3. r.slot \in Slot /\ r.sector \in Sector
  BY <1>1 DEF Inv, Knows
<1>4. BlankSector \in EndedSectors
  BY DEF BlankSector, EndedSectors
<1>5. disk' \in Disks /\ disk'.used = disk.used /\ disk'.fp = disk.fp /\ disk'.name = disk.name
  BY <1>1, <1>2, <1>4, SectorChanged
<1>6. Sound(disk') /\ Leaked(disk') = Leaked(disk)
  BY <1>2, <1>5, DataEffect
<1>7. Leaked(disk) \ {Hand(disk, r)} = Leaked(disk)
  BY <1>1, <1>2, EmptyHanded
<1> HIDE DEF r
<1>8. QED
  BY <1>1, <1>2, <1>3, <1>4, <1>6, <1>7, OpenedInv DEF r

-----------------------------------------------------------------------------
(* fdelete *)

\* A sector of the table of FILEs, or of a chain, is written back.
LEMMA SectorWritten ==
  ASSUME NEW d, Sound(d), NEW s, NEW b \in EndedSectors, NEW e, e = [d EXCEPT !.sector[s] = b]
  PROVE  Sound(e) /\ Leaked(e) = Leaked(d)
<1>1. d \in Disks
  BY DEF Sound
<1>2. e \in Disks /\ e.used = d.used /\ e.fp = d.fp /\ e.name = d.name
  BY <1>1, SectorChanged
<1>3. QED
  BY <1>2, DataEffect

LEMMA rmInv == ASSUME NEW p \in Shells, Inv(p), rm(p) PROVE Inv(p)'
<1> DEFINE r == shell[p]
           i == file_pointers[shell[p].file].slot
           c == NameTable(disk, i)
           t == [r EXCEPT !.slot = i, !.copy = c]
           q == shell'[p]
<1>1. /\ r.at = "opened" /\ r.file # NONE /\ Go(p, t, "unname")
      /\ disk' = disk /\ file_pointers' = file_pointers /\ last' = last /\ crashes' = crashes
  BY DEF rm, At, ReadNames, NameTable
<1>2. i \in Slot
  <2>1. r.file \in DOMAIN file_pointers
    BY <1>1 DEF Inv, Knows
  <2>2. QED
    BY <2>1 DEF Inv, Table, FILEs
<1> HIDE DEF c, i
<1>3. DOMAIN t = Fields /\ t.copy = c /\ t.slot = i /\ t.offset = r.offset
  BY DEF Inv, Fields
<1> HIDE DEF t
<1>4. /\ DOMAIN shell' = Shells /\ DOMAIN q = Fields
      /\ q.at = "unname" /\ q.copy = c /\ q.slot = i /\ q.offset = r.offset
  <2>1. DOMAIN shell = Shells
    BY DEF Inv
  <2>2. DOMAIN shell' = Shells /\ MovedTo(q, t, "unname")
    BY <1>1, <1>3, <2>1, Went
  <2>3. QED
    BY <1>3, <2>2 DEF MovedTo
<1> HIDE DEF q
<1>5. Knows(disk, file_pointers, q)
  BY <1>2, <1>4 DEF Knows, Naming, HasFile, c
<1>6. Leaked(disk) \ {Hand(disk, q)} = Leaked(disk) \ {Hand(disk, r)}
  BY <1>1, <1>4 DEF Hand
<1>7. QED
  BY <1>1, <1>4, <1>5, <1>6, Stepped DEF Inv, q

\* The name goes first, so that the sector leaks for as long as the rest takes.
LEMMA UnnameWriteInv == ASSUME NEW p \in Shells, Inv(p), UnnameWrite(p) PROVE Inv(p)'
<1> DEFINE r == shell[p]
           t == [r EXCEPT !.copy = <<>>]
           q == shell'[p]
<1>1. /\ r.at = "unname" /\ Go(p, t, "unpoint")
      /\ disk' = WithNames(disk, [r.copy EXCEPT ![r.slot] = BLANK])
      /\ file_pointers' = file_pointers /\ last' = last /\ crashes' = crashes
  BY DEF UnnameWrite, At, WriteNames, WithNames
<1>2. /\ DOMAIN t = Fields /\ t.slot = r.slot /\ t.sector = r.sector
      /\ t.name = r.name /\ t.offset = r.offset
  BY DEF Inv, Fields
<1> HIDE DEF t
<1>3. /\ DOMAIN shell' = Shells /\ DOMAIN q = Fields
      /\ q.at = "unpoint" /\ q.slot = r.slot /\ q.offset = r.offset
  <2>1. DOMAIN shell = Shells
    BY DEF Inv
  <2>2. DOMAIN shell' = Shells /\ MovedTo(q, t, "unpoint")
    BY <1>1, <1>2, <2>1, Went
  <2>3. QED
    BY <1>2, <2>2 DEF MovedTo
<1> HIDE DEF q
<1>4. Sound(disk) /\ disk \in Disks
  BY DEF Inv, Sound
<1>5. r.slot \in Slot /\ r.copy = NameTable(disk, r.slot)
  BY <1>1 DEF Inv, Knows, Naming
<1>6. disk' = NamedAs(disk, r.slot, BLANK)
  BY <1>1, <1>5 DEF NamedAs
<1>7. /\ Sound(disk') /\ disk'.name[r.slot] = BLANK /\ disk'.fp = disk.fp
      /\ Leaked(disk') \ {disk.fp[r.slot]} \subseteq Leaked(disk)
  BY <1>4, <1>5, <1>6, UnnameEffect
<1>8. Knows(disk', file_pointers', q)
  BY <1>3, <1>5, <1>7 DEF Knows, Naming, HasFile
<1>9. Leaked(disk') \ {Hand(disk', q)} \subseteq Leaked(disk) \ {Hand(disk, r)}
  <2>1. Leaked(disk) \ {Hand(disk, r)} = Leaked(disk)
    BY <1>1, <1>4, EmptyHanded
  <2>2. Hand(disk', q) = disk.fp[r.slot]
    BY <1>3, <1>7 DEF Hand
  <2>3. QED
    BY <1>7, <2>1, <2>2
<1>10. QED
  BY <1>1, <1>3, <1>7, <1>8, <1>9, Stepped DEF Inv, q

LEMMA UnpointReadInv == ASSUME NEW p \in Shells, Inv(p), UnpointRead(p) PROVE Inv(p)'
<1> DEFINE r == shell[p]
           c == IndexBlock(disk, shell[p].slot \div PerBlock)
           t == [r EXCEPT !.copy = c, !.sector = c.fp[r.slot]]
           q == shell'[p]
<1>1. /\ r.at = "unpoint" /\ Go(p, t, "unpoint write")
      /\ disk' = disk /\ file_pointers' = file_pointers /\ last' = last /\ crashes' = crashes
  BY DEF UnpointRead, At, ReadIB, IndexBlock
<1>2. r.slot \in Slot /\ disk.name[r.slot] = BLANK
  BY <1>1 DEF Inv, Knows
<1>3. c.fp[r.slot] = disk.fp[r.slot]
  BY <1>2, SlotInBlock DEF IndexBlock
<1> HIDE DEF c
<1>4. /\ DOMAIN t = Fields /\ t.copy = c /\ t.slot = r.slot /\ t.sector = disk.fp[r.slot]
      /\ t.offset = r.offset
  BY <1>3 DEF Inv, Fields
<1> HIDE DEF t
<1>5. /\ DOMAIN shell' = Shells /\ DOMAIN q = Fields
      /\ q.at = "unpoint write" /\ q.copy = c /\ q.slot = r.slot
      /\ q.sector = disk.fp[r.slot] /\ q.offset = r.offset
  <2>1. DOMAIN shell = Shells
    BY DEF Inv
  <2>2. DOMAIN shell' = Shells /\ MovedTo(q, t, "unpoint write")
    BY <1>1, <1>4, <2>1, Went
  <2>3. QED
    BY <1>4, <2>2 DEF MovedTo
<1> HIDE DEF q
<1>6. Knows(disk, file_pointers, q)
  BY <1>2, <1>5 DEF Knows, Naming, HasFile, c
<1>7. Leaked(disk) \ {Hand(disk, q)} = Leaked(disk) \ {Hand(disk, r)}
  BY <1>1, <1>5 DEF Hand
<1>8. QED
  BY <1>1, <1>5, <1>6, <1>7, Stepped DEF Inv, q

LEMMA UnpointWriteInv == ASSUME NEW p \in Shells, Inv(p), UnpointWrite(p) PROVE Inv(p)'
<1> DEFINE r == shell[p]
           t == [r EXCEPT !.copy = <<>>]
           q == shell'[p]
<1>1. /\ r.at = "unpoint write" /\ Go(p, t, "unmark")
      /\ disk' = WithBlock(disk, r.slot \div PerBlock, [r.copy EXCEPT !.fp[r.slot] = EOC])
      /\ file_pointers' = file_pointers /\ last' = last /\ crashes' = crashes
  BY DEF UnpointWrite, At, WriteIB, WithBlock
<1>2. DOMAIN t = Fields /\ t.sector = r.sector /\ t.offset = r.offset
  BY DEF Inv, Fields
<1> HIDE DEF t
<1>3. /\ DOMAIN shell' = Shells /\ DOMAIN q = Fields
      /\ q.at = "unmark" /\ q.sector = r.sector /\ q.offset = r.offset
  <2>1. DOMAIN shell = Shells
    BY DEF Inv
  <2>2. DOMAIN shell' = Shells /\ MovedTo(q, t, "unmark")
    BY <1>1, <1>2, <2>1, Went
  <2>3. QED
    BY <1>2, <2>2 DEF MovedTo
<1> HIDE DEF q
<1>4. Sound(disk) /\ disk \in Disks
  BY DEF Inv, Sound
<1>5. /\ r.slot \in Slot /\ disk.name[r.slot] = BLANK /\ r.sector = disk.fp[r.slot]
      /\ r.copy = IndexBlock(disk, r.slot \div PerBlock)
  BY <1>1 DEF Inv, Knows, Naming
<1>6. disk' = PointedTo(disk, r.slot, EOC)
  BY <1>1, <1>5 DEF PointedTo
<1>7. /\ Sound(disk') /\ Leaked(disk') = Leaked(disk)
      /\ r.sector = EOC \/ Loose(disk', r.sector)
  BY <1>4, <1>5, <1>6, UnpointEffect
<1>8. Knows(disk', file_pointers', q)
  BY <1>3, <1>7 DEF Knows, Naming, HasFile
<1>9. Leaked(disk') \ {Hand(disk', q)} \subseteq Leaked(disk) \ {Hand(disk, r)}
  BY <1>1, <1>3, <1>5, <1>7 DEF Hand
<1>10. QED
  BY <1>1, <1>3, <1>7, <1>8, <1>9, Stepped DEF Inv, q

LEMMA UnmarkReadInv == ASSUME NEW p \in Shells, Inv(p), UnmarkRead(p) PROVE Inv(p)'
<1> DEFINE r == shell[p]
           c == IndexBlock(disk, BlockOf(shell[p].sector))
           n == disk.sector[shell[p].sector].next
           t == [r EXCEPT !.next = n, !.copy = c]
           q == shell'[p]
<1>1. /\ r.at = "unmark" /\ r.sector # EOC /\ Go(p, t, "unmark write")
      /\ disk' = disk /\ file_pointers' = file_pointers /\ last' = last /\ crashes' = crashes
  BY DEF UnmarkRead, At, ReadIB, IndexBlock
<1>2. Loose(disk, r.sector)
  BY <1>1 DEF Inv, Knows
<1>3. n = EOC
  <2>1. disk \in Disks
    BY DEF Inv, Sound
  <2>2. r.sector \in Sector
    BY <1>2, <2>1, DiskFields, Geometry DEF Loose
  <2>3. disk.sector[r.sector] \in EndedSectors
    BY <2>1, <2>2, DiskFields
  <2>4. QED
    BY <2>3 DEF EndedSectors
<1> HIDE DEF c, n
<1>4. /\ DOMAIN t = Fields /\ t.copy = c /\ t.next = n /\ t.sector = r.sector
      /\ t.offset = r.offset
  BY DEF Inv, Fields
<1> HIDE DEF t
<1>5. /\ DOMAIN shell' = Shells /\ DOMAIN q = Fields
      /\ q.at = "unmark write" /\ q.copy = c /\ q.next = n /\ q.sector = r.sector
      /\ q.offset = r.offset
  <2>1. DOMAIN shell = Shells
    BY DEF Inv
  <2>2. DOMAIN shell' = Shells /\ MovedTo(q, t, "unmark write")
    BY <1>1, <1>4, <2>1, Went
  <2>3. QED
    BY <1>4, <2>2 DEF MovedTo
<1> HIDE DEF q
<1>6. Knows(disk, file_pointers, q)
  BY <1>2, <1>3, <1>5 DEF Knows, Naming, HasFile, c
<1>7. Leaked(disk) \ {Hand(disk, q)} = Leaked(disk) \ {Hand(disk, r)}
  BY <1>1, <1>5 DEF Hand
<1>8. QED
  BY <1>1, <1>5, <1>6, <1>7, Stepped DEF Inv, q

LEMMA UnmarkWriteInv == ASSUME NEW p \in Shells, Inv(p), UnmarkWrite(p) PROVE Inv(p)'
<1> DEFINE r == shell[p]
           t == [r EXCEPT !.sector = r.next, !.copy = <<>>]
           q == shell'[p]
<1>1. /\ r.at = "unmark write" /\ Go(p, t, "unmark")
      /\ disk' = WithBlock(disk, BlockOf(r.sector), [r.copy EXCEPT !.used = toggled(@, r.sector)])
      /\ file_pointers' = file_pointers /\ last' = last /\ crashes' = crashes
  BY DEF UnmarkWrite, At, WriteIB, WithBlock
<1>2. DOMAIN t = Fields /\ t.sector = r.next /\ t.offset = r.offset
  BY DEF Inv, Fields
<1> HIDE DEF t
<1>3. /\ DOMAIN shell' = Shells /\ DOMAIN q = Fields
      /\ q.at = "unmark" /\ q.sector = r.next /\ q.offset = r.offset
  <2>1. DOMAIN shell = Shells
    BY DEF Inv
  <2>2. DOMAIN shell' = Shells /\ MovedTo(q, t, "unmark")
    BY <1>1, <1>2, <2>1, Went
  <2>3. QED
    BY <1>2, <2>2 DEF MovedTo
<1> HIDE DEF q
<1>4. Sound(disk) /\ disk \in Disks
  BY DEF Inv, Sound
<1>5. /\ Loose(disk, r.sector) /\ r.next = EOC
      /\ r.copy = IndexBlock(disk, BlockOf(r.sector))
  BY <1>1 DEF Inv, Knows, Naming
<1>6. disk' = ToggledIn(disk, r.sector)
  BY <1>1, <1>5 DEF ToggledIn
<1>7. Sound(disk') /\ Leaked(disk') \subseteq Leaked(disk) \ {r.sector}
  BY <1>4, <1>5, <1>6, UnmarkEffect
<1>8. Knows(disk', file_pointers', q)
  BY <1>3, <1>5 DEF Knows, Naming, HasFile
<1>9. Leaked(disk') \ {Hand(disk', q)} \subseteq Leaked(disk) \ {Hand(disk, r)}
  <2>1. Hand(disk, r) = r.sector
    BY <1>1 DEF Hand
  <2>2. QED
    BY <1>7, <2>1
<1>10. QED
  BY <1>1, <1>3, <1>7, <1>8, <1>9, Stepped DEF Inv, q

LEMMA Released == ASSUME NEW h, Table(file_pointers), Release(h) PROVE Table(file_pointers')
BY DEF Table, Release

LEMMA DeletedInv == ASSUME NEW p \in Shells, Inv(p), Deleted(p) PROVE Inv(p)'
<1> DEFINE r == shell[p]
<1>1. /\ r.at = "unmark" /\ r.sector = 0 /\ Release(r.file) /\ Done(p)
      /\ disk' = disk /\ last' = last /\ crashes' = crashes
  BY DEF Deleted, At, EOC
<1>2. Table(file_pointers')
  BY <1>1, Released DEF Inv
<1>3. Leaked(disk) \ {Hand(disk, r)} = Leaked(disk)
  <2>1. Hand(disk, r) = 0
    BY <1>1 DEF Hand
  <2>2. QED
    BY <2>1, NothingInHand DEF Inv, Sound
<1>4. QED
  BY <1>1, <1>2, <1>3, IsDone DEF Inv

-----------------------------------------------------------------------------
(* The command line, and fopen *)

\* A step that only goes on to another label of those where the disk does not matter.
LEMMA GoesOn ==
  ASSUME NEW p \in Shells, Inv(p), NEW t, DOMAIN t = Fields, t.offset \in Nat,
         NEW to, Go(p, t, to), Table(file_pointers'), Words(last'), crashes' = crashes,
         \/ to = "word" /\ t.file = NONE
         \/ to = "open" /\ t.file = NONE /\ t.name \in Names
         \/ to = "create" /\ t.name \in Names
         \/ to = "opened" /\ (t.file = NONE \/ t.file \in DOMAIN file_pointers')
         \/ to \in HasFile /\ t.file \in DOMAIN file_pointers',
         Sound(disk'), Leaked(disk') \subseteq Leaked(disk) \ {Hand(disk, shell[p])}
  PROVE  Inv(p)'
<1> DEFINE q == shell'[p]
<1>1. DOMAIN shell' = Shells /\ MovedTo(q, t, to)
  <2>1. DOMAIN shell = Shells
    BY DEF Inv
  <2>2. QED
    BY <2>1, Went
<1> HIDE DEF q
<1>2. /\ DOMAIN q = Fields /\ q.at = to /\ q.offset = t.offset /\ q.name = t.name
      /\ q.file = t.file
  BY <1>1 DEF MovedTo
<1>3. Knows(disk', file_pointers', q)
  BY <1>2 DEF Knows, Naming, HasFile
<1>4. QED
  BY <1>1, <1>2, <1>3, Stepped DEF q

LEMMA CommandInv == ASSUME NEW p \in Shells, Inv(p), Command(p) PROVE Inv(p)'
<1>1. PICK cmd \in {"touch", "rm", "cat", "write"}, n \in Names, k \in 0 .. MaxLength :
        /\ last' = IF k = 0 THEN << <<"name", n>> >> ELSE << <<"offset", k>>, <<"name", n>> >>
        /\ Go(p, [Prompt EXCEPT !.cmd = cmd], "word")
  BY DEF Command
<1>2. /\ shell[p].at = "prompt" /\ disk' = disk /\ file_pointers' = file_pointers
      /\ crashes' = crashes
  BY DEF Command, At
<1> DEFINE t == [Prompt EXCEPT !.cmd = cmd]
<1>3. DOMAIN t = Fields /\ t.offset = 0 /\ t.file = NONE
  BY DEF Prompt, Fields
<1>4. Go(p, t, "word")
  BY <1>1
<1> HIDE DEF t
<1>5. Words(last')
  BY <1>1, ShellAssumption DEF Words
<1>6. Leaked(disk) \ {Hand(disk, shell[p])} = Leaked(disk)
  BY <1>2, EmptyHanded DEF Inv, Sound
<1>7. QED
  BY <1>2, <1>3, <1>4, <1>5, <1>6, GoesOn DEF Inv

\* Whatever line the words are of, they are a name, or an offset and a name.
LEMMA strtokInv == ASSUME NEW p \in Shells, Inv(p), strtok(p) PROVE Inv(p)'
<1> DEFINE r == shell[p]
           word == Head(last)
<1>1. /\ r.at = "word" /\ disk' = disk /\ file_pointers' = file_pointers /\ crashes' = crashes
      /\ last' = IF last = <<>> THEN last ELSE Tail(last)
  BY DEF strtok, At
<1>2. r.file = NONE /\ r.offset \in Nat /\ DOMAIN r = Fields
  BY <1>1 DEF Inv, Knows
<1>3. Leaked(disk) \ {Hand(disk, r)} = Leaked(disk)
  BY <1>1, EmptyHanded DEF Inv, Sound
<1>4. Sound(disk') /\ Table(file_pointers') /\ Leaked(disk') \subseteq Leaked(disk) \ {Hand(disk, r)}
  BY <1>1, <1>3 DEF Inv
<1>5. Words(last)
  BY DEF Inv
<1>6. CASE Done(p) /\ Words(last')
  BY <1>1, <1>4, <1>6, IsDone
<1>7. CASE last = <<>>
  <2>1. Done(p) /\ last' = last
    BY <1>1, <1>7 DEF strtok
  <2>2. QED
    BY <1>5, <1>6, <2>1
<1>8. CASE \E n \in Names : last = << <<"name", n>> >>
  <2>1. PICK n \in Names : last = << <<"name", n>> >>
    BY <1>8
  <2>2. last # <<>> /\ word[1] = "name" /\ word[2] = n /\ Tail(last) = <<>>
    BY <2>1
  <2>3. last' = <<>>
    BY <1>1, <2>2
  <2> DEFINE t == [r EXCEPT !.name = n]
  <2>4. Go(p, t, "open")
    BY <2>2 DEF strtok
  <2>5. DOMAIN t = Fields /\ t.offset = r.offset /\ t.file = NONE /\ t.name = n
    BY <1>2 DEF Fields
  <2>6. Words(last')
    BY <2>3 DEF Words
  <2> HIDE DEF t, r
  <2>7. QED
    BY <1>1, <1>2, <1>4, <2>4, <2>5, <2>6, GoesOn DEF r
<1>9. CASE \E n \in Names, k \in Nat : last = << <<"offset", k>>, <<"name", n>> >>
  <2>1. PICK n \in Names, k \in Nat : last = << <<"offset", k>>, <<"name", n>> >>
    BY <1>9
  <2>2. /\ last # <<>> /\ word[1] = "offset" /\ word[2] = k
        /\ Tail(last) = << <<"name", n>> >> /\ "offset" # "name"
    BY <2>1
  <2>3. last' = << <<"name", n>> >>
    BY <1>1, <2>2
  <2>4. Words(last')
    BY <2>3 DEF Words
  <2> DEFINE t == [r EXCEPT !.offset = k]
  <2>5. Done(p) \/ Go(p, t, "word")
    BY <2>2 DEF strtok
  <2>6. DOMAIN t = Fields /\ t.offset = k /\ t.file = NONE
    BY <1>2 DEF Fields
  <2> HIDE DEF t, r
  <2>7. QED
    BY <1>1, <1>2, <1>4, <1>6, <2>4, <2>5, <2>6, GoesOn DEF r
<1>10. QED
  BY <1>5, <1>7, <1>8, <1>9 DEF Words

LEMMA fopenInv == ASSUME NEW p \in Shells, Inv(p), fopen(p) PROVE Inv(p)'
<1> DEFINE r == shell[p]
<1>1. /\ r.at = "open" /\ disk' = disk /\ last' = last /\ crashes' = crashes
      /\ \/ \E i \in Slot :
              Opened(p, [r EXCEPT !.slot = i], disk.fp[i], disk.sector[disk.fp[i]])
         \/ (Go(p, r, "opened") \/ Go(p, r, "create")) /\ file_pointers' = file_pointers
  BY DEF fopen, At
<1>2. /\ r.file = NONE /\ r.name \in Names /\ r.offset \in Nat /\ DOMAIN r = Fields
      /\ Words(last') /\ Sound(disk) /\ disk \in Disks
  BY <1>1 DEF Inv, Knows, Naming, Sound
<1>3. Leaked(disk) \ {Hand(disk, r)} = Leaked(disk)
  BY <1>1, <1>2, EmptyHanded
<1>4. ASSUME NEW i \in Slot, Opened(p, [r EXCEPT !.slot = i], disk.fp[i], disk.sector[disk.fp[i]])
      PROVE  Inv(p)'
  <2> DEFINE t == [r EXCEPT !.slot = i]
             s == disk.fp[i]
             b == disk.sector[s]
  <2>2. s \in Sector /\ b \in EndedSectors
    BY <1>2, DiskFields
  <2>3. DOMAIN t = Fields /\ t.slot = i /\ t.offset = r.offset
    BY <1>2 DEF Fields
  <2>4. Opened(p, t, s, b)
    BY <1>4
  <2> HIDE DEF t, s, b
  <2>5. t.slot \in Slot /\ t.offset \in Nat
    BY <1>2, <2>3
  <2>6. Sound(disk') /\ Leaked(disk') \subseteq Leaked(disk) \ {Hand(disk, shell[p])}
    BY <1>1, <1>2, <1>3
  <2>7. QED
    BY <1>1, <2>2, <2>3, <2>4, <2>5, <2>6, OpenedInv
<1>5. CASE (Go(p, r, "opened") \/ Go(p, r, "create")) /\ file_pointers' = file_pointers
  <2>1. /\ Table(file_pointers') /\ Sound(disk')
        /\ Leaked(disk') \subseteq Leaked(disk) \ {Hand(disk, r)}
    BY <1>1, <1>2, <1>3, <1>5 DEF Inv
  <2> HIDE DEF r
  <2>2. QED
    BY <1>1, <1>2, <1>5, <2>1, GoesOn DEF r
<1>6. QED
  BY <1>1, <1>4, <1>5

-----------------------------------------------------------------------------
(* What the commands do with the file *)

\* A shell that has opened a file, or failed to.
LEMMA UsesFile ==
  ASSUME NEW p \in Shells, Inv(p), shell[p].at = "opened" \/ shell[p].at \in HasFile,
         shell[p].file # NONE \/ shell[p].at # "opened"
  PROVE  /\ shell[p].file \in DOMAIN file_pointers
         /\ file_pointers[shell[p].file] \in FILEs
BY DEF Inv, Knows, Table

LEMMA HandsEmpty ==
  ASSUME NEW p \in Shells, Inv(p), shell[p].at = "opened" \/ shell[p].at \in HasFile
  PROVE  /\ Leaked(disk) \ {Hand(disk, shell[p])} = Leaked(disk)
         /\ Sound(disk) /\ Table(file_pointers) /\ Words(last) /\ shell[p].offset \in Nat
         /\ DOMAIN shell[p] = Fields
BY EmptyHanded DEF Inv, Sound, HasFile

LEMMA FailedInv == ASSUME NEW p \in Shells, Inv(p), Failed(p) PROVE Inv(p)'
<1>1. /\ shell[p].at = "opened" /\ Done(p)
      /\ disk' = disk /\ file_pointers' = file_pointers /\ last' = last /\ crashes' = crashes
  BY DEF Failed, At
<1>2. QED
  BY <1>1, HandsEmpty, IsDone

LEMMA touchInv == ASSUME NEW p \in Shells, Inv(p), touch(p) PROVE Inv(p)'
<1>1. /\ shell[p].at = "opened" /\ shell[p].file # NONE /\ Go(p, shell[p], "close")
      /\ disk' = disk /\ file_pointers' = file_pointers /\ last' = last /\ crashes' = crashes
  BY DEF touch, At
<1>2. shell[p].file \in DOMAIN file_pointers' /\ "close" \in HasFile
  BY <1>1, UsesFile DEF HasFile
<1>3. QED
  BY <1>1, <1>2, HandsEmpty, GoesOn

LEMMA EndOfInputInv == ASSUME NEW p \in Shells, Inv(p), EndOfInput(p) PROVE Inv(p)'
<1>1. /\ shell[p].at \in HasFile /\ shell[p].at # "opened" /\ Go(p, shell[p], "close")
      /\ disk' = disk /\ file_pointers' = file_pointers /\ last' = last /\ crashes' = crashes
  BY DEF EndOfInput, At, HasFile
<1>2. shell[p].file \in DOMAIN file_pointers' /\ "close" \in HasFile
  BY <1>1, UsesFile DEF HasFile
<1>3. QED
  BY <1>1, <1>2, HandsEmpty, GoesOn

\* The buffer of a FILE is written where it was read from.
LEMMA Flushed ==
  ASSUME NEW d, Sound(d), NEW f \in FILEs, NEW e, e = [d EXCEPT !.sector[f.bufsect] = f.buffer]
  PROVE  Sound(e) /\ Leaked(e) = Leaked(d)
<1>1. f.buffer \in EndedSectors
  BY DEF FILEs
<1>2. QED
  BY <1>1, SectorWritten

LEMMA catInv == ASSUME NEW p \in Shells, Inv(p), cat(p) PROVE Inv(p)'
<1> DEFINE f == file_pointers[shell[p].file]
<1>1. /\ shell[p].at = "opened" /\ shell[p].file # NONE /\ Done(p)
      /\ disk' = disk \/ disk' = [disk EXCEPT !.sector[f.bufsect] = f.buffer]
      /\ file_pointers' = file_pointers /\ last' = last /\ crashes' = crashes
  BY DEF cat, At
<1>2. f \in FILEs
  BY <1>1, UsesFile
<1> HIDE DEF f
<1>3. Sound(disk') /\ Leaked(disk') = Leaked(disk)
  BY <1>1, <1>2, HandsEmpty, Flushed
<1>4. QED
  BY <1>1, <1>3, HandsEmpty, IsDone

LEMMA fcloseInv == ASSUME NEW p \in Shells, Inv(p), fclose(p) PROVE Inv(p)'
<1> DEFINE f == file_pointers[shell[p].file]
<1>1. /\ shell[p].at \in HasFile /\ shell[p].at # "opened" /\ Done(p) /\ Release(shell[p].file)
      /\ disk' = [disk EXCEPT !.sector[f.bufsect] = f.buffer]
      /\ last' = last /\ crashes' = crashes
  BY DEF fclose, At, HasFile
<1>2. f \in FILEs
  BY <1>1, UsesFile
<1> HIDE DEF f
<1>3. Sound(disk') /\ Leaked(disk') = Leaked(disk)
  BY <1>1, <1>2, HandsEmpty, Flushed
<1>4. QED
  BY <1>1, <1>3, HandsEmpty, Released, IsDone

\* A FILE of the table is replaced by another.
LEMMA FileChanged ==
  ASSUME NEW fs, Table(fs), NEW h \in DOMAIN fs, NEW f \in FILEs,
         NEW gs, gs = [fs EXCEPT ![h] = f]
  PROVE  Table(gs) /\ DOMAIN gs = DOMAIN fs
<1>1. DOMAIN gs = DOMAIN fs /\ \A x \in DOMAIN fs : gs[x] = IF x = h THEN f ELSE fs[x]
  OBVIOUS
<1>2. gs = [x \in DOMAIN gs |-> gs[x]]
  OBVIOUS
<1>3. QED
  BY <1>1, <1>2 DEF Table

LEMMA writeInv == ASSUME NEW p \in Shells, Inv(p), write(p) PROVE Inv(p)'
<1> DEFINE r == shell[p]
           h == shell[p].file
           f == file_pointers[h]
           far  == [f EXCEPT !.bufsect = 0, !.buffer = disk.sector[0], !.offset = r.offset]
           near == [f EXCEPT !.offset = r.offset]
<1>1. /\ r.at = "opened" /\ h # NONE /\ last' = last /\ crashes' = crashes
      /\ \/ Done(p) /\ disk' = disk /\ file_pointers' = file_pointers
         \/ /\ disk' = disk \/ disk' = [disk EXCEPT !.sector[f.bufsect] = f.buffer]
            /\ \/ file_pointers' = [file_pointers EXCEPT ![h] = far]
               \/ file_pointers' = [file_pointers EXCEPT ![h] = near]
            /\ Go(p, r, "typing")
  BY DEF write, At
<1>2. h \in DOMAIN file_pointers /\ f \in FILEs
  BY <1>1, UsesFile
<1>3. /\ Leaked(disk) \ {Hand(disk, r)} = Leaked(disk) /\ DOMAIN r = Fields
      /\ Sound(disk) /\ Table(file_pointers) /\ Words(last) /\ r.offset \in Nat
  BY <1>1, HandsEmpty
<1>4. near \in FILEs
  BY <1>2, <1>3 DEF FILEs
<1>5. far \in FILEs
  <2>1. 0 \in Sector /\ disk.sector[0] \in EndedSectors
    BY <1>3, Geometry, DiskFields DEF Sound
  <2>2. QED
    BY <1>2, <1>3, <2>1 DEF FILEs
<1> HIDE DEF near, far, f
<1>6. CASE Done(p) /\ disk' = disk /\ file_pointers' = file_pointers
  BY <1>1, <1>3, <1>6, IsDone
<1>7. CASE /\ disk' = disk \/ disk' = [disk EXCEPT !.sector[f.bufsect] = f.buffer]
           /\ \/ file_pointers' = [file_pointers EXCEPT ![h] = far]
              \/ file_pointers' = [file_pointers EXCEPT ![h] = near]
           /\ Go(p, r, "typing")
  <2>1. Sound(disk') /\ Leaked(disk') = Leaked(disk)
    BY <1>2, <1>3, <1>7, Flushed
  <2>2. Table(file_pointers') /\ h \in DOMAIN file_pointers'
    BY <1>2, <1>3, <1>4, <1>5, <1>7, FileChanged
  <2>3. "typing" \in HasFile
    BY DEF HasFile
  <2>4. QED
    BY <1>1, <1>3, <1>7, <2>1, <2>2, <2>3, GoesOn
<1>8. QED
  BY <1>1, <1>6, <1>7

\* What is typed changes a buffer, and not where the chain of the file goes on.
LEMMA TypeInv == ASSUME NEW p \in Shells, Inv(p), Type(p) PROVE Inv(p)'
<1> DEFINE r == shell[p]
           h == shell[p].file
           f == file_pointers[h]
           at == f.offset % DataLength
<1>1. /\ r.at = "typing" /\ disk' = disk /\ shell' = shell /\ last' = last /\ crashes' = crashes
  BY DEF Type, At
<1>2. h \in DOMAIN file_pointers /\ f \in FILEs /\ Table(file_pointers)
  BY <1>1, UsesFile DEF HasFile, Inv
<1>3. PICK c \in Bytes :
        file_pointers' = [file_pointers EXCEPT
            ![h].buffer.data[at] = c,
            ![h].buffer.count = IF at >= @ THEN @ + 1 ELSE @,
            ![h].offset = @ + 1]
  BY DEF Type
<1> DEFINE b == [f.buffer EXCEPT !.data[at] = c, !.count = IF at >= @ THEN @ + 1 ELSE @]
           g == [f EXCEPT !.buffer = b, !.offset = @ + 1]
<1>4. file_pointers' = [file_pointers EXCEPT ![h] = g]
  BY <1>2, <1>3 DEF FILEs, EndedSectors
<1>5. f.buffer \in EndedSectors /\ f.offset \in Nat
  BY <1>2 DEF FILEs
<1>6. b \in EndedSectors
  <2>1. c \in Nat
    BY DiskAssumption
  <2> DEFINE u == f.buffer
             n == IF at >= u.count THEN u.count + 1 ELSE u.count
             w == [u.data EXCEPT ![at] = c]
  <2>2. b = [u EXCEPT !.data = w, !.count = n]
    OBVIOUS
  <2>3. n \in Nat /\ w \in [0 .. DataLength-1 -> Nat] /\ u \in EndedSectors
    <3>1. u \in EndedSectors
      BY <1>5
    <3> HIDE DEF at, u
    <3>2. u.count \in Nat /\ u.data \in [0 .. DataLength-1 -> Nat]
      BY <3>1 DEF EndedSectors
    <3>3. n \in Nat
      BY <3>2
    <3>4. w \in [0 .. DataLength-1 -> Nat]
      BY <2>1, <3>2
    <3>5. QED
      BY <3>1, <3>3, <3>4
  <2> HIDE DEF b, u, n, w, at
  <2>4. b = [next |-> u.next, count |-> n, data |-> w] /\ u.next = EOC
    BY <2>2, <2>3 DEF EndedSectors
  <2>5. QED
    BY <2>3, <2>4 DEF EndedSectors
<1>7. g \in FILEs
  <2> DEFINE o == f.offset + 1
  <2>1. g = [f EXCEPT !.buffer = b, !.offset = o]
    OBVIOUS
  <2>2. o \in Nat
    BY <1>5
  <2> HIDE DEF b, g, o, f
  <2>3. g = [by |-> f.by, slot |-> f.slot, bufsect |-> f.bufsect, offset |-> o, buffer |-> b]
    BY <1>2, <2>1 DEF FILEs
  <2>4. f.by \in Shells /\ f.slot \in Slot /\ f.bufsect \in Sector
    BY <1>2 DEF FILEs
  <2>5. QED
    BY <1>6, <2>2, <2>3, <2>4 DEF FILEs
<1> HIDE DEF g
<1>8. Table(file_pointers') /\ DOMAIN file_pointers' = DOMAIN file_pointers
  BY <1>2, <1>4, <1>7, FileChanged
<1>9. Knows(disk', file_pointers', shell'[p])
  BY <1>1, <1>2, <1>8 DEF Knows, Naming, HasFile
<1>10. QED
  BY <1>1, <1>8, <1>9, Stepped DEF Inv

-----------------------------------------------------------------------------
(* The machine stops *)

\* One sector more may be lost.
LEMMA OneLost ==
  ASSUME NEW d \in Disks, NEW h, NEW n \in Nat, Cardinality(Leaked(d) \ {h}) <= n
  PROVE  Cardinality(Leaked(d)) <= n + 1 /\ IsFiniteSet(Leaked(d))
<1>1. IsFiniteSet(Leaked(d))
  <2>1. Leaked(d) \subseteq d.used
    BY DEF Leaked
  <2>2. QED
    BY <2>1, UsedIsFinite, FS_Subset
<1> DEFINE L == Leaked(d)
<1> HIDE DEF L
<1>2. IsFiniteSet(L) /\ Cardinality(L) \in Nat
  BY <1>1, FS_CardinalityType DEF L
<1>3. Cardinality(L \ {h}) = IF h \in L THEN Cardinality(L) - 1 ELSE Cardinality(L)
  BY <1>2, FS_RemoveElement
<1>4. Cardinality(L \ {h}) <= n
  BY DEF L
<1>5. Cardinality(L) <= n + 1
  BY <1>2, <1>3, <1>4
<1>6. QED
  BY <1>1, <1>5 DEF L

LEMMA CrashInv == ASSUME NEW p \in Shells, Inv(p), Crash PROVE Inv(p)'
<1>1. /\ crashes' = crashes + 1 /\ file_pointers' = [h \in {} |-> <<>>]
      /\ shell' = [x \in Shells |-> Prompt] /\ last' = <<>> /\ disk' = disk
  BY DEF Crash
<1>2. /\ crashes \in Nat /\ Sound(disk) /\ disk \in Disks
      /\ Cardinality(Leaked(disk) \ {Hand(disk, shell[p])}) <= crashes
  BY DEF Inv, Sound
<1>3. Cardinality(Leaked(disk)) <= crashes + 1
  BY <1>2, OneLost
<1>4. shell'[p] = Prompt /\ DOMAIN shell' = Shells
  BY <1>1
<1>5. Table(file_pointers') /\ Words(last')
  BY <1>1 DEF Table, Words
<1>6. Leaked(disk) \ {Hand(disk, Prompt)} = Leaked(disk)
  BY <1>2, PromptFields, NothingInHand
<1>7. Knows(disk', file_pointers', shell'[p]) /\ Hand(disk', shell'[p]) = Hand(disk, Prompt)
  BY <1>1, <1>4, PromptFields
<1>8. Cardinality(Leaked(disk') \ {Hand(disk', shell'[p])}) <= crashes'
  BY <1>1, <1>3, <1>6, <1>7
<1>9. /\ Sound(disk') /\ crashes' \in Nat /\ DOMAIN shell'[p] = Fields
      /\ shell'[p].offset \in Nat
  BY <1>1, <1>2, <1>4, PromptFields
<1>10. QED
  BY <1>4, <1>5, <1>7, <1>8, <1>9 DEF Inv

LEMMA InitInv == ASSUME NEW p \in Shells, Init PROVE Inv(p)
<1>1. Formatted \in Disks
  <2>1. BootRecord \in EndedSectors /\ BlankSector \in EndedSectors
    BY Geometry DEF BootRecord, BlankSector, EndedSectors
  <2>2. Metadata \in SUBSET (1 .. Size-1) /\ EOC \in Sector
    BY MetadataWithin, Geometry DEF EOC
  <2>3. QED
    BY <2>1, <2>2 DEF Formatted, Disks
<1>2. /\ Formatted.used = Metadata /\ \A i \in Slot : Formatted.fp[i] = EOC
      /\ \A i \in Slot : Formatted.name[i] = BLANK
  BY DEF Formatted
<1>3. Sound(Formatted)
  BY <1>1, <1>2 DEF Sound
<1>4. Leaked(Formatted) = {} /\ Cardinality({}) = 0
  BY <1>2, FS_EmptySet DEF Leaked
<1>5. shell[p] = Prompt /\ DOMAIN shell = Shells /\ crashes = 0 /\ disk = Formatted
  BY DEF Init
<1>6. Table(file_pointers) /\ Words(last)
  BY DEF Init, Table, Words
<1>7. Leaked(disk) \ {Hand(disk, Prompt)} = {}
  BY <1>4, <1>5
<1>8. QED
  BY <1>3, <1>4, <1>5, <1>6, <1>7, PromptFields DEF Inv

-----------------------------------------------------------------------------
(* The theorems *)

LEMMA ShellStep == ASSUME NEW p \in Shells, Shells = {p}, Inv(p), Next PROVE Inv(p)'
<1>1. CASE Crash
  BY <1>1, CrashInv
<1>2. CASE Command(p) \/ strtok(p) \/ fopen(p)
  BY <1>2, CommandInv, strtokInv, fopenInv
<1>3. CASE Create(p)
  BY <1>3, FindSlotInv, FindSectorInv, MarkReadInv, MarkWriteInv, PointReadInv,
     PointWriteInv, NameReadInv, NameWriteInv, BlankInv DEF Create
<1>4. CASE Delete(p)
  BY <1>4, rmInv, UnnameWriteInv, UnpointReadInv, UnpointWriteInv, UnmarkReadInv,
     UnmarkWriteInv, DeletedInv DEF Delete
<1>5. CASE Use(p)
  BY <1>5, FailedInv, touchInv, catInv, writeInv, TypeInv, EndOfInputInv, fcloseInv DEF Use
<1>6. QED
  BY <1>1, <1>2, <1>3, <1>4, <1>5 DEF Next

\* One shell, wherever it is and wherever the machine stops it, keeps the invariant.
THEOREM Invariance == OneShell /\ Spec => []IInv
<1>1. OneShell /\ Init => IInv
  BY InitInv DEF OneShell, IInv
<1>2. IInv /\ [Next]_vars => IInv'
  <2>1. SUFFICES ASSUME IInv, [Next]_vars PROVE IInv'
    OBVIOUS
  <2>2. PICK p \in Shells : Shells = {p} /\ Inv(p)
    BY <2>1 DEF IInv
  <2>3. CASE Next
    BY <2>2, <2>3, ShellStep DEF IInv
  <2>4. CASE UNCHANGED vars
    <3>1. Inv(p)'
      BY <2>2, <2>4 DEF vars, Inv
    <3>2. QED
      BY <2>2, <3>1 DEF IInv
  <2>5. QED
    BY <2>1, <2>3, <2>4
<1>3. QED
  BY <1>1, <1>2, PTL DEF Spec

\* With one shell, the first sector of a file is marked and of no other file, at
\* whatever access the shell is and the machine stopped (_fs_create_file marks before
\* it points, _fs_delete_file unmarks after).
THEOREM PointersStayMarked == OneShell /\ Spec => []PointersMarked
<1>1. IInv => PointersMarked
  BY DEF IInv, Inv, Sound, PointersMarked, Pointed
<1>2. QED
  BY <1>1, Invariance, PTL

\* With one shell, a name that can be found leads to a file at every access, because
\* the name is written last and erased first.
THEOREM NamesAlwaysLead == OneShell /\ Spec => []NamesLeadToFiles
<1>1. IInv => NamesLeadToFiles
  BY DEF IInv, Inv, Sound, NamesLeadToFiles, Named, Pointed
<1>2. QED
  BY <1>1, Invariance, PTL

\* With one shell, a stop of the machine loses at most one sector, and no command
\* loses any: what is marked and of no named file is in the shell's hand or is one
\* for every stop.
THEOREM LeaksAreStops == OneShell /\ Spec => []LeaksOnlyByCrash
<1>1. IInv => LeaksOnlyByCrash
  <2>1. SUFFICES ASSUME IInv PROVE LeaksOnlyByCrash
    OBVIOUS
  <2>2. PICK p \in Shells : Shells = {p} /\ Inv(p)
    BY <2>1 DEF IInv
  <2> DEFINE h == Hand(disk, shell[p])
             away == {x \in Shells : ~At(x, "prompt")}
  <2>3. disk \in Disks /\ crashes \in Nat /\ Cardinality(Leaked(disk) \ {h}) <= crashes
    BY <2>2 DEF Inv, Sound
  <2>4. LeaksOnlyByCrash <=> Cardinality(Leaked(disk)) <= crashes + Cardinality(away)
    BY DEF LeaksOnlyByCrash, Leaked, NamedIn, Named
  <2>5. CASE At(p, "prompt")
    <3>1. Leaked(disk) \ {h} = Leaked(disk)
      BY <2>3, <2>5, EmptyHanded DEF At
    <3>2. away = {} /\ Cardinality({}) = 0
      BY <2>2, <2>5, FS_EmptySet
    <3> HIDE DEF away, h
    <3>3. QED
      BY <2>3, <2>4, <3>1, <3>2
  <2>6. CASE ~At(p, "prompt")
    <3>1. away = {p} /\ Cardinality({p}) = 1
      BY <2>2, <2>6, FS_Singleton
    <3> HIDE DEF away, h
    <3>2. Cardinality(Leaked(disk)) <= crashes + 1
      BY <2>3, OneLost
    <3>3. QED
      BY <2>4, <3>1, <3>2
  <2>7. QED
    BY <2>5, <2>6
<1>2. QED
  BY <1>1, Invariance, PTL

===============================================================================
