------------------------- MODULE AddressSpacesProofs ---------------------------
(***************************************************************************)
(* Theorems about AddressSpaces, for any number of processes, pages and    *)
(* screens, as long as there are enough pages for all processes.           *)
(***************************************************************************)
EXTENDS AddressSpaces, FiniteSetTheorems, TLAPS

Below == {g \in Normal : g < MASK_PAGES}

\* The two parts of the bitmap have no page in common, and the kernel's page
\* directory is in neither.
LEMMA PageFacts ==
  /\ Reserve \subseteq Pages /\ Normal \subseteq Pages /\ Pages \subseteq Nat
  /\ Reserve \cap Normal = {}
  /\ 0 \in Pages \ (Reserve \cup Normal)
  /\ \A g \in Reserve \cup Below : g % MASK_PAGES = g
<1> USE AddressSpacesAssumption DEF Reserve, Normal, Pages, Below
<1>1. Reserve \subseteq Pages /\ Normal \subseteq Pages /\ Pages \subseteq Nat
  OBVIOUS
<1>2. Reserve \cap Normal = {}
  OBVIOUS
<1>3. Reserve # {}
  <2>1. SUFFICES ASSUME Reserve = {} PROVE FALSE
    OBVIOUS
  <2>2. Cardinality(Reserve) = 0
    BY <2>1, FS_EmptySet
  <2>3. STACK_PAGES + 2 * N_PCBS > 0
    OBVIOUS
  <2>4. Cardinality(Reserve) >= STACK_PAGES + 2 * N_PCBS
    BY EnoughPages
  <2>5. QED
    BY <2>2, <2>3, <2>4
<1>4. 0 \in Pages \ (Reserve \cup Normal)
  <2>1. PICK g \in Reserve : TRUE
    BY <1>3
  <2>2. MAX_PAGES > 0 /\ RESERVE_PAGES > 0
    BY <2>1
  <2>3. QED
    BY <2>2
<1>5. \A g \in Reserve \cup Below : g % MASK_PAGES = g
  <2>1. SUFFICES ASSUME NEW g \in Reserve \cup Below PROVE g % MASK_PAGES = g
    OBVIOUS
  <2>2. g \in Nat /\ g < MASK_PAGES
    OBVIOUS
  <2>3. QED
    BY <2>2
<1>6. QED
  BY <1>1, <1>2, <1>4, <1>5

LEMMA FinitePages ==
  /\ IsFiniteSet(Reserve) /\ IsFiniteSet(Normal) /\ IsFiniteSet(Below)
  /\ IsFiniteSet(Slots) /\ Cardinality(Slots) = STACK_PAGES
  /\ IsFiniteSet(Pcbs) /\ Cardinality(Pcbs) = N_PCBS
<1>1. IsFiniteSet(Pages)
  BY FS_Interval, AddressSpacesAssumption DEF Pages
<1>2. IsFiniteSet(Reserve) /\ IsFiniteSet(Normal)
  BY <1>1, PageFacts, FS_Subset
<1>3. IsFiniteSet(Below)
  BY <1>2, FS_Subset DEF Below
<1>4. IsFiniteSet(Slots) /\ Cardinality(Slots) = STACK_PAGES
  BY FS_Interval, AddressSpacesAssumption DEF Slots
<1>5. IsFiniteSet(Pcbs) /\ Cardinality(Pcbs) = N_PCBS
  BY FS_Interval, AddressSpacesAssumption DEF Pcbs
<1>6. QED
  BY <1>2, <1>3, <1>4, <1>5

-----------------------------------------------------------------------------
(***************************************************************************)
(* Counting.                                                               *)
(***************************************************************************)

\* A function has no more values than arguments.
LEMMA FewValues ==
  ASSUME NEW S, IsFiniteSet(S), NEW f, f \in [S -> {f[x] : x \in S}]
  PROVE  /\ IsFiniteSet({f[x] : x \in S})
         /\ Cardinality({f[x] : x \in S}) <= Cardinality(S)
<1>1. f \in Surjection(S, {f[x] : x \in S})
  BY DEF Surjection
<1>2. QED
  BY <1>1, FS_Surjection

\* Taking the elements of U from S leaves at least the difference.
LEMMA Leaves ==
  ASSUME NEW S, NEW U, NEW V, IsFiniteSet(S), IsFiniteSet(U), IsFiniteSet(V),
         S \ U \subseteq V
  PROVE  Cardinality(V) >= Cardinality(S) - Cardinality(U)
<1>1. Cardinality(S \ U) = Cardinality(S) - Cardinality(S \cap U)
  BY FS_Difference
<1>2. Cardinality(S \cap U) <= Cardinality(U)
  BY FS_Intersection
<1>3. Cardinality(S \ U) <= Cardinality(V)
  BY FS_Subset
<1>4. /\ Cardinality(S) \in Nat /\ Cardinality(U) \in Nat /\ Cardinality(V) \in Nat
      /\ Cardinality(S \cap U) \in Nat /\ Cardinality(S \ U) \in Nat
  BY FS_CardinalityType, FS_Intersection, FS_Difference
<1>5. QED
  BY <1>1, <1>2, <1>3, <1>4

\* The union has at most as many elements as the two sets.
LEMMA Both ==
  ASSUME NEW S, NEW T, IsFiniteSet(S), IsFiniteSet(T)
  PROVE  /\ IsFiniteSet(S \cup T)
         /\ Cardinality(S \cup T) \in Nat
         /\ Cardinality(S \cup T) <= Cardinality(S) + Cardinality(T)
<1>1. /\ IsFiniteSet(S \cup T)
      /\ Cardinality(S \cup T) = Cardinality(S) + Cardinality(T) - Cardinality(S \cap T)
  BY FS_Union
<1>2. /\ Cardinality(S) \in Nat /\ Cardinality(T) \in Nat
      /\ Cardinality(S \cap T) \in Nat /\ Cardinality(S \cup T) \in Nat
  BY <1>1, FS_CardinalityType, FS_Intersection
<1>3. QED
  BY <1>1, <1>2

\* While a PCB is not in use there are fewer processes than PCBs.
LEMMA FewerLive ==
  ASSUME NEW L, L \subseteq Pcbs, NEW new \in Pcbs, new \notin L
  PROVE  IsFiniteSet(L) /\ Cardinality(L) \in Nat /\ Cardinality(L) + 1 <= N_PCBS
<1>1. IsFiniteSet(L)
  BY FinitePages, FS_Subset
<1>2. Cardinality(L \cup {new}) = Cardinality(L) + 1
  BY <1>1, FS_AddElement
<1>3. Cardinality(L \cup {new}) <= Cardinality(Pcbs)
  <2>1. L \cup {new} \in SUBSET Pcbs
    OBVIOUS
  <2>2. QED
    BY <2>1, FinitePages, FS_Subset
<1>4. QED
  BY <1>1, <1>2, <1>3, FinitePages, FS_CardinalityType

\* When there are enough pages below the mask in F, searches find no others.
LEMMA SearchesStayBelow ==
  ASSUME NEW F, F \subseteq Normal, Cardinality(F \cap Below) >= STACK_PAGES,
         NEW f \in Searches(F)
  PROVE  \A s \in Slots : f[s] \in F \cap Below
<1>1. SUFFICES ASSUME NEW s \in Slots, f[s] \notin Below PROVE FALSE
  BY DEF Searches
<1> DEFINE earlier == 1 .. s-1
           found == [t \in earlier |-> f[t]]
<1>2. s \in Nat /\ s >= 1 /\ s <= STACK_PAGES /\ earlier \subseteq Slots
  BY AddressSpacesAssumption DEF Slots
<1>3. f[s] \in F /\ f[s] \in Nat /\ f[s] >= MASK_PAGES
  <2>1. f[s] \in F
    BY DEF Searches
  <2>2. f[s] \in Normal /\ f[s] \in Nat
    BY <2>1, PageFacts
  <2>3. ~(f[s] < MASK_PAGES)
    BY <1>1, <2>2 DEF Below
  <2>4. QED
    BY <2>1, <2>2, <2>3, AddressSpacesAssumption
<1>4. F \cap Below \subseteq {found[t] : t \in earlier}
  <2>1. SUFFICES ASSUME NEW g \in F \cap Below PROVE g \in {found[t] : t \in earlier}
    OBVIOUS
  <2>2. g \in F /\ g < f[s]
    BY <1>3, PageFacts, AddressSpacesAssumption DEF Below
  <2>3. PICK t \in Slots : t < s /\ f[t] = g
    BY <2>2 DEF Searches
  <2>4. t \in earlier
    BY <2>3, <1>2 DEF Slots
  <2>5. QED
    BY <2>3, <2>4
<1>5. IsFiniteSet(earlier) /\ Cardinality(earlier) = s - 1
  BY <1>2, FS_Interval
<1>6. /\ IsFiniteSet({found[t] : t \in earlier})
      /\ Cardinality({found[t] : t \in earlier}) <= Cardinality(earlier)
  <2>1. found \in [earlier -> {found[t] : t \in earlier}]
    OBVIOUS
  <2> HIDE DEF found, earlier
  <2>2. QED
    BY <2>1, <1>5, FewValues
<1>7. Cardinality(F \cap Below) <= Cardinality({found[t] : t \in earlier})
  BY <1>4, <1>6, FS_Subset
<1>8. Cardinality(F \cap Below) \in Nat /\ Cardinality({found[t] : t \in earlier}) \in Nat
  BY <1>6, FinitePages, FS_Intersection, FS_CardinalityType
<1>9. QED
  BY <1>2, <1>5, <1>6, <1>7, <1>8, AddressSpacesAssumption

-----------------------------------------------------------------------------
(***************************************************************************)
(* The inductive invariant.                                                *)
(***************************************************************************)

\* the directory and the table of p are in the reserve, its stack below the mask
Placed(p) ==
  /\ pdt[p] \in Reserve
  /\ dir[pdt[p]] \in Reserve
  /\ \A s \in Slots : Translate(pdt[p], s) \in Below

CopiesApart ==
  \A s, t \in Slots : stack_copy_reserve[s] = stack_copy_reserve[t] => s = t

IInv ==
  /\ TypeOK
  /\ NeverPanics
  /\ \A p \in live : Placed(p)
  /\ CopiesApart
  /\ PagesAccountedFor
  /\ NoPageShared

\* a page is free exactly if nothing uses it
Unused(g) ==
  /\ g \in Reserve \cup Normal
  /\ g \notin Copies
  /\ \A p \in live : g \notin Owned(p)

LEMMA FreeIsUnused ==
  ASSUME ~panicked
  PROVE  PagesAccountedFor <=> \A g : g \in free <=> Unused(g)
BY DEF PagesAccountedFor, Unused

\* Fewer than N_PCBS processes leave the pages for another.
LEMMA EnoughFree ==
  ASSUME IInv, NEW new \in Pcbs, new \notin live
  PROVE  ~OutOfPages /\ Cardinality((free \cap Normal) \cap Below) >= STACK_PAGES
<1> DEFINE dirs   == [p \in live |-> pdt[p]]
           tables == [p \in live |-> dir[pdt[p]]]
           stacks == [x \in live \X Slots |-> Translate(pdt[x[1]], x[2])]
           D == {dirs[p] : p \in live}
           T == {tables[p] : p \in live}
           P == {stacks[x] : x \in live \X Slots}
<1> USE DEF IInv
<1>1. IsFiniteSet(live) /\ Cardinality(live) \in Nat /\ Cardinality(live) + 1 <= N_PCBS
  BY FewerLive DEF TypeOK
<1>2. /\ IsFiniteSet(D) /\ Cardinality(D) <= Cardinality(live) /\ Cardinality(D) \in Nat
      /\ IsFiniteSet(T) /\ Cardinality(T) <= Cardinality(live) /\ Cardinality(T) \in Nat
  <2>1. dirs \in [live -> D] /\ tables \in [live -> T]
    OBVIOUS
  <2> HIDE DEF dirs, tables
  <2>2. IsFiniteSet(D) /\ Cardinality(D) <= Cardinality(live)
    BY <1>1, <2>1, FewValues
  <2>3. IsFiniteSet(T) /\ Cardinality(T) <= Cardinality(live)
    BY <1>1, <2>1, FewValues
  <2>4. QED
    BY <2>2, <2>3, FS_CardinalityType
<1>3. /\ IsFiniteSet(P) /\ Cardinality(P) \in Nat
      /\ Cardinality(P) <= Cardinality(live) * STACK_PAGES
  <2>1. /\ IsFiniteSet(live \X Slots)
        /\ Cardinality(live \X Slots) = Cardinality(live) * STACK_PAGES
    BY <1>1, FinitePages, FS_Product
  <2>2. stacks \in [live \X Slots -> P]
    OBVIOUS
  <2> HIDE DEF stacks
  <2>3. IsFiniteSet(P) /\ Cardinality(P) <= Cardinality(live \X Slots)
    BY <2>1, <2>2, FewValues
  <2>4. QED
    BY <2>1, <2>3, FS_CardinalityType
<1>4. /\ IsFiniteSet(Copies) /\ Cardinality(Copies) \in Nat
      /\ Cardinality(Copies) <= STACK_PAGES
  <2>1. stack_copy_reserve \in [Slots -> Copies]
    BY DEF TypeOK, Copies
  <2>2. IsFiniteSet(Copies) /\ Cardinality(Copies) <= STACK_PAGES
    BY <2>1, FinitePages, FewValues DEF Copies
  <2>3. QED
    BY <2>2, FS_CardinalityType
<1>5. \A g : g \in free <=> Unused(g)
  BY FreeIsUnused DEF NeverPanics
<1>6. Reserve \ (Copies \cup (D \cup T)) \subseteq free \cap Reserve
  <2>1. SUFFICES ASSUME NEW g \in Reserve \ (Copies \cup (D \cup T)) PROVE g \in free
    OBVIOUS
  <2>2. \A p \in live : g # pdt[p] /\ g # dir[pdt[p]]
    BY <2>1
  <2>3. \A p \in live : \A s \in Slots : g # Translate(pdt[p], s)
    BY PageFacts DEF Placed, Below
  <2>4. \A p \in live : g \notin Owned(p)
    BY <2>2, <2>3 DEF Owned
  <2>5. QED
    BY <1>5, <2>1, <2>4 DEF Unused
<1>7. Below \ P \subseteq (free \cap Normal) \cap Below
  <2>1. SUFFICES ASSUME NEW g \in Below \ P PROVE g \in free
    BY DEF Below
  <2>2. \A p \in live : \A s \in Slots : g # Translate(pdt[p], s)
    <3>1. SUFFICES ASSUME NEW p \in live, NEW s \in Slots, g = Translate(pdt[p], s)
                   PROVE  FALSE
      OBVIOUS
    <3>2. <<p, s>> \in live \X Slots /\ stacks[<<p, s>>] = g
      BY <3>1
    <3>3. QED
      BY <2>1, <3>2
  <2>3. g \in Normal /\ g \notin Reserve
    BY PageFacts DEF Below
  <2>4. \A p \in live : g \notin Owned(p)
    BY <2>2, <2>3 DEF Owned, Placed
  <2>5. g \notin Copies
    BY <2>3 DEF Copies, TypeOK
  <2>6. QED
    BY <1>5, <2>3, <2>4, <2>5 DEF Unused
<1> HIDE DEF D, T, P
<1>8. Cardinality(free \cap Reserve) \in Nat /\ Cardinality(free \cap Reserve) >= 2
  <2>1. /\ IsFiniteSet(D \cup T) /\ Cardinality(D \cup T) \in Nat
        /\ Cardinality(D \cup T) <= Cardinality(D) + Cardinality(T)
    BY <1>2, Both
  <2>2. /\ IsFiniteSet(Copies \cup (D \cup T))
        /\ Cardinality(Copies \cup (D \cup T)) \in Nat
        /\ Cardinality(Copies \cup (D \cup T)) <= Cardinality(Copies) + Cardinality(D \cup T)
    BY <1>4, <2>1, Both
  <2>3. IsFiniteSet(free \cap Reserve) /\ Cardinality(free \cap Reserve) \in Nat
    BY FinitePages, FS_Intersection, FS_CardinalityType
  <2>4. Cardinality(free \cap Reserve)
          >= Cardinality(Reserve) - Cardinality(Copies \cup (D \cup T))
    BY <1>6, <2>2, <2>3, FinitePages, Leaves
  <2>5. Cardinality(Reserve) \in Nat /\ Cardinality(Reserve) >= STACK_PAGES + 2 * N_PCBS
    BY FinitePages, FS_CardinalityType, EnoughPages
  <2>6. QED
    BY <1>1, <1>2, <1>4, <2>1, <2>2, <2>3, <2>4, <2>5, AddressSpacesAssumption
<1>9. Cardinality((free \cap Normal) \cap Below) >= STACK_PAGES
  <2>1. IsFiniteSet((free \cap Normal) \cap Below)
    BY FinitePages, FS_Intersection
  <2>2. Cardinality((free \cap Normal) \cap Below) >= Cardinality(Below) - Cardinality(P)
    BY <1>3, <1>7, <2>1, FinitePages, Leaves
  <2>3. Cardinality(Below) \in Nat /\ Cardinality(Below) >= STACK_PAGES * N_PCBS
    BY FinitePages, FS_CardinalityType, EnoughPages DEF Below
  <2>4. Cardinality((free \cap Normal) \cap Below) \in Nat
    BY <2>1, FS_CardinalityType
  <2>5. Cardinality(live) * STACK_PAGES + STACK_PAGES <= STACK_PAGES * N_PCBS
    BY <1>1, AddressSpacesAssumption
  <2>6. QED
    BY <1>1, <1>3, <2>2, <2>3, <2>4, <2>5, AddressSpacesAssumption
<1>10. Cardinality(free \cap Normal) \in Nat /\ Cardinality(free \cap Normal) >= STACK_PAGES
  <2>1. IsFiniteSet(free \cap Normal)
    BY FinitePages, FS_Intersection
  <2>2. Cardinality((free \cap Normal) \cap Below) <= Cardinality(free \cap Normal)
    BY <2>1, FS_Intersection
  <2>3. Cardinality((free \cap Normal) \cap Below) \in Nat /\ Cardinality(free \cap Normal) \in Nat
    BY <2>1, FS_Intersection, FS_CardinalityType
  <2>4. QED
    BY <1>9, <2>2, <2>3, AddressSpacesAssumption
<1>11. QED
  BY <1>8, <1>9, <1>10, AddressSpacesAssumption DEF OutOfPages

-----------------------------------------------------------------------------
(***************************************************************************)
(* A new address space.                                                    *)
(***************************************************************************)

\* pages of F that make an address space
Fits(d, t, stack, F) ==
  /\ d \in F \cap Reserve /\ t \in F \cap Reserve /\ d # t
  /\ stack \in [Slots -> F \cap Below]
  /\ \A s, r \in Slots : stack[s] = stack[r] => s = r

LEMMA SearchesApart ==
  ASSUME NEW S, S \subseteq Nat, NEW f \in Searches(S), NEW s \in Slots, NEW t \in Slots,
         f[s] = f[t]
  PROVE  s = t
<1>1. f[s] \in Nat /\ f[t] \in Nat /\ s \in Int /\ t \in Int
  <2>1. f[s] \in S /\ f[t] \in S
    BY DEF Searches
  <2>2. s \in Int /\ t \in Int
    BY DEF Slots
  <2>3. QED
    BY <2>1, <2>2
<1>2. (s < t => f[s] < f[t]) /\ (t < s => f[t] < f[s])
  BY DEF Searches
<1>3. QED
  BY <1>1, <1>2

LEMMA SearchesFit ==
  ASSUME NEW F, F \subseteq Reserve \cup Normal,
         Cardinality((F \cap Normal) \cap Below) >= STACK_PAGES,
         NEW d \in Search(F \cap Reserve), NEW t \in Search((F \cap Reserve) \ {d}),
         NEW stack \in Searches(F \cap Normal)
  PROVE  Fits(d, t, stack, F)
<1>1. d \in F \cap Reserve /\ t \in F \cap Reserve /\ d # t
  BY DEF Search
<1>2. \A s \in Slots : stack[s] \in (F \cap Normal) \cap Below
  BY SearchesStayBelow
<1>3. stack \in [Slots -> F \cap Below]
  BY <1>2 DEF Searches
<1>4. ASSUME NEW s \in Slots, NEW r \in Slots, stack[s] = stack[r] PROVE s = r
  <2>1. F \cap Normal \subseteq Nat
    BY PageFacts
  <2>2. QED
    BY <1>4, <2>1, SearchesApart
<1>5. QED
  BY <1>1, <1>3, <1>4 DEF Fits

LEMMA InitHolds ==
  ASSUME Init
  PROVE  IInv
<1>0. PICK copy \in Searches(Reserve) :
        \E d \in Search(Left(copy) \cap Reserve) :
        \E t \in Search((Left(copy) \cap Reserve) \ {d}),
           stack \in Searches(Left(copy) \cap Normal) : Started(copy, d, t, stack)
  BY DEF Init
<1>1. PICK d \in Search(Left(copy) \cap Reserve) :
        \E t \in Search((Left(copy) \cap Reserve) \ {d}),
           stack \in Searches(Left(copy) \cap Normal) : Started(copy, d, t, stack)
  BY <1>0
<1>2. PICK t \in Search((Left(copy) \cap Reserve) \ {d}),
           stack \in Searches(Left(copy) \cap Normal) : Started(copy, d, t, stack)
  BY <1>1
<1> DEFINE left == Left(copy)
<1>3. copy \in [Slots -> Reserve] /\ \A s, r \in Slots : copy[s] = copy[r] => s = r
  <2>1. Reserve \subseteq Nat
    BY PageFacts
  <2>2. copy \in [Slots -> Reserve]
    BY DEF Searches
  <2>3. QED
    BY <2>1, <2>2, SearchesApart
<1>4. Fits(d, t, stack, left)
  <2>1. (left \cap Normal) \cap Below = Below
    <3>1. \A g \in Below : g \in Normal /\ g \notin Reserve
      BY PageFacts DEF Below
    <3>2. \A g \in Below : g \notin {copy[s] : s \in Slots}
      BY <1>3, <3>1
    <3>3. QED
      BY <3>1, <3>2 DEF Left
  <2>2. Cardinality(Below) \in Nat /\ Cardinality(Below) >= STACK_PAGES * N_PCBS
    BY FinitePages, FS_CardinalityType, EnoughPages DEF Below
  <2>3. STACK_PAGES * N_PCBS >= STACK_PAGES
    BY AddressSpacesAssumption
  <2>4. Cardinality((left \cap Normal) \cap Below) >= STACK_PAGES
    <3>1. STACK_PAGES * N_PCBS \in Int /\ STACK_PAGES \in Int
      BY AddressSpacesAssumption
    <3>2. Cardinality(Below) >= STACK_PAGES
      BY <2>2, <2>3, <3>1
    <3>3. QED
      BY <2>1, <3>2
  <2>5. /\ left \subseteq Reserve \cup Normal /\ d \in Search(left \cap Reserve)
        /\ t \in Search((left \cap Reserve) \ {d}) /\ stack \in Searches(left \cap Normal)
    BY DEF Left
  <2> HIDE DEF left
  <2>6. QED
    BY <2>4, <2>5, SearchesFit
<1>5. /\ d \in Reserve /\ d \in left /\ t \in Reserve /\ t \in left /\ d # t
      /\ stack \in [Slots -> Below] /\ \A s \in Slots : stack[s] \in left
      /\ \A s, r \in Slots : stack[s] = stack[r] => s = r
  <2> HIDE DEF left
  <2>1. QED
    BY <1>4 DEF Fits
<1>6. 1 \in Pcbs /\ 0 \in Values /\ Below \subseteq Normal
  BY AddressSpacesAssumption DEF Pcbs, Below
<1>7. /\ pdt[1] = d /\ dir[pdt[1]] = t
      /\ \A s \in Slots : Translate(pdt[1], s) = stack[s]
  BY <1>2, <1>5, <1>6, PageFacts DEF Started, Translate
<1>8. Owned(1) = Taken(d, t, stack) /\ Copies = {copy[s] : s \in Slots}
  BY <1>2, <1>7 DEF Started, Owned, Copies, Taken
<1>9. TypeOK
  <2>1. free \subseteq Reserve \cup Normal
    BY <1>2 DEF Started, Left
  <2>2. dir \in [Pages -> Pages]
    BY <1>2, <1>5, PageFacts DEF Started, ABSENT
  <2>3. table \in [Pages -> [Slots -> Pages]]
    <3>1. stack \in [Slots -> Pages] /\ [s \in Slots |-> ABSENT] \in [Slots -> Pages]
      BY <1>5, <1>6, PageFacts DEF Started, ABSENT
    <3>2. QED
      BY <1>2, <3>1 DEF Started
  <2>4. content \in [Pages -> Values] /\ pdt \in [Pcbs -> Pages]
    BY <1>2, <1>5, <1>6, PageFacts DEF Started, KERNEL_DIR
  <2>5. stack_copy_reserve \in [Slots -> Reserve]
    BY <1>2, <1>3 DEF Started
  <2>6. live \subseteq Pcbs /\ current \in live \cup {NOBODY} /\ panicked \in BOOLEAN
    BY <1>2, <1>6 DEF Started
  <2>7. cr3 = pdt[current] /\ current # NOBODY
    BY <1>2, <1>7 DEF Started, NOBODY
  <2>8. QED
    BY <2>1, <2>2, <2>3, <2>4, <2>5, <2>6, <2>7 DEF TypeOK
<1>10. NeverPanics /\ CopiesApart
  BY <1>2, <1>3 DEF Started, NeverPanics, CopiesApart
<1>11. \A p \in live : Placed(p)
  BY <1>2, <1>5, <1>7 DEF Started, Placed
<1>12. PagesAccountedFor
  BY <1>2, <1>8 DEF Started, Left, PagesAccountedFor
<1>13. NoPageShared
  <2>1. Owned(1) \cap Copies = {}
    <3>1. \A g \in Copies : g \in Reserve /\ g \notin left
      BY <1>3, <1>8 DEF Left
    <3>2. \A g \in Owned(1) : g \in left
      BY <1>5, <1>8 DEF Taken
    <3>3. QED
      BY <3>1, <3>2
  <2>2. \A s \in Slots : stack[s] # d /\ stack[s] # t
    BY <1>5, <1>6, PageFacts
  <2>3. QED
    BY <1>2, <1>5, <1>7, <2>1, <2>2 DEF Started, NoPageShared
<1>14. QED
  BY <1>9, <1>10, <1>11, <1>12, <1>13 DEF IInv

-----------------------------------------------------------------------------
(***************************************************************************)
(* Steps.                                                                  *)
(***************************************************************************)

\* the step leaves the address space of p as it is
SameSpace(p) ==
  /\ pdt'[p] = pdt[p]
  /\ dir'[pdt[p]] = dir[pdt[p]]
  /\ table'[dir[pdt[p]]] = table[dir[pdt[p]]]

LEMMA SameSpaceFacts ==
  ASSUME NEW p, SameSpace(p)
  PROVE  /\ Owned(p)' = Owned(p)
         /\ Placed(p)' <=> Placed(p)
         /\ \A s \in Slots : Translate(pdt[p], s)' = Translate(pdt[p], s)
BY DEF SameSpace, Owned, Placed, Translate

\* the address space of p is in the pages d, t and stack
InPages(p, d, t, stack) ==
  /\ pdt[p] = d
  /\ dir[pdt[p]] = t
  /\ \A s \in Slots : Translate(pdt[p], s) = stack[s]

LEMMA NewSpaceFacts ==
  ASSUME IInv, NEW new \in Pcbs, new \notin live, NEW d, NEW t, NEW stack,
         Fits(d, t, stack, free), NewSpace(new, d, t, stack)
  PROVE  /\ \A p \in live : SameSpace(p)
         /\ InPages(new, d, t, stack)'
<1> USE DEF IInv
<1>1. /\ pdt \in [Pcbs -> Pages] /\ dir \in [Pages -> Pages]
      /\ table \in [Pages -> [Slots -> Pages]] /\ d \in Pages /\ t \in Pages
  BY PageFacts DEF TypeOK, Fits
<1>2. \A g : g \in free <=> Unused(g)
  BY FreeIsUnused DEF NeverPanics
<1>3. ASSUME NEW p \in live PROVE SameSpace(p)
  <2>1. pdt[p] \in Owned(p) /\ dir[pdt[p]] \in Owned(p)
    BY DEF Owned
  <2>2. pdt[p] # d /\ dir[pdt[p]] # t
    BY <1>2, <2>1 DEF Unused, Fits
  <2>3. p \in Pcbs /\ p # new
    BY DEF TypeOK
  <2>4. QED
    BY <1>1, <2>2, <2>3 DEF NewSpace, SameSpace
<1>4. InPages(new, d, t, stack)'
  <2>1. pdt'[new] = d /\ dir'[d] = t /\ table'[t] = stack
    BY <1>1 DEF NewSpace
  <2>2. QED
    BY <2>1 DEF InPages, Translate
<1>5. QED
  BY <1>3, <1>4

LEMMA ForkKeeps ==
  ASSUME IInv, NEW new \in Pcbs, new \notin live, NEW d, NEW t, NEW stack,
         Fits(d, t, stack, free), NewSpace(new, d, t, stack), current # NOBODY,
         content' \in [Pages -> Values], live' = live \cup {new},
         UNCHANGED <<cr3, current, stack_copy_reserve, panicked>>
  PROVE  IInv'
<1> USE DEF IInv
<1>1. (\A p \in live : SameSpace(p)) /\ InPages(new, d, t, stack)'
  BY NewSpaceFacts
<1>2. \A p \in live :
        /\ Owned(p)' = Owned(p)
        /\ Placed(p)'
        /\ \A s \in Slots : Translate(pdt[p], s)' = Translate(pdt[p], s)
  BY <1>1, SameSpaceFacts
<1>3. Owned(new)' = Taken(d, t, stack)
  BY <1>1 DEF InPages, Owned, Taken
<1>4. Taken(d, t, stack) \subseteq free /\ Copies' = Copies
  BY DEF Fits, Taken, Copies
<1>5. \A g : g \in free <=> Unused(g)
  BY FreeIsUnused DEF NeverPanics
<1>6. d \in Pages /\ t \in Pages /\ d # t /\ stack \in [Slots -> Pages]
  BY PageFacts DEF Fits, Below
<1>7. TypeOK'
  <2>1. free' \subseteq Reserve \cup Normal
    BY DEF TypeOK, NewSpace
  <2>2. /\ dir' \in [Pages -> Pages] /\ table' \in [Pages -> [Slots -> Pages]]
        /\ pdt' \in [Pcbs -> Pages]
    BY <1>6 DEF TypeOK, NewSpace
  <2>3. live' \subseteq Pcbs /\ current' \in live' \cup {NOBODY}
    BY DEF TypeOK
  <2>4. cr3' = IF current' = NOBODY THEN KERNEL_DIR ELSE pdt'[current']
    BY <1>1 DEF TypeOK, SameSpace
  <2>5. QED
    BY <2>1, <2>2, <2>3, <2>4 DEF TypeOK
<1>8. NeverPanics' /\ CopiesApart'
  BY DEF NeverPanics, CopiesApart
<1>9. \A p \in live' : Placed(p)'
  <2>1. Placed(new)'
    BY <1>1 DEF InPages, Placed, Fits
  <2>2. QED
    BY <1>2, <2>1
<1>10. PagesAccountedFor'
  <2>1. \A g : g \in free' <=> g \in free /\ g \notin Taken(d, t, stack)
    BY DEF NewSpace
  <2>2. \A g : Unused(g)' <=> Unused(g) /\ g \notin Taken(d, t, stack)
    BY <1>2, <1>3, <1>4 DEF Unused
  <2>3. \A g : g \in free' <=> Unused(g)'
    BY <1>5, <2>1, <2>2
  <2>4. QED
    BY <2>3 DEF Unused, PagesAccountedFor
<1>11. NoPageShared'
  <2>1. \A p \in live' : (Owned(p) \cap Copies)' = {}
    <3>1. \A p \in live : Owned(p)' \cap Copies' = {}
      BY <1>2, <1>4 DEF NoPageShared, NeverPanics
    <3>2. Owned(new)' \cap Copies' = {}
      BY <1>3, <1>4, <1>5 DEF Unused
    <3>3. QED
      BY <3>1, <3>2
  <2>2. \A p, q \in live' : p # q => Owned(p)' \cap Owned(q)' = {}
    <3>1. \A p, q \in live : p # q => Owned(p)' \cap Owned(q)' = {}
      BY <1>2 DEF NoPageShared, NeverPanics
    <3>2. \A p \in live : Owned(p)' \cap Owned(new)' = {}
      BY <1>2, <1>3, <1>4, <1>5 DEF Unused
    <3>3. QED
      BY <3>1, <3>2
  <2>3. ASSUME NEW p \in live'
        PROVE  /\ (dir[pdt[p]] # pdt[p])'
               /\ \A s \in Slots : (Translate(pdt[p], s) \notin {pdt[p], dir[pdt[p]]})'
               /\ \A s, r \in Slots :
                    (Translate(pdt[p], s) = Translate(pdt[p], r))' => s = r
    <3>1. CASE p \in live
      BY <1>1, <1>2, <3>1 DEF SameSpace, NoPageShared, NeverPanics
    <3>2. CASE p = new
      <4>1. \A s \in Slots : stack[s] \in Below /\ stack[s] \notin {d, t}
        BY PageFacts DEF Fits, Below
      <4>2. QED
        BY <1>1, <1>6, <3>2, <4>1 DEF InPages, Fits
    <3>3. QED
      BY <3>1, <3>2
  <2>4. QED
    BY <2>1, <2>2, <2>3 DEF NoPageShared
<1>12. QED
  BY <1>7, <1>8, <1>9, <1>10, <1>11

\* What is copied is what a page may hold.
LEMMA CopiedType ==
  ASSUME NEW c \in [Pages -> Values], NEW to \in [Slots -> Pages],
         NEW from \in [Slots -> Pages]
  PROVE  Copied(c, to, from) \in [Pages -> Values]
BY DEF Copied

LEMMA DuplicatedType ==
  ASSUME IInv, NEW stack \in [Slots -> Pages], NEW arg \in Slots
  PROVE  Duplicated(stack, arg) \in [Pages -> Values]
<1> DEFINE parent == [s \in Slots |-> Translate(cr3, s)]
           saved  == Copied(content, stack_copy_reserve, parent)
           result == [saved EXCEPT ![parent[arg]] = PARENT]
           copied == Copied(result, stack, stack_copy_reserve)
<1>1. /\ content \in [Pages -> Values] /\ cr3 \in Pages /\ dir \in [Pages -> Pages]
      /\ table \in [Pages -> [Slots -> Pages]] /\ stack_copy_reserve \in [Slots -> Pages]
  BY PageFacts DEF IInv, TypeOK, KERNEL_DIR
<1>2. parent \in [Slots -> Pages] /\ PARENT \in Values /\ CHILD \in Values
  BY <1>1, AddressSpacesAssumption DEF Translate, PARENT, CHILD
<1> HIDE DEF parent
<1>3. saved \in [Pages -> Values]
  BY <1>1, <1>2, CopiedType
<1> HIDE DEF saved
<1>4. result \in [Pages -> Values]
  BY <1>2, <1>3
<1> HIDE DEF result
<1>5. copied \in [Pages -> Values]
  BY <1>1, <1>4, CopiedType
<1>6. Duplicated(stack, arg) = [copied EXCEPT ![stack[arg]] = CHILD]
  BY DEF Duplicated, parent, saved, result
<1> HIDE DEF copied
<1>7. QED
  BY <1>2, <1>5, <1>6

\* The entries of a directory and a table name pages below the mask, so what a
\* release frees is what the process owned, and none of it twice.
LEMMA ReleasedIsOwned ==
  ASSUME IInv, NEW p \in live
  PROVE  Released(pdt[p]) = Owned(p) /\ ~FreedTwice(pdt[p])
<1> USE DEF IInv
<1>1. pdt[p] \in Reserve /\ dir[pdt[p]] \in Reserve
      /\ \A s \in Slots : Translate(pdt[p], s) \in Below
  BY DEF Placed
<1>2. /\ Masked(dir[pdt[p]]) = dir[pdt[p]]
      /\ \A s \in Slots : Masked(Translate(pdt[p], s)) = Translate(pdt[p], s)
  BY <1>1, PageFacts DEF Masked
<1>3. Released(pdt[p]) = Owned(p)
  BY <1>2 DEF Released, Owned
<1>4. Owned(p) \cap free = {}
  BY FreeIsUnused DEF NeverPanics, Unused
<1>5. /\ dir[pdt[p]] # pdt[p]
      /\ \A s \in Slots : Translate(pdt[p], s) \notin {pdt[p], dir[pdt[p]]}
      /\ \A s, r \in Slots : Translate(pdt[p], s) = Translate(pdt[p], r) => s = r
  BY DEF NoPageShared, NeverPanics
<1>6. ~FreedTwice(pdt[p])
  BY <1>2, <1>3, <1>4, <1>5 DEF FreedTwice
<1>7. QED
  BY <1>3, <1>6

LEMMA CleanupKeeps ==
  ASSUME IInv, NEW p, Cleanup(p)
  PROVE  IInv'
<1> USE DEF IInv
<1>1. p \in live /\ Released(pdt[p]) = Owned(p) /\ ~FreedTwice(pdt[p])
  BY ReleasedIsOwned DEF Cleanup
<1>2. /\ free' = free \cup Owned(p)
      /\ live' = live \ {p}
      /\ cr3' = KERNEL_DIR
      /\ current' = NOBODY
      /\ UNCHANGED <<dir, table, content, pdt, stack_copy_reserve, panicked>>
  BY <1>1 DEF Cleanup
<1>3. \A q : SameSpace(q)
  BY <1>2 DEF SameSpace
<1>4. \A q : /\ Owned(q)' = Owned(q)
             /\ Placed(q)' <=> Placed(q)
             /\ \A s \in Slots : Translate(pdt[q], s)' = Translate(pdt[q], s)
  BY <1>3, SameSpaceFacts
<1>5. Copies' = Copies /\ Owned(p) \cap Copies = {}
  BY <1>1, <1>2 DEF Copies, NoPageShared, NeverPanics
<1>6. Owned(p) \subseteq Reserve \cup Normal
  BY <1>1 DEF Placed, Below, Owned
<1>7. TypeOK'
  BY <1>2, <1>6 DEF TypeOK
<1>8. NeverPanics' /\ CopiesApart' /\ \A q \in live' : Placed(q)'
  BY <1>2, <1>4 DEF NeverPanics, CopiesApart
<1>9. NoPageShared'
  BY <1>2, <1>4, <1>5 DEF NoPageShared, NeverPanics
<1>10. PagesAccountedFor'
  <2>1. \A g : g \in free <=> Unused(g)
    BY FreeIsUnused DEF NeverPanics
  <2>2. \A q \in live' : Owned(q) \cap Owned(p) = {}
    BY <1>1, <1>2 DEF NoPageShared, NeverPanics
  <2>3. \A g : Unused(g)' <=> Unused(g) \/ g \in Owned(p)
    BY <1>1, <1>2, <1>4, <1>5, <1>6, <2>2 DEF Unused
  <2>4. \A g : g \in free' <=> Unused(g)'
    BY <1>2, <2>1, <2>3
  <2>5. QED
    BY <2>4 DEF Unused, PagesAccountedFor
<1>11. QED
  BY <1>7, <1>8, <1>9, <1>10

\* A step that changes none of the maps and sets that IInv speaks of.
LEMMA OthersKeep ==
  ASSUME IInv, UNCHANGED <<free, dir, table, pdt, live, stack_copy_reserve, panicked>>,
         content' \in [Pages -> Values], current' \in live \cup {NOBODY},
         cr3' = IF current' = NOBODY THEN KERNEL_DIR ELSE pdt[current']
  PROVE  IInv'
<1> USE DEF IInv
<1>1. \A q : /\ Owned(q)' = Owned(q)
             /\ Placed(q)' <=> Placed(q)
             /\ \A s \in Slots : Translate(pdt[q], s)' = Translate(pdt[q], s)
  BY SameSpaceFacts DEF SameSpace
<1>2. Copies' = Copies
  BY DEF Copies
<1>3. TypeOK'
  BY DEF TypeOK
<1>4. NeverPanics' /\ CopiesApart' /\ \A q \in live' : Placed(q)'
  BY <1>1 DEF NeverPanics, CopiesApart
<1>5. NoPageShared'
  BY <1>1, <1>2 DEF NoPageShared, NeverPanics
<1>6. PagesAccountedFor'
  BY <1>1, <1>2 DEF PagesAccountedFor, NeverPanics
<1>7. QED
  BY <1>3, <1>4, <1>5, <1>6

\* fork finds its pages, as long as there is a PCB for the child.
LEMMA ForkSucceeds ==
  ASSUME IInv, NEW new \in Pcbs, NEW arg \in Slots, sys_fork(new, arg)
  PROVE  /\ new \notin live /\ current # NOBODY
         /\ live' = live \cup {new}
         /\ UNCHANGED <<cr3, current, stack_copy_reserve, panicked>>
         /\ \E d, t, stack : /\ Fits(d, t, stack, free)
                             /\ NewSpace(new, d, t, stack)
                             /\ content' = Duplicated(stack, arg)
<1>1. new \notin live /\ current # NOBODY
  BY DEF sys_fork
<1>2. ~OutOfPages /\ Cardinality((free \cap Normal) \cap Below) >= STACK_PAGES
  BY <1>1, EnoughFree
<1>3. PICK d \in Search(free \cap Reserve) :
        \E t \in Search((free \cap Reserve) \ {d}), stack \in Searches(free \cap Normal) :
          /\ NewSpace(new, d, t, stack)
          /\ content' = Duplicated(stack, arg)
          /\ live' = live \cup {new}
          /\ UNCHANGED <<cr3, current, stack_copy_reserve, panicked>>
  BY <1>2 DEF sys_fork
<1>4. PICK t \in Search((free \cap Reserve) \ {d}), stack \in Searches(free \cap Normal) :
          /\ NewSpace(new, d, t, stack)
          /\ content' = Duplicated(stack, arg)
          /\ live' = live \cup {new}
          /\ UNCHANGED <<cr3, current, stack_copy_reserve, panicked>>
  BY <1>3
<1>5. Fits(d, t, stack, free)
  <2>1. free \subseteq Reserve \cup Normal
    BY DEF IInv, TypeOK
  <2>2. QED
    BY <1>2, <2>1, SearchesFit
<1>6. QED
  BY <1>1, <1>4, <1>5

LEMMA StepKeeps ==
  ASSUME IInv, [Next]_vars
  PROVE  IInv'
<1>0. /\ content \in [Pages -> Values] /\ dir \in [Pages -> Pages] /\ cr3 \in Pages
      /\ table \in [Pages -> [Slots -> Pages]] /\ current \in live \cup {NOBODY}
      /\ cr3 = IF current = NOBODY THEN KERNEL_DIR ELSE pdt[current]
  BY PageFacts DEF IInv, TypeOK, KERNEL_DIR
<1>1. ASSUME NEW s \in Slots, NEW v \in Values, Store(s, v) PROVE IInv'
  <2>1. content' \in [Pages -> Values]
    BY <1>0, <1>1 DEF Store, Translate
  <2>2. QED
    BY <1>0, <1>1, <2>1, OthersKeep DEF Store
<1>2. ASSUME NEW new \in Pcbs, NEW arg \in Slots, sys_fork(new, arg) PROVE IInv'
  <2>1. /\ new \notin live /\ current # NOBODY /\ live' = live \cup {new}
        /\ UNCHANGED <<cr3, current, stack_copy_reserve, panicked>>
    BY <1>2, ForkSucceeds
  <2>2. PICK d, t, stack : /\ Fits(d, t, stack, free)
                           /\ NewSpace(new, d, t, stack)
                           /\ content' = Duplicated(stack, arg)
    BY <1>2, ForkSucceeds
  <2>3. content' \in [Pages -> Values]
    <3>1. stack \in [Slots -> Pages]
      BY <2>2, PageFacts DEF Fits, Below
    <3>2. QED
      BY <2>2, <3>1, DuplicatedType
  <2>4. QED
    BY <2>1, <2>2, <2>3, ForkKeeps
<1>3. ASSUME NEW p \in Pcbs, Cleanup(p) PROVE IInv'
  BY <1>3, CleanupKeeps
<1>4. ASSUME NEW p \in Pcbs, Dispatch(p) PROVE IInv'
  <2>1. p \in live /\ p # NOBODY
    BY <1>4, AddressSpacesAssumption DEF Dispatch, Pcbs, NOBODY
  <2>2. QED
    BY <1>0, <1>4, <2>1, OthersKeep DEF Dispatch
<1>5. CASE UNCHANGED vars
  BY <1>0, <1>5, OthersKeep DEF vars, memory
<1>6. QED
  BY <1>1, <1>2, <1>3, <1>4, <1>5 DEF Next, Halted

-----------------------------------------------------------------------------
(***************************************************************************)
(* The theorems.                                                           *)
(***************************************************************************)

\* The inductive invariant holds in every state.
THEOREM Invariance == Spec => []IInv
<1>1. Init => IInv
  BY InitHolds
<1>2. IInv /\ [Next]_vars => IInv'
  BY StepKeeps
<1>3. QED
  BY <1>1, <1>2, PTL DEF Spec

\* Types, for any sizes of the memory and its parts.
THEOREM TypeCorrect == Spec => []TypeOK
<1>1. IInv => TypeOK
  BY DEF IInv
<1>2. QED
  BY <1>1, Invariance, PTL

\* The bitmap is right after any sequence of forks, exits and kills: the free pages
\* are those that no address space has and that are not set aside.
THEOREM NoPageIsLost == Spec => []PagesAccountedFor
<1>1. IInv => PagesAccountedFor
  BY DEF IInv
<1>2. QED
  BY <1>1, Invariance, PTL

\* No two address spaces ever have a page in common, and none has a page that fork
\* copies through.
THEOREM AddressSpacesApart == Spec => []NoPageShared
<1>1. IInv => NoPageShared
  BY DEF IInv
<1>2. QED
  BY <1>1, Invariance, PTL

\* If there is a page for each need below the mask, no fork and no release panics.
THEOREM PagesSuffice == Spec => []NeverPanics
<1>1. IInv => NeverPanics
  BY DEF IInv
<1>2. QED
  BY <1>1, Invariance, PTL

-----------------------------------------------------------------------------
(***************************************************************************)
(* Every process has the stack it was promised.                            *)
(***************************************************************************)

\* the stacks as ProcessMemory sees them
Mem ==
  [p \in Pcbs |-> IF p \in live THEN [s \in Slots |-> content[Translate(pdt[p], s)]]
                                ELSE [s \in Slots |-> 0]]

\* Copying into pages that differ gives each what its source held, and changes no
\* other page.
LEMMA CopiedValues ==
  ASSUME NEW c, NEW to \in [Slots -> Pages], NEW from,
         \A s, t \in Slots : to[s] = to[t] => s = t
  PROVE  /\ \A s \in Slots : Copied(c, to, from)[to[s]] = c[from[s]]
         /\ \A g \in Pages : (\A s \in Slots : to[s] # g) => Copied(c, to, from)[g] = c[g]
<1>1. ASSUME NEW s \in Slots PROVE Copied(c, to, from)[to[s]] = c[from[s]]
  <2>1. to[s] \in Pages
    OBVIOUS
  <2>2. (CHOOSE t \in Slots : to[t] = to[s]) = s
    OBVIOUS
  <2>3. QED
    BY <2>1, <2>2 DEF Copied
<1>2. QED
  BY <1>1 DEF Copied

\* After fork the child's stack is the parent's except for the result of the call,
\* and no other page that a process has has changed.
LEMMA DuplicatedValues ==
  ASSUME IInv, NEW arg \in Slots, NEW d, NEW t, NEW stack, Fits(d, t, stack, free),
         current # NOBODY
  PROVE  /\ \A s \in Slots :
              Duplicated(stack, arg)[stack[s]] =
                IF s = arg THEN CHILD ELSE content[Translate(pdt[current], s)]
         /\ \A s \in Slots :
              Duplicated(stack, arg)[Translate(pdt[current], s)] =
                IF s = arg THEN PARENT ELSE content[Translate(pdt[current], s)]
         /\ \A q \in live : q # current =>
              \A s \in Slots : Duplicated(stack, arg)[Translate(pdt[q], s)] =
                                 content[Translate(pdt[q], s)]
<1> DEFINE parent == [s \in Slots |-> Translate(cr3, s)]
           saved  == Copied(content, stack_copy_reserve, parent)
           result == [saved EXCEPT ![parent[arg]] = PARENT]
           copied == Copied(result, stack, stack_copy_reserve)
<1> USE DEF IInv
<1>1. /\ content \in [Pages -> Values] /\ cr3 = pdt[current] /\ current \in live
      /\ stack_copy_reserve \in [Slots -> Pages]
      /\ stack \in [Slots -> Pages] /\ \A s, r \in Slots : stack[s] = stack[r] => s = r
  BY PageFacts DEF TypeOK, Fits, Below
<1>2. /\ parent \in [Slots -> Pages]
      /\ \A s \in Slots : parent[s] = Translate(pdt[current], s) /\ parent[s] \in Owned(current)
  BY <1>1, PageFacts DEF Placed, Below, Owned
<1>3. \A q \in live, s \in Slots : Translate(pdt[q], s) \in Owned(q) /\ Translate(pdt[q], s) \in Pages
  BY PageFacts DEF Owned, Placed, Below
<1>4. \A q \in live : \A g \in Owned(q) : g \notin Copies /\ g \notin free
  BY FreeIsUnused DEF NeverPanics, Unused, NoPageShared
<1>5. \A s \in Slots : stack[s] \in free /\ stack[s] \notin Copies
  BY FreeIsUnused DEF NeverPanics, Unused, Fits
<1>6. \A s \in Slots : stack_copy_reserve[s] \in Copies
  BY DEF Copies
<1>7. \A s, r \in Slots : parent[s] = parent[r] => s = r
  BY <1>1, <1>2 DEF NoPageShared, NeverPanics
<1>8. \A q \in live : q # current =>
        \A s \in Slots : \A r \in Slots : Translate(pdt[q], s) # parent[r]
  BY <1>1, <1>2, <1>3 DEF NoPageShared, NeverPanics
<1> HIDE DEF parent, IInv
<1>9. /\ \A s \in Slots : saved[stack_copy_reserve[s]] = content[parent[s]]
      /\ \A g \in Pages : g \notin Copies => saved[g] = content[g]
      /\ saved \in [Pages -> Values]
  <2>1. \A s, r \in Slots : stack_copy_reserve[s] = stack_copy_reserve[r] => s = r
    BY DEF IInv, CopiesApart
  <2>2. \A g : g \notin Copies => \A s \in Slots : stack_copy_reserve[s] # g
    BY <1>6
  <2>3. saved \in [Pages -> Values]
    BY <1>1, <1>2, CopiedType
  <2>4. QED
    BY <1>1, <2>1, <2>2, <2>3, CopiedValues
<1> HIDE DEF saved
<1>10. /\ \A s \in Slots : result[stack_copy_reserve[s]] = content[parent[s]]
       /\ \A s \in Slots : result[parent[s]] = IF s = arg THEN PARENT ELSE content[parent[s]]
       /\ \A g \in Pages : g \notin Copies /\ g # parent[arg] => result[g] = content[g]
  <2>1. \A s \in Slots : parent[s] \in Pages /\ parent[s] \notin Copies
    BY <1>1, <1>2, <1>4
  <2>2. \A s \in Slots : stack_copy_reserve[s] \in Pages /\ stack_copy_reserve[s] # parent[arg]
    BY <1>1, <1>6, <2>1
  <2>3. QED
    BY <1>7, <1>9, <2>1, <2>2
<1> HIDE DEF result
<1>11. /\ \A s \in Slots : copied[stack[s]] = content[parent[s]]
       /\ \A g \in Pages : g \notin free => copied[g] = result[g]
       /\ DOMAIN copied = Pages
  <2>1. \A g : g \notin free => \A s \in Slots : stack[s] # g
    BY <1>5
  <2>2. DOMAIN copied = Pages
    BY DEF Copied
  <2>3. /\ \A s \in Slots : copied[stack[s]] = result[stack_copy_reserve[s]]
        /\ \A g \in Pages : (\A s \in Slots : stack[s] # g) => copied[g] = result[g]
    BY <1>1, CopiedValues
  <2> HIDE DEF copied
  <2>4. QED
    BY <1>10, <2>1, <2>2, <2>3
<1>12. Duplicated(stack, arg) = [copied EXCEPT ![stack[arg]] = CHILD]
  BY DEF Duplicated, parent, saved, result
<1> HIDE DEF copied
<1>13. \A s \in Slots : Duplicated(stack, arg)[stack[s]] =
                          IF s = arg THEN CHILD ELSE content[parent[s]]
  BY <1>1, <1>11, <1>12
<1>14. \A g \in Pages : g \notin free => Duplicated(stack, arg)[g] = result[g]
  BY <1>5, <1>11, <1>12
<1>15. \A s \in Slots : Duplicated(stack, arg)[parent[s]] =
                          IF s = arg THEN PARENT ELSE content[parent[s]]
  BY <1>1, <1>2, <1>4, <1>10, <1>14
<1>16. ASSUME NEW q \in live, q # current, NEW s \in Slots
       PROVE  Duplicated(stack, arg)[Translate(pdt[q], s)] = content[Translate(pdt[q], s)]
  BY <1>3, <1>4, <1>8, <1>10, <1>14, <1>16
<1>17. QED
  BY <1>2, <1>13, <1>15, <1>16

LEMMA PromisedInit ==
  ASSUME Init
  PROVE  Promise!Init
<1>1. IInv
  BY InitHolds
<1>2. live = {1} /\ current = 1 /\ 1 \in Pcbs
  BY AddressSpacesAssumption DEF Init, Started, Pcbs
<1>3. /\ content \in [Pages -> Values] /\ 0 \in Values
      /\ \A s \in Slots : Translate(pdt[1], s) \in Pages
  BY <1>1, <1>2, PageFacts, AddressSpacesAssumption DEF IInv, TypeOK, Placed, Below
<1>4. Mem \in [Pcbs -> [Slots -> Values]]
  BY <1>2, <1>3 DEF Mem
<1>5. \A p \in Pcbs \ {1} : Mem[p] = [s \in Slots |-> 0]
  BY <1>2 DEF Mem
<1>6. QED
  BY <1>2, <1>4, <1>5 DEF Promise!Init, Promise!ZeroStack, Promise!Pcbs, Promise!Slots,
                          Mem, Pcbs, Slots

LEMMA PromisedStep ==
  ASSUME IInv, [Next]_vars
  PROVE  [Promise!Next]_<<live, current, Mem>>
<1> USE DEF Promise!Pcbs, Promise!Slots, Promise!NOBODY, NOBODY
<1>0. /\ content \in [Pages -> Values] /\ current \in live \cup {NOBODY} /\ live \subseteq Pcbs
      /\ cr3 = IF current = NOBODY THEN KERNEL_DIR ELSE pdt[current]
      /\ \A p \in live : \A s \in Slots : Translate(pdt[p], s) \in Pages
  BY PageFacts DEF IInv, TypeOK, Placed, Below
<1>1. ASSUME NEW s \in Slots, NEW v \in Values, Store(s, v) PROVE Promise!Store(s, v)
  <2>1. /\ current \in live /\ cr3 = pdt[current]
        /\ content' = [content EXCEPT ![Translate(pdt[current], s)] = v]
        /\ UNCHANGED <<live, current, pdt, dir, table>>
    BY <1>0, <1>1 DEF Store
  <2>2. \A p : \A r \in Slots : Translate(pdt[p], r)' = Translate(pdt[p], r)
    BY <2>1 DEF Translate
  <2>3. \A r \in Slots : content'[Translate(pdt[current], r)] =
                           IF r = s THEN v ELSE content[Translate(pdt[current], r)]
    BY <1>0, <2>1 DEF IInv, NoPageShared, NeverPanics
  <2>4. ASSUME NEW p \in live, p # current, NEW r \in Slots
        PROVE  content'[Translate(pdt[p], r)] = content[Translate(pdt[p], r)]
    <3>1. /\ Translate(pdt[p], r) \in Owned(p)
          /\ Translate(pdt[current], s) \in Owned(current)
      BY DEF Owned
    <3>2. Translate(pdt[p], r) # Translate(pdt[current], s)
      BY <2>1, <2>4, <3>1 DEF IInv, NoPageShared, NeverPanics
    <3>3. QED
      BY <1>0, <2>1, <3>2
  <2>5. Mem' = [Mem EXCEPT ![current][s] = v]
    <3>1. current \in Pcbs /\ Mem[current] = [r \in Slots |-> content[Translate(pdt[current], r)]]
      BY <1>0, <2>1 DEF Mem
    <3>2. ASSUME NEW p \in Pcbs PROVE Mem'[p] = [Mem EXCEPT ![current][s] = v][p]
      <4>1. CASE p = current
        <5>0. p \in live /\ live' = live
          BY <2>1, <4>1
        <5>1. Mem'[p] = [r \in Slots |-> content'[Translate(pdt[p], r)]]
          BY <2>2, <5>0 DEF Mem
        <5>2. [Mem EXCEPT ![current][s] = v][p] = [Mem[current] EXCEPT ![s] = v]
          BY <3>1, <4>1 DEF Mem
        <5>3. QED
          BY <2>3, <3>1, <4>1, <5>1, <5>2
      <4>2. CASE p # current /\ p \in live
        <5>1. Mem'[p] = [r \in Slots |-> content'[Translate(pdt[p], r)]]
          BY <2>1, <2>2, <4>2 DEF Mem
        <5>2. [Mem EXCEPT ![current][s] = v][p] = [r \in Slots |-> content[Translate(pdt[p], r)]]
          BY <4>2 DEF Mem
        <5>3. QED
          BY <2>4, <4>2, <5>1, <5>2
      <4>3. CASE p \notin live
        BY <2>1, <4>3 DEF Mem
      <4>4. QED
        BY <4>1, <4>2, <4>3
    <3>3. QED
      BY <3>2 DEF Mem
  <2>6. QED
    BY <1>0, <2>1, <2>5, AddressSpacesAssumption DEF Promise!Store, Mem, Pcbs
<1>2. ASSUME NEW new \in Pcbs, NEW arg \in Slots, sys_fork(new, arg) PROVE Promise!Fork(new, arg)
  <2>1. /\ new \notin live /\ current # NOBODY /\ current \in live /\ current # new
        /\ live' = live \cup {new} /\ current' = current
    BY <1>0, <1>2, ForkSucceeds
  <2>2. PICK d, t, stack : /\ Fits(d, t, stack, free)
                           /\ NewSpace(new, d, t, stack)
                           /\ content' = Duplicated(stack, arg)
    BY <1>2, ForkSucceeds
  <2>3. /\ \A p \in live : \A s \in Slots : Translate(pdt[p], s)' = Translate(pdt[p], s)
        /\ \A s \in Slots : Translate(pdt[new], s)' = stack[s]
    BY <2>1, <2>2, NewSpaceFacts, SameSpaceFacts DEF InPages
  <2>4. /\ \A s \in Slots :
              content'[stack[s]] =
                IF s = arg THEN CHILD ELSE content[Translate(pdt[current], s)]
        /\ \A s \in Slots :
              content'[Translate(pdt[current], s)] =
                IF s = arg THEN PARENT ELSE content[Translate(pdt[current], s)]
        /\ \A q \in live : q # current =>
              \A s \in Slots : content'[Translate(pdt[q], s)] = content[Translate(pdt[q], s)]
    BY <2>1, <2>2, DuplicatedValues
  <2>5. /\ Mem[current] = [s \in Slots |-> content[Translate(pdt[current], s)]]
        /\ Mem'[current] = [Mem[current] EXCEPT ![arg] = PARENT]
        /\ Mem'[new] = [Mem[current] EXCEPT ![arg] = CHILD]
    <3>1. Mem[current] = [s \in Slots |-> content[Translate(pdt[current], s)]]
      BY <1>0, <2>1 DEF Mem
    <3>2. Mem'[current] = [s \in Slots |-> content'[Translate(pdt[current], s)]]
      BY <1>0, <2>1, <2>3 DEF Mem
    <3>3. Mem'[new] = [s \in Slots |-> content'[stack[s]]]
      BY <1>0, <2>1, <2>3 DEF Mem
    <3>4. Mem'[current] = [Mem[current] EXCEPT ![arg] = PARENT]
      <4> DEFINE m == [s \in Slots |-> content[Translate(pdt[current], s)]]
      <4>1. Mem'[current] = [s \in Slots |-> IF s = arg THEN PARENT ELSE m[s]]
        BY <2>4, <3>2
      <4>2. QED
        BY <3>1, <4>1
    <3>5. Mem'[new] = [Mem[current] EXCEPT ![arg] = CHILD]
      <4> DEFINE m == [s \in Slots |-> content[Translate(pdt[current], s)]]
      <4>1. Mem'[new] = [s \in Slots |-> IF s = arg THEN CHILD ELSE m[s]]
        BY <2>4, <3>3
      <4>2. QED
        BY <3>1, <4>1
    <3>6. QED
      BY <3>1, <3>4, <3>5
  <2>6. \A p \in Pcbs : p # current /\ p # new => Mem'[p] = Mem[p]
    <3>1. SUFFICES ASSUME NEW p \in Pcbs, p # current, p # new PROVE Mem'[p] = Mem[p]
      OBVIOUS
    <3>2. CASE p \in live
      <4>1. Mem'[p] = [s \in Slots |-> content'[Translate(pdt[p], s)]]
        BY <2>1, <2>3, <3>2 DEF Mem
      <4>2. Mem[p] = [s \in Slots |-> content[Translate(pdt[p], s)]]
        BY <3>2 DEF Mem
      <4>3. QED
        BY <2>4, <3>1, <3>2, <4>1, <4>2
    <3>3. CASE p \notin live
      BY <2>1, <3>1, <3>3 DEF Mem
    <3>4. QED
      BY <3>2, <3>3
  <2>7. Mem' = [Mem EXCEPT ![current][arg] = PARENT,
                           ![new] = [Mem[current] EXCEPT ![arg] = CHILD]]
    <3>1. DOMAIN Mem = Pcbs /\ DOMAIN Mem' = Pcbs /\ Mem' = [p \in Pcbs |-> Mem'[p]]
      BY DEF Mem
    <3> HIDE DEF Mem
    <3>2. ASSUME NEW p \in Pcbs
          PROVE  [Mem EXCEPT ![current][arg] = PARENT,
                             ![new] = [Mem[current] EXCEPT ![arg] = CHILD]][p] = Mem'[p]
      BY <1>0, <2>1, <2>5, <2>6, <3>1
    <3>3. QED
      BY <3>1, <3>2
  <2>8. QED
    BY <2>1, <2>7 DEF Promise!Fork, Promise!PARENT, Promise!CHILD, PARENT, CHILD, Mem, Pcbs, Slots
<1>3. ASSUME NEW p \in Pcbs, Cleanup(p) PROVE Promise!End(p)
  <2>1. /\ p \in live /\ live' = live \ {p} /\ current' = NOBODY
        /\ UNCHANGED <<content, pdt, dir, table>>
    BY <1>3, ReleasedIsOwned DEF Cleanup
  <2>2. \A q : \A s \in Slots : Translate(pdt[q], s)' = Translate(pdt[q], s)
    BY <2>1 DEF Translate
  <2>3. \A q \in Pcbs : q # p => Mem'[q] = Mem[q]
    BY <2>1, <2>2 DEF Mem
  <2>4. Mem'[p] = [s \in Slots |-> 0]
    BY <2>1 DEF Mem
  <2>5. Mem' = [Mem EXCEPT ![p] = [s \in Slots |-> 0]]
    BY <2>3, <2>4 DEF Mem
  <2>6. QED
    BY <2>1, <2>5 DEF Promise!End, Promise!ZeroStack, Mem, Pcbs, Slots
<1>4. ASSUME NEW p \in Pcbs, Dispatch(p) PROVE Promise!Run(p)
  <2>1. /\ p \in live /\ current' = p
        /\ UNCHANGED <<live, content, pdt, dir, table>>
    BY <1>4 DEF Dispatch
  <2>2. Mem' = Mem
    BY <2>1 DEF Mem, Translate
  <2>3. QED
    BY <2>1, <2>2 DEF Promise!Run, Mem, Pcbs, Slots
<1>5. CASE UNCHANGED vars
  BY <1>5 DEF vars, memory, Mem, Translate
<1>6. QED
  BY <1>1, <1>2, <1>3, <1>4, <1>5 DEF Next, Halted, Promise!Next, Pcbs, Slots

\* What the processes see is ProcessMemory: stores, forks, exits and kills of one
\* change the stack of no other, through whatever page directory is in force.
THEOREM StacksAsPromised == Spec => Implements
<1>1. Init => Promise!Init
  BY PromisedInit
<1>2. IInv /\ [Next]_vars => [Promise!Next]_<<live, current, Mem>>
  BY PromisedStep
<1>3. QED
  BY <1>1, <1>2, Invariance, PTL DEF Spec, Implements, Promise!Spec, Mem

================================================================================
