---------------------------- MODULE QueueListsProofs --------------------------
(***************************************************************************)
(* Theorems about QueueLists, for any number of nodes and queues: the      *)
(* links stay sound, and the lists implement the queues of QueueSpec.      *)
(***************************************************************************)
EXTENDS QueueLists, FiniteSetTheorems, SequenceTheorems, WellFoundedInduction, TLAPS

\* the element at place i of s, NULL where s has none
At(s, i) == IF i \in 1 .. Len(s) THEN s[i] ELSE NULL

-----------------------------------------------------------------------------
(***************************************************************************)
(* Induction over a set of numbers, from the well-foundedness of < on Nat. *)
(***************************************************************************)

\* A set of numbers that is not empty has a least one.
LEMMA LeastNumber ==
  ASSUME NEW U, U \subseteq Nat, U # {}
  PROVE  \E x \in U : \A y \in U : x <= y
<1> DEFINE R == OpToRel(<, Nat)
<1>1. IsWellFoundedOn(R, Nat)
  BY NatLessThanWellFounded
<1>2. PICK x \in U : \A y \in U : <<y, x>> \notin R
  <2> HIDE DEF R
  <2> QED BY <1>1, WFMin
<1>3. ASSUME NEW y \in U PROVE x <= y
  <2>1. x \in Nat /\ y \in Nat
    OBVIOUS
  <2>2. ~(y < x)
    BY <1>2, <2>1 DEF OpToRel
  <2>3. QED
    BY <2>1, <2>2
<1>4. QED
  BY <1>3

\* Min gives the least element.
LEMMA MinLeast ==
  ASSUME NEW U, U \subseteq Nat, U # {}
  PROVE  Min(U) \in U /\ \A y \in U : Min(U) <= y
<1>1. \E x \in U : \A y \in U : x <= y
  BY LeastNumber
<1>2. QED
  BY <1>1 DEF Min

\* Induction: a set of numbers that holds 0 and the successor of every number it
\* holds is Nat.
LEMMA NatSetInduction ==
  ASSUME NEW T, T \subseteq Nat, 0 \in T, \A n \in T : n + 1 \in T
  PROVE  T = Nat
<1> DEFINE U == Nat \ T
<1>1. SUFFICES ASSUME U # {} PROVE FALSE
  OBVIOUS
<1>2. PICK x \in U : \A y \in U : x <= y
  <2>1. U \subseteq Nat
    OBVIOUS
  <2> HIDE DEF U
  <2>2. QED
    BY <1>1, <2>1, LeastNumber
<1>3. x \in Nat /\ x \notin T
  BY DEF U
<1> HIDE DEF U
<1>4. x # 0 /\ x - 1 \in Nat
  BY <1>3
<1>5. x - 1 \in U
  <2>1. x - 1 \notin T
    BY <1>3, <1>4
  <2>2. QED
    BY <2>1, <1>4 DEF U
<1>6. QED
  BY <1>2, <1>3, <1>5

-----------------------------------------------------------------------------
(***************************************************************************)
(* A walk along links that are those of a sequence of nodes gives that     *)
(* sequence.                                                               *)
(***************************************************************************)

\* f gives what a walk of at most left nodes visits, for each left up to k.
IsWalk(f, link, k) ==
  f = [left \in 0 .. k |->
         [m \in Nodes \cup {NULL} |-> IF m = NULL \/ left = 0 THEN <<>>
                                      ELSE <<m>> \o f[left-1][link[m]]]]

\* There is such a function.
LEMMA WalkExists ==
  ASSUME NEW link, NEW n \in Nat
  PROVE  \E f : IsWalk(f, link, n)
<1> DEFINE T == {k \in Nat : \E f : IsWalk(f, link, k)}
<1>1. 0 \in T
  <2> DEFINE f == [left \in 0 .. 0 |-> [m \in Nodes \cup {NULL} |-> <<>>]]
  <2>1. IsWalk(f, link, 0)
    BY DEF IsWalk
  <2>2. QED
    BY <2>1
<1>2. ASSUME NEW k \in T PROVE k + 1 \in T
  <2>1. k \in Nat
    OBVIOUS
  <2>2. PICK f : IsWalk(f, link, k)
    OBVIOUS
  <2> DEFINE Round(g, left) == [m \in Nodes \cup {NULL} |->
                                  IF m = NULL \/ left = 0 THEN <<>>
                                  ELSE <<m>> \o g[left-1][link[m]]]
             h == [left \in 0 .. k+1 |-> Round(f, left)]
  <2>3. f = [left \in 0 .. k |-> Round(f, left)]
    BY <2>2 DEF IsWalk
  <2>4. \A left \in 0 .. k : h[left] = f[left]
    <3> HIDE DEF Round
    <3> QED BY <2>1, <2>3
  <2>5. \A left \in 0 .. k+1 : Round(f, left) = Round(h, left)
    <3> SUFFICES ASSUME NEW left \in 0 .. k+1 PROVE Round(f, left) = Round(h, left)
      OBVIOUS
    <3>1. left = 0 \/ left - 1 \in 0 .. k
      BY <2>1
    <3> HIDE DEF h
    <3>2. QED
      BY <3>1, <2>4
  <2>6. h = [left \in 0 .. k+1 |-> Round(h, left)]
    BY <2>5
  <2>7. IsWalk(h, link, k+1)
    <3> HIDE DEF h
    <3> QED BY <2>6 DEF IsWalk
  <2>8. QED
    BY <2>1, <2>7
<1>3. T = Nat
  <2>1. T \subseteq Nat
    OBVIOUS
  <2> HIDE DEF T
  <2>2. QED
    BY <1>1, <1>2, <2>1, NatSetInduction
<1>4. QED
  BY <1>3

\* A sequence without repetitions is no longer than there are nodes.
LEMMA NoLongerThanNodes ==
  ASSUME NEW s \in Seq(Nodes), \A i, j \in 1 .. Len(s) : s[i] = s[j] => i = j
  PROVE  Len(s) <= N_QNODES
<1>1. IsFiniteSet(Nodes) /\ Cardinality(Nodes) = N_QNODES
  BY FS_Interval, QueueAssumption DEF Nodes
<1>2. s \in Injection(1 .. Len(s), Nodes)
  BY DEF Injection, IsInjective
<1>3. Cardinality(1 .. Len(s)) <= N_QNODES
  BY <1>1, <1>2, FS_Injection
<1>4. Cardinality(1 .. Len(s)) = Len(s)
  BY FS_Interval
<1>5. QED
  BY <1>3, <1>4

\* the last j elements of s
Suffix(s, j) == [k \in 1 .. j |-> s[Len(s) - j + k]]

LEMMA ChainIs ==
  ASSUME NEW link, NEW s \in Seq(Nodes),
         \A i, j \in 1 .. Len(s) : s[i] = s[j] => i = j,
         \A i \in 1 .. Len(s) : link[s[i]] = At(s, i+1)
  PROVE  Chain(link, At(s, 1)) = s
<1> DEFINE f == CHOOSE g : IsWalk(g, link, N_QNODES+1)
<1>1. N_QNODES \in Nat /\ N_QNODES+1 \in Nat
  BY QueueAssumption
<1>2. IsWalk(f, link, N_QNODES+1)
  BY <1>1, WalkExists
<1>3. Chain(link, At(s, 1)) = f[N_QNODES+1][At(s, 1)]
  BY DEF Chain, IsWalk
<1> HIDE DEF f
<1>4. Len(s) \in Nat /\ Len(s) <= N_QNODES
  BY NoLongerThanNodes
<1>5. \A i : At(s, i) \in Nodes \cup {NULL}
  BY DEF At
<1>6. NULL \notin Nodes
  BY DEF NULL, Nodes
<1> DEFINE T == {j \in Nat : j <= Len(s) => \A left \in j .. N_QNODES+1 :
                               f[left][At(s, Len(s)-j+1)] = Suffix(s, j)}
<1>7. ASSUME NEW left \in 0 .. N_QNODES+1, NEW m \in Nodes \cup {NULL}
      PROVE  f[left][m] = IF m = NULL \/ left = 0 THEN <<>>
                                      ELSE <<m>> \o f[left-1][link[m]]
  <2>1. f[left] = [x \in Nodes \cup {NULL} |-> IF x = NULL \/ left = 0 THEN <<>>
                                               ELSE <<x>> \o f[left-1][link[x]]]
    <3> DEFINE Round(g, y) == [x \in Nodes \cup {NULL} |->
                                 IF x = NULL \/ y = 0 THEN <<>>
                                 ELSE <<x>> \o g[y-1][link[x]]]
    <3>1. f = [y \in 0 .. N_QNODES+1 |-> Round(f, y)]
      BY <1>2 DEF IsWalk
    <3>2. f[left] = Round(f, left)
      <4> HIDE DEF Round
      <4> QED BY <3>1
    <3>3. QED
      BY <3>2
  <2>2. QED
    BY <2>1
<1>8. 0 \in T
  <2>1. At(s, Len(s)-0+1) = NULL
    BY <1>4 DEF At
  <2>2. \A left \in 0 .. N_QNODES+1 : f[left][NULL] = <<>>
    BY <1>7
  <2>3. Suffix(s, 0) = <<>>
    BY DEF Suffix
  <2>4. QED
    BY <2>1, <2>2, <2>3
<1>9. ASSUME NEW j \in T PROVE j + 1 \in T
  <2>1. j \in Nat
    OBVIOUS
  <2>2. SUFFICES ASSUME j + 1 <= Len(s), NEW left \in j+1 .. N_QNODES+1
                 PROVE  f[left][At(s, Len(s)-(j+1)+1)] = Suffix(s, j+1)
    BY <2>1
  <2> DEFINE p == Len(s) - j
  <2>3. p \in 1 .. Len(s) /\ Len(s)-(j+1)+1 = p /\ Len(s)-j+1 = p+1 /\ left # 0
        /\ left-1 \in j .. N_QNODES+1 /\ left \in 0 .. N_QNODES+1 /\ j <= Len(s)
    BY <2>1, <2>2, <1>1, <1>4
  <2>4. f[left-1][At(s, p+1)] = Suffix(s, j)
    BY <2>1, <2>3
  <2>5. At(s, p) = s[p] /\ s[p] \in Nodes /\ s[p] # NULL
    BY <2>3, <1>6 DEF At
  <2>6. link[s[p]] = At(s, p+1)
    BY <2>3
  <2>7. f[left][s[p]] = <<s[p]>> \o Suffix(s, j)
    <3>1. f[left][s[p]] = <<s[p]>> \o f[left-1][link[s[p]]]
      <4> HIDE DEF p
      <4> QED BY <1>7, <2>3, <2>5
    <3>2. QED
      BY <3>1, <2>4, <2>6
  <2>8. <<s[p]>> \o Suffix(s, j) = Suffix(s, j+1)
    <3>1. Suffix(s, j) \in Seq(Nodes) /\ Len(Suffix(s, j)) = j
      BY <2>1, <2>3 DEF Suffix
    <3>2. Suffix(s, j+1) \in Seq(Nodes) /\ Len(Suffix(s, j+1)) = j+1
      BY <2>1, <2>2, <1>4 DEF Suffix
    <3>3. ASSUME NEW k \in 1 .. j+1
          PROVE  (<<s[p]>> \o Suffix(s, j))[k] = Suffix(s, j+1)[k]
      <4>1. CASE k = 1
        <5>1. Len(s) - (j+1) + 1 = p
          BY <2>1, <1>4
        <5>2. QED
          BY <4>1, <5>1, <3>1, <2>1 DEF Suffix
      <4>2. CASE k # 1
        <5>1. k - 1 \in 1 .. j /\ Len(s) - j + (k-1) = Len(s) - (j+1) + k
          BY <4>2, <2>1, <1>4
        <5>2. (<<s[p]>> \o Suffix(s, j))[k] = Suffix(s, j)[k-1]
          BY <5>1, <3>1, <2>1
        <5>3. QED
          BY <5>1, <5>2, <2>1 DEF Suffix
      <4>3. QED
        BY <4>1, <4>2
    <3>4. <<s[p]>> \o Suffix(s, j) \in Seq(Nodes) /\ Len(<<s[p]>> \o Suffix(s, j)) = j+1
      BY <3>1, <2>5, <2>1
    <3>5. QED
      BY <3>2, <3>3, <3>4, SeqEqual
  <2>9. QED
    BY <2>3, <2>5, <2>7, <2>8
<1>10. T = Nat
  <2>1. T \subseteq Nat
    OBVIOUS
  <2> HIDE DEF T
  <2>2. QED
    BY <1>8, <1>9, <2>1, NatSetInduction
<1>11. f[N_QNODES+1][At(s, 1)] = Suffix(s, Len(s))
  <2>1. Len(s) \in T /\ Len(s)-Len(s)+1 = 1 /\ N_QNODES+1 \in Len(s) .. N_QNODES+1
    BY <1>10, <1>4, <1>1
  <2>2. QED
    BY <2>1
<1>12. Suffix(s, Len(s)) = s
  <2>1. \A k \in 1 .. Len(s) : Len(s) - Len(s) + k = k
    BY <1>4
  <2>2. QED
    BY <2>1 DEF Suffix
<1>13. QED
  BY <1>3, <1>11, <1>12

-----------------------------------------------------------------------------
(***************************************************************************)
(* One element more or less in a sequence.                                 *)
(***************************************************************************)

\* t is s with x put in at place p.
Inserted(s, t, p, x) ==
  /\ Len(t) = Len(s) + 1
  /\ \A i \in 1 .. Len(t) : t[i] = IF i < p THEN s[i] ELSE IF i = p THEN x ELSE s[i-1]

LEMMA InsertAtInserts ==
  ASSUME NEW S, NEW s \in Seq(S), NEW p \in 1 .. Len(s)+1, NEW x \in S
  PROVE  InsertAt(s, p, x) \in Seq(S) /\ Inserted(s, InsertAt(s, p, x), p, x)
<1> DEFINE a == SubSeq(s, 1, p-1)
           b == SubSeq(s, p, Len(s))
<1>1. Len(s) \in Nat /\ p \in Nat
  OBVIOUS
<1>2. a \in Seq(S) /\ Len(a) = p-1 /\ \A i \in 1 .. p-1 : a[i] = s[i]
  BY <1>1
<1>3. b \in Seq(S) /\ Len(b) = Len(s)-p+1 /\ \A i \in 1 .. Len(s)-p+1 : b[i] = s[p+i-1]
  BY <1>1
<1>4. InsertAt(s, p, x) = (a \o <<x>>) \o b
  BY DEF InsertAt
<1> HIDE DEF a, b
<1> DEFINE c == a \o <<x>>
<1>5. c \in Seq(S) /\ Len(c) = p /\ \A i \in 1 .. p : c[i] = IF i < p THEN s[i] ELSE x
  BY <1>1, <1>2
<1> HIDE DEF c
<1> DEFINE d == c \o b
<1>6. /\ d \in Seq(S) /\ Len(d) = Len(c) + Len(b)
      /\ \A i \in 1 .. Len(c) + Len(b) : d[i] = IF i <= Len(c) THEN c[i] ELSE b[i - Len(c)]
  <2>1. c \in Seq(S) /\ b \in Seq(S)
    BY <1>3, <1>5
  <2>2. QED
    BY <2>1, ConcatProperties
<1> HIDE DEF d
<1>7. Len(d) = Len(s) + 1
  BY <1>1, <1>3, <1>5, <1>6
<1>8. ASSUME NEW i \in 1 .. Len(s)+1
      PROVE  d[i] = IF i < p THEN s[i] ELSE IF i = p THEN x ELSE s[i-1]
  <2>1. i \in 1 .. Len(c) + Len(b) /\ i \in Nat
    BY <1>1, <1>3, <1>5
  <2>2. CASE i <= p
    <3>1. d[i] = c[i] /\ i \in 1 .. p
      BY <1>1, <1>5, <1>6, <2>1, <2>2
    <3>2. QED
      BY <1>1, <1>5, <2>1, <2>2, <3>1
  <2>3. CASE i > p
    <3>1. d[i] = b[i-p]
      BY <1>1, <1>5, <1>6, <2>1, <2>3
    <3>2. i-p \in 1 .. Len(s)-p+1 /\ p+(i-p)-1 = i-1
      BY <1>1, <2>3
    <3>3. QED
      BY <1>1, <1>3, <2>3, <3>1, <3>2
  <2>4. QED
    BY <1>1, <2>1, <2>2, <2>3
<1>9. InsertAt(s, p, x) = d
  BY <1>4 DEF c, d
<1>10. QED
  BY <1>6, <1>7, <1>8, <1>9 DEF Inserted

LEMMA RemoveAtRemoves ==
  ASSUME NEW S, NEW t \in Seq(S), NEW p \in 1 .. Len(t)
  PROVE  RemoveAt(t, p) \in Seq(S) /\ Inserted(RemoveAt(t, p), t, p, t[p])
<1> DEFINE a == SubSeq(t, 1, p-1)
           b == SubSeq(t, p+1, Len(t))
<1>1. Len(t) \in Nat /\ p \in Nat
  OBVIOUS
<1>2. a \in Seq(S) /\ Len(a) = p-1 /\ \A i \in 1 .. p-1 : a[i] = t[i]
  BY <1>1
<1>3. b \in Seq(S) /\ Len(b) = Len(t)-p /\ \A i \in 1 .. Len(t)-p : b[i] = t[p+i]
  BY <1>1
<1>4. RemoveAt(t, p) = a \o b
  BY DEF RemoveAt
<1> HIDE DEF a, b
<1> DEFINE d == a \o b
<1>5. /\ d \in Seq(S) /\ Len(d) = Len(a) + Len(b)
      /\ \A i \in 1 .. Len(a) + Len(b) : d[i] = IF i <= Len(a) THEN a[i] ELSE b[i - Len(a)]
  <2>1. a \in Seq(S) /\ b \in Seq(S)
    BY <1>2, <1>3
  <2>2. QED
    BY <2>1, ConcatProperties
<1> HIDE DEF d
<1>6. Len(d) = Len(t) - 1
  BY <1>1, <1>2, <1>3, <1>5
<1>7. ASSUME NEW i \in 1 .. Len(t)
      PROVE  t[i] = IF i < p THEN d[i] ELSE IF i = p THEN t[p] ELSE d[i-1]
  <2>1. CASE i < p
    <3>1. i \in 1 .. Len(a) + Len(b) /\ i <= Len(a) /\ i \in 1 .. p-1
      BY <1>1, <1>2, <1>3, <2>1
    <3>2. QED
      BY <1>2, <1>5, <2>1, <3>1
  <2>2. CASE i > p
    <3>1. /\ i-1 \in 1 .. Len(a) + Len(b) /\ ~(i-1 <= Len(a)) /\ (i-1) - Len(a) = i-p
          /\ i-p \in 1 .. Len(t)-p /\ p+(i-p) = i /\ ~(i < p) /\ i # p
      BY <1>1, <1>2, <1>3, <2>2
    <3>2. d[i-1] = b[i-p]
      BY <1>5, <3>1
    <3>3. QED
      BY <1>3, <3>1, <3>2
  <2>3. QED
    BY <1>1, <2>1, <2>2
<1>8. RemoveAt(t, p) = d
  BY <1>4 DEF d
<1>9. QED
  BY <1>1, <1>5, <1>6, <1>7, <1>8 DEF Inserted

\* What is at each place of a sequence with one element more.
LEMMA AtInserted ==
  ASSUME NEW S, NEW s \in Seq(S), NEW t \in Seq(S), NEW p \in 1 .. Len(s)+1, NEW x,
         Inserted(s, t, p, x)
  PROVE  /\ p \in 1 .. Len(t) /\ At(t, p) = x /\ t[p] = x
         /\ \A i \in Int : i < p => At(t, i) = At(s, i)
         /\ \A i \in Int : i > p => At(t, i) = At(s, i-1)
<1>1. Len(s) \in Nat /\ Len(t) = Len(s) + 1 /\ p \in Nat
  BY DEF Inserted
<1>2. \A i \in 1 .. Len(t) : t[i] = IF i < p THEN s[i] ELSE IF i = p THEN x ELSE s[i-1]
  BY DEF Inserted
<1>3. p \in 1 .. Len(t) /\ t[p] = x
  BY <1>1, <1>2
<1>4. \A i \in Int : i < p => At(t, i) = At(s, i)
  <2>1. ASSUME NEW i \in Int, i < p
        PROVE  (i \in 1 .. Len(t) <=> i \in 1 .. Len(s)) /\ (i \in 1 .. Len(t) => t[i] = s[i])
    BY <1>1, <1>2, <2>1
  <2>2. QED
    BY <2>1 DEF At
<1>5. \A i \in Int : i > p => At(t, i) = At(s, i-1)
  <2>1. ASSUME NEW i \in Int, i > p
        PROVE  (i \in 1 .. Len(t) <=> i-1 \in 1 .. Len(s)) /\ (i \in 1 .. Len(t) => t[i] = s[i-1])
    BY <1>1, <1>2, <2>1
  <2>2. QED
    BY <2>1 DEF At
<1>6. QED
  BY <1>3, <1>4, <1>5 DEF At

\* There is only one such sequence.
LEMMA InsertedIsOne ==
  ASSUME NEW S, NEW s \in Seq(S), NEW t \in Seq(S), NEW u \in Seq(S), NEW p, NEW x,
         Inserted(s, t, p, x), Inserted(s, u, p, x)
  PROVE  t = u
<1>1. Len(t) = Len(u) /\ \A i \in 1 .. Len(t) : t[i] = u[i]
  BY DEF Inserted
<1>2. QED
  BY <1>1, SeqEqual

LEMMA RemovedIsOne ==
  ASSUME NEW S, NEW s \in Seq(S), NEW t \in Seq(S), NEW u \in Seq(S),
         NEW p \in 1 .. Len(s), NEW x,
         Inserted(t, s, p, x), Inserted(u, s, p, x)
  PROVE  t = u
<1>1. Len(t) \in Nat /\ Len(u) = Len(t) /\ Len(s) = Len(t) + 1 /\ p \in Nat
  BY DEF Inserted
<1>2. ASSUME NEW i \in 1 .. Len(t) PROVE t[i] = u[i]
  <2>1. CASE i < p
    <3>1. i \in 1 .. Len(s)
      BY <1>1
    <3>2. QED
      BY <2>1, <3>1 DEF Inserted
  <2>2. CASE i >= p
    <3>1. i+1 \in 1 .. Len(s) /\ ~(i+1 < p) /\ i+1 # p /\ (i+1)-1 = i
      BY <1>1, <2>2
    <3>2. s[i+1] = t[(i+1)-1] /\ s[i+1] = u[(i+1)-1]
      BY <3>1 DEF Inserted
    <3>3. QED
      BY <3>1, <3>2
  <2>3. QED
    BY <1>1, <2>1, <2>2
<1>3. QED
  BY <1>1, <1>2, SeqEqual
-----------------------------------------------------------------------------
(***************************************************************************)
(* Families of lists: the free list, under NULL, and each queue's.         *)
(***************************************************************************)
ListIds == Queues \cup {NULL}

\* Each node is in one of the lists, once.
Spread(L) ==
  /\ L \in [ListIds -> Seq(Nodes)]
  /\ \A a, b \in ListIds : \A i \in 1 .. Len(L[a]), j \in 1 .. Len(L[b]) :
       L[a][i] = L[b][j] => a = b /\ i = j
  /\ \A n \in Nodes : \E a \in ListIds : \E i \in 1 .. Len(L[a]) : L[a][i] = n

\* The links pv and nx, the free list's first node fr, and the ends hd and tl of the
\* queues, ordered as cmp says, are those of L.
Linked(L, pv, nx, fr, hd, tl, cmp) ==
  /\ \A a \in ListIds : \A i \in 1 .. Len(L[a]) : nx[L[a][i]] = At(L[a], i+1)
  /\ fr = At(L[NULL], 1)
  /\ \A q \in Queues :
       IF cmp[q] = UNUSED THEN L[q] = <<>>
       ELSE /\ hd[q] = At(L[q], 1)
            /\ tl[q] = At(L[q], Len(L[q]))
            /\ \A i \in 1 .. Len(L[q]) : pv[L[q][i]] = At(L[q], i-1)

\* M is L with node x, that was at place i of list a, at place j of list b.
Moved(L, M, a, i, b, j, x) ==
  /\ L[a] \in Seq(Nodes) /\ M[a] \in Seq(Nodes) /\ i \in 1 .. Len(M[a])+1
  /\ L[b] \in Seq(Nodes) /\ M[b] \in Seq(Nodes) /\ j \in 1 .. Len(L[b])+1
  /\ Inserted(M[a], L[a], i, x)
  /\ Inserted(L[b], M[b], j, x)
  /\ \A c \in ListIds : c # a /\ c # b => M[c] = L[c]

LEMMA NullIsNoQueue == NULL \notin Queues /\ NULL \in ListIds /\ NULL \notin Nodes
BY DEF NULL, Queues, ListIds, Nodes

LEMMA SpreadMoves ==
  ASSUME NEW L, NEW M \in [ListIds -> Seq(Nodes)], NEW a \in ListIds, NEW b \in ListIds, a # b,
         NEW i, NEW j, NEW x, Spread(L), Moved(L, M, a, i, b, j, x)
  PROVE  Spread(M)
<1> DEFINE ListBefore(c, k) == IF c = b /\ k = j THEN a ELSE c
           PlaceBefore(c, k) == IF c = a THEN IF k < i THEN k ELSE k+1
                                ELSE IF c = b THEN IF k < j THEN k ELSE IF k = j THEN i ELSE k-1
                                ELSE k
<1>1. /\ L \in [ListIds -> Seq(Nodes)]
      /\ Len(L[a]) \in Nat /\ Len(M[a]) \in Nat /\ Len(L[a]) = Len(M[a]) + 1
      /\ Len(L[b]) \in Nat /\ Len(M[b]) \in Nat /\ Len(M[b]) = Len(L[b]) + 1
      /\ i \in 1 .. Len(L[a]) /\ j \in 1 .. Len(M[b])
  <2>1. L \in [ListIds -> Seq(Nodes)]
    BY DEF Spread
  <2>2. /\ i \in 1 .. Len(M[a])+1 /\ Len(L[a]) = Len(M[a]) + 1
        /\ j \in 1 .. Len(L[b])+1 /\ Len(M[b]) = Len(L[b]) + 1
    BY DEF Moved, Inserted
  <2>3. Len(L[a]) \in Nat /\ Len(M[a]) \in Nat /\ Len(L[b]) \in Nat /\ Len(M[b]) \in Nat
    BY <2>1
  <2>4. QED
    BY <2>1, <2>2, <2>3
<1>2. \A k \in 1 .. Len(L[a]) : L[a][k] = IF k < i THEN M[a][k] ELSE IF k = i THEN x ELSE M[a][k-1]
  BY DEF Moved, Inserted
<1>3. \A k \in 1 .. Len(M[b]) : M[b][k] = IF k < j THEN L[b][k] ELSE IF k = j THEN x ELSE L[b][k-1]
  BY DEF Moved, Inserted
<1>4. \A c \in ListIds : c # a /\ c # b => M[c] = L[c]
  BY DEF Moved
<1>5. ASSUME NEW c \in ListIds, NEW k \in 1 .. Len(M[c])
      PROVE  /\ ListBefore(c, k) \in ListIds
             /\ PlaceBefore(c, k) \in 1 .. Len(L[ListBefore(c, k)])
             /\ L[ListBefore(c, k)][PlaceBefore(c, k)] = M[c][k]
  <2>1. CASE c = a
    <3>1. k \in Nat /\ k \in 1 .. Len(M[a]) /\ ListBefore(c, k) = a
      BY <1>1, <2>1
    <3>2. CASE k < i
      BY <1>1, <1>2, <2>1, <3>1, <3>2
    <3>3. CASE k >= i
      <4>1. k+1 \in 1 .. Len(L[a]) /\ ~(k+1 < i) /\ k+1 # i /\ (k+1)-1 = k
        BY <1>1, <3>1, <3>3
      <4>2. L[a][k+1] = M[a][k]
        BY <1>2, <4>1
      <4>3. QED
        BY <1>1, <2>1, <3>1, <3>3, <4>1, <4>2
    <3>4. QED
      BY <1>1, <3>1, <3>2, <3>3
  <2>2. CASE c = b
    <3>1. k \in Nat /\ k \in 1 .. Len(M[b])
      BY <1>1, <2>2
    <3>2. CASE k < j
      BY <1>1, <1>3, <2>2, <3>1, <3>2
    <3>3. CASE k = j
      BY <1>1, <1>2, <1>3, <2>2, <3>1, <3>3
    <3>4. CASE k > j
      <4>1. k-1 \in 1 .. Len(L[b]) /\ ~(k < j) /\ k # j
        BY <1>1, <3>1, <3>4
      <4>2. L[b][k-1] = M[b][k]
        BY <1>3, <3>1, <4>1
      <4>3. QED
        BY <1>1, <2>2, <3>1, <3>4, <4>1, <4>2
    <3>5. QED
      BY <1>1, <3>1, <3>2, <3>3, <3>4
  <2>3. CASE c # a /\ c # b
    BY <1>4, <2>3
  <2>4. QED
    BY <2>1, <2>2, <2>3
<1>6. ASSUME NEW c \in ListIds, NEW d \in ListIds,
             NEW k \in 1 .. Len(M[c]), NEW l \in 1 .. Len(M[d]),
             ListBefore(c, k) = ListBefore(d, l), PlaceBefore(c, k) = PlaceBefore(d, l)
      PROVE  c = d /\ k = l
  <2>1. k \in Nat /\ l \in Nat /\ i \in Nat /\ j \in Nat
    BY <1>1
  <2>2. QED
    BY <1>6, <2>1
<1>7. ASSUME NEW c \in ListIds, NEW d \in ListIds,
             NEW k \in 1 .. Len(M[c]), NEW l \in 1 .. Len(M[d]), M[c][k] = M[d][l]
      PROVE  c = d /\ k = l
  <2>1. L[ListBefore(c, k)][PlaceBefore(c, k)] = L[ListBefore(d, l)][PlaceBefore(d, l)]
    BY <1>5, <1>7
  <2>2. ListBefore(c, k) = ListBefore(d, l) /\ PlaceBefore(c, k) = PlaceBefore(d, l)
    <3>1. /\ ListBefore(c, k) \in ListIds /\ PlaceBefore(c, k) \in 1 .. Len(L[ListBefore(c, k)])
          /\ ListBefore(d, l) \in ListIds /\ PlaceBefore(d, l) \in 1 .. Len(L[ListBefore(d, l)])
      BY <1>5
    <3>2. \A g, h \in ListIds : \A m \in 1 .. Len(L[g]), n \in 1 .. Len(L[h]) :
            L[g][m] = L[h][n] => g = h /\ m = n
      BY DEF Spread
    <3> HIDE DEF ListBefore, PlaceBefore
    <3>3. QED
      BY <2>1, <3>1, <3>2
  <2> HIDE DEF ListBefore, PlaceBefore
  <2>3. QED
    BY <1>6, <2>2
<1>8. ASSUME NEW n \in Nodes
      PROVE  \E c \in ListIds : \E k \in 1 .. Len(M[c]) : M[c][k] = n
  <2>1. PICK c \in ListIds : \E k \in 1 .. Len(L[c]) : L[c][k] = n
    BY DEF Spread
  <2>2. PICK k \in 1 .. Len(L[c]) : L[c][k] = n
    BY <2>1
  <2>3. CASE c = a
    <3>1. CASE k < i
      <4>1. k \in 1 .. Len(M[a]) /\ M[a][k] = n
        BY <1>1, <1>2, <2>2, <2>3, <3>1
      <4>2. QED
        BY <4>1
    <3>2. CASE k = i
      <4>1. M[b][j] = n
        BY <1>1, <1>2, <1>3, <2>2, <2>3, <3>2
      <4>2. QED
        BY <1>1, <4>1
    <3>3. CASE k > i
      <4>1. k-1 \in 1 .. Len(M[a]) /\ M[a][k-1] = n
        BY <1>1, <1>2, <2>2, <2>3, <3>3
      <4>2. QED
        BY <4>1
    <3>4. k \in Nat /\ i \in Nat
      BY <1>1, <2>3
    <3>5. QED
      BY <3>1, <3>2, <3>3, <3>4
  <2>4. CASE c = b
    <3>1. CASE k < j
      <4>1. k \in 1 .. Len(M[b]) /\ M[b][k] = n
        BY <1>1, <1>3, <2>2, <2>4, <3>1
      <4>2. QED
        BY <4>1
    <3>2. CASE k >= j
      <4>1. k+1 \in 1 .. Len(M[b]) /\ ~(k+1 < j) /\ k+1 # j /\ (k+1)-1 = k
        BY <1>1, <2>4, <3>2
      <4>2. M[b][k+1] = n
        BY <1>3, <2>2, <2>4, <4>1
      <4>3. QED
        BY <4>1, <4>2
    <3>3. k \in Nat /\ j \in Nat
      BY <1>1, <2>4
    <3>4. QED
      BY <3>1, <3>2, <3>3
  <2>5. CASE c # a /\ c # b
    BY <1>4, <2>2, <2>5
  <2>6. QED
    BY <2>3, <2>4, <2>5
<1> HIDE DEF ListBefore, PlaceBefore
<1>9. QED
  BY <1>7, <1>8 DEF Spread

\* The lists that the links make up are those that they are the links of.
ListsOf(nx, fr, hd, cmp) ==
  [a \in ListIds |-> IF a = NULL THEN Chain(nx, fr)
                     ELSE IF cmp[a] = UNUSED THEN <<>> ELSE Chain(nx, hd[a])]

LEMMA ListsAre ==
  ASSUME NEW L, NEW pv, NEW nx, NEW fr, NEW hd, NEW tl, NEW cmp,
         Spread(L), Linked(L, pv, nx, fr, hd, tl, cmp)
  PROVE  ListsOf(nx, fr, hd, cmp) = L
<1>1. L \in [ListIds -> Seq(Nodes)]
  BY DEF Spread
<1>2. \A a \in ListIds : Chain(nx, At(L[a], 1)) = L[a]
  <2> SUFFICES ASSUME NEW a \in ListIds PROVE Chain(nx, At(L[a], 1)) = L[a]
    OBVIOUS
  <2>1. L[a] \in Seq(Nodes) /\ \A i, j \in 1 .. Len(L[a]) : L[a][i] = L[a][j] => i = j
    BY DEF Spread
  <2>2. \A i \in 1 .. Len(L[a]) : nx[L[a][i]] = At(L[a], i+1)
    BY DEF Linked
  <2>3. QED
    BY <2>1, <2>2, ChainIs
<1>3. fr = At(L[NULL], 1)
  BY DEF Linked
<1>4. \A q \in Queues : IF cmp[q] = UNUSED THEN L[q] = <<>> ELSE hd[q] = At(L[q], 1)
  BY DEF Linked
<1>5. \A a \in ListIds : L[a] = IF a = NULL THEN Chain(nx, fr)
                                ELSE IF cmp[a] = UNUSED THEN <<>> ELSE Chain(nx, hd[a])
  BY <1>2, <1>3, <1>4 DEF ListIds
<1>6. QED
  BY <1>1, <1>5 DEF ListsOf
-----------------------------------------------------------------------------
(***************************************************************************)
(* What insertion and removal do to the links.                             *)
(***************************************************************************)

\* Facts about the places of a family of lists that both proofs use.
LEMMA Places ==
  ASSUME NEW L, Spread(L)
  PROVE  /\ \A a \in ListIds : L[a] \in Seq(Nodes) /\ Len(L[a]) \in Nat
         /\ \A a \in ListIds : \A i \in 1 .. Len(L[a]) : At(L[a], i) = L[a][i] /\ L[a][i] \in Nodes
         /\ \A a \in ListIds : \A i \in Int : i \notin 1 .. Len(L[a]) => At(L[a], i) = NULL
         /\ \A a, b \in ListIds : \A i \in 1 .. Len(L[a]) : \A j \in Int :
              L[a][i] = At(L[b], j) => a = b /\ i = j
<1>1. \A a \in ListIds : L[a] \in Seq(Nodes) /\ Len(L[a]) \in Nat
  BY DEF Spread
<1>2. \A a \in ListIds : \A i \in 1 .. Len(L[a]) : At(L[a], i) = L[a][i] /\ L[a][i] \in Nodes
  BY <1>1 DEF At
<1>3. \A a \in ListIds : \A i \in Int : i \notin 1 .. Len(L[a]) => At(L[a], i) = NULL
  BY DEF At
<1>4. \A a, b \in ListIds : \A i \in 1 .. Len(L[a]), j \in 1 .. Len(L[b]) :
        L[a][i] = L[b][j] => a = b /\ i = j
  BY DEF Spread
<1>5. ASSUME NEW a \in ListIds, NEW b \in ListIds, NEW i \in 1 .. Len(L[a]), NEW j \in Int,
             L[a][i] = At(L[b], j)
      PROVE  a = b /\ i = j
  <2>1. j \in 1 .. Len(L[b])
    BY <1>2, <1>3, <1>5, NullIsNoQueue
  <2>2. QED
    BY <1>2, <1>4, <1>5, <2>1
<1>6. QED
  BY <1>1, <1>2, <1>3, <1>5

\* A free node is linked in at place p of queue q.
LEMMA LinkIn ==
  ASSUME NEW L, NEW M, NEW q, NEW p, NEW x, NEW left, NEW curr,
         q \in Queues, p \in 1 .. Len(L[q])+1, compare[q] # UNUSED,
         Spread(L), Spread(M), Moved(L, M, NULL, 1, q, p, x),
         Linked(L, prev, next, qnode_list, head, tail, compare),
         left = At(L[q], p-1), curr = At(L[q], p),
         \A n \in Nodes : prev'[n] = IF n = curr THEN x ELSE IF n = x THEN left ELSE prev[n],
         \A n \in Nodes : next'[n] = IF n = left THEN x ELSE IF n = x THEN curr ELSE next[n],
         \A r \in Queues : head'[r] = IF r = q /\ left = NULL THEN x ELSE head[r],
         \A r \in Queues : tail'[r] = IF r = q /\ curr = NULL THEN x ELSE tail[r]
  PROVE  Linked(M, prev', next', next[x], head', tail', compare)
<1> DEFINE LF == L[NULL]
           MF == M[NULL]
           LQ == L[q]
           MQ == M[q]
<1>1. q \in ListIds /\ NULL \in ListIds /\ q # NULL /\ NULL \notin Nodes
  BY NullIsNoQueue DEF ListIds
<1>2. /\ LF \in Seq(Nodes) /\ MF \in Seq(Nodes) /\ LQ \in Seq(Nodes) /\ MQ \in Seq(Nodes)
      /\ Len(LF) \in Nat /\ Len(MF) \in Nat /\ Len(LQ) \in Nat /\ Len(MQ) \in Nat
  BY <1>1, Places
<1>3. Inserted(MF, LF, 1, x) /\ Inserted(LQ, MQ, p, x) /\ 1 \in 1 .. Len(MF)+1
  BY <1>2 DEF Moved
<1>4. /\ 1 \in 1 .. Len(LF) /\ At(LF, 1) = x /\ LF[1] = x
      /\ \A i \in Int : i > 1 => At(LF, i) = At(MF, i-1)
  BY <1>2, <1>3, AtInserted
<1>5. /\ p \in 1 .. Len(MQ) /\ At(MQ, p) = x /\ MQ[p] = x
      /\ \A i \in Int : i < p => At(MQ, i) = At(LQ, i)
      /\ \A i \in Int : i > p => At(MQ, i) = At(LQ, i-1)
  BY <1>2, <1>3, AtInserted
<1>6. Len(LF) = Len(MF) + 1 /\ Len(MQ) = Len(LQ) + 1 /\ p \in Nat
  BY <1>2, <1>3 DEF Inserted
<1>7. \A c \in ListIds : c # NULL /\ c # q => M[c] = L[c]
  BY DEF Moved
<1>8. x \in Nodes /\ x # left /\ x # curr
  BY <1>1, <1>4, Places
<1>9. ASSUME NEW c \in ListIds, NEW k \in 1 .. Len(M[c]) PROVE next'[M[c][k]] = At(M[c], k+1)
  <2>1. CASE c = NULL
    <3>1. k \in Nat /\ k >= 1 /\ k+1 \in 1 .. Len(LF) /\ k \in 1 .. Len(MF)
      BY <1>2, <1>6, <2>1
    <3>2. M[c][k] = LF[k+1] /\ LF[k+1] \in Nodes
      <4>1. At(LF, k+1) = At(MF, (k+1)-1)
        BY <1>4, <3>1
      <4>2. At(MF, k) = MF[k] /\ At(LF, k+1) = LF[k+1] /\ LF[k+1] \in Nodes
        BY <1>1, <3>1, Places
      <4>3. QED
        BY <2>1, <3>1, <4>1, <4>2
    <3>3. LF[k+1] # x /\ LF[k+1] # left
      <4>1. LF[k+1] = At(LF, 1) => k+1 = 1
        BY <1>1, <3>1, Places
      <4>2. p-1 \in Int /\ LF[k+1] # At(LQ, p-1)
        BY <1>1, <1>6, <3>1, Places
      <4>3. QED
        BY <1>4, <3>1, <4>1, <4>2
    <3>4. next[LF[k+1]] = At(LF, (k+1)+1)
      BY <1>1, <3>1 DEF Linked
    <3>5. At(LF, (k+1)+1) = At(MF, k+1)
      BY <1>4, <3>1
    <3>6. QED
      BY <2>1, <3>2, <3>3, <3>4, <3>5
  <2>2. CASE c = q
    <3>1. k \in Nat /\ k \in 1 .. Len(MQ) /\ MQ[k] = At(MQ, k) /\ MQ[k] \in Nodes
      BY <1>1, <1>2, <2>2, Places
    <3>2. CASE k < p
      <4>1. k \in 1 .. Len(LQ) /\ k \in Int /\ p-1 \in 1 .. Len(LQ)
        BY <1>2, <1>6, <3>1, <3>2
      <4>2. MQ[k] = LQ[k] /\ LQ[k] = At(LQ, k)
        BY <1>1, <1>5, <3>1, <3>2, <4>1, Places
      <4>3. MQ[k] # x
        BY <1>1, <1>4, <4>1, <4>2, Places
      <4>4. MQ[k] = left <=> k = p-1
        BY <1>1, <4>1, <4>2, Places
      <4>5. next[LQ[k]] = At(LQ, k+1)
        BY <1>1, <4>1 DEF Linked
      <4>6. k # p-1 => At(MQ, k+1) = At(LQ, k+1)
        BY <1>5, <1>6, <3>1, <3>2
      <4>7. k = p-1 => At(MQ, k+1) = x
        BY <1>5, <1>6, <3>1
      <4>8. QED
        BY <2>2, <3>1, <4>2, <4>3, <4>4, <4>5, <4>6, <4>7
    <3>3. CASE k = p
      <4>1. MQ[k] = x /\ next'[x] = curr
        BY <1>5, <1>8, <3>3
      <4>2. At(MQ, k+1) = At(LQ, p)
        BY <1>5, <1>6, <3>3
      <4>3. QED
        BY <2>2, <4>1, <4>2
    <3>4. CASE k > p
      <4>1. k-1 \in 1 .. Len(LQ) /\ k \in Int
        BY <1>2, <1>6, <3>1, <3>4
      <4>2. MQ[k] = LQ[k-1] /\ LQ[k-1] = At(LQ, k-1)
        BY <1>1, <1>5, <3>1, <3>4, <4>1, Places
      <4>3. MQ[k] # x
        BY <1>1, <1>4, <4>1, <4>2, Places
      <4>4. MQ[k] # left
        <5>1. p-1 \in Int
          BY <1>6
        <5>2. LQ[k-1] = At(LQ, p-1) => k-1 = p-1
          BY <1>1, <4>1, <5>1, Places
        <5>3. QED
          BY <1>6, <3>1, <3>4, <4>2, <5>2
      <4>5. next[LQ[k-1]] = At(LQ, (k-1)+1)
        BY <1>1, <4>1 DEF Linked
      <4>6. At(MQ, k+1) = At(LQ, (k-1)+1)
        BY <1>5, <1>6, <3>1, <3>4
      <4>7. QED
        BY <2>2, <3>1, <4>2, <4>3, <4>4, <4>5, <4>6
    <3>5. QED
      BY <1>6, <3>1, <3>2, <3>3, <3>4
  <2>3. CASE c # NULL /\ c # q
    <3>1. M[c] = L[c] /\ k \in 1 .. Len(L[c]) /\ L[c][k] \in Nodes
      BY <1>7, <2>3, Places
    <3>2. L[c][k] # x /\ L[c][k] # left
      <4>1. p-1 \in Int
        BY <1>6
      <4>2. QED
        BY <1>1, <1>4, <2>3, <3>1, <4>1, Places
    <3>3. next[L[c][k]] = At(L[c], k+1)
      BY <3>1 DEF Linked
    <3>4. QED
      BY <3>1, <3>2, <3>3
  <2>4. QED
    BY <2>1, <2>2, <2>3
<1>10. next[x] = At(MF, 1)
  <2>1. next[LF[1]] = At(LF, 1+1)
    BY <1>1, <1>4 DEF Linked
  <2>2. At(LF, 1+1) = At(MF, 1)
    BY <1>4
  <2>3. QED
    BY <1>4, <2>1, <2>2
<1>11. head'[q] = At(MQ, 1)
  <2>1. head[q] = At(LQ, 1)
    BY DEF Linked
  <2>2. CASE p = 1
    <3>1. left = NULL
      BY <1>1, <2>2, Places
    <3>2. QED
      BY <1>5, <2>2, <3>1
  <2>3. CASE p # 1
    <3>1. p-1 \in 1 .. Len(LQ) /\ 1 < p
      BY <1>6, <1>2, <2>3
    <3>2. left # NULL
      <4>1. left = LQ[p-1] /\ LQ[p-1] \in Nodes
        BY <1>1, <3>1, Places
      <4>2. QED
        BY <1>1, <4>1
    <3>3. At(MQ, 1) = At(LQ, 1)
      BY <1>5, <3>1
    <3>4. QED
      BY <2>1, <3>2, <3>3
  <2>4. QED
    BY <2>2, <2>3
<1>12. tail'[q] = At(MQ, Len(MQ))
  <2>1. tail[q] = At(LQ, Len(LQ))
    BY DEF Linked
  <2>2. CASE p = Len(LQ) + 1
    <3>1. p \notin 1 .. Len(LQ) /\ p \in Int
      BY <1>2, <1>6, <2>2
    <3>2. curr = NULL
      BY <1>1, <3>1, Places
    <3>3. QED
      BY <1>5, <1>6, <2>2, <3>2
  <2>3. CASE p # Len(LQ) + 1
    <3>1. p \in 1 .. Len(LQ) /\ Len(MQ) \in Int /\ Len(MQ) > p /\ Len(MQ)-1 = Len(LQ)
      BY <1>2, <1>6, <2>3
    <3>2. curr # NULL
      <4>1. curr = LQ[p] /\ LQ[p] \in Nodes
        BY <1>1, <3>1, Places
      <4>2. QED
        BY <1>1, <4>1
    <3>3. At(MQ, Len(MQ)) = At(LQ, Len(LQ))
      BY <1>5, <3>1
    <3>4. QED
      BY <2>1, <3>2, <3>3
  <2>4. QED
    BY <2>2, <2>3
<1>13. ASSUME NEW k \in 1 .. Len(MQ) PROVE prev'[MQ[k]] = At(MQ, k-1)
  <2>1. k \in Nat /\ MQ[k] = At(MQ, k) /\ MQ[k] \in Nodes
    BY <1>1, <1>2, Places
  <2>2. CASE k < p
    <3>1. k \in 1 .. Len(LQ)
      BY <1>2, <1>6, <2>1, <2>2
    <3>2. MQ[k] = LQ[k]
      BY <1>1, <1>5, <2>1, <2>2, <3>1, Places
    <3>3. MQ[k] # x
      BY <1>1, <1>4, <3>1, <3>2, Places
    <3>4. MQ[k] # curr
      BY <1>1, <1>6, <2>1, <2>2, <3>1, <3>2, Places
    <3>5. prev[LQ[k]] = At(LQ, k-1)
      BY <3>1 DEF Linked
    <3>6. At(MQ, k-1) = At(LQ, k-1)
      BY <1>5, <1>6, <2>1, <2>2
    <3>7. QED
      BY <2>1, <3>2, <3>3, <3>4, <3>5, <3>6
  <2>3. CASE k = p
    <3>1. MQ[k] = x /\ prev'[x] = left
      BY <1>5, <1>8, <2>3
    <3>2. At(MQ, k-1) = At(LQ, p-1)
      BY <1>5, <1>6, <2>3
    <3>3. QED
      BY <3>1, <3>2
  <2>4. CASE k > p
    <3>1. k-1 \in 1 .. Len(LQ) /\ p \in Int /\ k-1 \in Int
      BY <1>2, <1>6, <2>1, <2>4
    <3>2. MQ[k] = LQ[k-1]
      BY <1>1, <1>5, <2>1, <2>4, <3>1, Places
    <3>3. MQ[k] # x
      BY <1>1, <1>4, <3>1, <3>2, Places
    <3>4. MQ[k] = curr <=> k-1 = p
      BY <1>1, <3>1, <3>2, Places
    <3>5. prev[LQ[k-1]] = At(LQ, (k-1)-1)
      BY <3>1 DEF Linked
    <3>6. k-1 # p => At(MQ, k-1) = At(LQ, (k-1)-1)
      BY <1>5, <1>6, <2>1, <2>4
    <3>7. k-1 = p => At(MQ, k-1) = x
      BY <1>5
    <3>8. QED
      BY <2>1, <3>2, <3>3, <3>4, <3>5, <3>6, <3>7
  <2>5. QED
    BY <1>6, <2>1, <2>2, <2>3, <2>4
<1>14. ASSUME NEW r \in Queues, r # q
       PROVE  IF compare[r] = UNUSED THEN M[r] = <<>>
              ELSE /\ head'[r] = At(M[r], 1)
                   /\ tail'[r] = At(M[r], Len(M[r]))
                   /\ \A k \in 1 .. Len(M[r]) : prev'[M[r][k]] = At(M[r], k-1)
  <2>1. r \in ListIds /\ M[r] = L[r]
    BY <1>7, <1>14, NullIsNoQueue DEF ListIds
  <2>2. CASE compare[r] = UNUSED
    BY <2>1, <2>2 DEF Linked
  <2>3. CASE compare[r] # UNUSED
    <3>1. head'[r] = head[r] /\ tail'[r] = tail[r]
      BY <1>14
    <3>2. /\ head[r] = At(L[r], 1) /\ tail[r] = At(L[r], Len(L[r]))
          /\ \A k \in 1 .. Len(L[r]) : prev[L[r][k]] = At(L[r], k-1)
      BY <2>3 DEF Linked
    <3>3. ASSUME NEW k \in 1 .. Len(L[r]) PROVE prev'[L[r][k]] = prev[L[r][k]]
      <4>1. L[r][k] \in Nodes /\ L[r][k] # x /\ L[r][k] # curr
        BY <1>1, <1>4, <1>6, <1>14, <2>1, Places, NullIsNoQueue
      <4>2. QED
        BY <4>1
    <3>4. QED
      BY <2>1, <2>3, <3>1, <3>2, <3>3
  <2>4. QED
    BY <2>2, <2>3
<1> HIDE DEF LF, MF, LQ, MQ
<1>15. QED
  BY <1>9, <1>10, <1>11, <1>12, <1>13, <1>14 DEF Linked, MF, MQ

\* The node at place p of queue q is linked out, to the front of the free list.
LEMMA LinkOut ==
  ASSUME NEW L, NEW M, NEW q, NEW p, NEW x, NEW left, NEW right,
         q \in Queues, p \in 1 .. Len(L[q]), compare[q] # UNUSED,
         Spread(L), Spread(M), Moved(L, M, q, p, NULL, 1, x),
         Linked(L, prev, next, qnode_list, head, tail, compare),
         left = At(L[q], p-1), right = At(L[q], p+1),
         \A n \in Nodes : prev'[n] = IF n = right THEN left ELSE prev[n],
         \A n \in Nodes : next'[n] = IF n = x THEN qnode_list
                                     ELSE IF n = left THEN right ELSE next[n],
         \A r \in Queues : head'[r] = IF r = q /\ left = NULL THEN right ELSE head[r],
         \A r \in Queues : tail'[r] = IF r = q /\ right = NULL THEN left ELSE tail[r]
  PROVE  Linked(M, prev', next', x, head', tail', compare)
<1> DEFINE LF == L[NULL]
           MF == M[NULL]
           LQ == L[q]
           MQ == M[q]
<1>1. q \in ListIds /\ NULL \in ListIds /\ q # NULL /\ NULL \notin Nodes
  BY NullIsNoQueue DEF ListIds
<1>2. /\ LF \in Seq(Nodes) /\ MF \in Seq(Nodes) /\ LQ \in Seq(Nodes) /\ MQ \in Seq(Nodes)
      /\ Len(LF) \in Nat /\ Len(MF) \in Nat /\ Len(LQ) \in Nat /\ Len(MQ) \in Nat
  BY <1>1, Places
<1>3. /\ Inserted(LF, MF, 1, x) /\ Inserted(MQ, LQ, p, x)
      /\ 1 \in 1 .. Len(LF)+1 /\ p \in 1 .. Len(MQ)+1
  BY <1>2 DEF Moved
<1>4. /\ 1 \in 1 .. Len(MF) /\ At(MF, 1) = x /\ MF[1] = x
      /\ \A i \in Int : i > 1 => At(MF, i) = At(LF, i-1)
  BY <1>2, <1>3, AtInserted
<1>5. /\ p \in 1 .. Len(LQ) /\ At(LQ, p) = x /\ LQ[p] = x
      /\ \A i \in Int : i < p => At(LQ, i) = At(MQ, i)
      /\ \A i \in Int : i > p => At(LQ, i) = At(MQ, i-1)
  BY <1>2, <1>3, AtInserted
<1>6. Len(MF) = Len(LF) + 1 /\ Len(LQ) = Len(MQ) + 1 /\ p \in Nat /\ p-1 \in Int /\ p+1 \in Int
  BY <1>2, <1>3 DEF Inserted
<1>7. \A c \in ListIds : c # NULL /\ c # q => M[c] = L[c]
  BY DEF Moved
<1>8. x \in Nodes /\ x # left /\ x # right
  BY <1>1, <1>5, <1>6, Places
<1>9. ASSUME NEW c \in ListIds, NEW k \in 1 .. Len(M[c]) PROVE next'[M[c][k]] = At(M[c], k+1)
  <2>1. CASE c = NULL
    <3>1. k \in Nat /\ k >= 1 /\ k \in 1 .. Len(MF) /\ MF[k] = At(MF, k) /\ MF[k] \in Nodes
      BY <1>1, <1>2, <2>1, Places
    <3>2. CASE k = 1
      <4>1. next'[MF[k]] = qnode_list /\ qnode_list = At(LF, 1)
        BY <1>4, <1>8, <3>2 DEF Linked
      <4>2. At(MF, k+1) = At(LF, 1)
        BY <1>4, <3>2
      <4>3. QED
        BY <2>1, <4>1, <4>2
    <3>3. CASE k > 1
      <4>1. k-1 \in 1 .. Len(LF)
        BY <1>2, <1>6, <3>1, <3>3
      <4>2. MF[k] = LF[k-1]
        BY <1>1, <1>4, <3>1, <3>3, <4>1, Places
      <4>3. MF[k] # x /\ MF[k] # left
        BY <1>1, <1>5, <1>6, <4>1, <4>2, Places
      <4>4. next[LF[k-1]] = At(LF, (k-1)+1)
        BY <1>1, <4>1 DEF Linked
      <4>5. At(MF, k+1) = At(LF, (k-1)+1)
        BY <1>4, <3>1
      <4>6. QED
        BY <2>1, <3>1, <4>2, <4>3, <4>4, <4>5
    <3>4. QED
      BY <3>1, <3>2, <3>3
  <2>2. CASE c = q
    <3>1. k \in Nat /\ k \in 1 .. Len(MQ) /\ MQ[k] = At(MQ, k) /\ MQ[k] \in Nodes
      BY <1>1, <1>2, <2>2, Places
    <3>2. CASE k < p
      <4>1. k \in 1 .. Len(LQ)
        BY <1>2, <1>6, <3>1
      <4>2. MQ[k] = LQ[k]
        BY <1>1, <1>5, <3>1, <3>2, <4>1, Places
      <4>3. MQ[k] # x
        BY <1>1, <1>5, <1>6, <3>1, <3>2, <4>1, <4>2, Places
      <4>4. MQ[k] = left <=> k = p-1
        BY <1>1, <1>6, <4>1, <4>2, Places
      <4>5. next[LQ[k]] = At(LQ, k+1)
        BY <1>1, <4>1 DEF Linked
      <4>6. k # p-1 => At(MQ, k+1) = At(LQ, k+1)
        BY <1>5, <1>6, <3>1, <3>2
      <4>7. k = p-1 => At(MQ, k+1) = right
        <5>1. At(LQ, p+1) = At(MQ, (p+1)-1)
          BY <1>5, <1>6
        <5>2. QED
          BY <1>6, <5>1
      <4>8. QED
        BY <2>2, <3>1, <4>2, <4>3, <4>4, <4>5, <4>6, <4>7
    <3>3. CASE k >= p
      <4>1. k+1 \in 1 .. Len(LQ) /\ k+1 # p /\ k+1 # p-1
        BY <1>2, <1>6, <3>1, <3>3
      <4>2. MQ[k] = LQ[k+1]
        <5>1. At(LQ, k+1) = At(MQ, (k+1)-1)
          BY <1>5, <1>6, <3>1, <3>3
        <5>2. At(LQ, k+1) = LQ[k+1]
          BY <1>1, <4>1, Places
        <5>3. QED
          BY <3>1, <5>1, <5>2
      <4>3. MQ[k] # x /\ MQ[k] # left
        BY <1>1, <1>5, <1>6, <4>1, <4>2, Places
      <4>4. next[LQ[k+1]] = At(LQ, (k+1)+1)
        BY <1>1, <4>1 DEF Linked
      <4>5. At(LQ, (k+1)+1) = At(MQ, k+1)
        BY <1>5, <1>6, <3>1, <3>3
      <4>6. QED
        BY <2>2, <3>1, <4>2, <4>3, <4>4, <4>5
    <3>4. QED
      BY <1>6, <3>1, <3>2, <3>3
  <2>3. CASE c # NULL /\ c # q
    <3>1. M[c] = L[c] /\ k \in 1 .. Len(L[c]) /\ L[c][k] \in Nodes
      BY <1>7, <2>3, Places
    <3>2. L[c][k] # x /\ L[c][k] # left
      BY <1>1, <1>5, <1>6, <2>3, <3>1, Places
    <3>3. next[L[c][k]] = At(L[c], k+1)
      BY <3>1 DEF Linked
    <3>4. QED
      BY <3>1, <3>2, <3>3
  <2>4. QED
    BY <2>1, <2>2, <2>3
<1>10. head'[q] = At(MQ, 1)
  <2>1. head[q] = At(LQ, 1)
    BY DEF Linked
  <2>2. CASE p = 1
    <3>1. left = NULL
      BY <1>1, <2>2, Places
    <3>2. At(LQ, 1+1) = At(MQ, 1)
      BY <1>5, <2>2
    <3>3. QED
      BY <2>2, <3>1, <3>2
  <2>3. CASE p # 1
    <3>1. p-1 \in 1 .. Len(LQ) /\ 1 < p
      BY <1>6, <1>2, <1>5, <2>3
    <3>2. left # NULL
      <4>1. left = LQ[p-1] /\ LQ[p-1] \in Nodes
        BY <1>1, <3>1, Places
      <4>2. QED
        BY <1>1, <4>1
    <3>3. At(MQ, 1) = At(LQ, 1)
      BY <1>5, <3>1
    <3>4. QED
      BY <2>1, <3>2, <3>3
  <2>4. QED
    BY <2>2, <2>3
<1>11. tail'[q] = At(MQ, Len(MQ))
  <2>1. tail[q] = At(LQ, Len(LQ))
    BY DEF Linked
  <2>2. CASE p = Len(LQ)
    <3>1. p+1 \notin 1 .. Len(LQ) /\ Len(MQ) = p-1 /\ Len(MQ) < p
      BY <1>2, <1>6, <2>2
    <3>2. right = NULL
      BY <1>1, <1>6, <3>1, Places
    <3>3. At(LQ, Len(MQ)) = At(MQ, Len(MQ))
      BY <1>2, <1>5, <3>1
    <3>4. QED
      BY <3>1, <3>2, <3>3
  <2>3. CASE p # Len(LQ)
    <3>1. p+1 \in 1 .. Len(LQ) /\ Len(LQ) \in Int /\ Len(LQ) > p /\ Len(LQ)-1 = Len(MQ)
      BY <1>2, <1>5, <1>6, <2>3
    <3>2. right # NULL
      <4>1. right = LQ[p+1] /\ LQ[p+1] \in Nodes
        BY <1>1, <3>1, Places
      <4>2. QED
        BY <1>1, <4>1
    <3>3. At(LQ, Len(LQ)) = At(MQ, Len(MQ))
      BY <1>5, <3>1
    <3>4. QED
      BY <2>1, <3>2, <3>3
  <2>4. QED
    BY <2>2, <2>3
<1>12. ASSUME NEW k \in 1 .. Len(MQ) PROVE prev'[MQ[k]] = At(MQ, k-1)
  <2>1. k \in Nat /\ MQ[k] = At(MQ, k) /\ MQ[k] \in Nodes
    BY <1>1, <1>2, Places
  <2>2. CASE k < p
    <3>1. k \in 1 .. Len(LQ) /\ k # p+1
      BY <1>2, <1>6, <2>1, <2>2
    <3>2. MQ[k] = LQ[k]
      BY <1>1, <1>5, <2>1, <2>2, <3>1, Places
    <3>3. MQ[k] # right
      BY <1>1, <1>6, <3>1, <3>2, Places
    <3>4. prev[LQ[k]] = At(LQ, k-1)
      BY <3>1 DEF Linked
    <3>5. At(MQ, k-1) = At(LQ, k-1)
      BY <1>5, <1>6, <2>1, <2>2
    <3>6. QED
      BY <2>1, <3>2, <3>3, <3>4, <3>5
  <2>3. CASE k >= p
    <3>1. k+1 \in 1 .. Len(LQ)
      BY <1>2, <1>6, <2>1, <2>3
    <3>2. MQ[k] = LQ[k+1]
      <4>1. At(LQ, k+1) = At(MQ, (k+1)-1)
        BY <1>5, <1>6, <2>1, <2>3
      <4>2. At(LQ, k+1) = LQ[k+1]
        BY <1>1, <3>1, Places
      <4>3. QED
        BY <2>1, <4>1, <4>2
    <3>3. MQ[k] = right <=> k+1 = p+1
      BY <1>1, <1>6, <3>1, <3>2, Places
    <3>4. CASE k = p
      <4>1. At(MQ, k-1) = At(LQ, p-1)
        BY <1>5, <1>6, <3>4
      <4>2. QED
        BY <2>1, <3>3, <3>4, <4>1
    <3>5. CASE k # p
      <4>1. prev[LQ[k+1]] = At(LQ, (k+1)-1)
        BY <3>1 DEF Linked
      <4>2. At(LQ, k) = At(MQ, k-1)
        BY <1>5, <1>6, <2>1, <2>3, <3>5
      <4>3. k+1 # p+1 /\ (k+1)-1 = k
        BY <1>6, <2>1, <3>5
      <4>4. QED
        BY <2>1, <3>2, <3>3, <4>1, <4>2, <4>3
    <3>6. QED
      BY <3>4, <3>5
  <2>4. QED
    BY <1>6, <2>1, <2>2, <2>3
<1>13. ASSUME NEW r \in Queues, r # q
       PROVE  IF compare[r] = UNUSED THEN M[r] = <<>>
              ELSE /\ head'[r] = At(M[r], 1)
                   /\ tail'[r] = At(M[r], Len(M[r]))
                   /\ \A k \in 1 .. Len(M[r]) : prev'[M[r][k]] = At(M[r], k-1)
  <2>1. r \in ListIds /\ M[r] = L[r]
    BY <1>7, <1>13, NullIsNoQueue DEF ListIds
  <2>2. CASE compare[r] = UNUSED
    BY <2>1, <2>2 DEF Linked
  <2>3. CASE compare[r] # UNUSED
    <3>1. head'[r] = head[r] /\ tail'[r] = tail[r]
      BY <1>13
    <3>2. /\ head[r] = At(L[r], 1) /\ tail[r] = At(L[r], Len(L[r]))
          /\ \A k \in 1 .. Len(L[r]) : prev[L[r][k]] = At(L[r], k-1)
      BY <2>3 DEF Linked
    <3>3. ASSUME NEW k \in 1 .. Len(L[r]) PROVE prev'[L[r][k]] = prev[L[r][k]]
      <4>1. L[r][k] \in Nodes /\ L[r][k] # right
        BY <1>1, <1>6, <1>13, <2>1, Places, NullIsNoQueue
      <4>2. QED
        BY <4>1
    <3>4. QED
      BY <2>1, <2>3, <3>1, <3>2, <3>3
  <2>4. QED
    BY <2>2, <2>3
<1>14. x = At(MF, 1)
  BY <1>4
<1> HIDE DEF LF, MF, LQ, MQ
<1>15. QED
  BY <1>9, <1>10, <1>11, <1>12, <1>13, <1>14 DEF Linked, MF, MQ

-----------------------------------------------------------------------------
(***************************************************************************)
(* The contents of the queues.                                             *)
(***************************************************************************)
Entry == [data : Data \cup {NULL}, key : Keys \cup {NULL}]

\* What the queues of L hold when dt and ky are the contents of the nodes.
ItemsOf(L, dt, ky) ==
  [q \in Queues |-> [i \in 1 .. Len(L[q]) |-> [data |-> dt[L[q][i]], key |-> ky[L[q][i]]]]]

\* Items, of any values of the variables
ItemsFrom(nx, hd, cmp, dt, ky) ==
  [q \in Queues |->
     LET c == IF cmp[q] = UNUSED THEN <<>> ELSE Chain(nx, hd[q])
     IN  [i \in DOMAIN c |-> [data |-> dt[c[i]], key |-> ky[c[i]]]]]

LEMMA ItemsAre ==
  ASSUME NEW L, NEW pv, NEW nx, NEW fr, NEW hd, NEW tl, NEW cmp, NEW dt, NEW ky,
         Spread(L), Linked(L, pv, nx, fr, hd, tl, cmp)
  PROVE  ItemsFrom(nx, hd, cmp, dt, ky) = ItemsOf(L, dt, ky)
<1>1. ListsOf(nx, fr, hd, cmp) = L
  BY ListsAre
<1>2. \A q \in Queues : (IF cmp[q] = UNUSED THEN <<>> ELSE Chain(nx, hd[q])) = L[q]
  BY <1>1, NullIsNoQueue DEF ListsOf, ListIds
<1>3. \A q \in Queues : DOMAIN L[q] = 1 .. Len(L[q])
  BY DEF Spread, ListIds
<1>4. QED
  BY <1>2, <1>3 DEF ItemsFrom, ItemsOf

\* Lists and Items, now and after a step, in terms of these operators.
LEMMA NowAndNext ==
  /\ Lists = ListsOf(next, qnode_list, head, compare)
  /\ Lists' = ListsOf(next', qnode_list', head', compare')
  /\ Items = ItemsFrom(next, head, compare, data, key)
  /\ Items' = ItemsFrom(next', head', compare', data', key')
BY DEF Lists, Items, InQueue, ListsOf, ItemsFrom, ListIds

\* Each queue's contents are a sequence as long as its list.
Contents(s, l, dt, ky) ==
  /\ s \in Seq(Entry) /\ Len(s) = Len(l) /\ DOMAIN s = 1 .. Len(l)
  /\ \A i \in 1 .. Len(l) : s[i] = [data |-> dt[l[i]], key |-> ky[l[i]]]

LEMMA ItemsType ==
  ASSUME NEW L, Spread(L),
         NEW dt \in [Nodes -> Data \cup {NULL}], NEW ky \in [Nodes -> Keys \cup {NULL}]
  PROVE  \A q \in Queues : Contents(ItemsOf(L, dt, ky)[q], L[q], dt, ky)
<1> SUFFICES ASSUME NEW q \in Queues PROVE Contents(ItemsOf(L, dt, ky)[q], L[q], dt, ky)
  OBVIOUS
<1> DEFINE s == [i \in 1 .. Len(L[q]) |-> [data |-> dt[L[q][i]], key |-> ky[L[q][i]]]]
<1>1. q \in ListIds /\ Len(L[q]) \in Nat /\ \A i \in 1 .. Len(L[q]) : L[q][i] \in Nodes
  BY Places DEF ListIds
<1>2. \A i \in 1 .. Len(L[q]) : s[i] \in Entry
  BY <1>1 DEF Entry
<1>3. s \in Seq(Entry) /\ Len(s) = Len(L[q]) /\ DOMAIN s = 1 .. Len(L[q])
  <2>1. s \in [1 .. Len(L[q]) -> Entry]
    BY <1>2
  <2> HIDE DEF s
  <2>2. QED
    BY <1>1, <2>1
<1>4. ItemsOf(L, dt, ky)[q] = s
  BY DEF ItemsOf
<1>5. QED
  BY <1>3, <1>4 DEF Contents

\* The number of entries in queues with these contents.
Used(its) == Cardinality(UNION {{q} \X DOMAIN its[q] : q \in Queues})

\* All entries are in queues exactly if no node is free.
LEMMA RoomIs ==
  ASSUME NEW L, NEW its, Spread(L), \A q \in Queues : DOMAIN its[q] = 1 .. Len(L[q])
  PROVE  Used(its) \in Nat /\ (Used(its) >= N_QNODES <=> L[NULL] = <<>>)
<1> DEFINE P == UNION {{q} \X DOMAIN its[q] : q \in Queues}
           f == [z \in P |-> L[z[1]][z[2]]]
<1>1. \A z \in P : z[1] \in Queues /\ z[2] \in 1 .. Len(L[z[1]]) /\ z = <<z[1], z[2]>>
  OBVIOUS
<1>2. \A q \in Queues : \A i \in 1 .. Len(L[q]) : <<q, i>> \in P
  OBVIOUS
<1>3. IsFiniteSet(Nodes) /\ Cardinality(Nodes) = N_QNODES /\ N_QNODES \in Nat
  BY FS_Interval, QueueAssumption DEF Nodes
<1> HIDE DEF P
<1>4. f \in Injection(P, Nodes)
  <2>1. \A z \in P : f[z] \in Nodes
    BY <1>1, Places DEF ListIds
  <2>2. ASSUME NEW y \in P, NEW z \in P, f[y] = f[z] PROVE y = z
    <3>1. \A a, b \in ListIds : \A i \in 1 .. Len(L[a]), j \in 1 .. Len(L[b]) :
            L[a][i] = L[b][j] => a = b /\ i = j
      BY DEF Spread
    <3>2. /\ y[1] \in ListIds /\ y[2] \in 1 .. Len(L[y[1]])
          /\ z[1] \in ListIds /\ z[2] \in 1 .. Len(L[z[1]])
      BY <1>1 DEF ListIds
    <3>3. L[y[1]][y[2]] = L[z[1]][z[2]]
      BY <2>2
    <3>4. y[1] = z[1] /\ y[2] = z[2]
      BY <3>1, <3>2, <3>3
    <3>5. QED
      BY <1>1, <3>4
  <2>3. QED
    BY <2>1, <2>2 DEF Injection, IsInjective
<1>5. /\ IsFiniteSet(P) /\ Cardinality(P) <= N_QNODES
      /\ Cardinality(P) = N_QNODES <=> f \in Surjection(P, Nodes)
  BY <1>3, <1>4, FS_Injection
<1>6. Cardinality(P) \in Nat
  BY <1>5, FS_CardinalityType
<1>7. ASSUME L[NULL] = <<>> PROVE f \in Surjection(P, Nodes)
  <2>1. ASSUME NEW n \in Nodes PROVE \E z \in P : f[z] = n
    <3>1. PICK a \in ListIds : \E i \in 1 .. Len(L[a]) : L[a][i] = n
      BY DEF Spread
    <3>2. PICK i \in 1 .. Len(L[a]) : L[a][i] = n
      BY <3>1
    <3>3. a \in Queues
      BY <1>7, <3>2 DEF ListIds
    <3>4. <<a, i>> \in P
      BY <1>2, <3>3
    <3>5. f[<<a, i>>] = n
      BY <3>2, <3>4
    <3>6. QED
      BY <3>4, <3>5
  <2>2. f \in [P -> Nodes]
    BY <1>4 DEF Injection
  <2>3. QED
    BY <2>1, <2>2 DEF Surjection
<1>8. ASSUME L[NULL] # <<>>, f \in Surjection(P, Nodes) PROVE FALSE
  <2>1. NULL \in ListIds /\ L[NULL] \in Seq(Nodes) /\ NULL \notin Queues
    BY Places, NullIsNoQueue
  <2>2. 1 \in 1 .. Len(L[NULL])
    BY <1>8, <2>1
  <2>3. L[NULL][1] \in Nodes
    BY <2>1, <2>2
  <2>4. PICK z \in P : f[z] = L[NULL][1]
    BY <1>8, <2>3 DEF Surjection
  <2>5. z[1] = NULL
    <3>1. \A a, b \in ListIds : \A i \in 1 .. Len(L[a]), j \in 1 .. Len(L[b]) :
            L[a][i] = L[b][j] => a = b /\ i = j
      BY DEF Spread
    <3>2. z[1] \in ListIds /\ z[2] \in 1 .. Len(L[z[1]]) /\ L[z[1]][z[2]] = L[NULL][1]
      BY <1>1, <2>4 DEF ListIds
    <3>3. QED
      BY <2>1, <2>2, <3>1, <3>2
  <2>6. QED
    BY <1>1, <2>1, <2>5
<1>9. Cardinality(P) >= N_QNODES <=> L[NULL] = <<>>
  BY <1>3, <1>5, <1>6, <1>7, <1>8
<1>10. QED
  BY <1>6, <1>9 DEF P, Used

\* The first free node can be put at any place of a queue.
LEMMA FreeToQueue ==
  ASSUME NEW L, Spread(L), L[NULL] # <<>>, NEW q \in Queues, NEW p \in 1 .. Len(L[q])+1
  PROVE  \E M : Spread(M) /\ Moved(L, M, NULL, 1, q, p, At(L[NULL], 1))
<1> DEFINE x == L[NULL][1]
           M == [a \in ListIds |-> IF a = NULL THEN RemoveAt(L[NULL], 1)
                                   ELSE IF a = q THEN InsertAt(L[q], p, x) ELSE L[a]]
<1>1. q \in ListIds /\ NULL \in ListIds /\ q # NULL
  BY NullIsNoQueue DEF ListIds
<1>2. L[NULL] \in Seq(Nodes) /\ L[q] \in Seq(Nodes) /\ 1 \in 1 .. Len(L[NULL])
  BY <1>1, Places
<1>3. x \in Nodes /\ At(L[NULL], 1) = x
  BY <1>1, <1>2, Places
<1>4. RemoveAt(L[NULL], 1) \in Seq(Nodes) /\ Inserted(RemoveAt(L[NULL], 1), L[NULL], 1, x)
  BY <1>2, RemoveAtRemoves
<1>5. InsertAt(L[q], p, x) \in Seq(Nodes) /\ Inserted(L[q], InsertAt(L[q], p, x), p, x)
  BY <1>2, <1>3, InsertAtInserts
<1>6. M[NULL] = RemoveAt(L[NULL], 1) /\ M[q] = InsertAt(L[q], p, x)
      /\ \A a \in ListIds : a # NULL /\ a # q => M[a] = L[a]
  BY <1>1
<1>7. M \in [ListIds -> Seq(Nodes)]
  BY <1>4, <1>5, Places
<1> HIDE DEF M, x
<1>8. Moved(L, M, NULL, 1, q, p, x)
  <2>1. 1 \in 1 .. Len(M[NULL])+1
    BY <1>4, <1>6
  <2>2. QED
    BY <1>2, <1>4, <1>5, <1>6, <2>1 DEF Moved
<1>9. Spread(M)
  BY <1>1, <1>7, <1>8, SpreadMoves
<1>10. QED
  BY <1>3, <1>8, <1>9

\* The node at any place of a queue can be put at the front of the free list.
LEMMA QueueToFree ==
  ASSUME NEW L, Spread(L), NEW q \in Queues, NEW p \in 1 .. Len(L[q])
  PROVE  \E M : Spread(M) /\ Moved(L, M, q, p, NULL, 1, L[q][p])
<1> DEFINE x == L[q][p]
           M == [a \in ListIds |-> IF a = NULL THEN InsertAt(L[NULL], 1, x)
                                   ELSE IF a = q THEN RemoveAt(L[q], p) ELSE L[a]]
<1>1. q \in ListIds /\ NULL \in ListIds /\ q # NULL
  BY NullIsNoQueue DEF ListIds
<1>2. L[NULL] \in Seq(Nodes) /\ L[q] \in Seq(Nodes) /\ Len(L[NULL]) \in Nat
  BY <1>1, Places
<1>3. x \in Nodes /\ 1 \in 1 .. Len(L[NULL])+1
  BY <1>1, <1>2, Places
<1>4. RemoveAt(L[q], p) \in Seq(Nodes) /\ Inserted(RemoveAt(L[q], p), L[q], p, x)
  BY <1>2, RemoveAtRemoves
<1>5. InsertAt(L[NULL], 1, x) \in Seq(Nodes) /\ Inserted(L[NULL], InsertAt(L[NULL], 1, x), 1, x)
  BY <1>2, <1>3, InsertAtInserts
<1>6. M[q] = RemoveAt(L[q], p) /\ M[NULL] = InsertAt(L[NULL], 1, x)
      /\ \A a \in ListIds : a # NULL /\ a # q => M[a] = L[a]
  BY <1>1
<1>7. M \in [ListIds -> Seq(Nodes)]
  BY <1>4, <1>5, Places
<1> HIDE DEF M, x
<1>8. Moved(L, M, q, p, NULL, 1, x)
  <2>1. p \in 1 .. Len(M[q])+1
    <3>1. Len(L[q]) = Len(M[q]) + 1
      BY <1>4, <1>6 DEF Inserted
    <3>2. QED
      BY <3>1
  <2>2. QED
    BY <1>2, <1>3, <1>4, <1>5, <1>6, <2>1 DEF Moved
<1>9. Spread(M)
  BY <1>1, <1>7, <1>8, SpreadMoves
<1>10. QED
  BY <1>8, <1>9 DEF x

\* its with entry e put into queue q at position p, and without its entry there
Put(its, q, p, e) == [its EXCEPT ![q] = InsertAt(@, p, e)]
Dropped(its, q, p) == [its EXCEPT ![q] = RemoveAt(@, p)]

\* An entry's contents are put where its node is.
LEMMA ItemsIn ==
  ASSUME NEW L, NEW M, NEW q, NEW p, NEW x, NEW dt, NEW ky, NEW dt2, NEW ky2, NEW e,
         q \in Queues, p \in 1 .. Len(L[q])+1, x \in Nodes,
         Spread(L), Spread(M), Moved(L, M, NULL, 1, q, p, x),
         dt \in [Nodes -> Data \cup {NULL}], ky \in [Nodes -> Keys \cup {NULL}],
         dt2 \in [Nodes -> Data \cup {NULL}], ky2 \in [Nodes -> Keys \cup {NULL}],
         \A n \in Nodes \ {x} : dt2[n] = dt[n] /\ ky2[n] = ky[n],
         e = [data |-> dt2[x], key |-> ky2[x]]
  PROVE  ItemsOf(M, dt2, ky2) = Put(ItemsOf(L, dt, ky), q, p, e)
<1> DEFINE old == ItemsOf(L, dt, ky)
           new == ItemsOf(M, dt2, ky2)
<1>1. q \in ListIds /\ NULL \in ListIds /\ q # NULL
  BY NullIsNoQueue DEF ListIds
<1>2. e \in Entry
  BY DEF Entry
<1>3. \A n \in Nodes : n # x => dt2[n] = dt[n] /\ ky2[n] = ky[n]
  OBVIOUS
<1>4. ASSUME NEW r \in Queues
      PROVE  Contents(old[r], L[r], dt, ky) /\ Contents(new[r], M[r], dt2, ky2)
  <2>1. \A t \in Queues : Contents(old[t], L[t], dt, ky)
    BY ItemsType
  <2>2. \A t \in Queues : Contents(new[t], M[t], dt2, ky2)
    BY ItemsType
  <2>3. QED
    BY <2>1, <2>2
<1>5. ASSUME NEW r \in Queues, NEW i \in 1 .. Len(L[r])
      PROVE  L[r][i] \in Nodes /\ L[r][i] # x
  <2>1. r \in ListIds /\ r # NULL
    BY NullIsNoQueue DEF ListIds
  <2>2. L[NULL] \in Seq(Nodes) /\ M[NULL] \in Seq(Nodes) /\ Inserted(M[NULL], L[NULL], 1, x)
        /\ 1 \in 1 .. Len(M[NULL])+1
    BY DEF Moved
  <2>3. At(L[NULL], 1) = x
    BY <2>2, AtInserted
  <2>4. QED
    BY <1>1, <2>1, <2>3, Places
<1> HIDE DEF old, new
<1>6. ASSUME NEW r \in Queues, r # q PROVE new[r] = old[r]
  <2>1. M[r] = L[r]
    BY <1>6, NullIsNoQueue DEF Moved, ListIds
  <2>2. /\ old[r] \in Seq(Entry) /\ new[r] \in Seq(Entry)
        /\ Len(old[r]) = Len(L[r]) /\ Len(new[r]) = Len(L[r])
    BY <1>4, <2>1 DEF Contents
  <2>3. ASSUME NEW i \in 1 .. Len(L[r]) PROVE new[r][i] = old[r][i]
    <3>1. old[r][i] = [data |-> dt[L[r][i]], key |-> ky[L[r][i]]]
      BY <1>4 DEF Contents
    <3>2. new[r][i] = [data |-> dt2[L[r][i]], key |-> ky2[L[r][i]]]
      <4>1. Contents(new[r], M[r], dt2, ky2)
        BY <1>4
      <4>2. Contents(new[r], L[r], dt2, ky2)
        BY <2>1, <4>1
      <4>3. QED
        BY <4>2 DEF Contents
    <3>3. QED
      BY <1>3, <1>5, <3>1, <3>2
  <2>4. QED
    BY <2>2, <2>3, SeqEqual
<1>7. new[q] = InsertAt(old[q], p, e)
  <2>1. Inserted(L[q], M[q], p, x)
    BY DEF Moved
  <2>2. Len(L[q]) \in Nat /\ Len(M[q]) = Len(L[q]) + 1 /\ p \in Nat
    BY <1>1, <2>1, Places DEF Inserted
  <2>3. ASSUME NEW i \in 1 .. Len(M[q])
        PROVE  new[q][i] = IF i < p THEN old[q][i] ELSE IF i = p THEN e ELSE old[q][i-1]
    <3>1. M[q][i] = IF i < p THEN L[q][i] ELSE IF i = p THEN x ELSE L[q][i-1]
      BY <2>1 DEF Inserted
    <3>2. new[q][i] = [data |-> dt2[M[q][i]], key |-> ky2[M[q][i]]]
      BY <1>4 DEF Contents
    <3>3. CASE i < p
      <4>1. i \in 1 .. Len(L[q])
        BY <2>2, <3>3
      <4>2. QED
        BY <1>3, <1>4, <1>5, <3>1, <3>2, <3>3, <4>1 DEF Contents
    <3>4. CASE i = p
      BY <1>3, <3>1, <3>2, <3>4, <2>2
    <3>5. CASE i > p
      <4>1. i-1 \in 1 .. Len(L[q]) /\ ~(i < p) /\ i # p
        BY <2>2, <3>5
      <4>2. QED
        BY <1>3, <1>4, <1>5, <3>1, <3>2, <4>1 DEF Contents
    <3>6. QED
      BY <2>2, <3>3, <3>4, <3>5
  <2>4. Inserted(old[q], new[q], p, e)
    BY <1>4, <2>2, <2>3 DEF Inserted, Contents
  <2>5. p \in 1 .. Len(old[q])+1 /\ old[q] \in Seq(Entry) /\ new[q] \in Seq(Entry)
    BY <1>4 DEF Contents
  <2>6. InsertAt(old[q], p, e) \in Seq(Entry) /\ Inserted(old[q], InsertAt(old[q], p, e), p, e)
    BY <1>2, <2>5, InsertAtInserts
  <2>7. QED
    BY <2>4, <2>5, <2>6, InsertedIsOne
<1>8. new = [r \in Queues |-> new[r]] /\ old = [r \in Queues |-> old[r]]
  BY DEF new, old, ItemsOf
<1>9. new = [old EXCEPT ![q] = InsertAt(@, p, e)]
  BY <1>6, <1>7, <1>8
<1>10. QED
  BY <1>9 DEF new, old, Put

\* They leave with it.
LEMMA ItemsOut ==
  ASSUME NEW L, NEW M, NEW q, NEW p, NEW x, NEW dt, NEW ky,
         q \in Queues, p \in 1 .. Len(L[q]),
         Spread(L), Spread(M), Moved(L, M, q, p, NULL, 1, x),
         dt \in [Nodes -> Data \cup {NULL}], ky \in [Nodes -> Keys \cup {NULL}]
  PROVE  ItemsOf(M, dt, ky) = Dropped(ItemsOf(L, dt, ky), q, p)
<1> DEFINE old == ItemsOf(L, dt, ky)
           new == ItemsOf(M, dt, ky)
<1>1. q \in ListIds /\ NULL \in ListIds /\ q # NULL
  BY NullIsNoQueue DEF ListIds
<1>2. ASSUME NEW r \in Queues
      PROVE  Contents(old[r], L[r], dt, ky) /\ Contents(new[r], M[r], dt, ky)
  <2>1. \A t \in Queues : Contents(old[t], L[t], dt, ky)
    BY ItemsType
  <2>2. \A t \in Queues : Contents(new[t], M[t], dt, ky)
    BY ItemsType
  <2>3. QED
    BY <2>1, <2>2
<1> HIDE DEF old, new
<1>3. ASSUME NEW r \in Queues, r # q PROVE new[r] = old[r]
  <2>1. M[r] = L[r]
    BY <1>3, NullIsNoQueue DEF Moved, ListIds
  <2>2. /\ old[r] \in Seq(Entry) /\ new[r] \in Seq(Entry)
        /\ Len(old[r]) = Len(L[r]) /\ Len(new[r]) = Len(L[r])
    BY <1>2, <2>1 DEF Contents
  <2>3. ASSUME NEW i \in 1 .. Len(L[r]) PROVE new[r][i] = old[r][i]
    <3>1. old[r][i] = [data |-> dt[L[r][i]], key |-> ky[L[r][i]]]
      BY <1>2 DEF Contents
    <3>2. new[r][i] = [data |-> dt[L[r][i]], key |-> ky[L[r][i]]]
      BY <1>2, <2>1 DEF Contents
    <3>3. QED
      BY <3>1, <3>2
  <2>4. QED
    BY <2>2, <2>3, SeqEqual
<1>4. new[q] = RemoveAt(old[q], p)
  <2>1. Inserted(M[q], L[q], p, x)
    BY DEF Moved
  <2>2. Len(M[q]) \in Nat /\ Len(L[q]) = Len(M[q]) + 1 /\ p \in Nat
    BY <1>1, <2>1, Places DEF Inserted
  <2>3. ASSUME NEW i \in 1 .. Len(L[q])
        PROVE  old[q][i] = IF i < p THEN new[q][i] ELSE IF i = p THEN old[q][p] ELSE new[q][i-1]
    <3>1. L[q][i] = IF i < p THEN M[q][i] ELSE IF i = p THEN x ELSE M[q][i-1]
      BY <2>1 DEF Inserted
    <3>2. old[q][i] = [data |-> dt[L[q][i]], key |-> ky[L[q][i]]]
      BY <1>2 DEF Contents
    <3>3. CASE i < p
      <4>1. i \in 1 .. Len(M[q])
        BY <2>2, <3>3
      <4>2. QED
        BY <1>2, <3>1, <3>2, <3>3, <4>1 DEF Contents
    <3>4. CASE i > p
      <4>1. i-1 \in 1 .. Len(M[q]) /\ ~(i < p) /\ i # p
        BY <2>2, <3>4
      <4>2. QED
        BY <1>2, <3>1, <3>2, <4>1 DEF Contents
    <3>5. QED
      BY <2>2, <3>3, <3>4
  <2>4. Inserted(new[q], old[q], p, old[q][p])
    BY <1>2, <2>2, <2>3 DEF Inserted, Contents
  <2>5. p \in 1 .. Len(old[q]) /\ old[q] \in Seq(Entry) /\ new[q] \in Seq(Entry)
    BY <1>2 DEF Contents
  <2>6. /\ RemoveAt(old[q], p) \in Seq(Entry)
        /\ Inserted(RemoveAt(old[q], p), old[q], p, old[q][p])
    BY <2>5, RemoveAtRemoves
  <2>7. QED
    BY <2>4, <2>5, <2>6, RemovedIsOne
<1>5. new = [r \in Queues |-> new[r]] /\ old = [r \in Queues |-> old[r]]
  BY DEF new, old, ItemsOf
<1>6. new = [old EXCEPT ![q] = RemoveAt(@, p)]
  BY <1>3, <1>4, <1>5
<1>7. QED
  BY <1>6 DEF new, old, Dropped

-----------------------------------------------------------------------------
(***************************************************************************)
(* The inductive invariant.                                                *)
(***************************************************************************)

\* The queues that are not allocated are the first queue_list ones, each linked to the
\* one before it.
FreeQueues ==
  /\ queue_list \in 0 .. N_QUEUES
  /\ \A q \in Queues : /\ compare[q] = UNUSED <=> q <= queue_list
                       /\ q <= queue_list => head[q] = q-1

IInv ==
  /\ ListsTypeOK
  /\ head \in [Queues -> Nat] /\ tail \in [Queues -> Nat]
  /\ FreeQueues
  /\ Spread(Lists)
  /\ Linked(Lists, prev, next, qnode_list, head, tail, compare)

\* The parts of TypeOK that say where queues begin and end follow from the others.
LEMMA EndsType ==
  ASSUME NEW L, NEW pv, NEW nx, NEW fr, NEW hd, NEW tl, NEW cmp, NEW ql,
         Spread(L), Linked(L, pv, nx, fr, hd, tl, cmp), ql \in 0 .. N_QUEUES,
         \A q \in Queues : /\ cmp[q] = UNUSED <=> q <= ql
                           /\ q <= ql => hd[q] = q-1
  PROVE  /\ fr \in Nodes \cup {NULL}
         /\ ql \in Queues \cup {NULL}
         /\ \A q \in Queues : IF cmp[q] = UNUSED THEN hd[q] \in Queues \cup {NULL}
                              ELSE {hd[q], tl[q]} \subseteq Nodes \cup {NULL}
<1>1. N_QUEUES \in Nat
  BY QueueAssumption
<1>2. \A a \in ListIds : \A i \in Int : At(L[a], i) \in Nodes \cup {NULL}
  BY Places
<1>3. \A a \in ListIds : Len(L[a]) \in Int
  BY Places
<1>4. fr \in Nodes \cup {NULL}
  BY <1>2, NullIsNoQueue DEF Linked
<1>5. ql \in Queues \cup {NULL}
  BY <1>1 DEF Queues, NULL
<1>6. ASSUME NEW q \in Queues, cmp[q] = UNUSED PROVE hd[q] \in Queues \cup {NULL}
  BY <1>1, <1>6 DEF Queues, NULL
<1>7. ASSUME NEW q \in Queues, cmp[q] # UNUSED
      PROVE  hd[q] \in Nodes \cup {NULL} /\ tl[q] \in Nodes \cup {NULL}
  <2>1. hd[q] = At(L[q], 1) /\ tl[q] = At(L[q], Len(L[q])) /\ q \in ListIds
    BY <1>7 DEF Linked, ListIds
  <2>2. QED
    BY <1>2, <1>3, <2>1
<1>8. QED
  BY <1>4, <1>5, <1>6, <1>7

\* What a step has to be shown to do.
LEMMA Rebuilt ==
  ASSUME NEW M, Spread(M), Linked(M, prev', next', qnode_list', head', tail', compare'),
         prev' \in [Nodes -> Nodes \cup {NULL}], next' \in [Nodes -> Nodes \cup {NULL}],
         data' \in [Nodes -> Data \cup {NULL}], key' \in [Nodes -> Keys \cup {NULL}],
         head' \in [Queues -> Nat], tail' \in [Queues -> Nat],
         compare' \in [Queues -> {UNUSED, FIFO, ASCEND}], FreeQueues'
  PROVE  IInv' /\ Lists' = M /\ Items' = ItemsOf(M, data', key')
<1>1. Lists' = M
  BY ListsAre, NowAndNext
<1>2. Items' = ItemsOf(M, data', key')
  BY ItemsAre, NowAndNext
<1>3. /\ queue_list' \in 0 .. N_QUEUES
      /\ \A q \in Queues : /\ compare'[q] = UNUSED <=> q <= queue_list'
                           /\ q <= queue_list' => head'[q] = q-1
  BY DEF FreeQueues
<1>4. /\ qnode_list' \in Nodes \cup {NULL}
      /\ queue_list' \in Queues \cup {NULL}
      /\ \A q \in Queues : IF compare'[q] = UNUSED THEN head'[q] \in Queues \cup {NULL}
                           ELSE {head'[q], tail'[q]} \subseteq Nodes \cup {NULL}
  BY <1>3, EndsType
<1>5. ListsTypeOK'
  BY <1>4 DEF ListsTypeOK
<1>6. QED
  BY <1>1, <1>2, <1>5 DEF IInv

\* What IInv says of the lists and their contents.
LEMMA Now ==
  ASSUME IInv
  PROVE  /\ Spread(Lists) /\ Linked(Lists, prev, next, qnode_list, head, tail, compare)
         /\ Items = ItemsOf(Lists, data, key)
         /\ \A q \in Queues : Contents(Items[q], Lists[q], data, key)
         /\ \A q \in Queues : compare[q] # UNUSED => Chain(next, head[q]) = Lists[q]
         /\ prev \in [Nodes -> Nodes \cup {NULL}] /\ next \in [Nodes -> Nodes \cup {NULL}]
         /\ data \in [Nodes -> Data \cup {NULL}] /\ key \in [Nodes -> Keys \cup {NULL}]
         /\ head \in [Queues -> Nat] /\ tail \in [Queues -> Nat]
         /\ compare \in [Queues -> {UNUSED, FIFO, ASCEND}]
<1>1. Spread(Lists) /\ Linked(Lists, prev, next, qnode_list, head, tail, compare)
  BY DEF IInv
<1>2. Items = ItemsOf(Lists, data, key)
  BY <1>1, ItemsAre, NowAndNext
<1>3. data \in [Nodes -> Data \cup {NULL}] /\ key \in [Nodes -> Keys \cup {NULL}]
  BY DEF IInv, ListsTypeOK
<1>4. \A q \in Queues : Contents(Items[q], Lists[q], data, key)
  BY <1>1, <1>2, <1>3, ItemsType
<1>5. \A q \in Queues : compare[q] # UNUSED => Chain(next, head[q]) = Lists[q]
  BY NullIsNoQueue DEF Lists, InQueue
<1>6. QED
  BY <1>1, <1>2, <1>3, <1>4, <1>5 DEF IInv, ListsTypeOK

\* A step that changes nothing but the result
LEMMA OnlyResult ==
  ASSUME IInv, UNCHANGED <<links, data, key, compare, queue_list>>
  PROVE  IInv' /\ Items' = Items
<1>1. /\ prev' = prev /\ next' = next /\ data' = data /\ key' = key /\ qnode_list' = qnode_list
      /\ head' = head /\ tail' = tail /\ compare' = compare /\ queue_list' = queue_list
  BY DEF links
<1>2. FreeQueues'
  BY <1>1 DEF FreeQueues, IInv
<1>3. QED
  BY <1>1, <1>2, Now, Rebuilt

LEMMA InitInv == ListsInit => IInv /\ Items = [q \in Queues |-> <<>>]
<1> SUFFICES ASSUME ListsInit PROVE IInv /\ Items = [q \in Queues |-> <<>>]
  OBVIOUS
<1> DEFINE free == [i \in 1 .. N_QNODES |-> N_QNODES + 1 - i]
           L == [a \in ListIds |-> IF a = NULL THEN free ELSE <<>>]
<1>1. N_QNODES \in Nat /\ N_QUEUES \in Nat
  BY QueueAssumption
<1>2. \A i \in 1 .. N_QNODES : N_QNODES + 1 - i \in Nodes
  BY <1>1 DEF Nodes
<1>3. free \in [1 .. N_QNODES -> Nodes] /\ \A i \in 1 .. N_QNODES : free[i] = N_QNODES + 1 - i
  BY <1>2
<1> HIDE DEF free
<1>4. free \in Seq(Nodes) /\ Len(free) = N_QNODES
  BY <1>1, <1>3
<1>5. /\ L[NULL] = free /\ NULL \in ListIds
      /\ \A q \in Queues : q \in ListIds /\ q # NULL /\ L[q] = <<>>
  BY NullIsNoQueue DEF ListIds
<1>6. L \in [ListIds -> Seq(Nodes)]
  BY <1>4
<1>7. \A a \in ListIds : a # NULL => L[a] = <<>>
  OBVIOUS
<1> HIDE DEF L
<1>8. Spread(L)
  <2>1. ASSUME NEW a \in ListIds, NEW b \in ListIds,
               NEW i \in 1 .. Len(L[a]), NEW j \in 1 .. Len(L[b]), L[a][i] = L[b][j]
        PROVE  a = b /\ i = j
    <3>1. a = NULL /\ b = NULL
      BY <1>7
    <3>2. QED
      BY <1>1, <1>3, <1>4, <1>5, <2>1, <3>1
  <2>2. ASSUME NEW n \in Nodes
        PROVE  \E a \in ListIds : \E i \in 1 .. Len(L[a]) : L[a][i] = n
    <3>1. N_QNODES + 1 - n \in 1 .. N_QNODES /\ N_QNODES + 1 - (N_QNODES + 1 - n) = n
      BY <1>1 DEF Nodes
    <3>2. L[NULL][N_QNODES + 1 - n] = n
      BY <1>3, <1>5, <3>1
    <3>3. QED
      BY <1>4, <1>5, <3>1, <3>2
  <2>3. QED
    BY <1>6, <2>1, <2>2 DEF Spread
<1>9. Linked(L, prev, next, qnode_list, head, tail, compare)
  <2>1. ASSUME NEW a \in ListIds, NEW i \in 1 .. Len(L[a]) PROVE next[L[a][i]] = At(L[a], i+1)
    <3>1. a = NULL /\ i \in 1 .. N_QNODES
      BY <1>4, <1>5, <1>7
    <3>2. next[L[a][i]] = N_QNODES - i
      BY <1>1, <1>2, <1>3, <1>5, <3>1 DEF ListsInit
    <3>3. At(free, i+1) = N_QNODES - i
      BY <1>1, <1>3, <1>4, <3>1 DEF At, NULL
    <3>4. QED
      BY <1>5, <3>1, <3>2, <3>3
  <2>2. qnode_list = At(L[NULL], 1)
    BY <1>1, <1>3, <1>4, <1>5 DEF At, NULL, ListsInit
  <2>3. \A q \in Queues : compare[q] = UNUSED /\ L[q] = <<>>
    BY <1>5 DEF ListsInit
  <2>4. QED
    BY <2>1, <2>2, <2>3 DEF Linked
<1>10. Lists = L
  BY <1>8, <1>9, ListsAre, NowAndNext
<1>11. /\ queue_list \in 0 .. N_QUEUES
       /\ \A q \in Queues : /\ compare[q] = UNUSED <=> q <= queue_list
                            /\ q <= queue_list => head[q] = q-1
  BY <1>1 DEF ListsInit, Queues
<1>12. /\ prev \in [Nodes -> Nodes \cup {NULL}] /\ next \in [Nodes -> Nodes \cup {NULL}]
       /\ data \in [Nodes -> Data \cup {NULL}] /\ key \in [Nodes -> Keys \cup {NULL}]
       /\ head \in [Queues -> Nat] /\ tail \in [Queues -> Nat]
       /\ compare \in [Queues -> {UNUSED, FIFO, ASCEND}]
  BY <1>1 DEF ListsInit, Nodes, Queues, NULL
<1>13. ListsTypeOK
  <2>1. /\ qnode_list \in Nodes \cup {NULL}
        /\ queue_list \in Queues \cup {NULL}
        /\ \A q \in Queues : IF compare[q] = UNUSED THEN head[q] \in Queues \cup {NULL}
                             ELSE {head[q], tail[q]} \subseteq Nodes \cup {NULL}
    BY <1>8, <1>9, <1>11, EndsType
  <2>2. QED
    BY <1>12, <2>1 DEF ListsTypeOK
<1>14. Items = [q \in Queues |-> <<>>]
  BY <1>5, <1>8, <1>9, ItemsAre, NowAndNext DEF ItemsOf
<1>15. QED
  BY <1>8, <1>9, <1>10, <1>11, <1>12, <1>13, <1>14 DEF IInv, FreeQueues

-----------------------------------------------------------------------------
(***************************************************************************)
(* The calls: each keeps IInv and is a step of QueueSpec.                  *)
(***************************************************************************)

\* Scan finds the first place of the queue whose node is one of stop.
LEMMA ScanPlace ==
  ASSUME IInv, NEW q, NEW stop, NEW met,
         q \in Queues, compare[q] # UNUSED, met \subseteq 1 .. Len(Lists[q]),
         \A i \in 1 .. Len(Lists[q]) : Lists[q][i] \in stop <=> i \in met
  PROVE  /\ met = {} => Scan(q, stop) = NULL
         /\ met # {} => /\ Scan(q, stop) = Lists[q][Min(met)]
                        /\ Min(met) \in 1 .. Len(Lists[q])
<1>1. Chain(next, head[q]) = Lists[q]
  BY Now
<1>2. Lists[q] \in Seq(Nodes) /\ Len(Lists[q]) \in Nat
  BY Now, Places DEF ListIds
<1>3. Scan(q, stop) = IF met = {} THEN NULL ELSE Lists[q][Min(met)]
  <2>1. DOMAIN Lists[q] = 1 .. Len(Lists[q])
    BY <1>2
  <2>2. met = {i \in DOMAIN Lists[q] : Lists[q][i] \in stop}
    BY <2>1
  <2>3. Scan(q, stop) =
          LET m == {i \in DOMAIN Lists[q] : Lists[q][i] \in stop}
          IN  IF m = {} THEN NULL ELSE Lists[q][Min(m)]
    BY ONLY <1>1 DEF Scan
  <2>4. QED
    BY <2>2, <2>3
<1>4. met \subseteq Nat
  BY <1>2
<1>5. met # {} => Min(met) \in met
  BY <1>4, MinLeast
<1>6. QED
  BY <1>3, <1>5

\* What the specification of the queues takes from the modules it extends is the same.
LEMMA SameHelpers ==
  /\ \A S : Abstract!Min(S) = Min(S) /\ Abstract!Cardinality(S) = Cardinality(S)
  /\ \A s, i, x : Abstract!InsertAt(s, i, x) = InsertAt(s, i, x)
  /\ \A s, i : Abstract!RemoveAt(s, i) = RemoveAt(s, i)
  /\ Abstract!Queues = Queues
  /\ Abstract!UNUSED = UNUSED /\ Abstract!FIFO = FIFO /\ Abstract!ASCEND = ASCEND
<1>1. \A S : Abstract!Min(S) = Min(S)
  BY DEF Abstract!Min, Min
<1>2. \A S : Abstract!Cardinality(S) = Cardinality(S)
  BY DEF Abstract!Cardinality, Cardinality
<1>3. \A s, i, x : Abstract!InsertAt(s, i, x) = InsertAt(s, i, x)
  BY DEF Abstract!InsertAt, InsertAt
<1>4. \A s, i : Abstract!RemoveAt(s, i) = RemoveAt(s, i)
  BY DEF Abstract!RemoveAt, RemoveAt
<1>5. QED
  BY <1>1, <1>2, <1>3, <1>4
     DEF Abstract!Queues, Queues, Abstract!UNUSED, UNUSED, Abstract!FIFO, FIFO,
         Abstract!ASCEND, ASCEND

\* The place a new node is linked in at is the position its entry gets.
LEMMA InsertPlace ==
  ASSUME IInv, NEW q \in Queues, compare[q] # UNUSED, NEW k
  PROVE  \E p \in 1 .. Len(Lists[q])+1 :
           Successor(q, k) = At(Lists[q], p) /\ Abstract!Position(q, k) = p
<1> DEFINE l == Lists[q]
           met == {i \in 1 .. Len(l) : l[i] \in {n \in Nodes : key[n] > k}}
           later == {i \in DOMAIN Items[q] : Items[q][i].key > k}
<1>1. /\ l \in Seq(Nodes) /\ Len(l) \in Nat
      /\ \A i \in 1 .. Len(l) : At(l, i) = l[i] /\ l[i] \in Nodes
  BY Now, Places DEF ListIds
<1>2. At(l, Len(l)+1) = NULL
  BY <1>1 DEF At
<1>3. Contents(Items[q], l, data, key)
  BY Now
<1>4. later = met
  <2>1. DOMAIN Items[q] = 1 .. Len(l) /\ \A i \in 1 .. Len(l) : Items[q][i].key = key[l[i]]
    <3>1. \A i \in 1 .. Len(l) : Items[q][i] = [data |-> data[l[i]], key |-> key[l[i]]]
      BY <1>3 DEF Contents
    <3>2. DOMAIN Items[q] = 1 .. Len(l)
      BY <1>3 DEF Contents
    <3>3. ASSUME NEW i \in 1 .. Len(l) PROVE Items[q][i].key = key[l[i]]
      <4> DEFINE entry == Items[q][i]
      <4>1. entry = [data |-> data[l[i]], key |-> key[l[i]]]
        BY <3>1
      <4> HIDE DEF entry
      <4>2. entry.key = key[l[i]]
        BY <4>1
      <4>3. QED
        BY <4>2 DEF entry
    <3>4. QED
      BY <3>2, <3>3
  <2>2. later = {i \in 1 .. Len(l) : Items[q][i].key > k}
    BY <2>1
  <2>3. \A i \in 1 .. Len(l) : l[i] \in {n \in Nodes : key[n] > k} <=> Items[q][i].key > k
    BY <1>1, <2>1
  <2>4. QED
    BY <2>2, <2>3
<1>5. Len(Items[q]) = Len(l)
  BY <1>3 DEF Contents
<1>6. Abstract!Position(q, k) = IF compare[q] = FIFO \/ met = {} THEN Len(l) + 1 ELSE Min(met)
  BY <1>4, <1>5, SameHelpers DEF Abstract!Position
<1>7. /\ met = {} => Scan(q, {n \in Nodes : key[n] > k}) = NULL
      /\ met # {} => /\ Scan(q, {n \in Nodes : key[n] > k}) = l[Min(met)]
                     /\ Min(met) \in 1 .. Len(l)
  <2>1. /\ met \subseteq 1 .. Len(l)
        /\ \A i \in 1 .. Len(l) : l[i] \in {n \in Nodes : key[n] > k} <=> i \in met
    OBVIOUS
  <2> DEFINE stop == {n \in Nodes : key[n] > k}
  <2> HIDE DEF met, stop
  <2>2. QED
    BY <2>1, ScanPlace DEF stop
<1> HIDE DEF met, l
<1>8. CASE compare[q] = FIFO \/ met = {}
  <2>1. Successor(q, k) = NULL
    BY <1>7, <1>8 DEF Successor
  <2>2. Abstract!Position(q, k) = Len(l) + 1 /\ Len(l) + 1 \in 1 .. Len(l)+1
    BY <1>1, <1>6, <1>8
  <2>3. QED
    BY <1>2, <2>1, <2>2 DEF l
<1>9. CASE compare[q] # FIFO /\ met # {}
  <2>1. Successor(q, k) = l[Min(met)] /\ Min(met) \in 1 .. Len(l)
    BY <1>7, <1>9 DEF Successor
  <2>2. Abstract!Position(q, k) = Min(met) /\ Min(met) \in 1 .. Len(l)+1
    BY <1>1, <1>6, <1>9, <2>1
  <2>3. QED
    BY <1>1, <2>1, <2>2 DEF l
<1>10. QED
  BY <1>8, <1>9

\* A node of a queue is freed by _q_delete_node, and its entry leaves the queue.
LEMMA NodeLeaves ==
  ASSUME IInv, NEW q \in Queues, compare[q] # UNUSED, NEW p \in 1 .. Len(Lists[q]),
         delete_node(q, Lists[q][p]), UNCHANGED <<data, key, compare, queue_list>>
  PROVE  IInv' /\ Items' = Dropped(Items, q, p)
<1> DEFINE L == Lists
           x == L[q][p]
           left == At(L[q], p-1)
           right == At(L[q], p+1)
<1>1. Spread(L) /\ Linked(L, prev, next, qnode_list, head, tail, compare)
  BY Now
<1>2. PICK M : Spread(M) /\ Moved(L, M, q, p, NULL, 1, x)
  BY <1>1, QueueToFree
<1>3. q \in ListIds /\ NULL \in ListIds /\ q # NULL /\ NULL \notin Nodes
  BY NullIsNoQueue DEF ListIds
<1>4. x \in Nodes /\ left \in Nodes \cup {NULL} /\ right \in Nodes \cup {NULL}
  BY <1>1, <1>3, Places
<1>5. prev[x] = left /\ next[x] = right
  BY <1>1, <1>3 DEF Linked
<1>6. x # left
  <2>1. Len(L[q]) \in Nat
    BY <1>1, <1>3, Places
  <2>2. p # p-1 /\ p-1 \in Int /\ At(L[q], p-1) = left
    BY <2>1
  <2>3. QED
    BY <1>1, <1>3, <2>2, Places
<1>7. /\ prev \in [Nodes -> Nodes \cup {NULL}] /\ next \in [Nodes -> Nodes \cup {NULL}]
      /\ data \in [Nodes -> Data \cup {NULL}] /\ key \in [Nodes -> Keys \cup {NULL}]
      /\ head \in [Queues -> Nat] /\ tail \in [Queues -> Nat]
      /\ compare \in [Queues -> {UNUSED, FIFO, ASCEND}]
  BY Now
<1>8. qnode_list \in Nodes \cup {NULL}
  BY DEF IInv, ListsTypeOK
<1> HIDE DEF L, x, left, right
<1>9. /\ head' = IF left = NULL THEN [head EXCEPT ![q] = right] ELSE head
      /\ tail' = IF right = NULL THEN [tail EXCEPT ![q] = left] ELSE tail
      /\ prev' = Set(prev, right, left)
      /\ next' = [Set(next, left, right) EXCEPT ![x] = qnode_list]
      /\ qnode_list' = x
  BY <1>5 DEF delete_node, L, x
<1>10. /\ prev' \in [Nodes -> Nodes \cup {NULL}]
       /\ \A n \in Nodes : prev'[n] = IF n = right THEN left ELSE prev[n]
  BY <1>4, <1>7, <1>9 DEF Set
<1>11. /\ next' \in [Nodes -> Nodes \cup {NULL}]
       /\ \A n \in Nodes : next'[n] = IF n = x THEN qnode_list
                                      ELSE IF n = left THEN right ELSE next[n]
  BY <1>4, <1>7, <1>8, <1>9 DEF Set
<1>12. Nodes \cup {NULL} \subseteq Nat
  BY QueueAssumption DEF Nodes, NULL
<1>13. /\ head' \in [Queues -> Nat]
       /\ \A r \in Queues : head'[r] = IF r = q /\ left = NULL THEN right ELSE head[r]
  BY <1>4, <1>7, <1>9, <1>12
<1>14. /\ tail' \in [Queues -> Nat]
       /\ \A r \in Queues : tail'[r] = IF r = q /\ right = NULL THEN left ELSE tail[r]
  BY <1>4, <1>7, <1>9, <1>12
<1>15. Linked(M, prev', next', qnode_list', head', tail', compare')
  <2>1. p \in 1 .. Len(L[q]) /\ left = At(L[q], p-1) /\ right = At(L[q], p+1)
    BY DEF L, left, right
  <2>2. /\ \A n \in Nodes : prev'[n] = IF n = right THEN left ELSE prev[n]
        /\ \A n \in Nodes : next'[n] = IF n = x THEN qnode_list
                                       ELSE IF n = left THEN right ELSE next[n]
        /\ \A r \in Queues : head'[r] = IF r = q /\ left = NULL THEN right ELSE head[r]
        /\ \A r \in Queues : tail'[r] = IF r = q /\ right = NULL THEN left ELSE tail[r]
    BY <1>10, <1>11, <1>13, <1>14
  <2>3. Linked(M, prev', next', x, head', tail', compare)
    BY <1>1, <1>2, <2>1, <2>2, LinkOut
  <2>4. QED
    BY <1>9, <2>3
<1>16. FreeQueues'
  <2>1. ASSUME NEW r \in Queues PROVE /\ compare'[r] = UNUSED <=> r <= queue_list'
                                      /\ r <= queue_list' => head'[r] = r-1
    BY <1>13 DEF FreeQueues, IInv
  <2>2. QED
    BY <2>1 DEF FreeQueues, IInv
<1>17. IInv' /\ Items' = ItemsOf(M, data, key)
  BY <1>2, <1>7, <1>10, <1>11, <1>13, <1>14, <1>15, <1>16, Rebuilt
<1>18. ItemsOf(M, data, key) = Dropped(ItemsOf(L, data, key), q, p)
  <2>1. p \in 1 .. Len(L[q])
    BY DEF L
  <2>2. QED
    BY <1>1, <1>2, <1>7, <2>1, ItemsOut
<1>19. QED
  BY <1>17, <1>18, Now DEF L

\* A node is taken from the free list and linked in where its entry belongs.
LEMMA NodeEnters ==
  ASSUME IInv, NEW q \in Queues, NEW e \in Entries, q_insert(q, e[1], e[2]), qnode_list # NULL
  PROVE  /\ IInv'
         /\ Lists[NULL] # <<>>
         /\ Items' = Put(Items, q, Abstract!Position(q, e[2]), [data |-> e[1], key |-> e[2]])
<1> DEFINE L == Lists
           d == e[1]
           k == e[2]
           x == qnode_list
           curr == Successor(q, k)
           left == IF curr = NULL THEN tail[q] ELSE prev[curr]
<1>1. Spread(L) /\ Linked(L, prev, next, x, head, tail, compare) /\ compare[q] # UNUSED
  BY Now DEF q_insert
<1>2. d \in Data /\ k \in Keys
  BY QueueAssumption
<1>3. q \in ListIds /\ NULL \in ListIds /\ q # NULL /\ NULL \notin Nodes
  BY NullIsNoQueue DEF ListIds
<1>4. /\ prev \in [Nodes -> Nodes \cup {NULL}] /\ next \in [Nodes -> Nodes \cup {NULL}]
      /\ data \in [Nodes -> Data \cup {NULL}] /\ key \in [Nodes -> Keys \cup {NULL}]
      /\ head \in [Queues -> Nat] /\ tail \in [Queues -> Nat]
      /\ compare \in [Queues -> {UNUSED, FIFO, ASCEND}]
  BY Now
<1>5. x = At(L[NULL], 1) /\ x \in Nodes
  BY <1>1 DEF Linked, IInv, ListsTypeOK
<1>6. L[NULL] # <<>>
  BY <1>5 DEF At
<1>7. PICK p \in 1 .. Len(L[q])+1 : curr = At(L[q], p) /\ Abstract!Position(q, k) = p
  BY <1>1, InsertPlace
<1>8. PICK M : Spread(M) /\ Moved(L, M, NULL, 1, q, p, x)
  BY <1>1, <1>5, <1>6, FreeToQueue
<1>9. curr \in Nodes \cup {NULL}
  BY <1>1, <1>3, <1>7, Places
<1>10. left = At(L[q], p-1) /\ left \in Nodes \cup {NULL}
  <2>1. L[q] \in Seq(Nodes) /\ Len(L[q]) \in Nat
    BY <1>1, <1>3, Places
  <2>2. CASE p = Len(L[q]) + 1
    <3>1. curr = NULL
      BY <1>7, <2>1, <2>2 DEF At
    <3>2. left = At(L[q], Len(L[q])) /\ p - 1 = Len(L[q])
      BY <1>1, <2>1, <2>2, <3>1 DEF Linked
    <3>3. QED
      BY <1>1, <1>3, <3>2, Places
  <2>3. CASE p # Len(L[q]) + 1
    <3>1. p \in 1 .. Len(L[q])
      BY <2>1, <2>3
    <3>2. curr = L[q][p] /\ curr # NULL
      BY <1>1, <1>3, <1>7, <3>1, Places
    <3>3. left = At(L[q], p-1)
      BY <1>1, <3>1, <3>2 DEF Linked
    <3>4. QED
      BY <1>1, <1>3, <3>3, Places
  <2>4. QED
    BY <2>2, <2>3
<1>11. x # curr /\ x # left
  <2>1. 1 \in 1 .. Len(L[NULL]) /\ L[NULL][1] = x /\ Len(L[q]) \in Nat
    BY <1>1, <1>3, <1>5, <1>6, Places DEF At
  <2>2. p \in Int /\ p-1 \in Int
    BY <2>1
  <2>3. QED
    BY <1>1, <1>3, <1>7, <1>10, <2>1, <2>2, Places
<1>12. /\ qnode_list' = next[x]
       /\ data' = [data EXCEPT ![x] = d]
       /\ key' = [key EXCEPT ![x] = k]
       /\ prev' = Set([prev EXCEPT ![x] = left], curr, x)
       /\ next' = Set([next EXCEPT ![x] = curr], left, x)
       /\ head' = IF left = NULL THEN [head EXCEPT ![q] = x] ELSE head
       /\ tail' = IF curr = NULL THEN [tail EXCEPT ![q] = x] ELSE tail
       /\ compare' = compare /\ queue_list' = queue_list
  BY DEF q_insert
<1> HIDE DEF L, d, k, x, curr, left
<1>13. /\ prev' \in [Nodes -> Nodes \cup {NULL}]
       /\ \A n \in Nodes : prev'[n] = IF n = curr THEN x ELSE IF n = x THEN left ELSE prev[n]
  BY <1>4, <1>5, <1>10, <1>12 DEF Set
<1>14. /\ next' \in [Nodes -> Nodes \cup {NULL}]
       /\ \A n \in Nodes : next'[n] = IF n = left THEN x ELSE IF n = x THEN curr ELSE next[n]
  BY <1>4, <1>5, <1>9, <1>12 DEF Set
<1>15. Nodes \cup {NULL} \subseteq Nat
  BY QueueAssumption DEF Nodes, NULL
<1>16. /\ head' \in [Queues -> Nat]
       /\ \A r \in Queues : head'[r] = IF r = q /\ left = NULL THEN x ELSE head[r]
  BY <1>4, <1>5, <1>12, <1>15
<1>17. /\ tail' \in [Queues -> Nat]
       /\ \A r \in Queues : tail'[r] = IF r = q /\ curr = NULL THEN x ELSE tail[r]
  BY <1>4, <1>5, <1>12, <1>15
<1>18. /\ data' \in [Nodes -> Data \cup {NULL}] /\ key' \in [Nodes -> Keys \cup {NULL}]
  BY <1>2, <1>4, <1>12
<1>19. Linked(M, prev', next', qnode_list', head', tail', compare')
  <2>1. /\ \A n \in Nodes : prev'[n] = IF n = curr THEN x ELSE IF n = x THEN left ELSE prev[n]
        /\ \A n \in Nodes : next'[n] = IF n = left THEN x ELSE IF n = x THEN curr ELSE next[n]
        /\ \A r \in Queues : head'[r] = IF r = q /\ left = NULL THEN x ELSE head[r]
        /\ \A r \in Queues : tail'[r] = IF r = q /\ curr = NULL THEN x ELSE tail[r]
        /\ left = At(L[q], p-1) /\ curr = At(L[q], p)
    BY <1>7, <1>10, <1>13, <1>14, <1>16, <1>17
  <2>2. Linked(L, prev, next, qnode_list, head, tail, compare)
    BY <1>1 DEF x
  <2>3. Linked(M, prev', next', next[x], head', tail', compare)
    BY <1>1, <1>8, <2>1, <2>2, LinkIn
  <2>4. QED
    BY <1>12, <2>3
<1>20. FreeQueues'
  <2>1. ASSUME NEW r \in Queues PROVE /\ compare'[r] = UNUSED <=> r <= queue_list'
                                      /\ r <= queue_list' => head'[r] = r-1
    BY <1>1, <1>12, <1>16 DEF FreeQueues, IInv
  <2>2. QED
    BY <1>12, <2>1 DEF FreeQueues, IInv
<1>21. IInv' /\ Items' = ItemsOf(M, data', key')
  BY <1>4, <1>8, <1>12, <1>13, <1>14, <1>16, <1>17, <1>18, <1>19, <1>20, Rebuilt
<1> DEFINE entry == [data |-> d, key |-> k]
<1>22. ItemsOf(M, data', key') = Put(ItemsOf(L, data, key), q, p, entry)
  <2>1. /\ data'[x] = d /\ key'[x] = k
        /\ \A n \in Nodes \ {x} : data'[n] = data[n] /\ key'[n] = key[n]
    BY <1>4, <1>5, <1>12
  <2>2. entry = [data |-> data'[x], key |-> key'[x]]
    BY <2>1
  <2> HIDE DEF entry
  <2>3. data \in [Nodes -> Data \cup {NULL}] /\ key \in [Nodes -> Keys \cup {NULL}]
    BY <1>4
  <2>4. Spread(L) /\ x \in Nodes
    BY <1>1, <1>5
  <2>5. QED
    BY <1>7, <1>8, <1>18, <2>1, <2>2, <2>3, <2>4, ItemsIn
<1>23. QED
  BY <1>6, <1>7, <1>21, <1>22, Now DEF L, d, k

\* A removal that scans the queue takes the first of the entries its nodes stand for.
LEMMA ScannedLeaves ==
  ASSUME IInv, NEW q \in Queues, NEW stop, RemoveScanned(q, stop),
         NEW found, found \subseteq 1 .. Len(Lists[q]),
         \A i \in 1 .. Len(Lists[q]) : Lists[q][i] \in stop <=> i \in found
  PROVE  IInv' /\ Abstract!TakeFirstOf(q, Items[q], found)
<1> DEFINE l == Lists[q]
           qn == Scan(q, stop)
<1>1. compare[q] # UNUSED /\ compare' = compare /\ UNCHANGED <<data, key, compare, queue_list>>
  BY DEF RemoveScanned
<1>2. l \in Seq(Nodes) /\ Len(l) \in Nat /\ q \in ListIds
  BY Now, Places DEF ListIds
<1>4. /\ found = {} => qn = NULL
      /\ found # {} => qn = l[Min(found)] /\ Min(found) \in 1 .. Len(l)
  BY <1>1, ScanPlace
<1>5. Contents(Items[q], l, data, key)
  BY Now
<1>6. CASE found = {}
  <2>1. /\ result' = Failed(IF head[q] = NULL THEN EMPTY_QUEUE ELSE NOT_FOUND)
        /\ UNCHANGED links
    BY <1>4, <1>6 DEF RemoveScanned
  <2>2. IInv' /\ Items' = Items
    BY <1>1, <2>1, OnlyResult
  <2>3. head[q] = NULL <=> Items[q] = <<>>
    <3>1. head[q] = At(l, 1)
      BY <1>1, Now DEF Linked
    <3>2. l = <<>> <=> Len(l) = 0
      BY <1>2
    <3>3. head[q] = NULL <=> Len(l) = 0
      BY <1>2, <3>1, NullIsNoQueue DEF At
    <3>4. Items[q] = <<>> <=> Len(l) = 0
      BY <1>2, <1>5 DEF Contents
    <3>5. QED
      BY <3>3, <3>4
  <2>4. result' = Abstract!Failed(IF Items[q] = <<>> THEN EMPTY_QUEUE ELSE NOT_FOUND)
    BY <2>1, <2>3 DEF Failed, Abstract!Failed
  <2>5. QED
    BY <1>1, <1>6, <2>2, <2>4, SameHelpers
       DEF Abstract!TakeFirstOf, EMPTY_QUEUE, NOT_FOUND, Abstract!EMPTY_QUEUE, Abstract!NOT_FOUND
<1>7. CASE found # {}
  <2>1. Min(found) \in 1 .. Len(l) /\ qn = l[Min(found)] /\ qn \in Nodes /\ qn # NULL
    BY <1>2, <1>4, <1>7, NullIsNoQueue
  <2>2. delete_node(q, l[Min(found)]) /\ result' = Given(data[qn])
    BY <2>1 DEF RemoveScanned
  <2>3. IInv' /\ Items' = Dropped(Items, q, Min(found))
    BY <1>1, <2>1, <2>2, NodeLeaves
  <2>4. Items[q][Min(found)].data = data[qn]
    <3> DEFINE entry == Items[q][Min(found)]
    <3>1. entry = [data |-> data[qn], key |-> key[qn]]
      BY <1>5, <2>1 DEF Contents
    <3> HIDE DEF entry
    <3>2. entry.data = data[qn]
      BY <3>1
    <3>3. QED
      BY <3>2 DEF entry
  <2>5. result' = Abstract!Given(Items[q][Abstract!Min(found)].data)
    BY <2>2, <2>4, SameHelpers DEF Given, Abstract!Given, SUCCESS, Abstract!SUCCESS
  <2>6. Items' = [Items EXCEPT ![q] = Abstract!RemoveAt(Items[q], Abstract!Min(found))]
    BY <2>3, SameHelpers DEF Dropped
  <2>7. QED
    BY <1>1, <1>7, <2>3, <2>5, <2>6, SameHelpers DEF Abstract!TakeFirstOf
<1>8. QED
  BY <1>6, <1>7

LEMMA ByKey ==
  ASSUME IInv, NEW q \in Queues, NEW k, q_remove_by_key(q, k)
  PROVE  IInv' /\ Abstract!TakeByKey(q, k)
<1> DEFINE stop == {n \in Nodes : key[n] = k}
           found == {i \in DOMAIN Items[q] : Items[q][i].key = k}
<1>1. DOMAIN Items[q] = 1 .. Len(Lists[q])
  BY Now DEF Contents
<1>2. \A i \in 1 .. Len(Lists[q]) : Lists[q][i] \in stop <=> i \in found
  <2>1. ASSUME NEW i \in 1 .. Len(Lists[q]) PROVE Lists[q][i] \in stop <=> i \in found
    <3> DEFINE entry == Items[q][i]
    <3>1. Lists[q][i] \in Nodes
      BY Now, Places DEF ListIds
    <3>2. entry = [data |-> data[Lists[q][i]], key |-> key[Lists[q][i]]]
      BY Now DEF Contents
    <3> HIDE DEF entry
    <3>3. entry.key = key[Lists[q][i]]
      BY <3>2
    <3>4. QED
      BY <1>1, <3>1, <3>3 DEF entry
  <2>2. QED
    BY <2>1
<1>3. RemoveScanned(q, stop) /\ found \subseteq 1 .. Len(Lists[q])
  BY <1>1 DEF q_remove_by_key
<1> HIDE DEF stop, found
<1>4. IInv' /\ Abstract!TakeFirstOf(q, Items[q], found)
  BY <1>2, <1>3, ScannedLeaves
<1>5. QED
  BY <1>4 DEF Abstract!TakeByKey, found

LEMMA Selected ==
  ASSUME IInv, NEW q \in Queues, NEW d, q_remove_selected(q, d)
  PROVE  IInv' /\ Abstract!TakeSelected(q, d)
<1> DEFINE stop == {n \in Nodes : data[n] = d}
           found == {i \in DOMAIN Items[q] : Items[q][i].data = d}
<1>1. DOMAIN Items[q] = 1 .. Len(Lists[q])
  BY Now DEF Contents
<1>2. \A i \in 1 .. Len(Lists[q]) : Lists[q][i] \in stop <=> i \in found
  <2>1. ASSUME NEW i \in 1 .. Len(Lists[q]) PROVE Lists[q][i] \in stop <=> i \in found
    <3> DEFINE entry == Items[q][i]
    <3>1. Lists[q][i] \in Nodes
      BY Now, Places DEF ListIds
    <3>2. entry = [data |-> data[Lists[q][i]], key |-> key[Lists[q][i]]]
      BY Now DEF Contents
    <3> HIDE DEF entry
    <3>3. entry.data = data[Lists[q][i]]
      BY <3>2
    <3>4. QED
      BY <1>1, <3>1, <3>3 DEF entry
  <2>2. QED
    BY <2>1
<1>3. RemoveScanned(q, stop) /\ found \subseteq 1 .. Len(Lists[q])
  BY <1>1 DEF q_remove_selected
<1> HIDE DEF stop, found
<1>4. IInv' /\ Abstract!TakeFirstOf(q, Items[q], found)
  BY <1>2, <1>3, ScannedLeaves
<1>5. QED
  BY <1>4 DEF Abstract!TakeSelected, found

LEMMA Removes ==
  ASSUME IInv, NEW q \in Queues, q_remove(q)
  PROVE  IInv' /\ Abstract!TakeFirst(q)
<1> DEFINE l == Lists[q]
           qn == head[q]
<1>1. compare[q] # UNUSED /\ UNCHANGED <<data, key, compare, queue_list>>
  BY DEF q_remove
<1>2. l \in Seq(Nodes) /\ Len(l) \in Nat /\ q \in ListIds
  BY Now, Places DEF ListIds
<1>3. Chain(next, head[q]) = l
  BY <1>1, Now
<1>4. RemoveScanned(q, Nodes)
  <2>1. CASE qn = NULL
    <3>1. Len(l) = 0
      <4>1. qn = At(l, 1)
        BY <1>1, Now DEF Linked
      <4>2. QED
        BY <1>2, <2>1, <4>1, NullIsNoQueue DEF At
    <3>2. Scan(q, Nodes) = NULL
      <4>1. {} \subseteq 1 .. Len(l) /\ \A i \in 1 .. Len(l) : l[i] \in Nodes <=> i \in {}
        BY <3>1
      <4>2. QED
        BY <1>1, <4>1, ScanPlace
    <3>3. result' = Failed(EMPTY_QUEUE) /\ UNCHANGED links
      BY <2>1 DEF q_remove
    <3>4. QED
      BY <1>1, <2>1, <3>2, <3>3 DEF RemoveScanned
  <2>2. CASE qn # NULL
    <3>1. qn = At(l, 1) /\ 1 \in 1 .. Len(l) /\ qn = l[1] /\ qn \in Nodes
      <4>1. qn = At(l, 1)
        BY <1>1, Now DEF Linked
      <4>2. QED
        BY <1>2, <2>2, <4>1 DEF At
    <3>2. prev[qn] = NULL
      <4>1. prev[l[1]] = At(l, 1-1)
        BY <1>1, <3>1, Now DEF Linked
      <4>2. At(l, 1-1) = NULL
        BY <1>2 DEF At
      <4>3. QED
        BY <3>1, <4>1, <4>2
    <3>3. Scan(q, Nodes) = qn
      <4> DEFINE met == 1 .. Len(l)
      <4>1. met # {} /\ met \subseteq Nat /\ \A i \in 1 .. Len(l) : l[i] \in Nodes <=> i \in met
        BY <1>2, <3>1
      <4>2. Min(met) \in met /\ \A i \in met : Min(met) <= i
        BY <4>1, MinLeast
      <4>3. Min(met) = 1
        BY <1>2, <3>1, <4>1, <4>2
      <4>4. Scan(q, Nodes) = l[Min(met)]
        <5>1. met \subseteq 1 .. Len(l)
          OBVIOUS
        <5> HIDE DEF met
        <5>2. QED
          BY <1>1, <4>1, <5>1, ScanPlace
      <4>5. QED
        BY <3>1, <4>3, <4>4
    <3>4. next \in [Nodes -> Nodes \cup {NULL}] /\ NULL \notin Nodes
      BY Now, NullIsNoQueue
    <3>5. Set(next, NULL, next[qn]) = next
      BY <3>4 DEF Set
    <3>6. delete_node(q, qn)
      BY <2>2, <3>2, <3>5 DEF q_remove, delete_node
    <3>7. result' = Given(data[qn])
      BY <2>2 DEF q_remove
    <3>8. QED
      BY <1>1, <2>2, <3>3, <3>6, <3>7 DEF RemoveScanned
  <2>3. QED
    BY <2>1, <2>2
<1>5. DOMAIN Items[q] = 1 .. Len(l)
  BY Now DEF Contents
<1>6. \A i \in 1 .. Len(l) : l[i] \in Nodes
  BY <1>2
<1>7. IInv' /\ Abstract!TakeFirstOf(q, Items[q], 1 .. Len(l))
  BY <1>4, <1>6, ScannedLeaves
<1>8. QED
  BY <1>5, <1>7 DEF Abstract!TakeFirst

LEMMA Peeks ==
  ASSUME IInv, NEW q \in Queues, q_peek(q)
  PROVE  IInv' /\ Abstract!Peek(q)
<1> DEFINE l == Lists[q]
<1>1. compare[q] # UNUSED /\ UNCHANGED <<links, data, key, compare, queue_list>>
  BY DEF q_peek
<1>2. l \in Seq(Nodes) /\ Len(l) \in Nat /\ q \in ListIds
  BY Now, Places DEF ListIds
<1>3. IInv' /\ Items' = Items
  BY <1>1, OnlyResult
<1>4. head[q] = At(l, 1)
  BY <1>1, Now DEF Linked
<1>5. Contents(Items[q], l, data, key)
  BY Now
<1>6. head[q] = NULL <=> Items[q] = <<>>
  <2>1. head[q] = NULL <=> Len(l) = 0
    BY <1>2, <1>4, NullIsNoQueue DEF At
  <2>2. Items[q] = <<>> <=> Len(l) = 0
    BY <1>2, <1>5 DEF Contents
  <2>3. QED
    BY <2>1, <2>2
<1>7. head[q] # NULL => Items[q][1].key = key[head[q]]
  <2> DEFINE entry == Items[q][1]
  <2> SUFFICES ASSUME head[q] # NULL PROVE entry.key = key[head[q]]
    OBVIOUS
  <2>1. 1 \in 1 .. Len(l) /\ head[q] = l[1]
    BY <1>4 DEF At
  <2>2. entry = [data |-> data[head[q]], key |-> key[head[q]]]
    BY <1>5, <2>1 DEF Contents
  <2> HIDE DEF entry
  <2>3. QED
    BY <2>2
<1>8. result' = IF Items[q] = <<>> THEN Abstract!Failed(Abstract!EMPTY_QUEUE)
                                   ELSE Abstract!Given(Items[q][1].key)
  BY <1>6, <1>7 DEF q_peek, Failed, Abstract!Failed, Given, Abstract!Given, SUCCESS,
     Abstract!SUCCESS, EMPTY_QUEUE, Abstract!EMPTY_QUEUE
<1>9. QED
  BY <1>1, <1>3, <1>8, SameHelpers DEF Abstract!Peek

LEMMA Inserts ==
  ASSUME IInv, NEW q \in Queues, NEW e \in Entries, q_insert(q, e[1], e[2])
  PROVE  IInv' /\ Abstract!Insert(q, e[1], e[2])
<1>1. compare[q] # UNUSED /\ UNCHANGED <<compare, queue_list>>
  BY DEF q_insert
<1>2. /\ Abstract!InUse \in Nat
      /\ Abstract!InUse >= N_QNODES <=> Lists[NULL] = <<>>
  <2>1. \A r \in Queues : DOMAIN Items[r] = 1 .. Len(Lists[r])
    BY Now DEF Contents
  <2>2. Abstract!InUse = Used(Items)
    BY SameHelpers DEF Abstract!InUse, Used
  <2>3. QED
    BY <2>1, <2>2, Now, RoomIs
<1>3. N_QNODES \in Nat
  BY QueueAssumption
<1>4. CASE qnode_list = NULL
  <2>1. result' = Failed(ALLOC_FAILED) /\ UNCHANGED <<links, data, key>>
    BY <1>4 DEF q_insert
  <2>2. IInv' /\ Items' = Items
    BY <1>1, <2>1, OnlyResult
  <2>3. Lists[NULL] = <<>>
    <3>1. Lists[NULL] \in Seq(Nodes) /\ NULL = At(Lists[NULL], 1)
      BY <1>4, Now, Places, NullIsNoQueue DEF Linked
    <3>2. QED
      BY <3>1, NullIsNoQueue DEF At
  <2>4. result' = Abstract!Failed(Abstract!ALLOC_FAILED)
    BY <2>1 DEF Failed, Abstract!Failed, ALLOC_FAILED, Abstract!ALLOC_FAILED
  <2>5. QED
    BY <1>1, <1>2, <2>2, <2>3, <2>4, SameHelpers DEF Abstract!Insert
<1>5. CASE qnode_list # NULL
  <2>1. /\ IInv' /\ Lists[NULL] # <<>>
        /\ Items' = Put(Items, q, Abstract!Position(q, e[2]), [data |-> e[1], key |-> e[2]])
    BY <1>5, NodeEnters
  <2>2. Abstract!InUse < N_QNODES
    BY <1>2, <1>3, <2>1
  <2>3. result' = Abstract!Done
    BY <1>5 DEF q_insert, Done, Abstract!Done, SUCCESS, Abstract!SUCCESS
  <2>4. Items' = [Items EXCEPT ![q] = Abstract!InsertAt(Items[q], Abstract!Position(q, e[2]),
                                                        [data |-> e[1], key |-> e[2]])]
    BY <2>1, SameHelpers DEF Put
  <2>5. QED
    BY <1>1, <2>1, <2>2, <2>3, <2>4, SameHelpers DEF Abstract!Insert
<1>6. QED
  BY <1>4, <1>5

LEMMA Allocs ==
  ASSUME IInv, NEW order \in {FIFO, ASCEND}, q_alloc(order)
  PROVE  IInv' /\ Abstract!Alloc(order)
<1>1. N_QUEUES \in Nat /\ FIFO # UNUSED /\ ASCEND # UNUSED
  BY QueueAssumption DEF FIFO, ASCEND, UNUSED
<1>2. FreeQueues
  BY DEF IInv
<1>3. CASE queue_list = NULL
  <2>1. result' = Failed(NO_QUEUES) /\ UNCHANGED <<links, data, key, compare, queue_list>>
    BY <1>3 DEF q_alloc, links
  <2>2. IInv' /\ Items' = Items
    BY <2>1, OnlyResult
  <2>3. \A q \in Queues : compare[q] # UNUSED
    BY <1>2, <1>3 DEF FreeQueues, Queues, NULL
  <2>4. QED
    BY <2>1, <2>2, <2>3, SameHelpers DEF Abstract!Alloc, Failed, Abstract!Failed,
       NO_QUEUES, Abstract!NO_QUEUES
<1>4. CASE queue_list # NULL
  <2> DEFINE q == queue_list
             L == Lists
  <2>1. q \in Queues /\ compare[q] = UNUSED /\ head[q] = q-1
    BY <1>1, <1>2, <1>4 DEF FreeQueues, Queues, NULL
  <2>2. /\ queue_list' = head[q] /\ result' = Given(q)
        /\ head' = [head EXCEPT ![q] = NULL] /\ tail' = [tail EXCEPT ![q] = NULL]
        /\ compare' = [compare EXCEPT ![q] = order]
        /\ prev' = prev /\ next' = next /\ qnode_list' = qnode_list /\ data' = data /\ key' = key
    BY <1>4 DEF q_alloc
  <2>3. /\ Spread(L) /\ Linked(L, prev, next, qnode_list, head, tail, compare)
        /\ prev \in [Nodes -> Nodes \cup {NULL}] /\ next \in [Nodes -> Nodes \cup {NULL}]
        /\ data \in [Nodes -> Data \cup {NULL}] /\ key \in [Nodes -> Keys \cup {NULL}]
        /\ head \in [Queues -> Nat] /\ tail \in [Queues -> Nat]
        /\ compare \in [Queues -> {UNUSED, FIFO, ASCEND}]
    BY Now
  <2> HIDE DEF q, L
  <2>4. /\ head' \in [Queues -> Nat] /\ tail' \in [Queues -> Nat]
        /\ compare' \in [Queues -> {UNUSED, FIFO, ASCEND}]
    BY <2>2, <2>3 DEF NULL
  <2>5. /\ \A r \in Queues : head'[r] = IF r = q THEN NULL ELSE head[r]
        /\ \A r \in Queues : tail'[r] = IF r = q THEN NULL ELSE tail[r]
        /\ \A r \in Queues : compare'[r] = IF r = q THEN order ELSE compare[r]
    BY <2>1, <2>2, <2>3
  <2>6. L[q] = <<>>
    BY <2>1, <2>3 DEF Linked
  <2>7. Linked(L, prev', next', qnode_list', head', tail', compare')
    <3>1. \A a \in ListIds : \A i \in 1 .. Len(L[a]) : next'[L[a][i]] = At(L[a], i+1)
      BY <2>2, <2>3 DEF Linked
    <3>2. qnode_list' = At(L[NULL], 1)
      BY <2>2, <2>3 DEF Linked
    <3>3. ASSUME NEW r \in Queues
          PROVE  IF compare'[r] = UNUSED THEN L[r] = <<>>
                 ELSE /\ head'[r] = At(L[r], 1)
                      /\ tail'[r] = At(L[r], Len(L[r]))
                      /\ \A i \in 1 .. Len(L[r]) : prev'[L[r][i]] = At(L[r], i-1)
      <4>1. CASE r = q
        <5>1. At(L[r], 1) = NULL /\ At(L[r], Len(L[r])) = NULL /\ 1 .. Len(L[r]) = {}
          BY <2>6, <4>1 DEF At
        <5>2. QED
          BY <1>1, <2>1, <2>5, <4>1, <5>1
      <4>2. CASE r # q
        BY <2>2, <2>3, <2>5, <4>2 DEF Linked
      <4>3. QED
        BY <4>1, <4>2
    <3>4. QED
      BY <3>1, <3>2, <3>3 DEF Linked
  <2>8. FreeQueues'
    <3>1. queue_list' = q-1 /\ q \in 1 .. N_QUEUES
      BY <2>1, <2>2 DEF Queues
    <3>2. \A r \in Queues : /\ compare[r] = UNUSED <=> r <= q
                            /\ r <= q => head[r] = r-1
      BY <1>2 DEF FreeQueues, q
    <3>3. ASSUME NEW r \in Queues PROVE /\ compare'[r] = UNUSED <=> r <= q-1
                                        /\ r <= q-1 => head'[r] = r-1
      <4>1. r \in Nat /\ q \in Nat
        BY <1>1, <3>1 DEF Queues
      <4>2. CASE r = q
        BY <1>1, <2>5, <4>1, <4>2
      <4>3. CASE r # q
        BY <2>5, <3>2, <4>1, <4>3
      <4>4. QED
        BY <4>2, <4>3
    <3>4. QED
      BY <1>1, <3>1, <3>3 DEF FreeQueues
  <2>9. IInv' /\ Items' = ItemsOf(L, data', key')
    BY <2>2, <2>3, <2>4, <2>7, <2>8, Rebuilt
  <2>10. Items' = Items
    BY <2>2, <2>9, Now DEF L
  <2>11. result' = Abstract!Given(q)
    BY <2>2 DEF Given, Abstract!Given, SUCCESS, Abstract!SUCCESS
  <2>12. QED
    BY <2>1, <2>2, <2>9, <2>10, <2>11, SameHelpers DEF Abstract!Alloc
<1>5. QED
  BY <1>3, <1>4

\* Every step of the lists keeps IInv and is a step of the queues or changes nothing of
\* theirs.
LEMMA Steps ==
  ASSUME IInv, [ListsNext]_lvars
  PROVE  IInv' /\ [Abstract!Next]_(Abstract!vars)
<1>1. CASE UNCHANGED lvars
  <2>1. UNCHANGED <<links, data, key, compare, queue_list>> /\ result' = result
    BY <1>1 DEF lvars
  <2>2. IInv' /\ Items' = Items
    BY <2>1, OnlyResult
  <2>3. QED
    BY <2>1, <2>2 DEF Abstract!vars
<1>2. ASSUME NEW order \in {FIFO, ASCEND}, q_alloc(order)
      PROVE  IInv' /\ Abstract!Next
  BY <1>2, Allocs, SameHelpers DEF Abstract!Next
<1>3. ASSUME NEW q \in Queues, NEW e \in Entries, q_insert(q, e[1], e[2])
      PROVE  IInv' /\ Abstract!Next
  BY <1>3, Inserts, SameHelpers DEF Abstract!Next
<1>4. ASSUME NEW q \in Queues, q_remove(q)
      PROVE  IInv' /\ Abstract!Next
  BY <1>4, Removes, SameHelpers DEF Abstract!Next
<1>5. ASSUME NEW q \in Queues, NEW k \in Keys, q_remove_by_key(q, k)
      PROVE  IInv' /\ Abstract!Next
  BY <1>5, ByKey, SameHelpers DEF Abstract!Next
<1>6. ASSUME NEW q \in Queues, NEW d \in Data, q_remove_selected(q, d)
      PROVE  IInv' /\ Abstract!Next
  BY <1>6, Selected, SameHelpers DEF Abstract!Next
<1>7. ASSUME NEW q \in Queues, q_peek(q)
      PROVE  IInv' /\ Abstract!Next
  BY <1>7, Peeks, SameHelpers DEF Abstract!Next
<1>8. QED
  BY <1>1, <1>2, <1>3, <1>4, <1>5, <1>6, <1>7 DEF ListsNext

-----------------------------------------------------------------------------
(***************************************************************************)
(* Theorems.                                                               *)
(***************************************************************************)

\* IInv holds in every state the calls can reach.
THEOREM Invariance == ListsSpec => []IInv
<1>1. ListsInit => IInv
  BY InitInv
<1>2. IInv /\ [ListsNext]_lvars => IInv'
  BY Steps
<1>3. QED
  BY <1>1, <1>2, PTL DEF ListsSpec

\* No sequence of calls leaks a node, links one into two lists, or ties a list into a
\* loop, for any number of nodes and queues (queues.c): each node is on the free list or
\* in one queue, once, and along prev a queue is what it is along next.
THEOREM NodesAlwaysAccountedFor == ListsSpec => []NodesAccountedFor
<1>1. IInv => NodesAccountedFor
  <2> SUFFICES ASSUME IInv PROVE NodesAccountedFor
    OBVIOUS
  <2> DEFINE L == Lists
             places == UNION {{q} \X DOMAIN L[q] : q \in Queues \cup {NULL}}
             NodeAt(p) == L[p[1]][p[2]]
  <2>1. Spread(L) /\ Linked(L, prev, next, qnode_list, head, tail, compare) /\ ListsTypeOK
    BY DEF IInv
  <2> HIDE DEF L
  <2>2. \A a \in ListIds : L[a] \in Seq(Nodes) /\ Len(L[a]) \in Nat /\ DOMAIN L[a] = 1 .. Len(L[a])
    BY <2>1, Places
  <2>3. \A p \in places : /\ p[1] \in ListIds /\ p[2] \in 1 .. Len(L[p[1]])
                          /\ p = <<p[1], p[2]>>
    BY <2>2 DEF ListIds
  <2>4. \A a \in ListIds : \A i \in 1 .. Len(L[a]) : <<a, i>> \in places
    BY <2>2 DEF ListIds
  <2> HIDE DEF places
  <2>5. ASSUME NEW n \in Nodes PROVE \E p \in places : NodeAt(p) = n
    <3>1. PICK a \in ListIds : \E i \in 1 .. Len(L[a]) : L[a][i] = n
      BY <2>1 DEF Spread
    <3>2. PICK i \in 1 .. Len(L[a]) : L[a][i] = n
      BY <3>1
    <3>3. <<a, i>> \in places /\ NodeAt(<<a, i>>) = n
      BY <2>4, <3>2
    <3>4. QED
      BY <3>3
  <2>6. ASSUME NEW p \in places, NEW r \in places, NodeAt(p) = NodeAt(r) PROVE p = r
    <3>1. \A a, b \in ListIds : \A i \in 1 .. Len(L[a]), j \in 1 .. Len(L[b]) :
            L[a][i] = L[b][j] => a = b /\ i = j
      BY <2>1 DEF Spread
    <3>2. p[1] = r[1] /\ p[2] = r[2]
      BY <2>3, <2>6, <3>1
    <3>3. QED
      BY <2>3, <3>2
  <2>7. ASSUME NEW q \in Queues, compare[q] # UNUSED
        PROVE  /\ tail[q] = IF L[q] = <<>> THEN NULL ELSE Last(L[q])
               /\ \A i \in DOMAIN L[q] : prev[L[q][i]] = IF i = 1 THEN NULL ELSE L[q][i-1]
    <3>1. L[q] \in Seq(Nodes) /\ Len(L[q]) \in Nat /\ DOMAIN L[q] = 1 .. Len(L[q])
      BY <2>2 DEF ListIds
    <3>2. /\ tail[q] = At(L[q], Len(L[q]))
          /\ \A i \in 1 .. Len(L[q]) : prev[L[q][i]] = At(L[q], i-1)
      BY <2>1, <2>7 DEF Linked
    <3>3. tail[q] = IF L[q] = <<>> THEN NULL ELSE Last(L[q])
      BY <3>1, <3>2 DEF At, Last
    <3>4. ASSUME NEW i \in DOMAIN L[q] PROVE At(L[q], i-1) = IF i = 1 THEN NULL ELSE L[q][i-1]
      BY <3>1 DEF At
    <3>5. QED
      BY <3>1, <3>2, <3>3, <3>4
  <2>8. QED
    BY <2>1, <2>5, <2>6, <2>7 DEF NodesAccountedFor, L, places
<1>2. QED
  BY <1>1, Invariance, PTL

\* The linked lists implement the queues of QueueSpec, for any number of nodes and
\* queues (queues.c): every call has the status, the value and the effect it promises.
THEOREM ListsImplementQueues == ListsSpec => ImplementsQueueSpec
<1>1. ListsInit => Abstract!Init
  BY InitInv, SameHelpers DEF ListsInit, Abstract!Init, Done, Abstract!Done, SUCCESS, Abstract!SUCCESS
<1>2. IInv /\ [ListsNext]_lvars => [Abstract!Next]_(Abstract!vars)
  BY Steps
<1>3. QED
  BY <1>1, <1>2, Invariance, PTL DEF ListsSpec, ImplementsQueueSpec, Abstract!Spec

-----------------------------------------------------------------------------
(***************************************************************************)
(* The order within a queue.                                               *)
(***************************************************************************)
InOrder(s) == \A i, j \in 1 .. Len(s) : i < j => s[i].key <= s[j].key

\* Keys can be compared.
LEMMA KeysAreNumbers ==
  ASSUME NEW s \in Seq(Entry)
  PROVE  /\ Len(s) \in Nat /\ DOMAIN s = 1 .. Len(s)
         /\ \A i \in 1 .. Len(s) : s[i].key \in Nat
<1>1. \A i \in 1 .. Len(s) : s[i] \in Entry
  OBVIOUS
<1>2. \A x \in Entry : x.key \in Keys \cup {NULL}
  BY DEF Entry
<1>3. Keys \cup {NULL} \subseteq Nat
  BY QueueAssumption DEF NULL
<1>4. QED
  BY <1>1, <1>2, <1>3

\* Insertion between the smaller and the greater keys, and removal, keep the order.
LEMMA InsertKeepsOrder ==
  ASSUME NEW s \in Seq(Entry), NEW t \in Seq(Entry), NEW p \in 1 .. Len(s)+1, NEW e,
         Inserted(s, t, p, e), InOrder(s),
         \A i \in 1 .. Len(s) : IF i < p THEN s[i].key <= e.key ELSE e.key <= s[i].key
  PROVE  InOrder(t)
<1>1. Len(s) \in Nat /\ Len(t) = Len(s) + 1 /\ p \in Nat
  BY KeysAreNumbers DEF Inserted
<1>2. \A i \in 1 .. Len(t) : t[i] = IF i < p THEN s[i] ELSE IF i = p THEN e ELSE s[i-1]
  BY DEF Inserted
<1>3. ASSUME NEW i \in 1 .. Len(t), NEW j \in 1 .. Len(t), i < j PROVE t[i].key <= t[j].key
  <2>1. i \in Nat /\ j \in Nat /\ i <= Len(s)
    BY <1>1, <1>3
  <2>2. CASE j < p
    <3>1. t[i] = s[i] /\ t[j] = s[j] /\ i \in 1 .. Len(s) /\ j \in 1 .. Len(s)
      BY <1>1, <1>2, <1>3, <2>1, <2>2
    <3>2. QED
      BY <1>3, <3>1 DEF InOrder
  <2>3. CASE j = p
    <3>1. t[i] = s[i] /\ t[j] = e /\ i \in 1 .. Len(s) /\ i < p
      BY <1>1, <1>2, <1>3, <2>1, <2>3
    <3>2. QED
      BY <3>1
  <2>4. CASE i = p
    <3>1. t[i] = e /\ t[j] = s[j-1] /\ j-1 \in 1 .. Len(s) /\ ~(j-1 < p)
      BY <1>1, <1>2, <1>3, <2>1, <2>4
    <3>2. QED
      BY <3>1
  <2>5. CASE i < p /\ j > p
    <3>1. t[i] = s[i] /\ t[j] = s[j-1] /\ i \in 1 .. Len(s) /\ j-1 \in 1 .. Len(s) /\ i < j-1
      BY <1>1, <1>2, <1>3, <2>1, <2>5
    <3>2. QED
      BY <3>1 DEF InOrder
  <2>6. CASE i > p
    <3>1. /\ t[i] = s[i-1] /\ t[j] = s[j-1] /\ i-1 \in 1 .. Len(s) /\ j-1 \in 1 .. Len(s)
          /\ i-1 < j-1
      BY <1>1, <1>2, <1>3, <2>1, <2>6
    <3>2. QED
      BY <3>1 DEF InOrder
  <2>7. QED
    BY <1>1, <1>3, <2>1, <2>2, <2>3, <2>4, <2>5, <2>6
<1>4. QED
  BY <1>3 DEF InOrder

LEMMA RemoveKeepsOrder ==
  ASSUME NEW s \in Seq(Entry), NEW t \in Seq(Entry), NEW p \in 1 .. Len(s), NEW e,
         Inserted(t, s, p, e), InOrder(s)
  PROVE  InOrder(t)
<1>1. Len(t) \in Nat /\ Len(s) = Len(t) + 1 /\ p \in Nat
  BY KeysAreNumbers DEF Inserted
<1>2. \A i \in 1 .. Len(s) : s[i] = IF i < p THEN t[i] ELSE IF i = p THEN e ELSE t[i-1]
  BY DEF Inserted
<1>3. ASSUME NEW i \in 1 .. Len(t)
      PROVE  \E k \in 1 .. Len(s) : t[i] = s[k] /\ k = IF i < p THEN i ELSE i+1
  <2>1. CASE i < p
    BY <1>1, <1>2, <2>1
  <2>2. CASE ~(i < p)
    <3>1. i+1 \in 1 .. Len(s) /\ ~(i+1 < p) /\ i+1 # p /\ (i+1)-1 = i
      BY <1>1, <2>2
    <3>2. QED
      BY <1>2, <2>2, <3>1
  <2>3. QED
    BY <2>1, <2>2
<1>4. ASSUME NEW i \in 1 .. Len(t), NEW j \in 1 .. Len(t), i < j PROVE t[i].key <= t[j].key
  <2>1. PICK k \in 1 .. Len(s) : t[i] = s[k] /\ k = IF i < p THEN i ELSE i+1
    BY <1>3
  <2>2. PICK l \in 1 .. Len(s) : t[j] = s[l] /\ l = IF j < p THEN j ELSE j+1
    BY <1>3
  <2>3. k < l
    BY <1>1, <1>4, <2>1, <2>2
  <2>4. QED
    BY <2>1, <2>2, <2>3 DEF InOrder
<1>5. QED
  BY <1>4 DEF InOrder

\* Position is between them.
LEMMA PositionBetween ==
  ASSUME IInv, NEW q \in Queues, compare[q] = ASCEND, InOrder(Items[q]), NEW k \in Nat,
         NEW p, p = Abstract!Position(q, k)
  PROVE  /\ p \in 1 .. Len(Items[q])+1
         /\ \A i \in 1 .. Len(Items[q]) : IF i < p THEN Items[q][i].key <= k
                                                   ELSE k <= Items[q][i].key
<1> DEFINE s == Items[q]
           later == {i \in 1 .. Len(s) : s[i].key > k}
<1>1. s \in Seq(Entry)
  BY Now DEF Contents
<1>2. Len(s) \in Nat /\ DOMAIN s = 1 .. Len(s) /\ \A i \in 1 .. Len(s) : s[i].key \in Nat
  BY <1>1, KeysAreNumbers
<1>3. p = IF later = {} THEN Len(s) + 1 ELSE Min(later)
  <2>1. p = IF compare[q] = Abstract!FIFO \/ {i \in DOMAIN s : s[i].key > k} = {} THEN Len(s) + 1
            ELSE Abstract!Min({i \in DOMAIN s : s[i].key > k})
    BY DEF Abstract!Position
  <2>2. compare[q] # Abstract!FIFO
    BY DEF Abstract!FIFO, ASCEND
  <2>3. QED
    BY <1>2, <2>1, <2>2, SameHelpers
<1>4. \A i \in 1 .. Len(s) : i \in later <=> s[i].key > k
  OBVIOUS
<1>5. later \subseteq Nat /\ later \subseteq 1 .. Len(s)
  OBVIOUS
<1> HIDE DEF s, later
<1>6. CASE later = {}
  BY <1>2, <1>3, <1>4, <1>6 DEF s
<1>7. CASE later # {}
  <2>1. p \in later /\ \A i \in later : p <= i
    BY <1>3, <1>5, <1>7, MinLeast
  <2>2. p \in 1 .. Len(s) /\ s[p].key > k
    BY <1>4, <1>5, <2>1
  <2>3. ASSUME NEW i \in 1 .. Len(s), i < p PROVE s[i].key <= k
    BY <1>2, <1>4, <2>1, <2>2, <2>3
  <2>4. ASSUME NEW i \in 1 .. Len(s), ~(i < p) PROVE k <= s[i].key
    <3>1. s[p].key <= s[i].key
      <4>1. CASE i = p
        BY <1>2, <4>1
      <4>2. CASE i # p
        <5>1. p < i
          BY <2>2, <2>4, <4>2
        <5>2. QED
          BY <2>2, <5>1 DEF InOrder, s
      <4>3. QED
        BY <4>1, <4>2
    <3>2. QED
      BY <1>2, <2>2, <3>1
  <2>5. QED
    BY <1>2, <2>2, <2>3, <2>4 DEF s
<1>8. QED
  BY <1>6, <1>7

\* A step of the queues keeps the ordered ones in order.
LEMMA OrderStep ==
  ASSUME IInv, Abstract!Ordered, [ListsNext]_lvars
  PROVE  Abstract!Ordered'
<1>1. /\ \A q \in Queues : Items[q] \in Seq(Entry) /\ DOMAIN Items[q] = 1 .. Len(Items[q])
      /\ \A q \in Queues : Items'[q] \in Seq(Entry) /\ DOMAIN Items'[q] = 1 .. Len(Items'[q])
  <2>1. IInv'
    BY Steps
  <2>2. \A q \in Queues : Items[q] \in Seq(Entry)
    BY Now DEF Contents
  <2>3. Items' = ItemsOf(Lists', data', key') /\ Spread(Lists')
        /\ data' \in [Nodes -> Data \cup {NULL}] /\ key' \in [Nodes -> Keys \cup {NULL}]
    <3>1. Spread(Lists') /\ Linked(Lists', prev', next', qnode_list', head', tail', compare')
      BY <2>1 DEF IInv
    <3>2. QED
      BY <2>1, <3>1, ItemsAre, NowAndNext DEF IInv, ListsTypeOK
  <2>4. \A q \in Queues : Items'[q] \in Seq(Entry)
    BY <2>3, ItemsType DEF Contents
  <2>5. QED
    BY <2>2, <2>4, KeysAreNumbers
<1>2. \A q \in Queues : compare[q] = ASCEND => InOrder(Items[q])
  BY <1>1, SameHelpers DEF Abstract!Ordered, InOrder
<1>3. SUFFICES ASSUME NEW q \in Queues, compare'[q] = ASCEND PROVE InOrder(Items'[q])
  BY <1>1, SameHelpers DEF Abstract!Ordered, InOrder
<1>4. CASE UNCHANGED <<Items, compare>>
  BY <1>2, <1>3, <1>4
<1>5. ASSUME NEW order, Abstract!Alloc(order) PROVE InOrder(Items'[q])
  <2>1. Items' = Items
    BY <1>5 DEF Abstract!Alloc
  <2>2. compare[q] = ASCEND \/ compare[q] = UNUSED
    <3>1. UNCHANGED compare \/ \E r \in Queues : compare[r] = UNUSED
                                              /\ compare' = [compare EXCEPT ![r] = order]
      BY <1>5, SameHelpers DEF Abstract!Alloc
    <3>2. CASE UNCHANGED compare
      BY <1>3, <3>2
    <3>3. CASE ~UNCHANGED compare
      <4>1. PICK r \in Queues : compare[r] = UNUSED /\ compare' = [compare EXCEPT ![r] = order]
        BY <3>1, <3>3
      <4>2. QED
        BY <1>3, <4>1, Now
    <3>4. QED
      BY <3>2, <3>3
  <2>3. CASE compare[q] = ASCEND
    BY <1>2, <2>1, <2>3
  <2>4. CASE compare[q] = UNUSED
    <3>1. Lists[q] = <<>> /\ Len(Items[q]) = Len(Lists[q])
      BY <2>4, Now DEF Linked, Contents
    <3>2. 1 .. Len(Items[q]) = {}
      BY <3>1
    <3>3. QED
      BY <2>1, <3>2 DEF InOrder
  <2>5. QED
    BY <2>2, <2>3, <2>4
<1>6. ASSUME NEW r \in Queues, NEW e \in Entries, Abstract!Insert(r, e[1], e[2])
      PROVE  InOrder(Items'[q])
  <2> DEFINE entry == [data |-> e[1], key |-> e[2]]
             p == Abstract!Position(r, e[2])
  <2>1. compare' = compare
    BY <1>6 DEF Abstract!Insert
  <2>2. CASE Items' = Items
    BY <1>2, <1>3, <2>1, <2>2
  <2>3. CASE Items' # Items
    <3>1. Items' = [Items EXCEPT ![r] = InsertAt(Items[r], p, entry)]
      BY <1>6, <2>3, SameHelpers DEF Abstract!Insert
    <3>2. DOMAIN Items = Queues
      BY DEF Items
    <3>3. CASE q # r
      BY <1>2, <1>3, <2>1, <3>1, <3>2, <3>3
    <3>4. CASE q = r
      <4>1. Items'[q] = InsertAt(Items[q], p, entry) /\ compare[q] = ASCEND /\ InOrder(Items[q])
        BY <1>2, <1>3, <2>1, <3>1, <3>2, <3>4
      <4>2. e[1] \in Data /\ e[2] \in Keys /\ e[2] \in Nat
        BY QueueAssumption
      <4>3. entry \in Entry /\ entry.key = e[2]
        BY <4>2 DEF Entry
      <4> HIDE DEF entry, p
      <4>4. /\ p \in 1 .. Len(Items[q])+1
            /\ \A i \in 1 .. Len(Items[q]) : IF i < p THEN Items[q][i].key <= entry.key
                                                      ELSE entry.key <= Items[q][i].key
        BY <3>4, <4>1, <4>2, <4>3, PositionBetween DEF p
      <4>5. Inserted(Items[q], InsertAt(Items[q], p, entry), p, entry)
            /\ InsertAt(Items[q], p, entry) \in Seq(Entry)
        BY <1>1, <4>3, <4>4, InsertAtInserts
      <4>6. QED
        BY <1>1, <4>1, <4>4, <4>5, InsertKeepsOrder
    <3>5. QED
      BY <3>3, <3>4
  <2>4. QED
    BY <2>2, <2>3
<1>7. ASSUME NEW r \in Queues, NEW found, found \subseteq DOMAIN Items[r],
             Abstract!TakeFirstOf(r, Items[r], found)
      PROVE  InOrder(Items'[q])
  <2>1. compare' = compare
    BY <1>7 DEF Abstract!TakeFirstOf
  <2>2. CASE found = {}
    <3>1. Items' = Items
      BY <1>7, <2>2 DEF Abstract!TakeFirstOf
    <3>2. QED
      BY <1>2, <1>3, <2>1, <3>1
  <2>3. CASE found # {}
    <3> DEFINE p == Min(found)
    <3>1. p \in 1 .. Len(Items[r])
      BY <1>1, <1>7, <2>3, MinLeast
    <3> HIDE DEF p
    <3>2. Items' = [Items EXCEPT ![r] = RemoveAt(Items[r], p)]
      BY <1>7, <2>3, SameHelpers DEF Abstract!TakeFirstOf, p
    <3>3. DOMAIN Items = Queues
      BY DEF Items
    <3>4. CASE q # r
      BY <1>2, <1>3, <2>1, <3>2, <3>3, <3>4
    <3>5. CASE q = r
      <4>1. Items'[q] = RemoveAt(Items[q], p) /\ InOrder(Items[q])
        BY <1>2, <1>3, <2>1, <3>2, <3>3, <3>5
      <4>2. /\ RemoveAt(Items[q], p) \in Seq(Entry)
            /\ Inserted(RemoveAt(Items[q], p), Items[q], p, Items[q][p])
        BY <1>1, <3>1, <3>5, RemoveAtRemoves
      <4>3. QED
        BY <1>1, <3>1, <3>5, <4>1, <4>2, RemoveKeepsOrder
    <3>6. QED
      BY <3>4, <3>5
  <2>4. QED
    BY <2>2, <2>3
<1>8. ASSUME NEW r \in Queues,
             \/ Abstract!TakeFirst(r)
             \/ \E k \in Keys : Abstract!TakeByKey(r, k)
             \/ \E d \in Data : Abstract!TakeSelected(r, d)
      PROVE  InOrder(Items'[q])
  <2>1. CASE Abstract!TakeFirst(r)
    BY <1>7, <2>1 DEF Abstract!TakeFirst
  <2>2. ASSUME NEW k \in Keys, Abstract!TakeByKey(r, k) PROVE InOrder(Items'[q])
    BY <1>7, <2>2 DEF Abstract!TakeByKey
  <2>3. ASSUME NEW d \in Data, Abstract!TakeSelected(r, d) PROVE InOrder(Items'[q])
    BY <1>7, <2>3 DEF Abstract!TakeSelected
  <2>4. QED
    BY <1>8, <2>1, <2>2, <2>3
<1>9. ASSUME NEW r \in Queues, Abstract!Peek(r) PROVE InOrder(Items'[q])
  <2>1. UNCHANGED <<Items, compare>>
    BY <1>9 DEF Abstract!Peek
  <2>2. QED
    BY <1>4, <2>1
<1>10. [Abstract!Next]_(Abstract!vars)
  BY Steps
<1>11. CASE Abstract!Next
  BY <1>5, <1>6, <1>8, <1>9, <1>11, SameHelpers DEF Abstract!Next
<1>12. CASE UNCHANGED Abstract!vars
  BY <1>4, <1>12 DEF Abstract!vars
<1>13. QED
  BY <1>10, <1>11, <1>12

\* A queue with a comparison routine is in order of its keys, whatever calls, removals
\* from its middle included, made it (queues.c, _q_insert).
THEOREM QueuesStayInOrder == ListsSpec => []Abstract!Ordered
<1>1. ListsInit => Abstract!Ordered
  BY InitInv, SameHelpers DEF ListsInit, Abstract!Ordered, UNUSED, ASCEND
<1>2. IInv /\ Abstract!Ordered /\ [ListsNext]_lvars => Abstract!Ordered'
  BY OrderStep
<1>3. QED
  BY <1>1, <1>2, Invariance, PTL DEF ListsSpec
===============================================================================
