---------------------------- MODULE KernelProofs ------------------------------
(***************************************************************************)
(* Theorems about Kernel, for any number of PCBs and priorities.           *)
(***************************************************************************)
EXTENDS Kernel, FiniteSetTheorems, SequenceTheorems, WellFoundedInduction, TLAPS

-----------------------------------------------------------------------------
(***************************************************************************)
(* What an iterated loop body preserves.  The library states induction     *)
(* with an operator parameter; here it is stated for a set of numbers and  *)
(* follows from the well-foundedness of < on Nat.                          *)
(***************************************************************************)

\* A set of numbers that is not empty has a least one.
LEMMA LeastNumber ==
  ASSUME NEW U, U \subseteq Nat, U # {}
  PROVE  \E x \in U : \A y \in U : x <= y
<1> DEFINE R == OpToRel(<, Nat)
<1>1. IsWellFoundedOn(R, Nat)
  BY NatLessThanWellFounded
<1>2. PICK x \in U : \A y \in U : <<y, x>> \notin R
  <2> HIDE DEF R
  <2> QED BY <1>1, WFMin
<1>3. ASSUME NEW y \in U PROVE x <= y
  <2>1. x \in Nat /\ y \in Nat
    OBVIOUS
  <2>2. ~(y < x)
    BY <1>2, <2>1 DEF OpToRel
  <2>3. QED
    BY <2>1, <2>2
<1>4. QED
  BY <1>3

\* Induction: a set of numbers that holds 0 and the successor of every number it
\* holds is Nat.
LEMMA NatSetInduction ==
  ASSUME NEW T, T \subseteq Nat, 0 \in T, \A n \in T : n + 1 \in T
  PROVE  T = Nat
<1> DEFINE U == Nat \ T
<1>1. SUFFICES ASSUME U # {} PROVE FALSE
  OBVIOUS
<1>2. PICK x \in U : \A y \in U : x <= y
  <2>1. U \subseteq Nat
    OBVIOUS
  <2> HIDE DEF U
  <2>2. QED
    BY <1>1, <2>1, LeastNumber
<1>3. x \in Nat /\ x \notin T
  BY DEF U
<1> HIDE DEF U
<1>4. x # 0 /\ x - 1 \in Nat
  BY <1>3
<1>5. x - 1 \in U
  <2>1. x - 1 \notin T
    BY <1>3, <1>4
  <2>2. QED
    BY <2>1, <1>4 DEF U
<1>6. QED
  BY <1>2, <1>3, <1>5

\* f gives the state after each of the first m rounds.
IsRounds(f, body, x, m) == f = [i \in 0..m |-> IF i = 0 THEN x ELSE body[f[i-1]]]

\* The loop is well defined: there is a function that gives the state after each
\* number of rounds.
LEMMA RoundsExist ==
  ASSUME NEW body, NEW x, NEW n \in Nat
  PROVE  \E f : IsRounds(f, body, x, n)
<1> DEFINE T == {m \in Nat : \E f : IsRounds(f, body, x, m)}
<1>1. 0 \in T
  <2>1. IsRounds([i \in 0..0 |-> x], body, x, 0)
    BY DEF IsRounds
  <2>2. QED
    BY <2>1
<1>2. ASSUME NEW m \in T PROVE m + 1 \in T
  <2>1. m \in Nat
    OBVIOUS
  <2>2. PICK f : IsRounds(f, body, x, m)
    OBVIOUS
  <2> DEFINE g == [i \in 0..m+1 |-> IF i = 0 THEN x ELSE body[f[i-1]]]
  <2>3. \A i \in 0..m : g[i] = f[i]
    <3> SUFFICES ASSUME NEW i \in 0..m PROVE g[i] = f[i]
      OBVIOUS
    <3>1. i \in 0..m+1
      BY <2>1
    <3>2. f[i] = IF i = 0 THEN x ELSE body[f[i-1]]
      BY <2>2 DEF IsRounds
    <3>3. QED
      BY <3>1, <3>2
  <2>4. \A i \in 0..m+1 : i # 0 => i - 1 \in 0..m
    BY <2>1
  <2>5. g = [i \in 0..m+1 |-> IF i = 0 THEN x ELSE body[g[i-1]]]
    <3>1. \A i \in 0..m+1 : (IF i = 0 THEN x ELSE body[f[i-1]])
                              = (IF i = 0 THEN x ELSE body[g[i-1]])
      <4> HIDE DEF g
      <4> QED BY <2>3, <2>4
    <3>2. QED
      BY <3>1
  <2>6. QED
    <3> HIDE DEF g
    <3> QED BY <2>1, <2>5 DEF IsRounds
<1>3. T = Nat
  <2> HIDE DEF T
  <2>1. T \subseteq Nat
    BY DEF T
  <2>2. QED
    BY <1>1, <1>2, <2>1, NatSetInduction
<1>4. QED
  BY <1>3

\* The states that a loop can be in after each number of rounds: if every round leads
\* from those of one number to those of the next, the loop ends in the last ones.
THEOREM IterateAdvances ==
  ASSUME NEW S, NEW body, NEW n \in Nat, NEW x \in S[0],
         \A i \in 0 .. n-1 : \A s \in S[i] : body[s] \in S[i+1]
  PROVE  Iterate(body, x, n) \in S[n]
<1> DEFINE f == CHOOSE g : IsRounds(g, body, x, n)
<1>1. f = [i \in 0..n |-> IF i = 0 THEN x ELSE body[f[i-1]]]
  <2>1. IsRounds(f, body, x, n)
    BY RoundsExist
  <2>2. QED
    BY <2>1 DEF IsRounds
<1>2. Iterate(body, x, n) = f[n]
  BY DEF Iterate, IsRounds
<1> HIDE DEF f
<1> DEFINE T == {m \in Nat : m <= n => f[m] \in S[m]}
<1>3. 0 \in T
  BY <1>1
<1>4. ASSUME NEW m \in T PROVE m + 1 \in T
  <2>1. CASE m + 1 <= n
    <3>1. m \in 0..n-1 /\ m + 1 \in 0..n /\ m + 1 # 0 /\ (m + 1) - 1 = m
      BY <2>1
    <3>2. f[m+1] = body[f[m]]
      BY <1>1, <3>1
    <3>3. QED
      BY <3>1, <3>2
  <2>2. CASE ~(m + 1 <= n)
    BY <2>2
  <2>3. QED
    BY <2>1, <2>2
<1>5. T = Nat
  <2> HIDE DEF T
  <2>1. T \subseteq Nat
    BY DEF T
  <2>2. QED
    BY <1>3, <1>4, <2>1, NatSetInduction
<1>6. QED
  BY <1>2, <1>5

\* A set of states that the body of a loop does not leave is not left by the loop.
THEOREM IterateStays ==
  ASSUME NEW S, NEW body, NEW x \in S, NEW n \in Nat,
         \A s \in S : body[s] \in S
  PROVE  Iterate(body, x, n) \in S
<1> DEFINE R == [i \in 0..n |-> S]
<1>1. \A i \in 0..n : R[i] = S
  OBVIOUS
<1> HIDE DEF R
<1>2. x \in R[0] /\ \A i \in 0 .. n-1 : \A s \in R[i] : body[s] \in R[i+1]
  BY <1>1
<1>3. Iterate(body, x, n) \in R[n]
  BY <1>2, IterateAdvances
<1>4. QED
  BY <1>1, <1>3

-----------------------------------------------------------------------------
(* The queues *)

Queues == [QueueIds -> Seq(Pcbs)]

\* Every queue identifier is one of those that the handlers use, and conversely.
LEMMA QueueIdFacts ==
  /\ Levels \subseteq QueueIds
  /\ SLEEPQ \in QueueIds /\ READQ \in QueueIds
  /\ BUFBLOCKQ \in QueueIds /\ FREEQ \in QueueIds
  /\ FREEQ \notin Levels /\ SLEEPQ \notin Levels
  /\ READQ \notin Levels /\ BUFBLOCKQ \notin Levels
  /\ FREEQ # SLEEPQ /\ FREEQ # READQ /\ FREEQ # BUFBLOCKQ
  /\ SLEEPQ # READQ /\ SLEEPQ # BUFBLOCKQ
BY KernelAssumption DEF Levels, QueueIds, SLEEPQ, READQ, BUFBLOCKQ, FREEQ

-----------------------------------------------------------------------------
(***************************************************************************)
(* Moving one PCB between the queues and the code that handles it.         *)
(***************************************************************************)

\* w is s without its n-th entry.
Removed(w, s, n) ==
  /\ Len(w) = Len(s) - 1
  /\ \A i \in 1 .. Len(w) : w[i] = IF i < n THEN s[i] ELSE s[i+1]

\* w is s with e as its new n-th entry.
Inserted(w, s, n, e) ==
  /\ Len(w) = Len(s) + 1
  /\ \A i \in 1 .. Len(w) :
       w[i] = IF i < n THEN s[i] ELSE IF i = n THEN e ELSE s[i-1]

\* The two maps of queues differ in queue a only.
SameBut(q, r, a) == \A b \in QueueIds : b # a => r[b] = q[b]

\* r is q with the n-th entry of queue a taken out (_q_remove,
\* _q_remove_by_key): that PCB, and no other, is then in nobody's queue.
LEMMA TakenOut ==
  ASSUME NEW q \in Queues, NEW r \in Queues, NEW held, Placed(q, held),
         NEW a \in QueueIds, NEW n \in 1 .. Len(q[a]),
         SameBut(q, r, a), Removed(r[a], q[a], n)
  PROVE  /\ q[a][n] \in Pcbs \ held
         /\ Placed(r, held \cup {q[a][n]})
<1> DEFINE gone == q[a][n]
           old(b, i) == IF b # a \/ i < n THEN i ELSE i + 1
<1> USE DEF SameBut, Removed, Inserted
<1>1. \A b \in QueueIds : /\ q[b] \in Seq(Pcbs) /\ DOMAIN q[b] = 1 .. Len(q[b])
                          /\ r[b] \in Seq(Pcbs) /\ DOMAIN r[b] = 1 .. Len(r[b])
                          /\ Len(q[b]) \in Nat /\ Len(r[b]) \in Nat
  BY DEF Queues
<1>2. \A b \in QueueIds : \A i \in DOMAIN r[b] :
        /\ old(b, i) \in DOMAIN q[b]
        /\ r[b][i] = q[b][old(b, i)]
        /\ b = a => old(b, i) # n
  <2> SUFFICES ASSUME NEW b \in QueueIds, NEW i \in DOMAIN r[b]
               PROVE  /\ old(b, i) \in DOMAIN q[b]
                      /\ r[b][i] = q[b][old(b, i)]
                      /\ b = a => old(b, i) # n
    OBVIOUS
  <2>1. CASE b # a
    BY <1>1, <2>1
  <2>2. CASE b = a /\ i < n
    BY <1>1, <2>2
  <2>3. CASE b = a /\ i >= n
    <3>1. old(b, i) = i + 1 /\ i + 1 \in DOMAIN q[b] /\ i \in 1 .. Len(r[a])
      BY <1>1, <2>3
    <3>2. r[a][i] = q[a][i+1]
      BY <1>1, <2>3, <3>1
    <3>3. QED
      BY <1>1, <2>3, <3>1, <3>2
  <2>4. QED
    BY <1>1, <2>1, <2>2, <2>3
<1>3. \A b \in QueueIds : \A i \in DOMAIN q[b] :
        b # a \/ i # n => \E j \in DOMAIN r[b] : old(b, j) = i
  <2> SUFFICES ASSUME NEW b \in QueueIds, NEW i \in DOMAIN q[b], b # a \/ i # n
               PROVE  \E j \in DOMAIN r[b] : old(b, j) = i
    OBVIOUS
  <2>1. CASE b # a
    BY <1>1, <2>1
  <2>2. CASE b = a /\ i < n
    BY <1>1, <2>2
  <2>3. CASE b = a /\ i > n
    <3>1. i - 1 \in DOMAIN r[b] /\ old(b, i - 1) = i
      BY <1>1, <2>3
    <3>2. QED
      BY <3>1
  <2>4. QED
    BY <1>1, <2>1, <2>2, <2>3
<1>4. gone \in Pcbs /\ gone \notin held
  BY <1>1 DEF Placed
<1>5. \A b, c \in QueueIds : \A i \in DOMAIN r[b], j \in DOMAIN r[c] :
        r[b][i] = r[c][j] => b = c /\ i = j
  <2> SUFFICES ASSUME NEW b \in QueueIds, NEW c \in QueueIds,
                      NEW i \in DOMAIN r[b], NEW j \in DOMAIN r[c],
                      r[b][i] = r[c][j]
               PROVE  b = c /\ i = j
    OBVIOUS
  <2>1. b = c /\ old(b, i) = old(c, j)
    <3> HIDE DEF old
    <3> QED BY <1>2 DEF Placed
  <2>2. QED
    BY <1>1, <2>1
<1>6. ASSUME NEW p \in Pcbs
      PROVE  p \in held \cup {gone}
               <=> \A b \in QueueIds : \A i \in DOMAIN r[b] : r[b][i] # p
  <2> HIDE DEF old
  <2>1. ASSUME p \in held, NEW b \in QueueIds, NEW i \in DOMAIN r[b]
        PROVE  r[b][i] # p
    BY <1>2, <2>1 DEF Placed
  <2>2. ASSUME p = gone, NEW b \in QueueIds, NEW i \in DOMAIN r[b]
        PROVE  r[b][i] # p
    <3>1. n \in DOMAIN q[a]
      BY <1>1
    <3>2. QED
      BY <1>2, <2>2, <3>1 DEF Placed
  <2>3. ASSUME p \notin held, p # gone
        PROVE  \E b \in QueueIds : \E i \in DOMAIN r[b] : r[b][i] = p
    <3>1. PICK b \in QueueIds : \E i \in DOMAIN q[b] : q[b][i] = p
      BY <2>3 DEF Placed
    <3>2. PICK i \in DOMAIN q[b] : q[b][i] = p
      BY <3>1
    <3>3. PICK j \in DOMAIN r[b] : old(b, j) = i
      BY <1>3, <2>3, <3>2
    <3>4. QED
      BY <1>2, <3>2, <3>3
  <2>4. QED
    BY <2>1, <2>2, <2>3
<1>7. QED
  BY <1>4, <1>5, <1>6 DEF Placed

\* r is q with the PCB p put into queue a as its n-th entry (_q_insert): if nobody
\* had p queued, p is now queued once.
LEMMA PutIn ==
  ASSUME NEW q \in Queues, NEW r \in Queues, NEW held, Placed(q, held),
         NEW a \in QueueIds, NEW n \in 1 .. Len(q[a]) + 1, NEW p \in Pcbs, p \in held,
         SameBut(q, r, a), Inserted(r[a], q[a], n, p)
  PROVE  Placed(r, held \ {p})
<1> DEFINE new(b, i) == IF b # a \/ i < n THEN i ELSE i + 1
<1> USE DEF SameBut, Removed, Inserted
<1>1. \A b \in QueueIds : /\ q[b] \in Seq(Pcbs) /\ DOMAIN q[b] = 1 .. Len(q[b])
                          /\ r[b] \in Seq(Pcbs) /\ DOMAIN r[b] = 1 .. Len(r[b])
                          /\ Len(q[b]) \in Nat /\ Len(r[b]) \in Nat
  BY DEF Queues
<1>2. \A b \in QueueIds : \A i \in DOMAIN q[b] :
        new(b, i) \in DOMAIN r[b] /\ r[b][new(b, i)] = q[b][i]
  <2> SUFFICES ASSUME NEW b \in QueueIds, NEW i \in DOMAIN q[b]
               PROVE  new(b, i) \in DOMAIN r[b] /\ r[b][new(b, i)] = q[b][i]
    OBVIOUS
  <2>1. CASE b # a
    BY <1>1, <2>1
  <2>2. CASE b = a /\ i < n
    BY <1>1, <2>2
  <2>3. CASE b = a /\ i >= n
    <3>1. new(b, i) = i + 1 /\ i + 1 \in 1 .. Len(r[a])
      BY <1>1, <2>3
    <3>2. r[a][i+1] = q[a][i]
      BY <1>1, <2>3, <3>1
    <3>3. QED
      BY <1>1, <2>3, <3>1, <3>2
  <2>4. QED
    BY <1>1, <2>1, <2>2, <2>3
<1>3. \A b \in QueueIds : \A i \in DOMAIN r[b] :
        b # a \/ i # n => \E j \in DOMAIN q[b] : new(b, j) = i
  <2> SUFFICES ASSUME NEW b \in QueueIds, NEW i \in DOMAIN r[b], b # a \/ i # n
               PROVE  \E j \in DOMAIN q[b] : new(b, j) = i
    OBVIOUS
  <2>1. CASE b # a
    BY <1>1, <2>1
  <2>2. CASE b = a /\ i < n
    BY <1>1, <2>2
  <2>3. CASE b = a /\ i > n
    <3>1. i - 1 \in DOMAIN q[b] /\ new(b, i - 1) = i
      BY <1>1, <2>3
    <3>2. QED
      BY <3>1
  <2>4. QED
    BY <1>1, <2>1, <2>2, <2>3
<1>4. n \in DOMAIN r[a] /\ r[a][n] = p
  BY <1>1
<1>5. \A b \in QueueIds : \A i \in DOMAIN q[b] : q[b][i] # p
  BY DEF Placed
<1> HIDE DEF new
<1>6. ASSUME NEW b \in QueueIds, NEW c \in QueueIds,
             NEW i \in DOMAIN r[b], NEW j \in DOMAIN r[c], r[b][i] = r[c][j]
      PROVE  b = c /\ i = j
  <2>1. CASE (b # a \/ i # n) /\ (c # a \/ j # n)
    <3>1. PICK x \in DOMAIN q[b] : new(b, x) = i
      BY <1>3, <2>1
    <3>2. PICK y \in DOMAIN q[c] : new(c, y) = j
      BY <1>3, <2>1
    <3>3. q[b][x] = q[c][y]
      BY <1>2, <1>6, <3>1, <3>2
    <3>4. QED
      BY <3>1, <3>2, <3>3 DEF Placed
  <2>2. CASE b = a /\ i = n
    BY <1>2, <1>3, <1>4, <1>5, <1>6, <2>2
  <2>3. CASE c = a /\ j = n
    BY <1>2, <1>3, <1>4, <1>5, <1>6, <2>3
  <2>4. QED
    BY <2>1, <2>2, <2>3
<1>7. ASSUME NEW o \in Pcbs
      PROVE  o \in held \ {p}
               <=> \A b \in QueueIds : \A i \in DOMAIN r[b] : r[b][i] # o
  <2>1. ASSUME o \in held, o # p, NEW b \in QueueIds, NEW i \in DOMAIN r[b]
        PROVE  r[b][i] # o
    BY <1>2, <1>3, <1>4, <2>1 DEF Placed
  <2>2. ASSUME o \notin held
        PROVE  \E b \in QueueIds : \E i \in DOMAIN r[b] : r[b][i] = o
    BY <1>2, <2>2 DEF Placed
  <2>3. QED
    BY <1>4, <2>1, <2>2
<1>8. QED
  BY <1>6, <1>7 DEF Placed
-----------------------------------------------------------------------------
(***************************************************************************)
(* The kernel's shared functions.                                          *)
(***************************************************************************)

\* The states a PCB may have on each queue.
Labels(a) ==
  IF a \in Levels THEN {READY, KILLED}
  ELSE IF a = SLEEPQ THEN {RUNNING, KILLED}
  ELSE IF a = FREEQ THEN {FREE}
  ELSE {BLOCKED, KILLED}

\* A scheduling state in which the PCBs of held are in the hands of the code and
\* every other PCB is on one queue, with a state that fits.
Tidy(k, held) ==
  /\ k \in Kernels
  /\ held \subseteq Pcbs
  /\ Placed(k.queue, held)
  /\ \A a \in QueueIds : \A i \in DOMAIN k.queue[a] :
       k.state[k.queue[a][i]] \in Labels(a)

\* The fields of a scheduling state have their types.
LEMMA KernelFields ==
  ASSUME NEW k \in Kernels
  PROVE  /\ k.queue \in Queues
         /\ \A a \in QueueIds : k.queue[a] \in Seq(Pcbs)
         /\ k.state \in [Pcbs -> States]
         /\ k.current \in Pcbs
         /\ k.quantum \in Nat
         /\ k.cr3 \in Pcbs \cup {KERNEL_DIR}
         /\ k.panicked \in BOOLEAN
         /\ k = [queue |-> k.queue, state |-> k.state, current |-> k.current,
                 quantum |-> k.quantum, cr3 |-> k.cr3, panicked |-> k.panicked]
BY DEF Kernels, Queues

\* Taking the head of a queue puts that PCB into the hands of the code.
LEMMA PopTidy ==
  ASSUME NEW k, NEW held, Tidy(k, held), NEW a \in QueueIds, k.queue[a] # <<>>
  PROVE  /\ Head(k.queue[a]) \in Pcbs \ held
         /\ k.state[Head(k.queue[a])] \in Labels(a)
         /\ Tidy(Pop(k, a), held \cup {Head(k.queue[a])})
         /\ Pop(k, a) = [k EXCEPT !.queue = [k.queue EXCEPT ![a] = Tail(k.queue[a])]]
<1> DEFINE q == k.queue
           r == [q EXCEPT ![a] = Tail(q[a])]
<1>1. k \in Kernels /\ q \in Queues /\ q[a] \in Seq(Pcbs) /\ Placed(q, held)
      /\ held \subseteq Pcbs
  BY KernelFields DEF Tidy
<1>2. Pop(k, a) = [k EXCEPT !.queue = r]
  BY DEF Pop
<1>3. /\ Head(q[a]) = q[a][1] /\ 1 \in DOMAIN q[a] /\ 1 \in 1 .. Len(q[a])
      /\ Tail(q[a]) \in Seq(Pcbs)
      /\ Len(Tail(q[a])) = Len(q[a]) - 1
      /\ \A i \in 1 .. Len(Tail(q[a])) : Tail(q[a])[i] = q[a][i+1]
      /\ Len(q[a]) \in Nat
      /\ DOMAIN q[a] = 1 .. Len(q[a])
      /\ DOMAIN Tail(q[a]) = 1 .. Len(q[a]) - 1
  BY <1>1, HeadTailProperties
<1>4. /\ r \in Queues
      /\ r[a] = Tail(q[a])
      /\ SameBut(q, r, a)
  BY <1>1, <1>3 DEF Queues, SameBut
<1>5. Removed(r[a], q[a], 1)
  <2> HIDE DEF q, r
  <2> QED BY <1>3, <1>4 DEF Removed
<1>6. q[a][1] \in Pcbs \ held /\ Placed(r, held \cup {q[a][1]})
  <2> HIDE DEF q, r
  <2> QED BY <1>1, <1>3, <1>4, <1>5, TakenOut
<1>7. \A b \in QueueIds : \A i \in DOMAIN r[b] : \E j \in DOMAIN q[b] : r[b][i] = q[b][j]
  <2> SUFFICES ASSUME NEW b \in QueueIds, NEW i \in DOMAIN r[b]
               PROVE  \E j \in DOMAIN q[b] : r[b][i] = q[b][j]
    OBVIOUS
  <2>1. CASE b # a
    BY <1>4, <2>1 DEF SameBut
  <2>2. CASE b = a
    <3>1. i \in 1 .. Len(Tail(q[a])) /\ i + 1 \in DOMAIN q[a]
      <4> HIDE DEF q, r
      <4>1. i \in 1 .. Len(q[a]) - 1
        BY <1>3, <1>4, <2>2
      <4>2. QED
        BY <1>3, <4>1
    <3>2. QED
      BY <1>3, <1>4, <2>2, <3>1
  <2>3. QED
    BY <2>1, <2>2
<1>8. Pop(k, a) \in Kernels
  BY <1>1, <1>2, <1>4 DEF Kernels, Queues
<1>9. \A b \in QueueIds : \A i \in DOMAIN r[b] : k.state[r[b][i]] \in Labels(b)
  BY <1>7 DEF Tidy
<1>10. Pop(k, a).queue = r /\ Pop(k, a).state = k.state
  BY <1>1, <1>2 DEF Kernels
<1>11. k.state[q[a][1]] \in Labels(a)
  BY <1>3 DEF Tidy
<1>12. QED
  BY <1>1, <1>2, <1>3, <1>6, <1>8, <1>9, <1>10, <1>11 DEF Tidy

\* A PCB in the hands of the code is put at the end of a queue in a state that fits
\* there.
LEMMA EnqueueTidy ==
  ASSUME NEW k, NEW held, Tidy(k, held), NEW a \in QueueIds, NEW p \in held,
         k.state[p] \in Labels(a)
  PROVE  Tidy(Enqueue(k, a, p), held \ {p})
<1> DEFINE q == k.queue
           r == [q EXCEPT ![a] = Append(q[a], p)]
<1>1. /\ k \in Kernels /\ q \in Queues /\ q[a] \in Seq(Pcbs) /\ Placed(q, held)
      /\ held \subseteq Pcbs /\ p \in Pcbs
  BY KernelFields DEF Tidy
<1>2. Enqueue(k, a, p) = [k EXCEPT !.queue = r]
  BY DEF Enqueue
<1>3. /\ Append(q[a], p) \in Seq(Pcbs)
      /\ Len(Append(q[a], p)) = Len(q[a]) + 1
      /\ Len(q[a]) \in Nat
      /\ DOMAIN q[a] = 1 .. Len(q[a])
      /\ DOMAIN Append(q[a], p) = 1 .. Len(q[a]) + 1
      /\ \A i \in 1 .. Len(q[a]) + 1 :
           Append(q[a], p)[i] = IF i = Len(q[a]) + 1 THEN p ELSE q[a][i]
  BY <1>1
<1>4. /\ r \in Queues
      /\ r[a] = Append(q[a], p)
      /\ SameBut(q, r, a)
  BY <1>1, <1>3 DEF Queues, SameBut
<1>5. /\ Inserted(r[a], q[a], Len(q[a]) + 1, p)
      /\ Len(q[a]) + 1 \in 1 .. Len(q[a]) + 1
  <2> HIDE DEF q, r
  <2> QED BY <1>3, <1>4 DEF Inserted
<1>6. Placed(r, held \ {p})
  <2> HIDE DEF q, r
  <2> QED BY <1>1, <1>4, <1>5, PutIn
<1>7. ASSUME NEW b \in QueueIds, NEW i \in DOMAIN r[b]
      PROVE  k.state[r[b][i]] \in Labels(b)
  <2>1. CASE b # a
    BY <1>4, <2>1 DEF Tidy, SameBut
  <2>2. CASE b = a /\ i = Len(q[a]) + 1
    BY <1>3, <1>4, <2>2
  <2>3. CASE b = a /\ i # Len(q[a]) + 1
    <3>1. i \in DOMAIN q[a] /\ r[b][i] = q[a][i]
      BY <1>3, <1>4, <2>3
    <3>2. QED
      BY <2>3, <3>1 DEF Tidy
  <2>4. QED
    BY <2>1, <2>2, <2>3
<1>8. Enqueue(k, a, p) \in Kernels
  BY <1>1, <1>2, <1>4 DEF Kernels, Queues
<1>9. Enqueue(k, a, p).queue = r /\ Enqueue(k, a, p).state = k.state
  BY <1>1, <1>2 DEF Kernels
<1>10. QED
  BY <1>1, <1>2, <1>6, <1>7, <1>8, <1>9 DEF Tidy

\* The state of a PCB in the hands of the code may be changed, and the fields that
\* are not about queues as well.
LEMMA RelabelTidy ==
  ASSUME NEW k, NEW held, Tidy(k, held), NEW p \in held, NEW s \in States
  PROVE  Tidy([k EXCEPT !.state[p] = s], held)
<1> DEFINE t == [k EXCEPT !.state[p] = s]
<1>1. k \in Kernels /\ held \subseteq Pcbs /\ p \in Pcbs
  BY DEF Tidy
<1>2. t \in Kernels /\ t.queue = k.queue /\ t.state = [k.state EXCEPT ![p] = s]
  BY <1>1 DEF Kernels
<1>3. ASSUME NEW a \in QueueIds, NEW i \in DOMAIN k.queue[a]
      PROVE  /\ k.queue[a][i] # p
             /\ k.queue[a][i] \in Pcbs
             /\ k.state[k.queue[a][i]] \in Labels(a)
  BY <1>1, KernelFields DEF Tidy, Placed
<1>4. ASSUME NEW a \in QueueIds, NEW i \in DOMAIN t.queue[a]
      PROVE  t.state[t.queue[a][i]] \in Labels(a)
  BY <1>1, <1>2, <1>3, KernelFields
<1>5. QED
  BY <1>1, <1>2, <1>4 DEF Tidy

\* Of the fields that are not queues, only the state of p differs between k and d.
OnlyStateOf(d, k, p) ==
  /\ \A o \in Pcbs : o # p => d.state[o] = k.state[o]
  /\ d.current = k.current
  /\ d.quantum = k.quantum
  /\ d.cr3 = k.cr3
  /\ d.panicked = k.panicked

\* _sched puts the PCB on the ready queue of its priority and changes no other
\* field than its state.
LEMMA SchedTidy ==
  ASSUME NEW k, NEW held, Tidy(k, held), NEW p \in held, priority[p] \in Levels
  PROVE  /\ Tidy(Sched(k, p), held \ {p})
         /\ OnlyStateOf(Sched(k, p), k, p)
<1> DEFINE t == [k EXCEPT !.state[p] = READY]
           a == priority[p]
<1>1. k \in Kernels /\ p \in Pcbs /\ k.state \in [Pcbs -> States]
  BY KernelFields DEF Tidy
<1>2. Tidy(t, held)
  BY RelabelTidy DEF States
<1>3. /\ t.state = [k.state EXCEPT ![p] = READY]
      /\ t.current = k.current /\ t.quantum = k.quantum
      /\ t.cr3 = k.cr3 /\ t.panicked = k.panicked
      /\ t \in Kernels
  BY <1>1, <1>2 DEF Kernels, Tidy
<1>4. a \in QueueIds /\ t.state[p] \in Labels(a)
  BY <1>1, <1>3, QueueIdFacts DEF Labels
<1>5. Sched(k, p) = Enqueue(t, a, p)
  BY DEF Sched
<1> HIDE DEF t, a
<1>6. Tidy(Enqueue(t, a, p), held \ {p})
  BY <1>2, <1>4, EnqueueTidy
<1>7. QED
  BY <1>1, <1>3, <1>5, <1>6 DEF Kernels, Enqueue, OnlyStateOf

\* _cleanup puts the PCB on the free list and leaves the kernel's page directory.
LEMMA CleanupTidy ==
  ASSUME NEW k, NEW held, Tidy(k, held), NEW p \in held
  PROVE  /\ Tidy(Cleanup(k, p), held \ {p})
         /\ Cleanup(k, p).current = k.current
         /\ Cleanup(k, p).panicked = k.panicked
<1> DEFINE u == [k EXCEPT !.state[p] = FREE]
           t == [k EXCEPT !.state[p] = FREE, !.cr3 = KERNEL_DIR]
<1>1. k \in Kernels /\ p \in Pcbs /\ k.state \in [Pcbs -> States]
  BY KernelFields DEF Tidy
<1>2. Tidy(u, held)
  BY RelabelTidy DEF States
<1>3. /\ t \in Kernels
      /\ t.queue = u.queue /\ t.state = u.state
      /\ t.state[p] = FREE
      /\ t.current = k.current /\ t.panicked = k.panicked
  BY <1>1, <1>2 DEF Kernels, Tidy
<1>4. FREEQ \in QueueIds /\ FREE \in Labels(FREEQ)
  BY QueueIdFacts DEF Labels
<1>5. Cleanup(k, p) = Enqueue(t, FREEQ, p)
  BY DEF Cleanup
<1> HIDE DEF t, u
<1>6. Tidy(t, held)
  BY <1>2, <1>3 DEF Tidy
<1>7. Tidy(Enqueue(t, FREEQ, p), held \ {p})
  BY <1>3, <1>4, <1>6, EnqueueTidy
<1>8. QED
  BY <1>3, <1>5, <1>7 DEF Kernels, Enqueue

\* _dispatch finds the first of the ready queues that is not empty.
LEMMA TopLevelFacts ==
  ASSUME NEW k, AnyReady(k)
  PROVE  /\ TopLevel(k) \in Levels
         /\ k.queue[TopLevel(k)] # <<>>
         /\ \A m \in Levels : m < TopLevel(k) => k.queue[m] = <<>>
<1> DEFINE U == {l \in Levels : k.queue[l] # <<>>}
<1>1. U # {} /\ U \subseteq Nat
  BY KernelAssumption DEF AnyReady, Levels
<1>2. \E l \in U : \A m \in U : l <= m
  <2> HIDE DEF U
  <2> QED BY <1>1, LeastNumber
<1>3. \E l \in Levels : /\ k.queue[l] # <<>>
                        /\ \A m \in Levels : m < l => k.queue[m] = <<>>
  <2>1. PICK l \in U : \A m \in U : l <= m
    BY <1>2
  <2>2. ASSUME NEW m \in Levels, m < l PROVE k.queue[m] = <<>>
    BY <1>1, <2>1, <2>2, KernelAssumption DEF Levels
  <2>3. QED
    BY <2>1, <2>2
<1>4. QED
  BY <1>3 DEF TopLevel

\* A round of _dispatch that reaps leaves nothing in the hands of the code.
LEMMA ReapTidy ==
  ASSUME NEW k, Tidy(k, {})
  PROVE  Tidy(Reap[k], {})
<1>1. k \in Kernels
  BY DEF Tidy
<1>2. CASE ~(AnyReady(k) /\ k.state[FirstReady(k)] = KILLED)
  BY <1>1, <1>2 DEF Reap
<1>3. CASE AnyReady(k) /\ k.state[FirstReady(k)] = KILLED
  <2> DEFINE l == TopLevel(k)
             p == FirstReady(k)
             t == [Pop(k, l) EXCEPT !.current = p]
  <2>1. l \in QueueIds /\ k.queue[l] # <<>> /\ p = Head(k.queue[l])
    BY <1>3, TopLevelFacts, QueueIdFacts DEF FirstReady
  <2>2. p \in Pcbs /\ Tidy(Pop(k, l), {p})
    <3> HIDE DEF l, p
    <3>1. p \in Pcbs /\ Tidy(Pop(k, l), {} \cup {p})
      BY <2>1, PopTidy
    <3>2. {} \cup {p} = {p}
      OBVIOUS
    <3>3. QED
      BY <3>1, <3>2
  <2>3. Reap[k] = Cleanup(t, p)
    BY <1>1, <1>3 DEF Reap
  <2> HIDE DEF l, p
  <2>4. Tidy(t, {p})
    BY <2>2 DEF Tidy, Kernels
  <2> HIDE DEF t
  <2>5. Tidy(Cleanup(t, p), {p} \ {p})
    BY <2>4, CleanupTidy
  <2>6. {p} \ {p} = {}
    OBVIOUS
  <2>7. QED
    BY <2>3, <2>5, <2>6
<1>4. QED
  BY <1>2, <1>3

\* _dispatch, entered with nothing in hand, either panics or leaves one process in
\* hand: the one in _current, RUNNING, with its own page directory in force.
LEMMA DispatchTidy ==
  ASSUME NEW k, Tidy(k, {})
  PROVE  /\ Dispatch(k) \in Kernels
         /\ \/ Dispatch(k).panicked
            \/ /\ Tidy(Dispatch(k), {Dispatch(k).current})
               /\ Dispatch(k).state[Dispatch(k).current] = RUNNING
               /\ Dispatch(k).cr3 = Dispatch(k).current
<1> DEFINE S == {s \in Kernels : Tidy(s, {})}
           r == Iterate(Reap, k, N_PCBS)
<1>1. r \in S
  <2>1. k \in S /\ N_PCBS \in Nat
    BY KernelAssumption DEF Tidy
  <2>2. ASSUME NEW s \in S PROVE Reap[s] \in S
    <3>1. Tidy(Reap[s], {})
      BY ReapTidy
    <3>2. QED
      BY <3>1 DEF Tidy
  <2> HIDE DEF S
  <2>3. QED
    BY <2>1, <2>2, IterateStays
<1>2. Tidy(r, {}) /\ r \in Kernels
  BY <1>1
<1>3. Dispatch(k) = IF AnyReady(r) THEN Switch(r) ELSE [r EXCEPT !.panicked = TRUE]
  BY DEF Dispatch
<1> HIDE DEF r
<1>4. CASE ~AnyReady(r)
  BY <1>2, <1>3, <1>4 DEF Kernels
<1>5. CASE AnyReady(r)
  <2> DEFINE l == TopLevel(r)
             p == FirstReady(r)
             t == Pop(r, l)
             u == [t EXCEPT !.state[p] = RUNNING]
             v == Dispatch(k)
  <2>1. l \in QueueIds /\ r.queue[l] # <<>> /\ p = Head(r.queue[l])
    BY <1>5, TopLevelFacts, QueueIdFacts DEF FirstReady
  <2>2. v = [t EXCEPT !.current = p, !.state[p] = RUNNING,
                      !.quantum = STD_QUANTUM, !.cr3 = p]
    BY <1>3, <1>5 DEF Switch
  <2> HIDE DEF l, p
  <2>3. p \in Pcbs /\ Tidy(t, {p})
    <3>1. p \in Pcbs /\ Tidy(t, {} \cup {p})
      BY <1>2, <2>1, PopTidy
    <3>2. {} \cup {p} = {p}
      OBVIOUS
    <3>3. QED
      BY <3>1, <3>2
  <2> HIDE DEF t
  <2>4. Tidy(u, {p})
    BY <2>3, RelabelTidy DEF States
  <2> HIDE DEF v
  <2>5. /\ v \in Kernels /\ v.queue = u.queue /\ v.state = u.state
        /\ v.state[p] = RUNNING /\ v.current = p /\ v.cr3 = p
    <3>1. t \in Kernels
      BY <2>3 DEF Tidy
    <3>2. STD_QUANTUM \in Nat /\ RUNNING \in States
      BY KernelAssumption DEF States
    <3>3. QED
      BY <2>2, <2>3, <3>1, <3>2 DEF Kernels
  <2> HIDE DEF u
  <2>6. Tidy(v, {p})
    BY <2>4, <2>5 DEF Tidy
  <2>7. QED
    BY <2>5, <2>6 DEF v
<1>6. QED
  BY <1>4, <1>5

-----------------------------------------------------------------------------
(***************************************************************************)
(* Queues that are not used first-in first-out: the sleep queue, kept in   *)
(* order, and the queue of keyboard readers, served out of order.          *)
(***************************************************************************)

\* w is x followed by y, whose lengths are m and n.
Joined(w, x, y, m, n) ==
  /\ Len(w) = m + n
  /\ \A i \in 1 .. m + n : w[i] = IF i <= m THEN x[i] ELSE y[i - m]

\* Concatenation, entry by entry, with the lengths of the parts as numbers.
LEMMA ConcatAt ==
  ASSUME NEW S, NEW x \in Seq(S), NEW y \in Seq(S), NEW m \in Nat, NEW n \in Nat,
         Len(x) = m, Len(y) = n, NEW w, w = x \o y
  PROVE  w \in Seq(S) /\ Joined(w, x, y, m, n)
<1>1. /\ x \o y \in Seq(S)
      /\ Len(x \o y) = Len(x) + Len(y)
      /\ \A i \in 1 .. Len(x) + Len(y) :
           (x \o y)[i] = IF i <= Len(x) THEN x[i] ELSE y[i - Len(x)]
  BY ConcatProperties, Zenon
<1>2. /\ w \in Seq(S)
      /\ Len(w) = Len(x) + Len(y)
      /\ \A i \in 1 .. Len(x) + Len(y) :
           w[i] = IF i <= Len(x) THEN x[i] ELSE y[i - Len(x)]
  BY <1>1, Zenon
<1>3. QED
  BY <1>2, Zenon DEF Joined

\* InsertAt(s, n, e) is s with e as its new n-th entry.
LEMMA InsertAtFacts ==
  ASSUME NEW S, NEW s \in Seq(S), NEW n \in 1 .. Len(s) + 1, NEW e \in S
  PROVE  /\ InsertAt(s, n, e) \in Seq(S)
         /\ Inserted(InsertAt(s, n, e), s, n, e)
<1> DEFINE x == SubSeq(s, 1, n-1)
           y == <<e>>
           z == SubSeq(s, n, Len(s))
           v == x \o y
           w == InsertAt(s, n, e)
<1>0. n \in Nat /\ n >= 1 /\ n <= Len(s) + 1 /\ Len(s) \in Nat
  OBVIOUS
<1>1. /\ x \in Seq(S) /\ Len(x) = n - 1
      /\ \A i \in 1 .. n - 1 : x[i] = s[i]
  <2>1. CASE n = 1
    BY <2>1
  <2>2. CASE n > 1
    BY <2>2
  <2>3. QED
    BY <2>1, <2>2
<1>2. /\ z \in Seq(S) /\ Len(z) = Len(s) - n + 1
      /\ \A i \in 1 .. Len(s) - n + 1 : z[i] = s[n + i - 1]
  <2>1. CASE n = Len(s) + 1
    BY <2>1
  <2>2. CASE n <= Len(s)
    BY <2>2
  <2>3. QED
    BY <2>1, <2>2
<1>3. y \in Seq(S) /\ Len(y) = 1 /\ y[1] = e
  OBVIOUS
<1>4. w = v \o z
  BY DEF InsertAt
<1>5. v = x \o y
  OBVIOUS
<1> HIDE DEF x, y, z, v, w
<1>6. /\ v \in Seq(S) /\ Len(v) = (n - 1) + 1
      /\ \A i \in 1 .. (n - 1) + 1 : v[i] = IF i <= n - 1 THEN x[i] ELSE y[i - (n - 1)]
  <2>1. n - 1 \in Nat /\ 1 \in Nat
    BY <1>0
  <2>2. v \in Seq(S) /\ Joined(v, x, y, n - 1, 1)
    BY <1>1, <1>3, <1>5, <2>1, ConcatAt
  <2>3. QED
    BY <2>2 DEF Joined
<1>7. /\ v \in Seq(S) /\ Len(v) = n
      /\ \A i \in 1 .. n : v[i] = IF i < n THEN s[i] ELSE e
  <2>1. ASSUME NEW i \in 1 .. n PROVE v[i] = IF i < n THEN s[i] ELSE e
    <3>1. CASE i < n
      BY <1>0, <1>1, <1>6, <3>1
    <3>2. CASE i = n
      BY <1>0, <1>3, <1>6, <3>2
    <3>3. QED
      BY <1>0, <3>1, <3>2
  <2>2. QED
    BY <1>0, <1>6, <2>1
<1>8. /\ w \in Seq(S) /\ Len(w) = n + (Len(s) - n + 1)
      /\ \A i \in 1 .. n + (Len(s) - n + 1) : w[i] = IF i <= n THEN v[i] ELSE z[i - n]
  <2>1. Len(s) - n + 1 \in Nat
    BY <1>0
  <2>2. w \in Seq(S) /\ Joined(w, v, z, n, Len(s) - n + 1)
    BY <1>0, <1>2, <1>4, <1>7, <2>1, ConcatAt
  <2>3. QED
    BY <2>2 DEF Joined
<1>9. ASSUME NEW i \in 1 .. Len(s) + 1
      PROVE  w[i] = IF i < n THEN s[i] ELSE IF i = n THEN e ELSE s[i-1]
  <2>1. CASE i <= n
    BY <1>0, <1>7, <1>8, <2>1
  <2>2. CASE i > n
    <3>1. i - n \in 1 .. Len(s) - n + 1 /\ n + (i - n) - 1 = i - 1
      BY <1>0, <2>2
    <3>2. z[i - n] = s[i - 1]
      BY <1>2, <3>1
    <3>3. QED
      BY <1>0, <1>8, <2>2, <3>2
  <2>3. QED
    BY <1>0, <2>1, <2>2
<1>10. w \in Seq(S) /\ Len(w) = Len(s) + 1
  BY <1>0, <1>8
<1>11. QED
  BY <1>9, <1>10 DEF w, Inserted

\* RemoveAt(s, n) is s without its n-th entry.
LEMMA RemoveAtFacts ==
  ASSUME NEW S, NEW s \in Seq(S), NEW n \in 1 .. Len(s)
  PROVE  /\ RemoveAt(s, n) \in Seq(S)
         /\ Removed(RemoveAt(s, n), s, n)
<1> DEFINE x == SubSeq(s, 1, n-1)
           z == SubSeq(s, n+1, Len(s))
           w == RemoveAt(s, n)
<1>0. n \in Nat /\ n >= 1 /\ n <= Len(s) /\ Len(s) \in Nat
  OBVIOUS
<1>1. /\ x \in Seq(S) /\ Len(x) = n - 1
      /\ \A i \in 1 .. n - 1 : x[i] = s[i]
  <2>1. CASE n = 1
    BY <2>1
  <2>2. CASE n > 1
    BY <2>2
  <2>3. QED
    BY <2>1, <2>2
<1>2. /\ z \in Seq(S) /\ Len(z) = Len(s) - n
      /\ \A i \in 1 .. Len(s) - n : z[i] = s[n + i]
  <2>1. CASE n = Len(s)
    BY <2>1
  <2>2. CASE n < Len(s)
    BY <2>2
  <2>3. QED
    BY <2>1, <2>2
<1>3. w = x \o z
  BY DEF RemoveAt
<1> HIDE DEF x, z, w
<1>4. /\ w \in Seq(S) /\ Len(w) = (n - 1) + (Len(s) - n)
      /\ \A i \in 1 .. (n - 1) + (Len(s) - n) :
           w[i] = IF i <= n - 1 THEN x[i] ELSE z[i - (n - 1)]
  <2>1. n - 1 \in Nat /\ Len(s) - n \in Nat
    BY <1>0
  <2>2. w \in Seq(S) /\ Joined(w, x, z, n - 1, Len(s) - n)
    BY <1>1, <1>2, <1>3, <2>1, ConcatAt
  <2>3. QED
    BY <2>2 DEF Joined
<1>5. ASSUME NEW i \in 1 .. Len(s) - 1
      PROVE  w[i] = IF i < n THEN s[i] ELSE s[i+1]
  <2>1. CASE i < n
    <3>1. i \in 1 .. (n - 1) + (Len(s) - n) /\ i <= n - 1 /\ i \in 1 .. n - 1
      BY <1>0, <2>1
    <3>2. w[i] = x[i]
      BY <1>4, <3>1
    <3>3. QED
      BY <1>1, <2>1, <3>1, <3>2
  <2>2. CASE i >= n
    <3>1. i - (n - 1) \in 1 .. Len(s) - n /\ n + (i - (n - 1)) = i + 1
      BY <1>0, <2>2
    <3>2. z[i - (n - 1)] = s[i + 1]
      BY <1>2, <3>1
    <3>3. QED
      BY <1>0, <1>4, <2>2, <3>2
  <2>3. QED
    BY <1>0, <2>1, <2>2
<1>6. w \in Seq(S) /\ Len(w) = Len(s) - 1
  BY <1>0, <1>4
<1>7. QED
  BY <1>5, <1>6 DEF w, Removed

\* A PCB in the hands of the code is put anywhere into a queue.
LEMMA PutTidy ==
  ASSUME NEW k, NEW held, Tidy(k, held), NEW a \in QueueIds, NEW p \in held,
         k.state[p] \in Labels(a), NEW n \in 1 .. Len(k.queue[a]) + 1
  PROVE  Tidy([k EXCEPT !.queue[a] = InsertAt(@, n, p)], held \ {p})
<1> DEFINE q == k.queue
           r == [q EXCEPT ![a] = InsertAt(q[a], n, p)]
           t == [k EXCEPT !.queue[a] = InsertAt(@, n, p)]
<1>1. /\ k \in Kernels /\ q \in Queues /\ q[a] \in Seq(Pcbs) /\ Placed(q, held)
      /\ held \subseteq Pcbs /\ p \in Pcbs
      /\ DOMAIN q[a] = 1 .. Len(q[a]) /\ Len(q[a]) \in Nat
  BY KernelFields DEF Tidy
<1>2. /\ InsertAt(q[a], n, p) \in Seq(Pcbs)
      /\ Inserted(InsertAt(q[a], n, p), q[a], n, p)
  <2>1. n \in 1 .. Len(q[a]) + 1
    OBVIOUS
  <2> HIDE DEF q
  <2>2. QED
    BY <1>1, <2>1, InsertAtFacts
<1>3. t.queue = r /\ t.state = k.state /\ t = [k EXCEPT !.queue = r]
  BY <1>1 DEF Kernels
<1>4. /\ r \in Queues
      /\ r[a] = InsertAt(q[a], n, p)
      /\ SameBut(q, r, a)
  BY <1>1, <1>2 DEF Queues, SameBut
<1>5. Inserted(r[a], q[a], n, p) /\ DOMAIN r[a] = 1 .. Len(q[a]) + 1
  <2>1. r[a] \in Seq(Pcbs) /\ Inserted(r[a], q[a], n, p)
    BY <1>2, <1>4
  <2> HIDE DEF r
  <2> QED BY <1>1, <2>1 DEF Inserted
<1>6. n \in 1 .. Len(q[a]) + 1
  OBVIOUS
<1>7. Placed(r, held \ {p})
  <2> HIDE DEF q, r, t
  <2> QED BY <1>1, <1>4, <1>5, <1>6, PutIn
<1>8. ASSUME NEW b \in QueueIds, NEW i \in DOMAIN r[b]
      PROVE  k.state[r[b][i]] \in Labels(b)
  <2>1. CASE b # a
    BY <1>4, <2>1 DEF Tidy, SameBut
  <2>2. CASE b = a /\ i = n
    <3> HIDE DEF q, r, t
    <3> QED BY <1>1, <1>5, <2>2 DEF Inserted
  <2>3. CASE b = a /\ i # n
    <3>1. \E j \in DOMAIN q[a] : r[b][i] = q[a][j]
      <4>1. CASE i < n
        <5>1. i \in DOMAIN q[a] /\ r[b][i] = q[a][i]
          <6> HIDE DEF q, r, t
          <6> QED BY <1>1, <1>5, <1>6, <2>3, <4>1 DEF Inserted
        <5>2. QED
          BY <5>1
      <4>2. CASE i > n
        <5>1. i - 1 \in DOMAIN q[a] /\ r[b][i] = q[a][i-1]
          <6> HIDE DEF q, r, t
          <6>1. /\ i \in 1 .. Len(r[a]) /\ i \in Nat /\ n \in Nat
                /\ i - 1 \in DOMAIN q[a]
            BY <1>1, <1>5, <1>6, <2>3, <4>2 DEF Inserted
          <6>2. ~(i < n) /\ i # n
            BY <4>2, <6>1
          <6>3. QED
            BY <1>5, <2>3, <6>1, <6>2 DEF Inserted
        <5>2. QED
          BY <5>1
      <4>3. QED
        <5> HIDE DEF q, r, t
        <5> QED BY <1>1, <1>5, <1>6, <2>3, <4>1, <4>2
    <3>2. QED
      BY <2>3, <3>1 DEF Tidy
  <2>4. QED
    BY <2>1, <2>2, <2>3
<1>9. t \in Kernels
  BY <1>1, <1>3, <1>4 DEF Kernels, Queues
<1>10. QED
  <2> HIDE DEF r, t
  <2> QED BY <1>1, <1>3, <1>7, <1>8, <1>9 DEF Tidy, t

\* A PCB is taken out of a queue, whatever its position.
LEMMA TakeTidy ==
  ASSUME NEW k, NEW held, Tidy(k, held), NEW a \in QueueIds,
         NEW n \in DOMAIN k.queue[a]
  PROVE  /\ k.queue[a][n] \in Pcbs \ held
         /\ Tidy([k EXCEPT !.queue[a] = RemoveAt(@, n)], held \cup {k.queue[a][n]})
<1> DEFINE q == k.queue
           r == [q EXCEPT ![a] = RemoveAt(q[a], n)]
           t == [k EXCEPT !.queue[a] = RemoveAt(@, n)]
<1>1. /\ k \in Kernels /\ q \in Queues /\ q[a] \in Seq(Pcbs) /\ Placed(q, held)
      /\ held \subseteq Pcbs
      /\ DOMAIN q[a] = 1 .. Len(q[a]) /\ Len(q[a]) \in Nat
      /\ n \in 1 .. Len(q[a])
  BY KernelFields DEF Tidy
<1>2. /\ RemoveAt(q[a], n) \in Seq(Pcbs)
      /\ Removed(RemoveAt(q[a], n), q[a], n)
  <2> HIDE DEF q
  <2> QED BY <1>1, RemoveAtFacts
<1>3. t.queue = r /\ t.state = k.state /\ t = [k EXCEPT !.queue = r]
  BY <1>1 DEF Kernels
<1>4. /\ r \in Queues
      /\ r[a] = RemoveAt(q[a], n)
      /\ SameBut(q, r, a)
  BY <1>1, <1>2 DEF Queues, SameBut
<1>5. Removed(r[a], q[a], n) /\ DOMAIN r[a] = 1 .. Len(q[a]) - 1
  <2>1. r[a] \in Seq(Pcbs) /\ Removed(r[a], q[a], n)
    BY <1>2, <1>4
  <2> HIDE DEF r
  <2> QED BY <1>1, <2>1 DEF Removed
<1>6. q[a][n] \in Pcbs \ held /\ Placed(r, held \cup {q[a][n]})
  <2> HIDE DEF q, r, t
  <2> QED BY <1>1, <1>4, <1>5, TakenOut
<1>7. ASSUME NEW b \in QueueIds, NEW i \in DOMAIN r[b]
      PROVE  k.state[r[b][i]] \in Labels(b)
  <2>1. CASE b # a
    BY <1>4, <2>1 DEF Tidy, SameBut
  <2>2. CASE b = a
    <3>1. \E j \in DOMAIN q[a] : r[b][i] = q[a][j]
      <4>1. CASE i < n
        <5>1. i \in DOMAIN q[a] /\ r[b][i] = q[a][i]
          <6>1. i \in 1 .. Len(q[a]) - 1 /\ r[b] = r[a]
            BY <1>5, <2>2
          <6>2. /\ n \in 1 .. Len(q[a]) /\ DOMAIN q[a] = 1 .. Len(q[a])
                /\ Len(q[a]) \in Nat
            <7> HIDE DEF q, r, t
            <7> QED BY <1>1
          <6>3. r[a][i] = q[a][i]
            <7> HIDE DEF q, r, t
            <7> QED BY <1>5, <6>1, <6>2, <4>1 DEF Removed
          <6>4. i \in 1 .. Len(q[a])
            <7> HIDE DEF q, r, t
            <7> QED BY <6>1, <6>2, <4>1
          <6>5. QED
            BY <6>1, <6>2, <6>3, <6>4
        <5>2. QED
          BY <5>1
      <4>2. CASE i >= n
        <5>1. i + 1 \in DOMAIN q[a] /\ r[b][i] = q[a][i+1]
          <6>1. i \in 1 .. Len(q[a]) - 1 /\ r[b] = r[a]
            BY <1>5, <2>2
          <6>2. /\ n \in 1 .. Len(q[a]) /\ DOMAIN q[a] = 1 .. Len(q[a])
                /\ Len(q[a]) \in Nat
            <7> HIDE DEF q, r, t
            <7> QED BY <1>1
          <6>3. r[a][i] = q[a][i+1]
            <7> HIDE DEF q, r, t
            <7> QED BY <1>5, <6>1, <6>2, <4>2 DEF Removed
          <6>4. i + 1 \in 1 .. Len(q[a])
            <7> HIDE DEF q, r, t
            <7> QED BY <6>1, <6>2, <4>2
          <6>5. QED
            BY <6>1, <6>2, <6>3, <6>4
        <5>2. QED
          BY <5>1
      <4>3. QED
        <5> HIDE DEF q, r, t
        <5> QED BY <1>1, <1>5, <2>2, <4>1, <4>2
    <3>2. QED
      BY <2>2, <3>1 DEF Tidy
  <2>3. QED
    BY <2>1, <2>2
<1>8. t \in Kernels
  BY <1>1, <1>3, <1>4 DEF Kernels, Queues
<1>9. QED
  <2> HIDE DEF r, t
  <2> QED BY <1>1, <1>3, <1>6, <1>7, <1>8 DEF Tidy, t

\* A RUNNING or KILLED process is put on the sleep queue.
LEMMA SleepInsertTidy ==
  ASSUME NEW k, NEW held, Tidy(k, held), NEW p \in held, NEW key,
         k.state[p] \in {RUNNING, KILLED}
  PROVE  Tidy(SleepInsert(k, p, key), held \ {p})
<1> DEFINE s     == k.queue[SLEEPQ]
           later == {i \in DOMAIN s : wakeup[s[i]] > key}
           at    == IF later = {} THEN Len(s) + 1
                    ELSE CHOOSE i \in later : \A j \in later : i <= j
<1>1. s \in Seq(Pcbs) /\ DOMAIN s = 1 .. Len(s) /\ Len(s) \in Nat
  BY KernelFields, QueueIdFacts DEF Tidy
<1>2. later # {} => \E i \in later : \A j \in later : i <= j
  <2>1. later \subseteq Nat
    BY <1>1
  <2> HIDE DEF later
  <2> QED BY <2>1, LeastNumber
<1>3. at \in 1 .. Len(k.queue[SLEEPQ]) + 1
  BY <1>1, <1>2
<1>4. SleepInsert(k, p, key) = [k EXCEPT !.queue[SLEEPQ] = InsertAt(@, at, p)]
  BY DEF SleepInsert
<1>5. k.state[p] \in Labels(SLEEPQ) /\ SLEEPQ \in QueueIds
  BY QueueIdFacts DEF Labels
<1> HIDE DEF at
<1>6. QED
  BY <1>3, <1>4, <1>5, PutTidy

-----------------------------------------------------------------------------
(***************************************************************************)
(* The inductive invariant.  A machine that has panicked takes no step, so *)
(* nothing but the types is claimed of it.  The last conjunct is needed    *)
(* for the initial process, whose state _init leaves FREE: it is the only  *)
(* process for which that happens, and it neither sleeps nor blocks.       *)
(***************************************************************************)
InHand(k) ==
  /\ Tidy(k, {k.current})
  /\ k.cr3 = k.current
  /\ k.state[k.current] \in {FREE, RUNNING, KILLED}

IInv ==
  /\ TypeOK
  /\ ~panicked => /\ InHand(Here)
                  /\ state[current] = FREE => pid[current] = PID_INIT

\* After _init the initial process is in hand and all the others are free.
LEMMA InitIInv ==
  ASSUME Init
  PROVE  IInv
<1>1. 1 \in Pcbs /\ \A i \in 1 .. N_PCBS-1 : i + 1 \in Pcbs
  BY KernelAssumption DEF Pcbs
<1>2. /\ queue[FREEQ] \in Seq(Pcbs)
      /\ DOMAIN queue[FREEQ] = 1 .. N_PCBS-1
      /\ \A i \in 1 .. N_PCBS-1 : queue[FREEQ][i] = i + 1
  <2>1. queue[FREEQ] = [i \in 1 .. N_PCBS-1 |-> i+1]
    BY QueueIdFacts DEF Init
  <2>2. N_PCBS - 1 \in Nat
    BY KernelAssumption
  <2>3. queue[FREEQ] \in [1 .. N_PCBS-1 -> Pcbs]
    BY <1>1, <2>1
  <2>4. queue[FREEQ] \in Seq(Pcbs)
    BY <2>2, <2>3
  <2>5. QED
    BY <2>1, <2>4
<1>3. \A a \in QueueIds : a # FREEQ => queue[a] = <<>>
  BY DEF Init
<1>4. queue \in [QueueIds -> Seq(Pcbs)]
  <2>1. <<>> \in Seq(Pcbs)
    OBVIOUS
  <2>2. \A a \in QueueIds : queue[a] \in Seq(Pcbs)
    BY <1>2, <1>3, <2>1
  <2>3. QED
    BY <2>2 DEF Init
<1>5. Here \in Kernels
  BY <1>1, <1>4 DEF Init, Here, Kernels, States
<1>6. TypeOK
  BY <1>5, KernelAssumption DEF TypeOK, Init, PID_INIT, PRIO_HIGH, Levels
<1>7. Placed(queue, {1})
  <2>1. ASSUME NEW a \in QueueIds, NEW b \in QueueIds,
               NEW i \in DOMAIN queue[a], NEW j \in DOMAIN queue[b],
               queue[a][i] = queue[b][j]
        PROVE  a = b /\ i = j
    <3>1. a = FREEQ /\ b = FREEQ
      BY <1>3
    <3>2. QED
      BY <1>2, <2>1, <3>1, KernelAssumption
  <2>2. ASSUME NEW p \in Pcbs
        PROVE  p \in {1} <=> \A a \in QueueIds : \A i \in DOMAIN queue[a] : queue[a][i] # p
    <3>1. CASE p = 1
      <4>1. ASSUME NEW a \in QueueIds, NEW i \in DOMAIN queue[a] PROVE queue[a][i] # 1
        <5>1. a = FREEQ
          BY <1>3
        <5>2. i \in 1 .. N_PCBS-1 /\ queue[a][i] = i + 1
          BY <1>2, <5>1
        <5>3. QED
          BY <5>2, KernelAssumption
      <4>2. QED
        BY <3>1, <4>1
    <3>2. CASE p # 1
      <4>1. p - 1 \in 1 .. N_PCBS-1 /\ (p - 1) + 1 = p
        BY <3>2, KernelAssumption DEF Pcbs
      <4>2. queue[FREEQ][p-1] = p
        BY <1>2, <4>1
      <4>3. QED
        BY <1>2, <3>2, <4>1, <4>2, QueueIdFacts
    <3>3. QED
      BY <3>1, <3>2
  <2>3. QED
    BY <2>1, <2>2 DEF Placed
<1>8. \A a \in QueueIds : \A i \in DOMAIN queue[a] : state[queue[a][i]] \in Labels(a)
  <2>1. ASSUME NEW a \in QueueIds, NEW i \in DOMAIN queue[a]
        PROVE  state[queue[a][i]] \in Labels(a)
    <3>1. a = FREEQ
      BY <1>3
    <3>2. queue[a][i] \in Pcbs
      BY <1>1, <1>2, <3>1
    <3>3. QED
      BY <3>1, <3>2, QueueIdFacts DEF Init, Labels
  <2>2. QED
    BY <2>1
<1>9. QED
  BY <1>1, <1>5, <1>6, <1>7, <1>8 DEF IInv, InHand, Tidy, Here, Init

\* After a handler that leaves the scheduling state k, that state is k.
LEMMA BecomesHere ==
  ASSUME NEW k \in Kernels, Becomes(k)
  PROVE  Here' = k
<1>1. /\ queue' = k.queue /\ state' = k.state /\ current' = k.current
      /\ quantum' = k.quantum /\ cr3' = k.cr3 /\ panicked' = k.panicked
  BY DEF Becomes
<1>2. QED
  BY <1>1, KernelFields DEF Here

\* The fields of the scheduling state.
LEMMA HereFields ==
  /\ Here.queue = queue /\ Here.state = state /\ Here.current = current
  /\ Here.quantum = quantum /\ Here.cr3 = cr3 /\ Here.panicked = panicked
BY DEF Here

\* What the invariant says of a machine that runs.
LEMMA RunningFacts ==
  ASSUME IInv, Running
  PROVE  /\ Here \in Kernels /\ Tidy(Here, {current})
         /\ current \in Pcbs /\ state \in [Pcbs -> States] /\ panicked = FALSE
         /\ cr3 = current
         /\ state[current] \in {FREE, RUNNING, KILLED}
         /\ pid[current] # PID_INIT => state[current] \in {RUNNING, KILLED}
         /\ \A p \in Pcbs : priority[p] \in Levels /\ CanSched(p)
<1>1. Here \in Kernels /\ priority \in [Pcbs -> Levels]
  BY DEF IInv, TypeOK
<1>2. current \in Pcbs /\ state \in [Pcbs -> States] /\ panicked \in BOOLEAN
  BY <1>1, KernelFields, HereFields
<1>3. /\ InHand(Here)
      /\ state[current] = FREE => pid[current] = PID_INIT
      /\ panicked = FALSE
  BY <1>2 DEF IInv, Running
<1>4. \A p \in Pcbs : priority[p] \in Levels /\ CanSched(p)
  BY <1>1, KernelAssumption DEF CanSched, Levels
<1>5. QED
  BY <1>1, <1>2, <1>3, <1>4, HereFields DEF InHand

\* A handler that ends in _dispatch, entered with nothing in hand.
LEMMA DispatchInv ==
  ASSUME NEW k, Tidy(k, {}), Becomes(Dispatch(k))
  PROVE  /\ Here' \in Kernels
         /\ ~panicked' => InHand(Here') /\ state'[current'] = RUNNING
<1> DEFINE d == Dispatch(k)
<1>1. d \in Kernels
  BY DispatchTidy
<1>2. \/ d.panicked
      \/ /\ Tidy(d, {d.current})
         /\ d.state[d.current] = RUNNING
         /\ d.cr3 = d.current
  BY DispatchTidy
<1> HIDE DEF d
<1>3. Here' = d
  BY <1>1, BecomesHere DEF d
<1>4. panicked' = d.panicked /\ state' = d.state /\ current' = d.current
  BY <1>3 DEF Here
<1>5. QED
  BY <1>1, <1>2, <1>3, <1>4 DEF InHand

\* exit: the process is freed and another one dispatched.
LEMMA ExitIInv ==
  ASSUME IInv, sys_exit
  PROVE  IInv'
<1>1. Running /\ Becomes(Dispatch(Cleanup(Here, current)))
  BY DEF sys_exit, Unrestricted
<1>2. Tidy(Cleanup(Here, current), {current} \ {current})
  BY <1>1, RunningFacts, CleanupTidy
<1>3. Tidy(Cleanup(Here, current), {})
  <2>1. {current} \ {current} = {}
    OBVIOUS
  <2>2. QED
    BY <1>2, <2>1
<1>4. /\ Here' \in Kernels
      /\ ~panicked' => InHand(Here') /\ state'[current'] = RUNNING
  BY <1>1, <1>3, DispatchInv
<1>5. QED
  BY <1>4 DEF IInv, TypeOK, sys_exit, RUNNING, FREE

\* The process in hand is put on a queue, in a state that fits there, and another
\* one dispatched.
LEMMA BlockTidy ==
  ASSUME IInv, Running, NEW a \in {READQ, BUFBLOCKQ}
  PROVE  Tidy(Enqueue([Here EXCEPT !.state[current] = BLOCKED], a, current), {})
<1> DEFINE t == [Here EXCEPT !.state[current] = BLOCKED]
<1>1. Tidy(t, {current}) /\ current \in Pcbs
  BY RunningFacts, RelabelTidy DEF States
<1>2. t.state[current] = BLOCKED
  BY RunningFacts, KernelFields DEF Kernels
<1>3. a \in QueueIds /\ BLOCKED \in Labels(a)
  BY QueueIdFacts DEF Labels
<1> HIDE DEF t
<1>4. Tidy(Enqueue(t, a, current), {current} \ {current})
  BY <1>1, <1>2, <1>3, EnqueueTidy
<1>5. {current} \ {current} = {}
  OBVIOUS
<1>6. QED
  BY <1>4, <1>5 DEF t

\* read: a buffered character is taken, or the process blocks.
LEMMA ReadIInv ==
  ASSUME IInv, sys_read
  PROVE  IInv'
<1>1. CASE incount > 0
  <2>1. UNCHANGED schedVars /\ incount' = incount - 1
    BY <1>1 DEF sys_read
  <2>2. incount' \in 0 .. BUF_SIZE
    BY <1>1, <2>1, KernelAssumption DEF IInv, TypeOK
  <2>3. Here' = Here
    BY <2>1 DEF Here, schedVars
  <2>4. QED
    BY <2>1, <2>2, <2>3 DEF IInv, TypeOK, sys_read, schedVars
<1>2. CASE ~(incount > 0)
  <2>1. /\ Running /\ incount' = incount
        /\ Becomes(Dispatch(Enqueue([Here EXCEPT !.state[current] = BLOCKED],
                                    READQ, current)))
    BY <1>2 DEF sys_read, Unrestricted
  <2>2. /\ Here' \in Kernels
        /\ ~panicked' => InHand(Here') /\ state'[current'] = RUNNING
    BY <2>1, BlockTidy, DispatchInv
  <2>3. QED
    BY <2>1, <2>2 DEF IInv, TypeOK, sys_read, RUNNING, FREE
<1>3. QED
  BY <1>1, <1>2

\* read_buf and read_char: the process blocks.
LEMMA ReadBufIInv ==
  ASSUME IInv, sys_read_buf
  PROVE  IInv'
<1>1. /\ Running
      /\ Becomes(Dispatch(Enqueue([Here EXCEPT !.state[current] = BLOCKED],
                                  BUFBLOCKQ, current)))
  BY DEF sys_read_buf, Unrestricted
<1>2. /\ Here' \in Kernels
      /\ ~panicked' => InHand(Here') /\ state'[current'] = RUNNING
  BY <1>1, BlockTidy, DispatchInv
<1>3. QED
  BY <1>2 DEF IInv, TypeOK, sys_read_buf, RUNNING, FREE

\* msleep: the process yields, or goes to the sleep queue.
LEMMA MsleepIInv ==
  ASSUME IInv, NEW ms \in SleepArgs, sys_msleep(ms)
  PROVE  IInv'
<1>1. Running /\ pid[current] # PID_INIT
  BY DEF sys_msleep, Unrestricted
<1>2. {current} \ {current} = {}
  OBVIOUS
<1>3. CASE ms = 0
  <2>1. Becomes(Dispatch(Sched(Here, current))) /\ wakeup' = wakeup
    BY <1>3 DEF sys_msleep
  <2>2. Tidy(Sched(Here, current), {current} \ {current})
    BY <1>1, RunningFacts, SchedTidy
  <2>3. Tidy(Sched(Here, current), {})
    BY <1>2, <2>2
  <2>4. /\ Here' \in Kernels
        /\ ~panicked' => InHand(Here') /\ state'[current'] = RUNNING
    BY <2>1, <2>3, DispatchInv
  <2>5. QED
    BY <2>1, <2>4 DEF IInv, TypeOK, sys_msleep, RUNNING, FREE
<1>4. CASE ms # 0
  <2> DEFINE key == (system_time + ms) % TIME_MOD
  <2>1. /\ Becomes(Dispatch(SleepInsert(Here, current, key)))
        /\ wakeup' = [wakeup EXCEPT ![current] = key]
    BY <1>4 DEF sys_msleep
  <2>2. key \in 0 .. TIME_MOD-1
    BY KernelAssumption DEF IInv, TypeOK
  <2> HIDE DEF key
  <2>3. Tidy(SleepInsert(Here, current, key), {current} \ {current})
    BY <1>1, RunningFacts, HereFields, SleepInsertTidy
  <2>4. Tidy(SleepInsert(Here, current, key), {})
    BY <1>2, <2>3
  <2>5. /\ Here' \in Kernels
        /\ ~panicked' => InHand(Here') /\ state'[current'] = RUNNING
    BY <2>1, <2>4, DispatchInv
  <2>6. wakeup' \in [Pcbs -> 0 .. TIME_MOD-1]
    BY <2>1, <2>2 DEF IInv, TypeOK
  <2>7. QED
    BY <2>5, <2>6 DEF IInv, TypeOK, sys_msleep, RUNNING, FREE
<1>5. QED
  BY <1>3, <1>4

\* fork: a free PCB is taken, copied into and put on the ready queue of the
\* parent's priority.
LEMMA ForkIInv ==
  ASSUME IInv, sys_fork
  PROVE  IInv'
<1> DEFINE new == Head(queue[FREEQ])
           popped == Pop(Here, FREEQ)
           copied == [popped EXCEPT !.state[new] = ST_NEW]
           ready == [copied EXCEPT !.state[new] = READY]
           after == Enqueue(ready, priority[current], new)
<1>1. Running /\ queue[FREEQ] # <<>>
  BY DEF sys_fork
<1>2. /\ new \in Pcbs \ {current} /\ state[new] = FREE
      /\ Tidy(popped, {current} \cup {new})
      /\ popped = [Here EXCEPT !.queue = [queue EXCEPT ![FREEQ] = Tail(queue[FREEQ])]]
  <2>1. Tidy(Here, {current}) /\ FREEQ \in QueueIds /\ Here.queue[FREEQ] # <<>>
    BY <1>1, RunningFacts, QueueIdFacts, HereFields
  <2>2. /\ Head(Here.queue[FREEQ]) \in Pcbs \ {current}
        /\ Here.state[Head(Here.queue[FREEQ])] \in Labels(FREEQ)
        /\ Tidy(Pop(Here, FREEQ), {current} \cup {Head(Here.queue[FREEQ])})
        /\ Pop(Here, FREEQ)
             = [Here EXCEPT !.queue = [Here.queue EXCEPT ![FREEQ] = Tail(Here.queue[FREEQ])]]
    BY <2>1, PopTidy
  <2>3. Labels(FREEQ) = {FREE}
    BY QueueIdFacts DEF Labels
  <2>4. QED
    BY <2>2, <2>3, HereFields
<1>3. /\ priority[current] \in Levels /\ CanSched(current) /\ current \in Pcbs
      /\ state[current] \in {FREE, RUNNING, KILLED} /\ cr3 = current /\ panicked = FALSE
      /\ state \in [Pcbs -> States] /\ Here \in Kernels
  BY <1>1, RunningFacts
<1>4. /\ Becomes(after)
      /\ pid' = [pid EXCEPT ![new] = next_pid]
      /\ priority' = [priority EXCEPT ![new] = priority[current]]
      /\ next_pid' = (next_pid + 1) % PID_MOD
      /\ wakeup' = wakeup /\ system_time' = system_time /\ incount' = incount
  BY <1>2, <1>3 DEF sys_fork, NextPid
<1>5. /\ popped.state = state /\ popped.current = current
      /\ popped.cr3 = cr3 /\ popped.panicked = panicked
  BY <1>2, <1>3, HereFields DEF Kernels
<1> HIDE DEF popped, new
<1>6. Tidy(copied, {current} \cup {new})
  BY <1>2, RelabelTidy DEF States
<1>7. /\ copied.state = [state EXCEPT ![new] = ST_NEW] /\ copied.current = current
      /\ copied.cr3 = cr3 /\ copied.panicked = panicked /\ copied \in Kernels
  BY <1>2, <1>5, <1>6 DEF Tidy, Kernels
<1> HIDE DEF copied
<1>8. Tidy(ready, {current} \cup {new})
  BY <1>6, RelabelTidy DEF States
<1>9. /\ ready.state = [state EXCEPT ![new] = READY] /\ ready.current = current
      /\ ready.cr3 = cr3 /\ ready.panicked = panicked /\ ready \in Kernels
  BY <1>2, <1>3, <1>7, <1>8 DEF Tidy, Kernels
<1> HIDE DEF ready
<1>10. Tidy(after, {current})
  <2>1. priority[current] \in QueueIds /\ ready.state[new] \in Labels(priority[current])
    BY <1>2, <1>3, <1>9, QueueIdFacts DEF Labels
  <2>2. Tidy(after, ({current} \cup {new}) \ {new})
    BY <1>8, <2>1, EnqueueTidy
  <2>3. ({current} \cup {new}) \ {new} = {current}
    BY <1>2
  <2>4. QED
    BY <2>2, <2>3
<1>11. /\ after.state = [state EXCEPT ![new] = READY] /\ after.current = current
       /\ after.cr3 = cr3 /\ after.panicked = panicked /\ after \in Kernels
  BY <1>9, <1>10 DEF Tidy, Kernels, Enqueue
<1> HIDE DEF after
<1>12. Here' = after
  BY <1>4, <1>11, BecomesHere
<1>13. /\ state' = [state EXCEPT ![new] = READY] /\ current' = current
       /\ panicked' = panicked
  BY <1>11, <1>12 DEF Here
<1>14. /\ pid' \in [Pcbs -> 0 .. PID_MOD-1] /\ priority' \in [Pcbs -> Levels]
       /\ next_pid' \in 0 .. PID_MOD-1
  <2>1. next_pid \in 0 .. PID_MOD-1 /\ next_pid + 1 \in Nat /\ PID_MOD \in Nat \ {0}
    BY KernelAssumption DEF IInv, TypeOK
  <2>2. (next_pid + 1) % PID_MOD \in 0 .. PID_MOD-1
    BY <2>1
  <2>3. pid \in [Pcbs -> 0 .. PID_MOD-1] /\ priority \in [Pcbs -> Levels]
    BY DEF IInv, TypeOK
  <2>4. pid' \in [Pcbs -> 0 .. PID_MOD-1]
    BY <1>4, <2>1, <2>3
  <2>5. priority' \in [Pcbs -> Levels]
    BY <1>3, <1>4, <2>3
  <2>6. QED
    BY <1>4, <2>2, <2>4, <2>5
<1>15. TypeOK'
  BY <1>4, <1>11, <1>12, <1>14 DEF IInv, TypeOK
<1>16. InHand(Here')
  BY <1>2, <1>3, <1>10, <1>11, <1>12 DEF InHand
<1>17. state'[current'] = FREE => pid'[current'] = PID_INIT
  BY <1>1, <1>2, <1>3, <1>4, <1>13 DEF IInv, TypeOK, Running
<1>18. QED
  BY <1>15, <1>16, <1>17 DEF IInv

\* kill: the victim is only marked, where it is.
LEMMA KillIInv ==
  ASSUME IInv, NEW victim, sys_kill(victim)
  PROVE  IInv'
<1> DEFINE found == {p \in Pcbs : pid[p] = victim /\ state[p] # FREE}
           v == CHOOSE p \in found : \A o \in found : p <= o
<1>1. Running /\ found # {} /\ state' = [state EXCEPT ![v] = KILLED]
  BY DEF sys_kill, Unrestricted
<1>2. v \in found
  <2>1. found \subseteq Nat
    BY DEF Pcbs
  <2>2. \E p \in found : \A o \in found : p <= o
    <3> HIDE DEF found
    <3> QED BY <1>1, <2>1, LeastNumber
  <2>3. QED
    BY <2>2
<1>3. v \in Pcbs /\ state[v] # FREE
  BY <1>2
<1> HIDE DEF found, v
<1>4. Here' = [Here EXCEPT !.state = state']
  <2>1. UNCHANGED <<queue, current, quantum, cr3, panicked>>
    BY DEF sys_kill
  <2>2. QED
    BY <2>1 DEF Here
<1>5. /\ Here \in Kernels /\ Tidy(Here, {current})
      /\ state \in [Pcbs -> States]
      /\ cr3 = current /\ state[current] \in {FREE, RUNNING, KILLED} /\ current \in Pcbs
  BY <1>1, RunningFacts
<1>6. Here' \in Kernels
  BY <1>1, <1>3, <1>4, <1>5 DEF Kernels, States
<1>7. ASSUME NEW a \in QueueIds, NEW i \in DOMAIN queue[a]
      PROVE  state'[queue[a][i]] \in Labels(a)
  <2>1. queue[a][i] \in Pcbs /\ state[queue[a][i]] \in Labels(a)
    BY <1>5, KernelFields, HereFields DEF Tidy
  <2>2. CASE queue[a][i] # v
    BY <1>1, <1>3, <1>5, <2>1, <2>2
  <2>3. CASE queue[a][i] = v
    <3>1. a # FREEQ
      BY <1>3, <2>1, <2>3, QueueIdFacts DEF Labels
    <3>2. KILLED \in Labels(a)
      BY <3>1 DEF Labels
    <3>3. QED
      BY <1>1, <1>3, <1>5, <2>3, <3>2
  <2>4. QED
    BY <2>2, <2>3
<1>8. queue' = queue /\ current' = current /\ cr3' = cr3 /\ panicked' = panicked
  BY DEF sys_kill
<1>9. Tidy(Here', {current})
  <2>1. Here'.queue = queue /\ Here'.state = state'
    BY <1>8 DEF Here
  <2>2. Placed(queue, {current}) /\ {current} \subseteq Pcbs
    BY <1>5, HereFields DEF Tidy
  <2>3. QED
    BY <1>6, <1>7, <2>1, <2>2 DEF Tidy
<1>10. state'[current] \in {FREE, RUNNING, KILLED} /\ (state'[current] = FREE => state[current] = FREE)
  BY <1>1, <1>3, <1>5 DEF KILLED, FREE
<1>11. TypeOK'
  BY <1>6 DEF IInv, TypeOK, sys_kill
<1>12. InHand(Here')
  BY <1>5, <1>8, <1>9, <1>10 DEF InHand, Here
<1>13. QED
  BY <1>1, <1>8, <1>10, <1>11, <1>12 DEF IInv, sys_kill, Running

\* set_priority and set_time leave the scheduling state alone.
LEMMA SetIInv ==
  ASSUME IInv, \/ \E arg \in PrioArgs : sys_set_priority(arg)
               \/ \E time \in TimeArgs : sys_set_time(time)
  PROVE  IInv'
<1>1. CASE \E arg \in PrioArgs : sys_set_priority(arg)
  <2>1. PICK arg \in PrioArgs : sys_set_priority(arg)
    BY <1>1
  <2>2. UNCHANGED <<schedVars, pid, wakeup, system_time, next_pid, incount>>
    BY <2>1 DEF sys_set_priority
  <2> DEFINE prio == arg % PRIO_MOD
  <2>3. prio < N_PRIOS /\ priority' = [priority EXCEPT ![current] = prio]
    BY <2>1 DEF sys_set_priority
  <2>4. prio \in Levels
    <3>1. arg \in Nat /\ PRIO_MOD \in Nat \ {0}
      BY KernelAssumption
    <3>2. prio \in Nat
      BY <3>1
    <3> HIDE DEF prio
    <3>3. QED
      BY <2>3, <3>2, KernelAssumption DEF Levels
  <2>5. priority' \in [Pcbs -> Levels]
    <3> HIDE DEF prio
    <3> QED BY <2>3, <2>4 DEF IInv, TypeOK
  <2>6. Here' = Here
    BY <2>2 DEF Here, schedVars
  <2>7. QED
    BY <2>2, <2>5, <2>6 DEF IInv, TypeOK, schedVars
<1>2. CASE \E time \in TimeArgs : sys_set_time(time)
  <2>1. PICK time \in TimeArgs : sys_set_time(time)
    BY <1>2
  <2>2. /\ UNCHANGED <<schedVars, pid, priority, wakeup, next_pid, incount>>
        /\ system_time' = time
    BY <2>1 DEF sys_set_time
  <2>3. system_time' \in 0 .. TIME_MOD-1
    BY <2>2, KernelAssumption
  <2>4. Here' = Here
    BY <2>2 DEF Here, schedVars
  <2>5. QED
    BY <2>2, <2>3, <2>4 DEF IInv, TypeOK, schedVars
<1>3. QED
  BY <1>1, <1>2

\* The process in hand, c, and what is in force for it are the same in w and k.
Keeps(w, k, c) ==
  /\ w.state[c] = k.state[c]
  /\ w.current = k.current
  /\ w.cr3 = k.cr3
  /\ w.panicked = k.panicked

\* A round of the loop that wakes sleepers keeps the process in hand as it is.
LEMMA WakeTidy ==
  ASSUME NEW k, NEW c, Tidy(k, {c}), NEW now,
         \A p \in Pcbs : priority[p] \in Levels /\ CanSched(p)
  PROVE  /\ Tidy(Wake(now)[k], {c})
         /\ Keeps(Wake(now)[k], k, c)
<1> DEFINE p == Head(k.queue[SLEEPQ])
           popped == Pop(k, SLEEPQ)
<1>1. k \in Kernels /\ c \in Pcbs
  BY DEF Tidy
<1>2. CASE k.queue[SLEEPQ] = <<>> \/ wakeup[p] > now
  BY <1>1, <1>2 DEF Wake, Keeps
<1>3. CASE ~(k.queue[SLEEPQ] = <<>> \/ wakeup[p] > now)
  <2>1. /\ p \in Pcbs \ {c}
        /\ Tidy(popped, {c} \cup {p})
        /\ popped = [k EXCEPT !.queue = [k.queue EXCEPT ![SLEEPQ] = Tail(k.queue[SLEEPQ])]]
    BY <1>3, QueueIdFacts, PopTidy
  <2>2. priority[p] \in Levels /\ CanSched(p)
    BY <2>1
  <2>3. Wake(now)[k] = Sched(popped, p)
    BY <1>1, <1>3, <2>2 DEF Wake
  <2>4. /\ popped.state = k.state /\ popped.current = k.current
        /\ popped.cr3 = k.cr3 /\ popped.panicked = k.panicked
    BY <1>1, <2>1 DEF Kernels
  <2> HIDE DEF popped, p
  <2>5. /\ Tidy(Sched(popped, p), ({c} \cup {p}) \ {p})
        /\ OnlyStateOf(Sched(popped, p), popped, p)
    BY <2>1, <2>2, SchedTidy
  <2>6. ({c} \cup {p}) \ {p} = {c}
    BY <2>1
  <2>7. Keeps(Sched(popped, p), k, c)
    BY <1>1, <2>1, <2>4, <2>5 DEF OnlyStateOf, Keeps
  <2>8. QED
    BY <2>3, <2>5, <2>6, <2>7
<1>4. QED
  BY <1>2, <1>3

\* A tick: due sleepers are woken, and the process in hand keeps the CPU or another
\* one is dispatched.
LEMMA ClockIInv ==
  ASSUME IInv, isr_clock
  PROVE  IInv'
<1> DEFINE now == (system_time + 1) % TIME_MOD
           woken == Iterate(Wake(now), Here, N_PCBS)
           S == {s \in Kernels : /\ Tidy(s, {current})
                                 /\ s.state[current] = state[current]
                                 /\ s.current = current
                                 /\ s.cr3 = cr3
                                 /\ s.panicked = panicked}
<1>1. Running
  BY DEF isr_clock
<1>2. /\ Here \in Kernels /\ Tidy(Here, {current}) /\ current \in Pcbs
      /\ \A p \in Pcbs : priority[p] \in Levels /\ CanSched(p)
      /\ cr3 = current /\ state[current] \in {FREE, RUNNING, KILLED}
  BY <1>1, RunningFacts
<1>3. woken \in S
  <2>1. Here \in S /\ N_PCBS \in Nat
    BY <1>2, HereFields, KernelAssumption
  <2>2. ASSUME NEW s \in S PROVE Wake(now)[s] \in S
    <3>1. /\ Tidy(s, {current}) /\ s.state[current] = state[current]
          /\ s.current = current /\ s.cr3 = cr3 /\ s.panicked = panicked
      OBVIOUS
    <3> HIDE DEF S, now
    <3>2. Tidy(Wake(now)[s], {current}) /\ Keeps(Wake(now)[s], s, current)
      BY <1>2, <3>1, WakeTidy
    <3>3. Wake(now)[s] \in Kernels
      BY <3>2 DEF Tidy
    <3>4. QED
      BY <3>1, <3>2, <3>3 DEF S, Keeps
  <2> HIDE DEF S, now
  <2>3. QED
    BY <2>1, <2>2, IterateStays
<1>4. /\ woken \in Kernels /\ Tidy(woken, {current})
      /\ woken.state[current] = state[current]
      /\ woken.current = current /\ woken.cr3 = cr3 /\ woken.panicked = panicked
  BY <1>3
<1>5. /\ system_time' = now
      /\ IF woken.quantum < 1
         THEN Becomes(Dispatch(IF CanSched(current) THEN Sched(woken, current)
                                                    ELSE Cleanup(woken, current)))
         ELSE Becomes([woken EXCEPT !.quantum = @ - 1])
      /\ wakeup' = [p \in Pcbs |-> IF Contains(queue'[SLEEPQ], p) THEN wakeup[p] ELSE 0]
      /\ pid' = pid /\ priority' = priority /\ next_pid' = next_pid /\ incount' = incount
  BY DEF isr_clock
<1>6. now \in 0 .. TIME_MOD-1
  <2>1. system_time + 1 \in Nat /\ TIME_MOD \in Nat \ {0}
    BY KernelAssumption DEF IInv, TypeOK
  <2>2. QED
    BY <2>1
<1> HIDE DEF woken, S, now
<1>7. wakeup' \in [Pcbs -> 0 .. TIME_MOD-1]
  <2>1. wakeup \in [Pcbs -> 0 .. TIME_MOD-1] /\ 0 \in 0 .. TIME_MOD-1
    BY KernelAssumption DEF IInv, TypeOK
  <2>2. QED
    BY <1>5, <2>1
<1>8. CASE woken.quantum < 1
  <2>1. Becomes(Dispatch(Sched(woken, current)))
    BY <1>2, <1>5, <1>8
  <2>2. Tidy(Sched(woken, current), {current} \ {current})
    BY <1>2, <1>4, SchedTidy
  <2>3. {current} \ {current} = {}
    OBVIOUS
  <2>4. Tidy(Sched(woken, current), {})
    BY <2>2, <2>3
  <2>5. /\ Here' \in Kernels
        /\ ~panicked' => InHand(Here') /\ state'[current'] = RUNNING
    BY <2>1, <2>4, DispatchInv
  <2>6. QED
    BY <1>5, <1>6, <1>7, <2>5 DEF IInv, TypeOK, RUNNING, FREE
<1>9. CASE ~(woken.quantum < 1)
  <2> DEFINE k == [woken EXCEPT !.quantum = woken.quantum - 1]
  <2>1. Becomes(k)
    BY <1>5, <1>9
  <2>2. /\ k \in Kernels /\ k.queue = woken.queue /\ k.state = woken.state
        /\ k.current = current /\ k.cr3 = cr3 /\ k.panicked = panicked
    <3>1. woken.quantum - 1 \in Nat
      BY <1>4, <1>9, KernelFields
    <3>2. QED
      BY <1>4, <3>1 DEF Kernels
  <2> HIDE DEF k
  <2>3. Here' = k
    BY <2>1, <2>2, BecomesHere
  <2>4. Tidy(k, {current})
    BY <1>4, <2>2 DEF Tidy
  <2>5. state'[current] = state[current] /\ current' = current /\ panicked' = panicked
    BY <1>4, <2>2, <2>3 DEF Here
  <2>6. InHand(Here')
    BY <1>2, <1>4, <2>2, <2>3, <2>4 DEF InHand
  <2>7. TypeOK'
    BY <1>5, <1>6, <1>7, <2>2, <2>3 DEF IInv, TypeOK
  <2>8. QED
    BY <1>1, <1>5, <2>5, <2>6, <2>7 DEF IInv, Running
<1>10. QED
  BY <1>8, <1>9

\* A PCB taken out of a queue by a device interrupt is scheduled at once.
LEMMA DeviceWakes ==
  ASSUME IInv, Running, NEW a \in QueueIds, NEW n \in DOMAIN queue[a],
         NEW k, k = [Here EXCEPT !.queue[a] = RemoveAt(@, n)],
         Becomes(Sched(k, queue[a][n]))
  PROVE  /\ Here' \in Kernels
         /\ InHand(Here')
         /\ state'[current'] = state[current] /\ current' = current
         /\ panicked' = panicked
<1> DEFINE p == queue[a][n]
<1>1. /\ Here \in Kernels /\ Tidy(Here, {current}) /\ current \in Pcbs
      /\ cr3 = current /\ state[current] \in {FREE, RUNNING, KILLED}
      /\ \A o \in Pcbs : priority[o] \in Levels /\ CanSched(o)
  BY RunningFacts
<1>2. p \in Pcbs \ {current} /\ Tidy(k, {current} \cup {p})
  <2>1. n \in DOMAIN Here.queue[a]
    BY HereFields
  <2>2. /\ Here.queue[a][n] \in Pcbs \ {current}
        /\ Tidy([Here EXCEPT !.queue[a] = RemoveAt(@, n)],
                {current} \cup {Here.queue[a][n]})
    BY <1>1, <2>1, TakeTidy
  <2>3. QED
    BY <2>2, HereFields
<1>3. /\ k.state = state /\ k.current = current /\ k.cr3 = cr3
      /\ k.panicked = panicked
  BY <1>1, HereFields DEF Kernels
<1> HIDE DEF p
<1> DEFINE d == Sched(k, p)
<1>4. /\ Tidy(d, ({current} \cup {p}) \ {p})
      /\ OnlyStateOf(d, k, p)
  BY <1>1, <1>2, SchedTidy
<1>5. ({current} \cup {p}) \ {p} = {current}
  BY <1>2
<1>6. Becomes(d)
  BY DEF p
<1> HIDE DEF d
<1>7. Tidy(d, {current}) /\ d \in Kernels
  BY <1>4, <1>5 DEF Tidy
<1>8. Here' = d
  BY <1>6, <1>7, BecomesHere
<1>9. d.state[current] = state[current]
  BY <1>1, <1>2, <1>3, <1>4 DEF OnlyStateOf
<1>10. /\ state' = d.state /\ current' = d.current /\ panicked' = d.panicked
  BY <1>8 DEF Here
<1>11. QED
  BY <1>1, <1>3, <1>4, <1>7, <1>8, <1>9, <1>10 DEF InHand, OnlyStateOf

\* A character on the serial line is handed to the first reader or buffered.
LEMMA SioIInv ==
  ASSUME IInv, isr_sio
  PROVE  IInv'
<1>1. /\ Running /\ UNCHANGED <<pid, priority, wakeup, system_time, next_pid>>
      /\ READQ \in QueueIds
  BY QueueIdFacts DEF isr_sio
<1>2. CASE queue[READQ] # <<>>
  <2> DEFINE p == Head(queue[READQ])
             k == [Here EXCEPT !.queue[READQ] = RemoveAt(@, 1)]
  <2>1. queue[READQ] \in Seq(Pcbs)
    BY <1>1, RunningFacts, KernelFields, HereFields
  <2>2. /\ 1 \in DOMAIN queue[READQ] /\ p = queue[READQ][1] /\ p \in Pcbs
        /\ RemoveAt(queue[READQ], 1) = Tail(queue[READQ])
    <3>1. 1 \in 1 .. Len(queue[READQ]) /\ Len(queue[READQ]) \in Nat /\ p \in Pcbs
      BY <1>2, <2>1
    <3>2. SubSeq(queue[READQ], 1, 0) = <<>>
      BY <2>1
    <3>3. Tail(queue[READQ]) = SubSeq(queue[READQ], 2, Len(queue[READQ]))
      BY <1>2, <2>1, TailIsSubSeq
    <3>4. Tail(queue[READQ]) \in Seq(Pcbs)
      BY <1>2, <2>1
    <3>5. <<>> \o Tail(queue[READQ]) = Tail(queue[READQ])
      BY <3>4, ConcatEmptySeq
    <3>6. RemoveAt(queue[READQ], 1) = Tail(queue[READQ])
      BY <3>2, <3>3, <3>5 DEF RemoveAt
    <3>7. QED
      BY <1>2, <2>1, <3>1, <3>6
  <2>3. k = Pop(Here, READQ)
    BY <2>2, HereFields DEF Pop
  <2>4. CanSched(p)
    BY <1>1, <2>2, RunningFacts
  <2>5. Becomes(Sched(Pop(Here, READQ), p)) /\ incount' = incount
    BY <1>2, <2>4 DEF isr_sio
  <2>6. Becomes(Sched(k, queue[READQ][1]))
    BY <2>2, <2>3, <2>5
  <2>7. /\ Here' \in Kernels /\ InHand(Here')
        /\ state'[current'] = state[current] /\ current' = current
        /\ panicked' = panicked
    <3>1. k = [Here EXCEPT !.queue[READQ] = RemoveAt(@, 1)]
      OBVIOUS
    <3> HIDE DEF k
    <3> QED BY <1>1, <2>2, <2>6, <3>1, DeviceWakes
  <2>8. QED
    BY <1>1, <2>5, <2>7 DEF IInv, TypeOK, Running
<1>3. CASE queue[READQ] = <<>>
  <2>1. incount < BUF_SIZE /\ incount' = incount + 1 /\ UNCHANGED schedVars
    BY <1>3 DEF isr_sio
  <2>2. incount' \in 0 .. BUF_SIZE
    BY <2>1, KernelAssumption DEF IInv, TypeOK
  <2>3. Here' = Here
    BY <2>1 DEF Here, schedVars
  <2>4. QED
    BY <1>1, <2>1, <2>2, <2>3 DEF IInv, TypeOK, schedVars
<1>4. QED
  BY <1>2, <1>3

\* A key completes the request of one keyboard reader.
LEMMA KeyboardIInv ==
  ASSUME IInv, NEW i \in DOMAIN queue[BUFBLOCKQ], keyboard_isr(i)
  PROVE  IInv'
<1> DEFINE p == queue[BUFBLOCKQ][i]
           k == [Here EXCEPT !.queue[BUFBLOCKQ] = RemoveAt(@, i)]
<1>1. /\ Running
      /\ Becomes(IF CanSched(p) THEN Sched(k, p) ELSE k)
      /\ UNCHANGED <<pid, priority, wakeup, system_time, next_pid, incount>>
      /\ BUFBLOCKQ \in QueueIds
  BY QueueIdFacts DEF keyboard_isr
<1>2. p \in Pcbs
  <2>1. queue[BUFBLOCKQ] \in Seq(Pcbs)
    BY <1>1, RunningFacts, KernelFields, HereFields
  <2>2. QED
    BY <2>1
<1>3. Becomes(Sched(k, p))
  BY <1>1, <1>2, RunningFacts
<1>4. /\ Here' \in Kernels /\ InHand(Here')
      /\ state'[current'] = state[current] /\ current' = current
      /\ panicked' = panicked
  <2>1. k = [Here EXCEPT !.queue[BUFBLOCKQ] = RemoveAt(@, i)]
    OBVIOUS
  <2> HIDE DEF k
  <2> QED BY <1>1, <1>3, <2>1, DeviceWakes
<1>5. QED
  BY <1>1, <1>4 DEF IInv, TypeOK, Running

\* Every step preserves the invariant.
LEMMA NextIInv ==
  ASSUME IInv, [Next]_vars
  PROVE  IInv'
<1>1. CASE sys_fork
  BY <1>1, ForkIInv
<1>2. CASE sys_exit
  BY <1>2, ExitIInv
<1>3. CASE sys_read
  BY <1>3, ReadIInv
<1>4. CASE sys_read_buf
  BY <1>4, ReadBufIInv
<1>5. CASE \E ms \in SleepArgs : sys_msleep(ms)
  BY <1>5, MsleepIInv
<1>6. CASE \E victim \in 0 .. MAX_PID : sys_kill(victim)
  BY <1>6, KillIInv
<1>7. CASE \/ \E arg \in PrioArgs : sys_set_priority(arg)
           \/ \E time \in TimeArgs : sys_set_time(time)
  BY <1>7, SetIInv
<1>8. CASE isr_clock
  BY <1>8, ClockIInv
<1>9. CASE isr_sio
  BY <1>9, SioIInv
<1>10. CASE \E i \in DOMAIN queue[BUFBLOCKQ] : keyboard_isr(i)
  BY <1>10, KeyboardIInv
<1>11. CASE UNCHANGED vars
  <2>1. Here' = Here /\ UNCHANGED <<state, current, panicked>>
    BY <1>11 DEF vars, schedVars, Here
  <2>2. QED
    BY <1>11, <2>1 DEF IInv, TypeOK, vars
<1>12. QED
  BY <1>1, <1>2, <1>3, <1>4, <1>5, <1>6, <1>7, <1>8, <1>9, <1>10, <1>11
     DEF Next, SystemCall, Halted
-----------------------------------------------------------------------------
(***************************************************************************)
(* The theorems.                                                           *)
(***************************************************************************)

\* The inductive invariant holds in every state the kernel reaches.
THEOREM Invariance == Spec => []IInv
<1>1. Init => IInv
  BY InitIInv
<1>2. IInv /\ [Next]_vars => IInv'
  BY NextIInv
<1>3. QED
  BY <1>1, <1>2, PTL DEF Spec

\* Every variable keeps its type, for any number of processes and priorities.
THEOREM TypeCorrect == Spec => []TypeOK
<1>1. IInv => TypeOK
  BY DEF IInv
<1>2. QED
  BY <1>1, Invariance, PTL

\* While the kernel runs, every PCB is either _current or on exactly one queue, once:
\* no handler schedules a process twice, loses one, or frees one that still waits.
THEOREM EveryPcbInOnePlace == Spec => []OnePlace
<1>1. IInv => OnePlace
  BY HereFields DEF IInv, InHand, Tidy, OnePlace
<1>2. QED
  BY <1>1, Invariance, PTL

\* The state field of a PCB fits the queue it is on: what _dispatch takes for a live
\* process is one, and what the free list holds is free.
THEOREM StateFieldFits == Spec => []StateMatchesPlace
<1>1. IInv => StateMatchesPlace
  <2> SUFFICES ASSUME IInv, ~panicked, NEW p \in Pcbs
               PROVE  /\ On(p, FREEQ) => state[p] = FREE
                      /\ IsReady(p) => state[p] \in {READY, KILLED}
                      /\ On(p, READQ) \/ On(p, BUFBLOCKQ) => state[p] \in {BLOCKED, KILLED}
                      /\ On(p, SLEEPQ) => state[p] \in {RUNNING, KILLED}
                      /\ p = current => state[p] \in {FREE, RUNNING, KILLED}
    BY DEF StateMatchesPlace
  <2>1. /\ InHand(Here)
        /\ state[current] \in {FREE, RUNNING, KILLED}
    BY HereFields DEF IInv, InHand
  <2>2. \A a \in QueueIds : \A i \in DOMAIN queue[a] : state[queue[a][i]] \in Labels(a)
    BY <2>1, HereFields DEF InHand, Tidy
  <2>3. \A a \in QueueIds : On(p, a) => state[p] \in Labels(a)
    BY <2>2 DEF On
  <2>4. IsReady(p) => state[p] \in {READY, KILLED}
    BY <2>3, QueueIdFacts DEF IsReady, Labels
  <2>5. QED
    BY <2>1, <2>3, <2>4, QueueIdFacts DEF Labels
<1>2. QED
  BY <1>1, Invariance, PTL

\* Every handler returns to the process in _current with that process's page
\* directory in force.
THEOREM ReturnsToOwnAddressSpace == Spec => []OwnAddressSpace
<1>1. IInv => OwnAddressSpace
  BY HereFields DEF IInv, InHand, OwnAddressSpace
<1>2. QED
  BY <1>1, Invariance, PTL
-----------------------------------------------------------------------------
(***************************************************************************)
(* The order in which Kernel serves its processes: what _dispatch, the     *)
(* wakeup loop of the clock and the device interrupts do to the queues.    *)
(***************************************************************************)
WaitQs == {SLEEPQ, READQ, BUFBLOCKQ}

InQ(k, p, a) == \E i \in DOMAIN k.queue[a] : k.queue[a][i] = p

ReadyIn(k, p) == \E l \in Levels : InQ(k, p, l)

\* The PCBs that wait for the CPU and have been killed.
Doomed(k) == {p \in Pcbs : ReadyIn(k, p) /\ k.state[p] = KILLED}

BeforeIn(k, a, p, o) ==
  \E i, j \in DOMAIN k.queue[a] : i < j /\ k.queue[a][i] = p /\ k.queue[a][j] = o

\* w is s without its first n entries, for some n.
Rest(w, s) ==
  \E n \in 0 .. Len(s) : /\ Len(w) = Len(s) - n
                         /\ \A i \in 1 .. Len(w) : w[i] = s[i+n]

\* The lengths and domains of the queues.
LEMMA QueueFacts ==
  ASSUME NEW k \in Kernels, NEW a \in QueueIds
  PROVE  /\ k.queue[a] \in Seq(Pcbs)
         /\ DOMAIN k.queue[a] = 1 .. Len(k.queue[a])
         /\ Len(k.queue[a]) \in Nat
         /\ \A i \in DOMAIN k.queue[a] : k.queue[a][i] \in Pcbs
<1>1. k.queue[a] \in Seq(Pcbs)
  BY KernelFields
<1>2. QED
  BY <1>1

\* A sequence is a rest of itself, and its tail is.
LEMMA RestFacts ==
  ASSUME NEW s \in Seq(Pcbs)
  PROVE  /\ Rest(s, s)
         /\ s # <<>> => Rest(Tail(s), s)
<1>0. Len(s) \in Nat
  OBVIOUS
<1>1. Rest(s, s)
  <2>1. 0 \in 0 .. Len(s) /\ Len(s) = Len(s) - 0 /\ \A i \in 1 .. Len(s) : s[i] = s[i+0]
    BY <1>0
  <2>2. QED
    BY <2>1 DEF Rest
<1>2. ASSUME s # <<>> PROVE Rest(Tail(s), s)
  <2>1. /\ Len(Tail(s)) = Len(s) - 1
        /\ \A i \in 1 .. Len(Tail(s)) : Tail(s)[i] = s[i+1]
        /\ Len(s) >= 1
    BY <1>2, HeadTailProperties
  <2>2. 1 \in 0 .. Len(s)
    BY <1>0, <2>1
  <2>3. QED
    BY <2>1, <2>2 DEF Rest
<1>3. QED
  BY <1>1, <1>2

\* A rest of a rest is a rest.
LEMMA RestOfRest ==
  ASSUME NEW s \in Seq(Pcbs), NEW v \in Seq(Pcbs), NEW w \in Seq(Pcbs),
         Rest(w, v), Rest(v, s)
  PROVE  Rest(w, s)
<1>1. PICK m \in 0 .. Len(v) : /\ Len(w) = Len(v) - m
                               /\ \A i \in 1 .. Len(w) : w[i] = v[i+m]
  BY DEF Rest
<1>2. PICK n \in 0 .. Len(s) : /\ Len(v) = Len(s) - n
                               /\ \A i \in 1 .. Len(v) : v[i] = s[i+n]
  BY DEF Rest
<1>3. Len(s) \in Nat /\ Len(v) \in Nat /\ Len(w) \in Nat /\ m \in Nat /\ n \in Nat
  OBVIOUS
<1>4. m + n \in 0 .. Len(s) /\ Len(w) = Len(s) - (m + n)
  BY <1>1, <1>2, <1>3
<1>5. ASSUME NEW i \in 1 .. Len(w) PROVE w[i] = s[i + (m + n)]
  <2>1. i \in Nat /\ i + m \in 1 .. Len(v) /\ (i + m) + n = i + (m + n)
    BY <1>1, <1>2, <1>3
  <2>2. w[i] = v[i+m] /\ v[i+m] = s[(i+m)+n]
    BY <1>1, <1>2, <2>1
  <2>3. QED
    BY <2>1, <2>2
<1>6. QED
  BY <1>4, <1>5 DEF Rest

\* What is in the rest of a queue is in the queue, in the same order.
LEMMA RestKeepsOrder ==
  ASSUME NEW k \in Kernels, NEW t \in Kernels, NEW a \in QueueIds,
         Rest(t.queue[a], k.queue[a])
  PROVE  /\ \A p : InQ(t, p, a) => InQ(k, p, a)
         /\ \A p, o : BeforeIn(t, a, p, o) => BeforeIn(k, a, p, o)
<1> DEFINE w == t.queue[a]
           s == k.queue[a]
<1>1. /\ w \in Seq(Pcbs) /\ DOMAIN w = 1 .. Len(w) /\ Len(w) \in Nat
      /\ s \in Seq(Pcbs) /\ DOMAIN s = 1 .. Len(s) /\ Len(s) \in Nat
  BY QueueFacts
<1>2. PICK n \in 0 .. Len(s) : /\ Len(w) = Len(s) - n
                               /\ \A i \in 1 .. Len(w) : w[i] = s[i+n]
  BY DEF Rest
<1> HIDE DEF w, s
<1>3. \A i \in DOMAIN w : i \in Nat /\ i + n \in DOMAIN s /\ w[i] = s[i+n]
  BY <1>1, <1>2
<1>4. ASSUME NEW p, \E i \in DOMAIN w : w[i] = p
      PROVE  \E i \in DOMAIN s : s[i] = p
  BY <1>3, <1>4
<1>5. ASSUME NEW p, NEW o, NEW i \in DOMAIN w, NEW j \in DOMAIN w,
             i < j, w[i] = p, w[j] = o
      PROVE  \E x, y \in DOMAIN s : x < y /\ s[x] = p /\ s[y] = o
  <2>1. i + n \in DOMAIN s /\ j + n \in DOMAIN s /\ s[i+n] = p /\ s[j+n] = o
    BY <1>3, <1>5
  <2>2. i + n < j + n
    BY <1>3, <1>5
  <2>3. QED
    BY <2>1, <2>2
<1>6. QED
  BY <1>4, <1>5 DEF InQ, BeforeIn, w, s

\* A PCB that is on two queues is on the same one, and two PCBs of one queue are in
\* one order.
LEMMA OneQueue ==
  ASSUME NEW k, NEW held, Tidy(k, held), NEW p \in Pcbs, NEW a \in QueueIds, InQ(k, p, a)
  PROVE  /\ p \notin held
         /\ k.state[p] \in Labels(a)
         /\ \A b \in QueueIds : InQ(k, p, b) => a = b
BY DEF Tidy, Placed, InQ

LEMMA OneOrder ==
  ASSUME NEW k, NEW held, Tidy(k, held), NEW p, NEW o,
         NEW a \in QueueIds, NEW b \in QueueIds, BeforeIn(k, a, p, o)
  PROVE  /\ InQ(k, p, a) /\ InQ(k, o, a)
         /\ ~BeforeIn(k, b, o, p)
<1>1. k \in Kernels /\ Placed(k.queue, held)
  BY DEF Tidy
<1>2. PICK i, j \in DOMAIN k.queue[a] : i < j /\ k.queue[a][i] = p /\ k.queue[a][j] = o
  BY DEF BeforeIn
<1>3. ASSUME NEW x \in DOMAIN k.queue[b], NEW y \in DOMAIN k.queue[b],
             x < y, k.queue[b][x] = o, k.queue[b][y] = p
      PROVE  FALSE
  <2>1. a = b /\ x = j /\ y = i
    BY <1>1, <1>2, <1>3 DEF Placed
  <2>2. i \in Nat /\ j \in Nat
    BY <1>1, QueueFacts
  <2>3. QED
    BY <1>2, <1>3, <2>1, <2>2
<1>4. QED
  BY <1>2, <1>3 DEF BeforeIn, InQ

-----------------------------------------------------------------------------
(***************************************************************************)
(* The loop of _dispatch: each effective round takes one PCB out of the    *)
(* set of those that wait for the CPU and have been killed.                *)
(***************************************************************************)

\* A subset that lacks a member is smaller.
LEMMA Smaller ==
  ASSUME NEW A, A \subseteq Pcbs, NEW p \in A, NEW B, B \subseteq A \ {p},
         NEW n \in Nat, Cardinality(A) <= n + 1
  PROVE  Cardinality(B) <= n
<1>1. IsFiniteSet(Pcbs)
  <2>1. 1 \in Int /\ N_PCBS \in Int
    BY KernelAssumption
  <2>2. QED
    BY <2>1, FS_Interval DEF Pcbs
<1>2. IsFiniteSet(A)
  BY <1>1, FS_Subset
<1>3. IsFiniteSet(A \ {p}) /\ Cardinality(A \ {p}) = Cardinality(A) - 1
  BY <1>2, FS_RemoveElement
<1>4. IsFiniteSet(B) /\ Cardinality(B) <= Cardinality(A \ {p})
  BY <1>3, FS_Subset
<1>5. Cardinality(A) \in Nat /\ Cardinality(B) \in Nat
  BY <1>2, <1>4, FS_CardinalityType
<1>6. QED
  BY <1>3, <1>4, <1>5

\* There are at most N_PCBS PCBs, and a set of none is empty.
LEMMA HowMany ==
  ASSUME NEW A, A \subseteq Pcbs
  PROVE  /\ Cardinality(A) <= N_PCBS
         /\ Cardinality(A) <= 0 => A = {}
<1>1. IsFiniteSet(Pcbs) /\ Cardinality(Pcbs) = N_PCBS
  <2>1. 1 \in Int /\ N_PCBS \in Int
    BY KernelAssumption
  <2>2. IsFiniteSet(1 .. N_PCBS) /\ Cardinality(1 .. N_PCBS)
          = IF 1 > N_PCBS THEN 0 ELSE N_PCBS - 1 + 1
    BY <2>1, FS_Interval
  <2>3. QED
    BY <2>2, KernelAssumption DEF Pcbs
<1>2. IsFiniteSet(A) /\ Cardinality(A) <= Cardinality(Pcbs)
  BY <1>1, FS_Subset
<1>3. Cardinality(A) \in Nat
  BY <1>2, FS_CardinalityType
<1>4. Cardinality(A) = 0 <=> A = {}
  BY <1>2, FS_EmptySet
<1>5. QED
  BY <1>1, <1>2, <1>3, <1>4

\* _dispatch has found a process that has not been killed, or none.
Settled(s) == ~(AnyReady(s) /\ s.state[FirstReady(s)] = KILLED)

\* s is k after some rounds of the loop.
Reaping(s, k) ==
  /\ Tidy(s, {})
  /\ \A a \in WaitQs : s.queue[a] = k.queue[a]
  /\ \A l \in Levels : Rest(s.queue[l], k.queue[l])
  /\ \A p \in Pcbs : \/ s.state[p] = k.state[p]
                     \/ p \in Doomed(k) /\ s.state[p] = FREE
  /\ s.panicked = k.panicked

\* The first of the ready processes is on a ready queue.
LEMMA FirstReadyFacts ==
  ASSUME NEW s, NEW held, Tidy(s, held), AnyReady(s)
  PROVE  /\ TopLevel(s) \in Levels /\ TopLevel(s) \in QueueIds
         /\ s.queue[TopLevel(s)] # <<>>
         /\ FirstReady(s) = Head(s.queue[TopLevel(s)])
         /\ FirstReady(s) \in Pcbs /\ InQ(s, FirstReady(s), TopLevel(s))
         /\ ReadyIn(s, FirstReady(s))
<1>1. /\ TopLevel(s) \in Levels /\ TopLevel(s) \in QueueIds
      /\ s.queue[TopLevel(s)] # <<>>
      /\ FirstReady(s) = Head(s.queue[TopLevel(s)])
  BY TopLevelFacts, QueueIdFacts DEF FirstReady
<1>2. s \in Kernels
  BY DEF Tidy
<1> DEFINE w == s.queue[TopLevel(s)]
<1>3. w \in Seq(Pcbs) /\ DOMAIN w = 1 .. Len(w)
  BY <1>1, <1>2, QueueFacts
<1>4. 1 \in DOMAIN w /\ Head(w) = w[1] /\ w[1] \in Pcbs
  BY <1>1, <1>3
<1>5. QED
  BY <1>1, <1>4 DEF InQ, ReadyIn

\* An effective round frees the process it finds and touches nothing else.
LEMMA ReapRound ==
  ASSUME NEW s, Tidy(s, {}), ~Settled(s)
  PROVE  LET t == Reap[s]
             l == TopLevel(s)
             p == FirstReady(s)
         IN  /\ t.queue[l] = Tail(s.queue[l])
             /\ \A a \in QueueIds \ {l, FREEQ} : t.queue[a] = s.queue[a]
             /\ t.state = [s.state EXCEPT ![p] = FREE]
             /\ t.panicked = s.panicked
<1> DEFINE l == TopLevel(s)
           p == FirstReady(s)
           u == Pop(s, l)
           v == [u EXCEPT !.current = p]
           w == [v EXCEPT !.state[p] = FREE, !.cr3 = KERNEL_DIR]
<1>1. AnyReady(s) /\ s.state[p] = KILLED /\ s \in Kernels
  BY DEF Settled, Tidy
<1>2. /\ l \in Levels /\ l \in QueueIds /\ s.queue[l] # <<>> /\ p \in Pcbs
      /\ FREEQ \in QueueIds /\ l # FREEQ
  BY <1>1, FirstReadyFacts, QueueIdFacts
<1>3. u = [s EXCEPT !.queue = [s.queue EXCEPT ![l] = Tail(s.queue[l])]]
  BY <1>2, PopTidy
<1>4. Reap[s] = Cleanup(v, p)
  BY <1>1 DEF Reap
<1>5. Cleanup(v, p) = [w EXCEPT !.queue[FREEQ] = Append(@, p)]
  BY DEF Cleanup, Enqueue
<1> HIDE DEF l, p
<1> DEFINE q == [s.queue EXCEPT ![l] = Tail(s.queue[l])]
<1>6. w = [queue |-> q, state |-> [s.state EXCEPT ![p] = FREE], current |-> p,
           quantum |-> s.quantum, cr3 |-> KERNEL_DIR, panicked |-> s.panicked]
  <2>1. u = [queue |-> q, state |-> s.state, current |-> s.current,
             quantum |-> s.quantum, cr3 |-> s.cr3, panicked |-> s.panicked]
    <3>1. s = [queue |-> s.queue, state |-> s.state, current |-> s.current,
               quantum |-> s.quantum, cr3 |-> s.cr3, panicked |-> s.panicked]
      BY <1>1, KernelFields
    <3> HIDE DEF q
    <3>2. QED
      BY <1>3, <3>1 DEF q
  <2> HIDE DEF q, u
  <2>2. v = [queue |-> q, state |-> s.state, current |-> p,
             quantum |-> s.quantum, cr3 |-> s.cr3, panicked |-> s.panicked]
    BY <2>1
  <2> HIDE DEF v
  <2> DEFINE st == [s.state EXCEPT ![p] = FREE]
  <2>3. w = [v EXCEPT !.state = st, !.cr3 = KERNEL_DIR]
    BY <2>2
  <2> HIDE DEF st, w
  <2>4. w = [queue |-> q, state |-> st, current |-> p,
             quantum |-> s.quantum, cr3 |-> KERNEL_DIR, panicked |-> s.panicked]
    BY <2>2, <2>3
  <2>5. QED
    BY <2>4 DEF st
<1> HIDE DEF w
<1>7. /\ Reap[s].queue = [w.queue EXCEPT ![FREEQ] = Append(w.queue[FREEQ], p)]
      /\ Reap[s].state = w.state /\ Reap[s].panicked = w.panicked
  BY <1>4, <1>5, <1>6
<1>8. s.queue \in [QueueIds -> Seq(Pcbs)]
  BY <1>1, KernelFields DEF Queues
<1>9. QED
  BY <1>2, <1>6, <1>7, <1>8 DEF l, p

\* A round keeps what the loop has established, and gets nearer to its end.
LEMMA ReapAdvances ==
  ASSUME NEW k \in Kernels, NEW s, Reaping(s, k), ~Settled(s)
  PROVE  /\ Reaping(Reap[s], k)
         /\ FirstReady(s) \in Doomed(s)
         /\ Doomed(Reap[s]) \subseteq Doomed(s) \ {FirstReady(s)}
<1> DEFINE t == Reap[s]
           l == TopLevel(s)
           p == FirstReady(s)
<1>1. Tidy(s, {}) /\ s \in Kernels /\ Tidy(t, {}) /\ t \in Kernels
  BY ReapTidy DEF Reaping, Tidy
<1>2. /\ t.queue[l] = Tail(s.queue[l])
      /\ \A a \in QueueIds \ {l, FREEQ} : t.queue[a] = s.queue[a]
      /\ t.state = [s.state EXCEPT ![p] = FREE]
      /\ t.panicked = s.panicked
  BY <1>1, ReapRound
<1>3. AnyReady(s) /\ s.state[p] = KILLED
  BY DEF Settled
<1>4. /\ l \in Levels /\ l \in QueueIds /\ s.queue[l] # <<>> /\ p \in Pcbs
      /\ ReadyIn(s, p)
  BY <1>1, <1>3, FirstReadyFacts
<1>5. s.state \in [Pcbs -> States]
  BY <1>1, KernelFields
<1> HIDE DEF t, l, p
<1>6. \A a \in WaitQs : t.queue[a] = k.queue[a]
  BY <1>2, <1>4, QueueIdFacts DEF Reaping, WaitQs
<1>7. \A m \in Levels : Rest(t.queue[m], s.queue[m])
  <2> SUFFICES ASSUME NEW m \in Levels PROVE Rest(t.queue[m], s.queue[m])
    OBVIOUS
  <2>1. m \in QueueIds \ {FREEQ} /\ s.queue[m] \in Seq(Pcbs)
    BY <1>1, KernelFields, QueueIdFacts
  <2>2. CASE m = l
    BY <1>2, <1>4, <2>1, <2>2, RestFacts
  <2>3. CASE m # l
    BY <1>2, <2>1, <2>3, RestFacts
  <2>4. QED
    BY <2>2, <2>3
<1>8. \A m \in Levels : Rest(t.queue[m], k.queue[m])
  <2> SUFFICES ASSUME NEW m \in Levels PROVE Rest(t.queue[m], k.queue[m])
    OBVIOUS
  <2>1. /\ s.queue[m] \in Seq(Pcbs) /\ t.queue[m] \in Seq(Pcbs)
        /\ k.queue[m] \in Seq(Pcbs)
    BY <1>1, KernelFields, QueueIdFacts
  <2>2. Rest(s.queue[m], k.queue[m])
    BY DEF Reaping
  <2>3. QED
    BY <1>7, <2>1, <2>2, RestOfRest
<1>9. \A m \in Levels : Rest(s.queue[m], k.queue[m]) /\ m \in QueueIds
  BY QueueIdFacts DEF Reaping
<1>10. \A o : ReadyIn(s, o) => ReadyIn(k, o)
  BY <1>1, <1>9, RestKeepsOrder DEF ReadyIn
<1>11. \A o : ReadyIn(t, o) => ReadyIn(s, o)
  BY <1>1, <1>7, <1>9, RestKeepsOrder DEF ReadyIn
<1>12. p \in Doomed(s)
  BY <1>3, <1>4 DEF Doomed
<1>13. \A o \in Pcbs : \/ s.state[o] = k.state[o]
                       \/ o \in Doomed(k) /\ s.state[o] = FREE
  BY DEF Reaping
<1>14. p \in Doomed(k)
  BY <1>3, <1>4, <1>10, <1>13 DEF Doomed, KILLED, FREE
<1>15. \A o \in Pcbs : \/ t.state[o] = k.state[o]
                       \/ o \in Doomed(k) /\ t.state[o] = FREE
  BY <1>2, <1>5, <1>13, <1>14
<1>16. t.panicked = k.panicked
  BY <1>2 DEF Reaping
<1>17. Reaping(t, k)
  BY <1>1, <1>6, <1>8, <1>15, <1>16 DEF Reaping
<1>18. ASSUME NEW o \in Doomed(t) PROVE o \in Doomed(s) \ {p}
  <2>1. o \in Pcbs /\ ReadyIn(s, o) /\ t.state[o] = KILLED
    BY <1>11, <1>18 DEF Doomed
  <2>2. o # p /\ s.state[o] = KILLED
    BY <1>2, <1>4, <1>5, <2>1 DEF KILLED, FREE
  <2>3. QED
    BY <2>1, <2>2 DEF Doomed
<1>19. QED
  BY <1>12, <1>17, <1>18 DEF t, p

\* After N_PCBS rounds _dispatch has found a process to run, or none.
LEMMA ReapingEnds ==
  ASSUME NEW k, Tidy(k, {})
  PROVE  LET r == Iterate(Reap, k, N_PCBS)
         IN  Reaping(r, k) /\ Settled(r)
<1> DEFINE r == Iterate(Reap, k, N_PCBS)
           S == [i \in 0 .. N_PCBS |->
                   {s \in Kernels : /\ Reaping(s, k)
                                    /\ Settled(s) \/ Cardinality(Doomed(s)) <= N_PCBS - i}]
<1>0. k \in Kernels /\ N_PCBS \in Nat
  BY KernelAssumption DEF Tidy
<1>1. k \in S[0]
  <2>1. \A l \in Levels : Rest(k.queue[l], k.queue[l])
    BY <1>0, KernelFields, QueueIdFacts, RestFacts
  <2>2. Reaping(k, k)
    BY <2>1 DEF Reaping
  <2>3. Cardinality(Doomed(k)) <= N_PCBS - 0
    BY <1>0, HowMany DEF Doomed
  <2>4. QED
    BY <1>0, <2>2, <2>3
<1>2. ASSUME NEW i \in 0 .. N_PCBS-1, NEW s \in S[i]
      PROVE  Reap[s] \in S[i+1]
  <2>0. i \in 0 .. N_PCBS /\ i + 1 \in 0 .. N_PCBS /\ N_PCBS - (i + 1) \in Nat
        /\ N_PCBS - i = (N_PCBS - (i + 1)) + 1
    BY <1>0
  <2>1. /\ s \in Kernels /\ Reaping(s, k)
        /\ Settled(s) \/ Cardinality(Doomed(s)) <= N_PCBS - i
    BY <2>0
  <2>2. Reap[s] \in Kernels
    BY <2>1, ReapTidy DEF Reaping, Tidy
  <2>3. SUFFICES /\ Reaping(Reap[s], k)
                 /\ \/ Settled(Reap[s])
                    \/ Cardinality(Doomed(Reap[s])) <= N_PCBS - (i + 1)
    BY <2>0, <2>2
  <2> HIDE DEF S
  <2>4. CASE Settled(s)
    <3>1. Reap[s] = s
      BY <2>1, <2>4 DEF Reap, Settled
    <3>2. QED
      BY <2>1, <2>4, <3>1
  <2>5. CASE ~Settled(s)
    <3>1. /\ Reaping(Reap[s], k) /\ FirstReady(s) \in Doomed(s)
          /\ Doomed(Reap[s]) \subseteq Doomed(s) \ {FirstReady(s)}
      BY <1>0, <2>1, <2>5, ReapAdvances
    <3>2. Doomed(s) \subseteq Pcbs /\ Cardinality(Doomed(s)) <= (N_PCBS - (i + 1)) + 1
      BY <2>0, <2>1, <2>5 DEF Doomed
    <3>3. Cardinality(Doomed(Reap[s])) <= N_PCBS - (i + 1)
      BY <2>0, <3>1, <3>2, Smaller
    <3>4. QED
      BY <3>1, <3>3
  <2>6. QED
    BY <2>4, <2>5
<1>3. r \in S[N_PCBS]
  <2> HIDE DEF S
  <2> QED BY <1>0, <1>1, <1>2, IterateAdvances
<1>4. /\ r \in Kernels /\ Reaping(r, k)
      /\ Settled(r) \/ Cardinality(Doomed(r)) <= N_PCBS - N_PCBS
  <2>1. N_PCBS \in 0 .. N_PCBS
    BY <1>0
  <2>2. QED
    BY <1>3, <2>1
<1> HIDE DEF r, S
<1>5. ASSUME ~Settled(r) PROVE FALSE
  <2>1. Doomed(r) = {}
    <3>1. Cardinality(Doomed(r)) <= 0 /\ Doomed(r) \subseteq Pcbs
      BY <1>0, <1>4, <1>5 DEF Doomed
    <3>2. QED
      BY <3>1, HowMany
  <2>2. AnyReady(r) /\ r.state[FirstReady(r)] = KILLED
    BY <1>5 DEF Settled
  <2>3. FirstReady(r) \in Pcbs /\ ReadyIn(r, FirstReady(r))
    BY <1>4, <2>2, FirstReadyFacts DEF Reaping
  <2>4. QED
    BY <2>1, <2>2, <2>3 DEF Doomed
<1>6. QED
  BY <1>4, <1>5 DEF r

\* What _dispatch does: it leaves the queues of waiting processes alone, takes PCBs
\* only from the heads of the ready queues, frees those that have been killed and
\* runs none of them, and it panics only when nobody else is left to run.
LEMMA DispatchFacts ==
  ASSUME NEW k, Tidy(k, {})
  PROVE  LET d == Dispatch(k)
         IN  /\ d \in Kernels
             /\ \A a \in WaitQs : d.queue[a] = k.queue[a]
             /\ \A l \in Levels : Rest(d.queue[l], k.queue[l])
             /\ \A p \in Doomed(k) : d.state[p] \in {KILLED, FREE}
             /\ \A p \in Pcbs \ Doomed(k) : d.state[p] \in {k.state[p], RUNNING}
             /\ d.panicked /\ ~k.panicked =>
                  \A p \in Pcbs : d.state[p] = FREE \/ \E a \in WaitQs : InQ(k, p, a)
<1> DEFINE d == Dispatch(k)
           r == Iterate(Reap, k, N_PCBS)
<1>0. k \in Kernels
  BY DEF Tidy
<1>1. Reaping(r, k) /\ Settled(r)
  BY ReapingEnds
<1>2. Dispatch(k) = IF AnyReady(r) THEN Switch(r) ELSE [r EXCEPT !.panicked = TRUE]
  BY DEF Dispatch
<1>3. d \in Kernels
  BY DispatchTidy
<1> HIDE DEF r, d
<1>4. /\ Tidy(r, {}) /\ r \in Kernels
      /\ r.state \in [Pcbs -> States]
      /\ r.queue \in [QueueIds -> Seq(Pcbs)]
      /\ \A a \in WaitQs : r.queue[a] = k.queue[a]
      /\ \A l \in Levels : Rest(r.queue[l], k.queue[l])
      /\ \A p \in Pcbs : \/ r.state[p] = k.state[p]
                         \/ p \in Doomed(k) /\ r.state[p] = FREE
      /\ r.panicked = k.panicked
  BY <1>1, KernelFields DEF Reaping, Tidy, Queues
<1>5. \A p \in Doomed(k) : r.state[p] \in {KILLED, FREE}
  BY <1>4 DEF Doomed
<1>6. \A p \in Pcbs \ Doomed(k) : r.state[p] = k.state[p]
  BY <1>4
<1>7. CASE ~AnyReady(r)
  <2>1. d = [r EXCEPT !.panicked = TRUE]
    BY <1>2, <1>7 DEF d
  <2>2. d.queue = r.queue /\ d.state = r.state
    BY <1>4, <2>1 DEF Kernels
  <2>3. ASSUME NEW p \in Pcbs PROVE r.state[p] = FREE \/ \E a \in WaitQs : InQ(k, p, a)
    <3>1. PICK a \in QueueIds : InQ(r, p, a)
      BY <1>4 DEF Tidy, Placed, InQ
    <3>2. a \notin Levels
      BY <1>7, <3>1, <1>4, KernelFields, QueueIdFacts DEF AnyReady, InQ
    <3>3. a \in WaitQs \cup {FREEQ}
      BY <3>1, <3>2, KernelAssumption
         DEF QueueIds, Levels, WaitQs, SLEEPQ, READQ, BUFBLOCKQ, FREEQ
    <3>4. CASE a = FREEQ
      BY <1>4, <3>1, <3>4, OneQueue, QueueIdFacts DEF Labels
    <3>5. CASE a \in WaitQs
      BY <1>4, <3>1, <3>5 DEF InQ
    <3>6. QED
      BY <3>3, <3>4, <3>5
  <2>4. QED
    BY <1>3, <1>4, <1>5, <1>6, <2>2, <2>3 DEF d
<1>8. CASE AnyReady(r)
  <2> DEFINE l == TopLevel(r)
             p == FirstReady(r)
  <2>1. /\ l \in Levels /\ l \in QueueIds /\ r.queue[l] # <<>> /\ p \in Pcbs
        /\ ReadyIn(r, p) /\ r.state[p] # KILLED
    BY <1>1, <1>4, <1>8, FirstReadyFacts DEF Settled
  <2>2. d = [Pop(r, l) EXCEPT !.current = p, !.state[p] = RUNNING,
                              !.quantum = STD_QUANTUM, !.cr3 = p]
    BY <1>2, <1>8 DEF Switch, d
  <2> HIDE DEF l, p
  <2>3. Pop(r, l) = [r EXCEPT !.queue = [r.queue EXCEPT ![l] = Tail(r.queue[l])]]
    BY <1>4, <2>1, PopTidy
  <2>4. /\ d.queue = [r.queue EXCEPT ![l] = Tail(r.queue[l])]
        /\ d.state = [r.state EXCEPT ![p] = RUNNING]
        /\ d.panicked = r.panicked
    BY <1>4, <2>2, <2>3 DEF Kernels
  <2>5. \A a \in WaitQs : d.queue[a] = k.queue[a]
    BY <1>4, <2>1, <2>4, QueueIdFacts DEF WaitQs
  <2>6. ASSUME NEW m \in Levels PROVE Rest(d.queue[m], k.queue[m])
    <3>1. /\ m \in QueueIds /\ r.queue[m] \in Seq(Pcbs) /\ k.queue[m] \in Seq(Pcbs)
          /\ d.queue[m] \in Seq(Pcbs)
      BY <1>0, <1>3, <1>4, KernelFields, QueueIdFacts
    <3>2. Rest(d.queue[m], r.queue[m])
      <4>1. CASE m = l
        BY <1>4, <2>1, <2>4, <3>1, <4>1, RestFacts
      <4>2. CASE m # l
        BY <1>4, <2>4, <3>1, <4>2, RestFacts
      <4>3. QED
        BY <4>1, <4>2
    <3>3. QED
      BY <1>4, <3>1, <3>2, RestOfRest
  <2>7. p \notin Doomed(k)
    <3>1. ASSUME p \in Doomed(k) PROVE FALSE
      <4>1. r.state[p] = FREE
        BY <1>5, <2>1, <3>1
      <4>2. PICK m \in Levels : InQ(r, p, m)
        BY <2>1 DEF ReadyIn
      <4>3. r.state[p] \in Labels(m)
        BY <1>4, <2>1, <4>2, OneQueue, QueueIdFacts
      <4>4. QED
        BY <4>1, <4>3 DEF Labels, FREE, READY, KILLED
    <3>2. QED
      BY <3>1
  <2>8. \A o \in Doomed(k) : d.state[o] \in {KILLED, FREE}
    BY <1>4, <1>5, <2>1, <2>4, <2>7 DEF Doomed
  <2>9. \A o \in Pcbs \ Doomed(k) : d.state[o] \in {k.state[o], RUNNING}
    BY <1>4, <1>6, <2>1, <2>4
  <2>10. QED
    BY <1>3, <1>4, <2>4, <2>5, <2>6, <2>8, <2>9 DEF d
<1>9. QED
  BY <1>7, <1>8

-----------------------------------------------------------------------------
(***************************************************************************)
(* What a handler has done on its way from the state it found to the       *)
(* scheduling state k.                                                     *)
(***************************************************************************)

\* Nobody of the state found has overtaken another on a ready queue.
NoOvertaking(k) ==
  \A p, o \in Pcbs : \A a \in QueueIds \ {FREEQ} :
    BeforeIn(Here, a, p, o) => \A l \in Levels : ~BeforeIn(k, l, o, p)

\* Nobody outside X was freed, those who had been killed while they waited for the CPU
\* still wait for it, and nobody joined them.
Faithful(k, X) ==
  /\ NoOvertaking(k)
  /\ Doomed(k) = Doomed(Here)
  /\ \A p \in Pcbs \ X : k.state[p] = FREE => state[p] = FREE

\* A handler begins with the state it finds.
LEMMA FaithfulHere ==
  ASSUME NEW held, Tidy(Here, held), NEW X
  PROVE  Faithful(Here, X)
<1>1. NoOvertaking(Here)
  BY OneOrder, QueueIdFacts DEF NoOvertaking
<1>2. QED
  BY <1>1, HereFields DEF Faithful

\* Work that leaves the ready queues and the PCBs on them alone.
LEMMA FaithfulAside ==
  ASSUME NEW k, NEW t, NEW X, Faithful(k, X),
         \A l \in Levels : t.queue[l] = k.queue[l],
         \A p \in Pcbs : \/ t.state[p] = k.state[p]
                         \/ /\ ~ReadyIn(k, p)
                            /\ t.state[p] = FREE => p \in X
  PROVE  Faithful(t, X)
<1>1. \A p : ReadyIn(t, p) <=> ReadyIn(k, p)
  BY DEF ReadyIn, InQ
<1>2. \A p \in Pcbs : ReadyIn(k, p) => t.state[p] = k.state[p]
  OBVIOUS
<1>3. Doomed(t) = Doomed(k)
  BY <1>1, <1>2 DEF Doomed
<1>4. NoOvertaking(t)
  BY DEF Faithful, NoOvertaking, BeforeIn
<1>5. QED
  BY <1>3, <1>4 DEF Faithful

\* What is on a queue that has got one more PCB, and in which order.
LEMMA AppendOrder ==
  ASSUME NEW s \in Seq(Pcbs), NEW p \in Pcbs, NEW w, w = Append(s, p)
  PROVE  /\ DOMAIN w = 1 .. Len(s) + 1
         /\ \A i \in DOMAIN s : i \in DOMAIN w /\ w[i] = s[i]
         /\ w[Len(s) + 1] = p
         /\ \A i, j \in DOMAIN w : i < j =>
              /\ i \in DOMAIN s /\ w[i] = s[i]
              /\ \/ j \in DOMAIN s /\ w[j] = s[j]
                 \/ w[j] = p
         /\ \A i \in DOMAIN w : \/ i \in DOMAIN s /\ w[i] = s[i]
                                \/ w[i] = p
<1>1. /\ Len(s) \in Nat /\ DOMAIN s = 1 .. Len(s)
      /\ DOMAIN w = 1 .. Len(s) + 1
      /\ \A i \in 1 .. Len(s) + 1 : w[i] = IF i = Len(s) + 1 THEN p ELSE s[i]
  OBVIOUS
<1>2. QED
  BY <1>1

\* A PCB that was not ready goes to the end of its ready queue, and those that were
\* behind it are not ready before it.
LEMMA FaithfulReady ==
  ASSUME NEW k, NEW held, Tidy(k, held), NEW X, Faithful(k, X), NEW p \in held,
         NEW a \in Levels, NEW t,
         t.state = [k.state EXCEPT ![p] = READY],
         t.queue = [k.queue EXCEPT ![a] = Append(k.queue[a], p)],
         \A o \in Pcbs : \A b \in QueueIds \ {FREEQ} :
           BeforeIn(Here, b, p, o) => ~ReadyIn(k, o)
  PROVE  Faithful(t, X)
<1>1. k \in Kernels /\ p \in Pcbs /\ held \subseteq Pcbs /\ a \in QueueIds
  BY QueueIdFacts DEF Tidy
<1>2. k.state \in [Pcbs -> States] /\ k.queue \in [QueueIds -> Seq(Pcbs)]
  BY <1>1, KernelFields DEF Queues
<1> DEFINE s == k.queue[a]
           w == t.queue[a]
<1>3. s \in Seq(Pcbs) /\ w = Append(s, p)
  BY <1>1, <1>2
<1>4. \A l \in Levels : l # a => t.queue[l] = k.queue[l]
  BY <1>2, QueueIdFacts
<1>5. \A o \in Pcbs : o # p => (ReadyIn(t, o) <=> ReadyIn(k, o))
  <2> SUFFICES ASSUME NEW o \in Pcbs, o # p, NEW l \in Levels
               PROVE  InQ(t, o, l) <=> InQ(k, o, l)
    BY DEF ReadyIn
  <2>1. CASE l # a
    BY <1>4, <2>1 DEF InQ
  <2>2. CASE l = a
    <3>1. /\ \A i \in DOMAIN s : i \in DOMAIN w /\ w[i] = s[i]
          /\ \A i \in DOMAIN w : \/ i \in DOMAIN s /\ w[i] = s[i]
                                 \/ w[i] = p
      <4> HIDE DEF s, w
      <4> QED BY <1>1, <1>3, AppendOrder
    <3>2. QED
      BY <2>2, <3>1 DEF InQ
  <2>3. QED
    BY <2>1, <2>2
<1>6. ~ReadyIn(k, p)
  BY <1>1, OneQueue, QueueIdFacts DEF ReadyIn
<1>7. Doomed(t) = Doomed(k)
  <2>1. ASSUME NEW o \in Pcbs PROVE o \in Doomed(t) <=> o \in Doomed(k)
    <3>1. CASE o = p
      BY <1>1, <1>2, <1>6, <3>1 DEF Doomed, READY, KILLED
    <3>2. CASE o # p
      BY <1>1, <1>2, <1>5, <3>2 DEF Doomed
    <3>3. QED
      BY <3>1, <3>2
  <2>2. QED
    BY <2>1 DEF Doomed
<1>8. NoOvertaking(t)
  <2> SUFFICES ASSUME NEW x \in Pcbs, NEW y \in Pcbs, NEW b \in QueueIds \ {FREEQ},
                      BeforeIn(Here, b, x, y), NEW l \in Levels, BeforeIn(t, l, y, x)
               PROVE  FALSE
    BY DEF NoOvertaking
  <2>1. ~BeforeIn(k, l, y, x)
    BY DEF Faithful, NoOvertaking
  <2>2. l = a
    BY <1>4, <2>1 DEF BeforeIn
  <2>3. PICK i, j \in DOMAIN w : i < j /\ w[i] = y /\ w[j] = x
    BY <2>2 DEF BeforeIn
  <2>4. /\ i \in DOMAIN s /\ w[i] = s[i]
        /\ \/ j \in DOMAIN s /\ w[j] = s[j]
           \/ w[j] = p
    <3> HIDE DEF s, w
    <3> QED BY <1>1, <1>3, <2>3, AppendOrder
  <2>5. CASE j \in DOMAIN s /\ w[j] = s[j]
    BY <2>1, <2>2, <2>3, <2>4, <2>5 DEF BeforeIn
  <2>6. CASE w[j] = p
    <3>1. x = p /\ ReadyIn(k, y)
      BY <1>1, <2>3, <2>4, <2>6 DEF ReadyIn, InQ
    <3>2. QED
      BY <3>1
  <2>7. QED
    BY <2>4, <2>5, <2>6
<1>9. \A o \in Pcbs : t.state[o] = FREE => k.state[o] = FREE
  BY <1>1, <1>2 DEF READY, FREE
<1>10. QED
  BY <1>7, <1>8, <1>9 DEF Faithful

\* What _sched does to the queues.
LEMMA SchedFields ==
  ASSUME NEW k \in Kernels, NEW p \in Pcbs, priority[p] \in Levels
  PROVE  /\ Sched(k, p).state = [k.state EXCEPT ![p] = READY]
         /\ Sched(k, p).queue
              = [k.queue EXCEPT ![priority[p]] = Append(k.queue[priority[p]], p)]
         /\ Sched(k, p).panicked = k.panicked
BY DEF Sched, Enqueue, Kernels

LEMMA FaithfulSched ==
  ASSUME NEW k, NEW held, Tidy(k, held), NEW X, Faithful(k, X), NEW p \in held,
         priority[p] \in Levels,
         \A o \in Pcbs : \A a \in QueueIds \ {FREEQ} :
           BeforeIn(Here, a, p, o) => ~ReadyIn(k, o)
  PROVE  Faithful(Sched(k, p), X)
<1>1. k \in Kernels /\ p \in Pcbs
  BY DEF Tidy
<1>2. QED
  BY <1>1, SchedFields, FaithfulReady

\* What a step promises in the end: nobody overtakes, nobody who had been killed while
\* it waited for the CPU runs, and nobody outside X was freed but those.
Promises(X) ==
  /\ \A p, o \in Pcbs : \A a \in QueueIds \ {FREEQ} :
       Before(a, p, o) => \A l \in Levels : ~Before(l, o, p)'
  /\ \A p \in Pcbs : IsReady(p) /\ state[p] = KILLED => state'[p] \in {KILLED, FREE}
  /\ \A p \in Pcbs \ X :
       state[p] # FREE /\ state'[p] = FREE => state[p] = KILLED /\ IsReady(p)

\* The operators of the state found, and of the state left.
LEMMA HereOrder ==
  /\ \A p, o : \A a : BeforeIn(Here, a, p, o) <=> Before(a, p, o)
  /\ \A p : \A a : InQ(Here, p, a) <=> On(p, a)
  /\ \A p : ReadyIn(Here, p) <=> IsReady(p)
  /\ \A p : p \in Doomed(Here) <=> p \in Pcbs /\ IsReady(p) /\ state[p] = KILLED
BY HereFields DEF BeforeIn, Before, InQ, On, ReadyIn, IsReady, Doomed

\* A handler that returns to the process in hand keeps the promises.
LEMMA ReturnPromises ==
  ASSUME NEW k, NEW X, Faithful(k, X), queue' = k.queue, state' = k.state
  PROVE  Promises(X)
<1>1. \A p, o \in Pcbs : \A a \in QueueIds \ {FREEQ} :
        Before(a, p, o) => \A l \in Levels : ~Before(l, o, p)'
  BY HereOrder DEF Faithful, NoOvertaking, BeforeIn, Before
<1>2. \A p \in Pcbs : IsReady(p) /\ state[p] = KILLED => state'[p] = KILLED
  BY HereOrder DEF Faithful, Doomed
<1>3. \A p \in Pcbs \ X : state'[p] = FREE => state[p] = FREE
  BY DEF Faithful
<1>4. QED
  BY <1>1, <1>2, <1>3 DEF Promises

\* So does one that ends in _dispatch.
LEMMA DispatchPromises ==
  ASSUME NEW k, Tidy(k, {}), NEW X, Faithful(k, X), Becomes(Dispatch(k))
  PROVE  Promises(X)
<1> DEFINE d == Dispatch(k)
<1>1. /\ d \in Kernels
      /\ \A l \in Levels : Rest(d.queue[l], k.queue[l])
      /\ \A p \in Doomed(k) : d.state[p] \in {KILLED, FREE}
      /\ \A p \in Pcbs \ Doomed(k) : d.state[p] \in {k.state[p], RUNNING}
  BY DispatchFacts
<1>2. queue' = d.queue /\ state' = d.state
  BY DEF Becomes
<1> HIDE DEF d
<1>3. k \in Kernels /\ \A l \in Levels : l \in QueueIds
  BY QueueIdFacts DEF Tidy
<1>4. \A l \in Levels : \A p, o : BeforeIn(d, l, p, o) => BeforeIn(k, l, p, o)
  BY <1>1, <1>3, RestKeepsOrder
<1>5. \A l \in Levels : \A p, o : Before(l, p, o)' <=> BeforeIn(d, l, p, o)
  BY <1>2 DEF Before, BeforeIn
<1>6. \A p, o \in Pcbs : \A a \in QueueIds \ {FREEQ} :
        Before(a, p, o) => \A l \in Levels : ~Before(l, o, p)'
  BY <1>4, <1>5, HereOrder DEF Faithful, NoOvertaking
<1>7. \A p \in Pcbs : IsReady(p) /\ state[p] = KILLED => state'[p] \in {KILLED, FREE}
  BY <1>1, <1>2, HereOrder DEF Faithful
<1>8. ASSUME NEW p \in Pcbs \ X, state[p] # FREE, state'[p] = FREE
      PROVE  state[p] = KILLED /\ IsReady(p)
  <2>1. CASE p \in Doomed(k)
    BY <2>1, HereOrder DEF Faithful
  <2>2. CASE p \notin Doomed(k)
    <3>1. k.state[p] = FREE
      BY <1>1, <1>2, <1>8, <2>2 DEF RUNNING, FREE
    <3>2. QED
      BY <1>8, <3>1 DEF Faithful
  <2>3. QED
    BY <2>1, <2>2
<1>9. QED
  BY <1>6, <1>7, <1>8 DEF Promises

-----------------------------------------------------------------------------
(***************************************************************************)
(* The invariant of the queues of waiting processes.  InitNeverWaits is    *)
(* what keeps the first process available: it never sleeps or blocks, so   *)
(* it is running or ready until it is killed.                              *)
(***************************************************************************)
InitNeverWaits ==
  \A p \in Pcbs : pid[p] = PID_INIT => \A a \in WaitQs : ~On(p, a)

Ordered ==
  /\ SleepSorted
  /\ NobodyWaitsOnInput
  /\ InitNeverWaits
  /\ PanicNeedsInitKilled

OrderInv == IInv /\ Ordered

\* The process in hand is on no queue of the state found.
LEMMA CurrentIsNowhere ==
  ASSUME IInv, Running
  PROVE  /\ \A a \in QueueIds : ~InQ(Here, current, a)
         /\ ~ReadyIn(Here, current)
         /\ \A a \in QueueIds : \A o : ~BeforeIn(Here, a, current, o)
<1>1. Tidy(Here, {current}) /\ current \in Pcbs
  BY RunningFacts
<1>2. \A a \in QueueIds : ~InQ(Here, current, a)
  BY <1>1, OneQueue
<1>3. QED
  BY <1>1, <1>2, OneOrder, QueueIdFacts DEF ReadyIn

\* What waits in k waited in the state found, or is not the first process.
WaitersAre(k) ==
  \A p \in Pcbs : \A a \in WaitQs : InQ(k, p, a) => On(p, a) \/ pid[p] # PID_INIT

\* A handler that ends in _dispatch.
LEMMA DispatchOrder ==
  ASSUME OrderInv, NEW k, Tidy(k, {}), k.panicked = FALSE, WaitersAre(k),
         Becomes(Dispatch(k)), pid' = pid
  PROVE  /\ \A a \in WaitQs : queue'[a] = k.queue[a]
         /\ InitNeverWaits' /\ PanicNeedsInitKilled'
<1> DEFINE d == Dispatch(k)
<1>1. /\ \A a \in WaitQs : d.queue[a] = k.queue[a]
      /\ d.panicked /\ ~k.panicked =>
           \A p \in Pcbs : d.state[p] = FREE \/ \E a \in WaitQs : InQ(k, p, a)
  BY DispatchFacts
<1>2. queue' = d.queue /\ state' = d.state /\ panicked' = d.panicked
  BY DEF Becomes
<1> HIDE DEF d
<1>3. \A p \in Pcbs : pid[p] = PID_INIT => \A a \in WaitQs : ~InQ(k, p, a)
  BY DEF WaitersAre, OrderInv, Ordered, InitNeverWaits
<1>4. InitNeverWaits'
  BY <1>1, <1>2, <1>3 DEF InitNeverWaits, On, InQ
<1>5. PanicNeedsInitKilled'
  BY <1>1, <1>2, <1>3 DEF PanicNeedsInitKilled
<1>6. QED
  BY <1>1, <1>2, <1>4, <1>5

\* A handler that returns to the process in hand, with no new waiter.
LEMMA ReturnOrder ==
  ASSUME OrderInv, Running, panicked' = FALSE, pid' = pid,
         \A a \in WaitQs : \A p \in Pcbs : On(p, a)' => On(p, a)
  PROVE  InitNeverWaits' /\ PanicNeedsInitKilled'
BY DEF OrderInv, Ordered, InitNeverWaits, PanicNeedsInitKilled

\* The sleep queue and its keys stay as they are.
LEMMA SleepersKept ==
  ASSUME OrderInv, queue'[SLEEPQ] = queue[SLEEPQ], wakeup' = wakeup
  PROVE  SleepSorted'
BY DEF OrderInv, Ordered, SleepSorted

\* A step that changes nothing of the scheduling state.
LEMMA NothingMoves ==
  ASSUME OrderInv, Running, UNCHANGED <<schedVars, pid, wakeup>>,
         incount' = incount \/ queue[READQ] = <<>>
  PROVE  Promises({}) /\ Ordered'
<1>1. queue' = queue /\ state' = state /\ panicked' = FALSE /\ pid' = pid
  BY RunningFacts DEF schedVars, OrderInv
<1>2. Tidy(Here, {current})
  BY RunningFacts DEF OrderInv
<1>3. Faithful(Here, {})
  BY <1>2, FaithfulHere
<1>4. Promises({})
  BY <1>1, <1>3, ReturnPromises, HereFields
<1>5. InitNeverWaits' /\ PanicNeedsInitKilled'
  BY <1>1, ReturnOrder DEF On
<1>6. SleepSorted'
  BY <1>1, SleepersKept
<1>7. NobodyWaitsOnInput'
  BY <1>1 DEF OrderInv, Ordered, NobodyWaitsOnInput
<1>8. QED
  BY <1>4, <1>5, <1>6, <1>7 DEF Ordered

-----------------------------------------------------------------------------
(***************************************************************************)
(* The handlers, one by one.                                               *)
(***************************************************************************)

\* What _cleanup does to the queues.
LEMMA CleanupFields ==
  ASSUME NEW k \in Kernels, NEW p \in Pcbs
  PROVE  /\ Cleanup(k, p).state = [k.state EXCEPT ![p] = FREE]
         /\ Cleanup(k, p).queue = [k.queue EXCEPT ![FREEQ] = Append(k.queue[FREEQ], p)]
         /\ Cleanup(k, p).panicked = k.panicked
<1> DEFINE st == [k.state EXCEPT ![p] = FREE]
           t == [k EXCEPT !.state = st, !.cr3 = KERNEL_DIR]
<1>1. st \in [Pcbs -> States]
  BY KernelFields DEF States
<1>2. Cleanup(k, p) = [t EXCEPT !.queue[FREEQ] = Append(@, p)]
  BY DEF Cleanup, Enqueue
<1> HIDE DEF st
<1>3. t \in Kernels /\ t.state = st /\ t.queue = k.queue /\ t.panicked = k.panicked
  BY <1>1 DEF Kernels
<1> HIDE DEF t
<1>4. QED
  BY <1>2, <1>3 DEF Kernels, st

\* exit: the process that exits is the only one that is freed alive.
LEMMA ExitOrder ==
  ASSUME OrderInv, sys_exit
  PROVE  Promises({current}) /\ Ordered'
<1> DEFINE k == Cleanup(Here, current)
<1>1. /\ IInv /\ Running /\ pid' = pid /\ wakeup' = wakeup /\ incount' = incount
      /\ Becomes(Dispatch(k))
  BY DEF sys_exit, Unrestricted, OrderInv
<1>2. /\ Here \in Kernels /\ Tidy(Here, {current}) /\ current \in Pcbs
      /\ Here.panicked = FALSE /\ Here.state = state
      /\ state \in [Pcbs -> States]
  BY <1>1, RunningFacts, HereFields
<1>3. /\ k.state = [state EXCEPT ![current] = FREE] /\ k.panicked = FALSE
      /\ \A a \in QueueIds \ {FREEQ} : k.queue[a] = Here.queue[a]
  <2>1. Here.queue \in [QueueIds -> Seq(Pcbs)]
    BY <1>2, KernelFields DEF Queues
  <2>2. /\ k.state = [Here.state EXCEPT ![current] = FREE]
        /\ k.queue = [Here.queue EXCEPT ![FREEQ] = Append(Here.queue[FREEQ], current)]
        /\ k.panicked = Here.panicked
    BY <1>2, CleanupFields
  <2> HIDE DEF k
  <2>3. QED
    BY <1>2, <2>1, <2>2
<1>4. Tidy(k, {})
  <2>1. Tidy(k, {current} \ {current})
    BY <1>2, CleanupTidy
  <2>2. {current} \ {current} = {}
    OBVIOUS
  <2>3. QED
    BY <2>1, <2>2
<1> HIDE DEF k
<1>5. Faithful(k, {current})
  <2>1. Faithful(Here, {current})
    BY <1>2, FaithfulHere
  <2>2. \A l \in Levels : k.queue[l] = Here.queue[l]
    BY <1>3, QueueIdFacts
  <2>3. \A p \in Pcbs : \/ k.state[p] = Here.state[p]
                        \/ ~ReadyIn(Here, p) /\ p \in {current}
    BY <1>1, <1>2, <1>3, CurrentIsNowhere
  <2>4. QED
    BY <2>1, <2>2, <2>3, FaithfulAside
<1>6. Promises({current})
  BY <1>1, <1>4, <1>5, DispatchPromises
<1>7. \A a \in WaitQs : k.queue[a] = queue[a]
  BY <1>3, QueueIdFacts, HereFields DEF WaitQs
<1>8. /\ \A a \in WaitQs : queue'[a] = k.queue[a]
      /\ InitNeverWaits' /\ PanicNeedsInitKilled'
  <2>1. WaitersAre(k)
    BY <1>7 DEF WaitersAre, InQ, On
  <2>2. QED
    BY <1>1, <1>3, <1>4, <2>1, DispatchOrder
<1>9. SleepSorted' /\ NobodyWaitsOnInput'
  BY <1>1, <1>7, <1>8, SleepersKept DEF WaitQs, OrderInv, Ordered, NobodyWaitsOnInput
<1>10. QED
  BY <1>6, <1>8, <1>9 DEF Ordered

\* A process that is not the first one blocks.
LEMMA BlockOrder ==
  ASSUME OrderInv, Unrestricted, NEW a \in {READQ, BUFBLOCKQ}, pid' = pid,
         Becomes(Dispatch(Enqueue([Here EXCEPT !.state[current] = BLOCKED], a, current)))
  PROVE  /\ Promises({})
         /\ \A b \in WaitQs \ {a} : queue'[b] = queue[b]
         /\ InitNeverWaits' /\ PanicNeedsInitKilled'
<1> DEFINE t == [Here EXCEPT !.state[current] = BLOCKED]
           k == Enqueue(t, a, current)
<1>1. /\ IInv /\ Running /\ pid[current] # PID_INIT
      /\ a \in QueueIds /\ a \notin Levels
  BY QueueIdFacts DEF Unrestricted, OrderInv
<1>2. /\ Here \in Kernels /\ Tidy(Here, {current}) /\ current \in Pcbs
      /\ Here.panicked = FALSE /\ Here.state = state
      /\ state \in [Pcbs -> States] /\ Here.queue = queue
      /\ queue \in [QueueIds -> Seq(Pcbs)]
  BY <1>1, RunningFacts, HereFields, KernelFields DEF Queues
<1>3. Tidy(k, {})
  BY <1>1, BlockTidy
<1>4. /\ t.state = [state EXCEPT ![current] = BLOCKED] /\ t.queue = queue
      /\ t.panicked = FALSE
      /\ t \in Kernels
  BY <1>2 DEF Kernels, States
<1>5. k = [t EXCEPT !.queue[a] = Append(@, current)]
  BY DEF Enqueue
<1>6. Becomes(Dispatch(k))
  OBVIOUS
<1> HIDE DEF t, k
<1>7. /\ k.state = [state EXCEPT ![current] = BLOCKED] /\ k.panicked = FALSE
      /\ k.queue = [queue EXCEPT ![a] = Append(queue[a], current)]
  BY <1>4, <1>5 DEF Kernels
<1>8. Faithful(k, {})
  <2>1. Faithful(Here, {})
    BY <1>2, FaithfulHere
  <2>2. \A l \in Levels : k.queue[l] = Here.queue[l]
    BY <1>1, <1>2, <1>7, QueueIdFacts
  <2>3. \A p \in Pcbs : \/ k.state[p] = Here.state[p]
                        \/ ~ReadyIn(Here, p) /\ k.state[p] # FREE
    BY <1>1, <1>2, <1>7, CurrentIsNowhere DEF BLOCKED, FREE
  <2>4. QED
    BY <2>1, <2>2, <2>3, FaithfulAside
<1>9. Promises({})
  BY <1>3, <1>6, <1>8, DispatchPromises
<1>10. \A b \in WaitQs : b # a => k.queue[b] = queue[b]
  BY <1>2, <1>7, QueueIdFacts DEF WaitQs
<1>11. WaitersAre(k)
  <2> SUFFICES ASSUME NEW p \in Pcbs, NEW b \in WaitQs, InQ(k, p, b), p # current
               PROVE  On(p, b)
    BY <1>1 DEF WaitersAre
  <2>1. CASE b # a
    BY <1>10, <2>1 DEF InQ, On
  <2>2. CASE b = a
    <3>1. queue[a] \in Seq(Pcbs) /\ k.queue[a] = Append(queue[a], current)
      BY <1>1, <1>2, <1>7
    <3>2. \A i \in DOMAIN k.queue[a] : \/ i \in DOMAIN queue[a] /\ k.queue[a][i] = queue[a][i]
                                       \/ k.queue[a][i] = current
      BY <1>2, <3>1, AppendOrder
    <3>3. QED
      BY <2>2, <3>2 DEF InQ, On
  <2>3. QED
    BY <2>1, <2>2
<1>12. /\ \A b \in WaitQs : queue'[b] = k.queue[b]
       /\ InitNeverWaits' /\ PanicNeedsInitKilled'
  BY <1>3, <1>6, <1>7, <1>11, DispatchOrder
<1>13. QED
  BY <1>9, <1>10, <1>12

\* read: only a process that finds the buffer empty blocks.
LEMMA ReadOrder ==
  ASSUME OrderInv, sys_read
  PROVE  Promises({}) /\ Ordered'
<1>1. /\ Running /\ Unrestricted /\ READQ \in WaitQs /\ READQ # SLEEPQ
      /\ UNCHANGED <<pid, wakeup>> /\ incount \in Nat
  BY KernelAssumption, QueueIdFacts
     DEF sys_read, Unrestricted, OrderInv, IInv, TypeOK, WaitQs
<1>2. CASE incount > 0
  <2>1. UNCHANGED schedVars /\ queue[READQ] = <<>>
    BY <1>2 DEF sys_read, OrderInv, Ordered, NobodyWaitsOnInput
  <2>2. QED
    BY <1>1, <2>1, NothingMoves
<1>3. CASE ~(incount > 0)
  <2>1. /\ incount' = incount
        /\ Becomes(Dispatch(Enqueue([Here EXCEPT !.state[current] = BLOCKED],
                                    READQ, current)))
    BY <1>3 DEF sys_read
  <2>2. /\ Promises({})
        /\ \A b \in WaitQs \ {READQ} : queue'[b] = queue[b]
        /\ InitNeverWaits' /\ PanicNeedsInitKilled'
    BY <1>1, <2>1, BlockOrder
  <2>3. SleepSorted'
    BY <1>1, <2>2, SleepersKept DEF WaitQs
  <2>4. NobodyWaitsOnInput'
    BY <1>1, <1>3, <2>1 DEF NobodyWaitsOnInput
  <2>5. QED
    BY <2>2, <2>3, <2>4 DEF Ordered
<1>4. QED
  BY <1>2, <1>3

\* read_buf and read_char.
LEMMA ReadBufOrder ==
  ASSUME OrderInv, sys_read_buf
  PROVE  Promises({}) /\ Ordered'
<1>1. /\ Unrestricted /\ UNCHANGED <<pid, wakeup, incount>>
      /\ Becomes(Dispatch(Enqueue([Here EXCEPT !.state[current] = BLOCKED],
                                  BUFBLOCKQ, current)))
  BY DEF sys_read_buf
<1>2. /\ Promises({})
      /\ \A b \in WaitQs \ {BUFBLOCKQ} : queue'[b] = queue[b]
      /\ InitNeverWaits' /\ PanicNeedsInitKilled'
  BY <1>1, BlockOrder
<1>3. queue'[SLEEPQ] = queue[SLEEPQ] /\ queue'[READQ] = queue[READQ]
  BY <1>2, KernelAssumption DEF WaitQs, SLEEPQ, READQ, BUFBLOCKQ
<1>4. SleepSorted' /\ NobodyWaitsOnInput'
  BY <1>1, <1>3, SleepersKept DEF OrderInv, Ordered, NobodyWaitsOnInput
<1>5. QED
  BY <1>2, <1>4 DEF Ordered

\* Inserting an entry before the first one with a later key keeps a queue in order.
LEMMA InsertSorted ==
  ASSUME NEW s \in Seq(Pcbs), NEW f \in [Pcbs -> Nat], NEW p \in Pcbs,
         \A i \in 1 .. Len(s) : s[i] # p,
         NEW key \in Nat, NEW at \in 1 .. Len(s) + 1,
         \A i, j \in 1 .. Len(s) : i < j => f[s[i]] <= f[s[j]],
         \A i \in 1 .. Len(s) : i < at => f[s[i]] <= key,
         at <= Len(s) => f[s[at]] > key,
         NEW w, Inserted(w, s, at, p), NEW g, g = [f EXCEPT ![p] = key]
  PROVE  \A i, j \in 1 .. Len(w) : i < j => g[w[i]] <= g[w[j]]
<1>1. /\ Len(s) \in Nat /\ at \in Nat /\ Len(w) = Len(s) + 1
      /\ \A i \in 1 .. Len(s) : s[i] \in Pcbs /\ g[s[i]] = f[s[i]] /\ f[s[i]] \in Nat
      /\ g[p] = key
  BY DEF Inserted
<1>2. ASSUME NEW i \in 1 .. Len(s), at <= i PROVE f[s[i]] > key
  <2>1. at \in 1 .. Len(s) /\ f[s[at]] > key
    BY <1>1, <1>2
  <2>2. f[s[at]] <= f[s[i]]
    BY <1>1, <1>2, <2>1
  <2>3. QED
    BY <1>1, <2>1, <2>2
<1> SUFFICES ASSUME NEW i \in 1 .. Len(w), NEW j \in 1 .. Len(w), i < j
             PROVE  g[w[i]] <= g[w[j]]
  OBVIOUS
<1>3. /\ w[i] = IF i < at THEN s[i] ELSE IF i = at THEN p ELSE s[i-1]
      /\ w[j] = IF j < at THEN s[j] ELSE IF j = at THEN p ELSE s[j-1]
      /\ i \in Nat /\ j \in Nat /\ j <= Len(s) + 1 /\ i >= 1
  BY <1>1 DEF Inserted
<1>4. CASE j < at
  <2>1. i \in 1 .. Len(s) /\ j \in 1 .. Len(s) /\ w[i] = s[i] /\ w[j] = s[j]
    BY <1>1, <1>3, <1>4
  <2>2. QED
    BY <1>1, <2>1
<1>5. CASE j = at
  <2>1. i \in 1 .. Len(s) /\ i < at /\ w[i] = s[i] /\ w[j] = p
    BY <1>1, <1>3, <1>5
  <2>2. QED
    BY <1>1, <2>1
<1>6. CASE j > at
  <2>1. j - 1 \in 1 .. Len(s) /\ at <= j - 1 /\ w[j] = s[j-1]
    BY <1>1, <1>3, <1>6
  <2>2. g[w[j]] = f[s[j-1]] /\ f[s[j-1]] > key /\ f[s[j-1]] \in Nat
    BY <1>1, <1>2, <2>1
  <2>3. CASE i < at
    <3>1. i \in 1 .. Len(s) /\ w[i] = s[i]
      BY <1>1, <1>3, <2>1, <2>3
    <3>2. g[w[i]] = f[s[i]] /\ f[s[i]] <= key /\ f[s[i]] \in Nat
      BY <1>1, <2>3, <3>1
    <3>3. \A a, b \in Nat : a <= key /\ b > key => a <= b
      OBVIOUS
    <3>4. QED
      BY <2>2, <3>2, <3>3
  <2>4. CASE i = at
    BY <1>1, <1>3, <2>2, <2>4
  <2>5. CASE i > at
    <3>1. i - 1 \in 1 .. Len(s) /\ w[i] = s[i-1] /\ i - 1 < j - 1
      BY <1>1, <1>3, <2>1, <2>5
    <3>2. f[s[i-1]] <= f[s[j-1]]
      BY <2>1, <3>1
    <3>3. QED
      BY <1>1, <2>2, <3>1, <3>2
  <2>6. QED
    BY <1>1, <1>3, <2>3, <2>4, <2>5
<1>7. QED
  BY <1>1, <1>3, <1>4, <1>5, <1>6

\* Where _q_insert puts a sleeper: all before it are due no later, the next one later.
LEMMA SleepInsertFields ==
  ASSUME NEW k \in Kernels, NEW p \in Pcbs, NEW key \in Nat,
         NEW f, f = wakeup, f \in [Pcbs -> Nat]
  PROVE  \E at \in 1 .. Len(k.queue[SLEEPQ]) + 1 :
           /\ SleepInsert(k, p, key)
                = [k EXCEPT !.queue[SLEEPQ] = InsertAt(@, at, p)]
           /\ \A i \in 1 .. Len(k.queue[SLEEPQ]) :
                i < at => f[k.queue[SLEEPQ][i]] <= key
           /\ at <= Len(k.queue[SLEEPQ]) => f[k.queue[SLEEPQ][at]] > key
<1> DEFINE s     == k.queue[SLEEPQ]
           later == {i \in DOMAIN s : wakeup[s[i]] > key}
           at    == IF later = {} THEN Len(s) + 1
                    ELSE CHOOSE i \in later : \A j \in later : i <= j
<1>1. /\ s \in Seq(Pcbs) /\ DOMAIN s = 1 .. Len(s) /\ Len(s) \in Nat
      /\ \A i \in DOMAIN s : s[i] \in Pcbs
  BY QueueIdFacts, QueueFacts
<1>2. SleepInsert(k, p, key) = [k EXCEPT !.queue[SLEEPQ] = InsertAt(@, at, p)]
  BY DEF SleepInsert
<1>3. ASSUME NEW i \in 1 .. Len(s), i \notin later PROVE f[s[i]] <= key
  <2>1. s[i] \in Pcbs /\ ~(f[s[i]] > key)
    BY <1>1, <1>3
  <2>2. f[s[i]] \in Nat
    BY <2>1
  <2>3. QED
    BY <2>1, <2>2
<1>4. /\ at \in 1 .. Len(s) + 1
      /\ \A i \in 1 .. Len(s) : i < at => f[s[i]] <= key
      /\ at <= Len(s) => f[s[at]] > key
  <2>1. CASE later = {}
    <3>1. at = Len(s) + 1
      BY <2>1
    <3> HIDE DEF at, later, s
    <3>2. QED
      BY <1>1, <1>3, <2>1, <3>1
  <2>2. CASE later # {}
    <3>1. at \in later /\ \A j \in later : at <= j
      <4>1. later \subseteq Nat
        BY <1>1
      <4>2. \E i \in later : \A j \in later : i <= j
        <5> HIDE DEF later
        <5> QED BY <2>2, <4>1, LeastNumber
      <4>3. QED
        BY <2>2, <4>2
    <3>2. at \in 1 .. Len(s) /\ f[s[at]] > key
      BY <1>1, <3>1
    <3>3. ASSUME NEW i \in 1 .. Len(s), i < at PROVE i \notin later
      <4> HIDE DEF later, at
      <4> QED BY <1>1, <3>1, <3>2, <3>3
    <3> HIDE DEF at, later, s
    <3>4. QED
      BY <1>1, <1>3, <3>2, <3>3
  <2>3. QED
    BY <2>1, <2>2
<1> HIDE DEF at
<1>5. QED
  <2> at \in 1 .. Len(k.queue[SLEEPQ]) + 1
    BY <1>4
  <2> WITNESS at \in 1 .. Len(k.queue[SLEEPQ]) + 1
  <2> QED BY <1>2, <1>4

\* msleep: a process that yields goes behind those of its priority, one that sleeps is
\* put in order among the sleepers.
LEMMA MsleepOrder ==
  ASSUME OrderInv, NEW ms \in SleepArgs, sys_msleep(ms)
  PROVE  Promises({}) /\ Ordered'
<1>1. /\ IInv /\ Running /\ pid[current] # PID_INIT
      /\ UNCHANGED <<pid, incount>> /\ SLEEPQ \in QueueIds /\ SLEEPQ \notin Levels
  BY QueueIdFacts DEF sys_msleep, Unrestricted, OrderInv
<1>2. /\ Here \in Kernels /\ Tidy(Here, {current}) /\ current \in Pcbs
      /\ Here.panicked = FALSE /\ Here.state = state
      /\ state \in [Pcbs -> States] /\ Here.queue = queue
      /\ queue \in [QueueIds -> Seq(Pcbs)]
      /\ priority[current] \in Levels /\ state[current] \in {RUNNING, KILLED}
  BY <1>1, RunningFacts, HereFields, KernelFields DEF Queues
<1>3. {current} \ {current} = {} /\ Faithful(Here, {})
  BY <1>2, FaithfulHere
<1>4. CASE ms = 0
  <2> DEFINE k == Sched(Here, current)
  <2>1. Becomes(Dispatch(k)) /\ wakeup' = wakeup
    BY <1>4 DEF sys_msleep
  <2>2. Tidy(k, {current} \ {current}) /\ k.panicked = FALSE
    BY <1>2, SchedTidy DEF OnlyStateOf
  <2>3. k.queue = [queue EXCEPT ![priority[current]] = Append(queue[priority[current]], current)]
    BY <1>2, SchedFields
  <2>4. Faithful(k, {})
    BY <1>1, <1>2, <1>3, FaithfulSched, CurrentIsNowhere
  <2> HIDE DEF k
  <2>5. Tidy(k, {})
    BY <1>3, <2>2
  <2>6. \A a \in WaitQs : k.queue[a] = queue[a]
    BY <1>2, <2>3, QueueIdFacts DEF WaitQs
  <2>7. WaitersAre(k)
    BY <2>6 DEF WaitersAre, InQ, On
  <2>8. Promises({})
    BY <2>1, <2>4, <2>5, DispatchPromises
  <2>9. /\ \A a \in WaitQs : queue'[a] = k.queue[a]
        /\ InitNeverWaits' /\ PanicNeedsInitKilled'
    BY <1>1, <2>1, <2>2, <2>5, <2>7, DispatchOrder
  <2>10. SleepSorted' /\ NobodyWaitsOnInput'
    BY <1>1, <2>1, <2>6, <2>9, SleepersKept
       DEF WaitQs, OrderInv, Ordered, NobodyWaitsOnInput
  <2>11. QED
    BY <2>8, <2>9, <2>10 DEF Ordered
<1>5. CASE ms # 0
  <2> DEFINE key == (system_time + ms) % TIME_MOD
             k == SleepInsert(Here, current, key)
             s == queue[SLEEPQ]
  <2>1. Becomes(Dispatch(k)) /\ wakeup' = [wakeup EXCEPT ![current] = key]
    BY <1>5 DEF sys_msleep
  <2>2. key \in Nat
    BY KernelAssumption DEF OrderInv, IInv, TypeOK
  <2>3. wakeup \in [Pcbs -> Nat]
    BY KernelAssumption DEF OrderInv, IInv, TypeOK
  <2> HIDE DEF key
  <2>4. Tidy(k, {current} \ {current})
    BY <1>2, SleepInsertTidy
  <2>5. PICK at \in 1 .. Len(s) + 1 :
           /\ k = [Here EXCEPT !.queue[SLEEPQ] = InsertAt(@, at, current)]
           /\ \A i \in 1 .. Len(s) : i < at => wakeup[s[i]] <= key
           /\ at <= Len(s) => wakeup[s[at]] > key
    BY <1>2, <2>2, <2>3, SleepInsertFields
  <2>6. Becomes(Dispatch(k)) /\ Tidy(k, {})
    BY <1>3, <2>1, <2>4
  <2> HIDE DEF k
  <2>7. /\ k.queue = [queue EXCEPT ![SLEEPQ] = InsertAt(s, at, current)]
        /\ k.state = state /\ k.panicked = FALSE
    BY <1>2, <2>5 DEF Kernels
  <2>8. /\ s \in Seq(Pcbs) /\ DOMAIN s = 1 .. Len(s) /\ Len(s) \in Nat
        /\ k.queue[SLEEPQ] = InsertAt(s, at, current)
        /\ \A i \in 1 .. Len(s) : s[i] # current
    BY <1>1, <1>2, <2>7, CurrentIsNowhere DEF InQ
  <2> DEFINE w == k.queue[SLEEPQ]
  <2>9. w \in Seq(Pcbs) /\ Inserted(w, s, at, current) /\ DOMAIN w = 1 .. Len(w)
    <3> HIDE DEF s
    <3>1. InsertAt(s, at, current) \in Seq(Pcbs)
          /\ Inserted(InsertAt(s, at, current), s, at, current)
      BY <1>2, <2>8, InsertAtFacts
    <3>2. QED
      BY <2>8, <3>1
  <2>10. Faithful(k, {})
    <3>1. \A l \in Levels : k.queue[l] = Here.queue[l]
      BY <1>1, <1>2, <2>7, QueueIdFacts
    <3>2. \A p \in Pcbs : k.state[p] = Here.state[p]
      BY <1>2, <2>7
    <3> HIDE DEF s, w
    <3>3. QED
      BY <1>3, <3>1, <3>2, FaithfulAside
  <2>11. Promises({})
    BY <2>6, <2>10, DispatchPromises
  <2>12. WaitersAre(k)
    <3> SUFFICES ASSUME NEW p \in Pcbs, NEW b \in WaitQs, InQ(k, p, b), p # current
                 PROVE  On(p, b)
      BY <1>1 DEF WaitersAre
    <3>1. CASE b # SLEEPQ
      BY <1>2, <2>7, <3>1, QueueIdFacts DEF InQ, On, WaitQs
    <3>2. CASE b = SLEEPQ
      <4>1. PICK i \in 1 .. Len(w) : w[i] = p
        BY <2>9, <3>2 DEF InQ
      <4>2. /\ p = IF i < at THEN s[i] ELSE s[i-1]
            /\ i # at /\ i \in 1 .. Len(s) + 1
        <5> HIDE DEF s, w
        <5> QED BY <2>9, <4>1 DEF Inserted
      <4>3. i \in Nat /\ at \in Nat /\ at <= Len(s) + 1 /\ at >= 1
        BY <2>8
      <4>4. \E j \in DOMAIN s : s[j] = p
        <5> HIDE DEF s, w
        <5>1. CASE i < at
          BY <2>8, <4>2, <4>3, <5>1
        <5>2. CASE i > at
          <6>1. i - 1 \in DOMAIN s /\ s[i-1] = p
            BY <2>8, <4>2, <4>3, <5>2
          <6>2. QED
            BY <6>1
        <5>3. QED
          BY <4>2, <4>3, <5>1, <5>2
      <4>5. QED
        BY <3>2, <4>4 DEF On
    <3>3. QED
      BY <3>1, <3>2
  <2>13. /\ \A a \in WaitQs : queue'[a] = k.queue[a]
         /\ InitNeverWaits' /\ PanicNeedsInitKilled'
    BY <1>1, <2>6, <2>7, <2>12, DispatchOrder
  <2>14. queue'[SLEEPQ] = w /\ queue'[READQ] = queue[READQ]
    BY <1>2, <2>7, <2>13, QueueIdFacts DEF WaitQs
  <2>15. NobodyWaitsOnInput'
    BY <1>1, <2>14 DEF OrderInv, Ordered, NobodyWaitsOnInput
  <2>16. \A i, j \in 1 .. Len(s) : i < j => wakeup[s[i]] <= wakeup[s[j]]
    BY <2>8 DEF OrderInv, Ordered, SleepSorted
  <2>17. \A i, j \in 1 .. Len(w) : i < j => wakeup'[w[i]] <= wakeup'[w[j]]
    <3> HIDE DEF s, w
    <3> QED BY <1>2, <2>1, <2>2, <2>3, <2>5, <2>8, <2>9, <2>16, InsertSorted
  <2>18. SleepSorted'
    BY <2>9, <2>14, <2>17 DEF SleepSorted
  <2>19. QED
    BY <2>11, <2>13, <2>15, <2>18 DEF Ordered
<1>6. QED
  BY <1>4, <1>5

\* fork: a PCB of the free list, on which nobody waits, goes to a ready queue.
LEMMA ForkOrder ==
  ASSUME OrderInv, sys_fork
  PROVE  Promises({}) /\ Ordered'
<1> DEFINE new == Head(queue[FREEQ])
           popped == Pop(Here, FREEQ)
           copied == [popped EXCEPT !.state[new] = ST_NEW]
           ready == [copied EXCEPT !.state[new] = READY]
           a == priority[current]
           after == Enqueue(ready, a, new)
<1>1. /\ IInv /\ Running /\ queue[FREEQ] # <<>> /\ UNCHANGED <<wakeup, incount>>
      /\ pid' = [pid EXCEPT ![new] = next_pid]
  BY DEF sys_fork, OrderInv
<1>2. /\ Here \in Kernels /\ Tidy(Here, {current}) /\ current \in Pcbs
      /\ Here.panicked = FALSE /\ Here.state = state
      /\ state \in [Pcbs -> States] /\ Here.queue = queue
      /\ queue \in [QueueIds -> Seq(Pcbs)]
      /\ a \in Levels /\ CanSched(current) /\ FREEQ \in QueueIds /\ a # FREEQ
      /\ pid \in [Pcbs -> 0 .. PID_MOD-1]
  BY <1>1, RunningFacts, HereFields, KernelFields, QueueIdFacts DEF Queues, IInv, TypeOK
<1>3. /\ new \in Pcbs /\ Tidy(popped, {current} \cup {new})
      /\ state[new] \in Labels(FREEQ)
      /\ popped = [Here EXCEPT !.queue = [queue EXCEPT ![FREEQ] = Tail(queue[FREEQ])]]
  <2>1. Here.queue[FREEQ] # <<>>
    BY <1>1, <1>2
  <2>2. /\ Head(Here.queue[FREEQ]) \in Pcbs \ {current}
        /\ Here.state[Head(Here.queue[FREEQ])] \in Labels(FREEQ)
        /\ Tidy(Pop(Here, FREEQ), {current} \cup {Head(Here.queue[FREEQ])})
        /\ Pop(Here, FREEQ)
             = [Here EXCEPT !.queue = [Here.queue EXCEPT ![FREEQ] = Tail(Here.queue[FREEQ])]]
    BY <1>2, <2>1, PopTidy
  <2>3. QED
    BY <1>2, <2>2
<1>4. state[new] = FREE /\ InQ(Here, new, FREEQ)
  <2>1. 1 \in DOMAIN queue[FREEQ] /\ queue[FREEQ][1] = new
    BY <1>1, <1>2
  <2>2. QED
    BY <1>2, <1>3, <2>1, QueueIdFacts DEF Labels, InQ
<1>5. Becomes(after)
  BY <1>2, <1>4 DEF sys_fork
<1>6. \A o, b : b \in QueueIds \ {FREEQ} => ~BeforeIn(Here, b, new, o)
  BY <1>2, <1>3, <1>4, OneOrder, OneQueue
<1>7. /\ popped \in Kernels /\ popped.state = state /\ popped.panicked = FALSE
      /\ popped.queue = [queue EXCEPT ![FREEQ] = Tail(queue[FREEQ])]
  BY <1>2, <1>3 DEF Kernels, Tidy
<1> HIDE DEF popped, new, a
<1>8. Faithful(popped, {})
  <2>1. Faithful(Here, {})
    BY <1>2, FaithfulHere
  <2>2. \A l \in Levels : popped.queue[l] = Here.queue[l]
    BY <1>2, <1>7, QueueIdFacts
  <2>3. \A p \in Pcbs : popped.state[p] = Here.state[p]
    BY <1>2, <1>7
  <2>4. QED
    BY <2>1, <2>2, <2>3, FaithfulAside
<1>9. /\ copied.state = [state EXCEPT ![new] = ST_NEW] /\ copied.queue = popped.queue
      /\ copied \in Kernels /\ copied.panicked = FALSE
  BY <1>3, <1>7 DEF Kernels, States
<1> HIDE DEF copied
<1>10. /\ ready.state = [state EXCEPT ![new] = READY] /\ ready.queue = popped.queue
       /\ ready \in Kernels /\ ready.panicked = FALSE
  BY <1>2, <1>3, <1>9 DEF Kernels, States
<1> HIDE DEF ready
<1>11. /\ after.state = [popped.state EXCEPT ![new] = READY]
       /\ after.queue = [popped.queue EXCEPT ![a] = Append(popped.queue[a], new)]
       /\ after.panicked = FALSE
  BY <1>7, <1>10 DEF Kernels, Enqueue
<1> HIDE DEF after
<1>12. Faithful(after, {})
  <2>1. new \in {current} \cup {new}
    OBVIOUS
  <2>2. \A o \in Pcbs : \A b \in QueueIds \ {FREEQ} :
          BeforeIn(Here, b, new, o) => ~ReadyIn(popped, o)
    BY <1>6
  <2>3. a \in Levels /\ Tidy(popped, {current} \cup {new})
    BY <1>2, <1>3
  <2>4. QED
    BY <1>8, <1>11, <2>1, <2>2, <2>3, FaithfulReady
<1>13. queue' = after.queue /\ state' = after.state /\ panicked' = FALSE
  BY <1>5, <1>11 DEF Becomes
<1>14. Promises({})
  BY <1>12, <1>13, ReturnPromises
<1>15. \A b \in WaitQs : queue'[b] = queue[b]
  BY <1>2, <1>7, <1>11, <1>13, QueueIdFacts DEF WaitQs
<1>16. InitNeverWaits'
  <2> SUFFICES ASSUME NEW p \in Pcbs, pid'[p] = PID_INIT, NEW b \in WaitQs, On(p, b)'
               PROVE  FALSE
    BY DEF InitNeverWaits
  <2>1. On(p, b)
    BY <1>15 DEF On
  <2>2. pid[p] # PID_INIT
    BY <2>1 DEF OrderInv, Ordered, InitNeverWaits
  <2>3. p = new
    BY <1>1, <1>2, <1>3, <2>2
  <2>4. InQ(Here, new, b) /\ b \in QueueIds /\ b # FREEQ
    BY <2>1, <2>3, HereOrder, QueueIdFacts DEF WaitQs
  <2>5. QED
    BY <1>2, <1>3, <1>4, <2>4, OneQueue
<1>17. PanicNeedsInitKilled'
  BY <1>13 DEF PanicNeedsInitKilled
<1>18. SleepSorted' /\ NobodyWaitsOnInput'
  BY <1>1, <1>15, SleepersKept DEF WaitQs, OrderInv, Ordered, NobodyWaitsOnInput
<1>19. QED
  BY <1>14, <1>16, <1>17, <1>18 DEF Ordered

\* kill: only a mark.
LEMMA KillOrder ==
  ASSUME OrderInv, NEW victim, sys_kill(victim)
  PROVE  Promises({}) /\ Ordered'
<1> DEFINE v == CHOOSE p \in {p \in Pcbs : pid[p] = victim /\ state[p] # FREE} :
                  \A o \in {o \in Pcbs : pid[o] = victim /\ state[o] # FREE} : p <= o
<1>1. /\ IInv /\ Running /\ state' = [state EXCEPT ![v] = KILLED]
      /\ UNCHANGED <<queue, panicked, pid, wakeup, incount>>
  BY DEF sys_kill, Unrestricted, OrderInv
<1> HIDE DEF v
<1>2. /\ Tidy(Here, {current}) /\ state \in [Pcbs -> States] /\ panicked = FALSE
  BY <1>1, RunningFacts
<1>3. Faithful(Here, {})
  BY <1>2, FaithfulHere
<1>4. \A p, o \in Pcbs : \A a \in QueueIds \ {FREEQ} :
        Before(a, p, o) => \A l \in Levels : ~Before(l, o, p)'
  <2>1. \A p, o, l : Before(l, o, p)' <=> Before(l, o, p)
    BY <1>1 DEF Before
  <2>2. QED
    BY <1>3, <2>1, HereOrder DEF Faithful, NoOvertaking
<1>5. \A p \in Pcbs : state'[p] \in {state[p], KILLED}
  BY <1>1, <1>2
<1>6. Promises({})
  BY <1>4, <1>5 DEF Promises, KILLED, FREE
<1>7. InitNeverWaits' /\ PanicNeedsInitKilled'
  BY <1>1, <1>2, ReturnOrder DEF On
<1>8. SleepSorted' /\ NobodyWaitsOnInput'
  BY <1>1, SleepersKept DEF OrderInv, Ordered, NobodyWaitsOnInput
<1>9. QED
  BY <1>6, <1>7, <1>8 DEF Ordered

\* A device takes a PCB out of its queue of readers; the others stay in theirs.
LEMMA DeviceOrder ==
  ASSUME OrderInv, Running, NEW a \in {READQ, BUFBLOCKQ}, NEW p \in Pcbs,
         InQ(Here, p, a), NEW k, Tidy(k, {current} \cup {p}), k.state = state,
         k.panicked = panicked,
         \A b \in QueueIds \ {a} : k.queue[b] = queue[b],
         \A o \in Pcbs : InQ(k, o, a) => On(o, a),
         Becomes(Sched(k, p)), pid' = pid
  PROVE  /\ Promises({})
         /\ \A b \in WaitQs \ {a} : queue'[b] = queue[b]
         /\ InitNeverWaits' /\ PanicNeedsInitKilled'
<1> DEFINE t == Sched(k, p)
<1>1. /\ IInv /\ Tidy(Here, {current}) /\ priority[p] \in Levels /\ panicked = FALSE
      /\ a \in QueueIds /\ a \notin Levels /\ a \in WaitQs /\ Here \in Kernels
  BY RunningFacts, QueueIdFacts DEF OrderInv, WaitQs
<1>2. /\ k \in Kernels /\ k.queue \in [QueueIds -> Seq(Pcbs)]
  BY KernelFields DEF Tidy, Queues
<1>3. /\ t.state = [k.state EXCEPT ![p] = READY]
      /\ t.queue = [k.queue EXCEPT ![priority[p]] = Append(k.queue[priority[p]], p)]
      /\ t.panicked = FALSE
  BY <1>1, <1>2, SchedFields
<1>4. queue' = t.queue /\ state' = t.state /\ panicked' = FALSE
  BY <1>3 DEF Becomes
<1>5. Faithful(k, {})
  <2>1. Faithful(Here, {})
    BY <1>1, FaithfulHere
  <2>2. \A l \in Levels : k.queue[l] = Here.queue[l]
    BY <1>1, QueueIdFacts, HereFields
  <2>3. \A o \in Pcbs : k.state[o] = Here.state[o]
    BY HereFields
  <2>4. QED
    BY <2>1, <2>2, <2>3, FaithfulAside
<1>6. \A o \in Pcbs : \A b \in QueueIds \ {FREEQ} :
        BeforeIn(Here, b, p, o) => ~ReadyIn(k, o)
  <2> SUFFICES ASSUME NEW o \in Pcbs, NEW b \in QueueIds, BeforeIn(Here, b, p, o),
                      NEW l \in Levels, InQ(k, o, l)
               PROVE  FALSE
    BY DEF ReadyIn
  <2>1. InQ(Here, o, b) /\ a = b
    BY <1>1, OneOrder, OneQueue
  <2>2. InQ(Here, o, l) /\ l \in QueueIds /\ l # a
    BY <1>1, HereFields, QueueIdFacts DEF InQ
  <2>3. QED
    BY <1>1, <2>1, <2>2, OneQueue
<1>7. Faithful(t, {})
  BY <1>1, <1>5, <1>6, FaithfulSched
<1> HIDE DEF t
<1>8. Promises({})
  BY <1>4, <1>7, ReturnPromises
<1>9. \A b \in WaitQs : queue'[b] = k.queue[b]
  BY <1>1, <1>2, <1>3, <1>4, QueueIdFacts DEF WaitQs
<1>10. \A b \in WaitQs : \A o \in Pcbs : On(o, b)' => On(o, b)
  BY <1>9, QueueIdFacts DEF WaitQs, On, InQ
<1>11. InitNeverWaits' /\ PanicNeedsInitKilled'
  BY <1>4, <1>10, ReturnOrder
<1>12. \A b \in WaitQs \ {a} : queue'[b] = queue[b]
  BY <1>9, QueueIdFacts DEF WaitQs
<1>13. QED
  BY <1>8, <1>11, <1>12

\* A character on the serial line.
LEMMA SioOrder ==
  ASSUME OrderInv, isr_sio
  PROVE  Promises({}) /\ Ordered'
<1>1. /\ IInv /\ Running /\ UNCHANGED <<pid, wakeup>>
      /\ READQ \in QueueIds /\ READQ # SLEEPQ
  BY QueueIdFacts DEF isr_sio, OrderInv
<1>2. CASE queue[READQ] # <<>>
  <2> DEFINE p == Head(queue[READQ])
             k == Pop(Here, READQ)
  <2>1. /\ Tidy(Here, {current}) /\ Here \in Kernels /\ Here.queue[READQ] # <<>>
        /\ queue[READQ] \in Seq(Pcbs) /\ Here.queue = queue
        /\ queue \in [QueueIds -> Seq(Pcbs)]
    BY <1>1, <1>2, RunningFacts, HereFields, KernelFields DEF Queues
  <2>2. /\ p \in Pcbs /\ Tidy(k, {current} \cup {p})
        /\ k = [Here EXCEPT !.queue = [queue EXCEPT ![READQ] = Tail(queue[READQ])]]
    BY <1>1, <2>1, PopTidy
  <2>3. InQ(Here, p, READQ)
    <3>1. 1 \in DOMAIN queue[READQ] /\ queue[READQ][1] = p
      BY <1>2, <2>1
    <3>2. QED
      BY <2>1, <3>1 DEF InQ
  <2>4. CanSched(p)
    BY <1>1, <2>2, RunningFacts
  <2>5. Becomes(Sched(k, p)) /\ incount' = incount
    BY <1>2, <2>4 DEF isr_sio
  <2> HIDE DEF p, k
  <2>6. /\ k.state = state /\ k.panicked = panicked
        /\ k.queue = [queue EXCEPT ![READQ] = Tail(queue[READQ])]
    BY <2>1, <2>2, HereFields DEF Kernels
  <2>7. k \in Kernels /\ k.queue[READQ] = Tail(queue[READQ])
    BY <1>1, <2>1, <2>2, <2>6 DEF Tidy
  <2>8. Rest(k.queue[READQ], Here.queue[READQ])
    BY <1>2, <2>1, <2>7, RestFacts
  <2>9. \A o \in Pcbs : InQ(k, o, READQ) => On(o, READQ)
    BY <1>1, <2>1, <2>7, <2>8, RestKeepsOrder, HereOrder
  <2>10. \A b \in QueueIds \ {READQ} : k.queue[b] = queue[b]
    BY <2>1, <2>6
  <2>11. /\ Promises({})
         /\ \A b \in WaitQs \ {READQ} : queue'[b] = queue[b]
         /\ InitNeverWaits' /\ PanicNeedsInitKilled'
    BY <1>1, <2>2, <2>3, <2>5, <2>6, <2>9, <2>10, DeviceOrder
  <2>12. SleepSorted'
    BY <1>1, <2>11, SleepersKept DEF WaitQs
  <2>13. NobodyWaitsOnInput'
    BY <1>2, <2>5 DEF OrderInv, Ordered, NobodyWaitsOnInput
  <2>14. QED
    BY <2>11, <2>12, <2>13 DEF Ordered
<1>3. CASE queue[READQ] = <<>>
  <2>1. UNCHANGED schedVars
    BY <1>3 DEF isr_sio
  <2>2. QED
    BY <1>1, <1>3, <2>1, NothingMoves
<1>4. QED
  BY <1>2, <1>3

\* A key completes the request of one keyboard reader.
LEMMA KeyboardOrder ==
  ASSUME OrderInv, NEW i \in DOMAIN queue[BUFBLOCKQ], keyboard_isr(i)
  PROVE  Promises({}) /\ Ordered'
<1> DEFINE p == queue[BUFBLOCKQ][i]
           k == [Here EXCEPT !.queue[BUFBLOCKQ] = RemoveAt(@, i)]
<1>1. /\ IInv /\ Running /\ UNCHANGED <<pid, wakeup, incount>>
      /\ Becomes(IF CanSched(p) THEN Sched(k, p) ELSE k)
      /\ BUFBLOCKQ \in QueueIds /\ BUFBLOCKQ # SLEEPQ /\ BUFBLOCKQ # READQ
  BY KernelAssumption DEF keyboard_isr, OrderInv, QueueIds, BUFBLOCKQ, SLEEPQ, READQ
<1>2. /\ Tidy(Here, {current}) /\ Here \in Kernels /\ Here.queue = queue
      /\ queue \in [QueueIds -> Seq(Pcbs)]
  BY <1>1, RunningFacts, HereFields, KernelFields DEF Queues
<1>3. p \in Pcbs /\ Tidy(k, {current} \cup {p}) /\ InQ(Here, p, BUFBLOCKQ)
  <2>1. i \in DOMAIN Here.queue[BUFBLOCKQ] /\ p = Here.queue[BUFBLOCKQ][i]
    BY <1>2
  <2> HIDE DEF p
  <2>2. QED
    BY <1>1, <1>2, <2>1, TakeTidy DEF InQ
<1>4. Becomes(Sched(k, p))
  BY <1>1, <1>3, RunningFacts
<1>5. /\ k.state = state /\ k.panicked = panicked
      /\ k.queue = [queue EXCEPT ![BUFBLOCKQ] = RemoveAt(queue[BUFBLOCKQ], i)]
  BY <1>2, HereFields DEF Kernels
<1> HIDE DEF k, p
<1>6. \A b \in QueueIds \ {BUFBLOCKQ} : k.queue[b] = queue[b]
  BY <1>2, <1>5
<1>7. \A o \in Pcbs : InQ(k, o, BUFBLOCKQ) => On(o, BUFBLOCKQ)
  <2> DEFINE s == queue[BUFBLOCKQ]
             w == k.queue[BUFBLOCKQ]
  <2>1. s \in Seq(Pcbs) /\ DOMAIN s = 1 .. Len(s) /\ Len(s) \in Nat /\ i \in 1 .. Len(s)
    BY <1>1, <1>2
  <2>2. w = RemoveAt(s, i)
    BY <1>1, <1>2, <1>5
  <2> HIDE DEF s, w
  <2>3. w \in Seq(Pcbs) /\ Removed(w, s, i)
    BY <2>1, <2>2, RemoveAtFacts
  <2>4. DOMAIN w = 1 .. Len(s) - 1
    BY <2>1, <2>3 DEF Removed
  <2>5. ASSUME NEW j \in DOMAIN w PROVE \E x \in DOMAIN s : s[x] = w[j]
    <3>1. /\ j \in DOMAIN s /\ j + 1 \in DOMAIN s
          /\ w[j] = IF j < i THEN s[j] ELSE s[j+1]
      BY <2>1, <2>3, <2>4 DEF Removed
    <3>2. QED
      BY <3>1
  <2>6. QED
    BY <2>5 DEF InQ, On, s, w
<1>8. /\ Promises({})
      /\ \A b \in WaitQs \ {BUFBLOCKQ} : queue'[b] = queue[b]
      /\ InitNeverWaits' /\ PanicNeedsInitKilled'
  BY <1>1, <1>3, <1>4, <1>5, <1>6, <1>7, DeviceOrder
<1>9. queue'[SLEEPQ] = queue[SLEEPQ] /\ queue'[READQ] = queue[READQ]
  BY <1>1, <1>8 DEF WaitQs
<1>10. SleepSorted' /\ NobodyWaitsOnInput'
  BY <1>1, <1>9, SleepersKept DEF OrderInv, Ordered, NobodyWaitsOnInput
<1>11. QED
  BY <1>8, <1>10 DEF Ordered

-----------------------------------------------------------------------------
(***************************************************************************)
(* The clock: its loop takes sleepers from the head of their queue, which  *)
(* is in order, until the first is not due.                                *)
(***************************************************************************)
Asleep(s) == {p \in Pcbs : InQ(s, p, SLEEPQ)}

NoneDue(s, now) == s.queue[SLEEPQ] = <<>> \/ wakeup[Head(s.queue[SLEEPQ])] > now

\* s is the state found after some rounds of the loop.
Waking(s) ==
  /\ Tidy(s, {current})
  /\ Rest(s.queue[SLEEPQ], queue[SLEEPQ])
  /\ s.queue[READQ] = queue[READQ]
  /\ s.queue[BUFBLOCKQ] = queue[BUFBLOCKQ]
  /\ s.panicked = FALSE
  /\ Faithful(s, {})

\* Whoever is behind the first sleeper is still asleep.
LEMMA BehindStays ==
  ASSUME NEW s, Tidy(s, {current}), Tidy(Here, {current}),
         Rest(s.queue[SLEEPQ], queue[SLEEPQ]), s.queue[SLEEPQ] # <<>>,
         NEW o \in Pcbs, NEW b \in QueueIds,
         BeforeIn(Here, b, Head(s.queue[SLEEPQ]), o)
  PROVE  ~ReadyIn(s, o)
<1> DEFINE w == s.queue[SLEEPQ]
           v == queue[SLEEPQ]
           p == Head(w)
<1>1. /\ s \in Kernels /\ Here \in Kernels /\ SLEEPQ \in QueueIds /\ SLEEPQ \notin Levels
      /\ Here.queue = queue
  BY QueueIdFacts, HereFields DEF Tidy
<1>2. /\ w \in Seq(Pcbs) /\ DOMAIN w = 1 .. Len(w) /\ Len(w) \in Nat
      /\ v \in Seq(Pcbs) /\ DOMAIN v = 1 .. Len(v) /\ Len(v) \in Nat
  BY <1>1, QueueFacts
<1>3. p \in Pcbs /\ 1 \in DOMAIN w /\ w[1] = p
  BY <1>2
<1>4. PICK n \in 0 .. Len(v) : /\ Len(w) = Len(v) - n
                               /\ \A i \in 1 .. Len(w) : w[i] = v[i+n]
  BY DEF Rest
<1>5. PICK x, y \in DOMAIN queue[b] : x < y /\ queue[b][x] = p /\ queue[b][y] = o
  BY <1>1 DEF BeforeIn
<1>6. 1 + n \in DOMAIN v /\ v[1+n] = p
  <2> HIDE DEF w, v, p
  <2> QED BY <1>2, <1>3, <1>4
<1>7. b = SLEEPQ /\ x = 1 + n
  BY <1>1, <1>5, <1>6 DEF Tidy, Placed
<1>8. y \in DOMAIN v /\ v[y] = o
  BY <1>5, <1>7
<1> HIDE DEF w, v, p
<1>9. y - n \in DOMAIN w /\ w[y-n] = o
  <2>1. y \in Nat /\ n \in Nat /\ y > 1 + n /\ y <= Len(v)
    BY <1>2, <1>5, <1>7, <1>8
  <2>2. y - n \in 1 .. Len(w) /\ (y - n) + n = y
    BY <1>2, <1>4, <2>1
  <2>3. QED
    BY <1>2, <1>4, <1>8, <2>2
<1>10. InQ(s, o, SLEEPQ)
  BY <1>9 DEF InQ, w
<1>11. QED
  BY <1>1, <1>10, OneQueue, QueueIdFacts DEF ReadyIn

\* A round that finds a sleeper whose time has come keeps what the loop has
\* established, and leaves one sleeper less.
LEMMA WakeAdvances ==
  ASSUME IInv, Running, NEW s, Waking(s), NEW now, ~NoneDue(s, now)
  PROVE  /\ Waking(Wake(now)[s])
         /\ Head(s.queue[SLEEPQ]) \in Asleep(s)
         /\ Asleep(Wake(now)[s]) \subseteq Asleep(s) \ {Head(s.queue[SLEEPQ])}
<1> DEFINE p == Head(s.queue[SLEEPQ])
           popped == Pop(s, SLEEPQ)
           t == Sched(popped, p)
<1>1. /\ Tidy(s, {current}) /\ s \in Kernels /\ SLEEPQ \in QueueIds
      /\ s.queue[SLEEPQ] # <<>> /\ ~(wakeup[p] > now)
      /\ Tidy(Here, {current}) /\ current \in Pcbs
      /\ s.queue \in [QueueIds -> Seq(Pcbs)] /\ s.state \in [Pcbs -> States]
      /\ Here \in Kernels /\ Here.queue = queue
  BY RunningFacts, QueueIdFacts, KernelFields, HereFields
     DEF Waking, Tidy, NoneDue, Queues
<1>2. /\ p \in Pcbs \ {current} /\ Tidy(popped, {current} \cup {p})
      /\ popped = [s EXCEPT !.queue = [s.queue EXCEPT ![SLEEPQ] = Tail(s.queue[SLEEPQ])]]
  BY <1>1, PopTidy
<1>3. priority[p] \in Levels /\ CanSched(p)
  BY <1>2, RunningFacts
<1>4. Wake(now)[s] = t
  BY <1>1, <1>3 DEF Wake
<1>5. InQ(s, p, SLEEPQ)
  <2>1. 1 \in DOMAIN s.queue[SLEEPQ] /\ s.queue[SLEEPQ][1] = p
    BY <1>1
  <2>2. QED
    BY <2>1 DEF InQ
<1>6. \A o \in Pcbs : \A b \in QueueIds : BeforeIn(Here, b, p, o) => ~ReadyIn(s, o)
  BY <1>1, BehindStays DEF Waking
<1>7. /\ popped.state = s.state /\ popped.panicked = s.panicked
      /\ popped.queue = [s.queue EXCEPT ![SLEEPQ] = Tail(s.queue[SLEEPQ])]
      /\ popped \in Kernels
  BY <1>1, <1>2 DEF Kernels, Tidy
<1> HIDE DEF p, popped
<1>8. \A l \in Levels : popped.queue[l] = s.queue[l]
  BY <1>1, <1>7, QueueIdFacts
<1>9. Faithful(popped, {})
  BY <1>7, <1>8, FaithfulAside DEF Waking
<1>10. \A o \in Pcbs : \A b \in QueueIds \ {FREEQ} :
         BeforeIn(Here, b, p, o) => ~ReadyIn(popped, o)
  BY <1>6, <1>8 DEF ReadyIn, InQ
<1>11. Faithful(t, {})
  <2>1. p \in {current} \cup {p}
    OBVIOUS
  <2>2. QED
    BY <1>2, <1>3, <1>9, <1>10, <2>1, FaithfulSched
<1>12. Tidy(t, {current})
  <2>1. Tidy(t, ({current} \cup {p}) \ {p})
    BY <1>2, <1>3, SchedTidy
  <2>2. ({current} \cup {p}) \ {p} = {current}
    BY <1>2
  <2>3. QED
    BY <2>1, <2>2
<1>13. /\ t.queue = [popped.queue EXCEPT ![priority[p]] = Append(popped.queue[priority[p]], p)]
       /\ t.panicked = FALSE
  BY <1>2, <1>3, <1>7, SchedFields DEF Waking
<1> HIDE DEF t
<1>14. /\ t.queue[SLEEPQ] = Tail(s.queue[SLEEPQ])
       /\ t.queue[READQ] = queue[READQ] /\ t.queue[BUFBLOCKQ] = queue[BUFBLOCKQ]
  BY <1>1, <1>3, <1>7, <1>13, QueueIdFacts DEF Waking
<1>15. t \in Kernels
  BY <1>12 DEF Tidy
<1>16. Rest(t.queue[SLEEPQ], s.queue[SLEEPQ])
  BY <1>1, <1>14, RestFacts
<1>17. Rest(t.queue[SLEEPQ], queue[SLEEPQ])
  <2>1. /\ t.queue[SLEEPQ] \in Seq(Pcbs) /\ s.queue[SLEEPQ] \in Seq(Pcbs)
        /\ queue[SLEEPQ] \in Seq(Pcbs)
    BY <1>1, <1>15, KernelFields
  <2>2. QED
    BY <1>16, <2>1, RestOfRest DEF Waking
<1>18. Waking(t)
  BY <1>11, <1>12, <1>13, <1>14, <1>17 DEF Waking
<1>19. ASSUME NEW o \in Asleep(t) PROVE o \in Asleep(s) \ {p}
  <2>1. o \in Pcbs /\ InQ(t, o, SLEEPQ)
    BY <1>19 DEF Asleep
  <2>2. InQ(s, o, SLEEPQ)
    BY <1>1, <1>15, <1>16, <2>1, RestKeepsOrder
  <2>3. InQ(popped, o, SLEEPQ)
    BY <1>1, <1>7, <1>14, <2>1 DEF InQ
  <2>4. o \notin {current} \cup {p}
    BY <1>1, <1>2, <2>1, <2>3, OneQueue
  <2>5. QED
    BY <2>1, <2>2, <2>4 DEF Asleep
<1>20. QED
  BY <1>2, <1>4, <1>5, <1>18, <1>19 DEF Asleep, p

\* After N_PCBS rounds the first sleeper is not due, or there is none.
LEMMA WakingEnds ==
  ASSUME IInv, Running, NEW now
  PROVE  LET woken == Iterate(Wake(now), Here, N_PCBS)
         IN  Waking(woken) /\ NoneDue(woken, now)
<1> DEFINE r == Iterate(Wake(now), Here, N_PCBS)
           S == [i \in 0 .. N_PCBS |->
                   {s \in Kernels : /\ Waking(s)
                                    /\ \/ NoneDue(s, now)
                                       \/ Cardinality(Asleep(s)) <= N_PCBS - i}]
<1>0. /\ Here \in Kernels /\ N_PCBS \in Nat /\ Tidy(Here, {current})
      /\ Here.panicked = FALSE
  BY KernelAssumption, RunningFacts, HereFields
<1>1. Here \in S[0]
  <2>1. Rest(Here.queue[SLEEPQ], queue[SLEEPQ])
    BY <1>0, KernelFields, QueueIdFacts, RestFacts, HereFields
  <2>2. Faithful(Here, {})
    BY <1>0, FaithfulHere
  <2>3. Waking(Here)
    BY <1>0, <2>1, <2>2, HereFields DEF Waking
  <2>4. Cardinality(Asleep(Here)) <= N_PCBS - 0
    BY <1>0, HowMany DEF Asleep
  <2>5. QED
    BY <1>0, <2>3, <2>4
<1>2. ASSUME NEW i \in 0 .. N_PCBS-1, NEW s \in S[i]
      PROVE  Wake(now)[s] \in S[i+1]
  <2>0. i \in 0 .. N_PCBS /\ i + 1 \in 0 .. N_PCBS /\ N_PCBS - (i + 1) \in Nat
        /\ N_PCBS - i = (N_PCBS - (i + 1)) + 1
    BY <1>0
  <2>1. /\ s \in Kernels /\ Waking(s)
        /\ NoneDue(s, now) \/ Cardinality(Asleep(s)) <= N_PCBS - i
    BY <2>0
  <2>2. SUFFICES /\ Waking(Wake(now)[s])
                 /\ \/ NoneDue(Wake(now)[s], now)
                    \/ Cardinality(Asleep(Wake(now)[s])) <= N_PCBS - (i + 1)
    BY <2>0 DEF Waking, Tidy
  <2> HIDE DEF S
  <2>3. CASE NoneDue(s, now)
    <3>1. Wake(now)[s] = s
      BY <2>1, <2>3 DEF Wake, NoneDue
    <3>2. QED
      BY <2>1, <2>3, <3>1
  <2>4. CASE ~NoneDue(s, now)
    <3>1. /\ Waking(Wake(now)[s]) /\ Head(s.queue[SLEEPQ]) \in Asleep(s)
          /\ Asleep(Wake(now)[s]) \subseteq Asleep(s) \ {Head(s.queue[SLEEPQ])}
      BY <2>1, <2>4, WakeAdvances
    <3>2. Asleep(s) \subseteq Pcbs /\ Cardinality(Asleep(s)) <= (N_PCBS - (i + 1)) + 1
      BY <2>0, <2>1, <2>4 DEF Asleep
    <3>3. Cardinality(Asleep(Wake(now)[s])) <= N_PCBS - (i + 1)
      BY <2>0, <3>1, <3>2, Smaller
    <3>4. QED
      BY <3>1, <3>3
  <2>5. QED
    BY <2>3, <2>4
<1>3. r \in S[N_PCBS]
  <2> HIDE DEF S
  <2> QED BY <1>0, <1>1, <1>2, IterateAdvances
<1>4. /\ r \in Kernels /\ Waking(r)
      /\ NoneDue(r, now) \/ Cardinality(Asleep(r)) <= N_PCBS - N_PCBS
  <2>1. N_PCBS \in 0 .. N_PCBS
    BY <1>0
  <2>2. QED
    BY <1>3, <2>1
<1> HIDE DEF r, S
<1>5. ASSUME ~NoneDue(r, now) PROVE FALSE
  <2>1. Asleep(r) = {}
    <3>1. Cardinality(Asleep(r)) <= 0 /\ Asleep(r) \subseteq Pcbs
      BY <1>0, <1>4, <1>5 DEF Asleep
    <3>2. QED
      BY <3>1, HowMany
  <2>2. Head(r.queue[SLEEPQ]) \in Asleep(r)
    BY <1>4, <1>5, WakeAdvances
  <2>3. QED
    BY <2>1, <2>2
<1>6. QED
  BY <1>4, <1>5 DEF r

\* A tick: it leaves nobody asleep whose time has come.
LEMMA ClockOrder ==
  ASSUME OrderInv, isr_clock
  PROVE  /\ Promises({}) /\ Ordered'
         /\ \A p \in Pcbs : On(p, SLEEPQ)' => wakeup[p] > system_time'
<1> DEFINE now == (system_time + 1) % TIME_MOD
           woken == Iterate(Wake(now), Here, N_PCBS)
           w == woken.queue[SLEEPQ]
           v == queue[SLEEPQ]
<1>1. /\ IInv /\ Running /\ pid' = pid /\ incount' = incount /\ system_time' = now
      /\ IF woken.quantum < 1
         THEN Becomes(Dispatch(IF CanSched(current) THEN Sched(woken, current)
                                                    ELSE Cleanup(woken, current)))
         ELSE Becomes([woken EXCEPT !.quantum = @ - 1])
      /\ wakeup' = [p \in Pcbs |-> IF Contains(queue'[SLEEPQ], p) THEN wakeup[p] ELSE 0]
  BY DEF isr_clock, OrderInv
<1>2. /\ Here \in Kernels /\ Tidy(Here, {current}) /\ current \in Pcbs
      /\ Here.queue = queue /\ priority[current] \in Levels /\ CanSched(current)
  BY <1>1, RunningFacts, HereFields
<1>3. Waking(woken) /\ NoneDue(woken, now)
  BY <1>1, WakingEnds
<1>4. now \in Nat
  BY <1>1, KernelAssumption DEF IInv, TypeOK
<1>5. wakeup \in [Pcbs -> Nat]
  BY <1>1, KernelAssumption DEF IInv, TypeOK
<1> HIDE DEF now, woken
<1>6. /\ Tidy(woken, {current}) /\ woken \in Kernels /\ woken.panicked = FALSE
      /\ woken.queue[READQ] = queue[READQ] /\ woken.queue[BUFBLOCKQ] = queue[BUFBLOCKQ]
      /\ Faithful(woken, {}) /\ Rest(w, v)
      /\ woken.queue \in [QueueIds -> Seq(Pcbs)]
  BY <1>3, KernelFields DEF Waking, Tidy, Queues
<1>7. \A p : InQ(woken, p, SLEEPQ) => On(p, SLEEPQ)
  BY <1>2, <1>6, RestKeepsOrder, QueueIdFacts, HereOrder
<1>8. \A a \in WaitQs : \A p : InQ(woken, p, a) => On(p, a)
  BY <1>6, <1>7 DEF WaitQs, InQ, On
<1>9. /\ Promises({})
      /\ \A a \in WaitQs : queue'[a] = woken.queue[a]
      /\ InitNeverWaits' /\ PanicNeedsInitKilled'
  <2>1. CASE woken.quantum < 1
    <3> DEFINE k == Sched(woken, current)
    <3>1. Becomes(Dispatch(k))
      BY <1>1, <1>2, <2>1
    <3>2. Tidy(k, {})
      <4>1. Tidy(k, {current} \ {current})
        BY <1>2, <1>6, SchedTidy
      <4>2. {current} \ {current} = {}
        OBVIOUS
      <4>3. QED
        BY <4>1, <4>2
    <3>3. /\ k.queue = [woken.queue EXCEPT ![priority[current]]
                          = Append(woken.queue[priority[current]], current)]
          /\ k.panicked = FALSE
      BY <1>2, <1>6, SchedFields
    <3>4. Faithful(k, {})
      <4>1. \A o \in Pcbs : \A a \in QueueIds \ {FREEQ} :
              BeforeIn(Here, a, current, o) => ~ReadyIn(woken, o)
        BY <1>1, CurrentIsNowhere
      <4>2. current \in {current}
        OBVIOUS
      <4>3. QED
        BY <1>2, <1>6, <4>1, <4>2, FaithfulSched
    <3> HIDE DEF k
    <3>5. \A a \in WaitQs : k.queue[a] = woken.queue[a]
      BY <1>2, <1>6, <3>3, QueueIdFacts DEF WaitQs
    <3>6. WaitersAre(k)
      BY <1>8, <3>5 DEF WaitersAre, InQ
    <3>7. Promises({})
      BY <3>1, <3>2, <3>4, DispatchPromises
    <3>8. /\ \A a \in WaitQs : queue'[a] = k.queue[a]
          /\ InitNeverWaits' /\ PanicNeedsInitKilled'
      BY <1>1, <3>1, <3>2, <3>3, <3>6, DispatchOrder
    <3>9. QED
      BY <3>5, <3>7, <3>8
  <2>2. CASE ~(woken.quantum < 1)
    <3> DEFINE k == [woken EXCEPT !.quantum = @ - 1]
    <3>1. Becomes(k)
      BY <1>1, <2>2
    <3>2. k.queue = woken.queue /\ k.state = woken.state /\ k.panicked = FALSE
      BY <1>6 DEF Kernels
    <3> HIDE DEF k
    <3>3. queue' = woken.queue /\ state' = woken.state /\ panicked' = FALSE
      BY <3>1, <3>2 DEF Becomes
    <3>4. Promises({})
      BY <1>6, <3>3, ReturnPromises
    <3>5. \A a \in WaitQs : \A p \in Pcbs : On(p, a)' => On(p, a)
      BY <1>8, <3>3 DEF On, InQ
    <3>6. InitNeverWaits' /\ PanicNeedsInitKilled'
      BY <1>1, <3>3, <3>5, ReturnOrder
    <3>7. QED
      BY <3>3, <3>4, <3>6
  <2>3. QED
    BY <2>1, <2>2
<1>10. queue'[SLEEPQ] = w /\ queue'[READQ] = queue[READQ]
  BY <1>6, <1>9 DEF WaitQs
<1>11. NobodyWaitsOnInput'
  BY <1>1, <1>10 DEF OrderInv, Ordered, NobodyWaitsOnInput
<1>12. /\ w \in Seq(Pcbs) /\ DOMAIN w = 1 .. Len(w) /\ Len(w) \in Nat
       /\ v \in Seq(Pcbs) /\ DOMAIN v = 1 .. Len(v) /\ Len(v) \in Nat
       /\ \A i \in DOMAIN w : w[i] \in Pcbs
  BY <1>2, <1>6, QueueFacts, QueueIdFacts
<1>13. \A i, j \in DOMAIN w : i < j => wakeup[w[i]] <= wakeup[w[j]]
  <2>1. PICK n \in 0 .. Len(v) : /\ Len(w) = Len(v) - n
                                 /\ \A i \in 1 .. Len(w) : w[i] = v[i+n]
    BY <1>6 DEF Rest
  <2>2. \A i, j \in DOMAIN v : i < j => wakeup[v[i]] <= wakeup[v[j]]
    BY DEF OrderInv, Ordered, SleepSorted
  <2> HIDE DEF w, v
  <2>3. \A i \in DOMAIN w : i \in Nat /\ i + n \in DOMAIN v /\ w[i] = v[i+n]
    BY <1>12, <2>1
  <2>4. ASSUME NEW i \in DOMAIN w, NEW j \in DOMAIN w, i < j
        PROVE  wakeup[w[i]] <= wakeup[w[j]]
    <3>1. i + n < j + n
      BY <2>3, <2>4
    <3>2. QED
      BY <2>2, <2>3, <3>1
  <2>5. QED
    BY <2>4
<1>14. \A i \in DOMAIN w : wakeup'[w[i]] = wakeup[w[i]]
  <2> SUFFICES ASSUME NEW i \in DOMAIN w PROVE wakeup'[w[i]] = wakeup[w[i]]
    OBVIOUS
  <2>1. Contains(queue'[SLEEPQ], w[i])
    BY <1>10, <1>12 DEF Contains
  <2>2. QED
    BY <1>1, <1>12, <2>1
<1>15. SleepSorted'
  BY <1>10, <1>13, <1>14 DEF SleepSorted
<1>16. ASSUME NEW p \in Pcbs, On(p, SLEEPQ)' PROVE wakeup[p] > system_time'
  <2>1. PICK i \in DOMAIN w : w[i] = p
    BY <1>10, <1>16 DEF On
  <2>2. 1 \in DOMAIN w /\ w # <<>> /\ Head(w) = w[1]
    BY <1>12, <2>1
  <2>3. wakeup[w[1]] > now /\ wakeup[w[1]] \in Nat /\ wakeup[p] \in Nat
    BY <1>3, <1>5, <1>12, <2>2 DEF NoneDue
  <2>4. CASE i = 1
    BY <1>1, <2>1, <2>3, <2>4
  <2>5. CASE i # 1
    <3>1. 1 < i
      BY <1>12, <2>1, <2>5
    <3>2. wakeup[w[1]] <= wakeup[p]
      BY <1>13, <2>1, <2>2, <3>1
    <3>3. QED
      BY <1>1, <1>4, <2>3, <3>2
  <2>6. QED
    BY <2>4, <2>5
<1>17. QED
  BY <1>9, <1>11, <1>15, <1>16 DEF Ordered

-----------------------------------------------------------------------------
(***************************************************************************)
(* The theorems.                                                           *)
(***************************************************************************)

\* After _init nobody waits.
LEMMA InitOrder ==
  ASSUME Init
  PROVE  OrderInv
<1>1. IInv
  BY InitIInv
<1>2. queue[SLEEPQ] = <<>> /\ queue[READQ] = <<>> /\ queue[BUFBLOCKQ] = <<>>
  BY QueueIdFacts DEF Init
<1>3. SleepSorted /\ NobodyWaitsOnInput
  BY <1>2 DEF SleepSorted, NobodyWaitsOnInput
<1>4. InitNeverWaits
  BY <1>2 DEF InitNeverWaits, WaitQs, On
<1>5. PanicNeedsInitKilled
  BY DEF Init, PanicNeedsInitKilled
<1>6. QED
  BY <1>1, <1>3, <1>4, <1>5 DEF OrderInv, Ordered

\* What a step promises, and whom it may free.
StepPromises ==
  \/ Promises({})
  \/ sys_exit /\ Promises({current})

\* Every step keeps its promises and the order of those who wait.
LEMMA NextOrder ==
  ASSUME OrderInv, [Next]_vars
  PROVE  OrderInv' /\ (StepPromises \/ UNCHANGED vars)
<1>0. IInv'
  BY NextIInv DEF OrderInv
<1>1. CASE sys_fork
  BY <1>0, <1>1, ForkOrder DEF OrderInv, StepPromises
<1>2. CASE sys_exit
  BY <1>0, <1>2, ExitOrder DEF OrderInv, StepPromises
<1>3. CASE sys_read
  BY <1>0, <1>3, ReadOrder DEF OrderInv, StepPromises
<1>4. CASE sys_read_buf
  BY <1>0, <1>4, ReadBufOrder DEF OrderInv, StepPromises
<1>5. CASE \E ms \in SleepArgs : sys_msleep(ms)
  BY <1>0, <1>5, MsleepOrder DEF OrderInv, StepPromises
<1>6. CASE \E victim \in 0 .. MAX_PID : sys_kill(victim)
  BY <1>0, <1>6, KillOrder DEF OrderInv, StepPromises
<1>7. CASE \E arg \in PrioArgs : sys_set_priority(arg)
  <2>1. Running /\ UNCHANGED <<schedVars, pid, wakeup>> /\ incount' = incount
    BY <1>7 DEF sys_set_priority
  <2>2. QED
    BY <1>0, <2>1, NothingMoves DEF OrderInv, StepPromises
<1>8. CASE \E time \in TimeArgs : sys_set_time(time)
  <2>1. Running /\ UNCHANGED <<schedVars, pid, wakeup>> /\ incount' = incount
    BY <1>8 DEF sys_set_time, Unrestricted
  <2>2. QED
    BY <1>0, <2>1, NothingMoves DEF OrderInv, StepPromises
<1>9. CASE isr_clock
  BY <1>0, <1>9, ClockOrder DEF OrderInv, StepPromises
<1>10. CASE isr_sio
  BY <1>0, <1>10, SioOrder DEF OrderInv, StepPromises
<1>11. CASE \E i \in DOMAIN queue[BUFBLOCKQ] : keyboard_isr(i)
  BY <1>0, <1>11, KeyboardOrder DEF OrderInv, StepPromises
<1>12. CASE UNCHANGED vars
  <2>1. Ordered'
    BY <1>12 DEF OrderInv, Ordered, SleepSorted, NobodyWaitsOnInput, InitNeverWaits,
                 PanicNeedsInitKilled, On, vars, schedVars
  <2>2. QED
    BY <1>0, <1>12, <2>1 DEF OrderInv
<1>13. QED
  BY <1>1, <1>2, <1>3, <1>4, <1>5, <1>6, <1>7, <1>8, <1>9, <1>10, <1>11, <1>12
     DEF Next, SystemCall, Halted

\* The invariant of the waiting processes holds in every state the kernel reaches.
THEOREM OrderInvariance == Spec => []OrderInv
<1>1. Init => OrderInv
  BY InitOrder
<1>2. OrderInv /\ [Next]_vars => OrderInv'
  BY NextOrder
<1>3. QED
  BY <1>1, <1>2, PTL DEF Spec

\* The sleep queue is in order of wakeup time, whatever is inserted and removed.
THEOREM SleepQueueInOrder == Spec => []SleepSorted
<1>1. OrderInv => SleepSorted
  BY DEF OrderInv, Ordered
<1>2. QED
  BY <1>1, OrderInvariance, PTL

\* No process waits for the serial line while a character is in the buffer.
THEOREM NoReaderWaitsOnInput == Spec => []NobodyWaitsOnInput
<1>1. OrderInv => NobodyWaitsOnInput
  BY DEF OrderInv, Ordered
<1>2. QED
  BY <1>1, OrderInvariance, PTL

\* _dispatch finds nobody to run only after init has been killed.
THEOREM OnlyWithoutInitPanic == Spec => []PanicNeedsInitKilled
<1>1. OrderInv => PanicNeedsInitKilled
  BY DEF OrderInv, Ordered
<1>2. QED
  BY <1>1, OrderInvariance, PTL

\* A process killed on a ready queue never runs: _dispatch passes over every such PCB,
\* however many there are.
THEOREM KilledWhileReadyNeverRuns == Spec => KilledReadyNeverRuns
<1>1. OrderInv /\ [Next]_vars =>
        [\A p \in Pcbs : IsReady(p) /\ state[p] = KILLED => state'[p] \in {KILLED, FREE}]_vars
  BY NextOrder DEF StepPromises, Promises
<1>2. QED
  BY <1>1, OrderInvariance, PTL DEF Spec, KilledReadyNeverRuns

\* A PCB is freed only by its own exit or when _dispatch finds it KILLED.
THEOREM NobodyFreedAlive == Spec => FreedOnlyWhenDead
<1>1. OrderInv /\ [Next]_vars =>
        [\A p \in Pcbs : state[p] # FREE /\ state'[p] = FREE =>
           \/ sys_exit /\ p = current
           \/ state[p] = KILLED /\ IsReady(p)]_vars
  BY NextOrder DEF StepPromises, Promises
<1>2. QED
  BY <1>1, OrderInvariance, PTL DEF Spec, FreedOnlyWhenDead

\* A tick wakes every sleeper whose time has come, although it stops at the first that
\* is not due.
THEOREM NoSleeperLeftBehind == Spec => TickWakesAllDue
<1>1. OrderInv /\ [Next]_vars =>
        [isr_clock => \A p \in Pcbs : On(p, SLEEPQ)' => wakeup[p] > system_time']_vars
  BY ClockOrder
<1>2. QED
  BY <1>1, OrderInvariance, PTL DEF Spec, TickWakesAllDue

\* Processes that meet on a ready queue are in the order in which they waited.
THEOREM NobodyOvertakes == Spec => FirstComeFirstServed
<1>1. OrderInv /\ [Next]_vars =>
        [\A p, o \in Pcbs : \A q \in QueueIds \ {FREEQ} :
           Before(q, p, o) => \A l \in Levels : ~Before(l, o, p)']_vars
  BY NextOrder DEF StepPromises, Promises
<1>2. QED
  BY <1>1, OrderInvariance, PTL DEF Spec, FirstComeFirstServed
===============================================================================
