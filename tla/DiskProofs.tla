------------------------------ MODULE DiskProofs -------------------------------
(***************************************************************************)
(* Theorems about the disk, for all sizes of it: the transfers of ata.c    *)
(* are the reads and writes of whole sectors that AtomicDisk promises      *)
(* (Ata), and partitions do not write each other's sectors (Partitions).   *)
(***************************************************************************)
EXTENDS Ata, Partitions, TLAPS

-----------------------------------------------------------------------------
(* Transfers of sectors *)

LEMMA DivMod == ASSUME NEW a \in Nat, NEW b \in Nat \ {0}
  PROVE /\ a \div b \in Nat /\ a % b \in 0 .. b - 1 /\ a = b * (a \div b) + (a % b)
OBVIOUS

LEMMA DivDiv == ASSUME NEW a \in Nat, NEW b \in Nat \ {0}, NEW c \in Nat \ {0}
  PROVE (a \div b) \div c = a \div (b * c)
OBVIOUS

LEMMA Power ==
  ASSUME NEW power, power = CHOOSE f : f = [i \in 0 .. 3 |-> IF i = 0 THEN 1 ELSE Base * f[i-1]]
  PROVE  /\ power[0] = 1 /\ power[1] = Base
         /\ power[2] = Base * Base /\ power[3] = Base * (Base * Base)
<1> DEFINE w == [i \in 0 .. 3 |-> IF i = 0 THEN 1 ELSE IF i = 1 THEN Base ELSE
                                  IF i = 2 THEN Base * Base ELSE Base * (Base * Base)]
           Rule(f) == [i \in 0 .. 3 |-> IF i = 0 THEN 1 ELSE Base * f[i-1]]
<1>1. Base \in Nat
  BY AtaAssumption
<1>2. /\ w[0] = 1 /\ w[1] = Base /\ w[2] = Base * Base /\ w[3] = Base * (Base * Base)
  OBVIOUS
<1>3. w = Rule(w)
  <2>1. \A i \in 0 .. 3 : w[i] = Rule(w)[i]
    <3>1. \A i \in 0 .. 3 : i = 0 \/ i = 1 \/ i = 2 \/ i = 3
      OBVIOUS
    <3>2. Rule(w)[0] = 1 /\ Rule(w)[1] = Base * w[0] /\ Rule(w)[2] = Base * w[1] /\ Rule(w)[3] = Base * w[2]
      OBVIOUS
    <3> HIDE DEF w, Rule
    <3>3. QED
      BY <1>1, <1>2, <3>1, <3>2
  <2>2. QED
    BY <2>1
<1>4. power = Rule(power)
  BY <1>3
<1>5. power[0] = 1 /\ power[1] = Base * power[0] /\ power[2] = Base * power[1] /\ power[3] = Base * power[2]
  BY <1>4
<1>6. QED
  BY <1>1, <1>5

LEMMA Bytes ==
  ASSUME NEW lba \in Lba
  PROVE  /\ \A n \in 0 .. 3 : Byte(lba, n) \in 0 .. Base - 1
         /\ Byte(lba, 0) + Base * Byte(lba, 1) + Base*Base * Byte(lba, 2)
              + Base*Base*Base * Byte(lba, 3) = lba
<1>1. Base \in Nat \ {0} /\ lba \in Nat /\ lba < Base * Base * Base * Base
  BY AtaAssumption DEF Lba
<1> DEFINE power == CHOOSE f : f = [i \in 0 .. 3 |-> IF i = 0 THEN 1 ELSE Base * f[i-1]]
           q1 == lba \div Base
           q2 == q1 \div Base
           q3 == q2 \div Base
<1>2. /\ power[0] = 1 /\ power[1] = Base
      /\ power[2] = Base * Base /\ power[3] = Base * (Base * Base)
  <2> HIDE DEF power
  <2>1. power = CHOOSE f : f = [i \in 0 .. 3 |-> IF i = 0 THEN 1 ELSE Base * f[i-1]]
    BY DEF power
  <2>2. QED
    BY <2>1, Power
<1>3. \A n \in 0 .. 3 : Byte(lba, n) = (lba \div power[n]) % Base
  BY DEF Byte
<1> HIDE DEF power
<1>4. q1 \in Nat /\ lba % Base \in 0 .. Base - 1 /\ lba = Base * q1 + (lba % Base)
  BY <1>1, DivMod
<1>5. q2 \in Nat /\ q1 % Base \in 0 .. Base - 1 /\ q1 = Base * q2 + (q1 % Base)
  <2> HIDE DEF q1
  <2> QED BY <1>1, <1>4, DivMod
<1>6. q3 \in Nat /\ q2 % Base \in 0 .. Base - 1 /\ q2 = Base * q3 + (q2 % Base)
  <2> HIDE DEF q2
  <2> QED BY <1>1, <1>5, DivMod
<1>7. Base * Base \in Nat \ {0}
  BY <1>1
<1>8. lba \div (Base * Base) = q2
  BY <1>1, DivDiv
<1>9. lba \div (Base * (Base * Base)) = q3
  <2>1. q1 \div (Base * Base) = q3
    <3> HIDE DEF q1
    <3> QED BY <1>1, <1>4, DivDiv
  <2>2. QED
    BY <1>1, <1>7, <2>1, DivDiv
<1>10. lba \div 1 = lba
  BY <1>1
<1>11. /\ Byte(lba, 0) = lba % Base /\ Byte(lba, 1) = q1 % Base
       /\ Byte(lba, 2) = q2 % Base /\ Byte(lba, 3) = q3 % Base
  BY <1>2, <1>3, <1>8, <1>9, <1>10
<1> HIDE DEF q1, q2, q3
<1>12. q3 < Base
  <2>1. SUFFICES ASSUME q3 >= Base PROVE FALSE
    BY <1>1, <1>6
  <2>2. q2 >= Base * Base
    BY <1>1, <1>6, <2>1
  <2>3. q1 >= Base * (Base * Base)
    BY <1>1, <1>5, <2>2
  <2>4. lba >= Base * (Base * (Base * Base))
    BY <1>1, <1>4, <2>3
  <2>5. Base * (Base * (Base * Base)) = Base * Base * Base * Base
    BY <1>1
  <2>6. QED
    BY <1>1, <2>4, <2>5
<1>13. q3 % Base = q3
  BY <1>1, <1>6, <1>12
<1>14. \A n \in 0 .. 3 : n = 0 \/ n = 1 \/ n = 2 \/ n = 3
  OBVIOUS
<1>15. q3 \in 0 .. Base - 1
  BY <1>1, <1>6, <1>12
<1>16. \A n \in 0 .. 3 : Byte(lba, n) \in 0 .. Base - 1
  BY <1>4, <1>5, <1>6, <1>11, <1>13, <1>14, <1>15
<1>17. (lba % Base) + Base * (q1 % Base) + Base*Base * (q2 % Base) + Base*Base*Base * q3 = lba
  <2> DEFINE b0 == lba % Base
             b1 == q1 % Base
             b2 == q2 % Base
  <2>1. b0 \in Nat /\ b1 \in Nat /\ b2 \in Nat
    BY <1>1, <1>4, <1>5, <1>6
  <2>2. lba = Base * q1 + b0 /\ q1 = Base * q2 + b1 /\ q2 = Base * q3 + b2
    BY <1>4, <1>5, <1>6
  <2> HIDE DEF b0, b1, b2
  <2>3. q1 = Base * (Base * q3 + b2) + b1
    BY <2>2
  <2>4. lba = Base * (Base * (Base * q3 + b2) + b1) + b0
    BY <2>2, <2>3
  <2>5. Base * (Base * (Base * q3 + b2) + b1) + b0 = b0 + Base * b1 + Base*Base * b2 + Base*Base*Base * q3
    BY <1>1, <1>6, <2>1
  <2>6. QED
    BY <2>4, <2>5 DEF b0, b1, b2
<1>18. QED
  BY <1>11, <1>13, <1>16, <1>17

-----------------------------------------------------------------------------
\* ata.c has no lock: one process transfers sectors, and the others wait.
OneProcess == \A p, q \in Process : p = q

Registers == [Port -> [now : Int, before : Int]]
Doing     == [busy : BOOLEAN, err : BOOLEAN, drq : BOOLEAN,
              op : {"none", "read", "write", "flush"}, lba : Int]
Drives    == [Device -> Doing]
Media     == [Device -> [Lba -> SectorData]]
Places    == {"idle", "setup", "look", "wait", "written", "flushed"}
Drivers   == [Process -> [at : Places, op : {"none", "read", "write"}, dev : {0, 1}, lba : Int,
                          buf : SectorData \cup {Junk}, todo : Seq(Port \X Int)]]

\* The first n writes of Setup were made, and the others are left.
Loaded(g, dev, lba, n) ==
  /\ n >= 1 => g["sel"].now = dev
  /\ n \in 2 .. 5 => g["lba0"].now = Byte(lba, 3)
  /\ n >= 6 => g["lba0"].now = Byte(lba, 0) /\ g["lba0"].before = Byte(lba, 3)
  /\ n >= 7 => g["lba1"].now = Byte(lba, 1)
  /\ n >= 8 => g["lba2"].now = Byte(lba, 2)

Left(todo, dev, lba, n) ==
  Len(todo) = 9 - n /\ \A i \in 1 .. 9 - n : todo[i] = Setup(dev, lba)[n + i]

\* A drive is busy with what it was told, or has come to the end of it.
Working(r, d, f) ==
  \/ d.busy /\ d.op = r.op /\ d.lba = r.lba
  \/ ~d.busy /\ d.drq /\ d.lba = r.lba
  \/ ~d.busy /\ ~d.drq /\ f

\* Where the registers and the drives are when a transfer is at its place
InPlace(r, g, dr, f) ==
  /\ r.at # "idle" => r.op # "none" /\ r.dev \in Device /\ r.lba \in Lba
  /\ r.op = "write" => r.buf \in SectorData
  /\ r.at = "setup" => \E n \in 0 .. 9 : Loaded(g, r.dev, r.lba, n) /\ Left(r.todo, r.dev, r.lba, n)
  /\ r.at \in {"look", "wait", "written", "flushed"} => g["sel"].now = r.dev
  /\ r.at \in {"look", "wait"} => Working(r, dr[r.dev], f)
  /\ r.at \in {"written", "flushed"} => r.op = "write"

AtaInv ==
  /\ regs \in Registers /\ drive \in Drives /\ medium \in Media /\ failed \in BOOLEAN
  /\ driver \in Drivers
  /\ \A d \in Device : drive[d].err => failed
  /\ \A p \in Process : InPlace(driver[p], regs, drive, failed)

\* What a process that is at r has called for
Seen(r) == IF r.at = "idle" THEN [op |-> "none"]
           ELSE [op  |-> IF r.at \in {"written", "flushed"} THEN "written" ELSE r.op,
                 dev |-> r.dev, lba |-> r.lba, buf |-> r.buf]

\* Setup loads the address.
LEMMA AddressLoaded ==
  ASSUME NEW lba \in Lba, NEW dev, Loaded(regs, dev, lba, 9)
  PROVE  Selected = dev /\ Address = lba
<1>1. /\ regs["sel"].now = dev
      /\ regs["lba0"].now = Byte(lba, 0) /\ regs["lba0"].before = Byte(lba, 3)
      /\ regs["lba1"].now = Byte(lba, 1) /\ regs["lba2"].now = Byte(lba, 2)
  BY DEF Loaded
<1>2. QED
  BY <1>1, Bytes DEF Selected, Address

LEMMA SetupWrites ==
  ASSUME NEW dev \in {0, 1}, NEW lba \in Lba
  PROVE  /\ Len(Setup(dev, lba)) = 9 /\ Setup(dev, lba) \in Seq(Port \X Int)
         /\ \A n \in 0 .. 8 : LET w == Setup(dev, lba)[n + 1] IN
              /\ w \in Port \X Int
              /\ \A g \in Registers :
                   Loaded(g, dev, lba, n) =>
                   Loaded([g EXCEPT ![w[1]] = [now |-> w[2], before |-> g[w[1]].now]], dev, lba, n + 1)
<1> DEFINE b0 == Byte(lba, 0)
           b1 == Byte(lba, 1)
           b2 == Byte(lba, 2)
           b3 == Byte(lba, 3)
<1>1. b0 \in Int /\ b1 \in Int /\ b2 \in Int /\ b3 \in Int
  <2>1. Base \in Nat
    BY AtaAssumption
  <2>2. QED
    BY <2>1, Bytes
<1>2. Setup(dev, lba) =
        << <<"sel", dev>>, <<"lba0", b3>>, <<"lba1", 0>>, <<"lba2", 0>>, <<"count", 0>>,
           <<"lba0", b0>>, <<"lba1", b1>>, <<"lba2", b2>>, <<"count", 1>> >>
  BY DEF Setup
<1> DEFINE W(n) == Setup(dev, lba)[n + 1]
<1>3. /\ W(0) = <<"sel", dev>> /\ W(1) = <<"lba0", b3>> /\ W(2) = <<"lba1", 0>>
      /\ W(3) = <<"lba2", 0>> /\ W(4) = <<"count", 0>> /\ W(5) = <<"lba0", b0>>
      /\ W(6) = <<"lba1", b1>> /\ W(7) = <<"lba2", b2>> /\ W(8) = <<"count", 1>>
  BY <1>2
<1>4. Len(Setup(dev, lba)) = 9
  BY <1>2
<1>5. \A n \in 0 .. 8 : n \in {0, 1, 2, 3, 4, 5, 6, 7, 8}
  OBVIOUS
<1>6. \A x \in Int : /\ <<"sel", x>> \in Port \X Int /\ <<"count", x>> \in Port \X Int
                     /\ <<"lba0", x>> \in Port \X Int /\ <<"lba1", x>> \in Port \X Int
                     /\ <<"lba2", x>> \in Port \X Int
  BY DEF Port
<1> DEFINE P == Port \X Int
<1>7. /\ <<"sel", dev>> \in P /\ <<"lba0", b3>> \in P /\ <<"lba1", 0>> \in P /\ <<"lba2", 0>> \in P
       /\ <<"count", 0>> \in P /\ <<"lba0", b0>> \in P /\ <<"lba1", b1>> \in P
       /\ <<"lba2", b2>> \in P /\ <<"count", 1>> \in P
  <2>1. dev \in Int
    OBVIOUS
  <2>2. \A x \in Int : /\ <<"sel", x>> \in P /\ <<"count", x>> \in P
                       /\ <<"lba0", x>> \in P /\ <<"lba1", x>> \in P /\ <<"lba2", x>> \in P
    BY <1>6
  <2> HIDE DEF b0, b1, b2, b3, P
  <2>3. <<"sel", dev>> \in P /\ <<"lba0", b3>> \in P /\ <<"lba0", b0>> \in P
    BY <1>1, <2>1, <2>2
  <2>4. <<"lba1", b1>> \in P /\ <<"lba2", b2>> \in P
    BY <1>1, <2>2
  <2>5. 0 \in Int /\ 1 \in Int
    OBVIOUS
  <2>6. <<"lba1", 0>> \in P /\ <<"lba2", 0>> \in P /\ <<"count", 0>> \in P /\ <<"count", 1>> \in P
    BY <2>2, <2>5
  <2>7. QED
    BY <2>3, <2>4, <2>6
<1>8. \A n \in 0 .. 8 : W(n) \in Port \X Int
  <2>1. /\ W(0) \in P /\ W(1) \in P /\ W(2) \in P /\ W(3) \in P /\ W(4) \in P
        /\ W(5) \in P /\ W(6) \in P /\ W(7) \in P /\ W(8) \in P
    <3> HIDE DEF P, W
    <3> QED BY <1>3, <1>7
  <2> HIDE DEF P, W
  <2>2. \A n \in 0 .. 8 : W(n) \in P
    BY <1>5, <2>1
  <2>3. QED
    BY <2>2 DEF P
<1>9. Setup(dev, lba) \in Seq(Port \X Int)
  <2>1. Setup(dev, lba) = [i \in 1 .. 9 |-> Setup(dev, lba)[i]]
    BY <1>2
  <2>2. \A i \in 1 .. 9 : Setup(dev, lba)[i] \in P
    <3>1. SUFFICES ASSUME NEW i \in 1 .. 9 PROVE Setup(dev, lba)[i] \in P
      OBVIOUS
    <3>2. i - 1 \in 0 .. 8 /\ (i - 1) + 1 = i
      OBVIOUS
    <3> HIDE DEF P
    <3>3. Setup(dev, lba)[(i - 1) + 1] \in P
      BY <1>8, <3>2 DEF P
    <3>4. QED
      BY <3>2, <3>3
  <2> DEFINE all == Setup(dev, lba)
  <2> HIDE DEF all, P
  <2>3. all \in Seq(P)
    BY <2>1, <2>2 DEF all
  <2>4. QED
    BY <2>3 DEF all, P
<1>10. ASSUME NEW n \in 0 .. 8, NEW g \in Registers, Loaded(g, dev, lba, n)
      PROVE  Loaded([g EXCEPT ![W(n)[1]] = [now |-> W(n)[2], before |-> g[W(n)[1]].now]],
                    dev, lba, n + 1)
  <2> DEFINE u == W(n)[1]
             v == [now |-> W(n)[2], before |-> g[W(n)[1]].now]
             h == [g EXCEPT ![u] = v]
  <2>1. u \in Port /\ v.now = W(n)[2] /\ v.before = g[u].now
    BY <1>8
  <2>2. W(n)[1] = u
    OBVIOUS
  <2> HIDE DEF v, u
  <2>3. h[u] = v /\ \A x \in Port : x # u => h[x] = g[x]
    BY <2>1 DEF Registers
  <2> HIDE DEF h
  <2>4. Loaded(h, dev, lba, n + 1)
    <3> HIDE DEF W
    <3>1. /\ "sel" \in Port /\ "lba0" \in Port /\ "lba1" \in Port /\ "lba2" \in Port
      BY DEF Port
    <3> USE DEF Loaded
    <3>2. CASE n = 0
      <4>1. u = "sel" /\ v.now = dev
        BY <1>3, <2>1, <2>2, <3>2
      <4>2. QED
        BY <2>3, <3>1, <3>2, <4>1
    <3>3. CASE n = 1
      <4>1. u = "lba0" /\ v.now = b3
        BY <1>3, <2>1, <2>2, <3>3
      <4>2. QED
        BY <1>10, <2>3, <3>1, <3>3, <4>1
    <3>4. CASE n = 2
      <4>1. u = "lba1"
        BY <1>3, <2>2, <3>4
      <4>2. QED
        BY <1>10, <2>3, <3>1, <3>4, <4>1
    <3>5. CASE n = 3
      <4>1. u = "lba2"
        BY <1>3, <2>2, <3>5
      <4>2. QED
        BY <1>10, <2>3, <3>1, <3>5, <4>1
    <3>6. CASE n = 4
      <4>1. u = "count"
        BY <1>3, <2>2, <3>6
      <4>2. QED
        BY <1>10, <2>3, <3>1, <3>6, <4>1
    <3>7. CASE n = 5
      <4>1. u = "lba0" /\ v.now = b0 /\ v.before = g[u].now
        BY <1>3, <2>1, <2>2, <3>7
      <4>2. QED
        BY <1>10, <2>3, <3>1, <3>7, <4>1
    <3>8. CASE n = 6
      <4>1. u = "lba1" /\ v.now = b1
        BY <1>3, <2>1, <2>2, <3>8
      <4>2. QED
        BY <1>10, <2>3, <3>1, <3>8, <4>1
    <3>9. CASE n = 7
      <4>1. u = "lba2" /\ v.now = b2
        BY <1>3, <2>1, <2>2, <3>9
      <4>2. QED
        BY <1>10, <2>3, <3>1, <3>9, <4>1
    <3>10. CASE n = 8
      <4>1. u = "count"
        BY <1>3, <2>2, <3>10
      <4>2. QED
        BY <1>10, <2>3, <3>1, <3>10, <4>1
    <3>11. QED
      BY <1>5, <3>2, <3>3, <3>4, <3>5, <3>6, <3>7, <3>8, <3>9, <3>10
  <2>5. QED
    BY <2>4 DEF h, u, v
<1>11. QED
  <2> HIDE DEF b0, b1, b2, b3
  <2> QED BY <1>4, <1>8, <1>9, <1>10

-----------------------------------------------------------------------------
Driving == [at : Places, op : {"none", "read", "write"}, dev : {0, 1}, lba : Int,
            buf : SectorData \cup {Junk}, todo : Seq(Port \X Int)]

\* There is one transfer: what holds of it holds of all of them.
LEMMA Alone ==
  ASSUME OneProcess, NEW p \in Process, driver \in Drivers,
         NEW x \in Driving, driver' = [driver EXCEPT ![p] = x],
         InPlace(x, regs', drive', failed')
  PROVE  /\ driver' \in Drivers
         /\ \A q \in Process : InPlace(driver'[q], regs', drive', failed')
<1>1. \A q \in Process : q = p
  BY DEF OneProcess
<1>2. driver' \in [Process -> Driving] /\ driver'[p] = x
  BY DEF Drivers, Driving
<1>3. driver' \in Drivers
  BY <1>2 DEF Drivers, Driving
<1>4. QED
  BY <1>1, <1>2, <1>3

LEMMA CalledIsSeen == ASSUME NEW p \in Process PROVE Called(p) = Seen(driver[p])
BY DEF Called, Seen, At

LEMMA CallBecomes ==
  ASSUME OneProcess, NEW p \in Process, NEW c, Seen(driver'[p]) = c
  PROVE  Sectors!Becomes(p, c)
<1> DEFINE call == [q \in Process |-> Called(q)]
<1>1. Called(p)' = c
  BY CalledIsSeen DEF Called, Seen, At
<1>2. \A q \in Process : q = p
  BY DEF OneProcess
<1>3. call' = [q \in Process |-> c]
  BY <1>1, <1>2
<1>4. [call EXCEPT ![p] = c] = [q \in Process |-> c]
  BY <1>2
<1>5. QED
  BY <1>3, <1>4 DEF Sectors!Becomes

LEMMA CallStays ==
  ASSUME OneProcess, NEW p \in Process, Seen(driver'[p]) = Seen(driver[p]),
         UNCHANGED <<medium, answer, failed>>
  PROVE  UNCHANGED Sectors!vars
<1>1. \A q \in Process : q = p
  BY DEF OneProcess
<1>2. Called(p)' = Called(p)
  BY CalledIsSeen DEF Called, Seen, At
<1>3. [q \in Process |-> Called(q)]' = [q \in Process |-> Called(q)]
  BY <1>1, <1>2
<1>4. QED
  BY <1>3 DEF Sectors!vars

Refines == AtaInv' /\ [Sectors!Next]_(Sectors!vars)

LEMMA CallRefines ==
  ASSUME OneProcess, AtaInv, NEW p \in Process, Call(p) PROVE Refines
<1>1. PICK op \in {"read", "write"}, d \in Device, l \in Asked, v \in SectorData :
        driver' = [driver EXCEPT ![p] = [at |-> "setup", op |-> op, dev |-> d, lba |-> l,
                     buf |-> IF op = "write" THEN v ELSE Junk, todo |-> Setup(d, l)]]
  BY DEF Call
<1> DEFINE b == IF op = "write" THEN v ELSE Junk
           x == [at |-> "setup", op |-> op, dev |-> d, lba |-> l, buf |-> b, todo |-> Setup(d, l)]
<1>2. l \in Lba /\ d \in {0, 1} /\ b \in SectorData \cup {Junk} /\ (op = "write" => b \in SectorData)
  BY AtaAssumption, AskedAssumption
<1>3. l \in Int
  BY <1>2 DEF Lba
<1> HIDE DEF b
<1>4. Len(Setup(d, l)) = 9 /\ Setup(d, l) \in Seq(Port \X Int)
  BY <1>2, SetupWrites
<1>5. x \in Driving
  BY <1>2, <1>3, <1>4 DEF Driving, Places
<1>6. Loaded(regs, d, l, 0)
  BY DEF Loaded
<1>7. Left(Setup(d, l), d, l, 0)
  BY <1>4 DEF Left
<1>8. driver' = [driver EXCEPT ![p] = x]
  BY <1>1 DEF b
<1>9. /\ x.at = "setup" /\ x.op = op /\ x.dev = d /\ x.lba = l /\ x.buf = b /\ x.todo = Setup(d, l)
  OBVIOUS
<1> HIDE DEF x
<1>10. InPlace(x, regs, drive, failed)
  BY <1>2, <1>6, <1>7, <1>9 DEF InPlace
<1>11. UNCHANGED <<regs, drive, medium, answer, failed>>
  BY DEF Call
<1>12. AtaInv'
  BY <1>5, <1>8, <1>10, <1>11, Alone DEF AtaInv
<1>13. driver'[p] = x /\ driver[p].at = "idle"
  BY <1>8 DEF AtaInv, Drivers, Call, At
<1> DEFINE c == [op |-> op, dev |-> d, lba |-> l, buf |-> b]
<1>14. Seen(driver'[p]) = c
  BY <1>9, <1>13 DEF Seen
<1>15. Sectors!Becomes(p, c)
  BY <1>14, CallBecomes
<1>16. c \in Sectors!Calls
  BY <1>2 DEF Sectors!Calls
<1> HIDE DEF c
<1>17. Called(p)' = c /\ Called(p) = [op |-> "none"]
  BY <1>13, <1>14, CalledIsSeen DEF Called, Seen, At
<1>18. Sectors!Call(p)
  BY <1>11, <1>15, <1>16, <1>17 DEF Sectors!Call, Sectors!NoCall
<1>19. QED
  BY <1>12, <1>18 DEF Refines, Sectors!Next

LEMMA OutRefines ==
  ASSUME OneProcess, AtaInv, NEW p \in Process, Out(p) PROVE Refines
<1> DEFINE r == driver[p]
           w == Head(r.todo)
           x == [r EXCEPT !.todo = Tail(r.todo)]
           g == [regs EXCEPT ![w[1]] = [now |-> w[2], before |-> regs[w[1]].now]]
<1>1. /\ r.at = "setup" /\ r.todo # <<>> /\ regs' = g /\ driver' = [driver EXCEPT ![p] = x]
      /\ UNCHANGED <<drive, medium, answer, failed>>
  BY DEF Out, At
<1>2. r \in Driving /\ InPlace(r, regs, drive, failed) /\ regs \in Registers
  BY DEF AtaInv, Drivers, Driving
<1> HIDE DEF r
<1>3. r.dev \in {0, 1} /\ r.lba \in Lba /\ r.todo \in Seq(Port \X Int)
  BY <1>1, <1>2 DEF InPlace, Driving
<1>4. PICK n \in 0 .. 9 : Loaded(regs, r.dev, r.lba, n) /\ Left(r.todo, r.dev, r.lba, n)
  BY <1>1, <1>2 DEF InPlace
<1>5. n \in 0 .. 8 /\ w = r.todo[1] /\ Len(Tail(r.todo)) = Len(r.todo) - 1
      /\ Tail(r.todo) \in Seq(Port \X Int)
      /\ \A i \in 1 .. Len(r.todo) - 1 : Tail(r.todo)[i] = r.todo[i + 1]
  <2>1. Len(r.todo) = 9 - n
    BY <1>4 DEF Left
  <2> DEFINE t == r.todo
             P == Port \X Int
  <2>2. t \in Seq(P) /\ t # <<>>
    BY <1>1, <1>3
  <2> HIDE DEF t, P
  <2>3. Len(t) > 0 /\ Head(t) = t[1] /\ Tail(t) \in Seq(P) /\ Len(Tail(t)) = Len(t) - 1
        /\ \A i \in 1 .. Len(t) - 1 : Tail(t)[i] = t[i + 1]
    BY <2>2
  <2>4. QED
    BY <2>1, <2>3 DEF t, P
<1>6. w = Setup(r.dev, r.lba)[n + 1]
  BY <1>4, <1>5 DEF Left
<1>7. w \in Port \X Int /\ Loaded(g, r.dev, r.lba, n + 1)
  <2>1. /\ w \in Port \X Int
        /\ \A h \in Registers :
             Loaded(h, r.dev, r.lba, n) =>
             Loaded([h EXCEPT ![w[1]] = [now |-> w[2], before |-> h[w[1]].now]], r.dev, r.lba, n + 1)
    BY <1>3, <1>5, <1>6, SetupWrites
  <2> HIDE DEF w
  <2>2. QED
    BY <1>2, <1>4, <2>1
<1>8. g \in Registers
  <2>1. w[1] \in Port /\ w[2] \in Int
    BY <1>7
  <2> HIDE DEF w
  <2>2. regs[w[1]].now \in Int
    BY <1>2, <2>1 DEF Registers
  <2> DEFINE v == [now |-> w[2], before |-> regs[w[1]].now]
  <2>3. v \in [now : Int, before : Int]
    BY <2>1, <2>2
  <2> HIDE DEF v
  <2>4. g = [regs EXCEPT ![w[1]] = v]
    BY DEF v
  <2>5. QED
    BY <1>2, <2>1, <2>3, <2>4 DEF Registers
<1> HIDE DEF g, w
<1>9. Left(Tail(r.todo), r.dev, r.lba, n + 1)
  <2>1. Len(r.todo) = 9 - n /\ \A i \in 1 .. 9 - n : r.todo[i] = Setup(r.dev, r.lba)[n + i]
    BY <1>4 DEF Left
  <2>2. \A i \in 1 .. 9 - (n + 1) : /\ i + 1 \in 1 .. 9 - n /\ i \in 1 .. Len(r.todo) - 1
                                    /\ n + (i + 1) = (n + 1) + i
    BY <2>1
  <2>3. Len(Tail(r.todo)) = 9 - (n + 1)
    BY <1>5, <2>1
  <2>4. \A i \in 1 .. 9 - (n + 1) : Tail(r.todo)[i] = Setup(r.dev, r.lba)[(n + 1) + i]
    BY <1>5, <2>1, <2>2
  <2>5. QED
    BY <2>3, <2>4 DEF Left
<1>10. x \in Driving /\ x.todo = Tail(r.todo) /\ x.at = r.at /\ x.op = r.op /\ x.dev = r.dev
       /\ x.lba = r.lba /\ x.buf = r.buf
  BY <1>2, <1>5 DEF Driving
<1> HIDE DEF x
<1>11. n + 1 \in 0 .. 9
  BY <1>5
<1>12. InPlace(x, g, drive, failed)
  BY <1>1, <1>2, <1>7, <1>9, <1>10, <1>11 DEF InPlace
<1>13. AtaInv'
  BY <1>1, <1>8, <1>10, <1>12, Alone DEF AtaInv
<1>14. driver'[p] = x
  BY <1>1 DEF AtaInv, Drivers
<1>15. Seen(driver'[p]) = Seen(driver[p])
  BY <1>10, <1>14 DEF Seen, r
<1>16. QED
  BY <1>1, <1>13, <1>15, CallStays DEF Refines

LEMMA CommandTold ==
  ASSUME AtaInv, NEW op \in {"read", "write", "flush"}, Selected \in Device, Command(op)
  PROVE  /\ drive' \in Drives
         /\ \A d \in Device : drive'[d].err => drive[d].err
         /\ drive'[Selected].busy /\ drive'[Selected].op = op /\ drive'[Selected].lba = Address
<1> DEFINE c == [NoCommand EXCEPT !.busy = TRUE, !.op = op, !.lba = Address]
<1>1. drive' = [drive EXCEPT ![Selected] = c]
  BY DEF Command
<1>2. Address \in Int
  <2>1. \A x \in Port : regs[x].now \in Int /\ regs[x].before \in Int
    BY DEF AtaInv, Registers
  <2>2. Base \in Int
    BY AtaAssumption
  <2>3. QED
    BY <2>1, <2>2 DEF Address, Port
<1>3. NoCommand \in Doing /\ ~NoCommand.err
  <2>1. NoCommand \in Doing
    BY DEF NoCommand, Doing
  <2>2. NoCommand.err = FALSE
    BY DEF NoCommand
  <2>3. QED
    BY <2>1, <2>2
<1>4. c \in Doing
  <2> HIDE DEF NoCommand
  <2> QED BY <1>2, <1>3 DEF Doing
<1>5. c.busy /\ ~c.err /\ c.op = op /\ c.lba = Address
  <2> HIDE DEF NoCommand
  <2> QED BY <1>3 DEF Doing
<1> HIDE DEF c
<1>6. drive \in Drives
  BY DEF AtaInv
<1>7. drive' \in Drives
  BY <1>1, <1>4, <1>6 DEF Drives
<1>8. drive'[Selected] = c
  BY <1>1, <1>6 DEF Drives
<1>9. ASSUME NEW d \in Device, drive'[d].err PROVE drive[d].err
  <2>1. CASE d = Selected
    BY <1>5, <1>8, <1>9, <2>1
  <2>2. CASE d # Selected
    BY <1>1, <1>6, <1>9, <2>2 DEF Drives
  <2>3. QED
    BY <2>1, <2>2
<1>10. QED
  BY <1>5, <1>7, <1>8, <1>9

LEMMA MovedTo ==
  ASSUME NEW p \in Process, driver \in Drivers, NEW a \in Places, To(p, a)
  PROVE  \E x \in Driving :
           /\ driver' = [driver EXCEPT ![p] = x] /\ driver'[p] = x
           /\ x.at = a /\ x.op = driver[p].op /\ x.dev = driver[p].dev
           /\ x.lba = driver[p].lba /\ x.buf = driver[p].buf
<1> DEFINE r == driver[p]
           x == [r EXCEPT !.at = a]
<1>1. r \in Driving
  BY DEF Drivers, Driving
<1>2. driver' = [driver EXCEPT ![p] = x]
  BY DEF To
<1> HIDE DEF r
<1>3. x \in Driving /\ x.at = a /\ x.op = r.op /\ x.dev = r.dev /\ x.lba = r.lba /\ x.buf = r.buf
  BY <1>1 DEF Driving
<1> HIDE DEF x
<1>4. driver'[p] = x
  BY <1>2 DEF Drivers
<1>5. QED
  BY <1>2, <1>3, <1>4 DEF r

LEMMA GiveCommandRefines ==
  ASSUME OneProcess, AtaInv, NEW p \in Process, GiveCommand(p) PROVE Refines
<1> DEFINE r == driver[p]
<1>1. /\ r.at = "setup" /\ r.todo = <<>> /\ Command(r.op) /\ To(p, "look")
      /\ UNCHANGED <<regs, medium, answer, failed>>
  BY DEF GiveCommand, At
<1>2. /\ r \in Driving /\ InPlace(r, regs, drive, failed) /\ regs \in Registers
      /\ driver \in Drivers
  BY DEF AtaInv, Drivers, Driving
<1>3. PICK x \in Driving :
           /\ driver' = [driver EXCEPT ![p] = x] /\ driver'[p] = x
           /\ x.at = "look" /\ x.op = r.op /\ x.dev = r.dev /\ x.lba = r.lba /\ x.buf = r.buf
  BY <1>1, <1>2, MovedTo DEF Places
<1> HIDE DEF r
<1>4. r.dev \in Device /\ r.lba \in Lba /\ r.op \in {"read", "write"}
      /\ (r.op = "write" => r.buf \in SectorData)
  BY <1>1, <1>2 DEF InPlace, Driving
<1>5. PICK n \in 0 .. 9 : Loaded(regs, r.dev, r.lba, n) /\ Left(r.todo, r.dev, r.lba, n)
  BY <1>1, <1>2 DEF InPlace
<1>6. n = 9
  BY <1>1, <1>5 DEF Left
<1>7. Selected = r.dev /\ Address = r.lba
  BY <1>4, <1>5, <1>6, AddressLoaded
<1>8. /\ drive' \in Drives
      /\ \A d \in Device : drive'[d].err => drive[d].err
      /\ drive'[r.dev].busy /\ drive'[r.dev].op = r.op /\ drive'[r.dev].lba = r.lba
  BY <1>1, <1>4, <1>7, CommandTold
<1>9. Working(x, drive'[r.dev], failed)
  BY <1>3, <1>8 DEF Working
<1>10. regs["sel"].now = r.dev
  BY <1>7 DEF Selected
<1>11. InPlace(x, regs, drive', failed)
  BY <1>3, <1>4, <1>9, <1>10 DEF InPlace
<1>12. AtaInv'
  BY <1>1, <1>2, <1>3, <1>8, <1>11, Alone DEF AtaInv
<1>13. Seen(driver'[p]) = Seen(driver[p])
  BY <1>1, <1>3 DEF Seen, r
<1>14. QED
  BY <1>1, <1>12, <1>13, CallStays DEF Refines

LEMMA IdleIsDriving == Idle \in Driving /\ Idle.at = "idle" /\ Idle.op = "none"
<1>1. <<>> \in Seq(Port \X Int)
  OBVIOUS
<1>2. QED
  BY <1>1 DEF Idle, Driving, Places

\* A call comes back, without a change of the registers.
LEMMA ComesBack ==
  ASSUME OneProcess, AtaInv, NEW p \in Process, driver' = [driver EXCEPT ![p] = Idle],
         UNCHANGED regs, drive' \in Drives, medium' \in Media, failed' \in BOOLEAN,
         \A d \in Device : drive'[d].err => failed'
  PROVE  AtaInv' /\ driver'[p] = Idle /\ Sectors!Becomes(p, [op |-> "none"])
<1>1. InPlace(Idle, regs', drive', failed')
  BY IdleIsDriving DEF InPlace
<1>2. driver \in Drivers /\ regs \in Registers
  BY DEF AtaInv
<1>3. AtaInv'
  BY <1>1, <1>2, IdleIsDriving, Alone DEF AtaInv
<1>4. driver'[p] = Idle
  BY <1>2 DEF Drivers
<1>5. Seen(driver'[p]) = [op |-> "none"]
  BY <1>4, IdleIsDriving DEF Seen
<1>6. QED
  BY <1>3, <1>4, <1>5, CallBecomes

\* What a transfer that is not at rest has called for
LEMMA CalledFor ==
  ASSUME AtaInv, NEW p \in Process, driver[p].at # "idle"
  PROVE  LET r == driver[p]
             c == [q \in Process |-> Called(q)][p]
         IN /\ c.op = IF r.at \in {"written", "flushed"} THEN "written" ELSE r.op
            /\ c.dev = r.dev /\ c.lba = r.lba /\ c.buf = r.buf
            /\ [c EXCEPT !.op = "written"] =
                 [op |-> "written", dev |-> r.dev, lba |-> r.lba, buf |-> r.buf]
BY DEF Called, At

LEMMA LookRefines ==
  ASSUME OneProcess, AtaInv, NEW p \in Process, Look(p) PROVE Refines
<1> DEFINE r == driver[p]
<1>1. /\ r.at = "look" /\ UNCHANGED <<regs, drive, medium, answer, failed>>
      /\ IF Status.err THEN driver' = [driver EXCEPT ![p] = Idle] ELSE To(p, "wait")
  BY DEF Look, At
<1>2. /\ r \in Driving /\ InPlace(r, regs, drive, failed)
      /\ regs \in Registers /\ drive \in Drives /\ medium \in Media /\ failed \in BOOLEAN
      /\ driver \in Drivers /\ \A d \in Device : drive[d].err => failed
  BY DEF AtaInv, Drivers, Driving
<1>3. /\ r.op \in {"read", "write"} /\ r.dev \in Device /\ Selected = r.dev
  BY <1>1, <1>2 DEF InPlace, Driving, Selected
<1>4. CASE Status.err
  <2>1. failed
    BY <1>2, <1>3, <1>4 DEF Status
  <2>2. AtaInv' /\ Sectors!Becomes(p, [op |-> "none"])
    BY <1>1, <1>2, <1>4, ComesBack
  <2>3. [q \in Process |-> Called(q)][p].op \in {"read", "write"}
    BY <1>1, <1>3, CalledFor
  <2>4. Sectors!Lose(p)
    BY <1>1, <2>1, <2>2, <2>3 DEF Sectors!Lose, Sectors!NoCall
  <2>5. QED
    BY <2>2, <2>4 DEF Refines, Sectors!Next
<1>5. CASE ~Status.err
  <2>1. PICK x \in Driving :
           /\ driver' = [driver EXCEPT ![p] = x] /\ driver'[p] = x
           /\ x.at = "wait" /\ x.op = r.op /\ x.dev = r.dev /\ x.lba = r.lba /\ x.buf = r.buf
    BY <1>1, <1>2, <1>5, MovedTo DEF Places
  <2> HIDE DEF r
  <2>2. InPlace(x, regs, drive, failed)
    BY <1>1, <1>2, <2>1 DEF InPlace, Working
  <2>3. AtaInv'
    BY <1>1, <1>2, <2>1, <2>2, Alone DEF AtaInv
  <2>4. Seen(driver'[p]) = Seen(driver[p])
    BY <1>1, <2>1 DEF Seen, r
  <2>5. QED
    BY <1>1, <2>3, <2>4, CallStays DEF Refines
<1>6. QED
  BY <1>4, <1>5

LEMMA FlushRefines ==
  ASSUME OneProcess, AtaInv, NEW p \in Process, Flush(p) PROVE Refines
<1> DEFINE r == driver[p]
<1>1. /\ r.at = "written" /\ Command("flush") /\ To(p, "flushed")
      /\ UNCHANGED <<regs, medium, answer, failed>>
  BY DEF Flush, At
<1>2. /\ r \in Driving /\ InPlace(r, regs, drive, failed) /\ regs \in Registers
      /\ driver \in Drivers
  BY DEF AtaInv, Drivers, Driving
<1>3. PICK x \in Driving :
           /\ driver' = [driver EXCEPT ![p] = x] /\ driver'[p] = x
           /\ x.at = "flushed" /\ x.op = r.op /\ x.dev = r.dev /\ x.lba = r.lba /\ x.buf = r.buf
  BY <1>1, <1>2, MovedTo DEF Places
<1> HIDE DEF r
<1>4. r.dev \in Device /\ Selected = r.dev
  BY <1>1, <1>2 DEF InPlace, Selected
<1>5. /\ drive' \in Drives /\ \A d \in Device : drive'[d].err => drive[d].err
  BY <1>1, <1>4, CommandTold
<1>6. InPlace(x, regs, drive', failed)
  BY <1>1, <1>2, <1>3 DEF InPlace
<1>7. AtaInv'
  BY <1>1, <1>2, <1>3, <1>5, <1>6, Alone DEF AtaInv
<1>8. Seen(driver'[p]) = Seen(driver[p])
  BY <1>1, <1>3 DEF Seen, r
<1>9. QED
  BY <1>1, <1>7, <1>8, CallStays DEF Refines

LEMMA ReturnRefines ==
  ASSUME OneProcess, AtaInv, NEW p \in Process, Return(p) PROVE Refines
<1>1. /\ driver[p].at = "flushed" /\ driver' = [driver EXCEPT ![p] = Idle]
      /\ UNCHANGED <<regs, drive, medium, answer, failed>>
  BY DEF Return, At
<1>2. AtaInv' /\ Sectors!Becomes(p, [op |-> "none"])
  BY <1>1, ComesBack DEF AtaInv
<1>3. [q \in Process |-> Called(q)][p].op = "written"
  BY <1>1, CalledFor
<1>4. Sectors!Return(p)
  BY <1>1, <1>2, <1>3 DEF Sectors!Return, Sectors!NoCall
<1>5. QED
  BY <1>2, <1>4 DEF Refines, Sectors!Next

\* Some fields of a drive change, and its error bit does not.
LEMMA DriveChanges ==
  ASSUME AtaInv, NEW d \in Device, NEW c \in Doing, drive' = [drive EXCEPT ![d] = c],
         c.err => failed', failed => failed'
  PROVE  drive' \in Drives /\ drive'[d] = c /\ \A e \in Device : drive'[e].err => failed'
<1>1. drive \in [Device -> Doing] /\ \A e \in Device : drive[e].err => failed
  BY DEF AtaInv, Drives
<1>2. drive' \in [Device -> Doing] /\ drive'[d] = c
  BY <1>1
<1>3. ASSUME NEW e \in Device, drive'[e].err PROVE failed'
  <2>1. CASE e = d
    BY <1>2, <1>3, <2>1
  <2>2. CASE e # d
    BY <1>1, <1>3, <2>2
  <2>3. QED
    BY <2>1, <2>2
<1>4. QED
  BY <1>2, <1>3 DEF Drives

LEMMA TransferRefines ==
  ASSUME OneProcess, AtaInv, NEW p \in Process, Transfer(p) PROVE Refines
<1> DEFINE r == driver[p]
           d == drive[Selected]
<1>1. r.at = "wait" /\ ~d.busy /\ UNCHANGED <<regs, failed>>
  BY DEF Transfer, At, Status
<1>2. /\ r \in Driving /\ InPlace(r, regs, drive, failed)
      /\ regs \in Registers /\ drive \in Drives /\ medium \in Media /\ failed \in BOOLEAN
      /\ driver \in Drivers /\ \A e \in Device : drive[e].err => failed
  BY DEF AtaInv, Drivers, Driving
<1>3. /\ r.op \in {"read", "write"} /\ r.dev \in Device /\ r.lba \in Lba /\ Selected = r.dev
      /\ r.op = "write" => r.buf \in SectorData
      /\ Working(r, d, failed)
  BY <1>1, <1>2 DEF InPlace, Driving, Selected
<1>4. (d.drq => d.lba = r.lba) /\ (~d.drq => failed)
  BY <1>1, <1>3 DEF Working
<1>5. d \in Doing
  BY <1>2, <1>3 DEF Drives
<1>6. LET c == [q \in Process |-> Called(q)][p] IN
        /\ c.op = r.op /\ c.dev = r.dev /\ c.lba = r.lba /\ c.buf = r.buf
        /\ [c EXCEPT !.op = "written"] =
             [op |-> "written", dev |-> r.dev, lba |-> r.lba, buf |-> r.buf]
  BY <1>1, CalledFor
<1>7. CASE r.op = "read"
  <2> DEFINE e == [d EXCEPT !.drq = FALSE]
  <2>1. /\ answer' = IF d.drq THEN medium[Selected][d.lba] ELSE Junk
        /\ drive' = [drive EXCEPT ![Selected] = e]
        /\ driver' = [driver EXCEPT ![p] = Idle]
        /\ UNCHANGED medium
    BY <1>7 DEF Transfer, Status
  <2>2. e \in Doing /\ (e.err => d.err)
    <3> HIDE DEF d
    <3> QED BY <1>5 DEF Doing
  <2> HIDE DEF e
  <2>3. d.err => failed
    BY <1>2, <1>3
  <2>4. drive' \in Drives /\ \A x \in Device : drive'[x].err => failed'
    <3> HIDE DEF d
    <3> QED BY <1>1, <1>3, <2>1, <2>2, <2>3, DriveChanges
  <2>5. AtaInv' /\ Sectors!Becomes(p, [op |-> "none"])
    BY <1>1, <1>2, <2>1, <2>4, ComesBack
  <2>6. CASE d.drq
    <3>1. answer' = medium[r.dev][r.lba]
      BY <1>3, <1>4, <2>1, <2>6
    <3>2. Sectors!Read(p)
      BY <1>1, <1>6, <1>7, <2>1, <2>5, <3>1 DEF Sectors!Read, Sectors!NoCall
    <3>3. QED
      BY <2>5, <3>2 DEF Refines, Sectors!Next
  <2>7. CASE ~d.drq
    <3>1. failed /\ answer' = Junk
      BY <1>4, <2>1, <2>7
    <3>2. Sectors!Lose(p)
      BY <1>1, <1>6, <1>7, <2>1, <2>5, <3>1 DEF Sectors!Lose, Sectors!NoCall
    <3>3. QED
      BY <2>5, <3>2 DEF Refines, Sectors!Next
  <2>8. QED
    BY <2>6, <2>7
<1>8. CASE r.op = "write"
  <2> DEFINE e == [d EXCEPT !.drq = FALSE, !.busy = TRUE]
             c == [op |-> "written", dev |-> r.dev, lba |-> r.lba, buf |-> r.buf]
  <2>1. /\ To(p, "written") /\ UNCHANGED answer
        /\ d.drq => /\ medium' = [medium EXCEPT ![Selected][d.lba] = r.buf]
                    /\ drive' = [drive EXCEPT ![Selected].drq = FALSE, ![Selected].busy = TRUE]
        /\ ~d.drq => UNCHANGED <<medium, drive>>
    BY <1>8 DEF Transfer, Status
  <2>2. PICK x \in Driving :
           /\ driver' = [driver EXCEPT ![p] = x] /\ driver'[p] = x
           /\ x.at = "written" /\ x.op = r.op /\ x.dev = r.dev /\ x.lba = r.lba /\ x.buf = r.buf
    BY <1>2, <2>1, MovedTo DEF Places
  <2>3. InPlace(x, regs', drive', failed')
    <3> HIDE DEF r
    <3>1. regs'["sel"].now = r.dev
      BY <1>1, <1>3 DEF Selected
    <3>2. QED
      BY <1>3, <1>8, <2>2, <3>1 DEF InPlace
  <2>4. Seen(driver'[p]) = c
    BY <2>2 DEF Seen
  <2>5. Sectors!Becomes(p, c)
    BY <2>4, CallBecomes
  <2>6. CASE d.drq
    <3>1. drive' = [drive EXCEPT ![Selected] = e]
      <4>1. [drive EXCEPT ![Selected].drq = FALSE, ![Selected].busy = TRUE]
              = [drive EXCEPT ![Selected] = e]
        BY <1>2, <1>3 DEF Drives
      <4>2. QED
        BY <2>1, <2>6, <4>1
    <3>2. e \in Doing /\ (e.err => d.err)
      <4> HIDE DEF d
      <4> QED BY <1>5 DEF Doing
    <3> HIDE DEF e
    <3>3. d.err => failed
      BY <1>2, <1>3
    <3>4. drive' \in Drives /\ \A y \in Device : drive'[y].err => failed'
      <4> HIDE DEF d
      <4> QED BY <1>1, <1>3, <3>1, <3>2, <3>3, DriveChanges
    <3>5. medium' = [medium EXCEPT ![r.dev][r.lba] = r.buf]
      BY <1>3, <1>4, <2>1, <2>6
    <3>6. medium' \in Media
      <4> DEFINE m == [medium[r.dev] EXCEPT ![r.lba] = r.buf]
      <4>1. medium' = [medium EXCEPT ![r.dev] = m]
        BY <3>5
      <4>2. medium[r.dev] \in [Lba -> SectorData] /\ r.buf \in SectorData
        BY <1>2, <1>3, <1>8 DEF Media
      <4>3. m \in [Lba -> SectorData]
        BY <4>2
      <4> HIDE DEF m
      <4>4. QED
        BY <1>2, <1>3, <4>1, <4>3 DEF Media
    <3>7. AtaInv'
      BY <1>1, <1>2, <2>2, <2>3, <3>4, <3>6, Alone DEF AtaInv
    <3>8. Sectors!Write(p)
      BY <1>1, <1>6, <1>8, <2>1, <2>5, <3>5 DEF Sectors!Write
    <3>9. QED
      BY <3>7, <3>8 DEF Refines, Sectors!Next
  <2>7. CASE ~d.drq
    <3>1. failed /\ UNCHANGED <<medium, drive, answer, regs, failed>>
      BY <1>1, <1>4, <2>1, <2>7
    <3>2. AtaInv'
      BY <1>2, <2>2, <2>3, <3>1, Alone DEF AtaInv
    <3>3. Sectors!Lose(p)
      BY <1>6, <1>8, <2>5, <3>1 DEF Sectors!Lose
    <3>4. QED
      BY <3>2, <3>3 DEF Refines, Sectors!Next
  <2>8. QED
    BY <2>6, <2>7
<1>9. QED
  BY <1>3, <1>7, <1>8

LEMMA FinishRefines ==
  ASSUME OneProcess, AtaInv, NEW d \in Device, Finish(d) PROVE Refines
<1> DEFINE e == drive[d]
<1>1. e.busy /\ UNCHANGED <<regs, medium, driver, answer>>
  BY DEF Finish
<1>2. /\ regs \in Registers /\ drive \in Drives /\ medium \in Media /\ failed \in BOOLEAN
      /\ driver \in Drivers /\ \A x \in Device : drive[x].err => failed
      /\ e \in Doing
  BY DEF AtaInv, Drives
<1>3. \E c \in Doing :
        /\ drive' = [drive EXCEPT ![d] = c] /\ ~c.busy
        /\ \/ /\ c.lba = e.lba /\ (e.op \in {"read", "write"} => c.drq)
              /\ (c.err => e.err) /\ failed' = failed
           \/ ~c.drq /\ failed'
  <2>1. CASE /\ drive' = [drive EXCEPT ![d].busy = FALSE, ![d].op = "none",
                                  ![d].drq = (drive[d].op \in {"read", "write"})]
             /\ UNCHANGED failed
    <3> DEFINE q == (drive[d].op \in {"read", "write"})
               c == [e EXCEPT !.busy = FALSE, !.op = "none", !.drq = q]
    <3>1. q \in BOOLEAN /\ (e.op \in {"read", "write"} => q)
      OBVIOUS
    <3>2. drive' = [drive EXCEPT ![d] = c]
      <4> HIDE DEF q
      <4>1. [drive EXCEPT ![d].busy = FALSE, ![d].op = "none", ![d].drq = q]
              = [drive EXCEPT ![d] = c]
        BY <1>2 DEF Drives
      <4>2. QED
        BY <2>1, <4>1 DEF q
    <3> HIDE DEF q, e
    <3>3. c \in Doing
      BY <1>2, <3>1 DEF Doing
    <3>4. ~c.busy /\ c.lba = e.lba /\ (q => c.drq) /\ (c.err => e.err)
      BY <1>2, <3>1 DEF Doing
    <3> HIDE DEF c
    <3>5. QED
      BY <2>1, <3>1, <3>2, <3>3, <3>4
  <2>2. CASE drive' = [drive EXCEPT ![d] = [NoCommand EXCEPT !.err = TRUE]] /\ failed' = TRUE
    <3> DEFINE c == [NoCommand EXCEPT !.err = TRUE]
    <3>1. NoCommand \in Doing
      BY DEF NoCommand, Doing
    <3>2. NoCommand.busy = FALSE /\ NoCommand.drq = FALSE
      BY DEF NoCommand
    <3> HIDE DEF NoCommand
    <3>3. c \in Doing /\ c.busy = NoCommand.busy /\ c.drq = NoCommand.drq
      BY <3>1 DEF Doing
    <3> HIDE DEF c
    <3>4. drive' = [drive EXCEPT ![d] = c]
      BY <2>2 DEF c
    <3>5. ~c.busy /\ ~c.drq /\ failed'
      BY <2>2, <3>2, <3>3
    <3>6. QED
      BY <3>3, <3>4, <3>5
  <2>3. QED
    BY <2>1, <2>2 DEF Finish
<1>4. PICK c \in Doing :
        /\ drive' = [drive EXCEPT ![d] = c] /\ ~c.busy
        /\ \/ /\ c.lba = e.lba /\ (e.op \in {"read", "write"} => c.drq)
              /\ (c.err => e.err) /\ failed' = failed
           \/ ~c.drq /\ failed'
  BY <1>3
<1>5. (c.err => failed') /\ (failed => failed') /\ failed' \in BOOLEAN
  <2>1. failed' = failed \/ failed' = TRUE
    BY DEF Finish
  <2>2. e.err => failed
    BY <1>2
  <2>3. c.err => failed'
    <3> HIDE DEF e
    <3> QED BY <1>4, <2>2
  <2>4. QED
    BY <1>2, <2>1, <2>3
<1>6. drive' \in Drives /\ drive'[d] = c /\ \A x \in Device : drive'[x].err => failed'
  BY <1>4, <1>5, DriveChanges
<1>7. ASSUME NEW p \in Process PROVE InPlace(driver[p], regs, drive', failed')
  <2> DEFINE r == driver[p]
  <2>1. InPlace(r, regs, drive, failed) /\ r \in Driving
    BY DEF AtaInv, Drivers, Driving
  <2> HIDE DEF r
  <2>2. ASSUME r.at \in {"look", "wait"} PROVE Working(r, drive'[r.dev], failed')
    <3>1. r.dev \in Device /\ r.op \in {"read", "write"} /\ Working(r, drive[r.dev], failed)
      BY <2>1, <2>2 DEF InPlace, Driving
    <3>2. CASE r.dev = d
      <4>1. e.op = r.op /\ e.lba = r.lba
        BY <1>1, <3>1, <3>2 DEF Working
      <4>2. QED
        BY <1>4, <1>6, <3>1, <3>2, <4>1 DEF Working
    <3>3. CASE r.dev # d
      <4>1. drive'[r.dev] = drive[r.dev]
        BY <1>2, <1>4, <3>1, <3>3 DEF Drives
      <4>2. QED
        BY <1>5, <3>1, <4>1 DEF Working
    <3>4. QED
      BY <3>2, <3>3
  <2>3. InPlace(r, regs, drive', failed')
    BY <2>1, <2>2 DEF InPlace
  <2>4. QED
    BY <2>3 DEF r
<1>8. AtaInv'
  BY <1>1, <1>2, <1>5, <1>6, <1>7 DEF AtaInv
<1>9. [q \in Process |-> Called(q)]' = [q \in Process |-> Called(q)]
  BY <1>1 DEF Called, At
<1>10. CASE failed' = failed
  BY <1>1, <1>8, <1>9, <1>10 DEF Refines, Sectors!vars
<1>11. CASE failed' # failed
  <2>1. failed' = TRUE
    BY <1>11 DEF Finish
  <2>2. Sectors!Fail
    BY <1>1, <1>9, <2>1 DEF Sectors!Fail
  <2>3. QED
    BY <1>8, <2>2 DEF Refines, Sectors!Next
<1>12. QED
  BY <1>10, <1>11

LEMMA AtaStart == ASSUME AtaInit PROVE AtaInv /\ Sectors!Init
<1>1. /\ regs = [x \in Port |-> [now |-> 0, before |-> 0]]
      /\ drive = [d \in Device |-> NoCommand]
      /\ medium = [d \in Device |-> [l \in Lba |-> Blank]]
      /\ driver = [p \in Process |-> Idle]
      /\ answer = Blank /\ failed = FALSE
  BY DEF AtaInit
<1>2. regs \in Registers
  BY <1>1 DEF Registers
<1>3. NoCommand \in Doing /\ NoCommand.err = FALSE
  BY DEF NoCommand, Doing
<1>4. drive \in Drives /\ \A d \in Device : drive[d].err = FALSE
  <2> HIDE DEF NoCommand
  <2> QED BY <1>1, <1>3 DEF Drives
<1>5. medium \in Media /\ Blank \in SectorData
  BY <1>1, AtaAssumption DEF Media
<1>6. driver \in Drivers
  BY <1>1, IdleIsDriving DEF Drivers, Driving
<1>7. \A p \in Process : InPlace(driver[p], regs, drive, failed)
  <2>1. InPlace(Idle, regs, drive, failed)
    BY IdleIsDriving DEF InPlace
  <2>2. QED
    BY <1>1, <2>1
<1>8. AtaInv
  BY <1>1, <1>2, <1>4, <1>5, <1>6, <1>7 DEF AtaInv
<1>9. [p \in Process |-> Called(p)] = [p \in Process |-> [op |-> "none"]]
  BY <1>1, IdleIsDriving DEF Called, At
<1>10. Sectors!Init
  BY <1>1, <1>5, <1>9 DEF Sectors!Init, Sectors!NoCall, Media
<1>11. QED
  BY <1>8, <1>10

\* For drives of every size and every sequence of transfers of one process, failures
\* of the drives included: what ata.c does with the registers, step by step, is one
\* read or write of the sector asked for, or a call that a failed drive has undone.
THEOREM TransfersAreWhole == OneProcess /\ AtaSpec => ImplementsAtomicDisk
<1> SUFFICES ASSUME OneProcess PROVE AtaSpec => ImplementsAtomicDisk
  OBVIOUS
<1>1. AtaInit => AtaInv /\ Sectors!Init
  BY AtaStart
<1>2. OneProcess /\ AtaInv /\ [AtaNext]_avars => Refines
  <2>1. SUFFICES ASSUME OneProcess, AtaInv, [AtaNext]_avars PROVE Refines
    OBVIOUS
  <2>2. CASE UNCHANGED avars
    <3>1. UNCHANGED <<regs, drive, medium, driver, answer, failed>>
      BY <2>2 DEF avars
    <3>2. AtaInv'
      BY <2>1, <3>1 DEF AtaInv
    <3>3. [q \in Process |-> Called(q)]' = [q \in Process |-> Called(q)]
      BY <3>1 DEF Called, At
    <3>4. QED
      BY <3>1, <3>2, <3>3 DEF Refines, Sectors!vars
  <2>3. CASE \E p \in Process : Call(p) \/ Out(p) \/ GiveCommand(p) \/ Look(p) \/ Transfer(p)
                                \/ Flush(p) \/ Return(p)
    BY <2>1, <2>3, CallRefines, OutRefines, GiveCommandRefines, LookRefines, TransferRefines,
       FlushRefines, ReturnRefines
  <2>4. CASE \E d \in Device : Finish(d)
    BY <2>1, <2>4, FinishRefines
  <2>5. QED
    BY <2>1, <2>2, <2>3, <2>4 DEF AtaNext
<1>3. OneProcess /\ AtaInv /\ [AtaNext]_avars => AtaInv'
  BY <1>2 DEF Refines
<1>4. OneProcess /\ AtaInv /\ [AtaNext]_avars => [Sectors!Next]_(Sectors!vars)
  BY <1>2 DEF Refines
<1>5. QED
  BY <1>1, <1>3, <1>4, PTL DEF AtaSpec, ImplementsAtomicDisk

-----------------------------------------------------------------------------
(* Partitions *)

\* Sizes are words; rounding the largest of a drive up does not go beyond a word.
DrivesFit == \A d \in Drive : size(d) \in Nat /\ size(d) + PerIndex <= UWord

Entry == [type : BOOLEAN, start : Nat, size : Nat]
Table == [Drive -> [0 .. Entries-1 -> Entry]]

\* Partitions have the size of whole index blocks, or that and room for the boot record.
MbrInv ==
  /\ mbr \in Table /\ DOMAIN sector = Drive
  /\ \A d \in Drive, i \in 0 .. Entries-1 :
       mbr[d][i].type => mbr[d][i].size % PerIndex \in {0, 1}

\* An index block, its name tables and its data lie within the partition.
LEMMA BlocksWithin ==
  ASSUME NEW start \in Nat, NEW sz \in Nat, sz % PerIndex = 1,
         NEW x \in IndexAt(start, sz), NEW t \in 0 .. PerIndex - 1
  PROVE  x + t \in start .. start + sz - 1
<1>1. PerIndex \in Nat /\ PerIndex > 3
  BY PartitionAssumption
<1> DEFINE m == sz \div PerIndex
           n == (sz - 2) \div PerIndex
<1>2. m \in Nat /\ sz = PerIndex * m + 1
  BY <1>1
<1>3. PICK k \in 0 .. n : x = start + 1 + k * PerIndex
  BY DEF IndexAt
<1>4. k \in Nat /\ k <= m - 1
  <2>1. sz - 2 = PerIndex * (m - 1) + (PerIndex - 1)
    <3> HIDE DEF m
    <3> QED BY <1>1, <1>2
  <2>2. n = m - 1
    <3>1. PerIndex - 1 \in 0 .. PerIndex - 1 /\ m - 1 \in Int /\ sz - 2 \in Int
      <4> HIDE DEF m
      <4> QED BY <1>1, <1>2
    <3> HIDE DEF m
    <3>2. QED
      BY <1>1, <2>1, <3>1
  <2> HIDE DEF m, n
  <2>3. QED
    BY <1>2, <1>3, <2>2
<1> HIDE DEF m, n
<1>5. k * PerIndex + PerIndex <= m * PerIndex
  <2>1. m - k - 1 \in Nat
    BY <1>2, <1>4
  <2>2. m * PerIndex = k * PerIndex + PerIndex + (m - k - 1) * PerIndex
    BY <1>1, <1>2, <1>4
  <2>3. (m - k - 1) * PerIndex >= 0 /\ k * PerIndex \in Nat
    BY <1>1, <1>4, <2>1
  <2>4. QED
    BY <1>1, <1>2, <2>2, <2>3
<1>6. k * PerIndex \in Nat /\ m * PerIndex \in Nat
  BY <1>1, <1>2, <1>4
<1>7. x + t = start + 1 + k * PerIndex + t
  BY <1>1, <1>3, <1>6
<1>8. sz = m * PerIndex + 1
  BY <1>1, <1>2
<1>9. QED
  BY <1>1, <1>5, <1>6, <1>7, <1>8

LEMMA Remainder ==
  ASSUME NEW b \in Nat, b > 1, NEW m \in Nat, NEW a \in Nat, a = b * m + 1
  PROVE  a % b = 1
<1>1. a \div b = m
  OBVIOUS
<1>2. a = b * (a \div b) + (a % b)
  OBVIOUS
<1>3. b * m + 1 = b * m + (a % b)
  BY <1>1, <1>2
<1>4. b * m \in Int /\ a % b \in Int
  OBVIOUS
<1> DEFINE p == b * m
           r == a % b
<1>5. p + 1 = p + r /\ p \in Int /\ r \in Int
  BY <1>3, <1>4
<1> HIDE DEF p, r
<1>6. r = 1
  BY <1>5
<1>7. QED
  BY <1>6 DEF r

\* _fs_create_partition rounds up to whole index blocks, and makes room then.
LEMMA RoundedSize ==
  ASSUME NEW sz \in Nat, sz % PerIndex # 0
  PROVE  LET rounded == sz + (PerIndex - (sz % PerIndex)) + 1
         IN rounded \in Nat /\ rounded <= sz + PerIndex /\ rounded % PerIndex = 1
<1>1. PerIndex \in Nat /\ PerIndex > 3
  BY PartitionAssumption
<1> DEFINE q == sz \div PerIndex
           rest == sz % PerIndex
           rounded == sz + (PerIndex - rest) + 1
<1>2. q \in Nat /\ rest \in 1 .. PerIndex - 1 /\ sz = PerIndex * q + rest
  BY <1>1
<1> HIDE DEF q, rest
<1>3. rounded \in Nat /\ rounded <= sz + PerIndex
  BY <1>1, <1>2
<1>4. rounded = PerIndex * (q + 1) + 1
  BY <1>1, <1>2
<1> HIDE DEF rounded
<1>5. rounded % PerIndex = 1
  <2>1. ASSUME NEW m \in Nat, NEW a \in Nat, a = PerIndex * m + 1 PROVE a % PerIndex = 1
    <3>1. PerIndex > 1
      BY <1>1
    <3>2. QED
      BY <1>1, <2>1, <3>1, Remainder
  <2>2. QED
    BY <1>2, <1>3, <1>4, <2>1
<1>6. QED
  BY <1>3, <1>5 DEF rounded, rest

LEMMA CreateKeeps ==
  ASSUME DrivesFit, MbrInv, NEW d, NEW start \in Starts, NEW sz \in Sizes, NEW i \in Nat,
         create_partition(d, start, sz, i)
  PROVE  MbrInv'
<1> DEFINE rest == sz % PerIndex
           rounded == IF rest = 0 THEN sz ELSE sz + (PerIndex - rest) + 1
           new == [type |-> TRUE, start |-> start, size |-> rounded % UWord]
<1>1. PerIndex \in Nat /\ PerIndex > 3 /\ start \in Nat /\ sz \in Nat /\ sz < UWord /\ UWord \in Nat \ {0}
  BY PartitionAssumption
<1>2. UNCHANGED sector
  BY DEF create_partition
<1>3. mbr' = mbr \/ mbr' = [mbr EXCEPT ![d][i] = new]
  BY DEF create_partition
<1>4. CASE mbr' = mbr \/ d \notin Drive
  <2>1. mbr' = mbr
    <3>1. mbr \in [Drive -> [0 .. Entries-1 -> Entry]]
      BY DEF MbrInv, Table
    <3>2. QED
      BY <1>3, <1>4, <3>1
  <2>2. QED
    BY <1>2, <2>1 DEF MbrInv
<1>5. ASSUME d \in Drive, mbr' # mbr PROVE i < Entries /\ sz < size(d)
  <2> DEFINE ok == /\ ~(i >= Entries)
                   /\ ~(i < Entries /\ (sz >= size(d) \/ (sz + start) % UWord >= size(d)))
  <2>1. ok
    <3>1. CASE i >= Entries
      <4>1. status' = "FS_ERR_BADINDEX"
        BY <1>1, <3>1, PartitionAssumption DEF create_partition
      <4>2. QED
        BY <1>5, <4>1 DEF create_partition
    <3>2. CASE i < Entries /\ (sz >= size(d) \/ (sz + start) % UWord >= size(d))
      BY <1>5, <3>2 DEF create_partition
    <3>3. QED
      BY <3>1, <3>2
  <2>2. size(d) \in Nat
    BY <1>5 DEF DrivesFit
  <2>3. QED
    BY <1>1, <2>1, <2>2, PartitionAssumption
<1>6. CASE d \in Drive /\ i < Entries /\ sz < size(d) /\ mbr' = [mbr EXCEPT ![d][i] = new]
  <2>1. rounded \in Nat /\ rounded < UWord /\ rounded % PerIndex \in {0, 1}
    <3>1. CASE rest = 0
      BY <1>1, <3>1
    <3>2. CASE rest # 0
      <4>1. rounded \in Nat /\ rounded <= sz + PerIndex /\ rounded % PerIndex = 1
        BY <1>1, <3>2, RoundedSize
      <4>2. sz + PerIndex < UWord
        BY <1>1, <1>6 DEF DrivesFit
      <4> HIDE DEF rounded
      <4>3. QED
        BY <1>1, <4>1, <4>2
    <3>3. QED
      BY <3>1, <3>2
  <2> HIDE DEF rounded
  <2>2. rounded % UWord = rounded
    BY <1>1, <2>1
  <2>3. new \in Entry /\ new.size % PerIndex \in {0, 1}
    BY <1>1, <2>1, <2>2 DEF Entry
  <2> HIDE DEF new
  <2>4. i \in 0 .. Entries - 1
    BY <1>6, PartitionAssumption
  <2> DEFINE t == [mbr[d] EXCEPT ![i] = new]
  <2>5. mbr' = [mbr EXCEPT ![d] = t]
    BY <1>6
  <2>6. mbr[d] \in [0 .. Entries-1 -> Entry] /\ mbr \in [Drive -> [0 .. Entries-1 -> Entry]]
    BY <1>6 DEF MbrInv, Table
  <2>7. t \in [0 .. Entries-1 -> Entry] /\ t[i] = new /\ \A j \in 0 .. Entries-1 : j # i => t[j] = mbr[d][j]
    BY <2>3, <2>4, <2>6
  <2> HIDE DEF t
  <2>8. mbr' \in Table /\ mbr'[d] = t /\ \A c \in Drive : c # d => mbr'[c] = mbr[c]
    BY <1>6, <2>5, <2>6, <2>7 DEF Table
  <2>9. ASSUME NEW c \in Drive, NEW j \in 0 .. Entries-1, mbr'[c][j].type
        PROVE  mbr'[c][j].size % PerIndex \in {0, 1}
    <3>1. CASE c = d /\ j = i
      BY <2>3, <2>7, <2>8, <3>1
    <3>2. CASE ~(c = d /\ j = i)
      <4>1. mbr'[c][j] = mbr[c][j]
        BY <2>7, <2>8, <3>2
      <4>2. QED
        BY <2>9, <4>1 DEF MbrInv
    <3>3. QED
      BY <3>1, <3>2
  <2>10. QED
    BY <1>2, <2>8, <2>9 DEF MbrInv
<1>7. QED
  BY <1>3, <1>4, <1>6, <1>5

LEMMA PutsThere ==
  ASSUME DOMAIN sector = Drive, NEW c, NEW what, Put(c, what)
  PROVE  /\ DOMAIN sector' = Drive
         /\ \A d \in Drive : d # c => sector'[d] = sector[d]
         /\ c \in Drive => \A l \in DOMAIN sector[c] :
              sector'[c][l] = IF l \in DOMAIN what THEN what[l] ELSE sector[c][l]
BY DEF Put

LEMMA MbrStep == ASSUME DrivesFit, MbrInv, [PartitionsNext]_pvars PROVE MbrInv'
<1>1. CASE UNCHANGED pvars
  BY <1>1 DEF pvars, MbrInv
<1>2. CASE \E d \in Range(ata_devices), i \in 0 .. Entries :
             \E start \in Starts, sz \in Sizes : create_partition(d, start, sz, i)
  BY <1>2, CreateKeeps
<1>3. CASE \E d \in Range(ata_devices), i \in 0 .. Entries : i < Entries /\ format(d, i)
  <2>1. mbr' = mbr /\ DOMAIN sector' = Drive
    BY <1>3, PutsThere DEF format, MbrInv
  <2>2. QED
    BY <2>1 DEF MbrInv
<1>4. CASE Boot
  BY <1>4 DEF Boot, MbrInv
<1>5. CASE \E m \in Range(mount_points) : Use(m)
  <2>1. mbr' = mbr /\ DOMAIN sector' = Drive
    BY <1>5, PutsThere DEF Use, MbrInv
  <2>2. QED
    BY <2>1 DEF MbrInv
<1>6. QED
  BY <1>1, <1>2, <1>3, <1>4, <1>5 DEF PartitionsNext

\* The entry e has its sectors for itself.
Apart(d, i) ==
  /\ mbr[d][i].type
  /\ \A j \in 0 .. Entries-1 \ {i} : mbr[d][j].type =>
       /\ Extent(mbr[d][j]) \cap Extent(mbr[d][i]) = {}
       /\ mbr[d][j].size % PerIndex # 0
  /\ \A m \in Range(mount_points) : Fresh(m)

LEMMA FormatApart ==
  ASSUME MbrInv, NEW d \in Drive, NEW i \in 0 .. Entries-1, Apart(d, i),
         NEW c, NEW j \in 0 .. Entries-1, format(c, j),
         NEW l \in Extent(mbr[d][i]) \cap DOMAIN sector[d], sector'[d][l] # sector[d][l]
  PROVE  sector'[d][l].of = mbr[d][i].start
<1> DEFINE f == mbr[c][j]
           ibs == IndexAt(f.start, f.size)
           within(k) == CASE k = f.start -> BootSector(f.start, f.size)
                          [] k \in ibs   -> Index(f.start)
                          [] OTHER       -> Name(f.start)
           where == {f.start} \cup UNION {x .. x+2 : x \in ibs}
           what == [k \in where |-> within(k)]
<1>1. DOMAIN sector = Drive
  BY DEF MbrInv
<1>2. f.type /\ Put(c, what)
  BY <1>1 DEF format
<1>3. DOMAIN what = where /\ \A k \in where : what[k].of = f.start
  <2>1. \A k : within(k).of = f.start
    BY DEF BootSector, Index, Name
  <2> HIDE DEF within
  <2>2. QED
    BY <2>1
<1> HIDE DEF what
<1>4. d = c
  BY <1>1, <1>2, PutsThere
<1>5. l \in where /\ sector'[d][l].of = f.start
  <2> HIDE DEF where, f
  <2>1. sector'[d][l] = IF l \in DOMAIN what THEN what[l] ELSE sector[d][l]
    BY <1>1, <1>2, <1>4, PutsThere
  <2>2. QED
    BY <1>3, <2>1
<1>6. CASE j = i
  BY <1>4, <1>5, <1>6
<1>7. CASE j # i
  <2>1. f \in Entry
    BY <1>4 DEF MbrInv, Table
  <2>2. f.start \in Nat /\ f.size \in Nat
    BY <2>1 DEF Entry
  <2>3. f.size % PerIndex = 1 /\ Extent(f) \cap Extent(mbr[d][i]) = {}
    BY <1>2, <1>4, <1>7 DEF MbrInv, Apart
  <2> HIDE DEF f
  <2>4. PerIndex \in Nat /\ PerIndex > 3
    BY PartitionAssumption
  <2>5. l \in Extent(f)
    <3>1. CASE l = f.start
      <4>1. f.size >= 1
        BY <2>2, <2>3, <2>4
      <4>2. QED
        BY <2>2, <3>1, <4>1 DEF Extent
    <3>2. CASE l # f.start
      <4>1. PICK x \in ibs : l \in x .. x + 2
        BY <1>5, <3>2
      <4>2. x \in Int
        BY <2>2, <2>4 DEF IndexAt
      <4>3. l - x \in 0 .. PerIndex - 1 /\ x + (l - x) = l
        BY <2>4, <4>1, <4>2
      <4>4. QED
        BY <2>2, <2>3, <4>3, BlocksWithin DEF Extent
    <3>3. QED
      BY <3>1, <3>2
  <2>6. QED
    BY <2>3, <2>5
<1>8. QED
  BY <1>6, <1>7

LEMMA UseApart ==
  ASSUME MbrInv, NEW d \in Drive, NEW i \in 0 .. Entries-1, Apart(d, i),
         NEW m \in Range(mount_points), Use(m),
         NEW l \in Extent(mbr[d][i]) \cap DOMAIN sector[d], sector'[d][l] # sector[d][l]
  PROVE  sector'[d][l].of = mbr[d][i].start
<1>1. DOMAIN sector = Drive
  BY DEF MbrInv
<1>2. PICK x \in IndexAt(m.offset, m.size), t \in 3 .. PerIndex-1 :
        Put(m.device, [k \in {x + t} |-> Data(m.offset)])
  BY DEF Use
<1>3. d = m.device
  BY <1>1, <1>2, PutsThere
<1>4. l = x + t /\ sector'[d][l].of = m.offset
  <2> DEFINE what == [k \in {x + t} |-> Data(m.offset)]
  <2>1. DOMAIN what = {x + t} /\ \A k \in {x + t} : what[k].of = m.offset
    BY DEF Data
  <2> HIDE DEF what
  <2>2. sector'[d][l] = IF l \in DOMAIN what THEN what[l] ELSE sector[d][l]
    BY <1>1, <1>2, <1>3, PutsThere DEF what
  <2>3. QED
    BY <2>1, <2>2
<1>5. PICK j \in 0 .. Entries-1 :
        mbr[d][j] = [type |-> TRUE, start |-> m.offset, size |-> m.size]
  BY <1>3 DEF Apart, Fresh
<1>6. mbr[d][j].type /\ mbr[d][j].start = m.offset /\ mbr[d][j].size = m.size
  BY <1>5
<1>7. CASE j = i
  BY <1>4, <1>6, <1>7
<1>8. CASE j # i
  <2> DEFINE f == mbr[d][j]
  <2>1. f \in Entry
    BY DEF MbrInv, Table
  <2>2. f.start \in Nat /\ f.size \in Nat
    BY <2>1 DEF Entry
  <2>3. f.size % PerIndex = 1 /\ Extent(f) \cap Extent(mbr[d][i]) = {}
    BY <1>6, <1>8 DEF MbrInv, Apart
  <2>4. x \in IndexAt(f.start, f.size)
    BY <1>6
  <2> HIDE DEF f
  <2>5. t \in 0 .. PerIndex - 1
    BY PartitionAssumption
  <2>6. l \in Extent(f)
    BY <1>4, <2>2, <2>3, <2>4, <2>5, BlocksWithin DEF Extent
  <2>7. QED
    BY <2>3, <2>6
<1>9. QED
  BY <1>7, <1>8

\* For every set of drives that are smaller than a word by an index block: whatever
\* partitions are made, formatted and used, in whatever order, the sectors of one are
\* not written for another, where the extents are apart.
THEOREM PartitionsStayApart ==
  DrivesFit /\ PartitionsInit /\ [][PartitionsNext]_pvars => PartitionsApart
<1> SUFFICES ASSUME DrivesFit PROVE PartitionsInit /\ [][PartitionsNext]_pvars => PartitionsApart
  OBVIOUS
<1>1. PartitionsInit => MbrInv
  <2>1. SUFFICES ASSUME PartitionsInit PROVE MbrInv
    OBVIOUS
  <2>2. NoEntry \in Entry /\ NoEntry.type = FALSE
    BY DEF NoEntry, Entry
  <2>3. mbr = [d \in Drive |-> [i \in 0 .. Entries-1 |-> NoEntry]] /\ DOMAIN sector = Drive
    BY <2>1 DEF PartitionsInit
  <2> HIDE DEF NoEntry
  <2>4. mbr \in Table /\ \A d \in Drive, i \in 0 .. Entries-1 : mbr[d][i] = NoEntry
    BY <2>2, <2>3 DEF Table
  <2>5. QED
    BY <2>2, <2>3, <2>4 DEF MbrInv
<1>2. DrivesFit /\ MbrInv /\ [PartitionsNext]_pvars => MbrInv'
  BY MbrStep
<1> DEFINE OfItsOwn(d, i) == \A l \in Extent(mbr[d][i]) \cap DOMAIN sector[d] :
             sector'[d][l] # sector[d][l] => sector'[d][l].of = mbr[d][i].start
<1>3. ASSUME MbrInv, PartitionsNext, NEW d \in Drive, NEW i \in 0 .. Entries-1, Apart(d, i)
      PROVE  OfItsOwn(d, i)
  <2>1. CASE UNCHANGED sector
    BY <2>1
  <2>2. CASE \E c \in Range(ata_devices), j \in 0 .. Entries : j < Entries /\ format(c, j)
    <3>1. \A j \in 0 .. Entries : j < Entries => j \in 0 .. Entries-1
      BY PartitionAssumption
    <3>2. QED
      BY <1>3, <2>2, <3>1, FormatApart
  <2>3. CASE \E m \in Range(mount_points) : Use(m)
    BY <1>3, <2>3, UseApart
  <2>4. QED
    BY <1>3, <2>1, <2>2, <2>3 DEF PartitionsNext, create_partition, Boot
<1> DEFINE A == \A d \in Drive, i \in 0 .. Entries-1 :
    LET e == mbr[d][i] IN
    /\ e.type
    /\ \A j \in 0 .. Entries-1 \ {i} : mbr[d][j].type =>
         /\ Extent(mbr[d][j]) \cap Extent(e) = {}
         /\ mbr[d][j].size % PerIndex # 0
    /\ \A m \in Range(mount_points) : Fresh(m)
    => \A l \in Extent(e) \cap DOMAIN sector[d] :
         sector'[d][l] # sector[d][l] => sector'[d][l].of = e.start
<1>4. MbrInv /\ [PartitionsNext]_pvars => [A]_pvars
  <2>1. SUFFICES ASSUME MbrInv, PartitionsNext PROVE A
    OBVIOUS
  <2>2. \A d \in Drive, i \in 0 .. Entries-1 : Apart(d, i) => OfItsOwn(d, i)
    BY <1>3, <2>1
  <2>3. QED
    BY <2>2 DEF Apart
<1>5. QED
  BY <1>1, <1>2, <1>4, PTL DEF PartitionsApart
=============================================================================
