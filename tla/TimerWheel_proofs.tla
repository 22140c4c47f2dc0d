-------------------------- MODULE TimerWheel_proofs --------------------------
(***************************************************************************)
(* Proofs about the timer wheels: no pending timer is missed by the cursor   *)
(* (Filed), none is late (Punctual), and the wheels implement Timers, for    *)
(* every number of wheels, buckets and timers and for all delays that fit.  *)
(***************************************************************************)
EXTENDS TimerWheel, Selection_proofs

LEMMA Sizes ==
  /\ MinDelay \in Nat \ {0} /\ Size \in Nat \ {0, 1} /\ WheelCount \in Nat \ {0}
  /\ Lag \in Nat \ {0} /\ Delays \subseteq Nat \ {0} /\ Starts \subseteq Nat
  /\ MaxTime \in Nat /\ Polled \in BOOLEAN /\ None \notin Nat /\ None \notin Nat \X Nat
<1>1. Delays \subseteq 1..(MaxDelay - 1)
  BY WheelSizes
<1>2. \A d \in 1..(MaxDelay - 1) : d \in Nat \ {0}
  OBVIOUS
<1>3. QED
  BY <1>1, <1>2, WheelSizes

-----------------------------------------------------------------------------
(* The units of the wheels.                                                 *)

UnitStep(f, n) == IF n = 0 THEN MinDelay ELSE Size * f[n - 1]

\* f has the units of the wheels up to n.
Units(f, n) == f \in [0..n -> Nat] /\ \A i \in 0..n : f[i] = UnitStep(f, i)

LEMMA UnitsExist == ASSUME NEW n \in Nat PROVE \E f : Units(f, n)
<1> DEFINE bad == {k \in Nat : ~\E f : Units(f, k)}
<1> SUFFICES ASSUME bad # {} PROVE FALSE
  OBVIOUS
<1>1. PICK k \in bad : \A j \in bad : k <= j
  <2>1. bad \in SUBSET Nat
    OBVIOUS
  <2> HIDE DEF bad
  <2>2. QED
    BY <2>1, Least
<1>2. CASE k = 0
  <2> DEFINE f == [i \in 0..0 |-> MinDelay]
  <2>1. Units(f, 0)
    BY Sizes DEF Units, UnitStep
  <2>2. QED
    BY <1>1, <1>2, <2>1
<1>3. CASE k # 0
  <2>1. k \in Nat /\ k - 1 \in Nat /\ k - 1 \notin bad
    BY <1>1, <1>3
  <2>2. PICK f : Units(f, k - 1)
    BY <2>1
  <2> DEFINE g == [i \in 0..k |-> IF i = k THEN Size * f[k - 1] ELSE f[i]]
  <2>3. /\ \A i \in 0..(k - 1) : g[i] = f[i] /\ f[i] \in Nat /\ i \in 0..k /\ i # k
        /\ g[k] = Size * f[k - 1] /\ \A i \in 0..k : i = k \/ i \in 0..(k - 1)
        /\ k - 1 \in 0..(k - 1)
    BY <2>1, <2>2 DEF Units
  <2>4. g \in [0..k -> Nat]
    <3>1. \A i \in 0..k : g[i] \in Nat
      <4>1. f[k - 1] \in Nat
        BY <2>3
      <4>2. Size * f[k - 1] \in Nat
        BY <4>1, Sizes
      <4>3. QED
        BY <2>3, <4>2
    <3>2. QED
      BY <3>1
  <2>5. ASSUME NEW i \in 0..k PROVE g[i] = UnitStep(g, i)
    <3>1. CASE i = k
      BY <1>3, <2>3, <3>1 DEF UnitStep
    <3>2. CASE i = 0
      BY <1>3, <2>1, <2>2, <2>3, <3>2 DEF UnitStep, Units
    <3>3. CASE i # k /\ i # 0
      <4>1. i \in 0..(k - 1) /\ i - 1 \in 0..(k - 1)
        BY <2>1, <3>3
      <4>2. f[i] = Size * f[i - 1]
        BY <2>2, <3>3, <4>1 DEF UnitStep, Units
      <4>3. QED
        BY <2>3, <3>3, <4>1, <4>2 DEF UnitStep
    <3>4. QED
      BY <3>1, <3>2, <3>3
  <2> HIDE DEF g
  <2>6. Units(g, k)
    BY <2>4, <2>5 DEF Units
  <2>7. QED
    BY <1>1, <2>6
<1>4. QED
  BY <1>2, <1>3

LEMMA UnitsAgree ==
  ASSUME NEW n \in Nat, NEW m \in Nat, NEW f, NEW g, Units(f, n), Units(g, m),
         NEW i \in 0..n, i \in 0..m
  PROVE  f[i] = g[i]
<1> DEFINE bad == {k \in 0..i : f[k] # g[k]}
<1> SUFFICES ASSUME bad # {} PROVE FALSE
  OBVIOUS
<1>1. PICK k \in bad : \A j \in bad : k <= j
  <2>1. bad \in SUBSET Nat
    OBVIOUS
  <2> HIDE DEF bad
  <2>2. QED
    BY <2>1, Least
<1>2. k \in 0..i /\ k \in 0..n /\ k \in 0..m /\ f[k] # g[k]
  BY <1>1
<1>3. f[k] = UnitStep(f, k) /\ g[k] = UnitStep(g, k)
  BY <1>2 DEF Units
<1>4. k # 0
  BY <1>2, <1>3 DEF UnitStep
<1>5. k - 1 \in 0..i /\ ~(k <= k - 1)
  BY <1>2, <1>4
<1>6. f[k - 1] = g[k - 1]
  BY <1>1, <1>5
<1>7. QED
  BY <1>2, <1>3, <1>4, <1>6 DEF UnitStep

\* The recursion of Unit has a solution, so that it defines Unit.
LEMMA UnitDefined == \A n \in Nat : Unit[n] = UnitStep(Unit, n) /\ Unit[n] \in Nat
<1> DEFINE h(n) == CHOOSE f : Units(f, n)
           u == [n \in Nat |-> h(n)[n]]
<1>1. \A n \in Nat : Units(h(n), n)
  BY UnitsExist
<1> HIDE DEF h
<1>2. ASSUME NEW n \in Nat PROVE u[n] = UnitStep(u, n) /\ u[n] \in Nat
  <2>1. n \in 0..n /\ u[n] = h(n)[n] /\ Units(h(n), n)
    BY <1>1
  <2>2. h(n)[n] = UnitStep(h(n), n) /\ h(n)[n] \in Nat
    BY <2>1 DEF Units
  <2>3. CASE n = 0
    BY <2>1, <2>2, <2>3 DEF UnitStep
  <2>4. CASE n # 0
    <3>1. n - 1 \in Nat /\ n - 1 \in 0..n /\ n - 1 \in 0..(n - 1)
      BY <2>4
    <3>2. Units(h(n - 1), n - 1)
      BY <1>1, <3>1
    <3>3. h(n)[n - 1] = h(n - 1)[n - 1]
      BY <2>1, <3>1, <3>2, UnitsAgree
    <3>4. QED
      BY <2>1, <2>2, <2>4, <3>1, <3>3 DEF UnitStep
  <2>5. QED
    BY <2>3, <2>4
<1> HIDE DEF u
<1>3. u = [n \in Nat |-> UnitStep(u, n)]
  BY <1>2 DEF u
<1>4. Unit = CHOOSE f : f = [n \in Nat |-> UnitStep(f, n)]
  BY DEF Unit, UnitStep
<1>5. Unit = [n \in Nat |-> UnitStep(Unit, n)]
  BY <1>3, <1>4, Zenon
<1>6. \A n \in Nat : Unit[n] = UnitStep(Unit, n)
  BY <1>5
<1>7. \A n \in Nat : Unit[n] \in Nat
  <2> DEFINE bad == {k \in Nat : Unit[k] \notin Nat}
  <2> SUFFICES ASSUME bad # {} PROVE FALSE
    OBVIOUS
  <2>1. PICK k \in bad : \A j \in bad : k <= j
    <3>1. bad \in SUBSET Nat
      OBVIOUS
    <3> HIDE DEF bad
    <3>2. QED
      BY <3>1, Least
  <2>2. k \in Nat /\ Unit[k] \notin Nat /\ Unit[k] = UnitStep(Unit, k)
    BY <1>6, <2>1
  <2>3. k # 0
    BY <2>2, Sizes DEF UnitStep
  <2>4. k - 1 \in Nat /\ ~(k <= k - 1)
    BY <2>2, <2>3
  <2>5. Unit[k - 1] \in Nat
    BY <2>1, <2>4
  <2>6. QED
    BY <2>2, <2>3, <2>5, Sizes DEF UnitStep
<1>8. QED
  BY <1>6, <1>7

\* The units: MinDelay, and each Size times the one before.
LEMMA UnitLaw ==
  /\ Unit[0] = MinDelay
  /\ \A i \in Nat : Unit[i] \in Nat \ {0} /\ i + 1 \in Nat /\ Unit[i + 1] = Size * Unit[i]
<1>1. Unit[0] = MinDelay
  BY UnitDefined DEF UnitStep
<1>2. \A i \in Nat : i + 1 \in Nat /\ Unit[i + 1] = Size * Unit[i] /\ Unit[i] \in Nat
  BY UnitDefined DEF UnitStep
<1>3. \A i \in Nat : Unit[i] # 0
  <2> DEFINE bad == {k \in Nat : Unit[k] = 0}
  <2> SUFFICES ASSUME bad # {} PROVE FALSE
    OBVIOUS
  <2>1. PICK k \in bad : \A j \in bad : k <= j
    <3>1. bad \in SUBSET Nat
      OBVIOUS
    <3> HIDE DEF bad
    <3>2. QED
      BY <3>1, Least
  <2>2. k \in Nat /\ Unit[k] = 0
    BY <2>1
  <2>3. k # 0
    BY <1>1, <2>2, Sizes
  <2>4. k - 1 \in Nat /\ ~(k <= k - 1) /\ (k - 1) + 1 = k
    BY <2>2, <2>3
  <2>5. Unit[k - 1] \in Nat /\ Unit[k - 1] # 0
    BY <1>2, <2>1, <2>4
  <2>6. Unit[k] = Size * Unit[k - 1]
    BY <1>2, <2>4
  <2>7. \A a, b \in Nat \ {0} : a * b # 0
    OBVIOUS
  <2>8. QED
    BY <2>2, <2>5, <2>6, <2>7, Sizes
<1>4. QED
  BY <1>1, <1>2, <1>3

LEMMA UnitRises == ASSUME NEW i \in Nat, NEW j \in Nat, i <= j PROVE Unit[i] <= Unit[j]
<1> DEFINE bad == {k \in Nat : i <= k /\ ~(Unit[i] <= Unit[k])}
<1> SUFFICES ASSUME bad # {} PROVE FALSE
  OBVIOUS
<1>1. PICK k \in bad : \A m \in bad : k <= m
  <2>1. bad \in SUBSET Nat
    OBVIOUS
  <2> HIDE DEF bad
  <2>2. QED
    BY <2>1, Least
<1>2. k \in Nat /\ i <= k /\ ~(Unit[i] <= Unit[k])
  BY <1>1
<1>3. k # i
  BY <1>2, UnitLaw
<1>4. k - 1 \in Nat /\ i <= k - 1 /\ ~(k <= k - 1) /\ (k - 1) + 1 = k
  BY <1>2, <1>3
<1>5. Unit[i] <= Unit[k - 1]
  BY <1>1, <1>4
<1>6. Unit[k] = Size * Unit[k - 1] /\ Unit[k - 1] \in Nat /\ Unit[i] \in Nat
  BY <1>4, UnitLaw
<1>7. \A s \in Nat \ {0, 1} : \A u \in Nat : u <= s * u
  OBVIOUS
<1>8. Unit[k - 1] <= Size * Unit[k - 1] /\ Size * Unit[k - 1] \in Nat
  BY <1>6, <1>7, Sizes
<1>9. QED
  BY <1>2, <1>5, <1>6, <1>8

LEMMA UnitAbove == ASSUME NEW i \in Nat PROVE i < Unit[i]
<1> DEFINE bad == {k \in Nat : ~(k < Unit[k])}
<1> SUFFICES ASSUME bad # {} PROVE FALSE
  OBVIOUS
<1>1. PICK k \in bad : \A m \in bad : k <= m
  <2>1. bad \in SUBSET Nat
    OBVIOUS
  <2> HIDE DEF bad
  <2>2. QED
    BY <2>1, Least
<1>2. k \in Nat /\ ~(k < Unit[k])
  BY <1>1
<1>3. k # 0
  BY <1>2, UnitLaw, Sizes
<1>4. k - 1 \in Nat /\ ~(k <= k - 1) /\ (k - 1) + 1 = k
  BY <1>2, <1>3
<1>5. k - 1 < Unit[k - 1]
  BY <1>1, <1>4
<1>6. Unit[k] = Size * Unit[k - 1] /\ Unit[k - 1] \in Nat
  BY <1>4, UnitLaw
<1>7. \A s \in Nat \ {0, 1} : \A u \in Nat \ {0} : u < s * u
  OBVIOUS
<1>8. Unit[k - 1] < Size * Unit[k - 1] /\ Size * Unit[k - 1] \in Nat
  BY <1>4, <1>5, <1>6, <1>7, Sizes
<1>9. QED
  BY <1>2, <1>4, <1>5, <1>6, <1>8

\* The wheel chosen for a delay: the delay is at least a bucket of it and less
\* than a turn.
LEMMA IndexLaw ==
  ASSUME NEW n \in Nat, MinDelay <= n
  PROVE  /\ Index(n) \in Nat /\ Unit[Index(n)] <= n /\ n < Unit[Index(n) + 1]
         /\ \A k \in Nat : n < Unit[k] => Index(n) < k
<1>1. \E i \in 0..n : Unit[i] <= n /\ n < Unit[i + 1]
  <2> DEFINE over == {k \in Nat : n < Unit[k + 1]}
  <2>1. n \in over
    <3>1. n + 1 \in Nat /\ Unit[n + 1] \in Nat
      BY UnitLaw
    <3>2. n + 1 < Unit[n + 1]
      BY <3>1, UnitAbove
    <3>3. QED
      BY <3>1, <3>2
  <2>2. PICK k \in over : \A m \in over : k <= m
    <3>1. over \in SUBSET Nat /\ over # {}
      BY <2>1
    <3> HIDE DEF over
    <3>2. QED
      BY <3>1, Least
  <2>3. k \in 0..n /\ n < Unit[k + 1]
    BY <2>1, <2>2
  <2>4. Unit[k] <= n
    <3>1. CASE k = 0
      BY <3>1, UnitLaw
    <3>2. CASE k # 0
      <4>1. k - 1 \in Nat /\ ~(k <= k - 1) /\ (k - 1) + 1 = k
        BY <2>3, <3>2
      <4>2. ~(n < Unit[k])
        BY <2>2, <4>1
      <4>3. Unit[k] \in Nat
        BY <2>3, UnitLaw
      <4>4. QED
        BY <4>2, <4>3
    <3>3. QED
      BY <3>1, <3>2
  <2>5. QED
    BY <2>3, <2>4
<1>2. /\ Index(n) \in 0..n /\ Unit[Index(n)] <= n /\ n < Unit[Index(n) + 1]
  BY <1>1 DEF Index
<1>3. ASSUME NEW k \in Nat, n < Unit[k] PROVE Index(n) < k
  <2> SUFFICES ASSUME ~(Index(n) < k) PROVE FALSE
    OBVIOUS
  <2>1. Index(n) \in Nat /\ k <= Index(n)
    BY <1>2
  <2>2. Unit[k] <= Unit[Index(n)] /\ Unit[k] \in Nat /\ Unit[Index(n)] \in Nat
    BY <2>1, UnitRises, UnitLaw
  <2>3. QED
    BY <1>2, <1>3, <2>2
<1>4. QED
  BY <1>2, <1>3

-----------------------------------------------------------------------------
(* Buckets.                                                                 *)

LEMMA DivBounds ==
  ASSUME NEW x \in Nat, NEW u \in Nat \ {0}
  PROVE  x \div u \in Nat /\ u * (x \div u) <= x /\ x < u * (x \div u) + u
  OBVIOUS

LEMMA DivDiv ==
  ASSUME NEW x \in Nat, NEW u \in Nat \ {0}, NEW s \in Nat \ {0}
  PROVE  x \div (s * u) = (x \div u) \div s
  OBVIOUS

LEMMA DivRises ==
  ASSUME NEW x \in Nat, NEW y \in Nat, NEW u \in Nat \ {0}, x <= y
  PROVE  x \div u <= y \div u
  OBVIOUS

LEMMA DivFurther ==
  ASSUME NEW x \in Nat, NEW y \in Nat, NEW u \in Nat \ {0}, x + u <= y
  PROVE  x \div u + 1 <= y \div u
  OBVIOUS

\* a is r more than q times s.
Splits(a, s, q, r) == r \in 0..(s - 1) /\ a = s * q + r

LEMMA SplitIs ==
  ASSUME NEW a \in Int, NEW s \in Nat \ {0, 1}, NEW q \in Int, NEW r, Splits(a, s, q, r)
  PROVE  a \div s = q /\ a % s = r
  BY DEF Splits

LEMMA SplitExists ==
  ASSUME NEW a \in Int, NEW s \in Nat \ {0, 1}
  PROVE  \E q \in Int : \E r : Splits(a, s, q, r)
<1>1. a \div s \in Int /\ a % s \in 0..(s - 1) /\ a % s = a - s * (a \div s)
  OBVIOUS
<1>2. PICK q \in Int, r \in 0..(s - 1) : r = a - s * q
  BY <1>1
<1>3. a = s * q + r
  BY <1>2
<1>4. QED
  BY <1>2, <1>3 DEF Splits

\* Equal remainders, and a difference that is a multiple.
LEMMA ModEqual ==
  ASSUME NEW a \in Nat, NEW b \in Nat, NEW s \in Nat \ {0, 1}
  PROVE  a % s = b % s <=> (a - b) % s = 0
<1>1. PICK q \in Int : \E r : Splits(a, s, q, r)
  BY SplitExists
<1>2. PICK r : Splits(a, s, q, r)
  BY <1>1
<1>3. PICK k \in Int : \E t : Splits(b, s, k, t)
  BY SplitExists
<1>4. PICK t : Splits(b, s, k, t)
  BY <1>3
<1>5. a % s = r /\ b % s = t
  BY <1>2, <1>4, SplitIs
<1>6. r \in 0..(s - 1) /\ t \in 0..(s - 1) /\ a - b = s * (q - k) + (r - t)
  BY <1>2, <1>4 DEF Splits
<1>7. PICK c \in Int : c = a - b
  OBVIOUS
<1>8. CASE r >= t
  <2>1. Splits(c, s, q - k, r - t) /\ q - k \in Int
    BY <1>6, <1>7, <1>8 DEF Splits
  <2>2. c % s = r - t
    BY <2>1, SplitIs
  <2>3. QED
    BY <1>5, <1>6, <1>7, <2>2
<1>9. CASE r < t
  <2>1. s + (r - t) \in 1..(s - 1) /\ (q - k) - 1 \in Int
    BY <1>6, <1>9
  <2>2. c = s * ((q - k) - 1) + (s + (r - t))
    BY <1>6, <1>7
  <2>3. Splits(c, s, (q - k) - 1, s + (r - t))
    BY <2>1, <2>2 DEF Splits
  <2>4. c % s = s + (r - t)
    BY <2>1, <2>3, SplitIs
  <2>5. QED
    BY <1>5, <1>6, <1>7, <1>9, <2>1, <2>4
<1>10. QED
  BY <1>6, <1>8, <1>9

\* The next number is in the next group of s if it is the first of one.
LEMMA DivNext ==
  ASSUME NEW a \in Nat, NEW s \in Nat \ {0, 1}
  PROVE  (a + 1) \div s = a \div s + IF (a + 1) % s = 0 THEN 1 ELSE 0
<1>1. PICK q \in Int : \E r : Splits(a, s, q, r)
  BY SplitExists
<1>2. PICK r : Splits(a, s, q, r)
  BY <1>1
<1>3. a \div s = q /\ r \in 0..(s - 1) /\ a = s * q + r
  BY <1>2, SplitIs DEF Splits
<1>4. PICK c \in Int : c = a + 1
  OBVIOUS
<1>5. CASE r = s - 1
  <2>1. Splits(c, s, q + 1, 0) /\ q + 1 \in Int
    BY <1>3, <1>4, <1>5 DEF Splits
  <2>2. c \div s = q + 1 /\ c % s = 0
    BY <2>1, SplitIs
  <2>3. QED
    BY <1>3, <1>4, <2>2
<1>6. CASE r # s - 1
  <2>1. Splits(c, s, q, r + 1) /\ r + 1 # 0
    BY <1>3, <1>4, <1>6 DEF Splits
  <2>2. c \div s = q /\ c % s = r + 1
    BY <2>1, SplitIs
  <2>3. QED
    BY <1>3, <1>4, <2>1, <2>2
<1>7. QED
  BY <1>5, <1>6

\* The bucket of x on wheel i, counted from time 0.
Bucket(x, i) == x \div Unit[i]

LEMMA BucketUp ==
  ASSUME NEW x \in Nat, NEW i \in Nat
  PROVE  /\ Bucket(x, i) \in Nat /\ Bucket(x, i + 1) = Bucket(x, i) \div Size
         /\ Offset(x, i) = Bucket(x, i) % Size
<1>1. PICK u \in Nat \ {0} : u = Unit[i]
  BY UnitLaw
<1>2. Unit[i + 1] = Size * u
  BY <1>1, UnitLaw
<1>3. x \div (Size * u) = (x \div u) \div Size
  BY Sizes, DivDiv
<1>4. x \div u \in Nat
  BY DivBounds
<1>5. QED
  BY <1>1, <1>2, <1>3, <1>4 DEF Bucket, Offset

\* The cursor is at the start of a bucket of wheel i.
AtStart(c, i) == \A j \in 0..(i - 1) : Offset(c, j) = 0

LEMMA StartUp ==
  ASSUME NEW c, NEW i \in Nat
  PROVE  AtStart(c, 0) /\ (AtStart(c, i + 1) <=> AtStart(c, i) /\ Offset(c, i) = 0)
<1>1. 0..(0 - 1) = {} /\ 0..((i + 1) - 1) = 0..(i - 1) \cup {i}
  OBVIOUS
<1>2. QED
  BY <1>1 DEF AtStart

\* The next bucket of the first wheel is in the next bucket of wheel i if it is
\* the first one in it.
Carried(c, i) ==
  Bucket(c + MinDelay, i) = Bucket(c, i) + IF AtStart(c + MinDelay, i) THEN 1 ELSE 0

LEMMA CarryStep ==
  ASSUME NEW c \in Nat, NEW i \in Nat, Carried(c, i)
  PROVE  Carried(c, i + 1)
<1>1. PICK d \in Nat : d = c + MinDelay
  BY Sizes
<1>2. PICK a \in Nat, b \in Nat : a = Bucket(c, i) /\ b = Bucket(d, i)
  BY BucketUp
<1>3. b = a + IF AtStart(d, i) THEN 1 ELSE 0
  BY <1>1, <1>2 DEF Carried
<1>4. /\ Bucket(c, i + 1) = a \div Size /\ Bucket(d, i + 1) = b \div Size
      /\ Offset(d, i) = b % Size
  BY <1>2, BucketUp
<1>5. AtStart(d, i + 1) <=> AtStart(d, i) /\ b % Size = 0
  BY <1>4, StartUp
<1>6. a \div Size \in Nat
  BY Sizes
<1>7. CASE AtStart(d, i)
  <2>1. b = a + 1
    BY <1>3, <1>7
  <2>2. (a + 1) \div Size = a \div Size + IF (a + 1) % Size = 0 THEN 1 ELSE 0
    BY Sizes, DivNext
  <2>3. QED
    BY <1>1, <1>4, <1>5, <1>7, <2>1, <2>2 DEF Carried
<1>8. CASE ~AtStart(d, i)
  BY <1>1, <1>3, <1>4, <1>5, <1>6, <1>8 DEF Carried
<1>9. QED
  BY <1>7, <1>8

LEMMA Carry == ASSUME NEW c \in Nat, NEW i \in Nat PROVE Carried(c, i)
<1> DEFINE bad == {k \in Nat : ~Carried(c, k)}
<1> SUFFICES ASSUME bad # {} PROVE FALSE
  OBVIOUS
<1>1. PICK k \in bad : \A m \in bad : k <= m
  <2>1. bad \in SUBSET Nat
    OBVIOUS
  <2> HIDE DEF bad
  <2>2. QED
    BY <2>1, Least
<1>2. Carried(c, 0)
  <2>1. Bucket(c + MinDelay, 0) = (c + MinDelay) \div MinDelay /\ Bucket(c, 0) = c \div MinDelay
    BY UnitLaw DEF Bucket
  <2>2. \A u \in Nat \ {0} : (c + u) \div u = c \div u + 1
    OBVIOUS
  <2>3. QED
    BY <2>1, <2>2, Sizes, StartUp DEF Carried
<1>3. k # 0
  BY <1>1, <1>2
<1>4. k - 1 \in Nat /\ ~(k <= k - 1) /\ (k - 1) + 1 = k
  BY <1>1, <1>3
<1>5. Carried(c, k - 1)
  BY <1>1, <1>4
<1>6. Carried(c, k)
  BY <1>4, <1>5, CarryStep
<1>7. QED
  BY <1>1, <1>6

\* A cursor at the start of a bucket is less than MinDelay behind the start.
Starting(c, i) == AtStart(c, i) => Unit[i] * Bucket(c, i) = MinDelay * Bucket(c, 0)

LEMMA StartBucket == ASSUME NEW c \in Nat, NEW i \in Nat PROVE Starting(c, i)
<1> DEFINE bad == {k \in Nat : ~Starting(c, k)}
<1> SUFFICES ASSUME bad # {} PROVE FALSE
  OBVIOUS
<1>1. PICK k \in bad : \A m \in bad : k <= m
  <2>1. bad \in SUBSET Nat
    OBVIOUS
  <2> HIDE DEF bad
  <2>2. QED
    BY <2>1, Least
<1>2. k \in Nat /\ AtStart(c, k) /\ ~Starting(c, k)
  BY <1>1 DEF Starting
<1>3. k # 0
  BY <1>2, UnitLaw DEF Starting
<1>4. k - 1 \in Nat /\ ~(k <= k - 1) /\ (k - 1) + 1 = k
  BY <1>2, <1>3
<1>5. PICK j \in Nat : j = k - 1 /\ j + 1 = k
  BY <1>4
<1>6. AtStart(c, j) /\ Offset(c, j) = 0
  BY <1>2, <1>5, StartUp
<1>7. Unit[j] * Bucket(c, j) = MinDelay * Bucket(c, 0)
  BY <1>1, <1>4, <1>5, <1>6 DEF Starting
<1>8. PICK a \in Nat, u \in Nat \ {0} : a = Bucket(c, j) /\ u = Unit[j]
  BY BucketUp, UnitLaw
<1>9. a % Size = 0 /\ Bucket(c, k) = a \div Size /\ Unit[k] = Size * u
  <2>1. Offset(c, j) = Bucket(c, j) % Size /\ Bucket(c, j + 1) = Bucket(c, j) \div Size
    BY BucketUp
  <2>2. Unit[j + 1] = Size * Unit[j]
    BY UnitLaw
  <2>3. QED
    BY <1>5, <1>6, <1>8, <2>1, <2>2
<1>10. PICK q \in Int : \E r : Splits(a, Size, q, r)
  <2>1. a \in Int /\ Size \in Nat \ {0, 1}
    BY <1>8, Sizes
  <2>2. QED
    BY <2>1, SplitExists
<1>11. a \div Size = q /\ a = Size * q
  <2>1. PICK r : Splits(a, Size, q, r)
    BY <1>10
  <2>2. a \div Size = q /\ a % Size = r
    BY <2>1, Sizes, SplitIs
  <2>3. QED
    BY <1>9, <2>1, <2>2, Sizes DEF Splits
<1>12. PICK s \in Int : s = Size
  BY Sizes
<1>13. (s * u) * q = u * (s * q)
  OBVIOUS
<1>14. QED
  <2>1. Unit[k] * Bucket(c, k) = (s * u) * q
    BY <1>9, <1>11, <1>12
  <2>2. Unit[j] * Bucket(c, j) = u * (s * q)
    BY <1>8, <1>11, <1>12
  <2>3. QED
    BY <1>2, <1>7, <1>13, <2>1, <2>2 DEF Starting

LEMMA StartClose ==
  ASSUME NEW c \in Nat, NEW i \in Nat, AtStart(c, i)
  PROVE  c < Unit[i] * Bucket(c, i) + MinDelay
<1>1. c < MinDelay * (c \div MinDelay) + MinDelay
  BY Sizes, DivBounds
<1>2. Bucket(c, 0) = c \div MinDelay
  BY UnitLaw DEF Bucket
<1>3. QED
  BY <1>1, <1>2, StartBucket DEF Starting

-----------------------------------------------------------------------------
(* Where timer_insert puts a timer.                                         *)

\* A cursor that has not passed now_us is before the bucket of a delay of n.
LEMMA AheadRunning ==
  ASSUME NEW c \in Nat, NEW x \in Nat, NEW i \in Nat, c + Unit[i] <= x
  PROVE  Bucket(x, i) - Bucket(c, i) >= 1
<1>1. c \div Unit[i] + 1 <= x \div Unit[i]
  BY UnitLaw, DivFurther
<1>2. Bucket(x, i) \in Nat /\ Bucket(c, i) \in Nat
  BY BucketUp
<1>3. QED
  BY <1>1, <1>2 DEF Bucket

\* One that has, by at most a bucket, is before it or at its start.
LEMMA AheadIdle ==
  ASSUME NEW c \in Nat, NEW n \in Nat, NEW x \in Nat, NEW i \in Nat,
         c <= n + MinDelay, n + Unit[i] <= x
  PROVE  Bucket(x, i) - Bucket(c, i) >= IF AtStart(c, i) THEN 0 ELSE 1
<1>1. Bucket(x, i) \in Nat /\ Bucket(c, i) \in Nat /\ Unit[i] \in Nat \ {0} /\ MinDelay \in Nat
  BY BucketUp, UnitLaw, Sizes
<1>2. CASE c <= n
  BY <1>1, <1>2, AheadRunning
<1>3. CASE ~(c <= n) /\ c < MinDelay
  <2>1. 0 + Unit[i] <= x /\ Bucket(0, i) = 0
    BY <1>1 DEF Bucket
  <2>2. Bucket(x, i) >= 1
    BY <1>1, <2>1, AheadRunning
  <2>3. MinDelay <= Unit[i]
    BY UnitRises, UnitLaw
  <2>4. c < Unit[i]
    BY <1>1, <1>3, <2>3
  <2>5. Bucket(c, i) = 0
    BY <1>1, <2>4 DEF Bucket
  <2>6. QED
    BY <1>1, <2>2, <2>5
<1>4. CASE c >= MinDelay
  <2>1. PICK d \in Nat : d + MinDelay = c /\ d <= n
    <3>1. c - MinDelay \in Nat /\ c - MinDelay <= n /\ (c - MinDelay) + MinDelay = c
      BY <1>1, <1>4
    <3>2. QED
      BY <3>1
  <2>2. Bucket(c, i) = Bucket(d, i) + IF AtStart(c, i) THEN 1 ELSE 0
    BY <2>1, Carry DEF Carried
  <2>3. d + Unit[i] <= x
    BY <1>1, <2>1
  <2>4. Bucket(x, i) - Bucket(d, i) >= 1 /\ Bucket(d, i) \in Nat
    BY <2>3, AheadRunning, BucketUp
  <2>5. QED
    BY <1>1, <2>2, <2>4
<1>5. QED
  BY <1>1, <1>2, <1>3, <1>4

-----------------------------------------------------------------------------
(* The inductive invariant.                                                 *)

TypeOK ==
  /\ {now, now_us, timer_pos, pos, wheel} \subseteq Nat
  /\ expires \in [Timer -> Nat]
  /\ pending \subseteq Timer /\ todo \subseteq Timer
  /\ bucket \in [Timer -> (Nat \X Nat) \cup {None}]
  /\ pc \in {"idle", "turn", "collapse", "bucket"}

\* The cursor is at most a bucket ahead of now_us, and Lag behind the clock.
ClockInv ==
  /\ now_us <= now
  /\ now <= Cursor + Lag
  /\ pc = "idle" => now_us <= timer_pos
  /\ pc \in {"idle", "turn"} => Cursor <= now_us + MinDelay
  /\ pc \in {"collapse", "bucket"} => pos <= now_us

\* What timer_run goes through is the list at the cursor.
RunInv ==
  /\ pc \in {"idle", "turn"} => todo = {}
  /\ pc = "collapse" =>
       wheel # 0 /\ AtStart(pos, wheel) /\ todo \subseteq List(wheel, Offset(pos, wheel))
  /\ pc = "bucket" => todo \subseteq List(0, Offset(pos, 0))

IInv == TypeOK /\ ClockInv /\ RunInv /\ Filed

\* Filed, for a timer that is to expire at x and is in the list b: it was put there
\* at time n or before; the cursor c is due to come to it, at once or later; and
\* its list is not emptied.
Put(b, x, n) == b[1] \in Wheels /\ b[2] = Offset(x, b[1]) /\ x < n + Unit[b[1] + 1]
Gap(b, x, c) == Bucket(x, b[1]) - Bucket(c, b[1])
AtOnce(t, b) == t \in todo \/ ToVisit(b[1])
Emptied(t, b) == pc = "bucket" /\ b[1] = 0 /\ t \notin todo
Due(t, b, x, c) ==
  Gap(b, x, c) >= (IF AtOnce(t, b) THEN 0 ELSE 1) /\ (Emptied(t, b) => Gap(b, x, c) % Size # 0)

FiledTimer(t) ==
  /\ t \in pending <=> bucket[t] # None
  /\ t \in pending =>
       /\ Put(bucket[t], expires[t] + MinDelay, now_us)
       /\ Due(t, bucket[t], expires[t] + MinDelay, Cursor)

LEMMA FiledIs == Filed <=> \A t \in Timer : FiledTimer(t)
  BY DEF Filed, FiledTimer, Put, Due, Gap, AtOnce, Emptied, Bucket

LEMMA FiledIsNext == Filed' <=> \A t \in Timer : FiledTimer(t)'
  BY DEF Filed, FiledTimer, Put, Due, Gap, AtOnce, Emptied, Bucket

LEMMA ToVisitIs ==
  ASSUME NEW i
  PROVE  ToVisit(i) <=> /\ AtStart(Cursor, i)
                        /\ \/ pc \in {"idle", "turn"}
                           \/ pc = "collapse" /\ (i = 0 \/ wheel < i)
  BY DEF ToVisit, AtStart

LEMMA ToVisitNext ==
  ASSUME NEW i
  PROVE  ToVisit(i)' <=> /\ AtStart(Cursor', i)
                         /\ \/ pc' \in {"idle", "turn"}
                            \/ pc' = "collapse" /\ (i = 0 \/ wheel' < i)
  BY DEF ToVisit, AtStart, Offset

LEMMA GapLaw ==
  ASSUME NEW b, b[1] \in Nat, NEW x \in Nat, NEW c \in Nat
  PROVE  Gap(b, x, c) \in Int /\ Bucket(x, b[1]) \in Nat /\ Bucket(c, b[1]) \in Nat
<1>1. Bucket(x, b[1]) \in Nat /\ Bucket(c, b[1]) \in Nat
  BY BucketUp
<1>2. QED
  BY <1>1 DEF Gap

\* A timer is in the list at the cursor if its bucket is a multiple of turns ahead.
LEMMA GapOffset ==
  ASSUME NEW b, b[1] \in Nat, NEW x \in Nat, NEW c \in Nat
  PROVE  /\ Offset(x, b[1]) = Offset(c, b[1]) <=> Gap(b, x, c) % Size = 0
         /\ Gap(b, x, c) = 0 => Offset(x, b[1]) = Offset(c, b[1])
<1>1. PICK p \in Nat, q \in Nat : p = Bucket(x, b[1]) /\ q = Bucket(c, b[1])
  BY BucketUp
<1>2. Offset(x, b[1]) = p % Size /\ Offset(c, b[1]) = q % Size /\ Gap(b, x, c) = p - q
  BY <1>1, BucketUp DEF Gap
<1>3. p % Size = q % Size <=> (p - q) % Size = 0
  <2>1. \A s \in Nat \ {0, 1} : p % s = q % s <=> (p - q) % s = 0
    BY ModEqual
  <2>2. QED
    BY <2>1, Sizes
<1>4. p - q = 0 => p = q
  OBVIOUS
<1>5. QED
  BY <1>2, <1>3, <1>4

\* Less than a turn of the first wheel ahead, by the width of a bucket.
LEMMA GapWithin ==
  ASSUME NEW x \in Nat, NEW c \in Nat, c + MinDelay <= x, x + MinDelay <= c + Size * MinDelay
  PROVE  (Bucket(x, 0) - Bucket(c, 0)) % Size # 0
<1>1. PICK u \in Nat \ {0}, s \in Nat \ {0, 1} : u = MinDelay /\ s = Size
  BY Sizes
<1>2. PICK p \in Nat, q \in Nat : p = x \div u /\ q = c \div u
  BY DivBounds
<1>3. Bucket(x, 0) = p /\ Bucket(c, 0) = q
  BY <1>1, <1>2, UnitLaw DEF Bucket
<1>4. u * p <= x /\ x < u * p + u /\ u * q <= c /\ c < u * q + u
  BY <1>2, DivBounds
<1>5. q + 1 <= p
  BY <1>1, <1>2, DivFurther
<1>6. p < q + s
  <2>1. u * p < u * q + u * s
    BY <1>1, <1>4
  <2>2. u * (q + s) = u * q + u * s
    OBVIOUS
  <2>3. \A y, z \in Nat : z <= y => u * z <= u * y
    OBVIOUS
  <2>4. u * p < u * (q + s) /\ q + s \in Nat
    BY <2>1, <2>2
  <2>5. ~(q + s <= p)
    BY <2>3, <2>4
  <2>6. QED
    BY <2>5
<1>7. p - q \in 1..(s - 1)
  BY <1>5, <1>6
<1>8. Splits(p - q, s, 0, p - q)
  BY <1>7 DEF Splits
<1>9. (p - q) % s = p - q
  BY <1>7, <1>8, SplitIs
<1>10. QED
  BY <1>1, <1>3, <1>7, <1>9

\* What is known of a pending timer.
LEMMA PendingTimer ==
  ASSUME IInv, NEW t \in pending
  PROVE  /\ t \in Timer /\ bucket[t] \in Nat \X Nat /\ bucket[t][1] \in Nat
         /\ bucket[t][1] + 1 \in Nat /\ bucket[t][1] + 1 <= WheelCount
         /\ expires[t] + MinDelay \in Nat /\ expires[t] \in Nat /\ Cursor \in Nat
         /\ Put(bucket[t], expires[t] + MinDelay, now_us)
         /\ Due(t, bucket[t], expires[t] + MinDelay, Cursor)
<1>1. FiledTimer(t) /\ t \in Timer
  BY FiledIs DEF IInv, TypeOK
<1>2. bucket[t] \in Nat \X Nat
  BY <1>1 DEF FiledTimer, IInv, TypeOK
<1>3. bucket[t][1] \in Wheels
  BY <1>1 DEF FiledTimer, Put
<1>4. \A i \in Wheels : i \in Nat /\ i + 1 \in Nat /\ i + 1 <= WheelCount
  BY Sizes DEF Wheels
<1>5. Cursor \in Nat /\ expires[t] \in Nat /\ expires[t] + MinDelay \in Nat
  BY <1>1, Sizes DEF IInv, TypeOK, Cursor
<1>6. QED
  BY <1>1, <1>2, <1>3, <1>4, <1>5 DEF FiledTimer

\* A timer whose list and time stay stays filed, if the cursor does.
LEMMA Kept ==
  ASSUME IInv, NEW t \in Timer, expires'[t] = expires[t], bucket'[t] = bucket[t],
         t \in pending' <=> t \in pending, now_us' \in Nat, now_us <= now_us', Cursor' = Cursor,
         t \in pending /\ AtOnce(t, bucket[t]) => AtOnce(t, bucket[t])',
         t \in pending /\ Emptied(t, bucket[t])' => Emptied(t, bucket[t])
  PROVE  FiledTimer(t)'
<1>1. FiledTimer(t)
  BY FiledIs DEF IInv
<1>2. CASE t \notin pending
  BY <1>1, <1>2 DEF FiledTimer
<1>3. CASE t \in pending
  <2>1. PICK b, x : b = bucket[t] /\ x = expires[t] + MinDelay
    OBVIOUS
  <2>2. /\ b \in Nat \X Nat /\ b[1] \in Nat /\ x \in Nat /\ Cursor \in Nat
        /\ Put(b, x, now_us) /\ Due(t, b, x, Cursor) /\ b[1] + 1 \in Nat
    BY <1>3, <2>1, PendingTimer
  <2>3. Unit[b[1] + 1] \in Nat /\ now_us \in Nat
    BY <2>2, UnitLaw DEF IInv, TypeOK
  <2>4. Put(b, x, now_us')
    BY <2>2, <2>3 DEF Put
  <2>5. Gap(b, x, Cursor) \in Int
    BY <2>2, GapLaw
  <2>6. PICK g \in Int : g = Gap(b, x, Cursor)
    BY <2>5
  <2>7. g >= (IF AtOnce(t, b) THEN 0 ELSE 1) /\ (Emptied(t, b) => g % Size # 0)
    BY <2>2, <2>6 DEF Due
  <2>8. b' = b /\ x' = x
    BY <2>1
  <2>9. /\ g >= (IF AtOnce(t, bucket[t])' THEN 0 ELSE 1)
        /\ (Emptied(t, bucket[t])' => g % Size # 0)
    BY <1>3, <2>1, <2>7
  <2>10. Due(t, bucket[t], expires[t] + MinDelay, Cursor)'
    <3>1. Gap(bucket[t], expires[t] + MinDelay, Cursor)' = g
      BY <2>1, <2>6 DEF Gap, Bucket
    <3>2. QED
      BY <2>9, <3>1 DEF Due
  <2>11. Put(bucket[t], expires[t] + MinDelay, now_us)'
    BY <2>1, <2>4 DEF Put, Offset
  <2>12. QED
    BY <1>1, <1>3, <2>10, <2>11 DEF FiledTimer
<1>4. QED
  BY <1>2, <1>3

\* timer_insert files a timer that expires after now_us.
LEMMA Inserted ==
  ASSUME IInv, NEW t \in Timer, NEW e \in Nat, Insert(t, e), now_us <= e,
         e + MinDelay < now_us + MaxDelay, now_us' = now_us, Cursor' = Cursor,
         pc \in {"idle", "collapse", "bucket"}, pc' = pc,
         pc = "bucket" => \/ now_us + Unit[1] <= e + MinDelay
                          \/ (e + MinDelay) + MinDelay <= pos + Size * MinDelay
  PROVE  FiledTimer(t)' /\ bucket'[t] \in Nat \X Nat
<1>1. /\ TypeOK /\ ClockInv /\ now_us \in Nat /\ MinDelay \in Nat \ {0} /\ Size \in Nat
      /\ Cursor \in Nat
  BY Sizes DEF IInv, TypeOK, Cursor
<1>2. PICK x \in Nat : x = e + MinDelay
  BY <1>1
<1>3. PICK n \in Nat : n = x - now_us /\ x = now_us + n /\ MinDelay <= n
  <2>1. x - now_us \in Nat /\ x = now_us + (x - now_us) /\ MinDelay <= x - now_us
    BY <1>1, <1>2
  <2>2. QED
    BY <2>1
<1>4. PICK i \in Nat : i = Index(n) /\ Unit[i] <= n /\ n < Unit[i + 1] /\ i < WheelCount
  <2>1. WheelCount \in Nat /\ MaxDelay \in Nat /\ n < Unit[WheelCount]
    BY <1>1, <1>2, <1>3, Sizes, UnitLaw DEF MaxDelay
  <2>2. QED
    BY <1>3, <2>1, IndexLaw
<1>5. i \in Wheels /\ Unit[i] \in Nat /\ Unit[i + 1] \in Nat
  BY <1>4, Sizes, UnitLaw DEF Wheels
<1>6. PICK b : b = <<i, Offset(x, i)>>
  OBVIOUS
<1>7. Place(e) = b
  BY <1>2, <1>3, <1>4, <1>6 DEF Place
<1>8. expires'[t] = e /\ t \in pending' /\ bucket'[t] = b
  BY <1>1, <1>7 DEF Insert, TypeOK
<1>9. b \in Nat \X Nat /\ b # None /\ b[1] = i /\ b[2] = Offset(x, i)
  <2>1. Offset(x, i) \in Nat
    <3>1. Bucket(x, i) \in Nat /\ Offset(x, i) = Bucket(x, i) % Size
      BY BucketUp
    <3>2. QED
      BY <3>1, Sizes
  <2>2. QED
    BY <1>6, <2>1, Sizes
<1>10. Put(b, x, now_us)
  BY <1>1, <1>3, <1>4, <1>5, <1>9 DEF Put
<1>11. now_us + Unit[i] <= x
  BY <1>1, <1>3, <1>4, <1>5
<1>12. Due(t, b, x, Cursor)'
  <2>1. PICK c \in Nat, g \in Int : c = Cursor /\ g = Bucket(x, i) - Bucket(c, i) /\ g = Gap(b, x, c)
    <3>1. Gap(b, x, Cursor) \in Int
      BY <1>1, <1>9, GapLaw
    <3>2. QED
      BY <1>1, <1>9, <3>1 DEF Gap
  <2>2. CASE pc = "idle"
    <3>1. c <= now_us + MinDelay
      BY <1>1, <2>1, <2>2 DEF ClockInv
    <3>2. g >= IF AtStart(c, i) THEN 0 ELSE 1
      BY <1>1, <1>11, <2>1, <3>1, AheadIdle
    <3>3. AtStart(c, i) => ToVisit(i)'
      BY <2>1, <2>2, ToVisitNext
    <3>4. ~Emptied(t, b)'
      BY <2>2 DEF Emptied
    <3>5. QED
      BY <1>9, <2>1, <3>2, <3>3, <3>4 DEF Due, AtOnce, Gap, Bucket
  <2>3. CASE pc \in {"collapse", "bucket"}
    <3>1. c = pos /\ c <= now_us
      BY <1>1, <2>1, <2>3 DEF ClockInv, Cursor
    <3>2. c + Unit[i] <= x
      BY <1>1, <1>5, <1>11, <3>1
    <3>3. g >= 1
      BY <2>1, <3>2, AheadRunning
    <3>4. ASSUME Emptied(t, b)' PROVE g % Size # 0
      <4>1. pc = "bucket" /\ i = 0
        BY <1>9, <3>4 DEF Emptied
      <4>2. n < Unit[1] /\ Unit[1] \in Nat /\ Unit[0] = MinDelay
        BY <1>4, <4>1, UnitLaw
      <4>3. ~(now_us + Unit[1] <= x)
        BY <1>1, <1>3, <4>2
      <4>4. x + MinDelay <= c + Size * MinDelay
        BY <1>2, <3>1, <4>1, <4>3
      <4>5. c + MinDelay <= x
        BY <3>2, <4>1, <4>2
      <4>6. QED
        BY <2>1, <4>1, <4>4, <4>5, GapWithin
    <3>5. QED
      BY <1>9, <2>1, <3>3, <3>4 DEF Due, Gap, Bucket
  <2>4. QED
    BY <2>2, <2>3
<1>13. QED
  BY <1>2, <1>8, <1>9, <1>10, <1>12 DEF FiledTimer, Put, Offset, Due, Gap, Bucket, AtOnce, Emptied

-----------------------------------------------------------------------------
(* Every step keeps it.                                                     *)

\* The calls that file or remove one timer.
Changes(t) ==
  /\ expires' = [expires EXCEPT ![t] = expires'[t]]
  /\ bucket' = [bucket EXCEPT ![t] = bucket'[t]]
  /\ pending' \cup {t} = pending \cup {t}
  /\ todo' = todo \ {t}
  /\ UNCHANGED <<now, now_us, timer_pos, pc, pos, wheel>>

LEMMA OthersKept ==
  ASSUME IInv, NEW t \in Timer, Changes(t), FiledTimer(t)', expires'[t] \in Nat,
         bucket'[t] \in (Nat \X Nat) \cup {None}
  PROVE  IInv'
<1>1. /\ TypeOK /\ Cursor' = Cursor /\ pc' = pc /\ wheel' = wheel /\ pos' = pos
      /\ now_us' = now_us /\ now_us \in Nat
  BY DEF IInv, Changes, TypeOK, Cursor
<1>2. TypeOK'
  BY <1>1 DEF TypeOK, Changes
<1>3. ClockInv'
  BY <1>1 DEF IInv, ClockInv, Changes
<1>4. \A o \in Timer : o # t =>
        /\ expires'[o] = expires[o] /\ bucket'[o] = bucket[o]
        /\ o \in pending' <=> o \in pending
        /\ o \in todo' <=> o \in todo
  BY <1>1 DEF Changes, TypeOK
<1>5. RunInv'
  <2>1. t \notin todo' /\ todo' \subseteq todo
    BY DEF Changes
  <2>2. \A k : \A o : todo \subseteq List(k, o) => todo' \subseteq List(k, o)'
    BY <1>1, <1>4, <2>1 DEF List, TypeOK
  <2>3. \A k : AtStart(pos, k)' <=> AtStart(pos, k)
    BY <1>1 DEF AtStart, Offset
  <2>4. \A k : Offset(pos, k)' = Offset(pos, k)
    BY <1>1 DEF Offset
  <2>5. pc' \in {"idle", "turn"} => todo' = {}
    BY <1>1, <2>1 DEF IInv, RunInv
  <2>6. pc' = "collapse" => wheel' # 0 /\ AtStart(pos, wheel)'
                            /\ todo' \subseteq List(wheel, Offset(pos, wheel))'
    <3>1. AtStart(pos, wheel)' <=> AtStart(pos, wheel)
      BY <1>1 DEF AtStart, Offset
    <3>2. todo \subseteq List(wheel, Offset(pos, wheel))
            => todo' \subseteq List(wheel, Offset(pos, wheel))'
      BY <1>1, <1>4, <2>1 DEF List, TypeOK, Offset
    <3>3. QED
      BY <1>1, <3>1, <3>2 DEF IInv, RunInv
  <2>7. pc' = "bucket" => todo' \subseteq List(0, Offset(pos, 0))'
    <3>1. todo \subseteq List(0, Offset(pos, 0)) => todo' \subseteq List(0, Offset(pos, 0))'
      BY <1>1, <1>4, <2>1 DEF List, TypeOK, Offset
    <3>2. QED
      BY <1>1, <3>1 DEF IInv, RunInv
  <2>8. QED
    BY <2>5, <2>6, <2>7 DEF RunInv
<1>6. ASSUME NEW o \in Timer, o # t PROVE FiledTimer(o)'
  <2>1. \A i : ToVisit(i)' <=> ToVisit(i)
    BY <1>1 DEF ToVisit, Offset
  <2>2. AtOnce(o, bucket[o]) => AtOnce(o, bucket[o])'
    BY <1>4, <1>6, <2>1 DEF AtOnce
  <2>3. Emptied(o, bucket[o])' => Emptied(o, bucket[o])
    BY <1>1, <1>4, <1>6 DEF Emptied
  <2>4. QED
    BY <1>1, <1>4, <1>6, <2>2, <2>3, Kept
<1>7. Filed'
  BY <1>6, FiledIsNext
<1>8. QED
  BY <1>2, <1>3, <1>5, <1>7 DEF IInv

LEMMA DeleteStep ==
  ASSUME IInv, NEW t \in Timer, Delete(t), todo' = todo \ {t},
         UNCHANGED <<now, now_us, timer_pos, pc, pos, wheel>>
  PROVE  IInv'
<1>1. /\ TypeOK /\ expires' = expires /\ pending' = pending \ {t}
      /\ bucket' = [bucket EXCEPT ![t] = None]
  BY DEF IInv, Delete
<1>2. bucket'[t] = None /\ expires'[t] \in Nat /\ t \notin pending'
  BY <1>1 DEF TypeOK
<1>3. Changes(t)
  BY <1>1, <1>2 DEF Changes, TypeOK
<1>4. FiledTimer(t)'
  BY <1>2 DEF FiledTimer
<1>5. QED
  BY <1>2, <1>3, <1>4, OthersKept

LEMMA InsertStep ==
  ASSUME IInv, NEW t \in Timer, NEW e \in Nat, Insert(t, e), now_us <= e,
         e + MinDelay < now_us + MaxDelay, pc \in {"idle", "collapse", "bucket"},
         todo' = todo \ {t}, UNCHANGED <<now, now_us, timer_pos, pc, pos, wheel>>,
         pc = "bucket" => \/ now_us + Unit[1] <= e + MinDelay
                          \/ (e + MinDelay) + MinDelay <= pos + Size * MinDelay
  PROVE  IInv'
<1>1. /\ TypeOK /\ expires' = [expires EXCEPT ![t] = e] /\ pending' = pending \cup {t}
      /\ bucket' = [bucket EXCEPT ![t] = Place(e)] /\ Cursor' = Cursor
  BY DEF IInv, Insert, Cursor
<1>2. FiledTimer(t)' /\ bucket'[t] \in Nat \X Nat
  BY <1>1, Inserted
<1>3. bucket'[t] = Place(e) /\ expires'[t] = e
  BY <1>1 DEF TypeOK
<1>4. Changes(t)
  BY <1>1, <1>3 DEF Changes, TypeOK
<1>5. QED
  BY <1>2, <1>3, <1>4, OthersKept

\* An owner or a handler arms a timer with a delay that fits.
LEMMA ArmStep ==
  ASSUME IInv, Fits, NEW t \in Timer, NEW d \in Delays, Insert(t, now + d),
         pc \in {"idle", "collapse", "bucket"}, todo' = todo \ {t},
         UNCHANGED <<now, now_us, timer_pos, pc, pos, wheel>>
  PROVE  IInv'
<1>1. PICK M \in Nat \ {0}, L \in Nat, D \in Nat : M = MinDelay /\ L = Lag /\ D = d
  BY Sizes
<1>2. PICK T \in Nat, B \in Nat : T = Size * M /\ B = MaxDelay
  BY <1>1, Sizes, UnitLaw DEF MaxDelay
<1>3. D + 2 * M + L < B /\ (D + M >= T \/ D + 2 * M + L <= T)
  BY <1>1, <1>2 DEF Fits
<1>4. /\ {now, now_us, pos} \subseteq Nat /\ now_us <= now /\ now <= Cursor + L
      /\ Cursor <= now_us + M /\ (pc = "bucket" => Cursor = pos) /\ Cursor \in Nat
  BY <1>1 DEF IInv, TypeOK, ClockInv, Cursor
<1>5. PICK e \in Nat : e = now + D /\ e = now + d
  BY <1>1, <1>4
<1>6. now_us <= e
  BY <1>4, <1>5
<1>7. e + M < now_us + B
  BY <1>3, <1>4, <1>5
<1>8. Unit[1] = T
  BY <1>1, <1>2, UnitLaw
<1>9. pc = "bucket" => now_us + T <= e + M \/ (e + M) + M <= pos + T
  BY <1>3, <1>4, <1>5
<1>10. Insert(t, e)
  BY <1>5
<1>11. QED
  BY <1>1, <1>2, <1>6, <1>7, <1>8, <1>9, <1>10, InsertStep

LEMMA HandlerStep ==
  ASSUME IInv, Fits, NEW t \in Timer, Handler(t),
         pc \in {"collapse", "bucket"}, todo' = todo \ {t},
         UNCHANGED <<now, now_us, timer_pos, pc, pos, wheel>>
  PROVE  IInv'
<1>1. CASE Delete(t)
  BY <1>1, DeleteStep
<1>2. CASE \E d \in Delays : Insert(t, now + d)
  BY <1>2, ArmStep
<1>3. QED
  BY <1>1, <1>2 DEF Handler

LEMMA ReinsertStep == ASSUME IInv, Fits, NEW t \in Timer, Reinsert(t) PROVE IInv'
<1>1. /\ pc = "collapse" /\ t \in todo /\ todo' = todo \ {t}
      /\ UNCHANGED <<now, now_us, timer_pos, pc, pos, wheel>>
  BY DEF Reinsert
<1>2. CASE expires[t] <= now_us
  BY <1>1, <1>2, HandlerStep DEF Reinsert
<1>3. CASE ~(expires[t] <= now_us)
  <2>1. PICK e \in Nat : e = expires[t]
    BY DEF IInv, TypeOK
  <2>2. t \in pending
    <3>1. bucket[t] # None
      <4>1. bucket[t] = <<wheel, Offset(pos, wheel)>>
        BY <1>1 DEF IInv, RunInv, List
      <4>2. wheel \in Nat /\ pos \in Nat
        BY DEF IInv, TypeOK
      <4>3. Offset(pos, wheel) \in Nat
        <5>1. Bucket(pos, wheel) \in Nat /\ Offset(pos, wheel) = Bucket(pos, wheel) % Size
          BY <4>2, BucketUp
        <5>2. QED
          BY <5>1, Sizes
      <4>4. QED
        BY <4>1, <4>2, <4>3, Sizes
    <3>2. QED
      BY <3>1, FiledIs DEF IInv, FiledTimer
  <2>3. PICK k \in Nat : k = bucket[t][1] + 1 /\ k <= WheelCount /\ e + MinDelay < now_us + Unit[k]
    BY <2>1, <2>2, PendingTimer DEF Put
  <2>4. Unit[k] <= MaxDelay /\ Unit[k] \in Nat /\ MaxDelay \in Nat
    BY <2>3, Sizes, UnitRises, UnitLaw DEF MaxDelay
  <2>5. now_us \in Nat /\ MinDelay \in Nat
    BY Sizes DEF IInv, TypeOK
  <2>6. e + MinDelay < now_us + MaxDelay
    BY <2>3, <2>4, <2>5
  <2>7. Insert(t, e) /\ now_us <= e
    BY <1>3, <2>1, <2>5 DEF Reinsert
  <2>8. QED
    BY <1>1, <2>6, <2>7, InsertStep
<1>4. QED
  BY <1>2, <1>3

\* timer_run comes to a list: it has gone through every other list that it had
\* still to go through, or will.
LEMMA Entered ==
  ASSUME IInv, NEW where \in {"collapse", "bucket"}, NEW idx \in Nat, Enter(where, idx),
         pc \in {"turn", "collapse"}, todo = {}, pos <= now_us,
         where = "bucket" => idx = 0, where = "collapse" => idx # 0 /\ AtStart(pos, idx),
         UNCHANGED <<now, now_us, timer_pos, expires, pending, bucket, pos>>,
         \A i \in Wheels : i # idx /\ ToVisit(i) => ToVisit(i)'
  PROVE  IInv'
<1>1. /\ pc' = where /\ wheel' = idx /\ todo' = List(idx, Offset(pos, idx))
      /\ Cursor = pos /\ Cursor' = pos /\ pos \in Nat /\ TypeOK
  BY DEF IInv, Enter, Cursor, TypeOK
<1>2. TypeOK'
  BY <1>1 DEF TypeOK, List
<1>3. ClockInv'
  BY <1>1 DEF IInv, ClockInv
<1>4. RunInv'
  BY <1>1 DEF RunInv, List, AtStart, Offset
<1>5. ASSUME NEW t \in Timer PROVE FiledTimer(t)'
  <2>1. FiledTimer(t)
    BY FiledIs DEF IInv
  <2>2. CASE t \notin pending
    BY <2>1, <2>2 DEF FiledTimer
  <2>3. CASE t \in pending
    <3>1. PICK b, x : b = bucket[t] /\ x = expires[t] + MinDelay
      OBVIOUS
    <3>2. /\ b \in Nat \X Nat /\ b[1] \in Nat /\ x \in Nat /\ Put(b, x, now_us)
          /\ Due(t, b, x, pos)
      BY <1>1, <2>3, <3>1, PendingTimer
    <3>3. PICK g \in Int : g = Gap(b, x, pos)
      BY <1>1, <3>2, GapLaw
    <3>4. b = <<b[1], Offset(x, b[1])>> /\ b[1] \in Wheels
      BY <3>2 DEF Put
    <3>5. b[1] = idx /\ t \notin todo' => Offset(x, b[1]) # Offset(pos, b[1])
      BY <1>1, <3>1, <3>4 DEF List
    <3>6. b[1] = idx /\ t \notin todo' => g # 0 /\ g % Size # 0
      BY <1>1, <3>2, <3>3, <3>5, GapOffset
    <3>7. g >= 0 /\ (~ToVisit(b[1]) => g >= 1)
      BY <3>2, <3>3 DEF Due, AtOnce
    <3>8. ~(t \in todo' \/ ToVisit(b[1])') => g >= 1
      BY <3>3, <3>4, <3>6, <3>7
    <3>9. pc' = "bucket" /\ b[1] = 0 /\ t \notin todo' => g % Size # 0
      BY <1>1, <3>6
    <3>10. b' = b /\ x' = x
      BY <3>1
    <3>11. Due(t, bucket[t], expires[t] + MinDelay, Cursor)'
      <4>1. Gap(bucket[t], expires[t] + MinDelay, Cursor)' = g
        BY <1>1, <3>1, <3>3 DEF Gap, Bucket
      <4>2. AtOnce(t, bucket[t])' <=> t \in todo' \/ ToVisit(b[1])'
        BY <3>1 DEF AtOnce, ToVisit, Offset
      <4>3. Emptied(t, bucket[t])' <=> pc' = "bucket" /\ b[1] = 0 /\ t \notin todo'
        BY <3>1 DEF Emptied
      <4>4. QED
        BY <3>3, <3>7, <3>8, <3>9, <4>1, <4>2, <4>3 DEF Due
    <3>12. Put(bucket[t], expires[t] + MinDelay, now_us)'
      BY <3>1, <3>2 DEF Put, Offset
    <3>13. QED
      BY <2>1, <2>3, <3>11, <3>12 DEF FiledTimer
  <2>4. QED
    BY <2>2, <2>3
<1>6. Filed'
  BY <1>5, FiledIsNext
<1>7. QED
  BY <1>2, <1>3, <1>4, <1>6 DEF IInv

LEMMA WheelNats == \A i \in Wheels : i \in Nat /\ i < WheelCount
  BY Sizes DEF Wheels

LEMMA TurnStep == ASSUME IInv, Turn PROVE IInv'
<1>1. /\ pc = "turn" /\ todo = {} /\ pos <= now_us /\ Cursor = pos /\ Cursor' = pos
      /\ UNCHANGED <<now, now_us, timer_pos, expires, pending, bucket, pos>>
  BY DEF IInv, RunInv, Turn, Enter, Cursor
<1>2. CASE Offset(pos, 0) = 0
  <2>1. Enter("collapse", 1)
    BY <1>2 DEF Turn
  <2>2. AtStart(pos, 1)
    BY <1>2, StartUp, 0 + 1 = 1
  <2>3. ASSUME NEW i \in Wheels, i # 1, ToVisit(i) PROVE ToVisit(i)'
    <3>1. i = 0 \/ 1 < i
      BY <2>3, WheelNats
    <3>2. AtStart(Cursor', i)
      BY <1>1, <2>3, ToVisitIs
    <3>3. QED
      BY <2>1, <3>1, <3>2, ToVisitNext DEF Enter
  <2>4. QED
    BY <1>1, <2>1, <2>2, <2>3, Entered
<1>3. CASE Offset(pos, 0) # 0
  <2>1. Enter("bucket", 0)
    BY <1>3 DEF Turn
  <2>2. ASSUME NEW i \in Wheels, i # 0, ToVisit(i) PROVE ToVisit(i)'
    <3>1. AtStart(pos, i) /\ 0 \in 0..(i - 1)
      BY <1>1, <2>2, ToVisitIs, WheelNats
    <3>2. QED
      BY <1>3, <3>1 DEF AtStart
  <2>3. QED
    BY <1>1, <2>1, <2>2, Entered
<1>4. QED
  BY <1>2, <1>3

LEMMA NextWheelStep == ASSUME IInv, NextWheel PROVE IInv'
<1>1. /\ pc = "collapse" /\ todo = {} /\ pos <= now_us /\ Cursor = pos /\ Cursor' = pos
      /\ UNCHANGED <<now, now_us, timer_pos, expires, pending, bucket, pos>>
      /\ wheel \in Nat \ {0} /\ AtStart(pos, wheel)
  BY DEF IInv, TypeOK, ClockInv, RunInv, NextWheel, Enter, Cursor
<1>2. CASE wheel + 1 < WheelCount /\ Offset(pos, wheel) = 0
  <2>1. Enter("collapse", wheel + 1)
    BY <1>2 DEF NextWheel
  <2>2. AtStart(pos, wheel + 1) /\ wheel + 1 \in Nat \ {0}
    BY <1>1, <1>2, StartUp
  <2>3. ASSUME NEW i \in Wheels, i # wheel + 1, ToVisit(i) PROVE ToVisit(i)'
    <3>1. AtStart(Cursor', i) /\ (i = 0 \/ wheel < i)
      BY <1>1, <2>3, ToVisitIs
    <3>2. i = 0 \/ wheel + 1 < i
      BY <1>1, <2>3, <3>1, WheelNats
    <3>3. QED
      BY <2>1, <3>1, <3>2, ToVisitNext DEF Enter
  <2>4. QED
    BY <1>1, <2>1, <2>2, <2>3, Entered
<1>3. CASE ~(wheel + 1 < WheelCount /\ Offset(pos, wheel) = 0)
  <2>1. Enter("bucket", 0)
    BY <1>3 DEF NextWheel
  <2>2. ASSUME NEW i \in Wheels, i # 0, ToVisit(i) PROVE ToVisit(i)'
    <3>1. AtStart(pos, i) /\ wheel < i
      BY <1>1, <2>2, ToVisitIs
    <3>2. i \in Nat /\ i < WheelCount
      BY WheelNats
    <3>3. wheel \in 0..(i - 1) /\ wheel + 1 < WheelCount
      BY <1>1, <3>1, <3>2, Sizes
    <3>4. QED
      BY <1>3, <3>1, <3>3 DEF AtStart
  <2>3. QED
    BY <1>1, <2>1, <2>2, Entered
<1>4. QED
  BY <1>2, <1>3

\* No handler has put a timer into the list that timer_run_bucket empties.
LEMMA NoneEmptied == ASSUME IInv, EndBucket PROVE bucket' = bucket
<1>1. /\ pc = "bucket" /\ todo = {} /\ Cursor = pos /\ TypeOK
      /\ bucket' = [t \in Timer |->
                     IF bucket[t] = <<0, Offset(pos, 0)>> THEN None ELSE bucket[t]]
  BY DEF EndBucket, IInv, Cursor
<1>2. ASSUME NEW t \in Timer, bucket[t] = <<0, Offset(pos, 0)>> PROVE bucket[t] = None
  <2>1. SUFFICES ASSUME t \in pending PROVE FALSE
    BY FiledIs DEF IInv, FiledTimer
  <2>2. PICK b, x : b = bucket[t] /\ x = expires[t] + MinDelay
    OBVIOUS
  <2>3. /\ b[1] \in Nat /\ x \in Nat /\ pos \in Nat /\ Put(b, x, now_us) /\ Due(t, b, x, pos)
    BY <1>1, <2>1, <2>2, PendingTimer
  <2>4. b[1] = 0 /\ b[2] = Offset(pos, 0)
    BY <1>2, <2>2
  <2>5. Gap(b, x, pos) % Size # 0
    BY <1>1, <2>3, <2>4 DEF Due, Emptied
  <2>6. Offset(x, 0) # Offset(pos, 0)
    BY <2>3, <2>4, <2>5, GapOffset
  <2>7. QED
    BY <2>3, <2>4, <2>6 DEF Put
<1>3. QED
  BY <1>1, <1>2 DEF TypeOK

LEMMA EndBucketStep == ASSUME IInv, EndBucket PROVE IInv'
<1>1. /\ pc = "bucket" /\ todo = {} /\ Cursor = pos /\ TypeOK /\ pos \in Nat
      /\ pos' = pos + MinDelay /\ pc' = "turn"
      /\ UNCHANGED <<now, now_us, timer_pos, expires, pending, wheel, todo>>
  BY DEF EndBucket, IInv, Cursor, TypeOK
<1>2. bucket' = bucket
  BY NoneEmptied
<1>3. PICK d \in Nat : d = pos + MinDelay
  BY <1>1, Sizes
<1>4. Cursor' = d /\ pos' = d
  BY <1>1, <1>3 DEF Cursor
<1>5. TypeOK'
  BY <1>1, <1>2, <1>4 DEF TypeOK
<1>6. ClockInv'
  <2>1. /\ {now, now_us, MinDelay, Lag} \subseteq Nat /\ now_us <= now /\ now <= pos + Lag
        /\ pos <= now_us
    BY <1>1, Sizes DEF IInv, TypeOK, ClockInv
  <2>2. now <= d + Lag /\ d <= now_us + MinDelay
    BY <1>1, <1>3, <2>1
  <2>3. QED
    BY <1>1, <1>4, <2>1, <2>2 DEF ClockInv
<1>7. RunInv'
  BY <1>1 DEF RunInv
<1>8. ASSUME NEW t \in Timer PROVE FiledTimer(t)'
  <2>1. FiledTimer(t)
    BY FiledIs DEF IInv
  <2>2. CASE t \notin pending
    BY <1>1, <1>2, <2>1, <2>2 DEF FiledTimer
  <2>3. CASE t \in pending
    <3>1. PICK b, x : b = bucket[t] /\ x = expires[t] + MinDelay
      OBVIOUS
    <3>2. /\ b[1] \in Nat /\ x \in Nat /\ Put(b, x, now_us) /\ Due(t, b, x, pos)
      BY <1>1, <2>3, <3>1, PendingTimer
    <3>3. PICK g \in Int, h \in Int : g = Gap(b, x, pos) /\ h = Gap(b, x, d)
      BY <1>1, <1>3, <3>2, GapLaw
    <3>4. ~AtOnce(t, b)
      BY <1>1, ToVisitIs DEF AtOnce
    <3>5. g >= 1
      BY <3>2, <3>3, <3>4 DEF Due
    <3>6. h = g - IF AtStart(d, b[1]) THEN 1 ELSE 0
      <4>1. Bucket(d, b[1]) = Bucket(pos, b[1]) + IF AtStart(d, b[1]) THEN 1 ELSE 0
        BY <1>1, <1>3, <3>2, Carry DEF Carried
      <4>2. /\ Bucket(d, b[1]) \in Nat /\ Bucket(pos, b[1]) \in Nat /\ Bucket(x, b[1]) \in Nat
            /\ g = Bucket(x, b[1]) - Bucket(pos, b[1]) /\ h = Bucket(x, b[1]) - Bucket(d, b[1])
        BY <1>1, <1>3, <3>2, <3>3, GapLaw DEF Gap
      <4>3. QED
        BY <4>1, <4>2
    <3>7. ToVisit(b[1])' <=> AtStart(d, b[1])
      <4>1. \A i : ToVisit(i)' <=> AtStart(d, i)
        BY <1>1, <1>4, ToVisitNext
      <4>2. b' = b
        BY <1>2, <3>1
      <4>3. QED
        BY <4>1, <4>2 DEF ToVisit, Offset
    <3>8. Due(t, bucket[t], expires[t] + MinDelay, Cursor)'
      <4>1. Gap(bucket[t], expires[t] + MinDelay, Cursor)' = h
        BY <1>1, <1>2, <1>4, <3>1, <3>3 DEF Gap, Bucket
      <4>2. AtOnce(t, bucket[t])' <=> AtStart(d, b[1])
        BY <1>1, <1>2, <3>1, <3>7 DEF AtOnce, ToVisit, Offset
      <4>3. ~Emptied(t, bucket[t])'
        BY <1>1 DEF Emptied
      <4>4. QED
        BY <3>3, <3>5, <3>6, <4>1, <4>2, <4>3 DEF Due
    <3>9. Put(bucket[t], expires[t] + MinDelay, now_us)'
      BY <1>1, <1>2, <3>1, <3>2 DEF Put, Offset
    <3>10. QED
      BY <1>1, <1>2, <2>1, <2>3, <3>8, <3>9 DEF FiledTimer
  <2>4. QED
    BY <2>2, <2>3
<1>9. Filed'
  BY <1>8, FiledIsNext
<1>10. QED
  BY <1>5, <1>6, <1>7, <1>9 DEF IInv

\* Steps that leave the lists and the cursor where they are.
LEMMA AllKept ==
  ASSUME IInv, UNCHANGED <<expires, pending, bucket, wheel, todo>>, Cursor' = Cursor,
         now_us' \in Nat, now_us <= now_us', pc' = pc \/ {pc, pc'} \subseteq {"idle", "turn"}
  PROVE  Filed'
<1>1. ASSUME NEW t \in Timer PROVE FiledTimer(t)'
  <2>1. \A i : ToVisit(i) => ToVisit(i)'
    BY ToVisitIs, ToVisitNext
  <2>2. AtOnce(t, bucket[t]) => AtOnce(t, bucket[t])'
    BY <2>1 DEF AtOnce
  <2>3. Emptied(t, bucket[t])' => Emptied(t, bucket[t])
    BY DEF Emptied
  <2>4. QED
    BY <2>2, <2>3, Kept
<1>2. QED
  BY <1>1, FiledIsNext

LEMMA TickStep == ASSUME IInv, Polled, Tick PROVE IInv'
<1>1. /\ TypeOK /\ now' = now + 1 /\ now - Cursor < Lag /\ Cursor' = Cursor
      /\ UNCHANGED <<now_us, timer_pos, expires, pending, bucket, runVars>>
  BY DEF IInv, Tick, Cursor, runVars
<1>2. {now, now_us, Cursor, Lag} \subseteq Nat /\ now_us <= now
  BY <1>1, Sizes DEF IInv, TypeOK, ClockInv, Cursor
<1>3. TypeOK'
  BY <1>1 DEF TypeOK, runVars
<1>4. ClockInv'
  <2>1. now_us <= now + 1 /\ now + 1 <= Cursor + Lag
    BY <1>1, <1>2
  <2>2. QED
    BY <1>1, <2>1 DEF IInv, ClockInv, runVars
<1>5. RunInv'
  BY <1>1 DEF IInv, RunInv, List, AtStart, Offset, runVars
<1>6. Filed'
  BY <1>1, <1>2, AllKept DEF runVars
<1>7. QED
  BY <1>3, <1>4, <1>5, <1>6 DEF IInv

LEMMA StartRunStep == ASSUME IInv, StartRun PROVE IInv'
<1>1. /\ TypeOK /\ pc = "idle" /\ pc' = "turn" /\ now_us' = now /\ pos' = timer_pos
      /\ Cursor = timer_pos /\ Cursor' = timer_pos /\ todo = {}
      /\ UNCHANGED <<now, timer_pos, expires, pending, bucket, wheel, todo>>
  BY DEF IInv, RunInv, StartRun, Cursor
<1>2. /\ {now, now_us, timer_pos, MinDelay, Lag} \subseteq Nat /\ now_us <= now
      /\ now <= timer_pos + Lag /\ timer_pos <= now_us + MinDelay
  BY <1>1, Sizes DEF IInv, TypeOK, ClockInv
<1>3. TypeOK'
  BY <1>1 DEF TypeOK
<1>4. ClockInv'
  <2>1. timer_pos <= now + MinDelay /\ now <= now
    BY <1>2
  <2>2. QED
    BY <1>1, <1>2, <2>1 DEF ClockInv
<1>5. RunInv'
  BY <1>1 DEF RunInv
<1>6. Filed'
  BY <1>1, <1>2, AllKept
<1>7. QED
  BY <1>3, <1>4, <1>5, <1>6 DEF IInv

LEMMA EndRunStep == ASSUME IInv, EndRun PROVE IInv'
<1>1. /\ TypeOK /\ pc = "turn" /\ pc' = "idle" /\ pos > now_us /\ timer_pos' = pos
      /\ Cursor = pos /\ Cursor' = pos /\ todo = {}
      /\ UNCHANGED <<now, now_us, expires, pending, bucket, pos, wheel, todo>>
  BY DEF IInv, RunInv, EndRun, Cursor
<1>2. {now_us, pos} \subseteq Nat /\ now_us <= pos
  BY <1>1 DEF TypeOK
<1>3. TypeOK'
  BY <1>1 DEF TypeOK
<1>4. ClockInv'
  BY <1>1, <1>2 DEF IInv, ClockInv
<1>5. RunInv'
  BY <1>1 DEF RunInv
<1>6. Filed'
  BY <1>1, <1>2, AllKept
<1>7. QED
  BY <1>3, <1>4, <1>5, <1>6 DEF IInv

LEMMA InitHolds == Init => IInv
<1> SUFFICES ASSUME Init PROVE IInv
  OBVIOUS
<1>1. /\ now \in Nat /\ now_us = now /\ timer_pos = now /\ pc = "idle" /\ pos = 0 /\ wheel = 0
      /\ expires = [t \in Timer |-> 0] /\ pending = {} /\ todo = {}
      /\ bucket = [t \in Timer |-> None] /\ Cursor = now
  BY Sizes DEF Init, Cursor
<1>2. TypeOK
  BY <1>1 DEF TypeOK
<1>3. ClockInv
  BY <1>1, Sizes DEF ClockInv
<1>4. RunInv
  BY <1>1 DEF RunInv
<1>5. Filed
  BY <1>1 DEF Filed
<1>6. QED
  BY <1>2, <1>3, <1>4, <1>5 DEF IInv

LEMMA NextHolds == ASSUME Fits, Polled, IInv, [Next]_vars PROVE IInv'
<1>1. CASE Tick
  BY <1>1, TickStep
<1>2. CASE StartRun
  BY <1>2, StartRunStep
<1>3. CASE Turn
  BY <1>3, TurnStep
<1>4. CASE EndRun
  BY <1>4, EndRunStep
<1>5. CASE NextWheel
  BY <1>5, NextWheelStep
<1>6. CASE EndBucket
  BY <1>6, EndBucketStep
<1>7. ASSUME NEW t \in Timer, Mod(t) PROVE IInv'
  <2>1. /\ pc = "idle" /\ todo' = todo \ {t}
        /\ UNCHANGED <<now, now_us, timer_pos, pc, pos, wheel>>
    BY <1>7 DEF Mod, IInv, RunInv, runVars
  <2>2. QED
    BY <1>7, <2>1, ArmStep DEF Mod
<1>8. ASSUME NEW t \in Timer, Del(t) PROVE IInv'
  <2>1. todo' = todo \ {t} /\ UNCHANGED <<now, now_us, timer_pos, pc, pos, wheel>>
    BY <1>8 DEF Del, IInv, RunInv, runVars
  <2>2. QED
    BY <1>8, <2>1, DeleteStep DEF Del
<1>9. ASSUME NEW t \in Timer, Reinsert(t) PROVE IInv'
  BY <1>9, ReinsertStep
<1>10. ASSUME NEW t \in Timer, Run(t) PROVE IInv'
  BY <1>10, HandlerStep DEF Run
<1>11. CASE UNCHANGED vars
  <2>1. Cursor' = Cursor /\ now_us' \in Nat /\ now_us <= now_us'
    BY <1>11 DEF vars, runVars, Cursor, IInv, TypeOK
  <2>2. Filed'
    BY <1>11, <2>1, AllKept DEF vars, runVars
  <2>3. TypeOK' /\ ClockInv' /\ RunInv'
    BY <1>11, <2>1
       DEF vars, runVars, IInv, TypeOK, ClockInv, RunInv, List, AtStart, Offset
  <2>4. QED
    BY <2>2, <2>3 DEF IInv
<1>12. QED
  BY <1>1, <1>2, <1>3, <1>4, <1>5, <1>6, <1>7, <1>8, <1>9, <1>10, <1>11 DEF Next

LEMMA Invariance == ASSUME Fits, Polled PROVE Spec => []IInv
<1>1. IInv /\ [Next]_vars => IInv'
  BY NextHolds
<1>2. QED
  BY InitHolds, <1>1, PTL DEF Spec

\* No timer is lost: a pending one is in a list that timer_run comes to when its
\* time has come and does not empty unread, however owners, handlers and
\* timer_collapse move it between the wheels.
THEOREM FiledCorrect == ASSUME Fits, Polled PROVE Spec => []Filed
<1>1. IInv => Filed
  BY DEF IInv
<1>2. QED
  BY Invariance, <1>1, PTL

-----------------------------------------------------------------------------
(* Timers are on time.                                                      *)

\* The cursor is less than two buckets past the time of any pending timer.
LEMMA Behind == ASSUME IInv, NEW t \in pending PROVE expires[t] + 2 * MinDelay > Cursor
<1>1. PICK b, x : b = bucket[t] /\ x = expires[t] + MinDelay
  OBVIOUS
<1>2. /\ b[1] \in Nat /\ x \in Nat /\ Cursor \in Nat /\ Due(t, b, x, Cursor)
      /\ expires[t] \in Nat /\ t \in Timer
  BY <1>1, PendingTimer
<1>3. PICK i \in Nat, c \in Nat : i = b[1] /\ c = Cursor
  BY <1>2
<1>4. PICK p \in Nat, q \in Nat : p = Bucket(x, i) /\ q = Bucket(c, i)
  BY <1>2, BucketUp
<1>5. p - q >= IF AtOnce(t, b) THEN 0 ELSE 1
  BY <1>2, <1>3, <1>4 DEF Due, Gap
<1>6. PICK u \in Nat \ {0} : u = Unit[i]
  BY UnitLaw
<1>7. u * p <= x /\ c < u * q + u
  <2>1. p = x \div u /\ q = c \div u
    BY <1>4, <1>6 DEF Bucket
  <2>2. QED
    BY <1>2, <2>1, DivBounds
<1>8. \A m, n \in Nat : n <= m => u * n <= u * m
  OBVIOUS
<1>9. CASE q + 1 <= p
  <2>1. u * (q + 1) <= u * p /\ u * (q + 1) = u * q + u
    BY <1>8, <1>9
  <2>2. c < x
    BY <1>2, <1>7, <2>1
  <2>3. QED
    BY <1>1, <1>2, <1>3, <2>2, Sizes
<1>10. CASE ~(q + 1 <= p)
  <2>1. p = q /\ AtOnce(t, b)
    BY <1>5, <1>10
  <2>2. AtStart(c, i)
    <3>1. CASE t \in todo
      <4>1. /\ pc \in {"collapse", "bucket"} /\ c = pos
            /\ pc = "collapse" => AtStart(pos, wheel) /\ b[1] = wheel
            /\ pc = "bucket" => b[1] = 0
        BY <1>1, <1>3, <3>1 DEF IInv, TypeOK, RunInv, List, Cursor
      <4>2. QED
        BY <1>3, <4>1, StartUp
    <3>2. CASE ToVisit(b[1])
      BY <1>3, <3>2, ToVisitIs
    <3>3. QED
      BY <2>1, <3>1, <3>2 DEF AtOnce
  <2>3. c < u * q + MinDelay
    BY <1>4, <1>6, <2>2, StartClose
  <2>4. c < x + MinDelay
    BY <1>2, <1>7, <2>1, <2>3, Sizes
  <2>5. QED
    BY <1>1, <1>2, <1>3, <2>4, Sizes
<1>11. QED
  BY <1>9, <1>10

\* timer_run leaves no timer that was to fire two buckets before it.
THEOREM PunctualCorrect == ASSUME Fits, Polled PROVE Spec => []Punctual
<1>1. ASSUME IInv PROVE Punctual
  <2>1. SUFFICES ASSUME pc = "idle", NEW t \in pending
                 PROVE  expires[t] + 2 * MinDelay > now_us
    BY DEF Punctual
  <2>2. expires[t] + 2 * MinDelay > timer_pos /\ expires[t] \in Nat
    BY <1>1, <2>1, Behind, PendingTimer DEF Cursor
  <2>3. now_us <= timer_pos /\ {now_us, timer_pos} \subseteq Nat
    BY <1>1, <2>1 DEF IInv, ClockInv, TypeOK
  <2>4. QED
    BY <2>2, <2>3, Sizes
<1>2. QED
  BY Invariance, <1>1, PTL

-----------------------------------------------------------------------------
(* The wheels implement Timers.                                             *)

dues == [t \in Timer |-> IF t \in pending THEN expires[t] ELSE None]

LEMMA Disarmed ==
  ASSUME NEW t \in Timer, Delete(t) PROVE dues' = [dues EXCEPT ![t] = None]
  BY DEF dues, Delete

LEMMA Armed ==
  ASSUME NEW t \in Timer, NEW e, Insert(t, e), TypeOK PROVE dues' = [dues EXCEPT ![t] = e]
<1>1. expires' = [expires EXCEPT ![t] = e] /\ pending' = pending \cup {t}
  BY DEF Insert
<1>2. \A o \in Timer : dues'[o] = IF o = t THEN e ELSE dues[o]
  BY <1>1 DEF dues, TypeOK
<1>3. dues' = [o \in Timer |-> dues'[o]]
  BY DEF dues
<1>4. QED
  BY <1>2, <1>3 DEF dues

LEMMA Arms ==
  ASSUME NEW t \in Timer, NEW d \in Delays, Insert(t, now + d), TypeOK
  PROVE  Service!Arm(t)
<1>1. d \in 1..(MaxDelay - 1)
  BY WheelSizes
<1>2. dues' = [dues EXCEPT ![t] = now + d]
  BY Armed
<1>3. QED
  BY <1>1, <1>2 DEF Service!Arm, dues

LEMMA Handled ==
  ASSUME NEW t \in Timer, Handler(t), TypeOK
  PROVE  Service!Arm(t) \/ Service!Disarm(t)
<1>1. CASE Delete(t)
  <2>1. dues' = [dues EXCEPT ![t] = None]
    BY <1>1, Disarmed
  <2>2. QED
    BY <2>1 DEF Service!Disarm, dues
<1>2. CASE \E d \in Delays : Insert(t, now + d)
  BY <1>2, Arms
<1>3. QED
  BY <1>1, <1>2 DEF Handler

\* A timer that timer_run comes to is pending.
LEMMA InList == ASSUME IInv, NEW t \in todo PROVE t \in Timer /\ t \in pending
<1>1. /\ t \in Timer /\ pc \in {"collapse", "bucket"} /\ {pos, wheel} \subseteq Nat
      /\ \E k \in {0, wheel} : bucket[t] = <<k, Offset(pos, k)>>
  BY DEF IInv, TypeOK, RunInv, List
<1>2. PICK k \in Nat : bucket[t] = <<k, Offset(pos, k)>>
  BY <1>1
<1>3. Offset(pos, k) \in Nat
  <2>1. Bucket(pos, k) \in Nat /\ Offset(pos, k) = Bucket(pos, k) % Size
    BY <1>1, BucketUp
  <2>2. QED
    BY <2>1, Sizes
<1>4. bucket[t] # None
  BY <1>2, <1>3, Sizes
<1>5. QED
  BY <1>1, <1>4, FiledIs DEF IInv, FiledTimer

LEMMA Fires ==
  ASSUME IInv, NEW t \in todo, Handler(t), expires[t] < now + Size * MinDelay,
         pc # "idle", UNCHANGED <<now, pc>>
  PROVE  Service!Fire(t)
<1>1. t \in Timer /\ t \in pending /\ TypeOK /\ expires[t] \in Nat /\ None \notin Nat
  BY InList, Sizes DEF IInv, TypeOK
<1>2. dues[t] = expires[t]
  BY <1>1 DEF dues
<1>3. Service!Arm(t) \/ Service!Disarm(t)
  BY <1>1, Handled
<1>4. QED
  BY <1>1, <1>2, <1>3 DEF Service!Fire, dues

LEMMA TickServes ==
  ASSUME IInv, Polled, Tick PROVE Service!Tick
<1>1. now' = now + 1 /\ UNCHANGED <<expires, pending, pc>> /\ now - Cursor < Lag
  BY DEF Tick, runVars
<1>2. ASSUME NEW t \in Timer, dues[t] # None PROVE now < dues[t] + (2 * MinDelay + Lag)
  <2>1. t \in pending /\ dues[t] = expires[t]
    BY <1>2 DEF dues
  <2>2. expires[t] + 2 * MinDelay > Cursor
    BY <2>1, Behind
  <2>3. {expires[t], Cursor, now} \subseteq Nat
    BY <2>1, PendingTimer DEF IInv, TypeOK
  <2>4. QED
    BY <1>1, <2>1, <2>2, <2>3, Sizes
<1>3. QED
  BY <1>1, <1>2 DEF Service!Tick, dues

LEMMA ModServes == ASSUME IInv, NEW t \in Timer, Mod(t) PROVE Service!Set(t)
<1>1. PICK d \in Delays : Insert(t, now + d)
  BY DEF Mod
<1>2. Service!Arm(t)
  BY <1>1, Arms DEF IInv
<1>3. QED
  BY <1>2 DEF Service!Set, Mod, runVars

LEMMA DelServes == ASSUME NEW t \in Timer, Del(t) PROVE Service!Set(t)
<1>1. dues' = [dues EXCEPT ![t] = None]
  BY Disarmed DEF Del
<1>2. QED
  BY <1>1 DEF Service!Set, Service!Disarm, Del, runVars, dues

\* A timer of a higher wheel fires when it has expired, and else is armed for
\* the time it was.
LEMMA ReinsertServes ==
  ASSUME IInv, NEW t \in Timer, Reinsert(t)
  PROVE  Service!Fire(t) \/ UNCHANGED Service!vars
<1>1. /\ pc = "collapse" /\ t \in todo /\ UNCHANGED <<now, pc>> /\ TypeOK
  BY DEF Reinsert, IInv
<1>2. t \in pending /\ expires[t] \in Nat
  BY <1>1, InList DEF TypeOK
<1>3. CASE expires[t] <= now_us
  <2>1. PICK T \in Nat \ {0} : T = Size * MinDelay
    BY Sizes
  <2>2. {now, now_us} \subseteq Nat /\ now_us <= now
    BY DEF IInv, TypeOK, ClockInv
  <2>3. expires[t] < now + T
    BY <1>2, <1>3, <2>2
  <2>4. QED
    BY <1>1, <1>3, <2>1, <2>3, Fires DEF Reinsert
<1>4. CASE ~(expires[t] <= now_us)
  <2>1. dues' = [dues EXCEPT ![t] = expires[t]]
    BY <1>1, <1>4, Armed DEF Reinsert
  <2>2. dues[t] = expires[t]
    BY <1>2 DEF dues
  <2>3. dues' = dues
    BY <2>1, <2>2 DEF dues
  <2>4. QED
    BY <1>1, <2>3 DEF Service!vars, dues
<1>5. QED
  BY <1>3, <1>4

\* A timer of the first wheel fires less than a turn of it before its time.
LEMMA RunServes == ASSUME IInv, NEW t \in Timer, Run(t) PROVE Service!Fire(t)
<1>1. /\ pc = "bucket" /\ t \in todo /\ Handler(t) /\ UNCHANGED <<now, pc>>
  BY DEF Run
<1>2. t \in pending /\ bucket[t] = <<0, Offset(pos, 0)>>
  BY <1>1, InList DEF IInv, RunInv, List
<1>3. /\ expires[t] \in Nat /\ bucket[t][1] = 0 /\ Put(bucket[t], expires[t] + MinDelay, now_us)
  BY <1>2, PendingTimer
<1>4. Unit[0 + 1] = Size * MinDelay /\ 0 + 1 = 1
  BY UnitLaw
<1>5. PICK T \in Nat : T = Size * MinDelay
  BY Sizes
<1>6. expires[t] + MinDelay < now_us + T
  BY <1>3, <1>4, <1>5 DEF Put
<1>7. {now, now_us} \subseteq Nat /\ now_us <= now
  BY DEF IInv, TypeOK, ClockInv
<1>8. expires[t] < now + T
  BY <1>3, <1>6, <1>7, Sizes
<1>9. QED
  BY <1>1, <1>5, <1>8, Fires

LEMMA StepServes ==
  ASSUME Fits, Polled, IInv, [Next]_vars PROVE [Service!Next]_(Service!vars)
<1>1. CASE Tick
  BY <1>1, TickServes DEF Service!Next
<1>2. CASE StartRun
  BY <1>2 DEF StartRun, Service!Next, Service!Serve
<1>3. CASE Turn
  BY <1>3 DEF Turn, Enter, Service!vars
<1>4. CASE EndRun
  BY <1>4 DEF EndRun, Service!Next, Service!Serve
<1>5. CASE NextWheel
  BY <1>5 DEF NextWheel, Enter, Service!vars
<1>6. CASE EndBucket
  BY <1>6 DEF EndBucket, Service!vars
<1>7. ASSUME NEW t \in Timer, Mod(t) \/ Del(t) PROVE Service!Next
  BY <1>7, ModServes, DelServes DEF Service!Next
<1>8. ASSUME NEW t \in Timer, Reinsert(t) \/ Run(t) PROVE [Service!Next]_(Service!vars)
  BY <1>8, ReinsertServes, RunServes DEF Service!Next
<1>9. CASE UNCHANGED vars
  BY <1>9 DEF vars, runVars, Service!vars
<1>10. QED
  BY <1>1, <1>2, <1>3, <1>4, <1>5, <1>6, <1>7, <1>8, <1>9 DEF Next

\* An armed timer fires less than a turn of the first wheel before its time, and at
\* most two buckets and the lag of the cursor after it; nothing else disarms it
\* but its owner.
THEOREM ImplementsTimersCorrect == ASSUME Fits, Polled PROVE Spec => ImplementsTimers
<1>1. Init => Service!Init
  BY Sizes DEF Init, Service!Init
<1>2. IInv /\ [Next]_vars => [Service!Next]_(Service!vars)
  BY StepServes
<1>3. QED
  BY <1>1, <1>2, Invariance, PTL DEF Spec, ImplementsTimers, Service!Spec
=============================================================================
