--------------------------- MODULE Selection_proofs ---------------------------
(***************************************************************************)
(* What Among keeps of a sequence.  Each lemma is a law of SelectSeq; they    *)
(* follow from the enumeration of the positions selected, in order, which    *)
(* exists for every bounded set of positions and decides Among.             *)
(***************************************************************************)
EXTENDS Selection, FunctionTheorems, FiniteSetTheorems, SequenceTheorems, WellFoundedInduction, TLAPS

-----------------------------------------------------------------------------
(* Numbers.                                                                 *)

Below == {s \in Nat \X Nat : s[1] < s[2]}

LEMMA BelowWellFounded == IsWellFoundedOn(Below, Nat)
  BY NatLessThanWellFounded, Zenon DEF OpToRel, Below

\* A set of numbers has a least one: what holds of 0, and of n + 1 if of n,
\* holds of all numbers, as there is no least exception.
LEMMA Least ==
  ASSUME NEW S \in SUBSET Nat, S # {}
  PROVE  \E n \in S : \A k \in S : n <= k
<1>1. PICK n \in S : \A k \in S : <<k, n>> \notin Below
  BY BelowWellFounded, WFMin
<1>2. ASSUME NEW k \in S PROVE n <= k
  <2>1. k \in Nat /\ n \in Nat
    OBVIOUS
  <2>2. ~(k < n)
    BY <1>1, <2>1 DEF Below
  <2>3. QED
    BY <2>1, <2>2
<1>3. QED
  BY <1>1, <1>2

-----------------------------------------------------------------------------
(* Enumerations.                                                            *)

\* e lists the n members of I from the least to the greatest.
Lists(e, n, I) ==
  /\ e \in [1..n -> I]
  /\ \A i, j \in 1..n : i < j => e[i] < e[j]
  /\ \A x \in I : \E i \in 1..n : e[i] = x

HasList(I) == \E n \in Nat : \E e : Lists(e, n, I)

LEMMA ListExtended ==
  ASSUME NEW m \in Nat, NEW I \in SUBSET (1..m), HasList(I)
  PROVE  HasList(I \cup {m + 1})
<1>1a. PICK n \in Nat : \E e : Lists(e, n, I)
  BY DEF HasList
<1>1. PICK e : Lists(e, n, I)
  BY <1>1a
<1> DEFINE f == [k \in 1..(n + 1) |-> IF k <= n THEN e[k] ELSE m + 1]
<1>2. /\ f[n + 1] = m + 1 /\ \A k \in 1..n : f[k] = e[k] /\ e[k] \in I
      /\ \A k \in 1..(n + 1) : k = n + 1 \/ k \in 1..n
  BY <1>1 DEF Lists
<1>3. f \in [1..(n + 1) -> I \cup {m + 1}]
  BY <1>1 DEF Lists
<1>4. \A i, j \in 1..(n + 1) : i < j => i \in 1..n
  OBVIOUS
<1>5. n + 1 \in Nat /\ n + 1 \in 1..(n + 1) /\ 1..n \subseteq 1..(n + 1)
  OBVIOUS
<1> HIDE DEF f
<1>6. ASSUME NEW i \in 1..(n + 1), NEW j \in 1..(n + 1), i < j PROVE f[i] < f[j]
  <2>1. i \in 1..n /\ f[i] = e[i] /\ e[i] \in 1..m
    BY <1>2, <1>4, <1>6
  <2>2. CASE j = n + 1
    BY <1>2, <2>1, <2>2
  <2>3. CASE j \in 1..n
    BY <1>1, <1>2, <1>6, <2>1, <2>3 DEF Lists
  <2>4. QED
    BY <1>2, <2>2, <2>3
<1>7. \A x \in I \cup {m + 1} : \E i \in 1..(n + 1) : f[i] = x
  BY <1>1, <1>2, <1>5 DEF Lists
<1>8. Lists(f, n + 1, I \cup {m + 1})
  BY <1>3, <1>6, <1>7 DEF Lists
<1>9. QED
  BY <1>5, <1>8 DEF HasList

\* Every bounded set of positions has an enumeration.
LEMMA ListExists ==
  ASSUME NEW m \in Nat, NEW I \in SUBSET (1..m)
  PROVE  HasList(I)
<1> DEFINE Fine(k) == \A J \in SUBSET (1..k) : HasList(J)
           wrong == {k \in Nat : ~Fine(k)}
<1>1. Fine(0)
  <2>1. ASSUME NEW J \in SUBSET (1..0) PROVE HasList(J)
    <3>1. J = {} /\ 1..0 = {}
      OBVIOUS
    <3>2. Lists([k \in 1..0 |-> 0], 0, J)
      BY <3>1 DEF Lists
    <3>3. QED
      BY <3>2 DEF HasList
  <2>2. QED
    BY <2>1
<1>2. ASSUME NEW k \in Nat, Fine(k) PROVE Fine(k + 1)
  <2>1. ASSUME NEW J \in SUBSET (1..(k + 1)) PROVE HasList(J)
    <3>1. J \ {k + 1} \in SUBSET (1..k)
      OBVIOUS
    <3>2. HasList(J \ {k + 1})
      BY <1>2, <3>1
    <3>3. CASE k + 1 \in J
      <4>1. J = (J \ {k + 1}) \cup {k + 1}
        BY <3>3
      <4> DEFINE R == J \ {k + 1}
      <4>2. HasList(R \cup {k + 1})
        BY <3>1, <3>2, ListExtended
      <4>3. QED
        BY <4>1, <4>2
    <3>4. CASE k + 1 \notin J
      <4>1. J \ {k + 1} = J
        BY <3>4
      <4>2. QED
        BY <3>2, <4>1
    <3>5. QED
      BY <3>3, <3>4
  <2>2. QED
    BY <2>1
<1> HIDE DEF Fine
<1>3. wrong = {}
  <2> SUFFICES ASSUME wrong # {} PROVE FALSE
    OBVIOUS
  <2>1. PICK k \in wrong : \A j \in wrong : k <= j
    BY Least
  <2>2. k \in Nat /\ ~Fine(k) /\ k # 0
    BY <1>1, <2>1
  <2>3. k - 1 \in Nat /\ k - 1 \notin wrong /\ (k - 1) + 1 = k
    BY <2>1, <2>2
  <2>4. QED
    BY <1>2, <2>2, <2>3
<1>4. Fine(m)
  BY <1>3
<1>5. QED
  BY <1>4 DEF Fine

\* The position of a member in the enumeration is the number of members up to it.
LEMMA ListRank ==
  ASSUME NEW I \in SUBSET Nat, NEW n \in Nat, NEW e, Lists(e, n, I)
  PROVE  /\ IsFiniteSet(I) /\ Cardinality(I) = n
         /\ \A k \in 1..n : Cardinality({j \in I : j <= e[k]}) = k
<1>1. \A i, j \in 1..n : e[i] = e[j] => i = j
  <2>1. ASSUME NEW i \in 1..n, NEW j \in 1..n, e[i] = e[j], i # j PROVE FALSE
    <3>1. e[i] \in Nat /\ e[j] \in Nat
      BY DEF Lists
    <3>2. i < j \/ j < i
      BY <2>1
    <3>3. QED
      BY <2>1, <3>1, <3>2 DEF Lists
  <2>2. QED
    BY <2>1
<1>2. e \in Bijection(1..n, I)
  BY <1>1, Fun_IsBij DEF Lists
<1>3. IsFiniteSet(I) /\ Cardinality(I) = n
  BY <1>2, FS_CountingElements, FS_NatBijection DEF ExistsBijection
<1>4. ASSUME NEW k \in 1..n PROVE Cardinality({j \in I : j <= e[k]}) = k
  <2> DEFINE S == {j \in I : j <= e[k]}
             f == [i \in 1..k |-> e[i]]
  <2>1. k \in Nat /\ \A i \in 1..k : i \in 1..n /\ i <= k
    OBVIOUS
  <2>2. \A i \in 1..k : e[i] \in S
    <3>1. ASSUME NEW i \in 1..k PROVE e[i] \in S
      <4>1. e[i] \in I /\ e[k] \in I /\ e[i] \in Nat /\ e[k] \in Nat
        BY <2>1 DEF Lists
      <4>2. i = k \/ i < k
        BY <2>1
      <4>3. e[i] <= e[k]
        BY <2>1, <4>1, <4>2 DEF Lists
      <4>4. QED
        BY <4>1, <4>3
    <3>2. QED
      BY <3>1
  <2>3. ASSUME NEW x \in S PROVE \E i \in 1..k : f[i] = x
    <3>1. PICK i \in 1..n : e[i] = x
      BY DEF Lists
    <3>2. ~(k < i)
      <4>1. e[i] \in Nat /\ e[k] \in Nat /\ e[i] <= e[k]
        BY <3>1 DEF Lists
      <4>2. QED
        BY <4>1 DEF Lists
    <3>3. i \in 1..k
      BY <2>1, <3>2
    <3>4. QED
      BY <3>1, <3>3
  <2>4. f \in [1..k -> S] /\ \A i, j \in 1..k : f[i] = f[j] => i = j
    BY <1>1, <2>1, <2>2
  <2> HIDE DEF S, f
  <2>5. f \in Bijection(1..k, S)
    BY <2>3, <2>4, Fun_IsBij
  <2>6. Cardinality(S) = k
    BY <2>1, <2>5, FS_CountingElements DEF ExistsBijection
  <2>7. QED
    BY <2>6 DEF S
<1>5. QED
  BY <1>3, <1>4

-----------------------------------------------------------------------------
(* Among.                                                                   *)

Positions(s, T) == {i \in DOMAIN s : s[i] \in T}

\* The enumeration of the positions decides Among.
LEMMA AmongListed ==
  ASSUME NEW S, NEW s \in Seq(S), NEW T, NEW n \in Nat, NEW e, Lists(e, n, Positions(s, T))
  PROVE  Among(s, T) = [k \in 1..n |-> s[e[k]]]
<1> DEFINE I == Positions(s, T)
<1>1. Among(s, T) = [k \in 1..Cardinality(I) |->
                       s[CHOOSE i \in I : Cardinality({j \in I : j <= i}) = k]]
  BY DEF Among, Positions
<1>2. I \in SUBSET Nat /\ Lists(e, n, I) /\ \A i \in I : i \in DOMAIN s
  BY DEF Positions
<1> HIDE DEF I
<1>3. /\ Cardinality(I) = n
      /\ \A k \in 1..n : Cardinality({j \in I : j <= e[k]}) = k
  BY <1>2, ListRank
<1>4. ASSUME NEW k \in 1..n
      PROVE  (CHOOSE i \in I : Cardinality({j \in I : j <= i}) = k) = e[k]
  <2>1. e[k] \in I
    BY <1>2 DEF Lists
  <2>2. ASSUME NEW i \in I, Cardinality({j \in I : j <= i}) = k PROVE i = e[k]
    <3>1. PICK m \in 1..n : e[m] = i
      BY <1>2 DEF Lists
    <3>2. m = k
      BY <1>3, <2>2, <3>1
    <3>3. QED
      BY <3>1, <3>2
  <2>3. QED
    BY <1>3, <2>1, <2>2
<1>5. QED
  BY <1>1, <1>3, <1>4

LEMMA AmongList ==
  ASSUME NEW S, NEW s \in Seq(S), NEW T
  PROVE  HasList(Positions(s, T))
<1>1. Len(s) \in Nat /\ Positions(s, T) \in SUBSET (1..Len(s))
  BY DEF Positions
<1>2. QED
  BY <1>1, ListExists

\* What Among returns is a sequence of members of T.
LEMMA AmongType ==
  ASSUME NEW S, NEW s \in Seq(S), NEW T
  PROVE  Among(s, T) \in Seq(T) /\ Among(s, T) \in Seq(S)
<1>1a. PICK n \in Nat : \E e : Lists(e, n, Positions(s, T))
  BY AmongList DEF HasList
<1>1. PICK e : Lists(e, n, Positions(s, T))
  BY <1>1a
<1>2. Among(s, T) = [k \in 1..n |-> s[e[k]]]
  BY <1>1, AmongListed
<1>3. \A k \in 1..n : s[e[k]] \in T /\ s[e[k]] \in S
  BY <1>1 DEF Lists, Positions
<1> DEFINE g == [k \in 1..n |-> s[e[k]]]
<1>4. g \in [1..n -> S] /\ \A k \in 1..n : g[k] \in T
  BY <1>3
<1> HIDE DEF g
<1>5. g \in Seq(S) /\ Len(g) = n
  BY <1>4
<1>6. QED
  BY <1>2, <1>4, <1>5 DEF g

\* Nothing is selected from a sequence without members of T.
LEMMA AmongNone ==
  ASSUME NEW S, NEW s \in Seq(S), NEW T, \A i \in 1..Len(s) : s[i] \notin T
  PROVE  Among(s, T) = <<>>
<1> DEFINE e == [k \in 1..0 |-> 0]
<1>1. Positions(s, T) = {} /\ 1..0 = {}
  BY DEF Positions
<1>2. Lists(e, 0, Positions(s, T))
  BY <1>1 DEF Lists
<1> HIDE DEF e
<1>3. Among(s, T) = [k \in 1..0 |-> s[e[k]]]
  BY <1>2, AmongListed
<1>4. QED
  BY <1>3

LEMMA AmongOne ==
  ASSUME NEW S, NEW x \in S, NEW T, x \in T
  PROVE  Among(<<x>>, T) = <<x>>
<1>1. PICK s \in Seq(S) : s = <<x>>
  <2>1. <<x>> \in Seq(S)
    OBVIOUS
  <2>2. QED
    BY <2>1, Zenon
<1>2a. PICK n \in Nat : \E e : Lists(e, n, Positions(s, T))
  BY AmongList DEF HasList
<1>2. PICK e : Lists(e, n, Positions(s, T))
  BY <1>2a
<1>3. Positions(s, T) = {1} /\ s[1] = x
  BY <1>1 DEF Positions
<1>4. n = 1 /\ e[1] = 1
  <2>1. \A i \in 1..n : e[i] = 1
    BY <1>2, <1>3 DEF Lists
  <2>2. PICK i \in 1..n : e[i] = 1
    BY <1>2, <1>3 DEF Lists
  <2>3. ~(1 < n)
    BY <1>2, <2>1 DEF Lists
  <2>4. QED
    BY <2>1, <2>2, <2>3
<1>5. Among(s, T) = [k \in 1..n |-> s[e[k]]]
  BY <1>2, AmongListed
<1>6. Among(s, T) = [k \in 1..1 |-> x]
  BY <1>3, <1>4, <1>5
<1>7. QED
  BY <1>1, <1>6

\* Sequences that agree where either has a member of its set.
LEMMA AmongSame ==
  ASSUME NEW S, NEW s \in Seq(S), NEW T, NEW r \in Seq(S), NEW R, Len(r) = Len(s),
         \A i \in 1..Len(s) : r[i] \in R <=> s[i] \in T,
         \A i \in 1..Len(s) : s[i] \in T => r[i] = s[i]
  PROVE  Among(r, R) = Among(s, T)
<1>1a. PICK n \in Nat : \E e : Lists(e, n, Positions(s, T))
  BY AmongList DEF HasList
<1>1. PICK e : Lists(e, n, Positions(s, T))
  BY <1>1a
<1>2. Positions(r, R) = Positions(s, T)
  BY DEF Positions
<1>3. /\ Among(s, T) = [k \in 1..n |-> s[e[k]]]
      /\ Among(r, R) = [k \in 1..n |-> r[e[k]]]
  BY <1>1, <1>2, AmongListed
<1>4. \A k \in 1..n : r[e[k]] = s[e[k]]
  BY <1>1 DEF Lists, Positions
<1>5. QED
  BY <1>3, <1>4

\* d is the selection of n elements of s at the places f[1] < f[2] < ..., which
\* leaves out no member of T.
Selects(d, s, T, n, f) ==
  /\ f \in [1..n -> 1..Len(s)]
  /\ \A j, k \in 1..n : j < k => f[j] < f[k]
  /\ \A i \in 1..Len(s) : s[i] \in T => \E k \in 1..n : f[k] = i
  /\ Len(d) = n /\ \A k \in 1..n : d[k] = s[f[k]]

LEMMA AmongSelected ==
  ASSUME NEW S, NEW s \in Seq(S), NEW T, NEW n \in Nat, NEW f, NEW d \in Seq(S),
         Selects(d, s, T, n, f)
  PROVE  Among(d, T) = Among(s, T)
<1>0. /\ f \in [1..n -> 1..Len(s)]
      /\ \A j, k \in 1..n : j < k => f[j] < f[k]
      /\ \A i \in 1..Len(s) : s[i] \in T => \E k \in 1..n : f[k] = i
      /\ Len(d) = n /\ \A k \in 1..n : d[k] = s[f[k]]
  BY DEF Selects
<1>1. PICK m \in Nat : \E e : Lists(e, m, Positions(d, T))
  BY AmongList DEF HasList
<1>2. PICK e : Lists(e, m, Positions(d, T))
  BY <1>1
<1>3. DOMAIN d = 1..n /\ DOMAIN s = 1..Len(s)
  BY <1>0
<1>4. PICK I, J : I = Positions(d, T) /\ J = Positions(s, T)
  OBVIOUS
<1>5. /\ \A i \in I : i \in 1..n /\ d[i] \in T
      /\ \A i \in 1..n : d[i] \in T => i \in I
      /\ \A i : i \in J <=> i \in 1..Len(s) /\ s[i] \in T
  BY <1>3, <1>4 DEF Positions
<1>6. /\ e \in [1..m -> I] /\ \A i, j \in 1..m : i < j => e[i] < e[j]
      /\ \A x \in I : \E i \in 1..m : e[i] = x
  BY <1>2, <1>4 DEF Lists
<1>7. PICK g : g = [k \in 1..m |-> f[e[k]]]
  OBVIOUS
<1>8. \A k \in 1..m : e[k] \in I /\ e[k] \in 1..n /\ d[e[k]] \in T
  BY <1>5, <1>6
<1>9. g \in [1..m -> J]
  <2>1. \A k \in 1..m : f[e[k]] \in J
    BY <1>0, <1>5, <1>8
  <2>2. QED
    BY <1>7, <2>1
<1>10. \A i, j \in 1..m : i < j => g[i] < g[j]
  BY <1>0, <1>6, <1>7, <1>8
<1>11. ASSUME NEW x \in J PROVE \E i \in 1..m : g[i] = x
  <2>1. PICK k \in 1..n : f[k] = x
    BY <1>0, <1>5
  <2>2. k \in I
    BY <1>0, <1>5, <2>1
  <2>3. PICK i \in 1..m : e[i] = k
    BY <1>6, <2>2
  <2>4. QED
    BY <1>7, <2>1, <2>3
<1>12. Lists(g, m, Positions(s, T))
  BY <1>4, <1>9, <1>10, <1>11 DEF Lists
<1>13. Among(d, T) = [k \in 1..m |-> d[e[k]]]
  BY <1>2, AmongListed
<1>14. Among(s, T) = [k \in 1..m |-> s[g[k]]]
  BY <1>12, AmongListed
<1>15. \A k \in 1..m : d[e[k]] = s[g[k]]
  BY <1>0, <1>7, <1>8
<1>16. QED
  BY <1>13, <1>14, <1>15

LEMMA Concatenated ==
  ASSUME NEW S, NEW s \in Seq(S), NEW t \in Seq(S)
  PROVE  /\ s \o t \in Seq(S) /\ Len(s \o t) = Len(s) + Len(t)
         /\ \A i \in 1..Len(s) : (s \o t)[i] = s[i]
         /\ \A i \in 1..Len(t) : (s \o t)[i + Len(s)] = t[i]
  OBVIOUS

\* Selection works on each part of a sequence.
LEMMA AmongConcat ==
  ASSUME NEW S, NEW s \in Seq(S), NEW t \in Seq(S), NEW T
  PROVE  Among(s \o t, T) = Among(s, T) \o Among(t, T)
<1>1a. PICK n \in Nat : \E e : Lists(e, n, Positions(s, T))
  BY AmongList DEF HasList
<1>1. PICK e : Lists(e, n, Positions(s, T))
  BY <1>1a
<1>2a. PICK m \in Nat : \E f : Lists(f, m, Positions(t, T))
  BY AmongList DEF HasList
<1>2. PICK f : Lists(f, m, Positions(t, T))
  BY <1>2a
<1>3. PICK l \in Nat, k \in Nat : l = Len(s) /\ k = Len(t)
  OBVIOUS
<1> DEFINE u == s \o t
           g == [i \in 1..(n + m) |-> IF i <= n THEN e[i] ELSE f[i - n] + l]
<1>4. /\ u \in Seq(S) /\ Len(u) = l + k /\ DOMAIN u = 1..(l + k)
      /\ \A i \in 1..l : u[i] = s[i]
      /\ \A i \in 1..k : u[i + l] = t[i]
  BY <1>3
<1>5. \A i \in 1..(l + k) : i \in 1..l \/ (i - l \in 1..k /\ (i - l) + l = i)
  OBVIOUS
<1>6. \A i \in 1..l : i \in 1..(l + k)
  OBVIOUS
<1>7. \A i \in 1..k : i + l \in 1..(l + k)
  OBVIOUS
<1>8. /\ \A i \in 1..n : e[i] \in 1..l /\ s[e[i]] \in T
      /\ \A i \in 1..m : f[i] \in 1..k /\ t[f[i]] \in T
  BY <1>1, <1>2, <1>3 DEF Lists, Positions
<1>9. /\ \A i \in 1..n : g[i] = e[i]
      /\ \A i \in 1..m : g[i + n] = f[i] + l
  OBVIOUS
<1>10. \A i \in 1..(n + m) : i \in 1..n \/ (i - n \in 1..m /\ (i - n) + n = i)
  OBVIOUS
<1>11. \A i \in 1..n : i \in 1..(n + m)
  OBVIOUS
<1>12. \A i \in 1..m : i + n \in 1..(n + m)
  OBVIOUS
<1>13. DOMAIN g = 1..(n + m)
  OBVIOUS
<1>14. g = [i \in 1..(n + m) |-> g[i]]
  OBVIOUS
<1> HIDE DEF u, g
<1>15. \A i \in 1..(n + m) : g[i] \in Positions(u, T)
  <2>1. \A i \in 1..n : g[i] \in Positions(u, T)
    BY <1>4, <1>6, <1>8, <1>9 DEF Positions
  <2>2. ASSUME NEW i \in 1..m PROVE g[i + n] \in Positions(u, T)
    <3>1. g[i + n] = f[i] + l /\ f[i] \in 1..k /\ t[f[i]] \in T
      BY <1>8, <1>9
    <3>2. f[i] + l \in 1..(l + k) /\ u[f[i] + l] = t[f[i]]
      BY <1>4, <1>7, <3>1
    <3>3. QED
      BY <1>4, <3>1, <3>2 DEF Positions
  <2>3. QED
    BY <1>10, <2>1, <2>2
<1>16. ASSUME NEW i \in 1..(n + m), NEW j \in 1..(n + m), i < j PROVE g[i] < g[j]
  <2>1. CASE i \in 1..n /\ j \in 1..n
    BY <1>1, <1>9, <1>16, <2>1 DEF Lists
  <2>2. CASE i \in 1..n /\ j - n \in 1..m /\ (j - n) + n = j
    <3>1. g[i] = e[i] /\ e[i] \in 1..l
      BY <1>8, <1>9, <2>2
    <3>2. g[j] = f[j - n] + l /\ f[j - n] \in 1..k
      BY <1>8, <1>9, <2>2
    <3>3. QED
      BY <3>1, <3>2
  <2>3. CASE i - n \in 1..m /\ (i - n) + n = i /\ j - n \in 1..m /\ (j - n) + n = j
    <3>1. g[i] = f[i - n] + l /\ f[i - n] \in 1..k
      BY <1>8, <1>9, <2>3
    <3>2. g[j] = f[j - n] + l /\ f[j - n] \in 1..k
      BY <1>8, <1>9, <2>3
    <3>3. i - n < j - n
      BY <1>16
    <3>4. f[i - n] < f[j - n]
      BY <1>2, <2>3, <3>3 DEF Lists
    <3>5. QED
      BY <3>1, <3>2, <3>4
  <2>4. i \in 1..n \/ ~(j \in 1..n)
    BY <1>16
  <2>5. QED
    BY <1>10, <2>1, <2>2, <2>3, <2>4
<1>17. ASSUME NEW x \in Positions(u, T) PROVE \E i \in 1..(n + m) : g[i] = x
  <2>1. x \in 1..(l + k) /\ u[x] \in T
    BY <1>4 DEF Positions
  <2>2. CASE x \in 1..l
    <3>1. x \in Positions(s, T)
      BY <1>3, <1>4, <2>1, <2>2 DEF Positions
    <3>2. PICK i \in 1..n : e[i] = x
      BY <1>1, <3>1 DEF Lists
    <3>3. QED
      BY <1>9, <1>11, <3>2
  <2>3. CASE x - l \in 1..k /\ (x - l) + l = x
    <3>1. u[(x - l) + l] = t[x - l]
      BY <1>4, <2>3
    <3>2. x - l \in Positions(t, T)
      BY <1>3, <2>1, <2>3, <3>1 DEF Positions
    <3>3. PICK i \in 1..m : f[i] = x - l
      BY <1>2, <3>2 DEF Lists
    <3>4. g[i + n] = x
      BY <1>9, <2>3, <3>3
    <3>5. QED
      BY <1>12, <3>4
  <2>4. QED
    BY <1>5, <2>1, <2>2, <2>3
<1>18. Lists(g, n + m, Positions(u, T))
  <2>1. g \in [1..(n + m) -> Positions(u, T)]
    BY <1>13, <1>14, <1>15
  <2>2. QED
    BY <1>16, <1>17, <2>1 DEF Lists
<1> DEFINE a == Among(s, T)
           b == Among(t, T)
           c == Among(u, T)
<1>19. /\ c = [i \in 1..(n + m) |-> u[g[i]]]
       /\ a = [i \in 1..n |-> s[e[i]]]
       /\ b = [i \in 1..m |-> t[f[i]]]
  <2>1. n + m \in Nat
    OBVIOUS
  <2>2. QED
    BY <1>1, <1>2, <1>4, <1>18, <2>1, AmongListed
<1>20. a \in Seq(S) /\ b \in Seq(S) /\ c \in Seq(S)
  BY <1>4, AmongType
<1>21. Len(a) = n /\ Len(b) = m /\ Len(c) = n + m
  BY <1>19
<1>22. /\ \A i \in 1..n : c[i] = a[i]
       /\ \A i \in 1..m : c[i + n] = b[i]
  <2>1. \A i \in 1..n : c[i] = a[i]
    BY <1>4, <1>8, <1>9, <1>11, <1>19
  <2>2. ASSUME NEW i \in 1..m PROVE c[i + n] = b[i]
    <3>1. c[i + n] = u[g[i + n]]
      BY <1>12, <1>19
    <3>2. u[f[i] + l] = t[f[i]]
      BY <1>4, <1>8
    <3>3. QED
      BY <1>9, <1>19, <3>1, <3>2
  <2>3. QED
    BY <2>1, <2>2
<1> HIDE DEF a, b, c
<1>23. /\ a \o b \in Seq(S) /\ Len(a \o b) = n + m
       /\ \A i \in 1..n : (a \o b)[i] = a[i]
       /\ \A i \in 1..m : (a \o b)[i + n] = b[i]
  <2>1. /\ a \o b \in Seq(S) /\ Len(a \o b) = Len(a) + Len(b)
        /\ \A i \in 1..Len(a) : (a \o b)[i] = a[i]
        /\ \A i \in 1..Len(b) : (a \o b)[i + Len(a)] = b[i]
    <3>1. \A p \in Seq(S) : \A q \in Seq(S) :
            /\ p \o q \in Seq(S) /\ Len(p \o q) = Len(p) + Len(q)
            /\ \A i \in 1..Len(p) : (p \o q)[i] = p[i]
            /\ \A i \in 1..Len(q) : (p \o q)[i + Len(p)] = q[i]
      BY Concatenated
    <3>2. QED
      BY <1>20, <3>1, Zenon
  <2>2. QED
    BY <1>21, <2>1, Zenon
<1>24. \A i \in 1..(n + m) : c[i] = (a \o b)[i]
  BY <1>10, <1>22, <1>23
<1>25. c = a \o b
  <2>1. Len(c) = Len(a \o b) /\ \A i \in 1..Len(c) : c[i] = (a \o b)[i]
    BY <1>21, <1>23, <1>24
  <2>2. QED
    BY <1>20, <1>23, <2>1, SeqEqual
<1>26. QED
  BY <1>25 DEF a, b, c, u
-----------------------------------------------------------------------------
(* Concatenation by its laws.                                               *)

One(x)     == <<x>>
Join(s, t) == s \o t

LEMMA OneLaw ==
  ASSUME NEW S, NEW x \in S
  PROVE  One(x) \in Seq(S) /\ Len(One(x)) = 1 /\ One(x)[1] = x
  BY DEF One

LEMMA JoinType ==
  ASSUME NEW S, NEW s \in Seq(S), NEW t \in Seq(S) PROVE Join(s, t) \in Seq(S)
  BY DEF Join

LEMMA JoinAssociative ==
  ASSUME NEW S, NEW s \in Seq(S), NEW t \in Seq(S), NEW u \in Seq(S)
  PROVE  Join(Join(s, t), u) = Join(s, Join(t, u))
  BY DEF Join

LEMMA JoinEmpty ==
  ASSUME NEW S, NEW s \in Seq(S)
  PROVE  Join(s, <<>>) = s /\ Join(<<>>, s) = s
  BY ConcatEmptySeq DEF Join

LEMMA JoinElements ==
  ASSUME NEW S, NEW s \in Seq(S), NEW t \in Seq(S)
  PROVE  /\ Len(Join(s, t)) = Len(s) + Len(t)
         /\ \A i \in 1..Len(s) : Join(s, t)[i] = s[i]
         /\ \A i \in 1..Len(t) : Join(s, t)[i + Len(s)] = t[i]
  BY Concatenated DEF Join

LEMMA JoinLength ==
  ASSUME NEW S, NEW s \in Seq(S), NEW t \in Seq(S) PROVE Len(Join(s, t)) = Len(s) + Len(t)
  BY JoinElements

LEMMA JoinFront ==
  ASSUME NEW S, NEW s \in Seq(S), NEW t \in Seq(S)
  PROVE  \A i \in 1..Len(s) : Join(s, t)[i] = s[i]
  BY JoinElements

LEMMA JoinBehind ==
  ASSUME NEW S, NEW s \in Seq(S), NEW t \in Seq(S)
  PROVE  \A i \in 1..Len(t) : Join(s, t)[i + Len(s)] = t[i]
  BY JoinElements

LEMMA AmongJoin ==
  ASSUME NEW S, NEW s \in Seq(S), NEW t \in Seq(S), NEW T
  PROVE  Among(Join(s, t), T) = Join(Among(s, T), Among(t, T))
  BY AmongConcat DEF Join

LEMMA AmongSingle ==
  ASSUME NEW S, NEW x \in S, NEW T
  PROVE  Among(One(x), T) = IF x \in T THEN One(x) ELSE <<>>
<1>1. CASE x \in T
  BY <1>1, AmongOne DEF One
<1>2. CASE x \notin T
  <2>1. PICK o : o = One(x)
    OBVIOUS
  <2>2. o \in Seq(S) /\ Len(o) = 1 /\ o[1] = x
    BY <2>1, OneLaw
  <2>3. \A i \in 1..Len(o) : o[i] \notin T
    BY <1>2, <2>2
  <2>4. Among(o, T) = <<>>
    BY <2>2, <2>3, AmongNone
  <2>5. QED
    BY <1>2, <2>1, <2>4
<1>3. QED
  BY <1>1, <1>2

\* What is selected around a place.
LEMMA AmongAround ==
  ASSUME NEW S, NEW a \in Seq(S), NEW b \in Seq(S), NEW x \in S, NEW T
  PROVE  /\ Among(Join(a, Join(One(x), b)), T)
              = Join(Among(a, T), Join(Among(One(x), T), Among(b, T)))
         /\ Among(a, T) \in Seq(S) /\ Among(One(x), T) \in Seq(S) /\ Among(b, T) \in Seq(S)
<1>1. One(x) \in Seq(S)
  BY OneLaw
<1>2. Join(One(x), b) \in Seq(S)
  BY <1>1, JoinType
<1>3. Among(Join(One(x), b), T) = Join(Among(One(x), T), Among(b, T))
  BY <1>1, AmongJoin
<1>4. Among(Join(a, Join(One(x), b)), T) = Join(Among(a, T), Among(Join(One(x), b), T))
  BY <1>2, AmongJoin
<1>5. QED
  BY <1>1, <1>3, <1>4, AmongType

-----------------------------------------------------------------------------
(* One place of a sequence changes.                                         *)

\* The sequence is what lies before the place, the place, and what lies after.
Around(s, k, a, b) ==
  /\ Len(a) = k - 1 /\ \A i \in 1..(k - 1) : a[i] = s[i]
  /\ Len(b) = Len(s) - k /\ \A i \in 1..(Len(s) - k) : b[i] = s[i + k]

\* A sequence with these parts is their concatenation.
LEMMA JoinAround ==
  ASSUME NEW S, NEW s \in Seq(S), NEW k \in 1..Len(s), NEW a \in Seq(S), NEW b \in Seq(S),
         Around(s, k, a, b), NEW u \in Seq(S), Len(u) = Len(s),
         \A i \in 1..Len(s) : i # k => u[i] = s[i]
  PROVE  u = Join(a, Join(One(u[k]), b))
<1>1. PICK n \in Nat : n = Len(s)
  OBVIOUS
<1>2. k \in 1..n /\ u[k] \in S
  BY <1>1
<1>3. \A i \in 1..n : i \in 1..(k - 1) \/ i = k \/ (i - k \in 1..(n - k) /\ (i - k) + k = i)
  BY <1>2
<1>4. PICK v, c : v = Join(One(u[k]), b) /\ c = Join(a, v)
  OBVIOUS
<1>5. /\ v \in Seq(S) /\ Len(v) = (n - k) + 1 /\ v[1] = u[k]
      /\ \A i \in 1..(n - k) : v[i + 1] = s[i + k]
  <2>1. PICK o : o = One(u[k])
    OBVIOUS
  <2>2. o \in Seq(S) /\ Len(o) = 1 /\ o[1] = u[k]
    BY <1>2, <2>1, OneLaw
  <2>3. v \in Seq(S)
    BY <1>4, <2>1, <2>2, JoinType
  <2>4. Len(v) = Len(o) + Len(b)
    BY <1>4, <2>1, <2>2, JoinElements
  <2>5. \A i \in 1..Len(o) : v[i] = o[i]
    BY <1>4, <2>1, <2>2, JoinElements
  <2>6. \A i \in 1..Len(b) : v[i + Len(o)] = b[i]
    <3>1. o \in Seq(S)
      BY <2>2
    <3>2. \A i \in 1..Len(b) : Join(o, b)[i + Len(o)] = b[i]
      BY <3>1, JoinBehind
    <3>3. v = Join(o, b)
      BY <1>4, <2>1
    <3>4. QED
      BY <3>2, <3>3
  <2>7. Len(b) = n - k /\ \A i \in 1..(n - k) : b[i] = s[i + k]
    BY <1>1 DEF Around
  <2>8. Len(v) = (n - k) + 1 /\ v[1] = u[k]
    BY <1>2, <2>2, <2>4, <2>5, <2>7
  <2>9. ASSUME NEW i \in 1..(n - k) PROVE v[i + 1] = s[i + k]
    <3>1. i \in 1..Len(b) /\ b[i] = s[i + k]
      BY <2>7
    <3>2. v[i + Len(o)] = b[i]
      BY <2>6, <3>1
    <3>3. QED
      BY <2>2, <3>1, <3>2
  <2>10. QED
    BY <2>3, <2>8, <2>9
<1>6. c \in Seq(S)
  BY <1>4, <1>5, JoinType
<1>7. Len(c) = Len(a) + Len(v)
  BY <1>4, <1>5, JoinElements
<1>8. \A i \in 1..Len(a) : c[i] = a[i]
  BY <1>4, <1>5, JoinElements
<1>9. \A i \in 1..Len(v) : c[i + Len(a)] = v[i]
  <2>1. \A i \in 1..Len(v) : Join(a, v)[i + Len(a)] = v[i]
    BY <1>5, JoinBehind
  <2>2. c = Join(a, v)
    BY <1>4
  <2>3. QED
    BY <2>1, <2>2
<1>10. Len(a) = k - 1 /\ \A i \in 1..(k - 1) : a[i] = s[i]
  BY DEF Around
<1>11. /\ Len(c) = n /\ \A i \in 1..(k - 1) : c[i] = s[i]
       /\ \A i \in 1..((n - k) + 1) : c[i + (k - 1)] = v[i]
  BY <1>1, <1>2, <1>5, <1>7, <1>8, <1>9, <1>10
<1>12. ASSUME NEW i \in 1..n PROVE c[i] = u[i]
  <2>1. CASE i \in 1..(k - 1)
    BY <1>1, <1>2, <1>11, <2>1
  <2>2. CASE i = k
    <3>1. 1 \in 1..((n - k) + 1) /\ 1 + (k - 1) = k
      BY <1>2
    <3>2. QED
      BY <1>5, <1>11, <2>2, <3>1
  <2>3. CASE i - k \in 1..(n - k) /\ (i - k) + k = i
    <3>1. (i - k) + 1 \in 1..((n - k) + 1) /\ ((i - k) + 1) + (k - 1) = i /\ i # k
      BY <1>2, <2>3
    <3>2. c[i] = v[(i - k) + 1]
      BY <1>11, <3>1
    <3>3. v[(i - k) + 1] = s[(i - k) + k]
      BY <1>5, <2>3
    <3>4. QED
      BY <1>1, <2>3, <3>1, <3>2, <3>3
  <2>4. QED
    BY <1>3, <2>1, <2>2, <2>3
<1>13. c = u
  BY <1>1, <1>6, <1>11, <1>12, SeqEqual
<1>14. QED
  BY <1>4, <1>13

\* s and r have the same parts around x and y.
Differ(s, x, r, y, k, a, b) ==
  /\ Around(s, k, a, b)
  /\ s = Join(a, Join(One(x), b))
  /\ r = Join(a, Join(One(y), b))

LEMMA Replaced ==
  ASSUME NEW S, NEW s \in Seq(S), NEW k \in 1..Len(s), NEW y \in S
  PROVE  \E a, b \in Seq(S) : Differ(s, s[k], [s EXCEPT ![k] = y], y, k, a, b)
<1>1. PICK n \in Nat : n = Len(s)
  OBVIOUS
<1>2. k \in 1..n /\ k - 1 \in Nat /\ n - k \in Nat
  BY <1>1
<1> DEFINE a == [i \in 1..(k - 1) |-> s[i]]
           b == [i \in 1..(n - k) |-> s[i + k]]
           r == [s EXCEPT ![k] = y]
<1>3. a \in Seq(S) /\ Len(a) = k - 1 /\ \A i \in 1..(k - 1) : a[i] = s[i]
  BY <1>1, <1>2
<1>4. b \in Seq(S) /\ Len(b) = n - k /\ \A i \in 1..(n - k) : b[i] = s[i + k]
  <2>1. \A i \in 1..(n - k) : i + k \in 1..n
    BY <1>2
  <2>2. QED
    BY <1>1, <1>2, <2>1
<1>5. r \in Seq(S) /\ Len(r) = n /\ \A j \in 1..n : r[j] = IF j = k THEN y ELSE s[j]
  BY <1>1, ExceptSeq
<1> HIDE DEF a, b, r
<1>6. Around(s, k, a, b)
  BY <1>1, <1>3, <1>4 DEF Around
<1>7. s = Join(a, Join(One(s[k]), b))
  BY <1>3, <1>4, <1>6, JoinAround
<1>8. r = Join(a, Join(One(r[k]), b)) /\ r[k] = y
  BY <1>1, <1>2, <1>3, <1>4, <1>5, <1>6, JoinAround
<1>9. r = Join(a, Join(One(y), b))
  BY <1>8
<1>10. QED
  BY <1>3, <1>4, <1>6, <1>7, <1>9 DEF Differ, r

\* The sequence r is s with y at k.
Swapped(s, k, y, r) == r = [s EXCEPT ![k] = y]

\* No element before the k-th is selected.
NoneBefore(s, k, T) == \A i \in 1..(k - 1) : s[i] \notin T

\* The first element selected is taken out.
LEMMA AmongTaken ==
  ASSUME NEW S, NEW s \in Seq(S), NEW T, NEW k \in 1..Len(s), NEW y \in S, y \notin T,
         NoneBefore(s, k, T), NEW r, Swapped(s, k, y, r)
  PROVE  Among(s, T) = Join(Among(One(s[k]), T), Among(r, T))
<1>1. PICK x : r = [s EXCEPT ![k] = y] /\ x = s[k]
  BY DEF Swapped
<1>2. x \in S
  BY <1>1
<1>3. PICK a \in Seq(S), b \in Seq(S) : Differ(s, x, r, y, k, a, b)
  BY <1>1, Replaced
<1>4. Among(a, T) = <<>>
  BY <1>3, AmongNone DEF Differ, Around, NoneBefore
<1>5. Among(One(y), T) = <<>>
  BY AmongSingle
<1>6. PICK v, c : v = Among(One(x), T) /\ c = Among(b, T)
  OBVIOUS
<1>7. v \in Seq(S) /\ c \in Seq(S) /\ Join(v, c) \in Seq(S)
  BY <1>2, <1>6, AmongAround, JoinType
<1>8. Among(s, T) = Join(<<>>, Join(v, c))
  BY <1>2, <1>3, <1>4, <1>6, AmongAround DEF Differ
<1>9. Among(r, T) = Join(<<>>, Join(<<>>, c))
  BY <1>3, <1>4, <1>5, <1>6, AmongAround DEF Differ
<1>10. Join(<<>>, Join(v, c)) = Join(v, c) /\ Join(<<>>, c) = c
  BY <1>7, JoinEmpty
<1>11. QED
  BY <1>1, <1>6, <1>8, <1>9, <1>10

\* An element is put behind all those selected.
LEMMA AmongPut ==
  ASSUME NEW S, NEW s \in Seq(S), NEW T, NEW k \in 1..Len(s), NEW y \in S,
         \A i \in k..Len(s) : s[i] \notin T
  PROVE  Among([s EXCEPT ![k] = y], T) = Join(Among(s, T), Among(One(y), T))
<1>1. PICK r, x : r = [s EXCEPT ![k] = y] /\ x = s[k]
  OBVIOUS
<1>2. x \in S /\ x \notin T
  BY <1>1
<1>3. PICK a \in Seq(S), b \in Seq(S) : Differ(s, x, r, y, k, a, b)
  BY <1>1, Replaced
<1>4. Among(b, T) = <<>>
  <2>1. \A i \in 1..(Len(s) - k) : i + k \in k..Len(s)
    OBVIOUS
  <2>2. \A i \in 1..Len(b) : b[i] \notin T
    BY <1>3, <2>1 DEF Differ, Around
  <2>3. QED
    BY <2>2, AmongNone
<1>5. Among(One(x), T) = <<>>
  BY <1>2, AmongSingle
<1>6. PICK v, c : v = Among(One(y), T) /\ c = Among(a, T)
  OBVIOUS
<1>7. v \in Seq(S) /\ c \in Seq(S)
  BY <1>6, AmongAround
<1>8. Among(s, T) = Join(c, Join(<<>>, <<>>))
  BY <1>2, <1>3, <1>4, <1>5, <1>6, AmongAround DEF Differ
<1>9. Among(r, T) = Join(c, Join(v, <<>>))
  BY <1>3, <1>4, <1>6, AmongAround DEF Differ
<1>10. Join(<<>>, <<>>) = <<>> /\ Join(c, <<>>) = c /\ Join(v, <<>>) = v
  BY <1>7, EmptySeq, JoinEmpty
<1>11. QED
  BY <1>1, <1>6, <1>8, <1>9, <1>10

-----------------------------------------------------------------------------
(* A queue in five parts, from its head to its tail.                        *)

Chain(a, q, m, r, x) == Join(Join(a, q), Join(m, Join(r, x)))

LEMMA ChainType ==
  ASSUME NEW S, NEW a \in Seq(S), NEW q \in Seq(S), NEW m \in Seq(S), NEW r \in Seq(S),
         NEW x \in Seq(S)
  PROVE  Chain(a, q, m, r, x) \in Seq(S)
<1>1. Join(a, q) \in Seq(S) /\ Join(r, x) \in Seq(S)
  BY JoinType
<1>2. Join(m, Join(r, x)) \in Seq(S)
  BY <1>1, JoinType
<1>3. QED
  BY <1>1, <1>2, JoinType DEF Chain

\* The parts, written without brackets.
LEMMA ChainWritten ==
  ASSUME NEW S, NEW a \in Seq(S), NEW q \in Seq(S), NEW m \in Seq(S), NEW r \in Seq(S),
         NEW x \in Seq(S)
  PROVE  Chain(a, q, m, r, x) = Join(Join(a, q), Join(Join(m, r), x))
  BY JoinAssociative DEF Chain

\* An element goes from the head of one part to the tail of the one before ...
LEMMA ChainFromThird ==
  ASSUME NEW S, NEW a \in Seq(S), NEW q \in Seq(S), NEW m \in Seq(S), NEW r \in Seq(S),
         NEW x \in Seq(S), NEW o \in Seq(S)
  PROVE  Chain(a, q, Join(o, m), r, x) = Chain(a, Join(q, o), m, r, x)
<1>1. PICK z : z = Join(m, Join(r, x))
  OBVIOUS
<1>2. z \in Seq(S) /\ Join(r, x) \in Seq(S) /\ Join(o, z) \in Seq(S)
  BY <1>1, JoinType
<1>3. Join(Join(o, m), Join(r, x)) = Join(o, z)
  BY <1>1, <1>2, JoinAssociative
<1>4. Join(a, Join(q, o)) = Join(Join(a, q), o)
  BY JoinAssociative
<1>5. Join(a, q) \in Seq(S)
  BY JoinType
<1>6. Join(Join(Join(a, q), o), z) = Join(Join(a, q), Join(o, z))
  BY <1>2, <1>5, JoinAssociative
<1>7. QED
  BY <1>1, <1>3, <1>4, <1>6 DEF Chain

LEMMA ChainFromFourth ==
  ASSUME NEW S, NEW a \in Seq(S), NEW q \in Seq(S), NEW m \in Seq(S), NEW r \in Seq(S),
         NEW x \in Seq(S), NEW o \in Seq(S)
  PROVE  Chain(a, q, m, Join(o, r), x) = Chain(a, q, Join(m, o), r, x)
<1>1. Join(r, x) \in Seq(S)
  BY JoinType
<1>2. Join(Join(o, r), x) = Join(o, Join(r, x))
  BY JoinAssociative
<1>3. Join(Join(m, o), Join(r, x)) = Join(m, Join(o, Join(r, x)))
  BY <1>1, JoinAssociative
<1>4. QED
  BY <1>2, <1>3 DEF Chain

LEMMA ChainFromFifth ==
  ASSUME NEW S, NEW a \in Seq(S), NEW q \in Seq(S), NEW m \in Seq(S), NEW r \in Seq(S),
         NEW x \in Seq(S)
  PROVE  Chain(a, q, m, <<>>, Join(r, x)) = Chain(a, q, m, r, x)
<1>1. Join(r, x) \in Seq(S)
  BY JoinType
<1>2. Join(<<>>, Join(r, x)) = Join(r, x)
  BY <1>1, JoinEmpty
<1>3. QED
  BY <1>2 DEF Chain

LEMMA ChainFromSecond ==
  ASSUME NEW S, NEW q \in Seq(S), NEW m \in Seq(S), NEW r \in Seq(S), NEW x \in Seq(S),
         NEW o \in Seq(S)
  PROVE  Chain(<<>>, Join(o, q), m, r, x) = Chain(o, q, m, r, x)
<1>1. Join(o, q) \in Seq(S)
  BY JoinType
<1>2. Join(<<>>, Join(o, q)) = Join(o, q)
  BY <1>1, JoinEmpty
<1>3. QED
  BY <1>2 DEF Chain

\* ... enters at the tail ...
LEMMA ChainEntered ==
  ASSUME NEW S, NEW a \in Seq(S), NEW q \in Seq(S), NEW m \in Seq(S), NEW r \in Seq(S),
         NEW x \in Seq(S), NEW o \in Seq(S)
  PROVE  Chain(a, q, m, r, Join(x, o)) = Join(Chain(a, q, m, r, x), o)
<1>1. PICK z, b : z = Join(r, x) /\ b = Join(a, q)
  OBVIOUS
<1>2. z \in Seq(S) /\ b \in Seq(S) /\ Join(m, z) \in Seq(S)
  BY <1>1, JoinType
<1>3. Join(r, Join(x, o)) = Join(z, o)
  BY <1>1, JoinAssociative
<1>4. Join(m, Join(z, o)) = Join(Join(m, z), o)
  BY <1>2, JoinAssociative
<1>5. Join(b, Join(Join(m, z), o)) = Join(Join(b, Join(m, z)), o)
  BY <1>2, JoinAssociative
<1>6. QED
  BY <1>1, <1>3, <1>4, <1>5 DEF Chain

\* ... or leaves at the head.
LEMMA ChainLeft ==
  ASSUME NEW S, NEW q \in Seq(S), NEW m \in Seq(S), NEW r \in Seq(S), NEW x \in Seq(S),
         NEW o \in Seq(S)
  PROVE  Chain(o, q, m, r, x) = Join(o, Chain(<<>>, q, m, r, x))
<1>1. PICK z : z = Join(m, Join(r, x))
  OBVIOUS
<1>2. z \in Seq(S)
  <2>1. Join(r, x) \in Seq(S)
    BY JoinType
  <2>2. QED
    BY <1>1, <2>1, JoinType
<1>3. Join(Join(o, q), z) = Join(o, Join(q, z))
  BY <1>2, JoinAssociative
<1>4. Join(<<>>, q) = q
  BY JoinEmpty
<1>5. QED
  BY <1>1, <1>3, <1>4 DEF Chain

\* The head and the tail of a queue, its end, and its middle.
LEMMA JoinHead ==
  ASSUME NEW S, NEW x \in S, NEW s \in Seq(S)
  PROVE  /\ Join(One(x), s) # <<>> /\ Head(Join(One(x), s)) = x /\ Tail(Join(One(x), s)) = s
<1>1. PICK u : u = Join(One(x), s)
  OBVIOUS
<1>2. PICK o : o = One(x)
  OBVIOUS
<1>3. o \in Seq(S) /\ Len(o) = 1 /\ o[1] = x
  BY <1>2, OneLaw
<1>4. o \in Seq(S)
  BY <1>3
<1>5. PICK n \in Nat : n = Len(s)
  OBVIOUS
<1>6. u \in Seq(S) /\ Len(u) = 1 + n
  <2>1. Join(o, s) \in Seq(S)
    BY <1>4, JoinType
  <2>2. Len(Join(o, s)) = Len(o) + Len(s)
    BY <1>4, JoinLength
  <2>3. QED
    BY <1>1, <1>2, <1>3, <1>5, <2>1, <2>2
<1>7. \A i \in 1..Len(o) : Join(o, s)[i] = o[i]
  BY <1>4, JoinFront
<1>8. \A i \in 1..Len(s) : Join(o, s)[i + Len(o)] = s[i]
  BY <1>4, JoinBehind
<1>9. u[1] = x /\ \A i \in 1..n : u[i + 1] = s[i]
  BY <1>1, <1>2, <1>3, <1>5, <1>7, <1>8
<1>10. Tail(u) \in Seq(S) /\ Len(Tail(u)) = n /\ \A i \in 1..n : Tail(u)[i] = u[i + 1]
  BY <1>6
<1>11. Tail(u) = s
  BY <1>5, <1>9, <1>10, SeqEqual
<1>12. u # <<>> /\ Head(u) = x
  BY <1>6, <1>9
<1>13. QED
  BY <1>1, <1>11, <1>12

LEMMA JoinLast ==
  ASSUME NEW S, NEW x \in S, NEW s \in Seq(S) PROVE Append(s, x) = Join(s, One(x))
  BY DEF Join, One

\* Element y leaves queue u, which becomes v.
Leaves(y, u, v) ==
  \E k \in DOMAIN u :
    u[k] = y /\ SubSeq(u, 1, k - 1) \o SubSeq(u, k + 1, Len(u)) = v

LEMMA JoinWithout ==
  ASSUME NEW S, NEW s \in Seq(S), NEW x \in S, NEW t \in Seq(S)
  PROVE  Leaves(x, Join(s, Join(One(x), t)), Join(s, t))
<1>0. PICK u, k : u = Join(s, Join(One(x), t)) /\ k = Len(s) + 1
  OBVIOUS
<1>1. PICK o, v : o = One(x) /\ v = Join(o, t)
  OBVIOUS
<1>2. PICK n \in Nat : n = Len(s)
  OBVIOUS
<1>3. PICK m \in Nat : m = Len(t)
  OBVIOUS
<1>4. o \in Seq(S)
  BY <1>1, OneLaw
<1>5. Len(o) = 1 /\ o[1] = x
  BY <1>1, OneLaw
<1>6. v \in Seq(S) /\ Len(v) = 1 + m
  <2>1. Join(o, t) \in Seq(S)
    BY <1>4, JoinType
  <2>2. Len(Join(o, t)) = Len(o) + Len(t)
    BY <1>4, JoinLength
  <2>3. QED
    BY <1>1, <1>3, <1>5, <2>1, <2>2
<1>7. v[1] = x /\ \A i \in 1..m : v[i + 1] = t[i]
  <2>1. \A i \in 1..Len(o) : Join(o, t)[i] = o[i]
    BY <1>4, JoinFront
  <2>2. \A i \in 1..Len(t) : Join(o, t)[i + Len(o)] = t[i]
    BY <1>4, JoinBehind
  <2>3. QED
    BY <1>1, <1>3, <1>5, <2>1, <2>2
<1>8. v \in Seq(S)
  BY <1>6
<1>9. u = Join(s, v)
  BY <1>0, <1>1
<1>10. u \in Seq(S) /\ Len(u) = n + (1 + m)
  <2>1. Join(s, v) \in Seq(S)
    BY <1>8, JoinType
  <2>2. Len(Join(s, v)) = Len(s) + Len(v)
    BY <1>8, JoinLength
  <2>3. QED
    BY <1>2, <1>6, <1>9, <2>1, <2>2
<1>11. \A i \in 1..n : u[i] = s[i]
  <2>1. \A i \in 1..Len(s) : Join(s, v)[i] = s[i]
    BY <1>8, JoinFront
  <2>2. QED
    BY <1>2, <1>9, <2>1
<1>12. \A i \in 1..(1 + m) : u[i + n] = v[i]
  <2>1. \A i \in 1..Len(v) : Join(s, v)[i + Len(s)] = v[i]
    BY <1>8, JoinBehind
  <2>2. QED
    BY <1>2, <1>6, <1>9, <2>1
<1>13. u[n + 1] = x /\ \A i \in 1..m : u[i + (n + 1)] = t[i]
  <2>1. 1 \in 1..(1 + m) /\ 1 + n = n + 1
    OBVIOUS
  <2>2. u[n + 1] = x
    BY <1>7, <1>12, <2>1
  <2>3. ASSUME NEW i \in 1..m PROVE u[i + (n + 1)] = t[i]
    <3>1. i + 1 \in 1..(1 + m) /\ (i + 1) + n = i + (n + 1)
      OBVIOUS
    <3>2. QED
      BY <1>7, <1>12, <3>1
  <2>4. QED
    BY <2>2, <2>3
<1>14. PICK p, q : p = SubSeq(u, 1, n) /\ q = SubSeq(u, n + 2, n + (1 + m))
  OBVIOUS
<1>15. p \in Seq(S) /\ Len(p) = n /\ \A i \in 1..n : p[i] = u[i]
  BY <1>10, <1>14, SubSeqProperties
<1>16. q \in Seq(S) /\ Len(q) = m /\ \A i \in 1..m : q[i] = u[i + (n + 1)]
  BY <1>10, <1>14, SubSeqProperties
<1>17. p = s
  BY <1>2, <1>11, <1>15, SeqEqual
<1>18. q = t
  BY <1>3, <1>13, <1>16, SeqEqual
<1>19. k = n + 1 /\ k - 1 = n /\ k + 1 = n + 2
  BY <1>0, <1>2
<1>20. SubSeq(u, 1, k - 1) \o SubSeq(u, k + 1, Len(u)) = Join(s, t)
  BY <1>10, <1>14, <1>17, <1>18, <1>19 DEF Join
<1>21. k \in DOMAIN u /\ u[k] = x
  BY <1>10, <1>13, <1>19
<1>22. QED
  BY <1>0, <1>20, <1>21 DEF Leaves

LEMMA JoinSplit ==
  ASSUME NEW S, NEW s \in Seq(S), NEW n \in Nat, n <= Len(s)
  PROVE  s = Join(SubSeq(s, 1, n), SubSeq(s, n + 1, Len(s)))
<1>1. PICK l \in Nat : l = Len(s)
  OBVIOUS
<1>2. PICK p, q, u : p = SubSeq(s, 1, n) /\ q = SubSeq(s, n + 1, l) /\ u = Join(p, q)
  OBVIOUS
<1>3. p \in Seq(S) /\ Len(p) = n /\ \A i \in 1..n : p[i] = s[i]
  BY <1>1, <1>2, SubSeqProperties
<1>4. q \in Seq(S) /\ Len(q) = l - n /\ \A i \in 1..(l - n) : q[i] = s[i + n]
  BY <1>1, <1>2, SubSeqProperties
<1>5. p \in Seq(S) /\ q \in Seq(S)
  BY <1>3, <1>4
<1>6. u \in Seq(S)
  BY <1>2, <1>5, JoinType
<1>7. Len(u) = Len(p) + Len(q)
  BY <1>2, <1>5, JoinLength
<1>8. \A i \in 1..Len(p) : Join(p, q)[i] = p[i]
  BY <1>5, JoinFront
<1>9. \A i \in 1..Len(q) : Join(p, q)[i + Len(p)] = q[i]
  BY <1>5, JoinBehind
<1>10. /\ \A i \in 1..n : u[i] = s[i]
       /\ \A i \in 1..(l - n) : u[i + n] = s[i + n]
  BY <1>2, <1>3, <1>4, <1>8, <1>9
<1>11. \A i \in 1..l : i \in 1..n \/ (i - n \in 1..(l - n) /\ (i - n) + n = i)
  BY <1>1
<1>12. \A i \in 1..l : u[i] = s[i]
  BY <1>10, <1>11
<1>13. Len(u) = l
  BY <1>1, <1>3, <1>4, <1>7
<1>14. u = s
  BY <1>1, <1>6, <1>12, <1>13, SeqEqual
<1>15. QED
  BY <1>1, <1>2, <1>14

\* An element of the third part leaves the queue from the middle.
LEMMA ChainWithout ==
  ASSUME NEW S, NEW a \in Seq(S), NEW q \in Seq(S), NEW m \in Seq(S), NEW r \in Seq(S),
         NEW x \in Seq(S), NEW y \in S
  PROVE  Leaves(y, Chain(a, q, Join(One(y), m), r, x), Chain(a, q, m, r, x))
<1>1. PICK o, s, t, w : o = One(y) /\ s = Join(a, q) /\ w = Join(r, x) /\ t = Join(m, w)
  OBVIOUS
<1>2. o \in Seq(S) /\ s \in Seq(S) /\ w \in Seq(S)
  BY <1>1, OneLaw, JoinType
<1>3. t \in Seq(S)
  BY <1>1, <1>2, JoinType
<1>4. Join(Join(o, m), w) = Join(o, t)
  BY <1>1, <1>2, JoinAssociative
<1>5. Chain(a, q, Join(One(y), m), r, x) = Join(s, Join(One(y), t))
  BY <1>1, <1>4 DEF Chain
<1>6. s \in Seq(S)
  BY <1>2
<1>7. Leaves(y, Join(s, Join(One(y), t)), Join(s, t))
  BY <1>3, <1>6, JoinWithout
<1>8. Chain(a, q, m, r, x) = Join(s, t)
  BY <1>1 DEF Chain
<1>9. QED
  BY <1>5, <1>7, <1>8
=============================================================================
