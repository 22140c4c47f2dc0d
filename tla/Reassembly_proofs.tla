-------------------------- MODULE Reassembly_proofs --------------------------
(***************************************************************************)
(* rq_update, for every number of messages, packets, cells and ports, and    *)
(* every order of arrival: the list of cells is whole, it counts what is      *)
(* missing, and a message is returned once, with all of its packets.         *)
(***************************************************************************)
EXTENDS Reassembly, FiniteSetTheorems, SequenceTheorems, WellFoundedInduction, TLAPS

-----------------------------------------------------------------------------
(* Numbers and the walk along the list.                                     *)

Below == {s \in Nat \X Nat : s[1] < s[2]}

LEMMA BelowWellFounded == IsWellFoundedOn(Below, Nat)
  BY NatLessThanWellFounded, Zenon DEF OpToRel, Below

\* A set of numbers has a least one: what holds of 0, and of n + 1 if of n,
\* holds of all numbers, as there is no least exception.
LEMMA Least ==
  ASSUME NEW S \in SUBSET Nat, S # {}
  PROVE  \E n \in S : \A k \in S : n <= k
<1>1. PICK n \in S : \A k \in S : <<k, n>> \notin Below
  BY BelowWellFounded, WFMin
<1>2. ASSUME NEW k \in S PROVE n <= k
  <2>1. k \in Nat /\ n \in Nat
    OBVIOUS
  <2>2. ~(k < n)
    BY <1>1, <2>1 DEF Below
  <2>3. QED
    BY <2>1, <2>2
<1>3. QED
  BY <1>1, <1>2

Used == {c \in Cells : cell[c] # Null}

\* The n cells of l are the list, in that order.
IsList(n, l) ==
  /\ l \in [1..n -> Cells]
  /\ \A i, j \in 1..n : l[i] = l[j] => i = j
  /\ Used = {l[i] : i \in 1..n}
  /\ head = IF n = 0 THEN Null ELSE l[1]
  /\ \A i \in 1..n : cell[l[i]].next = IF i = n THEN Null ELSE l[i + 1]
  /\ \A i \in 1..n : cell[l[i]].prev = IF i = 1 THEN Null ELSE l[i - 1]

ListInv == \E n \in Nat : \E l : IsList(n, l)

LEMMA Facts ==
  /\ Null \notin Cells /\ Null \notin FirstIds /\ Null \notin RequestCell /\ Null \notin Choice
  /\ Cardinality(Cells) \in Nat /\ IsFiniteSet(Cells)
<1>1. IsFiniteSet(Cells)
  BY ReassemblyAssumption
<1>2. QED
  BY <1>1, ReassemblyNull, FS_CardinalityType

LEMMA ListFits ==
  ASSUME NEW n \in Nat, NEW l, IsList(n, l)
  PROVE  n <= Cardinality(Cells)
<1>1. l \in Injection(1..n, Cells)
  BY DEF IsList, Injection, IsInjective
<1>2. IsFiniteSet(1..n) /\ Cardinality(1..n) = n
  BY FS_Interval
<1>3. QED
  BY <1>1, <1>2, Facts, FS_Injection

WalkStep(f, n) ==
  IF n = 0 THEN head
  ELSE LET c == f[n - 1]
       IN IF c = Null \/ cell[c] = Null THEN Null ELSE cell[c].next

\* at is the recursive function its definition describes.
LEMMA AtDefined ==
  ASSUME \E f : f = [n \in 0..Cardinality(Cells) |-> WalkStep(f, n)]
  PROVE  at = [n \in 0..Cardinality(Cells) |-> WalkStep(at, n)]
<1>1. at = CHOOSE f : f = [n \in 0..Cardinality(Cells) |-> WalkStep(f, n)]
  BY DEF at, WalkStep
<1>2. QED
  BY <1>1, Zenon

LEMMA Walk ==
  ASSUME TypeOK, NEW n \in Nat, NEW l, IsList(n, l)
  PROVE  /\ DOMAIN at = 0..Cardinality(Cells)
         /\ \A i \in 0..Cardinality(Cells) : at[i] = IF i < n THEN l[i + 1] ELSE Null
<1> DEFINE N == Cardinality(Cells)
           order == [i \in 0..N |-> IF i < n THEN l[i + 1] ELSE Null]
<1>1. N \in Nat
  BY Facts
<1> HIDE DEF N
<1>2. \A i \in 1..n : l[i] \in Cells /\ cell[l[i]] # Null /\ l[i] # Null
  BY Facts DEF IsList, Used
<1>3. ASSUME NEW i \in 0..N, i # 0, NEW f, f[i - 1] = order[i - 1]
      PROVE  WalkStep(f, i) = order[i]
  <2>1. i - 1 \in 0..N /\ i \in Nat /\ i - 1 \in Nat
    BY <1>1, <1>3
  <2>2. CASE i - 1 < n
    <3>1. i \in 1..n /\ f[i - 1] = l[i]
      BY <1>3, <2>1, <2>2
    <3>2. WalkStep(f, i) = cell[l[i]].next
      BY <1>2, <1>3, <3>1 DEF WalkStep
    <3>3. cell[l[i]].next = IF i = n THEN Null ELSE l[i + 1]
      BY <3>1 DEF IsList
    <3>4. order[i] = IF i = n THEN Null ELSE l[i + 1]
      BY <2>1, <3>1
    <3>5. QED
      BY <3>2, <3>3, <3>4
  <2>3. CASE ~(i - 1 < n)
    <3>1. f[i - 1] = Null /\ order[i] = Null
      BY <1>3, <2>1, <2>3
    <3>2. QED
      BY <1>3, <3>1 DEF WalkStep
  <2>4. QED
    BY <2>2, <2>3
<1>4. order[0] = head /\ \A f : WalkStep(f, 0) = head
  BY <1>1 DEF IsList, WalkStep
<1>5. \A i \in 0..N : WalkStep(order, i) = order[i]
  <2>1. ASSUME NEW i \in 0..N, i # 0 PROVE WalkStep(order, i) = order[i]
    BY <1>3, <2>1
  <2>2. QED
    BY <1>4, <2>1
<1>6. order = [i \in 0..N |-> WalkStep(order, i)]
  BY <1>5
<1> HIDE DEF order
<1>7. at = [i \in 0..N |-> WalkStep(at, i)]
  BY <1>6, AtDefined DEF N
<1>8. \A i \in 0..N : at[i] = order[i]
  <2> SUFFICES ASSUME NEW k \in 0..N, at[k] # order[k] PROVE FALSE
    OBVIOUS
  <2> DEFINE wrong == {i \in 0..N : at[i] # order[i]}
  <2>1. PICK i \in wrong : \A j \in wrong : i <= j
    <3>1. wrong \in SUBSET Nat /\ wrong # {}
      BY <1>1
    <3> HIDE DEF wrong
    <3>2. QED
      BY <3>1, Least
  <2>2. CASE i = 0
    BY <1>1, <1>4, <1>7, <2>1, <2>2
  <2>3. CASE i # 0
    <3>1. i - 1 \in 0..N /\ i \in 0..N /\ i - 1 < i
      BY <1>1, <2>1, <2>3
    <3>2. i - 1 \notin wrong
      BY <1>1, <2>1, <3>1
    <3>3. at[i - 1] = order[i - 1]
      BY <3>1, <3>2
    <3>4. WalkStep(at, i) = order[i]
      BY <1>3, <2>3, <3>1, <3>3
    <3>5. at[i] = WalkStep(at, i)
      BY <1>7, <3>1
    <3>6. QED
      BY <2>1, <3>4, <3>5
  <2>4. QED
    BY <2>2, <2>3
<1>9. DOMAIN at = 0..N
  BY <1>7
<1>10. QED
  BY <1>8, <1>9 DEF order, N

LEMMA ListedUsed ==
  ASSUME TypeOK, ListInv
  PROVE  /\ Listed = Used /\ at[Cardinality(Cells)] = Null
<1>1. PICK n \in Nat : \E l : IsList(n, l)
  BY DEF ListInv
<1>2. PICK l : IsList(n, l)
  BY <1>1
<1>3. PICK N \in Nat : N = Cardinality(Cells) /\ n <= N
  BY <1>2, Facts, ListFits
<1>4. DOMAIN at = 0..N /\ \A i \in 0..N : at[i] = IF i < n THEN l[i + 1] ELSE Null
  BY <1>2, <1>3, Walk
<1>5. at[N] = Null
  BY <1>3, <1>4
<1>6. Used = {l[i] : i \in 1..n} /\ \A i \in 1..n : l[i] # Null
  BY <1>2, Facts DEF IsList
<1>7. ASSUME NEW i \in 0..N, at[i] # Null PROVE at[i] \in Used
  <2>1. i < n /\ at[i] = l[i + 1] /\ i + 1 \in 1..n
    BY <1>3, <1>4, <1>7
  <2>2. QED
    BY <1>6, <2>1
<1>8. ASSUME NEW c \in Used PROVE c \in Listed
  <2>1. PICK i \in 1..n : c = l[i]
    BY <1>6
  <2>2. i - 1 \in 0..N /\ i - 1 < n /\ (i - 1) + 1 = i
    BY <1>3, <2>1
  <2>3. at[i - 1] = c /\ c # Null
    BY <1>4, <1>6, <2>1, <2>2
  <2>4. QED
    BY <1>4, <2>2, <2>3 DEF Listed
<1>9. Listed = Used
  BY <1>4, <1>7, <1>8 DEF Listed
<1>10. QED
  BY <1>3, <1>5, <1>9

-----------------------------------------------------------------------------
(* The inductive invariant.                                                 *)

\* pkts_remaining is what is missing, and a message has one cell.
CountInv ==
  /\ \A c \in Used : /\ IsFiniteSet(cell[c].mbufs)
                     /\ cell[c].remaining = Length[cell[c].msg] - Cardinality(cell[c].mbufs)
  /\ \A c, d \in Used : cell[c].msg = cell[d].msg => c = d
  /\ \A c \in Used : Length[cell[c].msg] > 1

\* A packet is still to be sent, under way, or has arrived.
PacketInv ==
  /\ \A m \in Msgs : \A s : <<m, s>> \in wire => s \in Whole(m) /\ s \notin unsent[m]
  /\ \A c \in Used : \A s \in cell[c].mbufs :
       s \notin unsent[cell[c].msg] /\ <<cell[c].msg, s>> \notin wire

\* A message is returned whole, after which nothing of it is left.
ReturnInv ==
  \A i \in 1..Len(out) :
    /\ out[i].mbufs = Whole(out[i].msg) /\ unsent[out[i].msg] = {}
    /\ \A s : <<out[i].msg, s>> \notin wire
    /\ \A c \in Used : cell[c].msg # out[i].msg

\* While packets of a message are to come, the leaf and the server number the
\* workers as when its worker was chosen.
AddressInv ==
  /\ ports = Numbered(ids)
  /\ \A m \in Msgs : dst[m] = Null <=> unsent[m] = Whole(m)
  /\ idPacket # Null => Idle
  /\ \A m \in Msgs : dst[m] # Null /\ (unsent[m] # {} \/ \E s : <<m, s>> \in wire) =>
       dst[m].id = ids + dst[m].worker
  /\ \A i \in 1..Len(out) :
       dst[out[i].msg] # Null /\ out[i].core = dst[out[i].msg].worker

IInv ==
  /\ TypeOK /\ ListInv /\ CountInv /\ PacketInv /\ ReturnInv
  /\ Quiet => AddressInv

-----------------------------------------------------------------------------
(* What each step does to the cells.                                        *)

LEMMA Sizes ==
  /\ \A m \in Msgs : Length[m] \in 1..8 /\ Whole(m) \subseteq 0..7 /\ 0 \in Whole(m)
  /\ \A m \in Msgs : \A s \in Whole(m) : s \in Nat /\ s < Length[m]
  /\ \A m \in Msgs : IsFiniteSet(Whole(m)) /\ Cardinality(Whole(m)) = Length[m]
  /\ NumPorts \in Nat \ {0} /\ FirstIds \subseteq Nat
<1>1. \A m \in Msgs : Length[m] \in 1..8
  BY ReassemblyAssumption DEF MaxPackets
<1>2. ASSUME NEW m \in Msgs
      PROVE  /\ Whole(m) \subseteq 0..7 /\ 0 \in Whole(m)
             /\ \A s \in Whole(m) : s \in Nat /\ s < Length[m]
             /\ IsFiniteSet(Whole(m)) /\ Cardinality(Whole(m)) = Length[m]
  <2>1. PICK n \in 1..8 : n = Length[m]
    BY <1>1
  <2>2. IsFiniteSet(0..(n - 1)) /\ Cardinality(0..(n - 1)) = n
    <3>1. 0 \in Int /\ n - 1 \in Int
      BY <2>1
    <3>2. /\ IsFiniteSet(0..(n - 1))
          /\ Cardinality(0..(n - 1)) = IF 0 > n - 1 THEN 0 ELSE n - 1 - 0 + 1
      BY <3>1, FS_Interval
    <3>3. QED
      BY <2>1, <3>2
  <2>3. QED
    BY <2>1, <2>2 DEF Whole
<1>3. QED
  BY <1>1, <1>2, ReassemblyAssumption

LEMMA CellTyped ==
  ASSUME TypeOK, NEW c \in Used
  PROVE  /\ c \in Cells /\ cell[c] # Null /\ cell[c] \in RequestCell
         /\ cell[c].msg \in Msgs /\ cell[c].remaining \in 1..255
         /\ cell[c].mbufs \subseteq Whole(cell[c].msg)
         /\ cell[c].next \in Cells \cup {Null} /\ cell[c].prev \in Cells \cup {Null}
<1>1. c \in Cells /\ cell[c] # Null /\ cell[c] \in RequestCell
  BY DEF Used, TypeOK
<1>2. QED
  BY <1>1 DEF RequestCell, TypeOK

LEMMA HeadUsed == ASSUME ListInv PROVE head \in Used \cup {Null}
<1>1. PICK n \in Nat : \E l : IsList(n, l)
  BY DEF ListInv
<1>2. PICK l : IsList(n, l)
  BY <1>1
<1>3. n # 0 => 1 \in 1..n
  BY <1>1
<1>4. QED
  BY <1>2, <1>3 DEF IsList

\* FirstPacket puts a cell in front of the others.
LEMMA Linked ==
  ASSUME IInv, NEW m \in Msgs, NEW s \in Whole(m), FirstPacket(m, s)
  PROVE  \E c \in Cells :
           /\ cell[c] = Null /\ head' = c
           /\ cell'[c] = NewCell(m, s) /\ NewCell(m, s) \in RequestCell
           /\ cell' \in [Cells -> RequestCell \cup {Null}]
           /\ Used' = Used \cup {c} /\ \A d \in Used : cell[d].msg # m
           /\ \A d \in Used :
                /\ d # c /\ d \in Cells
                /\ cell'[d].msg = cell[d].msg /\ cell'[d].mbufs = cell[d].mbufs
                /\ cell'[d].remaining = cell[d].remaining /\ cell'[d].next = cell[d].next
                /\ cell'[d].prev = IF d = head THEN c ELSE cell[d].prev
<1>1. TypeOK /\ Listed = Used
  BY ListedUsed DEF IInv
<1>2. PICK c \in Cells : cell[c] = Null /\ LinkFirst(c, m, s)
  BY DEF FirstPacket
<1>3. \A d \in Used : cell[d].msg # m
  BY <1>1 DEF FirstPacket, Matching
<1>4. NewCell(m, s) \in RequestCell
  <2>1. Length[m] - 1 \in 1..255
    BY Sizes DEF FirstPacket
  <2>2. {s} \in SUBSET (0..(MaxPackets - 1)) /\ head \in Cells \cup {Null}
    BY <1>1, Sizes DEF TypeOK, MaxPackets
  <2>3. QED
    BY <2>1, <2>2 DEF NewCell, RequestCell
<1>5. /\ head' = c /\ cell'[c] = NewCell(m, s)
      /\ \A d \in Cells : d # c =>
           cell'[d] = IF d = head THEN [cell[d] EXCEPT !.prev = c] ELSE cell[d]
  BY <1>2 DEF LinkFirst
<1>6. \A d \in Used : d # c /\ d \in Cells
  BY <1>2 DEF Used
<1>7. ASSUME NEW d \in Used
      PROVE  /\ cell'[d] \in RequestCell
             /\ cell'[d].msg = cell[d].msg /\ cell'[d].mbufs = cell[d].mbufs
             /\ cell'[d].remaining = cell[d].remaining /\ cell'[d].next = cell[d].next
             /\ cell'[d].prev = IF d = head THEN c ELSE cell[d].prev
  <2>1. cell[d] \in RequestCell /\ d # c /\ d \in Cells
    BY <1>1, <1>6, CellTyped
  <2>2. cell'[d] = IF d = head THEN [cell[d] EXCEPT !.prev = c] ELSE cell[d]
    BY <1>5, <2>1
  <2>3. QED
    BY <2>1, <2>2 DEF RequestCell
<1>8. ASSUME NEW d \in Cells, d \notin Used, d # c PROVE cell'[d] = Null
  <2>1. cell[d] = Null
    BY <1>8 DEF Used
  <2>2. d # head
    BY <1>1, <1>8, HeadUsed, Facts DEF IInv
  <2>3. QED
    BY <1>5, <1>8, <2>1, <2>2
<1>9. Null \notin RequestCell
  BY Facts
<1>10. \A d \in Cells : cell'[d] \in RequestCell \cup {Null}
  BY <1>4, <1>5, <1>7, <1>8
<1>11. cell' \in [Cells -> RequestCell \cup {Null}]
  <2>1. cell' = [d \in Cells |-> cell'[d]]
    BY <1>2 DEF LinkFirst
  <2>2. QED
    BY <1>10, <2>1
<1>12. Used' = Used \cup {c}
  BY <1>4, <1>5, <1>6, <1>7, <1>8, <1>9 DEF Used
<1>13. QED
  BY <1>2, <1>3, <1>4, <1>5, <1>6, <1>7, <1>11, <1>12

LEMMA CellUpdated ==
  ASSUME NEW A, NEW B, NEW C, NEW D, NEW E,
         NEW r \in [msg : A, remaining : B, mbufs : C, next : D, prev : E],
         NEW x \in B, NEW y \in C
  PROVE  [r EXCEPT !.mbufs = y, !.remaining = x]
           \in [msg : A, remaining : B, mbufs : C, next : D, prev : E]
  OBVIOUS

\* AddPacket leaves the list as it is.
LEMMA Added ==
  ASSUME IInv, NEW m \in Msgs, NEW s \in Whole(m), AddPacket(m, s)
  PROVE  /\ head' = head /\ Used' = Used /\ cell' \in [Cells -> RequestCell \cup {Null}]
         /\ \A d \in Used : /\ cell'[d].msg = cell[d].msg
                            /\ cell'[d].next = cell[d].next /\ cell'[d].prev = cell[d].prev
         /\ \E c \in Used :
              /\ cell[c].msg = m /\ cell[c].remaining > 1
              /\ cell'[c].mbufs = cell[c].mbufs \cup {s}
              /\ cell'[c].remaining = cell[c].remaining - 1
              /\ \A d \in Used : d # c => cell'[d] = cell[d]
<1>1. TypeOK /\ Listed = Used
  BY ListedUsed DEF IInv
<1>2. PICK c \in Used :
        /\ cell[c].msg = m /\ cell[c].remaining > 1
        /\ cell' = [cell EXCEPT ![c].mbufs = @ \cup {s}, ![c].remaining = @ - 1]
  BY <1>1 DEF AddPacket, Matching
<1>3. cell[c] \in RequestCell /\ c \in Cells /\ cell \in [Cells -> RequestCell \cup {Null}]
  BY <1>1, CellTyped DEF TypeOK
<1>4. /\ cell'[c] = [cell[c] EXCEPT !.mbufs = @ \cup {s}, !.remaining = @ - 1]
      /\ \A d \in Cells : d # c => cell'[d] = cell[d]
      /\ cell' = [d \in Cells |-> cell'[d]]
  BY <1>2, <1>3
<1>5. /\ cell'[c].mbufs = cell[c].mbufs \cup {s}
      /\ cell'[c].remaining = cell[c].remaining - 1
      /\ cell'[c].msg = cell[c].msg /\ cell'[c].next = cell[c].next
      /\ cell'[c].prev = cell[c].prev
  BY <1>3, <1>4 DEF RequestCell
<1>6. cell'[c] \in RequestCell
  <2>1. cell[c].remaining - 1 \in 1..255
    BY <1>2, <1>3 DEF RequestCell
  <2>2. s \in 0..(MaxPackets - 1)
    BY Sizes DEF MaxPackets
  <2>3. cell[c].mbufs \cup {s} \in SUBSET (0..(MaxPackets - 1))
    BY <1>3, <2>2 DEF RequestCell
  <2>4. PICK x \in 1..255, y \in SUBSET (0..(MaxPackets - 1)) :
          x = cell[c].remaining - 1 /\ y = cell[c].mbufs \cup {s}
    BY <2>1, <2>3
  <2>5. cell'[c] = [cell[c] EXCEPT !.mbufs = y, !.remaining = x]
    BY <1>4, <2>4
  <2>6. [cell[c] EXCEPT !.mbufs = y, !.remaining = x] \in RequestCell
    BY <1>3, CellUpdated, Zenon DEF RequestCell
  <2>7. QED
    BY <2>5, <2>6
<1>7. cell' \in [Cells -> RequestCell \cup {Null}]
  BY <1>3, <1>4, <1>6
<1>8. Used' = Used
  BY <1>4, <1>6, Facts DEF Used
<1>9. head' = head
  BY DEF AddPacket
<1>10. \A d \in Used : /\ cell'[d].msg = cell[d].msg
                       /\ cell'[d].next = cell[d].next /\ cell'[d].prev = cell[d].prev
  BY <1>4, <1>5 DEF Used
<1>11. \A d \in Used : d # c => cell'[d] = cell[d]
  BY <1>4 DEF Used
<1>12. QED
  BY <1>2, <1>5, <1>7, <1>8, <1>9, <1>10, <1>11

LEMMA NeighboursUsed ==
  ASSUME ListInv, NEW c \in Used
  PROVE  cell[c].next \in Used \cup {Null} /\ cell[c].prev \in Used \cup {Null}
<1>1. PICK n \in Nat : \E l : IsList(n, l)
  BY DEF ListInv
<1>2. PICK l : IsList(n, l)
  BY <1>1
<1>3. PICK i \in 1..n : c = l[i]
  BY <1>2 DEF IsList
<1>4. (i # n => i + 1 \in 1..n) /\ (i # 1 => i - 1 \in 1..n)
  BY <1>1, <1>3
<1>5. QED
  BY <1>2, <1>3, <1>4 DEF IsList

\* The other cells when c has been taken out of the list.
Spliced(c) ==
  \A d \in Used \ {c} :
    /\ cell'[d].msg = cell[d].msg /\ cell'[d].mbufs = cell[d].mbufs
    /\ cell'[d].remaining = cell[d].remaining
    /\ cell'[d].next = IF d = cell[c].prev THEN cell[c].next ELSE cell[d].next
    /\ cell'[d].prev = IF d = cell[c].next /\ d # cell[c].prev THEN cell[c].prev
                       ELSE cell[d].prev

\* CompleteRequest takes a cell out and joins its neighbours.
LEMMA Unlinked ==
  ASSUME IInv, NEW m \in Msgs, NEW s \in Whole(m), CompleteRequest(m, s)
  PROVE  \E c \in Used :
           /\ cell[c].msg = m /\ cell[c].remaining = 1
           /\ Return(m, cell[c].mbufs \cup {s})
           /\ head' = IF cell[c].prev = Null THEN cell[c].next ELSE head
           /\ cell' \in [Cells -> RequestCell \cup {Null}]
           /\ Used' = Used \ {c}
           /\ Spliced(c)
<1>1. TypeOK /\ Listed = Used
  BY ListedUsed DEF IInv
<1>2. PICK c \in Used :
        /\ cell[c].msg = m /\ cell[c].remaining = 1
        /\ Return(m, cell[c].mbufs \cup {s}) /\ Unlink(c)
  BY <1>1 DEF CompleteRequest, Matching
<1>3. cell[c] \in RequestCell /\ c \in Cells
  BY <1>1, CellTyped
<1>4. /\ head' = IF cell[c].prev = Null THEN cell[c].next ELSE head
      /\ cell' = [d \in Cells |->
           IF d = c THEN Null
           ELSE IF d = cell[c].prev THEN [cell[d] EXCEPT !.next = cell[c].next]
           ELSE IF d = cell[c].next THEN [cell[d] EXCEPT !.prev = cell[c].prev]
           ELSE cell[d]]
  BY <1>2 DEF Unlink
<1>5. cell'[c] = Null /\ cell' = [d \in Cells |-> cell'[d]]
  BY <1>3, <1>4
<1>6. ASSUME NEW d \in Used, d # c
      PROVE  /\ cell'[d] \in RequestCell
             /\ cell'[d].msg = cell[d].msg /\ cell'[d].mbufs = cell[d].mbufs
             /\ cell'[d].remaining = cell[d].remaining
             /\ cell'[d].next = IF d = cell[c].prev THEN cell[c].next ELSE cell[d].next
             /\ cell'[d].prev = IF d = cell[c].next /\ d # cell[c].prev THEN cell[c].prev
                                ELSE cell[d].prev
  <2>1. cell[d] \in RequestCell /\ d \in Cells
    BY <1>1, CellTyped
  <2>2. cell[c].next \in Cells \cup {Null} /\ cell[c].prev \in Cells \cup {Null}
    BY <1>1, CellTyped
  <2>3. cell'[d] = IF d = cell[c].prev THEN [cell[d] EXCEPT !.next = cell[c].next]
                   ELSE IF d = cell[c].next THEN [cell[d] EXCEPT !.prev = cell[c].prev]
                   ELSE cell[d]
    BY <1>4, <1>6, <2>1
  <2>4. CASE d = cell[c].prev
    BY <2>1, <2>2, <2>3, <2>4 DEF RequestCell
  <2>5. CASE d # cell[c].prev /\ d = cell[c].next
    BY <2>1, <2>2, <2>3, <2>5 DEF RequestCell
  <2>6. CASE d # cell[c].prev /\ d # cell[c].next
    BY <2>1, <2>3, <2>6
  <2>7. QED
    BY <2>4, <2>5, <2>6
<1>7. head' = IF cell[c].prev = Null THEN cell[c].next ELSE head
  BY <1>4
<1>8. ASSUME NEW d \in Cells, d \notin Used PROVE cell'[d] = Null
  <2>1. cell[d] = Null /\ d # c
    BY <1>8 DEF Used
  <2>2. d # cell[c].prev /\ d # cell[c].next
    BY <1>1, <1>2, <1>8, NeighboursUsed, Facts DEF IInv
  <2>3. QED
    BY <1>4, <2>1, <2>2
<1>9. cell' \in [Cells -> RequestCell \cup {Null}]
  BY <1>5, <1>6, <1>8
<1>10. Used' = Used \ {c}
  BY <1>5, <1>6, <1>8, Facts DEF Used
<1>11. Spliced(c)
  BY <1>6 DEF Spliced
<1>12. QED
  BY <1>2, <1>7, <1>9, <1>10, <1>11

-----------------------------------------------------------------------------
(* The list.                                                                *)

LEMMA ListKept ==
  ASSUME ListInv, head' = head, Used' = Used,
         \A c \in Used : cell'[c].next = cell[c].next /\ cell'[c].prev = cell[c].prev
  PROVE  ListInv'
<1>1. PICK n \in Nat : \E l : IsList(n, l)
  BY DEF ListInv
<1>2. PICK l : IsList(n, l)
  BY <1>1
<1>3. \A i \in 1..n : l[i] \in Used
  BY <1>2 DEF IsList
<1>4. IsList(n, l)'
  BY <1>2, <1>3 DEF IsList
<1>5. QED
  BY <1>4 DEF ListInv

LEMMA ListLonger ==
  ASSUME IInv, NEW m \in Msgs, NEW s \in Whole(m), FirstPacket(m, s) PROVE ListInv'
<1>1. PICK n \in Nat : \E l : IsList(n, l)
  BY DEF IInv, ListInv
<1>2. PICK l : IsList(n, l)
  BY <1>1
<1>3. PICK c \in Cells :
        /\ cell[c] = Null /\ head' = c
        /\ cell'[c] = NewCell(m, s) /\ Used' = Used \cup {c}
        /\ \A d \in Used :
             /\ d # c /\ cell'[d].next = cell[d].next
             /\ cell'[d].prev = IF d = head THEN c ELSE cell[d].prev
  BY Linked
<1> DEFINE k == [i \in 1..(n + 1) |-> IF i = 1 THEN c ELSE l[i - 1]]
<1>4. \A i \in 1..(n + 1) : i = 1 \/ (i # 1 /\ i - 1 \in 1..n)
  BY <1>1
<1>5. /\ l \in [1..n -> Cells] /\ Used = {l[i] : i \in 1..n}
      /\ \A i, j \in 1..n : l[i] = l[j] => i = j
      /\ head = IF n = 0 THEN Null ELSE l[1]
      /\ \A i \in 1..n : /\ cell[l[i]].next = IF i = n THEN Null ELSE l[i + 1]
                         /\ cell[l[i]].prev = IF i = 1 THEN Null ELSE l[i - 1]
  BY <1>2 DEF IsList
<1>6. \A i \in 1..n : l[i] \in Used /\ l[i] # c
  BY <1>3, <1>5
<1>7. k \in [1..(n + 1) -> Cells] /\ k[1] = c
  BY <1>1, <1>3, <1>4, <1>5
<1>8. \A i \in 1..n : i + 1 \in 1..(n + 1) /\ k[i + 1] = l[i]
  BY <1>1
<1>9. \A i \in 2..(n + 1) : i - 1 \in 1..n /\ i \in 1..(n + 1) /\ k[i] = l[i - 1]
  BY <1>1
<1> HIDE DEF k
<1>10. \A i, j \in 1..(n + 1) : k[i] = k[j] => i = j
  <2>1. ASSUME NEW i \in 1..(n + 1), NEW j \in 1..(n + 1), k[i] = k[j] PROVE i = j
    <3>1. CASE i = 1
      BY <1>1, <1>4, <1>6, <1>7, <1>9, <2>1, <3>1
    <3>2. CASE j = 1
      BY <1>1, <1>4, <1>6, <1>7, <1>9, <2>1, <3>2
    <3>3. CASE i # 1 /\ j # 1
      <4>1. i \in 2..(n + 1) /\ j \in 2..(n + 1)
        BY <1>1, <3>3
      <4>2. i - 1 = j - 1
        BY <1>5, <1>9, <2>1, <4>1
      <4>3. QED
        BY <1>1, <4>1, <4>2
    <3>4. QED
      BY <3>1, <3>2, <3>3
  <2>2. QED
    BY <2>1
<1>11. Used' = {k[i] : i \in 1..(n + 1)}
  <2>1. \A i \in 1..(n + 1) : k[i] \in Used \cup {c}
    BY <1>1, <1>4, <1>6, <1>7, <1>9
  <2>2. \A d \in Used : \E i \in 1..(n + 1) : d = k[i]
    BY <1>5, <1>8
  <2>3. 1 \in 1..(n + 1)
    BY <1>1
  <2>4. QED
    BY <1>3, <1>7, <2>1, <2>2, <2>3
<1>12. \A i \in 1..(n + 1) :
         /\ cell'[k[i]].next = IF i = n + 1 THEN Null ELSE k[i + 1]
         /\ cell'[k[i]].prev = IF i = 1 THEN Null ELSE k[i - 1]
  <2>1. /\ cell'[c].next = IF 1 = n + 1 THEN Null ELSE k[1 + 1]
        /\ cell'[c].prev = Null
    <3>1. cell'[c].next = head /\ cell'[c].prev = Null
      BY <1>3 DEF NewCell
    <3>2. CASE n = 0
      BY <1>5, <3>1, <3>2
    <3>3. CASE n # 0
      <4>1. 1 \in 1..n /\ 1 # n + 1
        BY <1>1, <3>3
      <4>2. QED
        BY <1>5, <1>8, <3>1, <3>3, <4>1
    <3>4. QED
      BY <3>2, <3>3
  <2>2. ASSUME NEW i \in 2..(n + 1)
        PROVE  /\ cell'[k[i]].next = IF i = n + 1 THEN Null ELSE k[i + 1]
               /\ cell'[k[i]].prev = k[i - 1]
    <3>1. PICK j \in 1..n : j = i - 1 /\ k[i] = l[j]
      BY <1>9
    <3>2. /\ cell'[l[j]].next = cell[l[j]].next
          /\ cell'[l[j]].prev = IF l[j] = head THEN c ELSE cell[l[j]].prev
      BY <1>3, <1>6
    <3>3. cell[l[j]].next = IF j = n THEN Null ELSE l[j + 1]
      BY <1>5
    <3>4. cell'[k[i]].next = IF i = n + 1 THEN Null ELSE k[i + 1]
      <4>1. CASE j = n
        <5>1. i = n + 1
          BY <1>1, <3>1, <4>1
        <5>2. QED
          BY <3>1, <3>2, <3>3, <4>1, <5>1
      <4>2. CASE j # n
        <5>1. i # n + 1 /\ j + 1 \in 1..n /\ (j + 1) + 1 = i + 1
          BY <1>1, <3>1, <4>2
        <5>2. k[i + 1] = l[j + 1]
          BY <1>8, <5>1
        <5>3. QED
          BY <3>1, <3>2, <3>3, <4>2, <5>1, <5>2
      <4>3. QED
        BY <4>1, <4>2
    <3>5. cell'[k[i]].prev = k[i - 1]
      <4>1. 1 \in 1..n /\ n # 0
        BY <1>1, <3>1
      <4>2. CASE j = 1
        <5>1. l[j] = head /\ k[i - 1] = c
          BY <1>5, <1>7, <3>1, <4>1, <4>2
        <5>2. QED
          BY <3>1, <3>2, <5>1
      <4>3. CASE j # 1
        <5>1. l[j] # head /\ j - 1 \in 1..n /\ (j - 1) + 1 = j
          BY <1>1, <1>5, <3>1, <4>1, <4>3
        <5>2. k[i - 1] = l[j - 1] /\ cell[l[j]].prev = l[j - 1]
          BY <1>5, <1>8, <3>1, <4>3, <5>1
        <5>3. QED
          BY <3>1, <3>2, <5>1, <5>2
      <4>4. QED
        BY <4>2, <4>3
    <3>6. QED
      BY <3>4, <3>5
  <2>3. ASSUME NEW i \in 1..(n + 1)
        PROVE  /\ cell'[k[i]].next = IF i = n + 1 THEN Null ELSE k[i + 1]
               /\ cell'[k[i]].prev = IF i = 1 THEN Null ELSE k[i - 1]
    <3>1. CASE i = 1
      BY <1>7, <2>1, <3>1
    <3>2. CASE i # 1
      <4>1. i \in 2..(n + 1)
        BY <1>1, <3>2
      <4>2. QED
        BY <2>2, <3>2, <4>1
    <3>3. QED
      BY <3>1, <3>2
  <2>4. QED
    BY <2>3
<1>13. n + 1 \in Nat /\ n + 1 # 0 /\ head' = k[1]
  BY <1>1, <1>3, <1>7
<1>14. IsList(n + 1, k)'
  BY <1>7, <1>10, <1>11, <1>12, <1>13 DEF IsList
<1>15. QED
  BY <1>13, <1>14 DEF ListInv

LEMMA ListShorter ==
  ASSUME IInv, NEW m \in Msgs, NEW s \in Whole(m), CompleteRequest(m, s) PROVE ListInv'
<1>1. PICK n \in Nat : \E l : IsList(n, l)
  BY DEF IInv, ListInv
<1>2. PICK l : IsList(n, l)
  BY <1>1
<1>3. PICK c \in Used :
        /\ cell[c].msg = m /\ cell[c].remaining = 1
        /\ Return(m, cell[c].mbufs \cup {s})
        /\ head' = IF cell[c].prev = Null THEN cell[c].next ELSE head
        /\ cell' \in [Cells -> RequestCell \cup {Null}]
        /\ Used' = Used \ {c}
        /\ Spliced(c)
  BY Unlinked
<1>4. /\ l \in [1..n -> Cells] /\ Used = {l[i] : i \in 1..n}
      /\ head = IF n = 0 THEN Null ELSE l[1]
  BY <1>2 DEF IsList
<1>5. \A i, j \in 1..n : l[i] = l[j] => i = j
  BY <1>2 DEF IsList
<1>6. \A i \in 1..n : /\ cell[l[i]].next = IF i = n THEN Null ELSE l[i + 1]
                      /\ cell[l[i]].prev = IF i = 1 THEN Null ELSE l[i - 1]
  BY <1>2 DEF IsList
<1>7. \A i \in 1..n : l[i] \in Used /\ l[i] # Null
  BY <1>4, Facts
<1>8. PICK k \in 1..n : c = l[k]
  BY <1>4
<1>9. n - 1 \in Nat /\ n # 0 /\ k \in Nat /\ 1 \in 1..n
  BY <1>1, <1>8
<1>10. ASSUME NEW j \in 1..n, j # k
       PROVE  /\ cell'[l[j]].next = IF j = k - 1 THEN IF k = n THEN Null ELSE l[k + 1]
                                    ELSE IF j = n THEN Null ELSE l[j + 1]
              /\ cell'[l[j]].prev = IF j = k + 1 THEN IF k = 1 THEN Null ELSE l[k - 1]
                                    ELSE IF j = 1 THEN Null ELSE l[j - 1]
  <2>1. l[j] \in Used /\ l[j] # c
    BY <1>5, <1>7, <1>8, <1>10
  <2>2. /\ cell[c].next = IF k = n THEN Null ELSE l[k + 1]
        /\ cell[c].prev = IF k = 1 THEN Null ELSE l[k - 1]
    BY <1>6, <1>8
  <2>3. l[j] = cell[c].prev <=> j = k - 1
    <3>1. CASE k = 1
      BY <1>7, <1>9, <1>10, <2>2, <3>1
    <3>2. CASE k # 1
      <4>1. k - 1 \in 1..n
        BY <1>1, <1>8, <3>2
      <4>2. QED
        BY <1>5, <2>2, <3>2, <4>1
    <3>3. QED
      BY <3>1, <3>2
  <2>4. l[j] = cell[c].next <=> j = k + 1
    <3>1. CASE k = n
      BY <1>1, <1>7, <1>10, <2>2, <3>1
    <3>2. CASE k # n
      <4>1. k + 1 \in 1..n
        BY <1>1, <1>8, <3>2
      <4>2. QED
        BY <1>5, <2>2, <3>2, <4>1
    <3>3. QED
      BY <3>1, <3>2
  <2>5. ~(j = k - 1 /\ j = k + 1)
    BY <1>9, <1>10
  <2>6. cell'[l[j]].next = IF j = k - 1 THEN cell[c].next ELSE cell[l[j]].next
    BY <1>3, <2>1, <2>3 DEF Spliced
  <2>7. cell'[l[j]].prev = IF j = k + 1 THEN cell[c].prev ELSE cell[l[j]].prev
    BY <1>3, <2>1, <2>3, <2>4, <2>5 DEF Spliced
  <2>8. QED
    BY <1>6, <2>2, <2>6, <2>7
<1> DEFINE h == [i \in 1..(n - 1) |-> IF i < k THEN l[i] ELSE l[i + 1]]
<1>11. \A i \in 1..(n - 1) :
         /\ i \in Nat /\ i < k => i \in 1..n /\ i # k /\ h[i] = l[i]
         /\ i >= k => i + 1 \in 1..n /\ i + 1 # k /\ h[i] = l[i + 1]
         /\ i < k \/ i >= k
  BY <1>9
<1>12. h \in [1..(n - 1) -> Cells]
  BY <1>4, <1>11
<1> HIDE DEF h
<1>13. \A i, j \in 1..(n - 1) : h[i] = h[j] => i = j
  <2>1. ASSUME NEW i \in 1..(n - 1), NEW j \in 1..(n - 1), h[i] = h[j] PROVE i = j
    <3>1. i \in Nat /\ j \in Nat
      OBVIOUS
    <3>2. CASE i < k /\ j < k
      BY <1>5, <1>11, <2>1, <3>2
    <3>3. CASE i < k /\ j >= k
      <4>1. i = j + 1
        BY <1>5, <1>11, <2>1, <3>3
      <4>2. QED
        BY <1>9, <3>1, <3>3, <4>1
    <3>4. CASE i >= k /\ j < k
      <4>1. j = i + 1
        BY <1>5, <1>11, <2>1, <3>4
      <4>2. QED
        BY <1>9, <3>1, <3>4, <4>1
    <3>5. CASE i >= k /\ j >= k
      <4>1. i + 1 = j + 1
        BY <1>5, <1>11, <2>1, <3>5
      <4>2. QED
        BY <3>1, <4>1
    <3>6. QED
      BY <1>9, <3>1, <3>2, <3>3, <3>4, <3>5
  <2>2. QED
    BY <2>1
<1>14. Used' = {h[i] : i \in 1..(n - 1)}
  <2>1. ASSUME NEW i \in 1..(n - 1) PROVE h[i] \in Used \ {c}
    <3>1. CASE i < k
      BY <1>5, <1>7, <1>8, <1>11, <3>1
    <3>2. CASE i >= k
      BY <1>5, <1>7, <1>8, <1>11, <3>2
    <3>3. QED
      BY <1>11, <3>1, <3>2
  <2>2. ASSUME NEW d \in Used, d # c PROVE \E i \in 1..(n - 1) : d = h[i]
    <3>1. PICK j \in 1..n : d = l[j]
      BY <1>4
    <3>2. j # k
      BY <1>8, <2>2, <3>1
    <3>3. CASE j < k
      <4>1. j \in 1..(n - 1)
        BY <1>1, <1>8, <3>3
      <4>2. QED
        BY <1>11, <3>1, <3>3, <4>1
    <3>4. CASE j > k
      <4>1. j - 1 \in 1..(n - 1) /\ j - 1 >= k /\ (j - 1) + 1 = j
        BY <1>1, <1>8, <3>4
      <4>2. QED
        BY <1>11, <3>1, <4>1
    <3>5. QED
      BY <1>9, <3>2, <3>3, <3>4
  <2>3. QED
    BY <1>3, <2>1, <2>2
<1>15. ASSUME NEW i \in 1..(n - 1)
       PROVE  /\ cell'[h[i]].next = IF i = n - 1 THEN Null ELSE h[i + 1]
              /\ cell'[h[i]].prev = IF i = 1 THEN Null ELSE h[i - 1]
  <2>1. CASE i < k
    <3>1. i \in 1..n /\ i # k /\ h[i] = l[i] /\ i # k + 1 /\ i # n
      BY <1>9, <1>11, <2>1
    <3>2. cell'[h[i]].prev = IF i = 1 THEN Null ELSE h[i - 1]
      <4>1. cell'[h[i]].prev = IF i = 1 THEN Null ELSE l[i - 1]
        BY <1>10, <3>1
      <4>2. i # 1 => i - 1 \in 1..(n - 1) /\ i - 1 < k
        BY <1>9, <2>1
      <4>3. QED
        BY <1>11, <4>1, <4>2
    <3>3. CASE i = k - 1
      <4>1. cell'[h[i]].next = IF k = n THEN Null ELSE l[k + 1]
        BY <1>10, <3>1, <3>3
      <4>2. (k = n <=> i = n - 1) /\ i + 1 = k
        BY <1>9, <3>3
      <4>3. k # n => k \in 1..(n - 1) /\ k >= k
        BY <1>1, <1>8
      <4>4. QED
        BY <1>11, <3>2, <4>1, <4>2, <4>3
    <3>4. CASE i # k - 1
      <4>1. cell'[h[i]].next = l[i + 1]
        BY <1>10, <3>1, <3>4
      <4>2. i + 1 \in 1..(n - 1) /\ i + 1 < k /\ i # n - 1
        BY <1>1, <1>8, <2>1, <3>4
      <4>3. QED
        BY <1>11, <3>2, <4>1, <4>2
    <3>5. QED
      BY <3>3, <3>4
  <2>2. CASE i >= k
    <3>1. i + 1 \in 1..n /\ i + 1 # k /\ h[i] = l[i + 1] /\ i + 1 # k - 1 /\ i + 1 # 1
      BY <1>9, <1>11, <2>2
    <3>2. cell'[h[i]].next = IF i = n - 1 THEN Null ELSE h[i + 1]
      <4>1. cell'[h[i]].next = IF i + 1 = n THEN Null ELSE l[i + 1 + 1]
        BY <1>10, <3>1
      <4>2. (i + 1 = n <=> i = n - 1) /\ (i # n - 1 => i + 1 \in 1..(n - 1) /\ i + 1 >= k)
        BY <1>9, <2>2
      <4>3. QED
        BY <1>11, <4>1, <4>2
    <3>3. CASE i = k
      <4>1. cell'[h[i]].prev = IF k = 1 THEN Null ELSE l[k - 1]
        BY <1>10, <3>1, <3>3
      <4>2. k # 1 => i - 1 \in 1..(n - 1) /\ i - 1 < k
        BY <1>9, <3>3
      <4>3. QED
        BY <1>11, <3>2, <3>3, <4>1, <4>2
    <3>4. CASE i # k
      <4>1. cell'[h[i]].prev = l[i]
        <5>1. i + 1 # k + 1 /\ (i + 1) - 1 = i
          BY <1>9, <3>4
        <5>2. QED
          BY <1>10, <3>1, <5>1
      <4>2. i - 1 \in 1..(n - 1) /\ i - 1 >= k /\ (i - 1) + 1 = i /\ i # 1
        BY <1>9, <2>2, <3>4
      <4>3. QED
        BY <1>11, <3>2, <4>1, <4>2
    <3>5. QED
      BY <3>3, <3>4
  <2>3. QED
    BY <1>11, <2>1, <2>2
<1>16. head' = IF n - 1 = 0 THEN Null ELSE h[1]
  <2>1. /\ cell[c].next = IF k = n THEN Null ELSE l[k + 1]
        /\ cell[c].prev = IF k = 1 THEN Null ELSE l[k - 1]
    BY <1>6, <1>8
  <2>2. n - 1 # 0 => 1 \in 1..(n - 1)
    BY <1>9
  <2>3. CASE k = 1
    <3>1. head' = IF n = 1 THEN Null ELSE l[2]
      BY <1>3, <2>1, <2>3
    <3>2. 1 >= k /\ 1 + 1 = 2 /\ (n = 1 <=> n - 1 = 0)
      BY <1>9, <2>3
    <3>3. QED
      BY <1>11, <2>2, <3>1, <3>2
  <2>4. CASE k # 1
    <3>1. k - 1 \in 1..n /\ 1 < k /\ n - 1 # 0
      BY <1>1, <1>8, <2>4
    <3>2. head' = l[1]
      BY <1>3, <1>4, <1>7, <1>9, <2>1, <2>4, <3>1
    <3>3. QED
      BY <1>11, <2>2, <3>1, <3>2
  <2>5. QED
    BY <2>3, <2>4
<1>17. IsList(n - 1, h)'
  BY <1>12, <1>13, <1>14, <1>15, <1>16 DEF IsList
<1>18. QED
  BY <1>9, <1>17 DEF ListInv

\* Cells and the list change only in rq_update.
LEMMA Elsewhere ==
  ASSUME [Next]_vars
  PROVE  \/ \E m \in Msgs : \E s \in Whole(m) :
              FirstPacket(m, s) \/ AddPacket(m, s) \/ CompleteRequest(m, s)
         \/ head' = head /\ cell' = cell
  BY DEF Next, SetWorkerIds, Renumber, Send, Lose, RqUpdate, SinglePacket, vars

LEMMA ListStep == ASSUME IInv, [Next]_vars PROVE ListInv'
<1>1. CASE head' = head /\ cell' = cell
  <2>1. ListInv /\ Used' = Used
    BY <1>1 DEF IInv, Used
  <2>2. QED
    BY <1>1, <2>1, ListKept
<1>2. ASSUME NEW m \in Msgs, NEW s \in Whole(m), AddPacket(m, s) PROVE ListInv'
  <2>1. /\ head' = head /\ Used' = Used /\ ListInv
        /\ \A d \in Used : cell'[d].next = cell[d].next /\ cell'[d].prev = cell[d].prev
    BY <1>2, Added DEF IInv
  <2>2. QED
    BY <2>1, ListKept
<1>3. ASSUME NEW m \in Msgs, NEW s \in Whole(m), FirstPacket(m, s) \/ CompleteRequest(m, s)
      PROVE  ListInv'
  BY <1>3, ListLonger, ListShorter
<1>4. QED
  BY <1>1, <1>2, <1>3, Elsewhere

-----------------------------------------------------------------------------
(* Types.                                                                   *)

LEMMA MaxIn ==
  ASSUME NEW n \in Nat, NEW S \in SUBSET (0..n), S # {}
  PROVE  Max(S) \in S
<1> DEFINE T == {n - x : x \in S}
<1>1. T \in SUBSET Nat /\ T # {}
  <2>1. \A x \in S : x \in 0..n
    OBVIOUS
  <2>2. \A x \in S : n - x \in Nat
    BY <2>1
  <2>3. QED
    BY <2>2
<1>2. PICK k \in T : \A j \in T : k <= j
  <2> HIDE DEF T
  <2>1. QED
    BY <1>1, Least
<1>3. PICK x \in S : k = n - x
  BY <1>2
<1>4. ASSUME NEW y \in S PROVE x >= y
  <2>1. n - y \in T /\ x \in 0..n /\ y \in 0..n
    BY <1>3
  <2>2. n - x <= n - y
    BY <1>2, <1>3, <2>1
  <2>3. QED
    BY <2>1, <2>2
<1>5. \E z \in S : \A y \in S : z >= y
  BY <1>3, <1>4
<1>6. QED
  BY <1>5 DEF Max

LEMMA CoreTyped == ASSUME NEW m \in Msgs PROVE CoreOf(m) \in Ports \cup {NoCore}
<1> DEFINE matches == {i \in Ports : ports[i] = dst[m].id + 1}
<1>1. CASE matches = {}
  BY <1>1 DEF CoreOf
<1>2. CASE matches # {}
  <2>1. NumPorts - 1 \in Nat /\ matches \in SUBSET (0..(NumPorts - 1))
    BY Sizes DEF Ports
  <2> HIDE DEF matches
  <2>2. Max(matches) \in matches
    BY <1>2, <2>1, MaxIn
  <2> USE DEF matches
  <2>3. QED
    BY <1>2, <2>2 DEF CoreOf
<1>3. QED
  BY <1>1, <1>2

Result == [msg : Msgs, core : Ports \cup {NoCore}, mbufs : SUBSET Nat]

LEMMA OutTyped ==
  ASSUME TypeOK
  PROVE  /\ out \in Seq(Result) /\ Len(out) \in Nat
         /\ \A i \in 1..Len(out) : out[i].msg \in Msgs /\ out[i].mbufs \in SUBSET Nat
<1>1. out \in Seq(Result)
  BY DEF TypeOK, Result
<1>2. \A i \in 1..Len(out) : out[i] \in Result
  BY <1>1
<1>3. QED
  BY <1>1, <1>2 DEF Result

\* rq_update returns a request of message m with those packets.
LEMMA Returned1 ==
  ASSUME TypeOK, NEW m \in Msgs, NEW pkts \in SUBSET Nat, Return(m, pkts)
  PROVE  /\ out \in Seq(Result) /\ out' \in Seq(Result)
         /\ Len(out) \in Nat /\ Len(out') = Len(out) + 1
         /\ \A i \in 1..Len(out) : out'[i] = out[i]
         /\ out'[Len(out) + 1] \in Result
         /\ out'[Len(out) + 1].msg = m /\ out'[Len(out) + 1].mbufs = pkts
         /\ out'[Len(out) + 1].core = CoreOf(m)
         /\ out' = Append(out, out'[Len(out) + 1])
<1>1. out \in Seq(Result)
  BY DEF TypeOK, Result
<1>2. PICK r : r = [msg |-> m, core |-> CoreOf(m), mbufs |-> pkts]
  OBVIOUS
<1>3. r \in Result /\ r.msg = m /\ r.mbufs = pkts /\ r.core = CoreOf(m)
  BY <1>2, CoreTyped DEF Result
<1>4. out' = Append(out, r)
  BY <1>2 DEF Return
<1>5. QED
  BY <1>1, <1>3, <1>4

LEMMA TypeStep == ASSUME IInv, [Next]_vars PROVE TypeOK'
<1>1. TypeOK
  BY DEF IInv
<1>2. ASSUME NEW m \in Msgs, NEW s \in Whole(m), Take(m, s)
      PROVE  /\ wire' \subseteq Msgs \X Nat
             /\ UNCHANGED <<ids, dst, unsent, idPacket, ports>>
  BY <1>1, <1>2 DEF Take, TypeOK
<1>3. CASE UNCHANGED vars
  BY <1>1, <1>3 DEF TypeOK, vars, netVars, Whole
<1>4. CASE SetWorkerIds
  <2>1. idPacket \in FirstIds /\ idPacket \in Nat
    BY <1>1, <1>4, Sizes DEF TypeOK, SetWorkerIds
  <2>2. \A i \in Ports : i \in Nat
    BY Sizes DEF Ports
  <2>3. Numbered(idPacket) \in [Ports -> Nat]
    BY <2>1, <2>2 DEF Numbered
  <2>4. QED
    BY <1>1, <1>4, <2>1, <2>3 DEF TypeOK, SetWorkerIds
<1>5. ASSUME NEW first \in FirstIds, Renumber(first) PROVE TypeOK'
  BY <1>1, <1>5 DEF TypeOK, Renumber
<1>6. ASSUME NEW m \in Msgs, NEW s \in Whole(m), Send(m, s) PROVE TypeOK'
  <2>1. ids \in Nat /\ s \in Nat
    BY <1>1, Sizes DEF TypeOK
  <2>2. \A w \in Ports : ids + w \in Nat /\ [worker |-> w, id |-> ids + w] \in Choice
    BY <2>1, Sizes DEF Ports, Choice
  <2>3. dst' \in [Msgs -> Choice \cup {Null}]
    BY <1>1, <1>6, <2>2 DEF TypeOK, Send
  <2>4. unsent' \in [Msgs -> SUBSET Nat] /\ \A n \in Msgs : unsent'[n] \subseteq Whole(n)
    BY <1>1, <1>6 DEF TypeOK, Send
  <2>5. wire' \subseteq Msgs \X Nat
    BY <1>1, <1>6, <2>1 DEF TypeOK, Send
  <2>6. QED
    BY <1>1, <1>6, <2>3, <2>4, <2>5 DEF TypeOK, Send
<1>7. ASSUME NEW m \in Msgs, NEW s \in Whole(m), Lose(<<m, s>>) PROVE TypeOK'
  BY <1>1, <1>7 DEF TypeOK, Lose
<1>8. ASSUME NEW m \in Msgs, NEW s \in Whole(m), SinglePacket(m, s) PROVE TypeOK'
  <2>1. {s} \in SUBSET Nat
    BY Sizes
  <2>2. out' \in Seq(Result)
    BY <1>1, <1>8, <2>1, Returned1 DEF SinglePacket
  <2>3. QED
    BY <1>1, <1>2, <1>8, <2>2 DEF TypeOK, SinglePacket, Result
<1>9. ASSUME NEW m \in Msgs, NEW s \in Whole(m), FirstPacket(m, s) PROVE TypeOK'
  <2>1. PICK c \in Cells :
          /\ head' = c /\ cell'[c] = NewCell(m, s)
          /\ cell' \in [Cells -> RequestCell \cup {Null}] /\ Used' = Used \cup {c}
          /\ \A d \in Used : cell'[d].msg = cell[d].msg /\ cell'[d].mbufs = cell[d].mbufs
    BY <1>9, Linked
  <2>2. \A d \in Used' : cell'[d].mbufs \subseteq Whole(cell'[d].msg)
    BY <1>1, <2>1, CellTyped DEF NewCell
  <2>3. QED
    BY <1>1, <1>2, <1>9, <2>1, <2>2 DEF TypeOK, FirstPacket, Used
<1>10. ASSUME NEW m \in Msgs, NEW s \in Whole(m), AddPacket(m, s) PROVE TypeOK'
  <2>1. /\ head' = head /\ Used' = Used /\ cell' \in [Cells -> RequestCell \cup {Null}]
        /\ \A d \in Used : cell'[d].msg = cell[d].msg
    BY <1>10, Added
  <2>2. \A d \in Used : cell'[d].mbufs \subseteq Whole(cell[d].msg)
    <3>1. PICK c \in Used :
            /\ cell[c].msg = m /\ cell'[c].mbufs = cell[c].mbufs \cup {s}
            /\ \A d \in Used : d # c => cell'[d] = cell[d]
      BY <1>10, Added
    <3>2. QED
      BY <1>1, <3>1, CellTyped
  <2>3. QED
    BY <1>1, <1>2, <1>10, <2>1, <2>2 DEF TypeOK, AddPacket, Used
<1>11. ASSUME NEW m \in Msgs, NEW s \in Whole(m), CompleteRequest(m, s) PROVE TypeOK'
  <2>1. PICK c \in Used :
          /\ Return(m, cell[c].mbufs \cup {s})
          /\ head' = IF cell[c].prev = Null THEN cell[c].next ELSE head
          /\ cell' \in [Cells -> RequestCell \cup {Null}]
          /\ Used' = Used \ {c} /\ Spliced(c)
    BY <1>11, Unlinked
  <2>2. head' \in Cells \cup {Null}
    BY <1>1, <2>1, CellTyped DEF TypeOK
  <2>3. \A d \in Used' : cell'[d].mbufs \subseteq Whole(cell'[d].msg)
    BY <1>1, <2>1, CellTyped DEF Spliced
  <2>4. cell[c].mbufs \cup {s} \in SUBSET Nat
    BY <1>1, CellTyped, Sizes
  <2>5. out' \in Seq(Result)
    BY <1>1, <2>1, <2>4, Returned1
  <2>6. QED
    BY <1>1, <1>2, <1>11, <2>1, <2>2, <2>3, <2>5
    DEF TypeOK, CompleteRequest, Used, Result
<1>12. QED
  BY <1>3, <1>4, <1>5, <1>6, <1>7, <1>8, <1>9, <1>10, <1>11 DEF Next, RqUpdate

-----------------------------------------------------------------------------
(* What is counted, what is under way and what was returned.                *)

LEMMA CountStep == ASSUME IInv, [Next]_vars PROVE CountInv'
<1>1. TypeOK /\ CountInv /\ PacketInv
  BY DEF IInv
<1>2. CASE head' = head /\ cell' = cell
  BY <1>1, <1>2 DEF CountInv, Used
<1>3. ASSUME NEW m \in Msgs, NEW s \in Whole(m), FirstPacket(m, s) PROVE CountInv'
  <2>1. PICK c \in Cells :
          /\ cell'[c] = NewCell(m, s) /\ Used' = Used \cup {c}
          /\ \A d \in Used : cell[d].msg # m
          /\ \A d \in Used :
               /\ cell'[d].msg = cell[d].msg /\ cell'[d].mbufs = cell[d].mbufs
               /\ cell'[d].remaining = cell[d].remaining
    BY <1>3, Linked
  <2>2. IsFiniteSet({s}) /\ Cardinality({s}) = 1
    BY FS_Singleton
  <2>3. /\ cell'[c].msg = m /\ IsFiniteSet(cell'[c].mbufs)
        /\ cell'[c].remaining = Length[m] - Cardinality(cell'[c].mbufs)
    BY <2>1, <2>2 DEF NewCell
  <2>4. \A d \in Used' : /\ IsFiniteSet(cell'[d].mbufs)
                         /\ cell'[d].remaining = Length[cell'[d].msg] - Cardinality(cell'[d].mbufs)
    BY <1>1, <2>1, <2>3 DEF CountInv
  <2>5. \A d, e \in Used' : cell'[d].msg = cell'[e].msg => d = e
    BY <1>1, <2>1, <2>3 DEF CountInv
  <2>6. Length[m] > 1
    BY <1>3 DEF FirstPacket
  <2>7. \A d \in Used' : Length[cell'[d].msg] > 1
    BY <1>1, <2>1, <2>3, <2>6 DEF CountInv
  <2>8. QED
    BY <2>4, <2>5, <2>7 DEF CountInv
<1>4. ASSUME NEW m \in Msgs, NEW s \in Whole(m), AddPacket(m, s) PROVE CountInv'
  <2>1. Used' = Used /\ \A d \in Used : cell'[d].msg = cell[d].msg
    BY <1>4, Added
  <2>2. PICK c \in Used :
          /\ cell[c].msg = m /\ cell'[c].mbufs = cell[c].mbufs \cup {s}
          /\ cell'[c].remaining = cell[c].remaining - 1
          /\ \A d \in Used : d # c => cell'[d] = cell[d]
    BY <1>4, Added
  <2>3. s \notin cell[c].mbufs
    BY <1>1, <1>4, <2>2 DEF PacketInv, AddPacket, Take
  <2>4. /\ IsFiniteSet(cell[c].mbufs) /\ Cardinality(cell[c].mbufs) \in Nat
        /\ cell[c].remaining = Length[m] - Cardinality(cell[c].mbufs)
    BY <1>1, <2>2, FS_CardinalityType DEF CountInv
  <2>5. /\ IsFiniteSet(cell[c].mbufs \cup {s})
        /\ Cardinality(cell[c].mbufs \cup {s}) = Cardinality(cell[c].mbufs) + 1
    BY <2>3, <2>4, FS_AddElement
  <2>6. Length[m] \in Nat
    BY Sizes
  <2>7. /\ IsFiniteSet(cell'[c].mbufs)
        /\ cell'[c].remaining = Length[m] - Cardinality(cell'[c].mbufs)
    BY <2>2, <2>4, <2>5, <2>6
  <2>8. \A d \in Used : /\ IsFiniteSet(cell'[d].mbufs)
                        /\ cell'[d].remaining = Length[cell'[d].msg] - Cardinality(cell'[d].mbufs)
    BY <1>1, <2>1, <2>2, <2>7 DEF CountInv
  <2>9. QED
    BY <1>1, <2>1, <2>8 DEF CountInv
<1>5. ASSUME NEW m \in Msgs, NEW s \in Whole(m), CompleteRequest(m, s) PROVE CountInv'
  <2>1. PICK c \in Used : Used' = Used \ {c} /\ Spliced(c)
    BY <1>5, Unlinked
  <2>2. \A d \in Used' : /\ d \in Used /\ cell'[d].msg = cell[d].msg
                         /\ cell'[d].mbufs = cell[d].mbufs
                         /\ cell'[d].remaining = cell[d].remaining
    BY <2>1 DEF Spliced
  <2>3. QED
    BY <1>1, <2>2 DEF CountInv
<1>6. QED
  BY <1>2, <1>3, <1>4, <1>5, Elsewhere

\* Where the packets of the cells are after a step of rq_update.
LEMMA MbufsStep ==
  ASSUME IInv, NEW m \in Msgs, NEW s \in Whole(m), RqUpdate(m, s)
  PROVE  \A d \in Used' :
           /\ cell'[d].msg \in Msgs
           /\ \A p \in cell'[d].mbufs :
                \/ d \in Used /\ cell[d].msg = cell'[d].msg /\ p \in cell[d].mbufs
                \/ cell'[d].msg = m /\ p = s
<1>1. TypeOK
  BY DEF IInv
<1>2. CASE SinglePacket(m, s)
  BY <1>1, <1>2, CellTyped DEF SinglePacket, Used
<1>3. CASE FirstPacket(m, s)
  <2>1. PICK c \in Cells :
          /\ cell'[c] = NewCell(m, s) /\ Used' = Used \cup {c}
          /\ \A d \in Used : cell'[d].msg = cell[d].msg /\ cell'[d].mbufs = cell[d].mbufs
    BY <1>3, Linked
  <2>2. cell'[c].msg = m /\ cell'[c].mbufs = {s}
    BY <2>1 DEF NewCell
  <2>3. QED
    BY <1>1, <2>1, <2>2, CellTyped
<1>4. CASE AddPacket(m, s)
  <2>1. Used' = Used /\ \A d \in Used : cell'[d].msg = cell[d].msg
    BY <1>4, Added
  <2>2. PICK c \in Used :
          /\ cell[c].msg = m /\ cell'[c].mbufs = cell[c].mbufs \cup {s}
          /\ \A d \in Used : d # c => cell'[d] = cell[d]
    BY <1>4, Added
  <2>3. QED
    BY <1>1, <2>1, <2>2, CellTyped
<1>5. CASE CompleteRequest(m, s)
  <2>1. PICK c \in Used : Used' = Used \ {c} /\ Spliced(c)
    BY <1>5, Unlinked
  <2>2. QED
    BY <1>1, <2>1, CellTyped DEF Spliced
<1>6. QED
  BY <1>2, <1>3, <1>4, <1>5 DEF RqUpdate

LEMMA PacketStep == ASSUME IInv, [Next]_vars PROVE PacketInv'
<1>1. TypeOK /\ PacketInv
  BY DEF IInv
<1>2. CASE UNCHANGED <<wire, unsent, cell>>
  BY <1>1, <1>2 DEF PacketInv, Used
<1>3. ASSUME NEW m \in Msgs, NEW s \in Whole(m), Send(m, s) PROVE PacketInv'
  <2>1. /\ s \in unsent[m] /\ unsent' = [unsent EXCEPT ![m] = @ \ {s}]
        /\ wire' = wire \cup {<<m, s>>} /\ cell' = cell
    BY <1>3 DEF Send
  <2>2. /\ s \notin unsent'[m] /\ \A n \in Msgs : unsent'[n] \subseteq unsent[n]
    BY <1>1, <2>1 DEF TypeOK
  <2>3. \A n \in Msgs : \A p : <<n, p>> \in wire' => p \in Whole(n) /\ p \notin unsent'[n]
    BY <1>1, <2>1, <2>2 DEF PacketInv
  <2>4. \A c \in Used : \A p \in cell[c].mbufs :
          p \notin unsent'[cell[c].msg] /\ <<cell[c].msg, p>> \notin wire'
    <3>1. \A c \in Used : cell[c].msg \in Msgs
      BY <1>1, CellTyped
    <3>2. QED
      BY <1>1, <2>1, <2>2, <3>1 DEF PacketInv
  <2>5. QED
    BY <2>1, <2>3, <2>4 DEF PacketInv, Used
<1>4. ASSUME NEW m \in Msgs, NEW s \in Whole(m), Lose(<<m, s>>) PROVE PacketInv'
  BY <1>1, <1>4 DEF PacketInv, Lose, Used
<1>5. ASSUME NEW m \in Msgs, NEW s \in Whole(m), RqUpdate(m, s) PROVE PacketInv'
  <2>1. <<m, s>> \in wire /\ wire' = wire \ {<<m, s>>} /\ unsent' = unsent
    BY <1>5 DEF RqUpdate, SinglePacket, FirstPacket, AddPacket, CompleteRequest, Take
  <2>2. \A d \in Used' : \A p \in cell'[d].mbufs :
          p \notin unsent[cell'[d].msg] /\ <<cell'[d].msg, p>> \notin wire'
    BY <1>1, <1>5, <2>1, MbufsStep DEF PacketInv
  <2>3. QED
    BY <1>1, <2>1, <2>2 DEF PacketInv
<1>6. QED
  BY <1>2, <1>3, <1>4, <1>5 DEF Next, SetWorkerIds, Renumber, vars, netVars

\* The packets that complete a message are all of it.
LEMMA MadeWhole ==
  ASSUME IInv, NEW m \in Msgs, NEW s \in Whole(m), <<m, s>> \in wire,
         NEW c \in Used, cell[c].msg = m, cell[c].remaining = 1
  PROVE  cell[c].mbufs \cup {s} = Whole(m)
<1>1. TypeOK /\ CountInv /\ PacketInv
  BY DEF IInv
<1>2. s \notin cell[c].mbufs /\ cell[c].mbufs \subseteq Whole(m)
  BY <1>1, CellTyped DEF PacketInv
<1>3. /\ IsFiniteSet(cell[c].mbufs) /\ Cardinality(cell[c].mbufs) \in Nat
      /\ 1 = Length[m] - Cardinality(cell[c].mbufs)
  BY <1>1, FS_CardinalityType DEF CountInv
<1>4. Cardinality(cell[c].mbufs \cup {s}) = Length[m]
  <2>1. Cardinality(cell[c].mbufs \cup {s}) = Cardinality(cell[c].mbufs) + 1
    BY <1>2, <1>3, FS_AddElement
  <2>2. Length[m] \in Nat
    BY Sizes
  <2>3. QED
    BY <1>3, <2>1, <2>2
<1>5. cell[c].mbufs \cup {s} \in SUBSET Whole(m)
  BY <1>2
<1>6. QED
  BY <1>4, <1>5, Sizes, FS_Subset

LEMMA ReturnStep == ASSUME IInv, [Next]_vars PROVE ReturnInv'
<1>1. TypeOK /\ CountInv /\ PacketInv /\ ReturnInv
  BY DEF IInv
<1>2. PICK n \in Nat : n = Len(out)
  BY <1>1, OutTyped
<1>3. \A i \in 1..n : out[i].msg \in Msgs
  BY <1>1, <1>2, OutTyped
<1>4. CASE UNCHANGED <<wire, unsent, cell, out>>
  BY <1>1, <1>4 DEF ReturnInv, Used
<1>5. ASSUME NEW m \in Msgs, NEW s \in Whole(m), Send(m, s) PROVE ReturnInv'
  <2>1. /\ s \in unsent[m] /\ unsent' = [unsent EXCEPT ![m] = @ \ {s}]
        /\ wire' = wire \cup {<<m, s>>} /\ cell' = cell /\ out' = out
    BY <1>5 DEF Send
  <2>2. \A i \in 1..n : out[i].msg # m
    BY <1>1, <1>2, <2>1 DEF ReturnInv
  <2>3. \A i \in 1..n : unsent'[out[i].msg] = unsent[out[i].msg]
    BY <1>1, <1>3, <2>1, <2>2 DEF TypeOK
  <2>4. QED
    BY <1>1, <1>2, <2>1, <2>2, <2>3 DEF ReturnInv, Used
<1>6. ASSUME NEW m \in Msgs, NEW s \in Whole(m), Lose(<<m, s>>) PROVE ReturnInv'
  BY <1>1, <1>6 DEF ReturnInv, Lose, Used
<1>7. ASSUME NEW m \in Msgs, NEW s \in Whole(m), RqUpdate(m, s) PROVE ReturnInv'
  <2>1. <<m, s>> \in wire /\ wire' = wire \ {<<m, s>>} /\ unsent' = unsent
    BY <1>7 DEF RqUpdate, SinglePacket, FirstPacket, AddPacket, CompleteRequest, Take
  <2>2. \A i \in 1..n : out[i].msg # m
    BY <1>1, <1>2, <2>1 DEF ReturnInv
  <2>3. \A d \in Used' : cell'[d].msg = m \/ \E c \in Used : cell'[d].msg = cell[c].msg
    <3>1. CASE SinglePacket(m, s)
      BY <3>1 DEF SinglePacket, Used
    <3>2. CASE FirstPacket(m, s)
      <4>1. PICK c \in Cells :
              /\ cell'[c] = NewCell(m, s) /\ Used' = Used \cup {c}
              /\ \A d \in Used : cell'[d].msg = cell[d].msg
        BY <3>2, Linked
      <4>2. QED
        BY <4>1 DEF NewCell
    <3>3. CASE AddPacket(m, s)
      <4>1. Used' = Used /\ \A d \in Used : cell'[d].msg = cell[d].msg
        BY <3>3, Added
      <4>2. QED
        BY <4>1
    <3>4. CASE CompleteRequest(m, s)
      <4>1. PICK c \in Used : Used' = Used \ {c} /\ Spliced(c)
        BY <3>4, Unlinked
      <4>2. QED
        BY <4>1 DEF Spliced
    <3>5. QED
      BY <1>7, <3>1, <3>2, <3>3, <3>4 DEF RqUpdate
  <2>4. ASSUME NEW i \in 1..n
        PROVE  /\ out[i].mbufs = Whole(out[i].msg) /\ unsent'[out[i].msg] = {}
               /\ \A p : <<out[i].msg, p>> \notin wire'
               /\ \A d \in Used' : cell'[d].msg # out[i].msg
    BY <1>1, <1>2, <2>1, <2>2, <2>3 DEF ReturnInv
  <2>5. CASE out' = out
    BY <1>2, <2>4, <2>5 DEF ReturnInv
  <2>6. ASSUME NEW pkts \in SUBSET Nat, Return(m, pkts), pkts = Whole(m),
               \A p \in pkts : p \notin unsent[m] /\ <<m, p>> \notin wire',
               \A d \in Used' : cell'[d].msg # m
        PROVE  ReturnInv'
    <3>1. /\ Len(out') = n + 1 /\ \A i \in 1..n : out'[i] = out[i]
          /\ out'[n + 1].msg = m /\ out'[n + 1].mbufs = pkts
      BY <1>1, <1>2, <2>6, Returned1
    <3>2. unsent'[m] = {}
      BY <1>1, <2>1, <2>6 DEF TypeOK
    <3>3. \A p : <<m, p>> \notin wire'
      BY <1>1, <2>1, <2>6 DEF PacketInv
    <3>4. \A i \in 1..(n + 1) : i \in 1..n \/ i = n + 1
      BY <1>2
    <3>5. ASSUME NEW i \in 1..(n + 1)
          PROVE  /\ out'[i].mbufs = Whole(out'[i].msg) /\ unsent'[out'[i].msg] = {}
                 /\ \A p : <<out'[i].msg, p>> \notin wire'
                 /\ \A d \in Used' : cell'[d].msg # out'[i].msg
      <4>1. CASE i \in 1..n
        BY <2>4, <3>1, <4>1
      <4>2. CASE i = n + 1
        BY <2>6, <3>1, <3>2, <3>3, <4>2
      <4>3. QED
        BY <3>4, <4>1, <4>2
    <3>6. QED
      BY <3>1, <3>5 DEF ReturnInv
  <2>7. CASE SinglePacket(m, s)
    <3>1. Length[m] = 1 /\ Return(m, {s}) /\ cell' = cell
      BY <2>7 DEF SinglePacket
    <3>2. {s} = Whole(m) /\ {s} \in SUBSET Nat
      BY <3>1, Sizes DEF Whole
    <3>3. \A d \in Used' : cell'[d].msg # m
      BY <1>1, <3>1 DEF CountInv, Used
    <3>4. s \notin unsent[m] /\ <<m, s>> \notin wire'
      BY <1>1, <2>1 DEF PacketInv
    <3>5. QED
      BY <2>6, <3>1, <3>2, <3>3, <3>4
  <2>8. CASE CompleteRequest(m, s)
    <3>1. PICK c \in Used :
            /\ cell[c].msg = m /\ cell[c].remaining = 1
            /\ Return(m, cell[c].mbufs \cup {s}) /\ Used' = Used \ {c} /\ Spliced(c)
      BY <2>8, Unlinked
    <3>2. cell[c].mbufs \cup {s} = Whole(m)
      BY <2>1, <3>1, MadeWhole
    <3>3. \A p \in cell[c].mbufs \cup {s} : p \notin unsent[m] /\ <<m, p>> \notin wire'
      BY <1>1, <2>1, <3>1 DEF PacketInv
    <3>4. \A d \in Used' : cell'[d].msg # m
      BY <1>1, <3>1 DEF CountInv, Spliced
    <3>5. cell[c].mbufs \cup {s} \in SUBSET Nat
      BY <3>2, Sizes
    <3>6. QED
      BY <2>6, <3>1, <3>2, <3>3, <3>4, <3>5
  <2>9. QED
    BY <1>7, <2>5, <2>7, <2>8 DEF RqUpdate, FirstPacket, AddPacket
<1>8. QED
  BY <1>4, <1>5, <1>6, <1>7 DEF Next, SetWorkerIds, Renumber, vars, netVars

-----------------------------------------------------------------------------
(* Whom a message is for.                                                   *)

\* The worker whose ID the leaf put into a message, as long as both count from
\* the same ID.
LEMMA CoreFound ==
  ASSUME TypeOK, ports = Numbered(ids), NEW m \in Msgs, dst[m] # Null,
         dst[m].id = ids + dst[m].worker
  PROVE  CoreOf(m) = dst[m].worker
<1>1. ids \in Nat /\ dst[m] \in Choice
  BY Sizes DEF TypeOK
<1>2. PICK w \in Ports : w = dst[m].worker
  BY <1>1 DEF Choice
<1>3. \A i \in Ports : i \in Nat
  BY Sizes DEF Ports
<1>4. \A i \in Ports : ports[i] = ids + 1 + i
  BY DEF Numbered
<1>5. ASSUME NEW i \in Ports PROVE ports[i] = dst[m].id + 1 <=> i = w
  BY <1>1, <1>2, <1>3, <1>4
<1>6. {i \in Ports : ports[i] = dst[m].id + 1} = {w}
  BY <1>5
<1>7. Max({w}) = w
  <2>1. \E x \in {w} : \A y \in {w} : x >= y
    BY <1>3
  <2>2. QED
    BY <2>1 DEF Max
<1>8. QED
  BY <1>2, <1>6, <1>7 DEF CoreOf

LEMMA AddressStep == ASSUME IInv, Quiet, AddressInv, [Next]_vars PROVE AddressInv'
<1>1. TypeOK /\ PacketInv /\ ReturnInv
  BY DEF IInv
<1>2. PICK n \in Nat : n = Len(out)
  BY <1>1, OutTyped
<1>3. \A i \in 1..n : out[i].msg \in Msgs
  BY <1>1, <1>2, OutTyped
<1>4. CASE UNCHANGED vars
  BY <1>4 DEF AddressInv, vars, netVars, Idle, Whole, Numbered
<1>5. CASE SetWorkerIds
  <2>1. /\ idPacket # Null /\ ports' = Numbered(idPacket) /\ ids' = idPacket
        /\ idPacket' = Null /\ UNCHANGED <<dst, unsent, wire, out>>
    BY <1>5 DEF SetWorkerIds
  <2>2. wire = {} /\ \A m \in Msgs : unsent[m] \in {{}, Whole(m)}
    BY <2>1 DEF AddressInv, Idle
  <2>3. ports' = Numbered(ids)'
    BY <2>1 DEF Numbered
  <2>4. \A m \in Msgs : ~(dst[m] # Null /\ (unsent[m] # {} \/ \E s : <<m, s>> \in wire))
    BY <2>2 DEF AddressInv
  <2>5. QED
    BY <2>1, <2>3, <2>4 DEF AddressInv, Whole
<1>6. ASSUME NEW first \in FirstIds, Renumber(first) PROVE AddressInv'
  <2>1. Idle /\ UNCHANGED <<ids, dst, unsent, wire, ports, out>>
    BY <1>6 DEF Renumber
  <2>2. QED
    BY <2>1 DEF AddressInv, Idle, Whole, Numbered
<1>7. ASSUME NEW m \in Msgs, NEW s \in Whole(m), Send(m, s) PROVE AddressInv'
  <2>1. /\ s \in unsent[m] /\ idPacket = Null
        /\ unsent' = [unsent EXCEPT ![m] = @ \ {s}] /\ wire' = wire \cup {<<m, s>>}
        /\ UNCHANGED <<ids, idPacket, ports, out>>
    BY <1>7 DEF Send
  <2>2. dst' \in [Msgs -> Choice \cup {Null}]
    BY <1>7, TypeStep DEF TypeOK, Next
  <2>3. dst'[m] # Null /\ dst'[m].id = ids + dst'[m].worker
    <3>1. CASE dst[m] = Null
      <4>1. PICK w \in Ports : dst' = [dst EXCEPT ![m] = [worker |-> w, id |-> ids + w]]
        BY <1>7, <3>1 DEF Send
      <4>2. dst'[m] = [worker |-> w, id |-> ids + w]
        BY <1>1, <4>1 DEF TypeOK
      <4>3. [worker |-> w, id |-> ids + w] \in Choice
        BY <1>1, Sizes DEF TypeOK, Ports, Choice
      <4>4. QED
        BY <4>2, <4>3, Facts
    <3>2. CASE dst[m] # Null
      <4>1. dst' = dst
        BY <1>7, <3>2 DEF Send
      <4>2. QED
        BY <2>1, <3>2, <4>1 DEF AddressInv
    <3>3. QED
      BY <3>1, <3>2
  <2>4. \A k \in Msgs : k # m => dst'[k] = dst[k] /\ unsent'[k] = unsent[k]
    BY <1>1, <1>7 DEF TypeOK, Send
  <2>5. s \notin unsent'[m]
    BY <1>1, <2>1 DEF TypeOK
  <2>6. \A k \in Msgs : dst'[k] = Null <=> unsent'[k] = Whole(k)
    BY <2>3, <2>4, <2>5 DEF AddressInv
  <2>7. \A k \in Msgs : dst'[k] # Null /\ (unsent'[k] # {} \/ \E p : <<k, p>> \in wire') =>
          dst'[k].id = ids + dst'[k].worker
    BY <2>1, <2>3, <2>4 DEF AddressInv
  <2>8. \A i \in 1..n : dst'[out[i].msg] = dst[out[i].msg]
    BY <1>1, <1>2, <1>3, <2>1, <2>4 DEF ReturnInv
  <2>9. \A i \in 1..n : dst'[out[i].msg] # Null /\ out[i].core = dst'[out[i].msg].worker
    BY <1>2, <2>8 DEF AddressInv
  <2>10. QED
    BY <1>2, <2>1, <2>6, <2>7, <2>9 DEF AddressInv, Whole, Numbered
<1>8. ASSUME NEW m \in Msgs, NEW s \in Whole(m), Lose(<<m, s>>) PROVE AddressInv'
  <2>1. <<m, s>> \in wire /\ wire' \subseteq wire
        /\ UNCHANGED <<ids, dst, unsent, idPacket, ports, out>>
    BY <1>8 DEF Lose
  <2>2. idPacket = Null
    BY <2>1 DEF AddressInv, Idle
  <2>3. QED
    BY <2>1, <2>2 DEF AddressInv, Whole, Numbered
<1>9. ASSUME NEW m \in Msgs, NEW s \in Whole(m), RqUpdate(m, s) PROVE AddressInv'
  <2>1. /\ <<m, s>> \in wire /\ wire' \subseteq wire
        /\ UNCHANGED <<ids, dst, unsent, idPacket, ports>>
    BY <1>9 DEF RqUpdate, SinglePacket, FirstPacket, AddPacket, CompleteRequest, Take
  <2>2. idPacket = Null
    BY <2>1 DEF AddressInv, Idle
  <2>3. dst[m] # Null
    <3>1. s \in Whole(m) /\ s \notin unsent[m]
      BY <1>1, <2>1 DEF PacketInv
    <3>2. QED
      BY <3>1 DEF AddressInv
  <2>4. CoreOf(m) = dst[m].worker
    BY <1>1, <2>1, <2>3, CoreFound DEF AddressInv
  <2>5. \A i \in 1..Len(out') : dst[out'[i].msg] # Null /\ out'[i].core = dst[out'[i].msg].worker
    <3>1. CASE out' = out
      BY <3>1 DEF AddressInv
    <3>2. ASSUME NEW pkts \in SUBSET Nat, Return(m, pkts)
          PROVE  \A i \in 1..Len(out') :
                   dst[out'[i].msg] # Null /\ out'[i].core = dst[out'[i].msg].worker
      <4>1. /\ Len(out') = n + 1 /\ \A i \in 1..n : out'[i] = out[i]
            /\ out'[n + 1].msg = m /\ out'[n + 1].core = CoreOf(m)
        BY <1>1, <1>2, <3>2, Returned1
      <4>2. \A i \in 1..(n + 1) : i \in 1..n \/ i = n + 1
        BY <1>2
      <4>3. QED
        BY <1>2, <2>3, <2>4, <4>1, <4>2 DEF AddressInv
    <3>3. CASE SinglePacket(m, s)
      <4>1. {s} \in SUBSET Nat /\ Return(m, {s})
        BY <3>3, Sizes DEF SinglePacket
      <4>2. QED
        BY <3>2, <4>1
    <3>4. CASE CompleteRequest(m, s)
      <4>1. PICK c \in Used : cell[c].msg = m /\ Return(m, cell[c].mbufs \cup {s})
        BY <3>4, Unlinked
      <4>2. cell[c].mbufs \cup {s} \in SUBSET Nat
        BY <1>1, <4>1, CellTyped, Sizes
      <4>3. QED
        BY <3>2, <4>1, <4>2
    <3>5. QED
      BY <1>9, <3>1, <3>3, <3>4 DEF RqUpdate, FirstPacket, AddPacket
  <2>6. QED
    BY <2>1, <2>2, <2>5 DEF AddressInv, Whole, Numbered
<1>10. QED
  BY <1>4, <1>5, <1>6, <1>7, <1>8, <1>9 DEF Next

-----------------------------------------------------------------------------
(* Theorems.                                                                *)

LEMMA InitInv == Init => IInv
<1> SUFFICES ASSUME Init PROVE IInv
  OBVIOUS
<1>1. Used = {} /\ wire = {} /\ out = <<>> /\ Len(out) = 0
  BY DEF Init, Used
<1>2. \A i \in 1..0 : FALSE
  OBVIOUS
<1>3. TypeOK
  <2>1. ids \in FirstIds /\ ids \in Nat
    BY Sizes DEF Init
  <2>2. ports \in [Ports -> Nat]
    BY <2>1, Sizes DEF Init, Numbered, Ports
  <2>3. unsent \in [Msgs -> SUBSET Nat] /\ \A m \in Msgs : unsent[m] \subseteq Whole(m)
    BY Sizes DEF Init
  <2>4. QED
    BY <1>1, <2>1, <2>2, <2>3 DEF TypeOK, Init
<1>4. ListInv
  <2>1. IsList(0, [i \in 1..0 |-> Null])
    BY <1>1, <1>2 DEF IsList, Init
  <2>2. QED
    BY <2>1 DEF ListInv
<1>5. CountInv /\ PacketInv /\ ReturnInv
  BY <1>1, <1>2 DEF CountInv, PacketInv, ReturnInv
<1>6. AddressInv
  BY <1>1, <1>2 DEF AddressInv, Init
<1>7. QED
  BY <1>3, <1>4, <1>5, <1>6 DEF IInv

LEMMA Inductive == Spec => []IInv
<1>1. IInv /\ [Next]_vars => IInv'
  BY TypeStep, ListStep, CountStep, PacketStep, ReturnStep, AddressStep DEF IInv
<1>2. QED
  BY <1>1, InitInv, PTL DEF Spec

\* Whatever order packets arrive in, a cell on the list still waits for a packet
\* and holds packets of its own message (rq_update).
THEOREM TypeCorrect == Spec => []TypeOK
<1>1. IInv => TypeOK
  BY DEF IInv
<1>2. QED
  BY <1>1, Inductive, PTL

LEMMA ListWhole == ASSUME IInv PROVE ListWellFormed
<1>1. TypeOK /\ ListInv /\ Listed = Used /\ at[Cardinality(Cells)] = Null
  BY ListedUsed DEF IInv
<1>2. PICK n \in Nat : \E l : IsList(n, l)
  BY <1>1 DEF ListInv
<1>3. PICK l : IsList(n, l)
  BY <1>2
<1>4. Listed = {c \in Cells : cell[c] # Null}
  BY <1>1 DEF Used
<1>5. \A i \in 1..n : l[i] \in Used /\ l[i] # Null
  BY <1>3, Facts DEF IsList
<1>6. ASSUME NEW c \in Listed
      PROVE  /\ cell[c].prev = Null <=> c = head
             /\ cell[c].next # Null => cell[cell[c].next].prev = c
  <2>1. PICK i \in 1..n : c = l[i]
    BY <1>1, <1>3, <1>6 DEF IsList
  <2>2. i \in Nat /\ n # 0 /\ 1 \in 1..n
    BY <1>2, <2>1
  <2>3. cell[c].prev = Null <=> i = 1
    <3>1. i # 1 => i - 1 \in 1..n
      BY <1>2, <2>1
    <3>2. QED
      BY <1>3, <1>5, <2>1, <3>1 DEF IsList
  <2>4. c = head <=> i = 1
    BY <1>3, <2>1, <2>2 DEF IsList
  <2>5. ASSUME cell[c].next # Null PROVE cell[cell[c].next].prev = c
    <3>1. i # n /\ cell[c].next = l[i + 1]
      BY <1>3, <2>1, <2>5 DEF IsList
    <3>2. i + 1 \in 1..n /\ i + 1 # 1 /\ (i + 1) - 1 = i
      BY <1>2, <2>1, <2>2, <3>1
    <3>3. cell[l[i + 1]].prev = l[(i + 1) - 1]
      BY <1>3, <3>2 DEF IsList
    <3>4. QED
      BY <2>1, <3>1, <3>2, <3>3
  <2>6. QED
    BY <2>3, <2>4, <2>5
<1>7. QED
  BY <1>1, <1>4, <1>6 DEF ListWellFormed

\* rq_update's list stays whole whichever cell a last packet takes out: it ends,
\* its links mirror each other, and its cells are those taken from rq_mempool.
THEOREM ListCorrect == Spec => []ListWellFormed
<1>1. IInv => ListWellFormed
  BY ListWhole
<1>2. QED
  BY <1>1, Inductive, PTL

\* pkts_remaining is exact, and a message never has two cells.
THEOREM RemainingCorrect == Spec => []RemainingExact
<1>1. ASSUME IInv PROVE RemainingExact
  <2>1. Listed = Used /\ CountInv
    BY <1>1, ListedUsed DEF IInv
  <2>2. QED
    BY <2>1 DEF CountInv, RemainingExact
<1>2. QED
  BY <1>1, Inductive, PTL

\* rq_update hands a message to the worker the leaf chose, through all changes of
\* worker IDs that are made between messages.
THEOREM DeliveredCorrect == ASSUME Quiet PROVE Spec => []DeliveredToAddressee
<1>1. ASSUME IInv PROVE DeliveredToAddressee
  <2>1. AddressInv /\ TypeOK
    BY <1>1 DEF IInv
  <2>2. DOMAIN out = 1..Len(out)
    BY <2>1, OutTyped
  <2>3. QED
    BY <2>1, <2>2 DEF AddressInv, DeliveredToAddressee, Returned
<1>2. QED
  BY <1>1, Inductive, PTL

-----------------------------------------------------------------------------
(* Refinement of Assembly.                                                  *)

LEMMA PacketsOf ==
  ASSUME NEW o, NEW D, NEW k, NEW U, NEW m, NEW s
  PROVE  s \in UNION ({r.mbufs : r \in {q \in {o[i] : i \in D} : q.msg = m}}
                      \cup {k[c].mbufs : c \in {d \in U : k[d].msg = m}})
         <=> \/ \E i \in D : o[i].msg = m /\ s \in o[i].mbufs
             \/ \E c \in U : k[c].msg = m /\ s \in k[c].mbufs
  OBVIOUS

LEMMA ArrivedIs ==
  ASSUME TypeOK, NEW m, NEW s
  PROVE  s \in Arrived(m) <=>
           \/ \E i \in 1..Len(out) : out[i].msg = m /\ s \in out[i].mbufs
           \/ \E c \in Used : cell[c].msg = m /\ s \in cell[c].mbufs
<1>1. DOMAIN out = 1..Len(out)
  BY OutTyped
<1>2. {d \in Cells : cell[d] # Null /\ cell[d].msg = m} = {d \in Used : cell[d].msg = m}
  BY DEF Used
<1>3. Arrived(m) =
        UNION ({r.mbufs : r \in {q \in {out[i] : i \in 1..Len(out)} : q.msg = m}}
               \cup {cell[c].mbufs : c \in {d \in Used : cell[d].msg = m}})
  BY <1>1, <1>2 DEF Arrived, Returned
<1>4. QED
  BY <1>3, PacketsOf

LEMMA ArrivedIsNext ==
  ASSUME TypeOK', NEW m, NEW s
  PROVE  s \in Arrived(m)' <=>
           \/ \E i \in 1..Len(out') : out'[i].msg = m /\ s \in out'[i].mbufs
           \/ \E c \in Used' : cell'[c].msg = m /\ s \in cell'[c].mbufs
<1>1. DOMAIN out' = 1..Len(out')
  <2>1. out' \in Seq([msg : Msgs, core : Ports \cup {NoCore}, mbufs : SUBSET Nat])
    BY DEF TypeOK, Ports, NoCore
  <2>2. QED
    BY <2>1
<1>2. {d \in Cells : cell'[d] # Null /\ cell'[d].msg = m} = {d \in Used' : cell'[d].msg = m}
  BY DEF Used
<1>3. Arrived(m)' =
        UNION ({r.mbufs : r \in {q \in {out'[i] : i \in 1..Len(out')} : q.msg = m}}
               \cup {cell'[c].mbufs : c \in {d \in Used' : cell'[d].msg = m}})
  BY <1>1, <1>2 DEF Arrived, Returned
<1>4. QED
  BY <1>3, PacketsOf

\* A packet on the wire has not been counted yet.
LEMMA NotYetArrived ==
  ASSUME IInv, NEW m \in Msgs, NEW s, <<m, s>> \in wire
  PROVE  s \notin Arrived(m)
<1>1. TypeOK /\ PacketInv /\ ReturnInv
  BY DEF IInv
<1>2. \A i \in 1..Len(out) : out[i].msg # m
  BY <1>1 DEF ReturnInv
<1>3. \A c \in Used : cell[c].msg = m => s \notin cell[c].mbufs
  BY <1>1 DEF PacketInv
<1>4. QED
  BY <1>1, <1>2, <1>3, ArrivedIs

\* A call of rq_update adds its packet to those of its message and to no other.
LEMMA ArrivedStep ==
  ASSUME IInv, TypeOK', NEW m \in Msgs, NEW s \in Whole(m), RqUpdate(m, s), NEW k \in Msgs, NEW p
  PROVE  p \in Arrived(k)' <=> (p \in Arrived(k) \/ (k = m /\ p = s))
<1> DEFINE InOut == \E i \in 1..Len(out) : out[i].msg = k /\ p \in out[i].mbufs
           InCell == \E c \in Used : cell[c].msg = k /\ p \in cell[c].mbufs
           InOut1 == \E i \in 1..Len(out') : out'[i].msg = k /\ p \in out'[i].mbufs
           InCell1 == \E c \in Used' : cell'[c].msg = k /\ p \in cell'[c].mbufs
<1>1. TypeOK
  BY DEF IInv
<1>2. (p \in Arrived(k) <=> InOut \/ InCell) /\ (p \in Arrived(k)' <=> InOut1 \/ InCell1)
  BY <1>1, ArrivedIs, ArrivedIsNext
<1>3. ASSUME NEW pkts \in SUBSET Nat, Return(m, pkts)
      PROVE  InOut1 <=> InOut \/ (k = m /\ p \in pkts)
  <2>1. PICK n \in Nat : n = Len(out)
    BY <1>1, OutTyped
  <2>2. /\ Len(out') = n + 1 /\ \A i \in 1..n : out'[i] = out[i]
        /\ out'[n + 1].msg = m /\ out'[n + 1].mbufs = pkts
    BY <1>1, <1>3, <2>1, Returned1
  <2>3. 1..(n + 1) = 1..n \cup {n + 1}
    BY <2>1
  <2>4. QED
    BY <2>1, <2>2, <2>3
<1>4. CASE SinglePacket(m, s)
  <2>1. {s} \in SUBSET Nat /\ Return(m, {s}) /\ cell' = cell
    BY <1>4, Sizes DEF SinglePacket
  <2>2. InCell1 <=> InCell
    BY <2>1 DEF Used
  <2>3. InOut1 <=> InOut \/ (k = m /\ p \in {s})
    BY <2>1, <1>3
  <2> HIDE DEF InOut, InCell, InOut1, InCell1
  <2>4. QED
    BY <1>2, <2>2, <2>3
<1>5. CASE FirstPacket(m, s)
  <2>1. PICK c \in Cells :
          /\ cell'[c] = NewCell(m, s) /\ Used' = Used \cup {c}
          /\ \A d \in Used : cell'[d].msg = cell[d].msg /\ cell'[d].mbufs = cell[d].mbufs
    BY <1>5, Linked
  <2>2. cell'[c].msg = m /\ cell'[c].mbufs = {s}
    BY <2>1 DEF NewCell
  <2>3. InCell1 <=> InCell \/ (k = m /\ p = s)
    BY <2>1, <2>2
  <2>4. InOut1 <=> InOut
    BY <1>5 DEF FirstPacket
  <2> HIDE DEF InOut, InCell, InOut1, InCell1
  <2>5. QED
    BY <1>2, <2>3, <2>4
<1>6. CASE AddPacket(m, s)
  <2>1. Used' = Used /\ \A d \in Used : cell'[d].msg = cell[d].msg
    BY <1>6, Added
  <2>2. PICK c \in Used :
          /\ cell[c].msg = m /\ cell'[c].mbufs = cell[c].mbufs \cup {s}
          /\ \A d \in Used : d # c => cell'[d] = cell[d]
    BY <1>6, Added
  <2>3. InCell1 <=> InCell \/ (k = m /\ p = s)
    BY <2>1, <2>2
  <2>4. InOut1 <=> InOut
    BY <1>6 DEF AddPacket
  <2> HIDE DEF InOut, InCell, InOut1, InCell1
  <2>5. QED
    BY <1>2, <2>3, <2>4
<1>7. CASE CompleteRequest(m, s)
  <2>1. PICK c \in Used :
          /\ cell[c].msg = m /\ Return(m, cell[c].mbufs \cup {s})
          /\ Used' = Used \ {c} /\ Spliced(c)
    BY <1>7, Unlinked
  <2>2. cell[c].mbufs \cup {s} \in SUBSET Nat
    BY <1>1, <2>1, CellTyped, Sizes
  <2>3. InOut1 <=> InOut \/ (k = m /\ p \in cell[c].mbufs \cup {s})
    BY <2>1, <2>2, <1>3
  <2>4. \A d \in Used \ {c} : cell'[d].msg = cell[d].msg /\ cell'[d].mbufs = cell[d].mbufs
    BY <2>1 DEF Spliced
  <2>5. InCell <=> InCell1 \/ (k = m /\ p \in cell[c].mbufs)
    BY <2>1, <2>4
  <2> HIDE DEF InOut, InCell, InOut1, InCell1
  <2>6. QED
    BY <1>2, <2>3, <2>5
<1>8. QED
  BY <1>4, <1>5, <1>6, <1>7 DEF RqUpdate

\* The packets of a message are complete when rq_update returns it, and not before.
LEMMA WholeReturned ==
  ASSUME IInv, IInv', NEW m \in Msgs, NEW s \in Whole(m),
         SinglePacket(m, s) \/ CompleteRequest(m, s)
  PROVE  /\ \E pkts \in SUBSET Nat : Return(m, pkts)
         /\ Arrived(m)' = Whole(m)
<1>1. TypeOK /\ TypeOK' /\ ReturnInv'
  BY DEF IInv
<1>2. PICK pkts \in SUBSET Nat : Return(m, pkts)
  <2>1. CASE SinglePacket(m, s)
    <3>1. {s} \in SUBSET Nat
      BY Sizes
    <3>2. QED
      BY <2>1, <3>1 DEF SinglePacket
  <2>2. CASE CompleteRequest(m, s)
    <3>1. PICK c \in Used : cell[c].msg = m /\ Return(m, cell[c].mbufs \cup {s})
      BY <2>2, Unlinked
    <3>2. cell[c].mbufs \cup {s} \in SUBSET Nat
      BY <1>1, <3>1, CellTyped, Sizes
    <3>3. QED
      BY <3>1, <3>2
  <2>3. QED
    BY <2>1, <2>2
<1>3. PICK j \in 1..Len(out') : out'[j].msg = m
  <2>1. PICK n \in Nat : n = Len(out)
    BY <1>1, OutTyped
  <2>2. Len(out') = n + 1 /\ out'[n + 1].msg = m
    BY <1>1, <1>2, <2>1, Returned1
  <2>3. n + 1 \in 1..Len(out')
    BY <2>1, <2>2
  <2>4. QED
    BY <2>2, <2>3
<1>4. \A i \in 1..Len(out') : out'[i].mbufs = Whole(out'[i].msg)
  BY <1>1 DEF ReturnInv, Whole
<1>5. \A c \in Used' : cell'[c].msg # m
  BY <1>1, <1>3 DEF ReturnInv
<1>6. ASSUME NEW p PROVE p \in Arrived(m)' <=> p \in Whole(m)
  <2>1. p \in Arrived(m)' <=>
          \/ \E i \in 1..Len(out') : out'[i].msg = m /\ p \in out'[i].mbufs
          \/ \E c \in Used' : cell'[c].msg = m /\ p \in cell'[c].mbufs
    BY <1>1, ArrivedIsNext
  <2>2. QED
    BY <1>3, <1>4, <1>5, <2>1
<1>7. QED
  BY <1>2, <1>6

LEMMA NotWholeYet ==
  ASSUME IInv, IInv', NEW m \in Msgs, NEW s \in Whole(m), FirstPacket(m, s) \/ AddPacket(m, s)
  PROVE  out' = out /\ Arrived(m)' # Whole(m)
<1>1. TypeOK' /\ CountInv' /\ ReturnInv'
  BY DEF IInv
<1>2. PICK c \in Used' : cell'[c].msg = m
  <2>1. CASE FirstPacket(m, s)
    <3>1. PICK c \in Cells : cell'[c] = NewCell(m, s) /\ Used' = Used \cup {c}
      BY <2>1, Linked
    <3>2. QED
      BY <3>1 DEF NewCell
  <2>2. CASE AddPacket(m, s)
    <3>1. Used' = Used /\ \A d \in Used : cell'[d].msg = cell[d].msg
      BY <2>2, Added
    <3>2. PICK c \in Used : cell[c].msg = m
      BY <2>2, Added
    <3>3. QED
      BY <3>1, <3>2
  <2>3. QED
    BY <2>1, <2>2
<1>3. \A i \in 1..Len(out') : out'[i].msg # m
  BY <1>1, <1>2 DEF ReturnInv
<1>4. \A d \in Used' : cell'[d].msg = m => d = c
  BY <1>1, <1>2 DEF CountInv
<1>5. ASSUME NEW p PROVE p \in Arrived(m)' <=> p \in cell'[c].mbufs
  <2>1. p \in Arrived(m)' <=>
          \/ \E i \in 1..Len(out') : out'[i].msg = m /\ p \in out'[i].mbufs
          \/ \E d \in Used' : cell'[d].msg = m /\ p \in cell'[d].mbufs
    BY <1>1, ArrivedIsNext
  <2>2. QED
    BY <1>2, <1>3, <1>4, <2>1
<1>6. Cardinality(cell'[c].mbufs) # Length[m]
  <2>1. cell'[c].remaining \in 1..255
    BY <1>1, <1>2 DEF Used, TypeOK, RequestCell
  <2>2. /\ IsFiniteSet(cell'[c].mbufs)
        /\ cell'[c].remaining = Length[m] - Cardinality(cell'[c].mbufs)
    BY <1>1, <1>2 DEF CountInv
  <2>3. Cardinality(cell'[c].mbufs) \in Nat /\ Length[m] \in Nat
    BY <2>2, Sizes, FS_CardinalityType
  <2>4. QED
    BY <2>1, <2>2, <2>3
<1>7. cell'[c].mbufs # Whole(m)
  BY <1>6, Sizes
<1>8. out' = out
  BY DEF FirstPacket, AddPacket
<1>9. QED
  BY <1>2, <1>5, <1>7, <1>8

Done == [i \in DOMAIN out |-> out[i].msg]

LEMMA DoneAppended ==
  ASSUME TypeOK, NEW m \in Msgs, NEW pkts \in SUBSET Nat, Return(m, pkts)
  PROVE  Done' = Append(Done, m)
<1>1. PICK n \in Nat : n = Len(out)
  BY OutTyped
<1>2. /\ out \in Seq(Result) /\ out' \in Seq(Result) /\ Len(out') = n + 1
      /\ \A i \in 1..n : out'[i] = out[i]
      /\ out'[n + 1].msg = m
  BY <1>1, Returned1
<1>3. DOMAIN out = 1..n /\ DOMAIN out' = 1..(n + 1)
  BY <1>1, <1>2
<1>4. \A i \in 1..n : out[i].msg \in Msgs
  BY <1>1, OutTyped
<1>5. Done \in Seq(Msgs) /\ Len(Done) = n /\ \A i \in 1..n : Done[i] = out[i].msg
  <2>1. Done = [i \in 1..n |-> out[i].msg]
    BY <1>3 DEF Done
  <2>2. QED
    BY <1>4, <2>1
<1>6. /\ Done' \in Seq(Msgs) /\ Len(Done') = n + 1
      /\ \A i \in 1..(n + 1) : Done'[i] = out'[i].msg
  <2>1. Done' = [i \in 1..(n + 1) |-> out'[i].msg]
    BY <1>3 DEF Done
  <2>2. \A i \in 1..(n + 1) : i \in 1..n \/ i = n + 1
    BY <1>1
  <2>3. \A i \in 1..(n + 1) : out'[i].msg \in Msgs
    BY <1>2, <1>4, <2>2
  <2>4. QED
    BY <2>1, <2>3
<1>7. /\ Append(Done, m) \in Seq(Msgs) /\ Len(Append(Done, m)) = n + 1
      /\ \A i \in 1..n : Append(Done, m)[i] = Done[i]
      /\ Append(Done, m)[n + 1] = m
  BY <1>5
<1>8. ASSUME NEW i \in 1..(n + 1) PROVE Done'[i] = Append(Done, m)[i]
  <2>1. i \in 1..n \/ i = n + 1
    BY <1>1
  <2>2. QED
    BY <1>2, <1>5, <1>6, <1>7, <2>1
<1>9. QED
  BY <1>6, <1>7, <1>8, SeqEqual

Got == [m \in Msgs |-> Arrived(m)]

LEMMA NextAssembly == IInv /\ IInv' /\ [Next]_vars => [Abstract!Next]_(Abstract!vars)
<1> SUFFICES ASSUME IInv, IInv', [Next]_vars PROVE [Abstract!Next]_(Abstract!vars)
  OBVIOUS
<1>1. TypeOK /\ TypeOK'
  BY DEF IInv
<1>2. CASE cell' = cell /\ out' = out
  <2>1. Done' = Done /\ Got' = Got
    BY <1>2 DEF Done, Got, Arrived, Returned
  <2>2. QED
    BY <2>1 DEF Abstract!vars, Done, Got
<1>3. ASSUME NEW m \in Msgs, NEW s \in Whole(m), RqUpdate(m, s) PROVE Abstract!Arrive(m, s)
  <2>1. s \in Whole(m) \ Got[m]
    <3>1. <<m, s>> \in wire
      BY <1>3 DEF RqUpdate, SinglePacket, FirstPacket, AddPacket, CompleteRequest, Take
    <3>2. QED
      BY <3>1, NotYetArrived DEF Got
  <2>2. Got' = [Got EXCEPT ![m] = @ \cup {s}]
    <3>1. ASSUME NEW k \in Msgs
          PROVE  Arrived(k)' = IF k = m THEN Arrived(m) \cup {s} ELSE Arrived(k)
      <4>1. \A p : p \in Arrived(k)' <=> (p \in Arrived(k) \/ (k = m /\ p = s))
        BY <1>1, <1>3, ArrivedStep
      <4>2. CASE k = m
        BY <4>1, <4>2
      <4>3. CASE k # m
        BY <4>1, <4>3
      <4>4. QED
        BY <4>2, <4>3
    <3>2. Got' = [k \in Msgs |-> Arrived(k)']
      BY DEF Got
    <3>3. QED
      BY <3>1, <3>2 DEF Got
  <2>3. Got'[m] = Arrived(m)'
    BY DEF Got
  <2>4. Done' = IF Got'[m] = Whole(m) THEN Append(Done, m) ELSE Done
    <3>1. CASE SinglePacket(m, s) \/ CompleteRequest(m, s)
      <4>1. Arrived(m)' = Whole(m) /\ \E pkts \in SUBSET Nat : Return(m, pkts)
        BY <3>1, WholeReturned
      <4>2. QED
        BY <1>1, <2>3, <4>1, DoneAppended
    <3>2. CASE FirstPacket(m, s) \/ AddPacket(m, s)
      <4>1. Arrived(m)' # Whole(m) /\ out' = out
        BY <3>2, NotWholeYet
      <4>2. Done' = Done
        BY <4>1 DEF Done
      <4>3. QED
        BY <2>3, <4>1, <4>2
    <3>3. QED
      BY <1>3, <3>1, <3>2 DEF RqUpdate
  <2>5. Whole(m) = Abstract!Whole(m)
    BY DEF Whole, Abstract!Whole
  <2>6. QED
    BY <2>1, <2>2, <2>4, <2>5 DEF Abstract!Arrive, Got, Done
<1>4. QED
  BY <1>2, <1>3 DEF Next, SetWorkerIds, Renumber, Send, Lose, vars, netVars,
     Abstract!Next, Whole, Abstract!Whole

\* rq_update implements Assembly: a message is returned once, when the last of
\* its packets arrives, with all of them, in any order of arrival.
THEOREM ReassemblyImplementsAssembly == Spec => ImplementsAssembly
<1>1. Init => Abstract!Init
  <2> SUFFICES ASSUME Init PROVE Abstract!Init
    OBVIOUS
  <2>1. out = <<>> /\ \A c \in Cells : cell[c] = Null
    BY DEF Init
  <2>2. DOMAIN out = {}
    BY <2>1
  <2>3. [i \in DOMAIN out |-> out[i].msg] = <<>>
    BY <2>2
  <2>4. \A m \in Msgs : Arrived(m) = {}
    BY <2>1, <2>2 DEF Arrived, Returned
  <2>5. QED
    BY <2>3, <2>4 DEF Abstract!Init
<1>2. QED
  BY <1>1, NextAssembly, Inductive, PTL DEF Spec, ImplementsAssembly, Abstract!Spec
=============================================================================
