--------------------------- MODULE Mempool_proofs ---------------------------
(***************************************************************************)
(* Mempool for every number of pools, elements and every chunk size: no      *)
(* element is shared or lost, and the pools implement Allocator.             *)
(***************************************************************************)
EXTENDS Mempool, FiniteSetTheorems, TLAPS

\* Two chunks of the initial datastore that share an element are the same.
LEMMA ChunksApart ==
  ASSUME NEW j \in Elems, NEW k \in Elems, NEW e \in Elems,
         (j - 1) * ChunkSize < e, e <= j * ChunkSize,
         (k - 1) * ChunkSize < e, e <= k * ChunkSize
  PROVE  j = k
<1>1. ASSUME NEW a \in Elems, NEW b \in Elems, a < b,
             e <= a * ChunkSize, (b - 1) * ChunkSize < e
      PROVE  FALSE
  <2>1. a * ChunkSize <= (b - 1) * ChunkSize
    BY <1>1, PoolAssumption, SMTT(30) DEF Elems
  <2>2. a * ChunkSize \in Int /\ (b - 1) * ChunkSize \in Int /\ e \in Int
    BY PoolAssumption DEF Elems
  <2>3. QED
    BY <1>1, <2>1, <2>2
<1>2. ~(j < k) /\ ~(k < j)
  BY <1>1
<1>3. QED
  BY <1>2, PoolAssumption DEF Elems

\* Every linked element is in a chunk of the initial datastore.
LEMMA ChunksCover ==
  ASSUME NEW e \in Linked
  PROVE  \E k \in InitBuf : e \in k
<1> DEFINE k == ((e - 1) \div ChunkSize) + 1
<1>1. e \in Elems /\ e \in Nat \ {0} /\ ChunkSize \in Nat \ {0} /\ NumElems \in Nat
  BY PoolAssumption DEF Linked, Elems
<1>2. PICK j \in Elems : e <= j * ChunkSize /\ j * ChunkSize <= NumElems
  BY DEF Linked
<1>3. k \in Nat \ {0} /\ (k - 1) * ChunkSize < e /\ e <= k * ChunkSize
  BY <1>1, SMTT(30)
<1>4. k <= j
  <2>1. ASSUME j <= k - 1 PROVE FALSE
    <3>1. j * ChunkSize <= (k - 1) * ChunkSize
      BY <1>1, <1>3, <2>1, SMTT(30) DEF Elems
    <3>2. QED
      BY <1>1, <1>2, <1>3, <3>1, SMTT(30) DEF Elems
  <2>2. QED
    BY <1>3, <2>1 DEF Elems
<1>5. k * ChunkSize <= NumElems
  <2>1. k * ChunkSize <= j * ChunkSize
    BY <1>1, <1>3, <1>4, SMTT(30) DEF Elems
  <2>2. QED
    BY <1>1, <1>2, <1>3, <2>1, SMTT(30) DEF Elems
<1>6. k \in Elems
  BY <1>1, <1>3, <1>4 DEF Elems
<1> HIDE DEF k
<1> DEFINE c == {x \in Elems : (k - 1) * ChunkSize < x /\ x <= k * ChunkSize}
<1>7. e \in c
  BY <1>1, <1>3
<1>8. c \in InitBuf
  <2>1. k \in {i \in Elems : i * ChunkSize <= NumElems}
    BY <1>5, <1>6
  <2>2. QED
    BY <2>1, Zenon DEF InitBuf
<1> HIDE DEF c
<1>9. QED
  BY <1>7, <1>8

\* The first state has its types and nothing is shared or lost.
LEMMA InitConserved == Init => TypeOK /\ Conserved
<1> SUFFICES ASSUME Init PROVE TypeOK /\ Conserved
  OBVIOUS
<1>1. chunks \subseteq SUBSET Linked
  BY DEF Init, InitBuf, Linked
<1>2. TypeOK
  BY <1>1 DEF Init, TypeOK
<1>3. Disjoint
  <2>1. \A c, d \in InitBuf : c # d => c \cap d = {}
    BY ChunksApart DEF InitBuf
  <2>2. QED
    BY <2>1 DEF Init, Disjoint, Held
<1>4. Complete
  BY ChunksCover DEF Init, Complete
<1>5. QED
  BY <1>2, <1>3, <1>4 DEF Conserved

\* Handing out an element of the free list, whatever becomes of num_free.
LEMMA StepAlloc ==
  ASSUME TypeOK, Conserved, NEW m \in Pools, Alloc(m)
  PROVE  TypeOK' /\ Conserved'
BY DEF TypeOK, Conserved, Disjoint, Complete, Held, Alloc, HandOut

\* The spare chunk becomes the free list.
LEMMA StepAllocPrivate ==
  ASSUME TypeOK, Conserved, NEW m \in Pools, AllocPrivate(m)
  PROVE  TypeOK' /\ Conserved'
BY DEF TypeOK, Conserved, Disjoint, Complete, Held, AllocPrivate, HandOut

\* A chunk of the datastore becomes the free list.
LEMMA StepAllocChunk ==
  ASSUME TypeOK, Conserved, NEW m \in Pools, AllocChunk(m)
  PROVE  TypeOK' /\ Conserved'
BY DEF TypeOK, Conserved, Disjoint, Complete, Held, AllocChunk, HandOut

\* An element comes back to the free list.
LEMMA StepFree ==
  ASSUME TypeOK, Conserved, NEW m \in Pools, NEW e \in Elems, Free(m, e)
  PROVE  TypeOK' /\ Conserved'
BY DEF TypeOK, Conserved, Disjoint, Complete, Held, Free, TakeBack

\* The free list becomes the spare chunk and the spare chunk goes back.
LEMMA StepFreeChunk ==
  ASSUME TypeOK, Conserved, NEW m \in Pools, NEW e \in Elems, FreeChunk(m, e)
  PROVE  TypeOK' /\ Conserved'
BY DEF TypeOK, Conserved, Disjoint, Complete, Held, FreeChunk, TakeBack

\* No step of any pool shares or loses an element.
LEMMA NextConserved == TypeOK /\ Conserved /\ [Next]_vars => TypeOK' /\ Conserved'
<1> SUFFICES ASSUME TypeOK, Conserved, [Next]_vars PROVE TypeOK' /\ Conserved'
  OBVIOUS
<1>1. ASSUME NEW m \in Pools, Alloc(m) \/ AllocPrivate(m) \/ AllocChunk(m)
      PROVE  TypeOK' /\ Conserved'
  BY <1>1, StepAlloc, StepAllocPrivate, StepAllocChunk
<1>2. ASSUME NEW m \in Pools, NEW e \in Elems, Free(m, e) \/ FreeChunk(m, e)
      PROVE  TypeOK' /\ Conserved'
  BY <1>2, StepFree, StepFreeChunk
<1>3. CASE UNCHANGED vars
  BY <1>3 DEF vars, TypeOK, Conserved, Disjoint, Complete, Held
<1>4. QED
  BY <1>1, <1>2, <1>3 DEF Next

\* Lists, spare chunks and callers only ever hold elements of whole chunks.
THEOREM PoolTypeCorrect == Spec => []TypeOK
<1>1. TypeOK /\ Conserved /\ [Next]_vars => (TypeOK /\ Conserved)'
  BY NextConserved
<1>2. QED
  BY InitConserved, <1>1, PTL DEF Spec

\* Every element is in exactly one list, or with exactly one caller, whatever
\* chunks and elements the pools exchange.
THEOREM ConservedCorrect == Spec => []Conserved
<1>1. TypeOK /\ Conserved /\ [Next]_vars => (TypeOK /\ Conserved)'
  BY NextConserved
<1>2. QED
  BY InitConserved, <1>1, PTL DEF Spec

-----------------------------------------------------------------------------
\* mempool_free_2 never finds more than a chunk counted.
LEMMA NextFreeAssert == TypeOK /\ FreeAssert /\ [Next]_vars => FreeAssert'
<1> SUFFICES ASSUME TypeOK, FreeAssert, [Next]_vars PROVE FreeAssert'
  OBVIOUS
<1>1. ASSUME NEW m \in Pools, Alloc(m) PROVE FreeAssert'
  BY <1>1, PoolAssumption DEF TypeOK, FreeAssert, Alloc
<1>2. ASSUME NEW m \in Pools, AllocPrivate(m) \/ AllocChunk(m) PROVE FreeAssert'
  BY <1>2 DEF FreeAssert, AllocPrivate, AllocChunk
<1>3. ASSUME NEW m \in Pools, NEW e \in Elems, Free(m, e) \/ FreeChunk(m, e)
      PROVE  FreeAssert'
  BY <1>3, PoolAssumption DEF TypeOK, FreeAssert, Free, FreeChunk
<1>4. CASE UNCHANGED vars
  BY <1>4 DEF vars, FreeAssert
<1>5. QED
  BY <1>1, <1>2, <1>3, <1>4 DEF Next

\* The assertion at the head of mempool_free_2 holds.
THEOREM FreeAssertCorrect == Spec => []FreeAssert
<1>1. Init => FreeAssert
  BY PoolAssumption DEF Init, FreeAssert
<1>2. QED
  BY <1>1, NextFreeAssert, PoolTypeCorrect, PTL DEF Spec

-----------------------------------------------------------------------------
\* A free list is finite, so its length can be counted.
LEMMA ListsFinite ==
  ASSUME TypeOK, NEW m \in Pools
  PROVE  IsFiniteSet(head[m]) /\ IsFiniteSet(private_chunk[m])
<1>1. IsFiniteSet(Elems)
  BY FS_Interval, PoolAssumption DEF Elems
<1>2. head[m] \subseteq Elems /\ private_chunk[m] \subseteq Elems
  BY DEF TypeOK, Linked
<1>3. QED
  BY <1>1, <1>2, FS_Subset

\* num_free stays below the length of the free list.
LEMMA NextBacked ==
  TypeOK /\ Conserved /\ NumFreeBacked /\ [Next]_vars => NumFreeBacked'
<1> SUFFICES ASSUME TypeOK, Conserved, NumFreeBacked, [Next]_vars PROVE NumFreeBacked'
  OBVIOUS
<1>a. \A m \in Pools : num_free[m] \in Int /\ Cardinality(head[m]) \in Nat
  BY ListsFinite, FS_CardinalityType DEF TypeOK
<1>1. ASSUME NEW m \in Pools, Alloc(m) PROVE NumFreeBacked'
  <2>1. PICK e \in head[m] : head' = [head EXCEPT ![m] = @ \ {e}]
    BY <1>1 DEF Alloc
  <2>2. Cardinality(head[m] \ {e}) = Cardinality(head[m]) - 1
    BY ListsFinite, FS_RemoveElement
  <2>3. head'[m] = head[m] \ {e} /\ num_free'[m] = num_free[m] - 1
    BY <1>1, <2>1 DEF TypeOK, Alloc
  <2>4. \A n \in Pools \ {m} : head'[n] = head[n] /\ num_free'[n] = num_free[n]
    BY <1>1, <2>1 DEF TypeOK, Alloc
  <2>5. num_free'[m] <= Cardinality(head'[m])
    BY <1>a, <2>2, <2>3 DEF NumFreeBacked
  <2>6. QED
    BY <2>4, <2>5 DEF NumFreeBacked
<1>2. ASSUME NEW m \in Pools, AllocPrivate(m) \/ AllocChunk(m) PROVE NumFreeBacked'
  <2>1. num_free[m] <= 0
    BY <1>2, FS_EmptySet DEF NumFreeBacked, AllocPrivate, AllocChunk
  <2>2. IsFiniteSet(head'[m])
    <3>1. head'[m] \subseteq Elems
      BY <1>2, NextConserved DEF TypeOK, Linked
    <3>2. IsFiniteSet(Elems)
      BY FS_Interval, PoolAssumption DEF Elems
    <3>3. \A L \in SUBSET Elems : IsFiniteSet(L)
      BY <3>2, FS_Subset
    <3>4. QED
      BY <3>1, <3>3
  <2>a. \A L : IsFiniteSet(L) => Cardinality(L) \in Nat
    BY FS_CardinalityType
  <2>3. Cardinality(head'[m]) \in Nat
    BY <2>2, <2>a
  <2>4. QED
    BY <1>2, <1>a, <2>1, <2>3 DEF TypeOK, NumFreeBacked, AllocPrivate, AllocChunk
<1>3. ASSUME NEW m \in Pools, NEW e \in Elems, Free(m, e) PROVE NumFreeBacked'
  <2>1. e \notin head[m]
    BY <1>3 DEF Conserved, Disjoint, Free, TakeBack
  <2>2. Cardinality(head[m] \cup {e}) = Cardinality(head[m]) + 1
    BY <2>1, ListsFinite, FS_AddElement
  <2>3. QED
    BY <1>3, <1>a, <2>2 DEF TypeOK, NumFreeBacked, Free
<1>4. ASSUME NEW m \in Pools, NEW e \in Elems, FreeChunk(m, e) PROVE NumFreeBacked'
  <2>1. head'[m] = {e} /\ num_free'[m] = 1
    BY <1>4 DEF TypeOK, FreeChunk
  <2>2. \A n \in Pools \ {m} : head'[n] = head[n] /\ num_free'[n] = num_free[n]
    BY <1>4 DEF TypeOK, FreeChunk
  <2>a. Cardinality({e}) = 1
    BY FS_Singleton
  <2>3. num_free'[m] <= Cardinality(head'[m])
    BY <2>1, <2>a
  <2>4. QED
    BY <2>2, <2>3 DEF NumFreeBacked
<1>5. CASE UNCHANGED vars
  BY <1>5 DEF vars, NumFreeBacked
<1>6. QED
  BY <1>1, <1>2, <1>3, <1>4, <1>5 DEF Next

\* A free list that mempool_free_2 puts aside has at least a chunk of elements.
THEOREM NumFreeBackedCorrect == Spec => []NumFreeBacked
<1>1. Init => NumFreeBacked
  BY FS_EmptySet DEF Init, NumFreeBacked
<1>2. QED
  BY <1>1, NextBacked, PoolTypeCorrect, ConservedCorrect, PTL DEF Spec

-----------------------------------------------------------------------------
\* A step of a pool is, to the callers, an Alloc, a Free or nothing.
LEMMA NextCallers ==
  TypeOK /\ Conserved /\ [Next]_vars => [Callers!Next]_inUse
<1> SUFFICES ASSUME TypeOK, Conserved, [Next]_vars PROVE [Callers!Next]_inUse
  OBVIOUS
<1>1. ASSUME NEW m \in Pools, NEW e \in Linked, HandOut(m, e),
             \A n \in Pools : e \notin inUse[n]
      PROVE  Callers!Next
  BY <1>1 DEF HandOut, Linked, Callers!Next, Callers!Alloc
<1>2. ASSUME NEW m \in Pools, NEW e \in Elems, TakeBack(m, e)
      PROVE  Callers!Next
  BY <1>2 DEF TakeBack, Callers!Next, Callers!Free
<1>3. ASSUME NEW m \in Pools, Alloc(m) \/ AllocPrivate(m) PROVE Callers!Next
  <2>1. PICK e \in head[m] \cup private_chunk[m] : HandOut(m, e)
    BY <1>3 DEF Alloc, AllocPrivate
  <2>2. e \in Linked /\ \A n \in Pools : e \notin inUse[n]
    BY <2>1 DEF TypeOK, Conserved, Disjoint, Held
  <2>3. QED
    BY <1>1, <2>1, <2>2
<1>4. ASSUME NEW m \in Pools, AllocChunk(m) PROVE Callers!Next
  <2>1. PICK k \in chunks : \E e \in k : HandOut(m, e)
    BY <1>4 DEF AllocChunk
  <2>2. PICK e \in k : HandOut(m, e)
    BY <2>1
  <2>3. e \in Linked /\ \A n \in Pools : e \notin inUse[n]
    BY <2>1, <2>2 DEF TypeOK, Conserved, Disjoint, Held
  <2>4. QED
    BY <1>1, <2>2, <2>3
<1>5. ASSUME NEW m \in Pools, NEW e \in Elems, Free(m, e) \/ FreeChunk(m, e)
      PROVE  Callers!Next
  BY <1>2, <1>5 DEF Free, FreeChunk
<1>6. QED
  BY <1>3, <1>4, <1>5 DEF Next, vars

\* The pools implement Allocator: an element has one holder at a time.
THEOREM PoolsImplementAllocator == Spec => ImplementsAllocator
<1>1. Init => Callers!Init
  BY DEF Init, Callers!Init
<1>2. QED
  BY <1>1, NextCallers, PoolTypeCorrect, ConservedCorrect, PTL
     DEF Spec, ImplementsAllocator, Callers!Spec
=============================================================================
