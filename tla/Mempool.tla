------------------------------- MODULE Mempool -------------------------------
(***************************************************************************)
(* The memory pools of inc/ix/mempool.h and dp/core/mempool.c: a datastore   *)
(* of chunks, and for each core a mempool that takes whole chunks from it,   *)
(* keeps at most one in private_chunk and gives the others back.  A list is  *)
(* the set of its elements: which of them mempool_alloc returns is left      *)
(* open.  The datastore is only touched under its lock, so what mempool_     *)
(* alloc_2 and mempool_free_2 do to it is one step.                          *)
(***************************************************************************)
EXTENDS Integers, FiniteSets

CONSTANTS
  Pools,      \* the mempools created on one datastore, one a core
  NumElems,   \* nr_elems of the datastore
  ChunkSize   \* its chunk_size

ASSUME PoolAssumption ==
  NumElems \in Nat /\ ChunkSize \in Nat \ {0}

Elems == 1..NumElems

VARIABLES
  chunks,         \* the chunks of the datastore's chunk_head list
  head,           \* the free list of each pool
  private_chunk,  \* the spare chunk of each pool, {} for NULL
  num_free,
  inUse           \* the elements each pool has handed out

vars == <<chunks, head, private_chunk, num_free, inUse>>

\* mempool_init_buf_with_pages: chunks of chunk_size elements; a rest that
\* fills no chunk is never linked.
InitBuf ==
  {{e \in Elems : (k - 1) * ChunkSize < e /\ e <= k * ChunkSize} :
     k \in {j \in Elems : j * ChunkSize <= NumElems}}

\* The elements that a whole number of chunks covers.
Linked == {e \in Elems : \E k \in Elems : e <= k * ChunkSize /\ k * ChunkSize <= NumElems}

Init ==
  /\ chunks = InitBuf
  /\ head = [m \in Pools |-> {}]
  /\ private_chunk = [m \in Pools |-> {}]
  /\ num_free = [m \in Pools |-> 0]
  /\ inUse = [m \in Pools |-> {}]

HandOut(m, e) == inUse' = [inUse EXCEPT ![m] = @ \cup {e}]

TakeBack(m, e) == e \in inUse[m] /\ inUse' = [inUse EXCEPT ![m] = @ \ {e}]

\* Fault: num_free is not counted down.
AllocUncounted(m) ==
  /\ \E e \in head[m] :
       HandOut(m, e) /\ head' = [head EXCEPT ![m] = @ \ {e}]
  /\ UNCHANGED <<chunks, private_chunk, num_free>>

\* mempool_alloc with a non-empty free list.
Alloc(m) ==
  /\ \E e \in head[m] :
       HandOut(m, e) /\ head' = [head EXCEPT ![m] = @ \ {e}]
  /\ num_free' = [num_free EXCEPT ![m] = @ - 1]
  /\ UNCHANGED <<chunks, private_chunk>>

\* Fault: private_chunk is not set to NULL.
AllocPrivateKept(m) ==
  /\ head[m] = {}
  /\ \E e \in private_chunk[m] :
       HandOut(m, e) /\ head' = [head EXCEPT ![m] = private_chunk[m] \ {e}]
  /\ UNCHANGED <<chunks, private_chunk, num_free>>

\* mempool_alloc_2 with a spare chunk; num_free is left as it was.
AllocPrivate(m) ==
  /\ head[m] = {}
  /\ \E e \in private_chunk[m] :
       HandOut(m, e) /\ head' = [head EXCEPT ![m] = private_chunk[m] \ {e}]
  /\ private_chunk' = [private_chunk EXCEPT ![m] = {}]
  /\ UNCHANGED <<chunks, num_free>>

\* mempool_alloc_2 without one: a chunk of the datastore, if there is one.
AllocChunk(m) ==
  /\ head[m] = {} /\ private_chunk[m] = {}
  /\ \E k \in chunks : \E e \in k :
       /\ HandOut(m, e)
       /\ head' = [head EXCEPT ![m] = k \ {e}]
       /\ chunks' = chunks \ {k}
  /\ UNCHANGED <<private_chunk, num_free>>

\* Fault: `<=` for `<`.
FreeOneMore(m, e) ==
  /\ TakeBack(m, e)
  /\ num_free[m] <= ChunkSize
  /\ head' = [head EXCEPT ![m] = @ \cup {e}]
  /\ num_free' = [num_free EXCEPT ![m] = @ + 1]
  /\ UNCHANGED <<chunks, private_chunk>>

\* mempool_free while the free list counts less than a chunk.
Free(m, e) ==
  /\ TakeBack(m, e)
  /\ num_free[m] < ChunkSize
  /\ head' = [head EXCEPT ![m] = @ \cup {e}]
  /\ num_free' = [num_free EXCEPT ![m] = @ + 1]
  /\ UNCHANGED <<chunks, private_chunk>>

\* Fault: the spare chunk is overwritten.
FreeChunkLost(m, e) ==
  /\ TakeBack(m, e)
  /\ num_free[m] >= ChunkSize
  /\ private_chunk' = [private_chunk EXCEPT ![m] = head[m]]
  /\ head' = [head EXCEPT ![m] = {e}]
  /\ num_free' = [num_free EXCEPT ![m] = 1]
  /\ UNCHANGED chunks

\* mempool_free_2: the spare chunk goes back to the datastore, the free list
\* becomes the spare chunk and a new free list starts.
FreeChunk(m, e) ==
  /\ TakeBack(m, e)
  /\ num_free[m] >= ChunkSize
  /\ chunks' = IF private_chunk[m] = {} THEN chunks ELSE chunks \cup {private_chunk[m]}
  /\ private_chunk' = [private_chunk EXCEPT ![m] = head[m]]
  /\ head' = [head EXCEPT ![m] = {e}]
  /\ num_free' = [num_free EXCEPT ![m] = 1]

Next ==
  \E m \in Pools :
    \/ Alloc(m) \/ AllocPrivate(m) \/ AllocChunk(m)
    \/ \E e \in Elems : Free(m, e) \/ FreeChunk(m, e)

Spec == Init /\ [][Next]_vars

-----------------------------------------------------------------------------
\* Lists, spare chunks and callers hold elements that mempool_init_buf_with_pages
\* linked: never one of the rest after the last whole chunk.
TypeOK ==
  /\ chunks \subseteq SUBSET Linked
  /\ head \in [Pools -> SUBSET Linked]
  /\ private_chunk \in [Pools -> SUBSET Linked]
  /\ num_free \in [Pools -> Int]
  /\ inUse \in [Pools -> SUBSET Linked]

\* Everything a pool has, or has handed out.
Held(m) == head[m] \cup private_chunk[m] \cup inUse[m]

\* No element is in two lists, or in a list and in use ...
Disjoint ==
  /\ \A m \in Pools :
       /\ head[m] \cap private_chunk[m] = {}
       /\ inUse[m] \cap (head[m] \cup private_chunk[m]) = {}
       /\ \A k \in chunks : Held(m) \cap k = {}
  /\ \A m, n \in Pools : m # n => Held(m) \cap Held(n) = {}
  /\ \A j, k \in chunks : j # k => j \cap k = {}

\* ... and none is lost.
Complete ==
  \A e \in Linked : (\E k \in chunks : e \in k) \/ (\E m \in Pools : e \in Held(m))

\* The elements of the datastore are conserved across the two levels: chunks
\* that change hands, and elements that do.
Conserved == Disjoint /\ Complete

\* mempool.c:116: when a free list is put aside it counts exactly one chunk.
FreeAssert == \A m \in Pools : num_free[m] <= ChunkSize

\* num_free never counts more elements than the free list has.
NumFreeBacked == \A m \in Pools : num_free[m] <= Cardinality(head[m])

Callers == INSTANCE Allocator WITH Client <- Pools, Elem <- Elems

\* See Allocator.
ImplementsAllocator == Callers!Spec
=============================================================================
