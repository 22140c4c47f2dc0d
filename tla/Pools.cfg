SPECIFICATION Spec
CONSTANTS
  Pools = {p1, p2}
  NumElems = 11
  ChunkSize = 2
INVARIANT Conserved FreeAssert NumFreeBacked
PROPERTY ImplementsAllocator
