\* Three places for four URLs whose hash values collide and wrap around; all times are
\* within half the range of int of each other (35 minutes).
SPECIFICATION Spec
CONSTANTS
  Url = {u1, u2, u3, u4}
  Sizes = {1, 3, 5, 8}
  capacity = 6
  min_entry_size = 2
  Hashes = {4, 5}
  MaxTime = 3
  MaxHits = 2
  IntHalf = 8
  SizeBits = 4
  NULL = NULL
  u1 = u1
  u2 = u2
  u3 = u3
  u4 = u4
SYMMETRY Symmetry
INVARIANTS
  TypeOK
  StructuresAgree
  MemoryBounded
  HeapOrder
  BandAllocated
PROPERTIES
  EvictsLeast
  LargerVictimSuffices
  ImplementsStore
