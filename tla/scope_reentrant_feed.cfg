CONSTANTS
  Conns = {c1, c2}
  NoArena = NoArena
  Heap = Heap
  Cap = 2
  MaxDepth = 3
  MaxAllocs = 2
  NestedSends = TRUE
  ReentrantFeeds = TRUE
SPECIFICATION Spec
INVARIANT EpochValuesIntact
CHECK_DEADLOCK FALSE
