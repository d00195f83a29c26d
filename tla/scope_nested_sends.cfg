CONSTANTS
  Conns = {c1, c2, c3}
  NoArena = NoArena
  Heap = Heap
  Cap = 2
  MaxDepth = 2
  MaxAllocs = 2
  NestedSends = TRUE
  ReentrantFeeds = TRUE
SPECIFICATION Spec
INVARIANT TypeOK
INVARIANT EpochValuesIntact
INVARIANT BindingSound
CHECK_DEADLOCK FALSE
