CONSTANTS
  Arenas = {a1, a2}
  SizeMax = 4
  Addrs = {0, 1}
  Aligns = {0, 2, 4}
  DefaultAlign = 4
  Sizes = {0, 1, 2, 4}
SPECIFICATION Spec
INVARIANT TypeOK
INVARIANT BlocksInRegion
PROPERTY AbsSpec
