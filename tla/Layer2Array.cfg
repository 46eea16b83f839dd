SPECIFICATION Spec
CONSTANTS
  L1Size = 2
  InitSize = 2
  GrowSize = 1
  MapBlock = 3
  MaxL1 = 4
  v1 = v1
  v2 = v2
  Values <- MCValues
  Wiped = Wiped
INVARIANTS
  TypeOK
  MapExact
  IndexRoundTrip
  ChunksAccounted
PROPERTIES
  ImplementsObjectStore
CHECK_DEADLOCK FALSE
