SPECIFICATION Spec
CONSTANTS
  MaxTargets = 3
  MaxNodes = 2
  MaxNumber = 5
  MaxStale = 7
  a = a
  b = b
  Strs <- MCStrs
  NoStr = NoStr
INVARIANTS
  TypeOK
  ChainsExact
  LinksConsistent
  NoCrash
PROPERTIES
  ImplementsNameIndex
SYMMETRY MCSymmetry
CHECK_DEADLOCK FALSE
