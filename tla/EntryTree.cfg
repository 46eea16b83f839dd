SPECIFICATION Spec
CONSTANTS
  MaxEntries = 4
  MaxNodes = 5
  MaxTags = 1
  MaxDamage = 2
INVARIANTS
  TypeOK
  TreeExact
  IdsExact
  FoundById
  NoUndefined
  CopyIsFaithful
  RemovalIsExact
  MoveIsFaithful
CHECK_DEADLOCK FALSE
