SPECIFICATION Spec
CONSTANTS
  MaxEntries = 4
  MaxNodes = 6
  MaxTags = 3
  MaxDamage = 3
PROPERTIES
  DeleteIsRecursive
CHECK_DEADLOCK FALSE
