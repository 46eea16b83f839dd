SPECIFICATION Spec
CONSTANTS
  Torn = Torn
  MaxHandles = 3
  MaxIds = 2
  MaxCmds = 8
  Locators <- MCLocators
INVARIANTS
  TypeOK
  OnlyGoneIsUsed
PROPERTIES
  NothingLostUnasked
CHECK_DEADLOCK FALSE
