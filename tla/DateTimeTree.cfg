SPECIFICATION Spec
CONSTANTS
  MaxEntries = 3
  MaxDamage = 1
  Cells <- MCCells
  Minutes <- MCMinutes
INVARIANTS
  TypeOK
  HoursExact
  WayDownExact
CHECK_DEADLOCK FALSE
