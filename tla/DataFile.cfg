SPECIFICATION Spec
CONSTANTS
  NoDb = NoDb
  NoJob = NoJob
  MaxEntries = 4
  BufferSize = 3
  MaxCmds = 5
  Contents <- MCContents
INVARIANTS
  TypeOK
  LoadsAllOrNothing
  SavedLoads
CHECK_DEADLOCK FALSE
