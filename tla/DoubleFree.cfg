SPECIFICATION Spec
CONSTANTS
  NoDb = NoDb
  NoJob = NoJob
  MaxEntries = 3
  BufferSize = 2
  MaxCmds = 5
  Contents <- MCContents
INVARIANT FreesAllocations
CHECK_DEADLOCK FALSE
