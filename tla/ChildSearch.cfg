SPECIFICATION Spec
CONSTANTS
  MaxEntries = 3
  MaxNumber = 3
  MaxLost = 1
  MaxCmds = 7
  L1Size = 1
  MapSize = 1
  BufSize = 2
  MaxLength = 2
  BlockBits = 2
  chA = chA
  chB = chB
  Chars <- MCChars
  Names <- MCNames
  Parts <- MCParts
  NoName = NoName
  NoChar = NoChar
INVARIANTS
  TypeOK
  FindsExactly
CHECK_DEADLOCK FALSE
