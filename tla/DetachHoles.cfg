SPECIFICATION Spec
CONSTANTS
  SmallSize = 5
  ClassSize <- MCClassSize
  IdealNum <- MCIdealNum
  FallbackNum = 3
  ExtractMaxNum = 2
  ExtractSizeMax = 2
  LeakPercent = 50
  Sizes <- MCSizes
  MaxSize = 20
  IntMax = 4
  Kinds <- MCKinds
  CmpKind = "sha512"
  Flags <- MCFlags
  SlotNum = 4
  EditSizes <- MCEditSizes
  EditStrs <- MCEditStrs
  MaxCmds = 4
  NoData = NoData
  NoSlot = NoSlot
INVARIANT SectionsCollapse
CHECK_DEADLOCK FALSE
