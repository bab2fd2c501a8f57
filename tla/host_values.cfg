SPECIFICATION ObjectsSpec
CONSTANTS
  WordMax = 3
  SmallMax = 1
  ByteMax = 2
  U32Max = 2
  MemSize = 2
  SymbolChars = {1, 2}
  SymbolLimit = 2
  DepthLimit = 3
  CpuLimit = 7
  MemLimit = 7
  CpuPerFuel = 4
  CallCost = 2
  Smalls <- MCSmalls
  Words = {1, 2}
  Pieces <- MCPieces
  Strings <- MCStrings
  Foreign <- MCForeign
  RootArgs <- MCRootArgs
  MaxFrames = 2
INVARIANTS
  Isolation
  OrderIsOfValues
  LoadsBack
  FuelIsCharged
CHECK_DEADLOCK FALSE
