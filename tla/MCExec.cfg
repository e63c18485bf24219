CONSTANTS
  WasmFuncs = {"a", "b"}
  HostFuncs = {"h"}
  FuncType <- MCFuncType
  LocalTypes <- MCLocalTypes
  Tags = {"e"}
  TagType <- MCTagType
  MaxExnCells = 2
  Order <- MCOrder
  Files <- MCFiles
  JumpTables = {TRUE, FALSE}
  Start = "a"
  MaxFrames = 3
  MaxStackCells = 8
  MaxRestarts = 2
  JumpCacheSize = 4
SPECIFICATION Spec
INVARIANTS
  StackMatchesValidation
  WithinPreallocated
  BranchTargetsAgree
  HostCallIsConsistent
  RestartInfoIsOwn
PROPERTIES
  HostFramesKept
