CONSTANTS
    Files <- MCFiles
    UINT32_MAX = 5
    MaxPages = 3
    MaxTagCells = 4
    MaxAllocs = 9
    Reliable = {"refs", "dylink"}
    CellIdx = {TRUE}
    AllForms = TRUE
SPECIFICATION Spec
CHECK_DEADLOCK FALSE
INVARIANTS
    SemanticCopy
