CONSTANTS
    Worlds <- MCWorlds
    PageShift = 5
    Space = 256
    TableMax = 20
    StackSize = 20
    BadNames = {"x/y"}
    LayoutNames = {"__heap_base"}
    BindNow = {TRUE, FALSE}
    MaxOps = 3
SPECIFICATION Spec
CHECK_DEADLOCK FALSE
INVARIANTS
    BindingsAgree
    CodeRunsLinked
    InitOrder
    AreasDisjoint
PROPERTIES
    LoadEnds
