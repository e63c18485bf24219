SPECIFICATION Spec
CONSTANTS
    Modules <- MCModules
    Names = {1}
    RegNames = {11, 12}
    WasiName = 20
    ThreadsName = 21
    MemoryName = 4
    StartName = 6
    SharedFlag = 1
    Unlimited = 9
    Options <- MCOptions
    Fuel = 3
    Failures <- MCFailures
    MaxLoads = 3
    MaxOps = 5
INVARIANTS
    LinksAreLive
    ReferencesAreLive
    HeapIsOwned
PROPERTY
    ImportsMatch
CHECK_DEADLOCK FALSE
