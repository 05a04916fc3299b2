CONSTANTS
    MaxVer = 2
    Plugins = {"nodes"}
    Producers = {"nodes"}
    Preinstalled = {}
    Needs <- MCNeeds
    OpBound = 1
    FaultBound = 1
SPECIFICATION Spec
INVARIANTS RolledBack
CHECK_DEADLOCK FALSE
