CONSTANTS
    MaxVer = 2
    Plugins = {"nodes"}
    Producers = {"nodes"}
    Preinstalled = {}
    Needs <- MCNeeds
    OpBound = 1
    FaultBound = 2
SPECIFICATION Spec
INVARIANTS EnabledRuns
CHECK_DEADLOCK FALSE
