CONSTANTS
    MaxVer = 3
    Plugins = {"nodes", "page"}
    Producers = {"nodes"}
    Preinstalled = {"nodes"}
    Needs <- MCNeeds
    OpBound = 2
    FaultBound = 2
SPECIFICATION Spec
INVARIANTS RunningIsRecorded StepsInOrder TablesAreClaimed
CHECK_DEADLOCK FALSE
