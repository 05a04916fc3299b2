CONSTANTS
    FlowIds <- MCFlowIds
    Templates <- MCTemplates
    Steps <- MCSteps
    Attachments <- MCAttachments
    Installed <- MCInstalled
    Bodies <- MCBodies
    RunOverrides <- MCRunOverrides
    Keys = {"k"}
    Kept = 1
    JobBound = 2
    RunBound = 2
    OpBound = 4
SPECIFICATION Spec
INVARIANTS PlanIsSound CacheFollows KeyOnce
CHECK_DEADLOCK FALSE
