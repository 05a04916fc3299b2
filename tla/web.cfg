CONSTANTS
    Plugins = {1, 2}
    Offers <- MCOffers
    HookKinds <- MCHookKinds
    Verifiers <- MCVerifiers
    Callers = {"member", "stranger"}
    Protected = {"/api/x"}
    Requests = {1}
    OpBound = 6
SPECIFICATION Spec
INVARIANTS ServesRegistered FailOpen
CHECK_DEADLOCK FALSE
