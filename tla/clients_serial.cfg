SPECIFICATION ClientsSpec
CONSTANTS
    Reqs = {r1}
    Milestones = {1}
    MaxFaults = 1
    Ops <- ClientOps
    MaxResolutions = 2
    Nothing = Nothing
    Disputes = {d1, d2}
    Subjects = {d1, d2}
INVARIANT TypeOK
INVARIANT OneCheckedDispute
INVARIANT ResolutionBudget
INVARIANT NoAgreementWithoutParties
PROPERTY ImplementsLifecycle
PROPERTY CompletionNeedsMilestones
PROPERTY DisputeEndsOnce
CHECK_DEADLOCK FALSE
