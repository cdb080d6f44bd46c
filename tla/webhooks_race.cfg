SPECIFICATION PlatformSpec
CONSTANTS
    Reqs = {r1, r2}
    Ops <- WebhookOps
    Milestones = {}
    Disputes = {}
    Events <- FundedEvent
    Subjects <- FundedEvent
    MaxResolutions = 0
    MaxAttempts = 2
    MaxFaults = 0
    Nothing = Nothing
SYMMETRY Symmetry
INVARIANT AcknowledgedMeansApplied
CHECK_DEADLOCK FALSE
