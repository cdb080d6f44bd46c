SPECIFICATION PlatformSpec
CONSTANTS
    Reqs = {r1}
    Ops <- PlatformOps
    Milestones = {1}
    Disputes = {d1}
    Events <- MixedEvents
    Subjects <- MixedSubjects
    MaxResolutions = 0
    MaxAttempts = 2
    MaxFaults = 1
    Nothing = Nothing
INVARIANT AcknowledgedMeansApplied
PROPERTY PullsForward
PROPERTY WebhooksMoveLegally
CHECK_DEADLOCK FALSE
