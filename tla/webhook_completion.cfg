SPECIFICATION PlatformSpec
CONSTANTS
    Reqs = {r1}
    Ops <- WebhookOps
    Milestones = {1}
    Disputes = {}
    Events <- CompletedEvent
    Subjects <- CompletedEvent
    MaxResolutions = 0
    MaxAttempts = 1
    MaxFaults = 0
    Nothing = Nothing
PROPERTY CompletionNeedsMilestones
CHECK_DEADLOCK FALSE
