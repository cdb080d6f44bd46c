SPECIFICATION PlatformSpec
CONSTANTS
    Reqs = {r1, r2}
    Ops <- WebhookOps
    Milestones = {}
    Disputes = {}
    Events <- CompletedEvent
    Subjects <- CompletedEvent
    MaxResolutions = 0
    MaxAttempts = 1
    MaxFaults = 0
    Nothing = Nothing
PROPERTY WebhooksMoveLegally
CHECK_DEADLOCK FALSE
