SPECIFICATION PlatformSpec
CONSTANTS
    Reqs = {r1}
    Ops <- SyncOps
    Milestones = {}
    Disputes = {}
    Events = {}
    Subjects = {}
    MaxResolutions = 0
    MaxAttempts = 2
    MaxFaults = 0
    Nothing = Nothing
PROPERTY TerminalIsFinal
CHECK_DEADLOCK FALSE
