SPECIFICATION ClientsSpec
CONSTANTS
    Reqs = {r1, r2}
    Milestones = {1}
    MaxFaults = 0
    Ops <- ClientOps
    MaxResolutions = 0
    Nothing = Nothing
    Disputes = {}
    Subjects = {}
PROPERTY CompletionNeedsMilestones
CHECK_DEADLOCK FALSE
