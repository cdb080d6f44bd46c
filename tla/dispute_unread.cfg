SPECIFICATION ClientsSpec
CONSTANTS
    Reqs = {r1}
    Milestones = {}
    MaxFaults = 1
    Ops <- ClientOps
    MaxResolutions = 1
    Nothing = Nothing
    Disputes = {d1, d2}
    Subjects = {d1, d2}
INVARIANT OneActiveDispute
CHECK_DEADLOCK FALSE
