SPECIFICATION ClientsSpec
CONSTANTS
    Reqs = {r1, r2}
    Milestones = {}
    MaxFaults = 0
    Ops <- ClientOps
    MaxResolutions = 1
    Nothing = Nothing
    Disputes = {d1, d2}
    Subjects = {d1, d2}
SYMMETRY Symmetry
INVARIANT OneActiveDispute
CHECK_DEADLOCK FALSE
