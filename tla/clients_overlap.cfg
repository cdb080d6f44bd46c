SPECIFICATION ClientsSpec
CONSTANTS
    Reqs = {r1, r2}
    Milestones = {}
    MaxFaults = 0
    Ops <- StatusOps
    MaxResolutions = 2
    Nothing = Nothing
    Disputes = {d1, d2}
    Subjects = {d1, d2}
SYMMETRY Symmetry
INVARIANT SettledIsStamped
PROPERTY ReachedLegally
CHECK_DEADLOCK FALSE
