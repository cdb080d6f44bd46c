SPECIFICATION ClientsSpec
CONSTANTS
    Reqs = {r1, r2}
    Milestones = {}
    MaxFaults = 0
    Ops <- StatusOps
    MaxResolutions = 1
    Nothing = Nothing
    Disputes = {d1}
    Subjects = {d1}
PROPERTY TerminalAcceptsNone
CHECK_DEADLOCK FALSE
