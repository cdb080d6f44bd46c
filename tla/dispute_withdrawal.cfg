SPECIFICATION ClientsSpec
CONSTANTS
    Reqs = {r1}
    Milestones = {}
    MaxFaults = 0
    Ops <- ClientOps
    MaxResolutions = 2
    Nothing = Nothing
    Disputes = {d1, d2}
    Subjects = {d1, d2}
PROPERTY WithdrawalReopensDisputed
CHECK_DEADLOCK FALSE
