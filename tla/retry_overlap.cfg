SPECIFICATION FairSpec
CONSTANTS
    Jobs = {j1, j2}
    Handled = {j1}
    Workers = {w1, w2}
    MaxAttempts = 2
    Concurrency = 2
    SlowHandlers = FALSE
    MaxFaults = 1
    MaxManual = 1
    AttemptCap = 9
    NoJob = NoJob
INVARIANT OutcomeIsReal
PROPERTY Settles
