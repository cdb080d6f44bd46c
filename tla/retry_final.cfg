SPECIFICATION Spec
CONSTANTS
    Jobs = {j1}
    Handled = {j1}
    Workers = {w1, w2}
    MaxAttempts = 2
    Concurrency = 1
    SlowHandlers = FALSE
    MaxFaults = 0
    MaxManual = 0
    AttemptCap = 9
    NoJob = NoJob
PROPERTY SucceededIsFinal
