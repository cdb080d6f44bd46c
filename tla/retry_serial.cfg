SPECIFICATION Spec
CONSTANTS
    Jobs = {j1, j2}
    Handled = {j1}
    Workers = {w1}
    MaxAttempts = 2
    Concurrency = 2
    SlowHandlers = TRUE
    MaxFaults = 2
    MaxManual = 1
    AttemptCap = 9
    NoJob = NoJob
INVARIANT TypeOK AttemptBudget RerunOnlyAfterFault
PROPERTY ImplementsRetryJob
