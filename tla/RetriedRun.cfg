\* Two observers, one of which may panic once; two minions, three attempts; a failure
\* of one kind and no return are retried.
SPECIFICATION RunSpec
CONSTANTS
    Observers = 2
    MaxPanics = 1
    MaxReturned = 1
    Minions = {m1, m2}
    MaxAttempts = 3
    Selected = {"flaky", "absent"}
CHECK_DEADLOCK FALSE
INVARIANTS
    OutcomeMatchesLatest
    ExhaustedAfterAllAttempts
    LifecycleIsComplete
    TerminalOutlivesContext
    RetriesAreTold
PROPERTY
    SuccessIsKept
