\* Who polls, what callers are answered, and that polling ends: two calls of Wait,
\* one minion, no JobWaitTimeout.
SPECIFICATION FairSaltSpec
CONSTANTS
    Minions = {m1}
    Waits = {w1, w2}
    NoWait = NoWait
    JobId = j1
    Jids = {j1}
    NoJid = NoJid
    JobWaitTimeout = FALSE
    Reports = {"ok", "fail"}
    Emitters = {FALSE}
CHECK_DEADLOCK FALSE
INVARIANTS
    SingleLeader
PROPERTIES
    WaitIsIdempotent
    CollectedWaitReturns
