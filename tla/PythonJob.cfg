\* Two calls of Wait, two minions, with and without JobWaitTimeout.
SPECIFICATION FairSpec
CONSTANTS
    Minions = {m1, m2}
    Waits = {w1, w2}
    NoWait = NoWait
    JobId = j1
    Jids = {j1}
    NoJid = NoJid
    Timeouts = {FALSE, TRUE}
    Reports <- OneMayFail
CHECK_DEADLOCK FALSE
INVARIANTS
    OneHelper
    SettlesOnWhatSaltHolds
PROPERTIES
    WaitIsIdempotent
    EndedWaitReturns
    EveryWaitReturns
