\* A caller deadline and JobWaitTimeout are told apart by nothing: one call, one minion.
SPECIFICATION Spec
CONSTANTS
    Minions = {m1}
    Waits = {w1}
    NoWait = NoWait
    JobId = j1
    Jids = {j1}
    NoJid = NoJid
    JobWaitTimeout = TRUE
    Reports = {"ok"}
    Emitters = {FALSE}
CHECK_DEADLOCK FALSE
INVARIANTS
    CallerContextNeverSettles
