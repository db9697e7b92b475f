\* Liveness with JobWaitTimeout, streamed or polled: one call, two minions, so
\* that events can outnumber the channel's places.
SPECIFICATION FairSpec
CONSTANTS
    Minions = {m1, m2}
    Waits = {w1}
    NoWait = NoWait
    JobId = j1
    Jids = {j1}
    NoJid = NoJid
    JobWaitTimeout = TRUE
    Reports = {"ok"}
    Emitters = {FALSE, TRUE}
CHECK_DEADLOCK FALSE
PROPERTIES
    EveryWaitReturns
    ReceiverStops
