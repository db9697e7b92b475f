\* What one wait returns and the job retains: two minions, streamed or polled, JobWaitTimeout set.
SPECIFICATION Spec
CONSTANTS
    Minions = {m1, m2}
    Waits = {w1}
    NoWait = NoWait
    JobId = j1
    Jids = {j1}
    NoJid = NoJid
    JobWaitTimeout = TRUE
    Reports = {"ok", "fail"}
    Emitters = {FALSE, TRUE}
SYMMETRY MinionsAndWaits
CHECK_DEADLOCK FALSE
INVARIANTS
    OnlyCompletionSettles
    SuccessIsReported
    AnswersComeFromSalt
    ProgressMatchesResult
PROPERTIES
    LookupReconciles
