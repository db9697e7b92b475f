------------------------------- MODULE Retry -------------------------------
(***************************************************************************)
(* The retry middleware (retry.go): one call of the handler that WithRetry *)
(* returns.  The handler it wraps is external and may answer anything a    *)
(* transport can: per-minion returns, missing minions, an error with or    *)
(* without a partial result.  Of a return the model keeps whether it       *)
(* succeeded, failed in a way the predicate selects, or failed otherwise.  *)
(* RetriedRun puts it into a call of Client.Run and checks the two.        *)
(*                                                                         *)
(* Operators introduced as variants are the bugs the mutants put in.       *)
(***************************************************************************)
EXTENDS Naturals, FiniteSets

CONSTANTS
    Minions,
    MaxAttempts,    \* RetryConfig.MaxAttempts
    Selected        \* the kinds of failure RetryConfig.Predicate selects

Answers  == {"ok", "flaky", "broken"}
Failing  == Answers \ {"ok"}

VARIABLES
    pc,         \* "first", "loop", "delay", "attempt", "returned"
    attempt,    \* the attempt that is next or under way
    merged,     \* the Result merged so far
    retry,      \* the entries of Failures the predicate selected
    delay,      \* what Backoff returned
    cancelled,  \* whether ctx has ended
    err,        \* the error that run returns
    latest,     \* history: the latest the handler said of each minion
    started,    \* history: how many EventRetryStarted each minion had
    exhausted   \* history: the minions announced by EventRetryExhausted

told == <<latest, started, exhausted>>
vars == <<pc, attempt, merged, retry, delay, cancelled, err, told>>

Partial(S, T) == UNION {[D -> T] : D \in SUBSET S}

\* A Result: ByMinion, Missing and whether Failure is set.
Results(target) ==
    {[by |-> by, missing |-> missing, failure |-> failure] :
        by \in Partial(target, Answers), missing \in SUBSET target, failure \in BOOLEAN}

\* The handler's results: it lists as missing only minions that did not return.
Answered(target) == {r \in Results(target) : r.missing \cap DOMAIN r.by = {}}

NoResult == [by |-> << >>, missing |-> {}, failure |-> FALSE]

\* Result.Failures: failed returns and placeholders for missing minions.
Failures(r) ==
    {<<m, r.by[m]>> : m \in {n \in DOMAIN r.by : r.by[n] \in Failing}}
        \cup {<<m, "absent">> : m \in r.missing}

\* Result.OK of a local result.
OK(r) == ~r.failure /\ Failures(r) = {}

Retryable(r) == {f \in Failures(r) : f[2] \in Selected}

\* The minions of a retry list.
Of(list) == {f[1] : f \in list}

Init ==
    /\ pc = "first"
    /\ attempt = 1
    /\ merged = NoResult
    /\ retry = {}
    /\ delay = 0
    /\ cancelled = FALSE
    /\ err = "none"
    /\ latest = [m \in Minions |-> "none"]
    /\ started = [m \in Minions |-> 0]
    /\ exhausted = {}

\* Two maps merged: the first one's entries win.
Over(f, g) == [x \in DOMAIN f \cup DOMAIN g |-> IF x \in DOMAIN f THEN f[x] ELSE g[x]]

\* What a result adds to what is known of the minions.
Learn(r) ==
    latest' = [m \in Minions |-> IF m \in DOMAIN r.by THEN r.by[m]
                                 ELSE IF m \in r.missing THEN "absent" ELSE latest[m]]

------------------------------------------------------------------------------
\* newRetryState and the first attempt.

RetriesAtAll == MaxAttempts > 1

\* The handler's result, or the one inside its ExecutionError, has something to
\* retry; the error that came with it is dropped.
FirstRunRetried ==
    /\ pc = "first"
    /\ RetriesAtAll
    /\ \E r \in Answered(Minions) :
        /\ Retryable(r) # {}
        /\ merged' = r
        /\ retry' = Retryable(r)
        /\ Learn(r)
    /\ attempt' = 2
    /\ pc' = "loop"
    /\ UNCHANGED <<delay, cancelled, err, started, exhausted>>

\* There is nothing to retry, or no result at all: the outcome is passed on.
FirstRunReturned ==
    /\ pc = "first"
    /\ \E r \in Answered(Minions) :
        /\ RetriesAtAll => Retryable(r) = {}
        /\ merged' = r
        /\ Learn(r)
    /\ err' \in {"none", "execution", "transport"}
    /\ pc' = "returned"
    /\ UNCHANGED <<attempt, retry, delay, cancelled, started, exhausted>>

FirstRunFails ==
    /\ pc = "first"
    /\ err' = "transport"
    /\ pc' = "returned"
    /\ UNCHANGED <<attempt, merged, retry, delay, cancelled, told>>

------------------------------------------------------------------------------
\* runAttempts and runAttempt.

\* Variant: the initial attempt is counted twice.
OneAttemptFewer == attempt < MaxAttempts

AttemptsLeft == attempt <= MaxAttempts

Schedule ==
    /\ pc = "loop"
    /\ AttemptsLeft
    /\ retry # {}
    /\ delay' \in {0, 1}
    /\ pc' = "delay"
    /\ UNCHANGED <<attempt, merged, retry, cancelled, err, told>>

DelayAborted ==
    /\ pc = "delay"
    /\ delay > 0
    /\ cancelled
    /\ err' = "cancelled"
    /\ pc' = "returned"
    /\ UNCHANGED <<attempt, merged, retry, delay, cancelled, told>>

\* A delay of zero passes although ctx has ended.
DelayPasses ==
    /\ pc = "delay"
    /\ started' = [m \in Minions |-> IF m \in Of(retry) THEN started[m] + 1 ELSE started[m]]
    /\ pc' = "attempt"
    /\ UNCHANGED <<attempt, merged, retry, delay, cancelled, err, latest, exhausted>>

\* Variant: every minion that failed or returned is asked again.
AllMinions == Of(Failures(merged)) \cup DOMAIN merged.by

\* The target of the retry request.
RetryTarget == Of(retry)

StillMissing(dst, src) == (dst.missing \ DOMAIN src.by) \cup src.missing

\* Variant: the failure of the first attempt outlives the recovery.
StaysFailed(dst, r) == dst.failure

StillFailed(dst, r) == dst.failure /\ Failures(r) # {}

\* mergeRetryResult.
Merge(dst, src) ==
    LET r == [by      |-> Over(src.by, dst.by),
              missing |-> StillMissing(dst, src),
              failure |-> dst.failure]
    IN  [r EXCEPT !.failure = StillFailed(dst, r)]

AttemptReturns ==
    /\ pc = "attempt"
    /\ \E src \in Answered(RetryTarget) :
        /\ merged' = Merge(merged, src)
        /\ Learn(src)
    /\ retry' = Retryable(merged')
    /\ attempt' = attempt + 1
    /\ pc' = "loop"
    /\ UNCHANGED <<delay, cancelled, err, started, exhausted>>

\* The handler fails without a result.
AttemptFails ==
    /\ pc = "attempt"
    /\ err' = "transport"
    /\ pc' = "returned"
    /\ UNCHANGED <<attempt, merged, retry, delay, cancelled, told>>

Exhausted == Of(retry)

Finish ==
    /\ pc = "loop"
    /\ ~AttemptsLeft \/ retry = {}
    /\ exhausted' = Exhausted
    /\ err' = IF OK(merged) THEN "none" ELSE "execution"
    /\ pc' = "returned"
    /\ UNCHANGED <<attempt, merged, retry, delay, cancelled, latest, started>>

ContextEnds ==
    /\ ~cancelled
    /\ pc # "returned"
    /\ cancelled' = TRUE
    /\ UNCHANGED <<pc, attempt, merged, retry, delay, err, told>>

Next ==
    \/ FirstRunRetried \/ FirstRunReturned \/ FirstRunFails
    \/ Schedule \/ DelayAborted \/ DelayPasses
    \/ AttemptReturns \/ AttemptFails \/ Finish
    \/ ContextEnds

Spec == Init /\ [][Next]_vars

------------------------------------------------------------------------------
\* Properties.

\* A minion that succeeded is never asked again, and its return is the one in
\* the result: "preserve the final successful return for each minion".
SuccessIsKept ==
    [][\A m \in Minions :
        latest[m] = "ok" => /\ latest'[m] = "ok"
                            /\ merged'.by[m] = "ok"
                            /\ m \notin merged'.missing]_vars

\* A minion is announced as exhausted only after every attempt the configuration
\* allows was spent on it, and of a call that fails exactly the minions are whose
\* failure would be retried again.
ExhaustedAfterAllAttempts ==
    /\ \A m \in exhausted : started[m] = MaxAttempts - 1
    /\ pc = "returned" /\ err = "execution" /\ attempt > 1 => exhausted = Of(Retryable(merged))
==============================================================================
