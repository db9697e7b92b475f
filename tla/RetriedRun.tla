----------------------------- MODULE RetriedRun -----------------------------
(***************************************************************************)
(* ClientRun and Retry composed: Client.Run with the retry middleware as   *)
(* its handler chain, over a transport that may answer anything.  The      *)
(* events of the middleware and of the transport reach the observers       *)
(* through the client's emitter, on the goroutine that emits them, so that *)
(* an observer that panics unwinds the middleware as well.                 *)
(***************************************************************************)
EXTENDS ClientRun

CONSTANTS
    Minions,
    MaxAttempts,    \* RetryConfig.MaxAttempts
    Selected,       \* the kinds of failure RetryConfig.Predicate selects
    MaxReturned     \* bound: how many returns the transport announces

ASSUME RetryAssumption ==
    /\ IsFiniteSet(Minions)
    /\ MaxAttempts \in Nat \ {0}
    /\ Selected \subseteq {"flaky", "broken", "absent"}
    /\ MaxReturned \in Nat

VARIABLES
    rpc, attempt, merged, retry, delay, herr, latest, started, exhausted,
    backlog,        \* the events the middleware has yet to emit
    announced       \* how many returns the transport has announced

retryVars == <<rpc, attempt, merged, retry, delay, herr, latest, started, exhausted>>
vars      == <<clientVars, retryVars, backlog, announced>>

R == INSTANCE Retry WITH pc <- rpc, err <- herr

RunInit == Init /\ R!Init /\ backlog = << >> /\ announced = 0

------------------------------------------------------------------------------
\* One event for each entry of the list: a minion that failed and went missing has
\* two, and so two events.
Tell(event, list) == backlog' = [i \in 1 .. Cardinality(list) |-> event]

Silent == backlog' = backlog

\* The middleware goes on once it has emitted what it had to.
Middleware(step) ==
    /\ pc = "handler"
    /\ backlog = << >>
    /\ step
    /\ UNCHANGED <<pc, emission, recovering, outcome, log, panics, announced>>

\* The transport announces a return of the answer it collects.
TransportAnnounces ==
    /\ rpc \in {"first", "attempt"}
    /\ backlog = << >>
    /\ announced < MaxReturned
    /\ announced' = announced + 1
    /\ HandlerEmits("minion.returned")
    /\ UNCHANGED <<retryVars, backlog>>

TransportAnswers ==
    Middleware(R!FirstRunRetried \/ R!FirstRunReturned \/ R!AttemptReturns) /\ Silent

TransportFails == Middleware(R!FirstRunFails \/ R!AttemptFails) /\ Silent

RetryScheduled == Middleware(R!Schedule) /\ Tell("retry.scheduled", retry)

RetryAborted == Middleware(R!DelayAborted) /\ Silent

\* Variant: every failure is announced as retried, selected or not.
AllStarted == Middleware(R!DelayPasses) /\ Tell("retry.started", R!Failures(merged))

RetryStarted == Middleware(R!DelayPasses) /\ Tell("retry.started", retry)

RetriesEnd == Middleware(R!Finish) /\ Tell("retry.exhausted", retry)

MiddlewareEmits ==
    /\ backlog # << >>
    /\ HandlerEmits(Head(backlog))
    /\ backlog' = Tail(backlog)
    /\ UNCHANGED <<retryVars, announced>>

ResultKind ==
    IF merged = R!NoResult /\ herr # "none" THEN "none"
    ELSE IF R!OK(merged) THEN "ok" ELSE "bad"

MiddlewareReturns ==
    /\ rpc = "returned"
    /\ backlog = << >>
    /\ HandlerReturns(ResultKind, herr)
    /\ UNCHANGED <<retryVars, backlog, announced>>

\* What does not concern the middleware; a panic leaves it where it is.
Client ==
    /\ RunStarts \/ HandlerPanics \/ ObserverReturns \/ ObserverPanics \/ ContextEnds
    /\ UNCHANGED <<retryVars, backlog, announced>>

RunNext ==
    \/ TransportAnnounces \/ TransportAnswers \/ TransportFails
    \/ RetryScheduled \/ RetryAborted \/ RetryStarted \/ RetriesEnd
    \/ MiddlewareEmits \/ MiddlewareReturns
    \/ Client

RunSpec == RunInit /\ [][RunNext]_vars
------------------------------------------------------------------------------
\* Properties.

\* A minion that succeeded is never asked again, and its return is the one in
\* the result: "preserve the final successful return for each minion".
SuccessIsKept == R!SuccessIsKept

\* The caller of Run is told of success only if the latest that is known of each
\* minion is a success; and once something was retried, of failed minions only if
\* the latest of some minion is none, whatever the first attempt set as a failure
\* of the whole result.
OutcomeMatchesLatest ==
    pc = "returned" =>
        /\ err = "none" => \A m \in Minions : latest[m] \in {"ok", "none"}
        /\ err = "execution" /\ attempt > 1 => \E m \in Minions : latest[m] \notin {"ok", "none"}

\* A minion is announced as exhausted only after every attempt the configuration
\* allows was spent on it, and if the result still shows a failure of its that
\* would be retried.
ExhaustedAfterAllAttempts == R!ExhaustedAfterAllAttempts

Heard(o, type) == Count(o, {type})

\* The retries, as every observer hears them when none panics: each retry that was
\* scheduled is heard to start, but for those a context that ended prevented, and
\* a call that is heard to exhaust its retries fails.
RetriesAreTold ==
    pc = "returned" /\ panics = 0 /\ err # "panic" => \A o \in All :
        /\ Heard(o, "retry.scheduled") =
             Heard(o, "retry.started") + (IF err = "cancelled" THEN Cardinality(retry) ELSE 0)
        /\ Heard(o, "retry.exhausted") > 0 => err = "execution"
==============================================================================
