------------------------------- MODULE LocalJob -------------------------------
(***************************************************************************)
(* The REST transport's asynchronous job (transports/rest/job.go): any     *)
(* number of goroutines call Wait on one job.  The first becomes the       *)
(* leader and polls jobs.lookup_jid, with the help of the return-event     *)
(* stream when its context carries an emitter; the others wait for the     *)
(* leader's call to close.  Each call of Wait is a member of Waits and has *)
(* a context of its own.  Salt (the job cache, the event bus) is external. *)
(*                                                                         *)
(* An operator introduced as a variant is a plausible bug in the one that  *)
(* follows it; nothing uses it but the mutants that show each property can *)
(* fail.                                                                   *)
(***************************************************************************)
EXTENDS Accumulator

CONSTANTS
    Waits,           \* calls of Wait, by any goroutine
    NoWait,          \* no call
    JobId,           \* the job's ID
    JobWaitTimeout,  \* whether Config.JobWaitTimeout is positive
    Emitters,        \* whether a leader's context may carry an emitter
    Reports          \* how the minions' returns may be classified

ASSUME WaitsAssumption ==
    /\ NoWait \notin Waits
    /\ JobId \in Jids
    /\ JobWaitTimeout \in BOOLEAN
    /\ Emitters \subseteq BOOLEAN
    /\ Reports \subseteq Value

VARIABLES
    job,        \* what newLocalJob derived from the target and the start reply
    cache,      \* Salt: the return of each minion in the master's job cache
    fired,      \* Salt: the return of each minion published on the event bus
    pc,         \* where each call of Wait is
    ctx,        \* how the context that governs the call ended, or "live"
    waiting,    \* job.waiting: the leader's call
    following,  \* the call a follower joined
    done,       \* job.done
    final,      \* job.result and job.err
    answer,     \* waitCall.result/err/terminal, and what Wait returned
    acc,        \* the leader's accumulator
    reply,      \* the job cache as the server read it for the lookup in flight
    rx,         \* the goroutine of startReturnEventStream
    inbox,      \* events received by its stream and not yet forwarded
    returns     \* the channel from it to the leader

saltVars == <<cache, fired>>
waitVars == <<waiting, following, done, final, answer, acc, reply>>
rxVars   == <<rx, inbox, returns>>
vars     == <<job, saltVars, pc, ctx, waitVars, rxVars>>

------------------------------------------------------------------------------
\* Types.

Optional  == Value \cup {"none"}
Snapshot  == [Minions -> Optional]
Nothing   == [m \in Minions |-> "none"]
Present(s) == {m \in Minions : s[m] # "none"}

Job == [expectedKnown : BOOLEAN, expected : SUBSET Minions,
        collectionKnown : BOOLEAN, collection : SUBSET Minions,
        reachable : SUBSET Minions]

InWait  == {"lookup", "sent", "served", "poll"}
Leading == InWait \cup {"begin", "publish"}
PCs     == Leading \cup {"idle", "follow", "returned"}
Causes  == {"live", "canceled", "deadline", "timeout"}

\* "nil"; an ExecutionError without and with a context error as its cause;
\* the lookup's own error; a follower's own context error.
Errors == {"none", "nil", "exec", "exec_canceled", "exec_deadline", "lookup", "ctx"}

Outcome == [result : ResultType, err : Errors, terminal : BOOLEAN]

NilResult == [jid |-> NoJid, expected |-> {}, byMinion |-> [m \in Minions |-> NoReturn],
              missing |-> {}, failure |-> FALSE]

OutcomeOf(result, err, terminal) == [result |-> result, err |-> err, terminal |-> terminal]
NoOutcome == OutcomeOf(NilResult, "none", FALSE)

StreamedReturn == [minion : Minions, value : Value]

------------------------------------------------------------------------------
\* The job handle: newLocalJob.

Some(S) == [known |-> TRUE, set |-> S]
None    == [known |-> FALSE, set |-> {}]

(***************************************************************************)
(* list is the minions of an explicit list target, start the "minions"     *)
(* field of the local_async reply.  A list target is what is expected; the *)
(* collection, which ends the polling, is what Salt says it reached.  The  *)
(* field reachable is external: the minions Salt does run the job on.      *)
(***************************************************************************)
NewJob(list, start) ==
    LET expected   == IF list.known THEN list ELSE start
        collection == IF start.known THEN start ELSE expected
    IN  [expectedKnown   |-> expected.known,
         expected        |-> expected.set,
         collectionKnown |-> collection.known,
         collection      |-> collection.set,
         reachable       |-> IF start.known THEN start.set
                             ELSE IF list.known THEN list.set ELSE Minions]

\* List targets are not empty (Request.Validate); Salt starts a list job on
\* members of the list only.
Jobs ==
    LET Lists  == {None} \cup {Some(S) : S \in (SUBSET Minions) \ {{}}}
        Starts(list) == {None} \cup
            {Some(S) : S \in SUBSET (IF list.known THEN list.set ELSE Minions)}
    IN  UNION {{NewJob(list, start) : start \in Starts(list)} : list \in Lists}

Init ==
    /\ job \in Jobs
    /\ cache = Nothing
    /\ fired = Nothing
    /\ pc = [w \in Waits |-> "idle"]
    /\ ctx = [w \in Waits |-> "live"]
    /\ waiting = NoWait
    /\ following = [w \in Waits |-> NoWait]
    /\ done = FALSE
    /\ final = NoOutcome
    /\ answer = [w \in Waits |-> NoOutcome]
    /\ acc = [w \in Waits |-> NewAccumulator]
    /\ reply = [w \in Waits |-> Nothing]
    /\ rx = [w \in Waits |-> "off"]
    /\ inbox = [w \in Waits |-> << >>]
    /\ returns = [w \in Waits |-> << >>]

------------------------------------------------------------------------------
\* Salt.

\* A return reaches the master's job cache.
SaltCaches(m, v) ==
    /\ m \in job.reachable
    /\ cache[m] = "none"
    /\ cache' = [cache EXCEPT ![m] = v]
    /\ UNCHANGED <<job, fired, pc, ctx, waitVars, rxVars>>

\* The return event is published: the open streams receive it, in the order
\* of publication; whoever is not subscribed misses it.  An event carries
\* less than the job cache does, so its value may differ.
SaltFires(m, v) ==
    /\ m \in job.reachable
    /\ fired[m] = "none"
    /\ fired' = [fired EXCEPT ![m] = v]
    /\ inbox' = [w \in Waits |->
         IF rx[w] \in {"recv", "send"}
         THEN Append(inbox[w], [minion |-> m, value |-> v]) ELSE inbox[w]]
    /\ UNCHANGED <<job, cache, pc, ctx, waitVars, rx, returns>>

------------------------------------------------------------------------------
\* Contexts.

\* The caller's context is cancelled or its own deadline passes, while the
\* call can still look at it (one that ended before the call is the same as
\* one that ends as the call begins).
CallerEnds(w, cause) ==
    /\ cause \in {"canceled", "deadline"}
    /\ pc[w] \in InWait \cup {"begin", "follow"}
    /\ ctx[w] = "live"
    /\ ctx' = [ctx EXCEPT ![w] = cause]
    /\ UNCHANGED <<job, saltVars, pc, waitVars, rxVars>>

\* The context waitContext derives for the leader passes its timeout.
WaitTimesOut(w) ==
    /\ JobWaitTimeout
    /\ pc[w] \in InWait
    /\ ctx[w] = "live"
    /\ ctx' = [ctx EXCEPT ![w] = "timeout"]
    /\ UNCHANGED <<job, saltVars, pc, waitVars, rxVars>>

ExecErrorFor(cause) == IF cause = "canceled" THEN "exec_canceled" ELSE "exec_deadline"

\* errors.Is(err, DeadlineExceeded) does not tell whose deadline it was.
IsConfiguredWaitTimeout(cause) == JobWaitTimeout /\ cause \in {"deadline", "timeout"}

------------------------------------------------------------------------------
\* Wait, up to the leader's polling.

\* Variants: the call in progress, or the cached outcome, is not looked for.
MayLeadTwice == ~done
MayLeadAgain == waiting = NoWait

\* What the first locked section of Wait finds.
MayLead   == ~done /\ waiting = NoWait
MayFollow == ~done /\ waiting # NoWait

\* The job is done: the cached outcome is returned, whatever the context.
ReturnCached(w) ==
    /\ pc[w] = "idle"
    /\ done
    /\ pc' = [pc EXCEPT ![w] = "returned"]
    /\ answer' = [answer EXCEPT ![w] = final]
    /\ UNCHANGED <<job, saltVars, ctx, waiting, following, done, final, acc, reply, rxVars>>

Follow(w) ==
    /\ pc[w] = "idle"
    /\ MayFollow
    /\ pc' = [pc EXCEPT ![w] = "follow"]
    /\ following' = [following EXCEPT ![w] = waiting]
    /\ UNCHANGED <<job, saltVars, ctx, waiting, done, final, answer, acc, reply, rxVars>>

Lead(w) ==
    /\ pc[w] = "idle"
    /\ MayLead
    /\ waiting' = w
    /\ pc' = [pc EXCEPT ![w] = "begin"]
    /\ UNCHANGED <<job, saltVars, ctx, following, done, final, answer, acc, reply, rxVars>>

\* close(call.done) ends the second locked section.
Closed(call) == pc[call] = "returned"

\* waitForCall: the leader's call is closed.
FollowerReturns(w) ==
    /\ pc[w] = "follow"
    /\ Closed(following[w])
    /\ pc' = [pc EXCEPT ![w] = "returned"]
    /\ answer' = [answer EXCEPT ![w] = answer[following[w]]]
    /\ UNCHANGED <<job, saltVars, ctx, waiting, following, done, final, acc, reply, rxVars>>

\* waitForCall: the follower's own context ends first.
FollowerGivesUp(w) ==
    /\ pc[w] = "follow"
    /\ ctx[w] # "live"
    /\ pc' = [pc EXCEPT ![w] = "returned"]
    /\ answer' = [answer EXCEPT ![w] = OutcomeOf(NilResult, "ctx", FALSE)]
    /\ UNCHANGED <<job, saltVars, ctx, waiting, following, done, final, acc, reply, rxVars>>

------------------------------------------------------------------------------
\* localJob.wait, run by the leader without the lock.

\* wait returns outcome: the deferred stopEvents and cancelWait run (StreamDone).
LeaveWith(w, outcome) ==
    /\ pc' = [pc EXCEPT ![w] = "publish"]
    /\ answer' = [answer EXCEPT ![w] = outcome]

NoMinionsOutcome ==
    OutcomeOf([NilResult EXCEPT !.jid = JobId, !.failure = TRUE], "exec", TRUE)

FreshAccumulator ==
    IF job.expected # {} THEN SetExpected(NewAccumulator, JobId, job.expected)
    ELSE SetJID(NewAccumulator, JobId)

StartWait(w) ==
    /\ pc[w] = "begin"
    /\ \/ /\ job.expectedKnown /\ job.expected = {}
          /\ LeaveWith(w, NoMinionsOutcome)
          /\ UNCHANGED <<acc, rx>>
       \/ /\ ~(job.expectedKnown /\ job.expected = {})
          /\ acc' = [acc EXCEPT ![w] = FreshAccumulator]
          /\ \E emitter \in Emitters :
                rx' = [rx EXCEPT ![w] = IF emitter THEN "subscribing" ELSE "off"]
          /\ pc' = [pc EXCEPT ![w] = "lookup"]
          /\ UNCHANGED answer
    /\ UNCHANGED <<job, saltVars, ctx, waiting, following, done, final, reply, inbox, returns>>

SendLookup(w) ==
    /\ pc[w] = "lookup"
    /\ ctx[w] = "live"
    /\ pc' = [pc EXCEPT ![w] = "sent"]
    /\ UNCHANGED <<job, saltVars, ctx, waitVars, rxVars>>

\* Salt reads its job cache to answer the lookup.
SaltServesLookup(w) ==
    /\ pc[w] = "sent"
    /\ pc' = [pc EXCEPT ![w] = "served"]
    /\ reply' = [reply EXCEPT ![w] = cache]
    /\ UNCHANGED <<job, saltVars, ctx, waiting, following, done, final, answer, acc, rxVars>>

\* normalizeJobLookup: what the leader makes of a lookup reply.
LookupResult(snapshot) ==
    LET back == Present(snapshot)
        exp  == IF job.expected # {} THEN job.expected ELSE back
    IN  [jid      |-> JobId,
         expected |-> exp,
         byMinion |-> [m \in Minions |->
            IF m \in back THEN [jid |-> JobId, value |-> snapshot[m]] ELSE NoReturn],
         missing  |-> exp \ back,
         failure  |-> FALSE]

\* Variants: the first return completes the lookup, or complete means that
\* nothing expected is missing.
CompleteByAnyReturn(result) == Returned(result) # {}
CompleteByExpected(result) == job.expectedKnown /\ result.missing = {}

LookupComplete(result) ==
    IF job.collectionKnown THEN job.collection \subseteq Returned(result)
    ELSE IF ~job.expectedKnown THEN Returned(result) # {}
    ELSE job.expected # {} /\ result.missing = {}

\* Variant: only a failed command is an error, not a failed or missing minion.
FinishedUnlessFailure(result) ==
    OutcomeOf(result, IF result.failure THEN "exec" ELSE "nil", TRUE)

\* resultWithExecutionError, as a terminal outcome.
FinishedOutcome(result) ==
    OutcomeOf(result, IF OK(result) THEN "nil" ELSE "exec", TRUE)

LookupReturns(w) ==
    /\ pc[w] = "served"
    /\ LET merged  == MergeResult(acc[w], LookupResult(reply[w]))
           current == Result(merged)
       IN  /\ acc' = [acc EXCEPT ![w] = merged]
           /\ \/ LookupComplete(current) /\ LeaveWith(w, FinishedOutcome(current))
              \/ /\ ~LookupComplete(current)
                 /\ pc' = [pc EXCEPT ![w] = "poll"]
                 /\ UNCHANGED answer
    /\ reply' = [reply EXCEPT ![w] = Nothing]
    /\ UNCHANGED <<job, saltVars, ctx, waiting, following, done, final, rxVars>>

\* Variant: nothing.
NoPartial(w) == NilResult

\* What has been collected when wait gives up.
Partial(w) == Result(acc[w])

LookupFails(w) ==
    /\ LeaveWith(w, OutcomeOf(Partial(w), "lookup", FALSE))
    /\ reply' = [reply EXCEPT ![w] = Nothing]
    /\ UNCHANGED <<job, saltVars, ctx, waiting, following, done, final, acc, rxVars>>

\* The request fails, or its reply cannot be used.
LookupErrors(w) ==
    /\ pc[w] \in {"sent", "served"}
    /\ ctx[w] = "live"
    /\ LookupFails(w)

\* Variant: the request is built without the context.
AbortedUnsent(w) ==
    /\ pc[w] = "lookup"
    /\ ctx[w] # "live"
    /\ LookupFails(w)

\* The request is not sent, or is abandoned, because the context ended.
LookupAborted(w) ==
    /\ pc[w] \in {"lookup", "sent", "served"}
    /\ ctx[w] # "live"
    /\ LookupFails(w)

PollTimerFires(w) ==
    /\ pc[w] = "poll"
    /\ pc' = [pc EXCEPT ![w] = "lookup"]
    /\ UNCHANGED <<job, saltVars, ctx, waitVars, rxVars>>

AddStreamed(a, event) ==
    AddMinion(a, event.minion, [jid |-> JobId, value |-> event.value])

PollReceives(w) ==
    /\ pc[w] = "poll"
    /\ returns[w] # << >>
    /\ LET after == AddStreamed(acc[w], Head(returns[w]))
       IN  /\ acc' = [acc EXCEPT ![w] = after]
           /\ pc' = [pc EXCEPT ![w] = IF Complete(after) THEN "lookup" ELSE "poll"]
    /\ returns' = [returns EXCEPT ![w] = Tail(@)]
    /\ UNCHANGED <<job, saltVars, ctx, waiting, following, done, final, answer, reply, rx, inbox>>

PollContextEnds(w) ==
    /\ pc[w] = "poll"
    /\ ctx[w] # "live"
    /\ LeaveWith(w, OutcomeOf(Partial(w), ExecErrorFor(ctx[w]), IsConfiguredWaitTimeout(ctx[w])))
    /\ UNCHANGED <<job, saltVars, ctx, waiting, following, done, final, acc, reply, rxVars>>

\* The second locked section of Wait; closing call.done releases followers.
\* The accumulator and the channel go out of scope.
Publish(w) ==
    /\ pc[w] = "publish"
    /\ waiting' = IF waiting = w THEN NoWait ELSE waiting
    /\ done' = (done \/ answer[w].terminal)
    /\ final' = IF answer[w].terminal /\ ~done THEN answer[w] ELSE final
    /\ answer' = [answer EXCEPT ![w] = IF done' THEN final' ELSE @]
    /\ pc' = [pc EXCEPT ![w] = "returned"]
    /\ acc' = [acc EXCEPT ![w] = NewAccumulator]
    /\ returns' = [returns EXCEPT ![w] = << >>]
    /\ UNCHANGED <<job, saltVars, ctx, following, reply, rx, inbox>>

------------------------------------------------------------------------------
\* The goroutine of startReturnEventStream.

\* Variant: stop does not cancel the stream's context.
EndsWithContext(w) == ctx[w] # "live"

\* streamCtx is done: it is derived from the wait context, and stop cancels it.
StreamDone(w) == ctx[w] # "live" \/ pc[w] \notin InWait

\* make(chan localJobReturn, len(j.expected)+1)
ReturnsCapacity == Cardinality(job.expected) + 1

Subscribed(w) ==
    /\ rx[w] = "subscribing"
    /\ rx' = [rx EXCEPT ![w] = "recv"]
    /\ UNCHANGED <<job, saltVars, pc, ctx, waitVars, inbox, returns>>

\* The goroutine returns: its stream is closed and what it holds is lost.
RxExits(w) ==
    /\ rx' = [rx EXCEPT ![w] = "exited"]
    /\ inbox' = [inbox EXCEPT ![w] = << >>]
    /\ UNCHANGED <<job, saltVars, pc, ctx, waitVars, returns>>

SubscribeFails(w) == rx[w] = "subscribing" /\ RxExits(w)

StreamDrops(w) == rx[w] = "recv" /\ RxExits(w)

RxReceives(w) ==
    /\ rx[w] = "recv"
    /\ inbox[w] # << >>
    /\ rx' = [rx EXCEPT ![w] = "send"]
    /\ UNCHANGED <<job, saltVars, pc, ctx, waitVars, inbox, returns>>

RxForwards(w) ==
    /\ rx[w] = "send"
    /\ Len(returns[w]) < ReturnsCapacity
    /\ returns' = [returns EXCEPT ![w] = Append(@, Head(inbox[w]))]
    /\ inbox' = [inbox EXCEPT ![w] = Tail(@)]
    /\ rx' = [rx EXCEPT ![w] = "recv"]
    /\ UNCHANGED <<job, saltVars, pc, ctx, waitVars>>

RxStops(w) ==
    /\ rx[w] \in {"recv", "send"}
    /\ StreamDone(w)
    /\ RxExits(w)

------------------------------------------------------------------------------

LeaderStep(w) ==
    \/ StartWait(w) \/ SendLookup(w) \/ LookupReturns(w) \/ LookupAborted(w)
    \/ PollTimerFires(w) \/ PollReceives(w) \/ PollContextEnds(w) \/ Publish(w)

RxStep(w) ==
    \/ Subscribed(w) \/ SubscribeFails(w) \/ RxReceives(w) \/ RxForwards(w) \/ RxStops(w)

Next ==
    \/ \E m \in Minions, v \in Reports : SaltCaches(m, v) \/ SaltFires(m, v)
    \/ \E w \in Waits :
        \/ \E cause \in Causes : CallerEnds(w, cause)
        \/ WaitTimesOut(w)
        \/ ReturnCached(w) \/ Follow(w) \/ Lead(w)
        \/ FollowerReturns(w) \/ FollowerGivesUp(w)
        \/ SaltServesLookup(w) \/ LookupErrors(w) \/ StreamDrops(w)
        \/ LeaderStep(w)
        \/ RxStep(w)

Spec == Init /\ [][Next]_vars

(***************************************************************************)
(* Fairness: a runnable goroutine runs (LeaderStep, FollowerReturns,       *)
(* RxStep), an armed timer fires (the poll timer within LeaderStep,        *)
(* WaitTimesOut).  FairSaltSpec also trusts Salt to answer lookups.        *)
(***************************************************************************)
Fairness ==
    \A w \in Waits :
        /\ WF_vars(LeaderStep(w))
        /\ WF_vars(FollowerReturns(w))
        /\ WF_vars(RxStep(w))
        /\ WF_vars(WaitTimesOut(w))

FairSpec     == Spec /\ Fairness
FairSaltSpec == FairSpec /\ \A w \in Waits : WF_vars(SaltServesLookup(w))

------------------------------------------------------------------------------
\* Properties.

\* Every variable keeps to the values the code's fields can hold.
TypeOK ==
    /\ job \in Job
    /\ cache \in Snapshot
    /\ fired \in Snapshot
    /\ pc \in [Waits -> PCs]
    /\ ctx \in [Waits -> Causes]
    /\ waiting \in Waits \cup {NoWait}
    /\ following \in [Waits -> Waits \cup {NoWait}]
    /\ done \in BOOLEAN
    /\ final \in Outcome
    /\ answer \in [Waits -> Outcome]
    /\ acc \in [Waits -> AccType]
    /\ reply \in [Waits -> Snapshot]
    /\ rx \in [Waits -> {"off", "subscribing", "recv", "send", "exited"}]
    /\ inbox \in [Waits -> Seq(StreamedReturn)]
    /\ returns \in [Waits -> Seq(StreamedReturn)]

\* At most one call of Wait polls Salt, it is the one job.waiting names (so
\* that every other call finds it), and nobody polls for a job that is done.
SingleLeader ==
    /\ \A w \in Waits : pc[w] \in Leading <=> waiting = w
    /\ done => waiting = NoWait

\* A success is Salt's: when Wait settles on a nil error, each minion the
\* caller asked for did report success, in the job cache or on the event bus,
\* and none of those Salt says it reached is left out.
SuccessIsReported ==
    done /\ final.err = "nil" =>
        /\ \A m \in job.expected : "ok" \in {cache[m], fired[m]}
        /\ job.collection \subseteq Returned(final.result)

\* No return is invented and none is both present and missing: every answer
\* Wait gives lists only returns Salt produced, and as missing exactly the
\* expected minions it has no return from.
AnswersComeFromSalt ==
    \A w \in Waits :
        LET r == answer[w].result IN
        /\ \A m \in Returned(r) : r.byMinion[m].value \in {cache[m], fired[m]}
        /\ r.missing = r.expected \ Returned(r)

\* What the observers were told is what the caller gets: the minions announced
\* while Wait ran are exactly those in the result it returns, on every path
\* out of wait, the failing ones included.
ProgressMatchesResult ==
    \A w \in Waits :
        pc[w] = "publish" => acc[w].emitted = Returned(answer[w].result)

\* The result has a return of every minion Salt says it reached; of somebody,
\* when Salt named nobody and neither did the caller.
Collected(result) ==
    IF job.collectionKnown THEN job.collection \subseteq Returned(result)
    ELSE Returned(result) # {}

NobodyTargeted == job.expectedKnown /\ job.expected = {}

MaySettle(outcome) ==
    \/ /\ outcome.err \in {"nil", "exec"}
       /\ Collected(outcome.result) \/ NobodyTargeted
    \/ JobWaitTimeout /\ outcome.err = "exec_deadline"

\* A job settles neither too early nor on an interrupted wait: what Wait retains,
\* a success or an ExecutionError, was made of a complete collection, or else the
\* target is empty or the configured timeout passed.  A cancelled context and a
\* failed lookup leave the job unsettled (doc.go: "without poisoning future Wait
\* calls").
OnlyCompletionSettles == done => MaySettle(final)

\* Lookup is the reconciliation source: when the poll that ends the wait finds
\* a return in the job cache, that return is in the result, whatever the event
\* stream said of the minion before.
LookupReconciles ==
    [][\A w \in Waits :
        pc[w] = "served" /\ pc'[w] = "publish" /\ answer'[w].terminal =>
            \A m \in Present(reply[w]) :
                answer'[w].result.byMinion[m].value = reply[w][m]]_vars

\* Wait is idempotent: the job behaves as WaitContract, for callers that come
\* before, during and after the polling and in any number.
Contract == INSTANCE WaitContract WITH
    Finals    <- [result : ResultType, err : Errors \ {"none"}, terminal : {TRUE}],
    Interims  <- [result : ResultType, err : Errors \ {"none"}, terminal : {FALSE}],
    NoOutcome <- NoOutcome,
    settled   <- final,
    phase     <- [w \in Waits |-> IF pc[w] = "idle" THEN "idle"
                                  ELSE IF pc[w] = "returned" THEN "answered" ELSE "open"],
    answer    <- [w \in Waits |-> IF pc[w] = "returned" THEN answer[w] ELSE NoOutcome]

WaitIsIdempotent == Contract!Spec

\* With JobWaitTimeout every call of Wait returns, with no help from Salt.
EveryWaitReturns ==
    \A w \in Waits : pc[w] \notin {"idle", "returned"} ~> pc[w] = "returned"

\* The stream goroutine does not outlive its wait: it exits, and with it the
\* stream closes, even when it is blocked on a full channel nobody reads.
ReceiverStops ==
    \A w \in Waits : pc[w] = "publish" ~> rx[w] \in {"off", "exited"}

\* The polling does not miss the end: once the job cache holds every minion
\* Salt reached, the leader returns, and so do those that follow it, though no
\* event arrives and no context ends.
CollectedWaitReturns ==
    \A w \in Waits :
        (/\ pc[w] \in InWait \cup {"follow"}
         /\ job.collectionKnown
         /\ job.collection \subseteq Present(cache)) ~> pc[w] = "returned"

\* doc.go says that a wait which ends with its context does not poison later
\* ones: the caller's own deadline is never what a job settles on.
CallerContextNeverSettles ==
    \A w \in Waits :
        pc[w] = "publish" /\ ctx[w] = "deadline" /\ answer[w].err = "exec_deadline"
            => ~answer[w].terminal
==============================================================================
