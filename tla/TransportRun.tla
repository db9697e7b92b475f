---------------------------- MODULE TransportRun ----------------------------
(***************************************************************************)
(* One call, Client.Run, Start or Resolve, from the caller's request to    *)
(* the exit status of the command line, through either transport: the REST *)
(* transport posts lowstate and normalizes one response, or, as the        *)
(* command line has it do, starts a job and waits for it; the Python       *)
(* transport starts a helper process and folds the frames it writes.  A    *)
(* job is told here by what its lookups and events bring: how calls of     *)
(* Wait share one is LocalJob's, and what Start hands out is LocalJob's or *)
(* PythonJob's.  Salt's answers are any value of Replies and Payloads;     *)
(* what Salt and the processes may do is unconstrained.                    *)
(***************************************************************************)
EXTENDS Accumulator, Returns, Requests

CONSTANTS
    Calls,          \* the calls that may be made
    Replies,        \* replies of a minion that Salt may deliver
    Payloads,       \* runner and lowstate payloads
    Registrable     \* functions the application (un)registers at run time

Duration == -MaxDuration - 1 .. MaxDuration

\* A request of any of the exported types; its entries are those of a lowstate.
RequestType ==
    [kind          : {"local", "runner", "lowstate"},
     function      : Functions \cup {NoFunction},
     target        : [type : TargetType \cup {"nil"}, names : SUBSET Minions],
     entries       : Seq([client : STRING, fun : Functions \cup {NoFunction},
                          target : [type : TargetType \cup {"nil"}, names : SUBSET Minions]]),
     batch         : [count : Int, percent : Int],
     moduleTimeout : Duration,
     gatherTimeout : Duration,
     fullReturn    : BOOLEAN]

CallType ==
    [transport : {"rest", "python"}, mode : {"auto", "direct", "async"}, observed : BOOLEAN,
     op : {"run", "start", "resolve"}, output : STRING, request : RequestType]

ASSUME TransportRunAssumption ==
    /\ Jids # {}
    /\ Calls \subseteq CallType
    /\ Replies \subseteq Reply
    /\ Registrable \subseteq Functions

VARIABLES
    pc,         \* progress of the call
    call,       \* [transport, mode, observed, op, output, request]
    asked,      \* what Salt was asked, << >> until then
    bareFalse,  \* transportkit.BareFalseModules
    listed,     \* ghost: functions registered ever since the call began
    matched,    \* ghost: minions the target matched
    replies,    \* ghost: the reply each minion gave
    acc,        \* the accumulator of the Python transport, or of a job's Wait
    verdict,    \* the normalized return of each minion
    streamed,   \* ghost: minions whose return in acc came by an event
    result, err,\* what the transport, then the Client, returns
    report      \* what the command line and package states make of it

vars == <<pc, call, asked, bareFalse, listed, matched, replies, acc, verdict, streamed,
          result, err, report>>

NoReply   == [NoReplyYet |-> TRUE]
NoVerdict == [NoVerdictYet |-> TRUE]
NoCall    == [op |-> "none"]
NoReport  == [exit |-> 2]
NoResult  == [NoResultYet |-> TRUE]

Error == {"none", "invalid", "unsupported", "transport", "protocol", "execution"}

Request == call.request
IsLocal == Request.kind = "local"

EmptyResult ==
    [jid |-> NoJid, expected |-> {}, byMinion |-> [m \in Minions |-> NoReturn],
     missing |-> {}, failure |-> FALSE]

TypeOK ==
    /\ pc \in {"idle", "accepted", "sent", "gathered", "job", "waiting", "returned", "done"}
    /\ call \in Calls \cup {NoCall}
    /\ bareFalse \subseteq Functions /\ listed \subseteq bareFalse
    /\ matched \subseteq Minions /\ streamed \subseteq Minions
    /\ replies \in [Minions -> Replies \cup {NoReply}]
    /\ acc \in AccType
    /\ verdict \in [Minions -> Verdict \cup {NoVerdict}]
    /\ result \in ResultType \cup {NoResult}
    /\ err \in Error

Init ==
    /\ pc = "idle" /\ call = NoCall /\ asked = << >>
    /\ bareFalse = Registrable /\ listed = Registrable
    /\ matched = {} /\ replies = [m \in Minions |-> NoReply]
    /\ acc = NewAccumulator /\ verdict = [m \in Minions |-> NoVerdict]
    /\ streamed = {} /\ result = NoResult /\ err = "none" /\ report = NoReport

------------------------------------------------------------------------------
(***************************************************************************)
(* The registry of bare-false modules may change at any time.              *)
(***************************************************************************)
RegisterBareFalseModule(function) ==
    /\ bareFalse' = bareFalse \cup {function}
    /\ UNCHANGED <<pc, call, asked, listed, matched, replies, acc, verdict, streamed,
                   result, err, report>>

UnregisterBareFalseModule(function) ==
    /\ bareFalse' = bareFalse \ {function}
    /\ listed' = listed \ {function}
    /\ UNCHANGED <<pc, call, asked, matched, replies, acc, verdict, streamed,
                   result, err, report>>

------------------------------------------------------------------------------
(***************************************************************************)
(* The call, up to the message for Salt.                                   *)
(***************************************************************************)
TransportReturns(r, e) ==
    /\ pc' = "returned" /\ result' = r /\ err' = e

\* The Client validates what Run and Start are given; Resolve goes straight to
\* the transport, as a test.ping of the target.
Submit(c) ==
    /\ pc = "idle"
    /\ call' = c
    /\ listed' = bareFalse
    /\ IF c.op # "resolve" /\ ~Valid(c.request)
       THEN TransportReturns(NoResult, "invalid")
       ELSE pc' = "accepted" /\ UNCHANGED <<result, err>>
    /\ UNCHANGED <<asked, bareFalse, matched, replies, acc, verdict, streamed, report>>

\* The helper starts no job in batches.
Capable ==
    IF call.transport = "rest" THEN SupportsOptions(RestCapabilities(call.mode), Request)
    ELSE /\ SupportsOptions(PythonCapabilities, Request)
         /\ UsesBatch(Request) => call.op # "start"

\* REST's Resolve goes to runDirect, which validates nothing but a nil target.
RefusedAs ==
    IF call.transport = "rest" /\ call.op = "resolve"
    THEN IF Request.target.type = "nil" THEN "invalid" ELSE "none"
    ELSE IF ~Valid(Request) THEN "invalid"
    ELSE IF ~Capable \/ (call.op = "start" /\ ~IsLocal) THEN "unsupported"
    ELSE IF call.transport = "python" /\ Request.kind = "lowstate" THEN "unsupported"
    ELSE "none"

Refuse ==
    /\ pc = "accepted" /\ RefusedAs # "none"
    /\ TransportReturns(NoResult, RefusedAs)
    /\ UNCHANGED <<call, asked, bareFalse, listed, matched, replies, acc, verdict, streamed, report>>

ShouldRunLocalAsync ==
    \/ call.mode = "async"
    \/ call.mode = "auto" /\ call.observed

ViaJob == call.transport = "rest" /\ call.op = "run" /\ IsLocal /\ ShouldRunLocalAsync

AsyncLocalPayload == << [LowstatePayload(Request)[1] EXCEPT !.client = "local_async"] >>

\* start_local: an older Salt is called again without the timeout, and full
\* returns are not asked for.
BridgeStartPayload(older) ==
    << [BridgePayload(Request, TRUE)[1] EXCEPT
          !.client = "local_async", !.timeout = IF older THEN 0 ELSE @] >>

\* A call of Start ends here, with a job or an error.
StartJob(older) ==
    /\ pc = "accepted" /\ RefusedAs = "none" /\ (call.op = "start" \/ ViaJob)
    /\ pc' = "job"
    /\ asked' = IF call.transport = "rest" THEN AsyncLocalPayload ELSE BridgeStartPayload(older)
    /\ UNCHANGED <<call, bareFalse, listed, matched, replies, acc, verdict, streamed,
                   result, err, report>>

PostDirect ==
    /\ pc = "accepted" /\ RefusedAs = "none" /\ call.transport = "rest"
    /\ call.op # "start" /\ ~ViaJob
    /\ pc' = "sent"
    /\ asked' = LowstatePayload(Request)
    /\ UNCHANGED <<call, bareFalse, listed, matched, replies, acc, verdict, streamed,
                   result, err, report>>

StartHelper(older) ==
    /\ pc = "accepted" /\ RefusedAs = "none" /\ call.transport = "python"
    /\ call.op # "start"
    /\ pc' = "sent"
    /\ asked' = BridgePayload(Request, older)
    /\ UNCHANGED <<call, bareFalse, listed, matched, replies, acc, verdict, streamed,
                   result, err, report>>

------------------------------------------------------------------------------
(***************************************************************************)
(* Salt's side.  Only the minions a target can match answer, and a minion  *)
(* answers with the one job's ID.                                          *)
(***************************************************************************)
TheJid == CHOOSE j \in Jids : TRUE

EntryOf(reply, v) ==
    [jid |-> IF "jid" \in reply.fields THEN TheJid ELSE NoJid,
     value |-> IF v.failure = NoFailure /\ v.retcode = 0 THEN "ok" ELSE "fail"]

RestVerdictOf(reply) == RestVerdict(bareFalse, Request.function, Request.fullReturn, reply)

\* Variant: only the minions that answered are expected.
ExpectAnswered(answered) == answered

\* applyExplicitTargetExpected: a list is expected in full, any other target
\* only as far as it answered.
RestExpected(answered) ==
    IF Request.target.type = "list" /\ Request.target.names # {}
    THEN Request.target.names ELSE answered

(***************************************************************************)
(* The one response to a direct call: an object keyed by minion.           *)
(***************************************************************************)
NormalizeLocal(answered) ==
    /\ pc = "sent" /\ call.transport = "rest" /\ IsLocal
    /\ answered \subseteq Request.target.names
    /\ matched' = answered
    /\ \E given \in [answered -> Replies] :
         /\ replies' = [m \in Minions |-> IF m \in answered THEN given[m] ELSE NoReply]
         /\ verdict' = [m \in Minions |-> IF m \in answered THEN RestVerdictOf(given[m])
                                          ELSE NoVerdict]
         /\ LET entries == [m \in Minions |-> IF m \in answered
                              THEN EntryOf(given[m], RestVerdictOf(given[m])) ELSE NoReturn]
                jids == {entries[m].jid : m \in answered} \ {NoJid}
            IN  TransportReturns([EmptyResult EXCEPT
                    !.jid      = IF Cardinality(jids) = 1 THEN TheJid ELSE NoJid,
                    !.expected = RestExpected(answered),
                    !.byMinion = entries,
                    !.missing  = RestExpected(answered) \ answered], "none")
    /\ UNCHANGED <<call, asked, bareFalse, listed, acc, streamed, report>>

\* A runner's or lowstate's payload.
NormalizeScalar(payload) ==
    /\ pc = "sent" /\ call.transport = "rest" /\ ~IsLocal
    /\ TransportReturns([EmptyResult EXCEPT !.failure = ScalarFailure(payload) # NoFailure], "none")
    /\ UNCHANGED <<call, asked, bareFalse, listed, matched, replies, acc, verdict, streamed, report>>

(***************************************************************************)
(* An HTTP error whose body is a runner's error envelope becomes a failed  *)
(* result, provided the envelope survives the 2048-byte snippet.           *)
(***************************************************************************)
PostFails(fits, e) ==
    /\ pc = "sent" /\ call.transport = "rest" /\ e \in {"transport", "protocol"}
    /\ IF e = "protocol" /\ fits /\ Request.kind = "runner"
       THEN TransportReturns([EmptyResult EXCEPT !.failure = TRUE], "none")
       ELSE TransportReturns(NoResult, e)
    /\ UNCHANGED <<call, asked, bareFalse, listed, matched, replies, acc, verdict, streamed, report>>

\* run_runner answers a KeyError with an error map of its own.
RunnerPayload(payload, keyError) == IF keyError THEN << {"error"} >> ELSE payload

NormalizeBridgeScalar(payload) ==
    /\ pc = "sent" /\ call.transport = "python" /\ ~IsLocal
    /\ TransportReturns([EmptyResult EXCEPT !.failure = ScalarFailure(payload) # NoFailure], "none")
    /\ UNCHANGED <<call, asked, bareFalse, listed, matched, replies, acc, verdict, streamed, report>>

------------------------------------------------------------------------------
(***************************************************************************)
(* The helper's frames for a local run, in the order it writes them.       *)
(***************************************************************************)
\* expected_minions.
ExpectedMinions(minions) ==
    IF Request.target.type = "list" THEN Request.target.names ELSE minions

MinionsFrame(minions) ==
    /\ pc = "sent" /\ call.transport = "python" /\ IsLocal
    /\ minions \subseteq Request.target.names
    /\ pc' = "gathered"
    /\ matched' = minions
    /\ acc' = SetExpected(acc, NoJid, ExpectedMinions(minions))
    /\ UNCHANGED <<call, asked, bareFalse, listed, replies, verdict, streamed,
                   result, err, report>>

ReturnFrame(m, reply) ==
    LET v == PythonVerdict(bareFalse, Request.function, reply) IN
    /\ pc = "gathered"
    /\ m \in matched /\ replies[m] = NoReply
    /\ replies' = [replies EXCEPT ![m] = reply]
    /\ verdict' = [verdict EXCEPT ![m] = v]
    /\ acc' = AddMinion(acc, m, EntryOf(reply, v))
    /\ UNCHANGED <<pc, call, asked, bareFalse, listed, matched, streamed,
                   result, err, report>>

\* The done frame, end of output, and a clean exit.
HelperExits ==
    /\ pc = "gathered"
    /\ TransportReturns(Result(acc), "none")
    /\ UNCHANGED <<call, asked, bareFalse, listed, matched, replies, acc, verdict, streamed, report>>

(***************************************************************************)
(* An error frame, a line that is no frame, a helper that dies or is       *)
(* killed because the context ended: the returns already folded are        *)
(* dropped, and an ended context is reported as a transport error.         *)
(***************************************************************************)
HelperFails(e) ==
    /\ pc \in {"sent", "gathered"} /\ call.transport = "python"
    /\ e \in {"transport", "protocol", "unsupported"}
    /\ TransportReturns(NoResult, e)
    /\ UNCHANGED <<call, asked, bareFalse, listed, matched, replies, acc, verdict, streamed, report>>

------------------------------------------------------------------------------
(***************************************************************************)
(* A Run that is a job, over REST: runLocalAsync starts it and waits, its  *)
(* only waiter.                                                            *)
(***************************************************************************)
StartFails(e) ==
    /\ pc = "job" /\ call.op = "run" /\ e \in {"transport", "protocol"}
    /\ TransportReturns(NoResult, e)
    /\ UNCHANGED <<call, asked, bareFalse, listed, matched, replies, acc, verdict, streamed, report>>

\* The minions the caller is owed an account of.
OwedOf(reached) == IF Request.target.type = "list" THEN Request.target.names ELSE reached
Owed == OwedOf(matched)

(***************************************************************************)
(* newLocalJob, and the start of its wait: the reply may name the minions  *)
(* Salt reached.  A list is expected in full, any other target only if     *)
(* they are named; if Salt reached none the wait is over.                  *)
(***************************************************************************)
StartReply(named, minions) ==
    /\ pc = "job" /\ call.op = "run"
    /\ minions \subseteq Request.target.names
    /\ matched' = IF named THEN minions
                  ELSE IF Request.target.type = "list" THEN Request.target.names ELSE {}
    /\ IF Request.target.type # "list" /\ named /\ minions = {}
       THEN /\ TransportReturns([EmptyResult EXCEPT !.jid = TheJid, !.failure = TRUE], "execution")
            /\ UNCHANGED acc
       ELSE /\ pc' = "waiting"
            /\ acc' = IF OwedOf(matched') = {} THEN SetJID(acc, TheJid)
                      ELSE SetExpected(acc, TheJid, OwedOf(matched'))
            /\ UNCHANGED <<result, err>>
    /\ UNCHANGED <<call, asked, bareFalse, listed, replies, verdict, streamed, report>>

\* The minions of the collection, if it is known, and the minions that can answer.
CollectionKnown == Request.target.type = "list" \/ matched # {}
Reached         == IF CollectionKnown THEN matched ELSE Request.target.names

\* Every return of a job is stamped with its ID.
JobEntry(reply, v) == [EntryOf(reply, v) EXCEPT !.jid = TheJid]

\* A return event, normalized without the function.
StreamVerdictOf(reply) == NormalizeMinionReturn(bareFalse, NoFunction, EventMinionReturn(reply))

\* Salt's event bus and job cache carry the same return.
EventReturn(m, reply) ==
    /\ pc = "waiting" /\ call.observed
    /\ m \in Reached /\ replies[m] \in {NoReply, reply}
    /\ replies'  = [replies EXCEPT ![m] = reply]
    /\ verdict'  = [verdict EXCEPT ![m] = StreamVerdictOf(reply)]
    /\ streamed' = streamed \cup {m}
    /\ acc'      = AddMinion(acc, m, JobEntry(reply, StreamVerdictOf(reply)))
    /\ UNCHANGED <<pc, call, asked, bareFalse, listed, matched, result, err, report>>

Unheard(minions) == {m \in minions : replies[m] = NoReply}

LookupComplete(r) ==
    IF CollectionKnown THEN matched \subseteq Returned(r) ELSE Returned(r) # {}

(***************************************************************************)
(* A lookup brings the returns in Salt's job cache; those of its earlier   *)
(* lookups are among them, those streamed need not be.                     *)
(***************************************************************************)
Lookup(answered) ==
    /\ pc = "waiting"
    /\ answered \subseteq Reached
    /\ {m \in Minions \ streamed : replies[m] # NoReply} \subseteq answered
    /\ \E given \in [Unheard(answered) -> Replies] :
         replies' = [m \in Minions |-> IF m \in Unheard(answered) THEN given[m] ELSE replies[m]]
    /\ verdict' = [m \in Minions |-> IF m \in answered THEN RestVerdictOf(replies'[m])
                                     ELSE verdict[m]]
    /\ streamed' = streamed \ answered
    /\ acc' = MergeResult(acc,
                [jid      |-> TheJid,
                 expected |-> IF Owed = {} THEN answered ELSE Owed,
                 byMinion |-> [m \in Minions |-> IF m \in answered
                                 THEN JobEntry(replies'[m], verdict'[m]) ELSE NoReturn],
                 missing  |-> Owed \ answered,
                 failure  |-> FALSE])
    /\ IF LookupComplete(Result(acc'))
       THEN TransportReturns(Result(acc'), IF OK(Result(acc')) THEN "none" ELSE "execution")
       ELSE UNCHANGED <<pc, result, err>>
    /\ UNCHANGED <<call, asked, bareFalse, listed, matched, report>>

\* A lookup fails, or the context ends: what has been collected is returned too.
WaitEnds(e) ==
    /\ pc = "waiting" /\ e \in {"transport", "protocol", "execution"}
    /\ TransportReturns(Result(acc), e)
    /\ UNCHANGED <<call, asked, bareFalse, listed, matched, replies, acc, verdict, streamed, report>>

------------------------------------------------------------------------------
(***************************************************************************)
(* Back in the caller's process.  For a local Run, package states decodes  *)
(* what the result, or the execution error's, holds.                       *)
(***************************************************************************)
RunError == IF err = "none" /\ ~OK(result) THEN "execution" ELSE err

ResponsiveMinions == {m \in Returned(result) : verdict[m].failure = NoFailure}

Failures(r) == {m \in Returned(r) : r.byMinion[m].value = "fail"} \cup r.missing

\* states.Run: the minions decoded, those that failed, and whether err is nil.
StatesRun(r, e) ==
    IF r = NoResult \/ ~(IsLocal /\ IsStateFunction(Request.function))
    THEN [decoded |-> {}, failed |-> {}, ok |-> FALSE]
    ELSE LET decoded == {m \in Returned(r) : Decodes(verdict[m].body)} IN
         [decoded |-> decoded, failed |-> Failures(r),
          ok |-> e = "none" /\ decoded = Returned(r)]

BuildOutput(r) ==
    IF r = NoResult THEN [ok |-> FALSE, returned |-> {}, missing |-> {}, failed |-> {}]
    ELSE [ok |-> OK(r), returned |-> Returned(r), missing |-> r.missing, failed |-> Failures(r)]

\* printResult rejects an unknown output format after the work is done.
ExitStatus(e) == IF e # "none" \/ call.output = "unknown" THEN 1 ELSE 0

Conclude ==
    /\ pc = "returned"
    /\ pc' = "done"
    /\ err' = IF call.op = "run" THEN RunError ELSE err
    /\ report' = [exit     |-> ExitStatus(err'),
                  output   |-> BuildOutput(result),
                  resolved |-> IF err = "none" THEN ResponsiveMinions ELSE {},
                  states   |-> StatesRun(result, err')]
    /\ UNCHANGED <<call, asked, bareFalse, listed, matched, replies, acc, verdict, streamed, result>>

Finished ==
    /\ pc = "done" \/ (pc = "job" /\ call.op = "start")
    /\ UNCHANGED vars

Next ==
    \/ \E f \in Registrable : RegisterBareFalseModule(f) \/ UnregisterBareFalseModule(f)
    \/ \E c \in Calls : Submit(c)
    \/ Refuse \/ PostDirect
    \/ \E older \in BOOLEAN : StartJob(older) \/ StartHelper(older)
    \/ \E answered \in SUBSET Minions : NormalizeLocal(answered)
    \/ \E payload \in Payloads : NormalizeScalar(payload)
    \/ \E payload \in Payloads, keyError \in BOOLEAN :
          NormalizeBridgeScalar(RunnerPayload(payload, keyError))
    \/ \E fits \in BOOLEAN, e \in Error : PostFails(fits, e)
    \/ \E minions \in SUBSET Minions : MinionsFrame(minions)
    \/ \E m \in Minions, reply \in Replies : ReturnFrame(m, reply)
    \/ HelperExits
    \/ \E e \in Error : HelperFails(e)
    \/ \E e \in Error : StartFails(e) \/ WaitEnds(e)
    \/ \E named \in BOOLEAN, minions \in SUBSET Minions : StartReply(named, minions)
    \/ \E m \in Minions, reply \in Replies : EventReturn(m, reply)
    \/ \E answered \in SUBSET Minions : Lookup(answered)
    \/ Conclude
    \/ Finished

Spec == Init /\ [][Next]_vars

------------------------------------------------------------------------------
(***************************************************************************)
(* Properties.                                                             *)
(***************************************************************************)
\* What brought the return of a minion.
Via(m) == IF m \in streamed THEN "event" ELSE call.transport

\* The minion answered, and an answer in one of Salt's own shapes shows no sign of
\* failure but those that Unheeded names.
Succeeded(m) ==
    /\ replies[m] # NoReply
    /\ SaysNoFailure(Via(m), listed, Request.function, replies[m])

\* When `brine local` exits with 0, through a job, one response or the helper, every
\* minion it was to reach has answered, and no answer in one of Salt's two shapes, a
\* bare return or an envelope, shows a sign of failure other than the three kinds the
\* code does not heed (Unheeded): no other sign is lost on the way through normalizer,
\* accumulator, job, Client and printResult.
ExitZeroMeansEveryMinionSucceeded ==
    pc = "done" /\ call.op = "run" /\ IsLocal /\ report.exit = 0
        => /\ report.output.ok /\ report.output.failed = {}
           /\ \A m \in Owed \cup Returned(result) : Succeeded(m)

\* Nobody is lost or made up.  A local result, failed or not, has every minion of a
\* list target (and every minion the helper gathered or Salt named for a job) either
\* under ByMinion or under Missing; and Resolve lists nobody but minions of the target that
\* answered the ping, and none whose answer was Salt's false for one that did not.
EveryTargetedMinionIsAccountedFor ==
    /\ result # NoResult /\ IsLocal =>
         /\ Owed \subseteq Returned(result) \cup result.missing
         /\ Returned(result) \cap result.missing = {}
    /\ pc = "done" /\ call.op = "resolve" =>
         /\ report.resolved \subseteq Request.target.names
         /\ \A m \in report.resolved : Succeeded(m)

\* states.Run, a Run, returns a nil error only if every minion owed an account was
\* decoded and no state chunk of any minion failed, but for a minion whose return came
\* by an event and was not in the job's lookups: its retcode alone was looked at.
StatesRunTellsAll ==
    pc = "done" /\ call.op = "run" /\ report.states.ok =>
        \A m \in Owed : /\ m \in report.states.decoded
                        /\ m \notin streamed => StateReturnOK(verdict[m].body)

\* A malformed state return is always classified as failed, whatever retcode or
\* success flag came with it, so MalformedStateRetryPredicate selects it; an event's
\* is only when a lookup brings it too.
MalformedStateIsRetried ==
    \A m \in Minions \ streamed :
        verdict[m] # NoVerdict /\ IsStateFunction(Request.function)
            /\ IsMalformedState(verdict[m].body)
        => MalformedStateRetryPredicate(Request.function, verdict[m])

Covers(seconds, duration) ==
    duration <= MaxDuration - Second =>
        /\ seconds * Second >= duration
        /\ seconds * Second < duration + Second

\* What a validated Run or Start asks of Salt is what the caller requested: function and
\* target, the same batch over both transports though they read its two fields
\* in opposite orders, and a module timeout that is never shorter (the Python
\* helper starts a job without one when Salt refuses the argument).
SaltIsAskedWhatWasRequested ==
    asked # << >> /\ call.op # "resolve" /\ Request.kind # "lowstate" =>
        /\ asked[1].function = Request.function /\ asked[1].target = Request.target
        /\ IsLocal =>
            /\ Request.batch.count > 0 => asked[1].batch = [count |-> Request.batch.count, percent |-> 0]
            /\ Request.batch.percent > 0 => asked[1].batch = [count |-> 0, percent |-> Request.batch.percent]
            /\ (call.transport = "python" /\ call.op = "start" /\ asked[1].timeout = 0)
               \/ Covers(asked[1].timeout, Request.moduleTimeout)
        /\ call.transport = "rest" => Covers(asked[1].gather, Request.gatherTimeout)
==============================================================================
