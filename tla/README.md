# A TLA+ model of Brine

Brine is a Go library that runs SaltStack work through interchangeable
transports.  This directory holds TLA+ modules of its stateful parts, TLC
configurations that check them on small instances, and TLAPS proofs, for every
instance, of what matters most about them: the asynchronous jobs of both
transports, a call from the request to the exit status, retries, logins.

Contents: [the system](#the-system), [modules](#modules), [runs](#runs),
[proofs](#proofs), [disagreements with the documentation](#disagreements-with-the-documentation),
[what is not modelled](#what-is-not-modelled), [what is left](#what-is-left).

## The system

| part | source | state | operations | what is hard about it |
| --- | --- | --- | --- | --- |
| REST job | `transports/rest/job.go` | mutex, `waiting`, `done`, `result`, `err`; per leader an accumulator, a context with a timeout, a stream goroutine and a bounded channel | `Wait` (leader and followers), the poll loop, `jobs.lookup_jid`, the return-event goroutine | any number of callers; the poll runs without the lock; returns arrive by lookup and by event, in any order; a timeout and a caller's deadline look the same |
| return accumulator | `transportkit/accumulator.go`, `result.go` | job ID, job IDs seen, expected, returns by minion, minions announced | `SetJID`, `SetExpected`, `AddMinion`, `MergeResult`, `Complete`, `Result` | the same minion may be added several times, by different sources, before or after the expected set is known |
| REST authentication | `transports/rest/auth.go`, `rest.go`, `events.go` | token, expiry, singleflight group | `Token`, `InvalidateToken`, the retry after a 401 | concurrent requests share logins; an invalidation forgets the login in flight |
| transport info | `transports/rest/rest.go`, `transports/python/python.go` | cached version, over REST a singleflight group | `Info` | a failed probe is not cached; racing callers share it over REST and probe each over Python |
| REST event stream | `transports/rest/events.go` | SSE connection, reader goroutine, bounded channel, `done` | `subscribe`, `Recv`, `Close` | Close against a blocked reader, a blocked `Recv` and an ending connection |
| retry middleware | `retry.go` | merged result, attempt, minions to retry | `WithRetry` | merging partial answers over several attempts |
| client | `client.go`, `events.go` | the call's outcome | `Run`, `Emit`, `MultiObserver` | handler and observers may panic; contexts end at any time |
| async observer | `events.go` | bounded queue, `done`, count of drops, background goroutine | `OnEvent`, `Close`, `Dropped` | several emitters, `Close` in the middle of a delivery |
| mock job | `transports/mock/mock.go` | mutex, `done` channel, returns | `Return`, `Close`, `Wait` | `Close` does not take the mutex |
| Python job | `transports/python/python.go`, `brine_salt_bridge.py` | mutex, `waiting`, `done`, `result`, `err`; a helper process with its clock and the minions it has seen; the pipe between | `Wait`, `invokeWait`, `wait_local`, the frames | the process may crash, hang, be killed in the middle of a line or write more than the scanner takes |
| runs | `transports/rest/rest.go`, `normalize.go`, `transports/python/python.go`, `client.go`, `states/run.go`, `cmd/brine/main.go` | a call on its way; the registry of bare-false modules | `Run`, `Start`, `Resolve`, `states.Run`, the command line | two transports must conclude the same from what Salt says in several shapes |
| pure parts | `request.go`, `target.go`, `transportkit/classify.go`, `minion.go`, `states/states.go` | none | builders, validation, classification, envelopes, decoding | the order in which signs of failure are heeded; zero, both and too much |

How they interact: `Client.Run` calls a handler, the transport's `Run` wrapped in
middleware such as `WithRetry`; the handler puts events into the emitter of its
context, which hands them to the observers in order, an `AsyncObserver` among
them perhaps.  `Client.Start` returns a job; the job's `Wait` posts lookups, and
so does `Info` with its probes, through `postBody`, which takes its token from
`EAuth`; over Python both start a helper process.  With an emitter in its context, the REST `Wait` also opens the event stream.
An accumulator collects what lookups, events and frames bring and turns it into the
`Result` and into progress events.  A reply becomes success or failure by the
classifiers on its way into the accumulator; `Run` turns a result that is not OK
into an error, and `states.Run` and the command line judge by both.

What makes each part correct, and hard to test, is listed under `hazards` in
`PROJECT.json`, at the line where it bites and with the properties that cover it.

## Modules

| module | models | composition |
| --- | --- | --- |
| `Accumulator` | the accumulator, as operators on a record | used by `LocalJob`, `PythonJob`, `TransportRun` |
| `WaitContract` | what a job promises to callers of `Wait`, abstractly | implemented by `LocalJob` and by `PythonJob` |
| `LocalJob` | the REST job | extends `Accumulator`, instantiates `WaitContract` |
| `PythonJob` | the Python job and its helper process | extends `Accumulator`, instantiates `WaitContract` |
| `Returns` | classification and normalisation of returns, both envelope detections, the decoding of state returns | used by `TransportRun` |
| `Requests` | requests, their validation, capabilities, payloads | used by `TransportRun` |
| `TransportRun` | one `Run`, `Start` or `Resolve` over either transport, up to `states.Run` and the exit status | extends `Accumulator`, `Returns`, `Requests` |
| `RestAuth` | token cache, coalesced login, retry after a 401 | |
| `InfoProbe` | `Info` of both transports | |
| `EventStream` | reader, channel, `Recv`, `Close` | |
| `Retry` | `WithRetry` | |
| `ClientRun` | `Run`, its emitter and `MultiObserver`, over an open handler | |
| `RetriedRun` | `Run` through the retry middleware | extends `ClientRun`, instantiates `Retry` |
| `AsyncObserver` | the bounded background observer | |
| `AsyncJob` | the mock transport's scriptable job | |
| `MC*` | symmetry, small requests and replies for TLC | |
| `*Proofs` | theorems about the module of that name; `TransportRunProofs` also about `Returns`, `RetriedRunProofs` about `ClientRun`; `RestTransportProofs` about `RestAuth`, `InfoProbe` and `EventStream` | |

Operators whose comment begins with *Variant* are plausible bugs.  No action uses
them.  `PROJECT.json` pairs each property with one that breaks it (`mutants`).

### LocalJob

One instance is one job.  `Waits` are calls of `Wait`: each member is one call,
by any goroutine, so that a goroutine that calls `Wait` again is another member.

| state | code |
| --- | --- |
| `job` | what `newLocalJob` derives: the expected set (from a list target, or else from the start reply) and the collection (from the start reply, or else the expected set), each known or not |
| `waiting`, `done`, `final` | `job.waiting`, `job.done`, `job.result` with `job.err` |
| `pc`, `answer` | where a call is; its `waitCall`, and what it returned |
| `ctx` | how the context that governs a call ended: cancelled, the caller's deadline, the timeout that `waitContext` adds |
| `acc`, `reply` | the leader's accumulator; the job cache as the server read it for the lookup in flight |
| `rx`, `inbox`, `returns` | the goroutine of `startReturnEventStream`, events its stream has received, its channel |
| `cache`, `fired` | Salt: the job cache, the returns published |

`ReturnCached`, `Follow` and `Lead` are the three ways out of the first locked
section of `Wait`; `Publish` is the second.  Between them the leader runs `wait`
without the lock: `StartWait`, `SendLookup`, `LookupReturns`, `LookupErrors`,
`LookupAborted`, `PollTimerFires`, `PollReceives`, `PollContextEnds`.  A lookup
takes three steps (sent, read by Salt, returned), so that a reply can be stale when
it is merged.  The `Rx` actions are the goroutine.  A return is abstracted to how it was classified
(`ok`, `fail`); an event may say something else of a minion than the job cache does.
The error of an outcome keeps what callers can tell apart: nil, an
`ExecutionError` with or without a context error inside, the lookup's error, the
follower's own context error.

### PythonJob

`waiting`, `final`, `pc`, `answer` and `acc` are as in `LocalJob`, and so are the two locked
sections of `Wait`.  Between them the leader starts a process and reads its frames:
`StartHelper`, `StartFails`, `ReadFrame`, `ReadFailure`, `ReadOverlong`,
`HelperSucceeded`, `HelperFailed`; each way out of `invokeWait` is a use of
`LeaveWith`.  `helper` is the process, with the minions it has seen, those it has still to
write and whether its own deadline has passed; `stdout` is the pipe.  `LookupAnswered` to
`HelperPolls` are the loop of `wait_local`.  A process dies by itself
(`HelperCrashes`) or because its context ended (`ContextKills`), with or without a
torn line; frames in the pipe are still read.  `expected` and `reachable` are
independent, because `start_local` gathers minions before it publishes the job.

### TransportRun, Returns, Requests

A call is a record: transport, run mode, operation, output format, request.
`Submit` is the client's part, `Refuse` all the ways in which a transport declines,
`StartJob`, `PostDirect` and `StartHelper` what is sent to Salt (`asked`).  Over REST one
`NormalizeLocal` or `NormalizeScalar` ends the call; over Python `MinionsFrame`,
`ReturnFrame` and `HelperExits` fold frames into the accumulator.  `PostFails` and
`HelperFails` are the error paths.  `Conclude` is the way back: the client's
`ExecutionError`, `states.Run`, `buildOutput` and the exit status.  A `Start` that
becomes a job ends in `job`: the rest is `LocalJob`'s, or `PythonJob`'s.

A `Run` that becomes a job, as every REST run of `brine local` does (`main.go:556` leaves the
run mode at its default, `LocalRunModeAsync`), is followed to its exit status.  It has one waiter, so that the steps
are those of the loop alone: `StartFails` and `StartReply`, `EventReturn` for a return event
that is drained, `Lookup` for one poll, `WaitEnds` for a failed lookup or an ended context.
`streamed` holds the minions whose stored return came by an event and was in no lookup since.  Timers,
goroutines, the channel and other callers are left to `LocalJob`.

`Returns` abstracts JSON to the shapes the classifiers tell apart: scalars, maps as the set
of the kinds of their values, an envelope as the set of its fields.  What a reply says by itself
(`Signs`) is stated apart from the classifiers, for Salt's own two shapes: a bare return, and an
envelope of `ret` and metadata.  Of any other object nobody can tell data from envelope.
`Unheeded` names the signs the code does not heed, which the properties exempt:

- a failed state chunk beside a value that is no chunk (`classify.go:211-215`): the map
  is no state return then, and `brine local` may exit with 0; `states.Run` does refuse it;
- over Python, a non-zero retcode beside state chunks that all succeeded, by design
  (`PreferStateReturn`);
- anything in the body of a return event: `minionReturn` (`events.go:299-308`) passes no function
  on, so that only `retcode`, `success` and `error` count.  It matters if the job ends before a
  lookup brings the same return.

The ghost `listed` holds the functions that were in the registry of bare-false modules all
through the call, since the registry may change meanwhile.  A REST reply is normalised in
one step, with one look at the registry; the code looks once for each minion.

### RestAuth

Each of `Requests` is one request: `Start`, then the token (`TokenCached`,
`TokenMisses`, `JoinLogin`, `LeadLogin`, `Recheck`, `CacheToken`, `LoginReturns`,
`FollowerReturns`, `LoginFails`), then the post (`SaltAccepts`, `SaltRejects`,
`PostFails`) and, after a 401, `Invalidate` and everything once more, or `Refuse`.
`subscribe` takes the same steps as `postBody`.  Looking at the cache and asking
the group are two steps, because no lock spans them.  A login call is identified by
its leader and the leader's attempt, and the group maps to its leader, so that
a forgotten call lives on beside its successor.  Tokens are numbers; `valid` is
the set Salt accepts.  Expiry is an event, not a clock.

### InfoProbe

Over REST a call looks at the cache, then joins or leads a probe; the leader looks again,
probes and stores a version if it found one.  `LeaveGroup` is the end of the call inside
`singleflight`: its key goes, and leader and followers hold what the probe found.  Each of
them returns in a step of its own (`Return`), without another look at the cache, so that a
caller of a failed probe may be answered without a version after a later probe stored one.
The ghost `late` says whether a version was cached when a call began, or asked the group.
Over Python each call that misses starts a helper of its own.

### EventStream

`wire` holds what Salt has sent, and each frame is either wanted by the stream's
filter or not.  The reader scans, sends into the bounded channel or stops when `s.done` is closed,
and when the connection ends or breaks it reports that, unless the stream was closed.
`Close` closes `done` and cancels the request in two steps.  A `Recv` selects on its
own context and the channel.

### Retry, ClientRun, RetriedRun

`Retry` follows one call of a handler wrapped in `WithRetry`.  The wrapped handler
may return anything for the minions it is asked about: success, failures that are
or are not selected for retry, no return, a failure of the whole, an error.
`ClientRun` follows one `Run`: broadcasting an event takes one step for each
observer, each of which may panic, and `recoverRun` then emits the final event.
`RetriedRun` puts the first into the second: they share the context, the
middleware's events wait in `backlog` and are broadcast one after the other before
it goes on, the transport announces returns of its own, and a panic of an observer
unwinds the middleware where it stands.

### AsyncObserver, AsyncJob

`AsyncObserver` has one step for each of the two selects of `OnEvent`, for taking
an event, for delivering it and for each half of `Close`.  `AsyncJob` splits
`Return` at the points where `Close`, which does not take the mutex, can come between.

## Runs

| run | instance | checks |
| --- | --- | --- |
| `local_job_waits` | 2 calls, 1 minion, no timeout, Salt answers lookups | one leader at a time (`SingleLeader`); refinement of `WaitContract` (`WaitIsIdempotent`); once the cache holds the collection, leader and follower return (`CollectedWaitReturns`) |
| `local_job_returns` | 1 call, 2 minions, timeout, streamed or polled, returns that differ | what the job retains, with or without an error, was made of a complete collection, an empty target or a passed timeout: nothing settles it early, nor does a cancelled context or a failed lookup (`OnlyCompletionSettles`); a nil error means that every minion asked for reported success (`SuccessIsReported`); answers hold Salt's returns and miss exactly the rest (`AnswersComeFromSalt`); what was announced is what is returned (`ProgressMatchesResult`); the last lookup overrides the stream (`LookupReconciles`) |
| `local_job_timeout` | 1 call, 2 minions, timeout, streamed or polled | the wait returns although Salt may never answer (`EveryWaitReturns`); the stream goroutine ends (`ReceiverStops`) |
| `local_job_caller_deadline` | 1 call, 1 minion, timeout | refuted: see [disagreements](#disagreements-with-the-documentation) |
| `python_job` | 2 calls, 2 minions of which one may fail, with and without timeout | one leader and one helper (`OneHelper`); the job settles on what Salt holds, and on nothing a dying helper leaves (`SettlesOnWhatSaltHolds`); refinement of `WaitContract`, where a complete outcome is given without being retained only if the leader's context had ended (`WaitIsIdempotent`); a call whose context ends returns although the helper hangs, and so do its followers (`EndedWaitReturns`); while Salt answers, a call returns at the deadline or when everybody has returned (`EveryWaitReturns`) |
| `transport_run` | 2 minions, some 130 calls, 36 replies | exit status 0 means that every minion owed an account answered and showed no sign of failure that the code heeds (`ExitZeroMeansEveryMinionSucceeded`); nobody is lost or made up (`EveryTargetedMinionIsAccountedFor`); `states.Run` succeeds only with every state decoded and none failed (`StatesRunTellsAll`) and a malformed state return can be retried (`MalformedStateIsRetried`), but for returns that came by an event alone; Salt is asked what was requested (`SaltIsAskedWhatWasRequested`) |
| `retried_run` | 2 observers, 1 panic, 2 minions, 3 attempts | the outcome is the one the latest answers deserve (`OutcomeMatchesLatest`); exhaustion is announced after the last attempt only (`ExhaustedAfterAllAttempts`); successes are kept (`SuccessIsKept`); every observer hears a whole lifecycle that ends as the call did (`LifecycleIsComplete`) and the retries as they were (`RetriesAreTold`); once an observer was given an event whose context had ended, every later terminal event has a live one, whenever the context ends before that event goes out (`TerminalOutlivesContext`) |
| `rest_auth` | 3 requests, one revocation, one expiry, one failing call | logins are coalesced, one for each cause, and a request is sent at most twice (`OneLoginPerCause`); nobody waits for a login that will not be answered (`NoOrphans`) |
| `info_probe` | 3 callers of 2 calls each, either transport | over REST no probe beside another, none after a success (`OneProbeAtATime`); a caller that began, or asked the group, when a version was cached is told one (`LateCallersAreTold`) |
| `event_stream` | 4 frames, any of them wanted, a channel of 2 | what `Recv` returns is what was sent, in order and without gaps, until the stream is closed (`NothingLost`); the consumer learns how the stream ended, and closing never looks like a failure (`EndIsTold`); after `Close` the reader and a blocked `Recv` end (`ReaderEnds`, `CloseReleasesRecv`) |
| `async_observer` | 2 emitters of 3 events, 2 closers, a queue of 2 | order and accounting of events (`LossesAreCounted`); silence after `Close` (`SilentAfterClose`); `OnEvent` never blocks (`OnEventReturns`), `Close` returns if the wrapped observer does (`CloseReturns`) |
| `async_job` | 2 returners, a closer, a waiter, 3 minions of which 2 are expected | all released waits agree (`WaitsAgree`); a wait ends once the expected minions have returned (`WaitEnds`) |

`TypeOK` of `LocalJob`, `PythonJob`, `TransportRun`, `RestAuth` and `AsyncJob` is
proved, and no run needs to check it.  Deadlock is not checked where the program
stops by itself: a job whose calls have all returned, a request that was answered, a stream that was closed.
`async_job` checks it, since returners and waiters can always begin again, and so
does `transport_run`, where a finished call only stutters.

### Bounds, and why they are enough

- *Calls of Wait*: two, so that one leads while the other follows, comes after, or
  leads again after an interim outcome.  What a third could add, a second follower or a
  caller after two interim outcomes, the proofs cover: `SingleLeader`, `OneHelper` and
  both refinements hold for any number.  The run about the REST returns has one call, as only leaders collect.
- *Minions*: two, for partial results, for a list that names one Salt does not reach, and
  for two events against the channel's smallest capacity of one (no expected minion is known),
  where the goroutine blocks.  Each minion returns once to the job cache and
  once on the bus, as Salt's do, with values that may differ.
- *Lookups* are not bounded, by poll loop or helper: the loop is a cycle of the state graph.
- *Replies*: each body that a classifier tells apart, bare, in an envelope, in one with
  a retcode, and a few with `success`, `error` or a single field; with two minions every
  pair of them occurs.  *Calls*: every kind of request, target and option,
  valid and not, over both transports.  A second is four ticks and the largest
  duration thirty-one, so that rounding up wraps around for the longest timeout.
- *Requests*: three, for the leader of a login, its follower and the request that
  forgets it.  `MaxRevocations`, `MaxExpiries`, `MaxFailures` bound what Salt and
  the network do; one of each already combines with every step of the others.
- *Callers of Info*: three, of which two race and a third comes late; `MaxCalls`
  lets each come again after a failed probe.
- *Frames*: four against a channel of two, so that the channel is full while one is in
  the reader's hands and one is behind it.
- *Events*: six against a queue of two, with two emitters to race.
- *Attempts*: three, the first that has a retry between the first and the last.
- *Observers*: two, so that one hears before and one after the one that panics; one
  panic, and one event of the transport's own (`MaxReturned`).  A second panic, during the broadcast that reports the first, leaves `Run`
  and has no caller to be right for.

### Fairness

- Goroutines that can run do run: weak fairness of the leader's steps, of the stream
  goroutines, of followers and readers.  Go's scheduler is preemptive.
- Timers fire: the poll timer, the `JobWaitTimeout` deadline and the helper's own.
- The operating system runs a helper process and kills it when it is asked to.
- `local_job_timeout` and `EndedWaitReturns` trust nothing of Salt.  `local_job_waits` and
  `EveryWaitReturns` of `python_job` trust it to answer lookups: without a timeout nothing
  else ends a wait, as the code documents, and the helper looks at its deadline
  only after a lookup.
- Nobody trusts callers to cancel, events to arrive or `Recv` to be called.
- A `select` with several ready cases picks one at random.  `AsyncObserver`
  therefore assumes strong fairness of the case `<-o.done`: a goroutine that finds it ready
  again and again takes it in the end.  `OnEventReturns` does not assume that the wrapped
  observer returns; `CloseReturns` states that assumption itself.
- `AsyncJob` assumes strong fairness of steps that need the mutex; `sync.Mutex`
  hands over to a starving waiter.

## Proofs

`tlapm` checks all of them; they assume only the named assumptions of the modules
on their constants.  Every invariant and every action property that a passing run checks is
also a theorem, for every value of the constants, and so are the refinements.

In `LocalJobProofs`:

| theorem | states | argument |
| --- | --- | --- |
| `TypeCorrect` | `Spec => []TypeOK` | `TypeOK` is not inductive: a follower's answer is typed only if what it follows is a call, and a goroutine's send is typed only if it holds an event.  `Linked` says so, and `TypeOK /\ Linked` is inductive, with a lemma for each group of actions and lemmas for each accumulator method in `AccumulatorProofs` |
| `LeaderIsSingle` | `Spec => []SingleLeader` | inductive under `TypeOK`, as the two conjuncts need each other: a leader that publishes clears `waiting` because `waiting` is still its own, and only then may the job be done |
| `CompletionSettles` | `Spec => []OnlyCompletionSettles` | through `Settlement`: nothing is cached before the job is done; what is cached is terminal, and made of a complete collection, an empty target or a configured deadline (`MaySettle`); a terminal outcome about to be published is so too, because `LookupReturns` asks `LookupComplete` of the very result it returns; a terminal outcome that was returned is the one cached |
| `Idempotent` | `Spec => WaitIsIdempotent` | each step of the job is a step or a stutter of `WaitContract` under the refinement mapping in `LocalJob`; `Publish` maps to `Settle`, or `GiveUp`, because `SingleLeader` shows that the job is not done when a leader publishes, and `FollowerReturns` maps to `Replay`, or `GiveUp`, because `Settlement` shows that a terminal answer is the cached one |
| `AnswersAreSalts`, `SuccessIsSalts`, `ProgressIsResult` | `AnswersComeFromSalt`, `SuccessIsReported`, `ProgressMatchesResult`, always | through `Provenance`: a reply that has been read carries what the job cache holds (which never changes its mind), the events in the stream and in the channel carry what was published, so that what is added to an accumulator is Salt's; the accumulator has announced exactly the minions it holds and expects what the job expects; an outcome, interim, cached or returned, takes its result from there.  The lemmas on `AddMinion`, `MergeResult` and `ResultOf` in `AccumulatorProofs` do the rest |
| `LookupOverrules` | `Spec => LookupReconciles` | an action property: a poll that ends the wait has merged its reply last, and a merge overwrites |

The proofs of `LeaderIsSingle`, `CompletionSettles` and `Idempotent` split `Next` once (`NextSplit`): steps of Salt, of
contexts and of the stream goroutine leave calls alone, a polling step only moves
its leader towards `publish`, and the six actions of callers remain.

In `PythonJobProofs` one invariant, `Inv`, carries all four theorems, since each
part needs another: `TypeOK`, `Linked`, `OneHelper`, `Answered` (a call about to be answered
has an outcome), `Pipe` and `Settling`.  The refinement adds `Retained`.

| theorem | states | argument |
| --- | --- | --- |
| `TypeCorrect`, `HelperIsAlone` | `Spec => []TypeOK`, `Spec => []OneHelper` | parts of `Inv` |
| `SettledIsFaithful` | `Spec => []SettlesOnWhatSaltHolds` | `Pipe` says of a running wait that the accumulator, the frames in the pipe and the helper's memory agree with the job cache, that a minion the helper has seen is in the accumulator or in the pipe, and that a helper that is done has seen all expected minions, ran out of time or wrote an error; so an empty pipe and a clean exit leave in the accumulator what Salt holds.  `Settling` carries this over `publish` into what is retained |
| `Idempotent` | `Spec => WaitIsIdempotent` | step simulation of `WaitContract`, with `OneHelper` for `Publish`.  `Retained` says that a complete outcome that was given is the one retained, or its leader's context had ended, and that who is followed leads or has returned: an answered call's mark never changes, and `FollowerReturns` maps to `Replay` or `GiveUp` as the leader's answer was retained or lapsed |

`TransportRunProofs` begins with `Returns`, over all replies, without state: `RetcodeAgreesWithFailure` (a normalised
return has a failure exactly if its retcode is not 0, so that `OK`, `Failures` and
the retry predicate cannot disagree) and `TransportsAgree` (both transports judge a bare return, or an envelope
with a retcode, alike, except for the clean state return whose retcode the Python transport
overrules).  The lemma `NoSignIsLost` says that a reply whose verdict is no failure shows no
sign but the `Unheeded` ones of the way it came.

For `TransportRun` the invariant is `TypeOK`, `Progress` (what is known at each
point of a call), `Judged` (each verdict is one its reply deserves under every registry
that agrees with `listed`), `Collected` (the accumulator is what the frames said), `Accounted`
(a result has everybody owed) and `Reported` (what the caller concludes).  From it
follow `ExitZeroIsHonest`, `NobodyIsLost`, `StatesRunIsComplete` and
`MalformedIsRetried`.  `RequestsAreConveyed` needs arithmetic: `CeilCovers` for
rounding up with wrap-around, `BatchesAgree` for the two orders in which the
transports read a batch that validation has passed.

In `RetriedRunProofs` the invariant is `RetryTypes`, `Known` (a minion is a failure of the
merged result exactly if the latest heard of it is one, and a success is in it), `Attempting`
(at attempt *n* every minion still to retry was started *n* - 2 times, or one more) and
`Concluded` (`Run`'s error is made of the middleware's).  `MergeSays` is the lemma on
`mergeRetryResult`, and rests on the wrapped handler answering only for minions it was asked
about.  From it follow `SuccessStays`, `NoEarlyExhaustion` and `OutcomeIsTheLatest`.

What observers hear of a run is proved of `ClientRun`, whose handler is open, and carries over
to `RetriedRun`, which closes it with the retry middleware:

| theorem | states | argument |
| --- | --- | --- |
| `AnyHandler` | `LifecycleIsComplete` and `TerminalOutlivesContext` of `ClientRun` | through `ClientInv`: which events a broadcast may carry at each point (`Broadcast`), what stands first and last in each log, relative to the observers the broadcast has reached already (`Begins`, `Ends`), and that an observer still to be given an undetached terminal event was given none with an ended context (`Outlives`) |
| `RunImplementsClient` | `RunSpec => Spec` | step simulation: a step of the middleware is a step, or a stutter, of the open handler; `Backlogged` says that its pending events are progress events |
| `LifecycleEnds`, `TerminalGetsThrough` | the same two properties of `RunSpec` | from the two above |
| `RetriesAreHeard` | `RunSpec => []RetriesAreTold` | `Telling` counts, per observer, the events that are due: heard, in hand (a broadcast that has not reached it) or waiting in the backlog; of scheduled retries as many are due as of started ones and those still to start.  `Answering` ties `Run`'s error to the middleware's.  The list of minions to retry is finite because `RetryAssumption` has `Minions` finite, as a Go slice is |

The properties count log entries with `Cardinality` of a set of indices and not with a filtered
sequence, whose length could only be reasoned about by induction.

In `RestTransportProofs`, of `RestAuth`: `TypeCorrect`, whose point is that `Invalidate` cannot happen
twice to a request, and `NobodyIsOrphaned`: `Spec => []NoOrphans`.  `NoOrphans`
by itself is not inductive, as it does not say that who waits has joined a call at all;
`Followed` does.  Two lemmas carry the argument: a request that only moves on
leaves logins in progress, and a login that ends releases its followers whether or
not it is still the one in the group.

`LoginsAreCaused`: `Spec => []OneLoginPerCause`.  The bound on the tokens Salt
issued is not inductive, since a login that is about to be asked for must be paid for
already.  `Accounted` adds to them `Asking`, the calls that will ask whatever the cache
says, forgotten ones among them, and `Need`, 1 if nothing is cached and no call in the group
asks for a token or holds one it asked for; each step that raises this sum is one of the causes.

Of `InfoProbe`, the other singleflight group: `ProbesCoalesce` and `LateCallersLearn`, the
second an action property.  `InfoInv` says that, over REST, only the leader of the group is past
the cache; that no version is cached while a probe is under way or about to be stored; and that a
probe beyond those that failed is `Paid`: it is under way, or has found what is
about to be cached or is.  `Informed` ties what a late caller is about to be told to the version that
was cached when it looked.

Of `EventStream`:

| theorem | states | argument |
| --- | --- | --- |
| `NoEventIsLost` | `StreamSpec => []NothingLost` | `Conveying`: as long as the reader scans or sends, the frames received, in the channel or in its hands are those the filter wants of the ones scanned; it lets go of the latest only after `Close`, and then scans no more.  `AppendCarries` is the lemma on a flow that grows by one item |
| `TheEndIsTold` | `StreamSpec => []EndIsTold` | `Ending`: once the reader is stopping, and the stream is not closed, the last item on its way says how the connection ended; no failure is on its way while the connection has not failed, because `Close` sets `done` before it closes the body |

`NothingLost` speaks of the sets of frames conveyed and due, and of the order of those in the
flow, and not of a filtered sequence, for the reason above.

In `AsyncObserverProofs`:

| theorem | states | argument |
| --- | --- | --- |
| `Types` | `Spec => []TypeOK` | part of `Inv` |
| `NoLossUncounted` | `Spec => []LossesAreCounted` | the events handed over are as many as those accepted (delivered, in hand, queued), dropped and ignored: `Accounts`.  That none is counted twice needs `Earlier` and `InOrder`: what was accepted or ignored was handed over before, and the next event of an emitter is a later one |
| `NoCallAfterClose` | `Spec => SilentAfterClose` | `Working`: a `Close` that has returned saw the goroutine exit, and only that goroutine delivers |

In `AsyncJobProofs`, `TypeCorrect` and `AllWaitsAgree`: `Spec => []WaitsAgree`.
The invariant `Frozen` says that once a released call has taken its snapshot,
the job is done and nobody is about to record a return; a `Return` that `Close`
overtook has finished by then, because the snapshot waits for the mutex.

Model-checked only: the liveness properties (`CollectedWaitReturns`, `EndedWaitReturns`,
`EveryWaitReturns` of both jobs, `ReceiverStops`, `ReaderEnds`, `CloseReleasesRecv`, `OnEventReturns`, `CloseReturns`,
`WaitEnds`), since the provers reason neither about fairness nor about `ENABLED`.
`CallerContextNeverSettles` is false of the code, and TLC's counterexample is the finding.

## Disagreements with the documentation

Modelling showed places where code and documentation differ.  The first is a run
that TLC refutes (`local_job_caller_deadline`, under `findings`).  The others
are what the models do, and are told here for the maintainers.

- A caller's own deadline settles the job for every later caller when
  `JobWaitTimeout` is set (`job.go:264-266`), against `rest/doc.go:27` ("without
  poisoning future Wait calls").
- When `JobWaitTimeout` passes during a lookup, `Wait` returns the lookup's error
  and not an execution failure (`job.go:204-214`), against `rest.go:60`.
- A login in flight when `InvalidateToken` runs caches its token afterwards
  (`auth.go:108-116`); the retried request then takes that token instead of
  logging in, against the comment at `auth.go:108`.
- `rest/doc.go:42-43` says that `Info` probes at most once and that a failure is
  cached; `rest.go:148-152`, the code and its test say that a failure is not.
- Events left in the buffer of an `AsyncObserver` when `Close` is called may
  still be delivered, before `Close` returns (`events.go:218-222`); the comment
  at `events.go:152` says that they are dropped.
- A minion that failed and does not return to its retry is in `ByMinion` and in
  `Missing` of the merged result (`retry.go:186-195`), against `result.go:25`; it is
  announced twice by each retry event.
- `recoverRun` recovers the panics of observers too (`client.go:193-206`), against
  `DESIGN.md:985`.
- `Emit` detaches the context of a terminal event only if the context has already
  ended (`client.go:215`), so that it may end while the observers run, against `DESIGN.md:768`.
- A direct run of the Python transport whose context ends drops the returns it
  has folded and reports a transport error (`python.go:665-685`), against
  `DESIGN.md:943-945`, which asks for the context's error and any partial result.
- The Python transport never sends `GatherJobTimeout` (`python.go:815-819`), against `DESIGN.md:953-954`.
- `IsBareFalse` is documented for the boolean `false`; a JSON `null` unmarshals into a bool as well and is
  counted (`classify.go:110-114`).
- `result.go:30-31` names "the target matched no minions" as a failure of a result; a
  direct REST run of a glob that nobody answers is a success without minions (`normalize.go:50-78`).
- `result.go:80-81` says that only the bare-false and state classifiers emit `FailureUnknown`; a
  return with `success: false` has it too (`minion.go:149-188`), and so has a runner's payload (`classify.go:259-277`).
- `StateFailure` is documented to classify failed state return payloads (`classify.go:116`).  A failed chunk
  beside a value that is no chunk is not a failure (`classify.go:211-215`), and the body of a return event
  is classified without its function (`events.go:299-308`), so that a failed chunk there counts
  only if a lookup repeats it before the job ends.
- `brine` rejects an unknown `--output` after the work was done, and exits with 1 though it
  succeeded (`main.go:911-926`).

## What is not modelled

- JSON, SSE and HTTP: a reply is usable or it is not, a frame is wanted or not, a value has one of the shapes
  the classifiers tell apart.
- Salt itself, contexts, `singleflight`, `os/exec` and `net/http` are external: modelled as
  the code uses them, and marked so in the map.
- The payload, text and duration of events; `Raw` payloads.
- Target types other than lists and globs, which are expressions like a glob; arguments, metadata and event filters.
- The mock's scripted transport, job and stream: they replay a script in order, without concurrency.
- `modules`, `jobs`, `observers/slog`: they convert data and keep no state.
- `brinetest`, `tools`, `examples`, `brine-compatcheck` and the flags and formats of `brine`: harnesses and programs around the library.

## What is left

1. `LocalJob` over `EventStream`, so that the job's return events come through the
   reader and its channel; today the job has a stream of its own that delivers in order.
2. The mock's scripted transport and stream, and event filters.
