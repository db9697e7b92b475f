------------------------------ MODULE PythonJob ------------------------------
(***************************************************************************)
(* The Python transport's asynchronous job (transports/python/python.go    *)
(* and the wait operation of brine_salt_bridge.py).  Any number of         *)
(* goroutines call Wait on one job; the leader starts a helper process and *)
(* folds the frames it writes, the others wait for the leader's call to    *)
(* close.  The helper polls the job cache through the runner               *)
(* jobs.lookup_jid.  Each call of Wait is a member of Waits and has a      *)
(* context of its own.  Salt and the operating system are external.        *)
(*                                                                         *)
(* Operators introduced as variants are the bugs the mutants put in.       *)
(***************************************************************************)
EXTENDS Accumulator

CONSTANTS
    Waits,           \* calls of Wait, by any goroutine
    NoWait,          \* no call
    JobId,           \* the job's ID
    Timeouts,        \* whether Config.JobWaitTimeout may be positive
    Reports          \* how each minion's return may be classified

ASSUME PythonJobAssumption ==
    /\ NoWait \notin Waits
    /\ JobId \in Jids
    /\ Timeouts \subseteq BOOLEAN
    /\ Reports \in [Minions -> SUBSET Value]

VARIABLES
    jobWaitTimeout, \* whether Transport.jobWaitTimeout is positive
    expected,   \* localJob.expected, from the helper that started the job
    reachable,  \* Salt: the minions the job was published to
    cache,      \* Salt: the return of each minion in the master's job cache
    pc,         \* where each call of Wait is
    ctx,        \* whether the caller's context is "live" or has "ended"
    waiting,    \* localJob.waiting: the leader's call
    following,  \* the call a follower joined
    final,      \* localJob.result and localJob.err; done is final # NoOutcome
    answer,     \* waitCall.result/err, and what Wait returned
    acc,        \* the leader's accumulator
    helper,     \* the helper process of each call
    stdout      \* the frames it has written and the leader has not read

jobVars    == <<jobWaitTimeout, expected, reachable>>
waitVars   == <<waiting, following, final, answer>>
helperVars == <<acc, helper, stdout>>
vars       == <<jobVars, cache, pc, ctx, waitVars, helperVars>>

------------------------------------------------------------------------------
\* Types.

Snapshot   == [Minions -> Value \cup {"none"}]
Present(s) == {m \in Minions : s[m] # "none"}

(***************************************************************************)
(* The helper: where it is, the minions it has written a return frame for, *)
(* those of the current lookup it has yet to write one for, and whether    *)
(* its deadline has passed.                                                *)
(***************************************************************************)
Running == {"lookup", "emit"}
Helper  == [at      : Running \cup {"off", "done", "died"},
            seen    : SUBSET Minions,
            pending : SUBSET Minions,
            late    : BOOLEAN]

NoHelper == [at |-> "off", seen |-> {}, pending |-> {}, late |-> FALSE]

ReturnFrame == [type : {"return"}, minion : Minions, value : Value]
Frame       == [type : {"minions", "error", "torn"}] \cup ReturnFrame

Leading == {"begin", "read", "publish"}
PCs     == Leading \cup {"idle", "follow", "returned"}

\* "nil"; an ExecutionError without a cause, and with the context's error or
\* another as its cause; a failure that comes with no result; a follower's own
\* context error.
Errors == {"none", "nil", "exec", "exec_ctx", "exec_helper", "start", "ctx"}

Outcome == [result : ResultType, err : Errors]

NilResult == [jid |-> NoJid, expected |-> {}, byMinion |-> [m \in Minions |-> NoReturn],
              missing |-> {}, failure |-> FALSE]

OutcomeOf(result, err) == [result |-> result, err |-> err]
NoOutcome == OutcomeOf(NilResult, "none")

done == final # NoOutcome

------------------------------------------------------------------------------
(***************************************************************************)
(* start_local gathers the responsive minions and then publishes the job   *)
(* to the target: two looks at who is there, which need not agree.  A list *)
(* target is expected as the caller wrote it.                              *)
(***************************************************************************)
Init ==
    /\ jobWaitTimeout \in Timeouts
    /\ expected \in SUBSET Minions
    /\ reachable \in SUBSET Minions
    /\ cache = [m \in Minions |-> "none"]
    /\ pc = [w \in Waits |-> "idle"]
    /\ ctx = [w \in Waits |-> "live"]
    /\ waiting = NoWait
    /\ following = [w \in Waits |-> NoWait]
    /\ final = NoOutcome
    /\ answer = [w \in Waits |-> NoOutcome]
    /\ acc = [w \in Waits |-> NewAccumulator]
    /\ helper = [w \in Waits |-> NoHelper]
    /\ stdout = [w \in Waits |-> << >>]

\* A return reaches the master's job cache.
SaltCaches(m, v) ==
    /\ m \in reachable
    /\ cache[m] = "none"
    /\ cache' = [cache EXCEPT ![m] = v]
    /\ UNCHANGED <<jobVars, pc, ctx, waitVars, helperVars>>

\* The caller's context is cancelled or its deadline passes.
CallerEnds(w) ==
    /\ pc[w] \in Leading \cup {"follow"}
    /\ ctx[w] = "live"
    /\ ctx' = [ctx EXCEPT ![w] = "ended"]
    /\ UNCHANGED <<jobVars, cache, pc, waitVars, helperVars>>

------------------------------------------------------------------------------
\* Wait, up to the helper.

\* Variant: the call in progress is not looked for.
MayLeadTwice == ~done

\* What the first locked section of Wait finds.
MayLead == ~done /\ waiting = NoWait

ReturnCached(w) ==
    /\ pc[w] = "idle"
    /\ done
    /\ pc' = [pc EXCEPT ![w] = "returned"]
    /\ answer' = [answer EXCEPT ![w] = final]
    /\ UNCHANGED <<jobVars, cache, ctx, waiting, following, final, helperVars>>

Follow(w) ==
    /\ pc[w] = "idle"
    /\ ~done /\ waiting # NoWait
    /\ pc' = [pc EXCEPT ![w] = "follow"]
    /\ following' = [following EXCEPT ![w] = waiting]
    /\ UNCHANGED <<jobVars, cache, ctx, waiting, final, answer, helperVars>>

Lead(w) ==
    /\ pc[w] = "idle"
    /\ MayLead
    /\ waiting' = w
    /\ pc' = [pc EXCEPT ![w] = "begin"]
    /\ UNCHANGED <<jobVars, cache, ctx, following, final, answer, helperVars>>

\* waitForCall: the leader's call is closed.
FollowerReturns(w) ==
    /\ pc[w] = "follow"
    /\ pc[following[w]] = "returned"
    /\ pc' = [pc EXCEPT ![w] = "returned"]
    /\ answer' = [answer EXCEPT ![w] = answer[following[w]]]
    /\ UNCHANGED <<jobVars, cache, ctx, waiting, following, final, helperVars>>

\* waitForCall: the follower's own context ends first.
FollowerGivesUp(w) ==
    /\ pc[w] = "follow"
    /\ ctx[w] = "ended"
    /\ pc' = [pc EXCEPT ![w] = "returned"]
    /\ answer' = [answer EXCEPT ![w] = OutcomeOf(NilResult, "ctx")]
    /\ UNCHANGED <<jobVars, cache, ctx, waiting, following, final, helperVars>>

------------------------------------------------------------------------------
\* localJob.wait and invokeWait, run by the leader without the lock.

\* invokeWait returns; the process, if any, has ended and was reaped, and what
\* it wrote and nobody read is discarded.
LeaveWith(w, result, err) ==
    /\ pc' = [pc EXCEPT ![w] = "publish"]
    /\ answer' = [answer EXCEPT ![w] = OutcomeOf(result, err)]
    /\ helper' = [helper EXCEPT ![w] = NoHelper]
    /\ stdout' = [stdout EXCEPT ![w] = << >>]
    /\ UNCHANGED <<jobVars, cache, ctx, waiting, following, final, acc>>

\* noMinionsResult: nobody was gathered.
NobodyExpected(w) ==
    /\ pc[w] = "begin"
    /\ expected = {}
    /\ LeaveWith(w, [NilResult EXCEPT !.jid = JobId, !.failure = TRUE], "exec")

\* The first frame the helper writes repeats what it was told to expect.
StartHelper(w) ==
    /\ pc[w] = "begin"
    /\ expected # {}
    /\ pc' = [pc EXCEPT ![w] = "read"]
    /\ acc' = [acc EXCEPT ![w] = SetExpected(NewAccumulator, JobId, expected)]
    /\ helper' = [helper EXCEPT ![w].at = "lookup"]
    /\ stdout' = [stdout EXCEPT ![w] = << [type |-> "minions"] >>]
    /\ UNCHANGED <<jobVars, cache, ctx, waitVars>>

\* The process cannot be started, because the context has ended perhaps.
StartFails(w) ==
    /\ pc[w] = "begin"
    /\ expected # {}
    /\ LeaveWith(w, NilResult, "start")

\* waitPartialError: the expected minions are known, so that each one is a
\* return or missing and the result is never empty.
PartialError(w, err) == LeaveWith(w, Result(acc[w]), err)

Written(w) == stdout[w] # << >>

Reads(w) ==
    /\ pc[w] = "read"
    /\ Written(w)

\* bridgeAccumulator.apply.
ReadFrame(w) ==
    LET frame == Head(stdout[w]) IN
    /\ Reads(w)
    /\ frame.type \in {"minions", "return"}
    /\ acc' = [acc EXCEPT ![w] =
         IF frame.type = "minions" THEN SetExpected(@, JobId, expected)
         ELSE AddMinion(@, frame.minion, [jid |-> JobId, value |-> frame.value])]
    /\ stdout' = [stdout EXCEPT ![w] = Tail(@)]
    /\ UNCHANGED <<jobVars, cache, pc, ctx, waitVars, helper>>

\* An error frame, or a line cut short, which is no frame.
ReadFailure(w) ==
    /\ Reads(w)
    /\ Head(stdout[w]).type \in {"error", "torn"}
    /\ PartialError(w, "exec_helper")

\* Whatever went wrong after the context has ended is the context's fault.
ErrorOf(w) == IF ctx[w] = "ended" THEN "exec_ctx" ELSE "exec_helper"

\* A return longer than the scanner's buffer.
ReadOverlong(w) ==
    /\ Reads(w)
    /\ Head(stdout[w]).type = "return"
    /\ PartialError(w, ErrorOf(w))

EndOfOutput(w) ==
    /\ pc[w] = "read"
    /\ ~Written(w)

\* ResultWithExecutionError.
Judged(result) == IF OK(result) THEN "nil" ELSE "exec"

HelperSucceeded(w) ==
    /\ EndOfOutput(w)
    /\ helper[w].at = "done"
    /\ LeaveWith(w, Result(acc[w]), Judged(Result(acc[w])))

\* The process was killed, by the context or by anybody, or failed.
HelperFailed(w) ==
    /\ EndOfOutput(w)
    /\ helper[w].at = "died"
    /\ PartialError(w, ErrorOf(w))

\* Variants: an error with a cause is retained like one without, or no error is.
SuccessOnly(err) == err = "nil"
AnyExecutionError(err) == err \in {"nil", "exec", "exec_ctx", "exec_helper"}

TerminalWaitError(err) == err \in {"nil", "exec"}

Settles(w) == ctx[w] = "live" /\ TerminalWaitError(answer[w].err)

\* The second locked section of Wait; closing call.done releases followers.
Publish(w) ==
    /\ pc[w] = "publish"
    /\ waiting' = IF waiting = w THEN NoWait ELSE waiting
    /\ final' = IF ~done /\ Settles(w) THEN answer[w] ELSE final
    /\ answer' = [answer EXCEPT ![w] = IF final' # NoOutcome THEN final' ELSE @]
    /\ pc' = [pc EXCEPT ![w] = "returned"]
    /\ acc' = [acc EXCEPT ![w] = NewAccumulator]
    /\ UNCHANGED <<jobVars, cache, ctx, following, helper, stdout>>

------------------------------------------------------------------------------
(***************************************************************************)
(* The helper: wait_local.  The start reply always names the expected      *)
(* minions, so the branch for an unknown set is not reached.               *)
(***************************************************************************)
Write(w, frames) == stdout' = [stdout EXCEPT ![w] = @ \o frames]

HelperStep(w, from) ==
    /\ helper[w].at = from
    /\ UNCHANGED <<jobVars, cache, pc, ctx, waitVars, acc>>

\* jobs.lookup_jid answers with the job cache.
LookupAnswered(w) ==
    /\ HelperStep(w, "lookup")
    /\ helper' = [helper EXCEPT ![w].at = "emit",
                                ![w].pending = Present(cache) \ helper[w].seen]
    /\ UNCHANGED stdout

\* The runner raises: main writes an error frame and exits.
LookupRaises(w) ==
    /\ HelperStep(w, "lookup")
    /\ helper' = [helper EXCEPT ![w].at = "done"]
    /\ Write(w, << [type |-> "error"] >>)

EmitReturn(w, m) ==
    /\ HelperStep(w, "emit")
    /\ m \in helper[w].pending
    /\ helper' = [helper EXCEPT ![w].seen = @ \cup {m}, ![w].pending = @ \ {m}]
    /\ Write(w, << [type |-> "return", minion |-> m, value |-> cache[m]] >>)

\* Variant: the deadline is not looked at.
AllSeen(w) == expected \subseteq helper[w].seen

Enough(w) == expected \subseteq helper[w].seen \/ helper[w].late

Emitted(w) == helper[w].pending = {}

\* The done frame that it writes is skipped by the reader and left out.
HelperCompletes(w) ==
    /\ HelperStep(w, "emit")
    /\ Emitted(w)
    /\ Enough(w)
    /\ helper' = [helper EXCEPT ![w].at = "done"]
    /\ UNCHANGED stdout

\* It sleeps for the poll interval before the next lookup.
HelperPolls(w) ==
    /\ HelperStep(w, "emit")
    /\ Emitted(w)
    /\ ~Enough(w)
    /\ helper' = [helper EXCEPT ![w].at = "lookup"]
    /\ UNCHANGED stdout

\* The helper's own clock, looked at after each lookup only.
DeadlinePasses(w) ==
    /\ jobWaitTimeout
    /\ helper[w].at \in Running /\ ~helper[w].late
    /\ helper' = [helper EXCEPT ![w].late = TRUE]
    /\ UNCHANGED <<jobVars, cache, pc, ctx, waitVars, acc, stdout>>

\* The process ends before it could exit; the line it was writing is cut short.
Dies(w) ==
    /\ helper[w].at \in Running \cup {"done"}
    /\ helper' = [helper EXCEPT ![w].at = "died", ![w].pending = {}]
    /\ \/ UNCHANGED stdout
       \/ helper[w].at = "emit" /\ Write(w, << [type |-> "torn"] >>)
    /\ UNCHANGED <<jobVars, cache, pc, ctx, waitVars, acc>>

HelperCrashes(w) == ctx[w] = "live" /\ Dies(w)

\* Variant: the process is started without the context.
NeverKilled(w) == FALSE

MayKill(w) == ctx[w] = "ended"

\* exec.CommandContext kills the process when the context ends.
ContextKills(w) == MayKill(w) /\ Dies(w)

------------------------------------------------------------------------------

LeaderStep(w) ==
    \/ NobodyExpected(w) \/ StartHelper(w) \/ StartFails(w)
    \/ ReadFrame(w) \/ ReadFailure(w) \/ ReadOverlong(w)
    \/ HelperSucceeded(w) \/ HelperFailed(w)
    \/ Publish(w)

HelperRuns(w) ==
    \/ LookupAnswered(w) \/ LookupRaises(w)
    \/ \E m \in Minions : EmitReturn(w, m)
    \/ HelperCompletes(w) \/ HelperPolls(w)
    \/ DeadlinePasses(w)

Next ==
    \/ \E m \in Minions : \E v \in Reports[m] : SaltCaches(m, v)
    \/ \E w \in Waits :
        \/ CallerEnds(w)
        \/ ReturnCached(w) \/ Follow(w) \/ Lead(w)
        \/ FollowerReturns(w) \/ FollowerGivesUp(w)
        \/ LeaderStep(w)
        \/ HelperRuns(w) \/ HelperCrashes(w) \/ ContextKills(w)

Spec == Init /\ [][Next]_vars

(***************************************************************************)
(* Fairness: a runnable goroutine runs, the operating system kills the     *)
(* process it is asked to kill, a running helper proceeds and its clock    *)
(* advances.  A helper that waits for Salt proceeds only if Salt answers,  *)
(* which SaltAnswers says.                                                 *)
(***************************************************************************)
HelperProceeds(w) ==
    (\E m \in Minions : EmitReturn(w, m)) \/ HelperCompletes(w) \/ HelperPolls(w)

FairSpec ==
    /\ Spec
    /\ \A w \in Waits :
        /\ WF_vars(LeaderStep(w))
        /\ WF_vars(FollowerReturns(w) \/ FollowerGivesUp(w))
        /\ WF_vars(HelperProceeds(w))
        /\ WF_vars(DeadlinePasses(w))
        /\ WF_vars(ContextKills(w))

SaltAnswers == \A w \in Waits : WF_vars(LookupAnswered(w))

------------------------------------------------------------------------------
\* Properties.

\* Every variable keeps to the values the code's fields can hold.
TypeOK ==
    /\ jobWaitTimeout \in BOOLEAN
    /\ expected \in SUBSET Minions /\ reachable \in SUBSET Minions
    /\ cache \in Snapshot
    /\ pc \in [Waits -> PCs]
    /\ ctx \in [Waits -> {"live", "ended"}]
    /\ waiting \in Waits \cup {NoWait}
    /\ following \in [Waits -> Waits \cup {NoWait}]
    /\ final \in Outcome
    /\ answer \in [Waits -> Outcome]
    /\ acc \in [Waits -> AccType]
    /\ helper \in [Waits -> Helper]
    /\ stdout \in [Waits -> Seq(Frame)]

\* At most one call of Wait leads, the one localJob.waiting names, and only while
\* the job is not done; a helper process runs for it alone, so that no process is
\* started twice for a job or outlives the call that started it.
OneHelper ==
    /\ \A w \in Waits : pc[w] \in Leading <=> waiting = w
    /\ \A w \in Waits : helper[w].at # "off" <=> pc[w] = "read"
    /\ done => waiting = NoWait

\* What a job settles on is what the minions did: with a nil error each minion
\* the job expects reported success to Salt; with an error somebody failed, or
\* nobody was expected, or the configured timeout passed.  A helper that fails, a
\* lookup that raises and a caller that leaves settle nothing, and no return is
\* invented or altered on the way through the pipe.
SettlesOnWhatSaltHolds ==
    done =>
        /\ final.err \in {"nil", "exec"}
        /\ final.err = "nil" => \A m \in expected : cache[m] = "ok"
        /\ final.err = "exec" =>
             \/ expected = {} \/ final.result.missing # {}
             \/ \E m \in Returned(final.result) : cache[m] = "fail"
        /\ \A m \in Returned(final.result) : final.result.byMinion[m].value = cache[m]
        /\ final.result.missing # {} => jobWaitTimeout

\* The call that ran the helper for call w.
LeaderOf(w) == IF following[w] = NoWait THEN w ELSE following[w]

\* A complete outcome that was given though the leader's context had ended, so that
\* the job does not retain it.
Lapsed(w) == answer[w].err \in {"nil", "exec"} /\ ctx[LeaderOf(w)] = "ended"

\* An outcome, and whether it lapsed, which tells those given in passing from those
\* the job settles on.
Marked(outcome, lapsed) ==
    [result |-> outcome.result, err |-> outcome.err, lapsed |-> lapsed]

\* Wait is idempotent: the job behaves as WaitContract, for callers that come
\* before, during and after a wait, while helpers fail and contexts end.  A
\* complete outcome is given to one call and not to the next in one case only: the
\* context of the call that led had ended before the outcome was published.
Contract == INSTANCE WaitContract WITH
    Finals    <- [result : ResultType, err : {"nil", "exec"}, lapsed : {FALSE}],
    Interims  <- [result : ResultType, err : {"nil", "exec"}, lapsed : {TRUE}] \cup
                 [result : ResultType, err : Errors \ {"none", "nil", "exec"}, lapsed : {FALSE}],
    NoOutcome <- Marked(NoOutcome, FALSE),
    settled   <- Marked(final, FALSE),
    phase     <- [w \in Waits |-> IF pc[w] = "idle" THEN "idle"
                                  ELSE IF pc[w] = "returned" THEN "answered" ELSE "open"],
    answer    <- [w \in Waits |-> IF pc[w] = "returned" THEN Marked(answer[w], Lapsed(w))
                                  ELSE Marked(NoOutcome, FALSE)]

WaitIsIdempotent == Contract!Spec

\* A call whose context ends returns, and so does every call that joined it, with
\* no help from Salt: the helper is killed although it hangs in a lookup.
EndedContextReturns(w) ==
    (\/ pc[w] \in Leading \cup {"follow"} /\ ctx[w] = "ended"
     \/ pc[w] = "follow" /\ ctx[following[w]] = "ended") ~> pc[w] = "returned"

\* If Salt answers lookups, a call of Wait returns when JobWaitTimeout is set or
\* each expected minion has returned.
WaitReturns(w) ==
    SaltAnswers =>
        (/\ pc[w] \in Leading \cup {"follow"}
         /\ jobWaitTimeout \/ expected \subseteq Present(cache)) ~> pc[w] = "returned"
==============================================================================
