--------------------------- MODULE PythonJobProofs ---------------------------
(***************************************************************************)
(* Theorems about PythonJob, for any number of calls of Wait and minions,  *)
(* any returns, with or without JobWaitTimeout.                            *)
(***************************************************************************)
EXTENDS PythonJob, AccumulatorProofs

------------------------------------------------------------------------------
(***************************************************************************)
(* The inductive invariant is TypeOK, OneHelper and the four below.        *)
(***************************************************************************)
\* A follower has a call to follow, and a process that is gone has left nothing.
Linked ==
    \A w \in Waits : /\ pc[w] = "follow" => following[w] \in Waits
                     /\ helper[w].at = "off" => helper[w] = NoHelper

\* A call that is answered, or about to be, has an outcome; a job that is done has
\* a terminal one.
Answered ==
    /\ done => final.err \in {"nil", "exec"}
    /\ \A w \in Waits : pc[w] \in {"publish", "returned"} => answer[w].err # "none"

Frames(s) == {s[i] : i \in 1 .. Len(s)}

Delivered(s) == {m \in Minions : \E f \in Frames(s) : f.type = "return" /\ f.minion = m}

\* The pipe from the helper to the leader: no value changes on the way, a minion the
\* helper has seen is with the leader or in the pipe, and a helper that is done has
\* seen the expected minions, ran out of time, or has said that it failed.
Conveys(a, h, s) ==
    /\ a.expectedKnown /\ a.expected = expected
    /\ \A m \in Returned(a) : a.byMinion[m].value = cache[m]
    /\ \A f \in Frames(s) : f.type = "return" => f.value = cache[f.minion]
    /\ h.pending \subseteq Present(cache)
    /\ h.seen \subseteq Returned(a) \cup Delivered(s)
    /\ h.late => jobWaitTimeout
    /\ h.at = "done" =>
         \/ expected \subseteq h.seen
         \/ h.late
         \/ \E f \in Frames(s) : f.type = "error"

Pipe == \A w \in Waits : pc[w] = "read" => Conveys(acc[w], helper[w], stdout[w])

\* An outcome says of the minions what Salt holds of them.
Faithful(out) ==
    /\ out.err = "nil" => \A m \in expected : cache[m] = "ok"
    /\ out.err = "exec" =>
         \/ expected = {} \/ out.result.missing # {}
         \/ \E m \in Returned(out.result) : out.result.byMinion[m].value = "fail"
    /\ \A m \in Returned(out.result) : out.result.byMinion[m].value = cache[m]
    /\ out.result.missing # {} => jobWaitTimeout

Settling ==
    /\ done => Faithful(final)
    /\ \A w \in Waits :
         pc[w] = "publish" /\ answer[w].err \in {"nil", "exec"} => Faithful(answer[w])

Inv == TypeOK /\ Linked /\ OneHelper /\ Answered /\ Pipe /\ Settling
------------------------------------------------------------------------------
\* Sequences of frames.

LEMMA FramesOf ==
    /\ Frames(<< >>) = {}
    /\ \A f \in Frame : << f >> \in Seq(Frame) /\ Frames(<< f >>) = {f}
    /\ \A s \in Seq(Frame) : Frames(s) \subseteq Frame
  BY DEF Frames

LEMMA FramesOfAppend ==
    ASSUME NEW s \in Seq(Frame), NEW f \in Frame
    PROVE  s \o << f >> \in Seq(Frame) /\ Frames(s \o << f >>) = Frames(s) \cup {f}
<1> DEFINE t == s \o << f >>
<1>1. /\ t \in Seq(Frame) /\ Len(t) = Len(s) + 1 /\ Len(s) \in Nat
      /\ t[Len(s) + 1] = f /\ \A i \in 1 .. Len(s) : t[i] = s[i]
  OBVIOUS
<1> HIDE DEF t
<1>2. Frames(t) = Frames(s) \cup {f}
  BY <1>1 DEF Frames
<1>3. QED
  BY <1>1, <1>2 DEF t

LEMMA FramesOfTail ==
    ASSUME NEW s \in Seq(Frame), s # << >>
    PROVE  /\ Head(s) \in Frame /\ Tail(s) \in Seq(Frame)
           /\ Frames(s) = {Head(s)} \cup Frames(Tail(s))
<1> DEFINE t == Tail(s)
<1>1. /\ Len(s) \in Nat \ {0} /\ Head(s) = s[1] /\ Head(s) \in Frame
      /\ t \in Seq(Frame) /\ Len(t) = Len(s) - 1
      /\ \A i \in 1 .. Len(t) : t[i] = s[i + 1]
  OBVIOUS
<1> HIDE DEF t
<1>2. ASSUME NEW i \in 1 .. Len(s) PROVE s[i] \in {Head(s)} \cup Frames(t)
  <2>1. CASE i = 1
    BY <1>1, <2>1
  <2>2. CASE i # 1
    <3>1. i - 1 \in 1 .. Len(t) /\ t[i - 1] = s[i]
      BY <1>1, <2>2
    <3>2. QED
      BY <3>1 DEF Frames
  <2>3. QED
    BY <2>1, <2>2
<1>3. ASSUME NEW i \in 1 .. Len(t) PROVE t[i] \in Frames(s)
  BY <1>1 DEF Frames
<1>4. Head(s) \in Frames(s)
  BY <1>1 DEF Frames
<1>5. Frames(s) = {Head(s)} \cup Frames(t)
  BY <1>2, <1>3, <1>4 DEF Frames
<1>6. QED
  BY <1>1, <1>5 DEF t

LEMMA FrameIsTyped ==
    ASSUME NEW f \in Frame
    PROVE  f.type = "return" => f.minion \in Minions /\ f.value \in Value
  BY DEF Frame, ReturnFrame
------------------------------------------------------------------------------
\* Types of what the actions compute.

LEMMA OutcomeOfType ==
    ASSUME NEW r \in ResultType, NEW e \in Errors
    PROVE  OutcomeOf(r, e) \in Outcome
  BY DEF OutcomeOf, Outcome

LEMMA NilResultType ==
    NilResult \in ResultType /\ Returned(NilResult) = {} /\ NilResult.missing = {}
  BY DEF NilResult, ResultType, JidOrNone, Entry, Returned

LEMMA NoOutcomeType ==
    NoOutcome \in Outcome /\ NoOutcome.err = "none"
  BY NilResultType, OutcomeOfType DEF NoOutcome, OutcomeOf, Errors

LEMMA NoHelperType ==
    NoHelper \in Helper
  BY DEF NoHelper, Helper

LEMMA FreshType ==
    LET a == SetExpected(NewAccumulator, JobId, expected) IN
    expected \subseteq Minions =>
        a \in AccType /\ a.expectedKnown /\ a.expected = expected /\ Returned(a) = {}
<1> DEFINE a == SetExpected(NewAccumulator, JobId, expected)
<1> SUFFICES ASSUME expected \subseteq Minions
             PROVE  a \in AccType /\ a.expectedKnown /\ a.expected = expected /\ Returned(a) = {}
  OBVIOUS
<1>1. JobId \in JidOrNone
  BY PythonJobAssumption DEF JidOrNone
<1>2. a \in AccType
  BY <1>1, NewAccumulatorType, SetExpectedType
<1>3. a.byMinion = NewAccumulator.byMinion
  BY <1>1, NewAccumulatorType, SetExpectedKeepsReturns
<1>4. a.expectedKnown /\ a.expected = expected
  BY <1>1, NewAccumulatorType DEF SetExpected, SetJID, NewAccumulator, AccType
<1>5. Returned(a) = {}
  BY <1>3 DEF Returned, NewAccumulator
<1>6. QED
  BY <1>2, <1>4, <1>5
------------------------------------------------------------------------------
(***************************************************************************)
(* What a step does, for the three groups of steps that the proofs treat   *)
(* alike: the helper's, those that end the leader's call of invokeWait,    *)
(* and the callers'.                                                       *)
(***************************************************************************)
HelperAct(w) == HelperRuns(w) \/ HelperCrashes(w) \/ ContextKills(w)

\* Whatever the helper does, it is still there and the pipe still conveys.
LEMMA HelperEffect ==
    ASSUME Inv, NEW w \in Waits, HelperAct(w)
    PROVE  /\ UNCHANGED <<jobVars, cache, pc, ctx, waitVars, acc>>
           /\ pc[w] = "read"
           /\ \E h \in Helper, s \in Seq(Frame) :
                /\ h.at # "off"
                /\ helper' = [helper EXCEPT ![w] = h]
                /\ stdout' = [stdout EXCEPT ![w] = s]
                /\ Conveys(acc[w], h, s)
<1> DEFINE Effect(h, s) ==
        /\ helper' = [helper EXCEPT ![w] = h]
        /\ stdout' = [stdout EXCEPT ![w] = s]
<1>1. /\ helper[w] \in Helper /\ stdout[w] \in Seq(Frame) /\ cache \in Snapshot
      /\ stdout = [stdout EXCEPT ![w] = stdout[w]]
  BY DEF Inv, TypeOK
<1>2. UNCHANGED <<jobVars, cache, pc, ctx, waitVars, acc>>
  BY DEF HelperAct, HelperRuns, LookupAnswered, LookupRaises, EmitReturn, HelperCompletes,
         HelperPolls, DeadlinePasses, HelperCrashes, ContextKills, Dies, HelperStep
<1>3. helper[w].at \in {"lookup", "emit", "done"}
  BY DEF HelperAct, HelperRuns, LookupAnswered, LookupRaises, EmitReturn, HelperCompletes,
         HelperPolls, DeadlinePasses, HelperCrashes, ContextKills, Dies, HelperStep, Running
<1>4. pc[w] = "read" /\ Conveys(acc[w], helper[w], stdout[w])
  BY <1>3 DEF Inv, OneHelper, Pipe
<1>5. CASE LookupAnswered(w)
  <2> DEFINE h == [helper[w] EXCEPT !.at = "emit", !.pending = Present(cache) \ helper[w].seen]
  <2>1. Effect(h, stdout[w])
    BY <1>1, <1>5 DEF LookupAnswered, HelperStep, Inv, TypeOK
  <2>2. h \in Helper /\ h.at = "emit" /\ h.pending \subseteq Present(cache)
        /\ h.seen = helper[w].seen /\ h.late = helper[w].late
    BY <1>1 DEF Helper, Present, Running
  <2>3. Conveys(acc[w], h, stdout[w])
    BY <1>4, <2>2 DEF Conveys
  <2>4. QED
    BY <1>1, <1>2, <1>4, <2>1, <2>2, <2>3
<1>6. CASE LookupRaises(w)
  <2> DEFINE h == [helper[w] EXCEPT !.at = "done"]
             f == [type |-> "error"]
             s == stdout[w] \o << f >>
  <2>1. f \in Frame /\ f.type = "error"
    BY DEF Frame
  <2> HIDE DEF f
  <2>2. Effect(h, s)
    BY <1>1, <1>6 DEF LookupRaises, HelperStep, Write, Inv, TypeOK, f
  <2>3. h \in Helper /\ h.at = "done" /\ h.pending = helper[w].pending
        /\ h.seen = helper[w].seen /\ h.late = helper[w].late
    BY <1>1 DEF Helper
  <2>4. s \in Seq(Frame) /\ Frames(s) = Frames(stdout[w]) \cup {f}
    BY <1>1, <2>1, FramesOfAppend
  <2>5. Delivered(s) = Delivered(stdout[w])
    BY <2>1, <2>4 DEF Delivered
  <2> HIDE DEF s, h
  <2>6. Conveys(acc[w], h, s)
    BY <1>4, <2>1, <2>3, <2>4, <2>5 DEF Conveys
  <2>7. QED
    BY <1>2, <1>4, <2>2, <2>3, <2>4, <2>6
<1>7. ASSUME NEW m \in Minions, EmitReturn(w, m)
      PROVE  \E h \in Helper, s \in Seq(Frame) :
                h.at # "off" /\ Effect(h, s) /\ Conveys(acc[w], h, s)
  <2> DEFINE h == [helper[w] EXCEPT !.seen = @ \cup {m}, !.pending = @ \ {m}]
             f == [type |-> "return", minion |-> m, value |-> cache[m]]
             s == stdout[w] \o << f >>
  <2>1. m \in helper[w].pending /\ helper[w].at = "emit"
    BY <1>7 DEF EmitReturn, HelperStep
  <2>2. cache[m] \in Value
    BY <1>1, <1>4, <2>1 DEF Conveys, Present, Snapshot
  <2>3. f \in Frame /\ f.type = "return" /\ f.minion = m /\ f.value = cache[m]
    BY <2>2 DEF Frame, ReturnFrame
  <2>4. helper' = [helper EXCEPT ![w] = h]
    BY <1>1, <1>7 DEF EmitReturn, HelperStep, Inv, TypeOK
  <2> HIDE DEF f
  <2>5. Effect(h, s)
    BY <1>1, <1>7, <2>4 DEF EmitReturn, Write, Inv, TypeOK, f
  <2>6. h \in Helper /\ h.at = "emit" /\ h.pending \subseteq helper[w].pending
        /\ h.seen = helper[w].seen \cup {m} /\ h.late = helper[w].late
    BY <1>1, <2>1 DEF Helper
  <2>7. s \in Seq(Frame) /\ Frames(s) = Frames(stdout[w]) \cup {f}
    BY <1>1, <2>3, FramesOfAppend
  <2>8. Delivered(s) = Delivered(stdout[w]) \cup {m}
    BY <2>3, <2>7 DEF Delivered
  <2> HIDE DEF s, h
  <2>9. Conveys(acc[w], h, s)
    BY <1>4, <2>3, <2>6, <2>7, <2>8 DEF Conveys
  <2>10. QED
    BY <2>5, <2>6, <2>7, <2>9
<1>8. CASE HelperCompletes(w) \/ HelperPolls(w)
  <2>1. PICK to \in {"lookup", "done"} :
            /\ helper' = [helper EXCEPT ![w].at = to]
            /\ stdout' = stdout
            /\ to = "done" => expected \subseteq helper[w].seen \/ helper[w].late
    BY <1>8 DEF HelperCompletes, HelperPolls, HelperStep, Enough
  <2> DEFINE h == [helper[w] EXCEPT !.at = to]
  <2>2. Effect(h, stdout[w])
    BY <1>1, <2>1 DEF Inv, TypeOK
  <2>3. h \in Helper /\ h.at = to /\ h.pending = helper[w].pending
        /\ h.seen = helper[w].seen /\ h.late = helper[w].late
    BY <1>1 DEF Helper, Running
  <2>4. Conveys(acc[w], h, stdout[w])
    BY <1>4, <2>1, <2>3 DEF Conveys
  <2>5. QED
    BY <1>1, <1>2, <1>4, <2>2, <2>3, <2>4
<1>9. CASE DeadlinePasses(w)
  <2> DEFINE h == [helper[w] EXCEPT !.late = TRUE]
  <2>1. Effect(h, stdout[w])
    BY <1>1, <1>9 DEF DeadlinePasses, Inv, TypeOK
  <2>2. h \in Helper /\ h.at = helper[w].at /\ h.at # "off" /\ h.pending = helper[w].pending
        /\ h.seen = helper[w].seen /\ h.late /\ jobWaitTimeout
    BY <1>1, <1>3, <1>9 DEF Helper, DeadlinePasses
  <2>3. Conveys(acc[w], h, stdout[w])
    BY <1>4, <2>2 DEF Conveys
  <2>4. QED
    BY <1>1, <1>2, <1>4, <2>1, <2>2, <2>3
<1>10. CASE Dies(w)
  <2> DEFINE h == [helper[w] EXCEPT !.at = "died", !.pending = {}]
             f == [type |-> "torn"]
  <2>1. helper' = [helper EXCEPT ![w] = h]
    BY <1>1, <1>10 DEF Dies, Inv, TypeOK
  <2>2. h \in Helper /\ h.at = "died" /\ h.pending = {}
        /\ h.seen = helper[w].seen /\ h.late = helper[w].late
    BY <1>1 DEF Helper
  <2>3. f \in Frame /\ f.type = "torn"
    BY DEF Frame
  <2> HIDE DEF f, h
  <2>4. CASE UNCHANGED stdout
    <3>1. Effect(h, stdout[w])
      BY <1>1, <2>1, <2>4
    <3>2. Conveys(acc[w], h, stdout[w])
      BY <1>4, <2>2 DEF Conveys
    <3>3. QED
      BY <1>1, <1>2, <1>4, <2>2, <3>1, <3>2
  <2>5. CASE Write(w, << f >>)
    <3> DEFINE s == stdout[w] \o << f >>
    <3>1. Effect(h, s)
      BY <1>1, <2>1, <2>5 DEF Write, Inv, TypeOK
    <3>2. s \in Seq(Frame) /\ Frames(s) = Frames(stdout[w]) \cup {f}
      BY <1>1, <2>3, FramesOfAppend
    <3>3. Delivered(s) = Delivered(stdout[w])
      BY <2>3, <3>2 DEF Delivered
    <3> HIDE DEF s
    <3>4. Conveys(acc[w], h, s)
      BY <1>4, <2>2, <2>3, <3>2, <3>3 DEF Conveys
    <3>5. QED
      BY <1>2, <1>4, <2>2, <3>1, <3>2, <3>4
  <2>6. QED
    BY <1>10, <2>4, <2>5 DEF Dies, f
<1>11. QED
  BY <1>2, <1>4, <1>5, <1>6, <1>7, <1>8, <1>9, <1>10
     DEF HelperAct, HelperRuns, HelperCrashes, ContextKills

Leaves(w) ==
    \/ NobodyExpected(w) \/ StartFails(w) \/ ReadFailure(w) \/ ReadOverlong(w)
    \/ HelperSucceeded(w) \/ HelperFailed(w)

\* However invokeWait ends, an outcome that may be retained is a faithful one.
LEMMA LeavesEffect ==
    ASSUME Inv, NEW w \in Waits, Leaves(w)
    PROVE  /\ pc[w] \in {"begin", "read"}
           /\ \E r \in ResultType, e \in Errors \ {"none"} :
                /\ LeaveWith(w, r, e)
                /\ e \in {"nil", "exec"} => Faithful(OutcomeOf(r, e))
<1>1. pc[w] \in {"begin", "read"}
  BY DEF Leaves, NobodyExpected, StartFails, ReadFailure, ReadOverlong, Reads,
         HelperSucceeded, HelperFailed, EndOfOutput
<1>2. acc[w] \in AccType /\ stdout[w] \in Seq(Frame)
  BY DEF Inv, TypeOK
<1>3. CASE NobodyExpected(w)
  <2> DEFINE r == [NilResult EXCEPT !.jid = JobId, !.failure = TRUE]
  <2>1. r \in ResultType /\ Returned(r) = {} /\ r.missing = {}
    BY PythonJobAssumption DEF NilResult, ResultType, JidOrNone, Entry, Returned
  <2> HIDE DEF r
  <2>2. Faithful(OutcomeOf(r, "exec"))
    BY <1>3, <2>1 DEF Faithful, OutcomeOf, NobodyExpected
  <2>3. LeaveWith(w, r, "exec")
    BY <1>3 DEF NobodyExpected, r
  <2>4. QED
    BY <1>1, <2>1, <2>2, <2>3 DEF Errors
<1>4. CASE StartFails(w)
  <2>1. LeaveWith(w, NilResult, "start")
    BY <1>4 DEF StartFails
  <2>2. QED
    BY <1>1, <2>1, NilResultType DEF Errors
<1>5. CASE \E e \in {"exec_helper", "exec_ctx"} : PartialError(w, e)
  <2>1. Result(acc[w]) \in ResultType
    BY <1>2, ResultInType
  <2>2. PICK e \in {"exec_helper", "exec_ctx"} : LeaveWith(w, Result(acc[w]), e)
    BY <1>5 DEF PartialError
  <2>3. e \in Errors \ {"none"} /\ e \notin {"nil", "exec"}
    BY DEF Errors
  <2>4. QED
    BY <1>1, <2>1, <2>2, <2>3
<1>6. CASE HelperSucceeded(w)
  <2> DEFINE r == Result(acc[w])
  <2>1. pc[w] = "read" /\ stdout[w] = << >> /\ helper[w].at = "done"
        /\ LeaveWith(w, r, Judged(r))
    BY <1>6 DEF HelperSucceeded, EndOfOutput, Written
  <2>2. Conveys(acc[w], helper[w], stdout[w])
    BY <2>1 DEF Inv, Pipe
  <2>3. Frames(stdout[w]) = {} /\ Delivered(stdout[w]) = {}
    BY <2>1, FramesOf DEF Delivered
  <2>4. expected \subseteq Returned(acc[w]) \/ jobWaitTimeout
    BY <2>1, <2>2, <2>3 DEF Conveys
  <2>5. /\ r \in ResultType /\ Returned(r) = Returned(acc[w])
        /\ \A m \in Returned(acc[w]) : r.byMinion[m].value = cache[m]
        /\ r.missing = expected \ Returned(acc[w])
    BY <1>2, <2>2, ResultSays DEF Conveys
  <2>6. expected \subseteq Minions /\ ~r.failure
    BY DEF Inv, TypeOK, Result
  <2> HIDE DEF r
  <2>7. Judged(r) = "nil" => \A m \in expected : cache[m] = "ok"
    BY <2>5, <2>6 DEF Judged, OK
  <2>8. Judged(r) = "exec" =>
           r.missing # {} \/ \E m \in Returned(r) : r.byMinion[m].value = "fail"
    <3>1. \A m \in Returned(r) : r.byMinion[m].value \in Value
      BY <2>5 DEF ResultType, Entry, Return, NoReturn, Returned
    <3>2. QED
      BY <2>6, <3>1 DEF Judged, OK, Value
  <2>9. Faithful(OutcomeOf(r, Judged(r)))
    BY <2>4, <2>5, <2>7, <2>8 DEF Faithful, OutcomeOf
  <2>10. Judged(r) \in Errors \ {"none"}
    BY DEF Judged, Errors
  <2>11. QED
    BY <1>1, <2>1, <2>5, <2>9, <2>10
<1>7. QED
  BY <1>3, <1>4, <1>5, <1>6 DEF Leaves, ReadFailure, ReadOverlong, HelperFailed, ErrorOf

\* Reading a frame moves it from the pipe to the accumulator.
LEMMA ReadFrameEffect ==
    ASSUME Inv, NEW w \in Waits, ReadFrame(w)
    PROVE  /\ UNCHANGED <<jobVars, cache, pc, ctx, waitVars, helper>>
           /\ pc[w] = "read"
           /\ \E a \in AccType, s \in Seq(Frame) :
                /\ acc' = [acc EXCEPT ![w] = a]
                /\ stdout' = [stdout EXCEPT ![w] = s]
                /\ Conveys(a, helper[w], s)
<1> DEFINE f == Head(stdout[w])
           s == Tail(stdout[w])
           a == IF f.type = "minions" THEN SetExpected(acc[w], JobId, expected)
                ELSE AddMinion(acc[w], f.minion, [jid |-> JobId, value |-> f.value])
<1>1. /\ acc[w] \in AccType /\ stdout[w] \in Seq(Frame) /\ stdout[w] # << >>
      /\ expected \subseteq Minions /\ f.type \in {"minions", "return"}
      /\ pc[w] = "read" /\ Conveys(acc[w], helper[w], stdout[w])
  BY DEF Inv, TypeOK, Pipe, ReadFrame, Reads, Written
<1>2. f \in Frame /\ s \in Seq(Frame) /\ Frames(stdout[w]) = {f} \cup Frames(s)
  BY <1>1, FramesOfTail
<1>3. /\ UNCHANGED <<jobVars, cache, pc, ctx, waitVars, helper>>
      /\ acc' = [acc EXCEPT ![w] = a]
      /\ stdout' = [stdout EXCEPT ![w] = s]
  BY DEF ReadFrame, Inv, TypeOK
<1> HIDE DEF s, f
<1>4. JobId \in JidOrNone
  BY PythonJobAssumption DEF JidOrNone
<1>5. CASE f.type = "minions"
  <2>1. a = SetExpected(acc[w], JobId, expected)
    BY <1>5
  <2> HIDE DEF a
  <2>2. /\ a \in AccType /\ a.byMinion = acc[w].byMinion
        /\ a.expectedKnown /\ a.expected = expected
    <3>1. a \in AccType /\ a.byMinion = acc[w].byMinion
      BY <1>1, <1>4, <2>1, SetExpectedType, SetExpectedKeepsReturns
    <3>2. SetJID(acc[w], JobId) \in AccType
      BY <1>1, <1>4, SetJIDType
    <3>3. a.expectedKnown /\ a.expected = expected
      BY <2>1, <3>2 DEF SetExpected, AccType
    <3>4. QED
      BY <3>1, <3>3
  <2>3. Returned(a) = Returned(acc[w])
    BY <2>2 DEF Returned
  <2>4. Delivered(stdout[w]) = Delivered(s)
    BY <1>2, <1>5 DEF Delivered
  <2>5. Conveys(a, helper[w], s)
    BY <1>1, <1>2, <1>5, <2>2, <2>3, <2>4 DEF Conveys
  <2>6. QED
    BY <1>1, <1>2, <1>3, <2>2, <2>5
<1>6. CASE f.type = "return"
  <2> DEFINE ret == [jid |-> JobId, value |-> f.value]
  <2>1. f.minion \in Minions /\ f.value \in Value
    BY <1>2, <1>6, FrameIsTyped
  <2>2. ret \in Return /\ ret.value = f.value /\ ret.jid # NoJid
    BY <1>4, <2>1, PythonJobAssumption, NoJidAssumption DEF Return
  <2>3. a = AddMinion(acc[w], f.minion, ret)
    BY <1>6
  <2>4. /\ a \in AccType
        /\ Returned(a) = Returned(acc[w]) \cup {f.minion}
        /\ a.expectedKnown = acc[w].expectedKnown /\ a.expected = acc[w].expected
        /\ a.byMinion = [acc[w].byMinion EXCEPT ![f.minion] = ret]
    <3> HIDE DEF ret, a
    <3>1. a \in AccType /\ Returned(a) = Returned(acc[w]) \cup {f.minion}
      BY <1>1, <2>1, <2>2, <2>3, AddMinionType, ReturnedOfAddMinion
    <3>2. Stamped(acc[w], ret) = ret
      BY <2>2 DEF Stamped
    <3>3. QED
      BY <1>1, <2>3, <3>1, <3>2 DEF AddMinion, AccType
  <2>5. f.value = cache[f.minion]
    BY <1>1, <1>2, <1>6 DEF Conveys
  <2> HIDE DEF a
  <2>6. \A m \in Returned(a) : a.byMinion[m].value = cache[m]
    BY <1>1, <2>1, <2>2, <2>4, <2>5 DEF Conveys, AccType, Returned
  <2>7. Delivered(stdout[w]) \subseteq Delivered(s) \cup {f.minion}
    BY <1>2 DEF Delivered
  <2>8. Conveys(a, helper[w], s)
    BY <1>1, <1>2, <1>6, <2>4, <2>6, <2>7 DEF Conveys
  <2>9. QED
    BY <1>1, <1>2, <1>3, <2>4, <2>8
<1>7. QED
  BY <1>1, <1>5, <1>6
------------------------------------------------------------------------------
\* The invariant, one lemma for each group of steps.

LEMMA InitInv == Init => Inv
<1> SUFFICES ASSUME Init PROVE Inv
  OBVIOUS
<1>1. TypeOK
  BY NoOutcomeType, NewAccumulatorType, NoHelperType, PythonJobAssumption
     DEF Init, TypeOK, Snapshot, PCs
<1>2. Linked /\ OneHelper /\ Answered /\ Pipe /\ Settling
  BY PythonJobAssumption
     DEF Init, Linked, OneHelper, Answered, Pipe, Settling, done, Leading, NoHelper
<1>3. QED
  BY <1>1, <1>2 DEF Inv

LEMMA CachesInv ==
    ASSUME Inv, NEW m \in Minions, NEW v \in Reports[m], SaltCaches(m, v)
    PROVE  Inv'
<1> USE DEF Inv
<1>1. v \in Value
  BY PythonJobAssumption
<1>2. /\ UNCHANGED <<jobVars, pc, ctx, waitVars, helperVars>>
      /\ cache' = [cache EXCEPT ![m] = v] /\ cache[m] = "none" /\ cache \in Snapshot
  BY DEF SaltCaches, TypeOK
<1>3. cache' \in Snapshot
  BY <1>1, <1>2 DEF Snapshot
<1>4. TypeOK'
  BY <1>2, <1>3 DEF TypeOK, jobVars, waitVars, helperVars
<1>5. \A n \in Minions : cache[n] # "none" => cache'[n] = cache[n]
  BY <1>2 DEF Snapshot
<1>6. ASSUME NEW out \in Outcome, Faithful(out) PROVE Faithful(out)'
  <2>1. \A n \in Returned(out.result) : out.result.byMinion[n].value # "none"
    BY DEF Outcome, ResultType, Entry, Return, NoReturn, Returned, Value
  <2>2. expected \subseteq Minions
    BY DEF TypeOK
  <2>3. QED
    BY <1>2, <1>5, <1>6, <2>1, <2>2 DEF Faithful, jobVars, Returned
<1>7. ASSUME NEW w \in Waits, pc[w] = "read"
      PROVE  Conveys(acc[w], helper[w], stdout[w])'
  <2>1. acc[w] \in AccType /\ stdout[w] \in Seq(Frame)
        /\ Conveys(acc[w], helper[w], stdout[w])
    BY <1>7 DEF TypeOK, Pipe
  <2>2. \A n \in Returned(acc[w]) : acc[w].byMinion[n].value # "none"
    BY <2>1 DEF AccType, Entry, Return, NoReturn, Returned, Value
  <2>3. \A f \in Frames(stdout[w]) :
            f.type = "return" => f.minion \in Minions /\ f.value # "none"
    BY <2>1, FramesOf, FrameIsTyped DEF Value
  <2>4. Present(cache) \subseteq Present(cache')
    BY <1>5 DEF Present
  <2>5. /\ \A n \in Returned(acc[w]) : acc[w].byMinion[n].value = cache'[n]
        /\ \A f \in Frames(stdout[w]) : f.type = "return" => f.value = cache'[f.minion]
        /\ helper[w].pending \subseteq Present(cache')
    <3>1. Returned(acc[w]) \subseteq Minions
      BY DEF Returned
    <3>2. QED
      BY <1>5, <2>1, <2>2, <2>3, <2>4, <3>1 DEF Conveys
  <2>6. /\ expected' = expected /\ jobWaitTimeout' = jobWaitTimeout
        /\ acc' = acc /\ helper' = helper /\ stdout' = stdout
    BY <1>2 DEF jobVars, helperVars
  <2>7. QED
    BY <2>1, <2>5, <2>6 DEF Conveys
<1>8. Pipe'
  BY <1>2, <1>7 DEF Pipe
<1>9. Settling'
  BY <1>2, <1>6 DEF Settling, waitVars, TypeOK, done
<1>10. Linked' /\ OneHelper' /\ Answered'
  BY <1>2 DEF Linked, OneHelper, Answered, waitVars, helperVars, done
<1>11. QED
  BY <1>4, <1>8, <1>9, <1>10

\* The steps of the helper, and the reading of its frames.
LEMMA HelperInv ==
    ASSUME Inv, NEW w \in Waits, HelperAct(w) \/ ReadFrame(w)
    PROVE  Inv'
<1> USE DEF Inv
<1>1. PICK a \in AccType, h \in Helper, s \in Seq(Frame) :
        /\ acc' = [acc EXCEPT ![w] = a]
        /\ helper' = [helper EXCEPT ![w] = h]
        /\ stdout' = [stdout EXCEPT ![w] = s]
        /\ h.at # "off"
        /\ Conveys(a, h, s)
  <2>1. acc = [acc EXCEPT ![w] = acc[w]] /\ helper = [helper EXCEPT ![w] = helper[w]]
        /\ acc[w] \in AccType /\ helper[w] \in Helper
    BY DEF TypeOK
  <2>2. CASE HelperAct(w)
    BY <2>1, <2>2, HelperEffect
  <2>3. CASE ReadFrame(w)
    <3>1. helper[w].at # "off"
      BY <2>3, ReadFrameEffect DEF OneHelper
    <3>2. QED
      BY <2>1, <2>3, <3>1, ReadFrameEffect
  <2>4. QED
    BY <2>2, <2>3
<1>2. UNCHANGED <<jobVars, cache, pc, ctx, waitVars>> /\ pc[w] = "read"
  BY HelperEffect, ReadFrameEffect
<1>3. TypeOK'
  BY <1>1, <1>2 DEF TypeOK, jobVars, waitVars
<1>4. Linked' /\ Answered'
  BY <1>1, <1>2 DEF Linked, Answered, waitVars, done, TypeOK
<1>5. OneHelper'
  BY <1>1, <1>2 DEF OneHelper, waitVars, done, TypeOK
<1>6. ASSUME NEW u \in Waits, pc[u] = "read"
      PROVE  Conveys(acc'[u], helper'[u], stdout'[u])
  <2>1. CASE u = w
    BY <1>1, <2>1 DEF TypeOK
  <2>2. CASE u # w
    BY <1>1, <1>6, <2>2 DEF TypeOK, Pipe
  <2>3. QED
    BY <2>1, <2>2
<1>7. Pipe'
  BY <1>2, <1>6 DEF Pipe, Conveys, jobVars
<1>8. Settling'
  BY <1>2 DEF Settling, Faithful, jobVars, waitVars, done
<1>9. QED
  BY <1>3, <1>4, <1>5, <1>7, <1>8

LEMMA StartInv ==
    ASSUME Inv, NEW w \in Waits, StartHelper(w)
    PROVE  Inv'
<1> USE DEF Inv
<1> DEFINE a == SetExpected(NewAccumulator, JobId, expected)
           h == [helper[w] EXCEPT !.at = "lookup"]
           f == [type |-> "minions"]
<1>1. expected \subseteq Minions /\ helper[w] \in Helper /\ pc[w] = "begin"
  BY DEF TypeOK, StartHelper
<1>2. /\ UNCHANGED <<jobVars, cache, ctx, waitVars>>
      /\ pc' = [pc EXCEPT ![w] = "read"]
      /\ acc' = [acc EXCEPT ![w] = a]
      /\ helper' = [helper EXCEPT ![w] = h]
      /\ stdout' = [stdout EXCEPT ![w] = << f >>]
  BY DEF StartHelper, TypeOK
<1>3. a \in AccType /\ a.expectedKnown /\ a.expected = expected /\ Returned(a) = {}
  BY <1>1, FreshType
<1>4. f \in Frame /\ f.type = "minions"
  BY DEF Frame
<1> HIDE DEF a, f
<1>5. << f >> \in Seq(Frame) /\ Frames(<< f >>) = {f}
  BY <1>4, FramesOf
<1>6. h \in Helper /\ h.at = "lookup"
  BY <1>1 DEF Helper, Running
<1>7. helper[w] = NoHelper
  BY <1>1 DEF OneHelper, Linked
<1>8. h.pending = {} /\ h.seen = {} /\ ~h.late
  BY <1>7 DEF NoHelper
<1> HIDE DEF h
<1>9. Conveys(a, h, << f >>)
  BY <1>3, <1>4, <1>5, <1>6, <1>8 DEF Conveys
<1>10. TypeOK'
  BY <1>2, <1>3, <1>5, <1>6 DEF TypeOK, jobVars, waitVars, PCs, Leading
<1>11. Linked' /\ Answered'
  BY <1>2, <1>6 DEF Linked, Answered, waitVars, done, TypeOK
<1>12. OneHelper'
  BY <1>1, <1>2, <1>6 DEF OneHelper, waitVars, done, TypeOK, Leading
<1>13. ASSUME NEW u \in Waits, pc'[u] = "read"
       PROVE  Conveys(acc'[u], helper'[u], stdout'[u])
  <2>1. CASE u = w
    BY <1>2, <1>9, <2>1 DEF TypeOK
  <2>2. CASE u # w
    BY <1>2, <1>13, <2>2 DEF TypeOK, Pipe
  <2>3. QED
    BY <2>1, <2>2
<1>14. Pipe'
  BY <1>2, <1>13 DEF Pipe, Conveys, jobVars
<1>15. Settling'
  BY <1>2 DEF Settling, Faithful, jobVars, waitVars, done, TypeOK
<1>16. QED
  BY <1>10, <1>11, <1>12, <1>14, <1>15

LEMMA LeavesInv ==
    ASSUME Inv, NEW w \in Waits, Leaves(w)
    PROVE  Inv'
<1> USE DEF Inv
<1>1. PICK r \in ResultType, e \in Errors \ {"none"} :
        /\ LeaveWith(w, r, e)
        /\ e \in {"nil", "exec"} => Faithful(OutcomeOf(r, e))
  BY LeavesEffect
<1> DEFINE out == OutcomeOf(r, e)
<1>2. out \in Outcome /\ out.err # "none" /\ (out.err \in {"nil", "exec"} => Faithful(out))
  BY <1>1, OutcomeOfType DEF OutcomeOf
<1>3. /\ UNCHANGED <<jobVars, cache, ctx, waiting, following, final, acc>>
      /\ pc' = [pc EXCEPT ![w] = "publish"]
      /\ answer' = [answer EXCEPT ![w] = out]
      /\ helper' = [helper EXCEPT ![w] = NoHelper]
      /\ stdout' = [stdout EXCEPT ![w] = << >>]
  BY <1>1 DEF LeaveWith
<1> HIDE DEF out
<1>4. pc[w] \in {"begin", "read"}
  BY LeavesEffect
<1>5. TypeOK'
  BY <1>2, <1>3, NoHelperType DEF TypeOK, jobVars, PCs, Leading
<1>6. Linked' /\ Answered'
  BY <1>2, <1>3 DEF Linked, Answered, done, TypeOK
<1>7. OneHelper'
  BY <1>3, <1>4 DEF OneHelper, done, TypeOK, Leading, NoHelper
<1>8. Pipe'
  <2>1. ASSUME NEW u \in Waits, pc'[u] = "read"
        PROVE  Conveys(acc'[u], helper'[u], stdout'[u])
    BY <1>3, <2>1 DEF TypeOK, Pipe
  <2>2. QED
    BY <1>3, <2>1 DEF Pipe, Conveys, jobVars
<1>9. Settling'
  BY <1>2, <1>3 DEF Settling, Faithful, jobVars, done, TypeOK
<1>10. QED
  BY <1>5, <1>6, <1>7, <1>8, <1>9

\* What the second locked section of Wait does when nobody else has the lead.
LEMMA PublishEffect ==
    ASSUME Inv, NEW w \in Waits, Publish(w)
    PROVE  /\ pc[w] = "publish" /\ ~done /\ waiting = w /\ waiting' = NoWait
           /\ answer' = answer
           /\ pc' = [pc EXCEPT ![w] = "returned"]
           /\ acc' = [acc EXCEPT ![w] = NewAccumulator]
           /\ \/ answer[w].err \in {"nil", "exec"} /\ ctx[w] = "live" /\ final' = answer[w]
              \/ (answer[w].err \in {"nil", "exec"} => ctx[w] = "ended") /\ final' = final
           /\ UNCHANGED <<jobVars, cache, ctx, following, helper, stdout>>
<1>1. pc[w] = "publish" /\ waiting = w /\ ~done
  BY PythonJobAssumption DEF Publish, Inv, OneHelper, Leading
<1>2. answer[w] # NoOutcome
  BY <1>1, NoOutcomeType DEF Inv, Answered
<1>3. final' # NoOutcome => final' = answer[w]
  BY <1>1 DEF Publish, done
<1>4. answer' = [answer EXCEPT ![w] = answer[w]]
  BY <1>3 DEF Publish
<1>5. answer' = answer
  BY <1>4 DEF Inv, TypeOK
<1>6. QED
  BY <1>1, <1>5 DEF Publish, Settles, TerminalWaitError, Inv, TypeOK

LEMMA PublishInv ==
    ASSUME Inv, NEW w \in Waits, Publish(w)
    PROVE  Inv'
<1> USE DEF Inv
<1>1. /\ pc[w] = "publish" /\ ~done /\ waiting = w /\ waiting' = NoWait
      /\ answer' = answer
      /\ pc' = [pc EXCEPT ![w] = "returned"]
      /\ acc' = [acc EXCEPT ![w] = NewAccumulator]
      /\ \/ answer[w].err \in {"nil", "exec"} /\ final' = answer[w]
         \/ final' = final
      /\ UNCHANGED <<jobVars, cache, ctx, following, helper, stdout>>
  BY PublishEffect
<1>2. answer[w] \in Outcome /\ answer[w].err # "none"
  BY <1>1 DEF TypeOK, Answered
<1>3. TypeOK'
  BY <1>1, <1>2, NewAccumulatorType DEF TypeOK, jobVars, PCs
<1>4. Linked'
  BY <1>1 DEF Linked, TypeOK
<1>5. Answered'
  BY <1>1 DEF Answered, done, TypeOK
<1>6. OneHelper'
  BY <1>1, PythonJobAssumption DEF OneHelper, TypeOK, Leading, done
<1>7. Pipe'
  <2>1. ASSUME NEW u \in Waits, pc'[u] = "read"
        PROVE  Conveys(acc'[u], helper'[u], stdout'[u])
    BY <1>1, <2>1 DEF TypeOK, Pipe
  <2>2. QED
    BY <1>1, <2>1 DEF Pipe, Conveys, jobVars
<1>8. Settling'
  <2>1. final' # NoOutcome => Faithful(final')
    BY <1>1 DEF Settling, done
  <2>2. QED
    BY <1>1, <2>1 DEF Settling, Faithful, jobVars, done, TypeOK
<1>9. QED
  BY <1>3, <1>4, <1>5, <1>6, <1>7, <1>8

\* The steps of callers that do not lead, and the first of one that does.
Calls(w) ==
    \/ CallerEnds(w)
    \/ ReturnCached(w) \/ Follow(w) \/ Lead(w)
    \/ FollowerReturns(w) \/ FollowerGivesUp(w)

LEMMA CallsInv ==
    ASSUME Inv, NEW w \in Waits, Calls(w)
    PROVE  Inv'
<1> USE DEF Inv
<1>1. /\ UNCHANGED <<jobVars, cache, final, helperVars>>
      /\ (pc[w] # "read" /\ pc'[w] # "read") \/ UNCHANGED <<pc, answer>>
  BY DEF Calls, CallerEnds, ReturnCached, Follow, Lead, FollowerReturns, FollowerGivesUp,
         waitVars, TypeOK
<1>2. \A u \in Waits \ {w} : pc'[u] = pc[u] /\ answer'[u] = answer[u]
  BY DEF Calls, CallerEnds, ReturnCached, Follow, Lead, FollowerReturns, FollowerGivesUp,
         waitVars, TypeOK
<1>3. OutcomeOf(NilResult, "ctx") \in Outcome
  BY NilResultType, OutcomeOfType DEF Errors
<1>4. TypeOK'
  <2>1. /\ pc' \in [Waits -> PCs] /\ ctx' \in [Waits -> {"live", "ended"}]
        /\ waiting' \in Waits \cup {NoWait} /\ following' \in [Waits -> Waits \cup {NoWait}]
    BY DEF Calls, CallerEnds, ReturnCached, Follow, Lead, FollowerReturns, FollowerGivesUp,
           waitVars, TypeOK, PCs, Leading
  <2>2. answer' \in [Waits -> Outcome]
    <3>1. CASE FollowerReturns(w)
      <4>1. answer[following[w]] \in Outcome
        BY <3>1 DEF TypeOK, Linked, FollowerReturns
      <4>2. QED
        BY <3>1, <4>1 DEF TypeOK, FollowerReturns
    <3>2. CASE ~FollowerReturns(w)
      BY <1>3, <3>2 DEF Calls, CallerEnds, ReturnCached, Follow, Lead, FollowerGivesUp,
             waitVars, TypeOK
    <3>3. QED
      BY <3>1, <3>2
  <2>3. QED
    BY <1>1, <2>1, <2>2 DEF TypeOK, jobVars, helperVars
<1>5. Linked'
  <2>1. \A u \in Waits : pc'[u] = "follow" => following'[u] \in Waits
    BY DEF Linked, Calls, CallerEnds, ReturnCached, Follow, Lead, FollowerReturns,
           FollowerGivesUp, waitVars, TypeOK
  <2>2. QED
    BY <1>1, <2>1 DEF Linked, helperVars
<1>6. Answered'
  <2>1. pc'[w] \in {"publish", "returned"} => answer'[w].err # "none"
    <3>1. CASE ReturnCached(w)
      BY <3>1 DEF ReturnCached, Answered, TypeOK
    <3>2. CASE FollowerReturns(w)
      BY <3>2 DEF FollowerReturns, Answered, Linked, TypeOK
    <3>3. CASE FollowerGivesUp(w)
      BY <3>3 DEF FollowerGivesUp, TypeOK, OutcomeOf
    <3>4. CASE CallerEnds(w) \/ Follow(w) \/ Lead(w)
      BY <3>4 DEF CallerEnds, Follow, Lead, Answered, waitVars, TypeOK
    <3>5. QED
      BY <3>1, <3>2, <3>3, <3>4 DEF Calls
  <2>2. QED
    BY <1>1, <1>2, <2>1 DEF Answered, done
<1>7. OneHelper'
  <2>1. /\ \A u \in Waits : pc'[u] \in Leading <=> waiting' = u
        /\ done => waiting' = NoWait
    BY PythonJobAssumption
       DEF Calls, CallerEnds, ReturnCached, Follow, Lead, FollowerReturns, FollowerGivesUp,
           MayLead, waitVars, TypeOK, OneHelper, Leading
  <2>2. QED
    BY <1>1, <1>2, <2>1 DEF OneHelper, helperVars, done
<1>8. Pipe'
  <2>1. ASSUME NEW u \in Waits, pc'[u] = "read"
        PROVE  Conveys(acc[u], helper[u], stdout[u])
    BY <1>1, <1>2, <2>1 DEF Pipe
  <2>2. QED
    BY <1>1, <2>1 DEF Pipe, Conveys, jobVars, helperVars
<1>9. Settling'
  <2>1. pc'[w] = "publish" => pc[w] = "publish" /\ answer'[w] = answer[w]
    BY DEF Calls, CallerEnds, ReturnCached, Follow, Lead, FollowerReturns, FollowerGivesUp,
           waitVars, TypeOK
  <2>2. QED
    BY <1>1, <1>2, <2>1 DEF Settling, Faithful, jobVars, done
<1>10. QED
  BY <1>4, <1>5, <1>6, <1>7, <1>8, <1>9

LEMMA NextSplit ==
    ASSUME Next
    PROVE  \/ \E m \in Minions : \E v \in Reports[m] : SaltCaches(m, v)
           \/ \E w \in Waits : \/ HelperAct(w) \/ ReadFrame(w)
                               \/ StartHelper(w) \/ Leaves(w) \/ Publish(w)
                               \/ Calls(w)
  BY DEF Next, LeaderStep, HelperAct, Leaves, Calls

LEMMA NextInv == Inv /\ [Next]_vars => Inv'
<1> SUFFICES ASSUME Inv, [Next]_vars PROVE Inv'
  OBVIOUS
<1>1. CASE Next
  BY <1>1, NextSplit, CachesInv, HelperInv, StartInv, LeavesInv, PublishInv, CallsInv
<1>2. CASE UNCHANGED vars
  <2> USE <1>2 DEF Inv, vars, jobVars, waitVars, helperVars
  <2>1. TypeOK'
    BY DEF TypeOK
  <2>2. Linked' /\ OneHelper' /\ Answered'
    BY DEF Linked, OneHelper, Answered, done
  <2>3. Pipe'
    BY DEF Pipe, Conveys
  <2>4. Settling'
    BY DEF Settling, Faithful, done
  <2>5. QED
    BY <2>1, <2>2, <2>3, <2>4
<1>3. QED
  BY <1>1, <1>2

LEMMA InvHolds == Spec => []Inv
  BY InitInv, NextInv, PTL DEF Spec
------------------------------------------------------------------------------
\* Theorems.

\* Every variable keeps to the values the code's fields can hold.
THEOREM TypeCorrect == Spec => []TypeOK
  BY InvHolds, PTL DEF Inv

\* One process at a time polls Salt for a job, that of the call localJob.waiting
\* names, and none once the job is done (python.go, Wait and invokeWait).
THEOREM HelperIsAlone == Spec => []OneHelper
  BY InvHolds, PTL DEF Inv

\* What a job settles on is what Salt holds of the expected minions, whatever
\* helpers, lookups and contexts did (python.go, invokeWait and
\* terminalWaitError; brine_salt_bridge.py, wait_local).
THEOREM SettledIsFaithful == Spec => []SettlesOnWhatSaltHolds
<1>1. Inv => SettlesOnWhatSaltHolds
  <2> SUFFICES ASSUME Inv, done PROVE SettlesOnWhatSaltHolds
    BY DEF SettlesOnWhatSaltHolds
  <2>1. final.err \in {"nil", "exec"} /\ Faithful(final)
    BY DEF Inv, Answered, Settling
  <2>2. QED
    BY <2>1 DEF Faithful, SettlesOnWhatSaltHolds
<1>2. QED
  BY <1>1, InvHolds, PTL

------------------------------------------------------------------------------
(***************************************************************************)
(* PythonJob implements WaitContract.  A complete outcome that was given   *)
(* is the one the job retains, or the leader's context had ended; and that *)
(* context stays as it was, because the leader has returned.               *)
(***************************************************************************)
Placed(w) ==
    /\ pc[w] = "idle" => ctx[w] = "live"
    /\ pc[w] \in Leading \cup {"idle"} => following[w] = NoWait
    /\ following[w] # NoWait =>
         /\ following[w] \in Waits
         /\ pc[following[w]] \in Leading \cup {"returned"}
         /\ following[following[w]] = NoWait

Kept(w) ==
    pc[w] = "returned" /\ answer[w].err \in {"nil", "exec"} =>
        /\ pc[LeaderOf(w)] = "returned"
        /\ final = answer[w] \/ ctx[LeaderOf(w)] = "ended"

Retained == \A w \in Waits : Placed(w) /\ Kept(w)

\* What a step is to the contract: nothing at all, a step of the leader's own, the
\* opening of a call, or the answer to one.
Quiet ==
    /\ UNCHANGED <<pc, answer, final, following>>
    /\ \A w \in Waits : pc[w] \in {"idle", "returned"} => ctx'[w] = ctx[w]

Moves(w) ==
    /\ pc[w] \in {"begin", "read"} /\ pc'[w] \in {"read", "publish"}
    /\ pc' = [pc EXCEPT ![w] = pc'[w]]
    /\ \A u \in Waits \ {w} : answer'[u] = answer[u]
    /\ UNCHANGED <<final, following, ctx>>

Answers(w) ==
    ReturnCached(w) \/ Publish(w) \/ FollowerReturns(w) \/ FollowerGivesUp(w)

LEMMA StepSplit ==
    ASSUME Inv, [Next]_vars
    PROVE  \/ Quiet
           \/ \E w \in Waits : Moves(w) \/ Lead(w) \/ Follow(w) \/ Answers(w)
<1> USE DEF Inv
<1>1. ASSUME NEW m \in Minions, NEW v \in Reports[m], SaltCaches(m, v)
      PROVE  Quiet
  BY <1>1 DEF SaltCaches, Quiet, waitVars
<1>2. ASSUME NEW w \in Waits, HelperAct(w) \/ ReadFrame(w)
      PROVE  Quiet
  <2>1. UNCHANGED <<pc, ctx, waitVars>>
    BY <1>2, HelperEffect, ReadFrameEffect
  <2>2. QED
    BY <2>1 DEF Quiet, waitVars
<1>3. ASSUME NEW w \in Waits, StartHelper(w)
      PROVE  Moves(w)
  BY <1>3 DEF StartHelper, Moves, waitVars, TypeOK
<1>4. ASSUME NEW w \in Waits, Leaves(w)
      PROVE  Moves(w)
  <2>1. PICK r \in ResultType, e \in Errors \ {"none"} : LeaveWith(w, r, e)
    BY <1>4, LeavesEffect
  <2>2. pc[w] \in {"begin", "read"}
    BY <1>4, LeavesEffect
  <2>3. QED
    BY <2>1, <2>2 DEF LeaveWith, Moves, TypeOK
<1>5. ASSUME NEW w \in Waits, CallerEnds(w)
      PROVE  Quiet
  BY <1>5 DEF CallerEnds, Quiet, waitVars, TypeOK, Leading
<1>6. CASE UNCHANGED vars
  BY <1>6 DEF vars, waitVars, Quiet
<1>7. QED
  BY <1>1, <1>2, <1>3, <1>4, <1>5, <1>6, NextSplit DEF Calls, Answers

\* What an answer leaves alone.
LEMMA AnswersEffect ==
    ASSUME Inv, NEW w \in Waits, Answers(w)
    PROVE  /\ pc[w] \in {"idle", "publish", "follow"}
           /\ pc' = [pc EXCEPT ![w] = "returned"]
           /\ \A u \in Waits \ {w} : answer'[u] = answer[u]
           /\ UNCHANGED <<following, ctx>>
           /\ final # NoOutcome => final' = final
<1>1. CASE Publish(w)
  BY <1>1, PublishEffect DEF done
<1>2. CASE ~Publish(w)
  BY <1>2 DEF Answers, ReturnCached, FollowerReturns, FollowerGivesUp, Inv, TypeOK
<1>3. QED
  BY <1>1, <1>2

\* The outcome of the call that is being answered is retained or has lapsed.
LEMMA AnswerIsKept ==
    ASSUME Inv, Retained, NEW w \in Waits, Answers(w)
    PROVE  /\ answer'[w] \in Outcome /\ answer'[w].err # "none"
           /\ answer'[w].err \in {"nil", "exec"} =>
                /\ LeaderOf(w) \in Waits
                /\ pc'[LeaderOf(w)] = "returned"
                /\ final' = answer'[w] \/ ctx[LeaderOf(w)] = "ended"
<1> USE DEF Inv
<1>1. pc \in [Waits -> PCs] /\ pc' = [pc EXCEPT ![w] = "returned"]
  BY AnswersEffect DEF TypeOK
<1>2. CASE ReturnCached(w)
  <2>1. answer'[w] = final /\ final' = final /\ final # NoOutcome /\ LeaderOf(w) = w
    BY <1>2 DEF ReturnCached, TypeOK, Retained, Placed, LeaderOf, done
  <2>2. QED
    BY <1>1, <2>1 DEF TypeOK, Answered, done
<1>3. CASE Publish(w)
  <2>1. LeaderOf(w) = w /\ answer'[w] = answer[w]
    BY <1>3, PublishEffect DEF Retained, Placed, LeaderOf, Leading
  <2>2. answer[w] \in Outcome /\ answer[w].err # "none"
    BY <1>3 DEF Publish, TypeOK, Answered
  <2>3. QED
    BY <1>1, <1>3, <2>1, <2>2, PublishEffect
<1>4. CASE FollowerReturns(w)
  <2> DEFINE l == following[w]
  <2>1. l \in Waits /\ l # w /\ pc[l] = "returned" /\ pc[w] = "follow"
        /\ answer'[w] = answer[l] /\ final' = final
    BY <1>4 DEF FollowerReturns, Linked, TypeOK
  <2>2. LeaderOf(w) = l /\ LeaderOf(l) = l
    BY <2>1, PythonJobAssumption DEF Retained, Placed, LeaderOf
  <2>3. answer[l] \in Outcome /\ answer[l].err # "none" /\ Kept(l)
    BY <2>1 DEF TypeOK, Answered, Retained
  <2>4. pc'[l] = "returned"
    BY <1>1, <2>1
  <2> HIDE DEF l
  <2>5. QED
    BY <2>1, <2>2, <2>3, <2>4 DEF Kept
<1>5. CASE FollowerGivesUp(w)
  <2>1. answer'[w] = OutcomeOf(NilResult, "ctx")
    BY <1>5 DEF FollowerGivesUp, TypeOK
  <2>2. OutcomeOf(NilResult, "ctx") \in Outcome
    BY NilResultType, OutcomeOfType DEF Errors
  <2>3. OutcomeOf(NilResult, "ctx").err = "ctx"
    BY DEF OutcomeOf
  <2>4. QED
    BY <2>1, <2>2, <2>3
<1>6. QED
  BY <1>2, <1>3, <1>4, <1>5 DEF Answers

\* Calls that a step does not answer are as well off as before.
LEMMA KeptStays ==
    ASSUME Inv, Retained, [Next]_vars, NEW u \in Waits, pc[u] = "returned"
    PROVE  /\ pc'[u] = "returned" /\ answer'[u] = answer[u]
           /\ following'[u] = following[u] /\ ctx'[u] = ctx[u]
           /\ final # NoOutcome => final' = final
<1> USE DEF Inv
<1>1. CASE Quiet
  BY <1>1 DEF Quiet
<1>2. ASSUME NEW w \in Waits, Moves(w)
      PROVE  /\ pc'[u] = "returned" /\ answer'[u] = answer[u]
             /\ following'[u] = following[u] /\ ctx'[u] = ctx[u] /\ final' = final
  BY <1>2 DEF Moves, TypeOK
<1>3. ASSUME NEW w \in Waits, Lead(w) \/ Follow(w)
      PROVE  /\ pc'[u] = "returned" /\ answer'[u] = answer[u]
             /\ following'[u] = following[u] /\ ctx'[u] = ctx[u] /\ final' = final
  BY <1>3 DEF Lead, Follow, TypeOK
<1>4. ASSUME NEW w \in Waits, Answers(w)
      PROVE  /\ pc'[u] = "returned" /\ answer'[u] = answer[u]
             /\ following'[u] = following[u] /\ ctx'[u] = ctx[u]
             /\ final # NoOutcome => final' = final
  BY <1>4, AnswersEffect DEF TypeOK
<1>5. QED
  BY <1>1, <1>2, <1>3, <1>4, StepSplit

LEMMA InitRetained == Init => Retained
  BY DEF Init, Retained, Placed, Kept

LEMMA NextRetained ==
    ASSUME Inv, Retained, [Next]_vars
    PROVE  Retained'
<1> USE DEF Inv
<1>1. ASSUME NEW u \in Waits
      PROVE  Placed(u)'
  <2>1. CASE Quiet
    BY <2>1 DEF Quiet, Retained, Placed
  <2>2. ASSUME NEW w \in Waits, Moves(w)
        PROVE  Placed(u)'
    BY <2>2 DEF Moves, Retained, Placed, TypeOK, Leading
  <2>3. ASSUME NEW w \in Waits, Lead(w)
        PROVE  Placed(u)'
    BY <2>3 DEF Lead, Retained, Placed, TypeOK, Leading
  <2>4. ASSUME NEW w \in Waits, Follow(w)
        PROVE  Placed(u)'
    BY <2>4, PythonJobAssumption DEF Follow, Retained, Placed, TypeOK, Leading, OneHelper
  <2>5. ASSUME NEW w \in Waits, Answers(w)
        PROVE  Placed(u)'
    <3>1. /\ pc[w] \in {"idle", "publish", "follow"} /\ pc \in [Waits -> PCs]
          /\ pc' = [pc EXCEPT ![w] = "returned"] /\ UNCHANGED <<following, ctx>>
      BY <2>5, AnswersEffect DEF TypeOK
    <3>2. \A v \in Waits : pc'[v] = IF v = w THEN "returned" ELSE pc[v]
      BY <3>1
    <3>3. QED
      BY <3>1, <3>2 DEF Retained, Placed, Leading
  <2>6. QED
    BY <2>1, <2>2, <2>3, <2>4, <2>5, StepSplit
<1>2. ASSUME NEW u \in Waits, pc'[u] = "returned", answer'[u].err \in {"nil", "exec"}
      PROVE  /\ pc'[LeaderOf(u)'] = "returned"
             /\ final' = answer'[u] \/ ctx'[LeaderOf(u)'] = "ended"
  <2>1. CASE pc[u] = "returned"
    <3>1. /\ answer'[u] = answer[u] /\ following'[u] = following[u]
          /\ final # NoOutcome => final' = final
      BY <2>1, KeptStays
    <3>2. LeaderOf(u)' = LeaderOf(u) /\ LeaderOf(u) \in Waits
      BY <3>1 DEF LeaderOf, Retained, Placed
    <3>3. /\ pc[LeaderOf(u)] = "returned"
          /\ final = answer[u] \/ ctx[LeaderOf(u)] = "ended"
      BY <1>2, <2>1, <3>1 DEF Retained, Kept
    <3>4. pc'[LeaderOf(u)] = "returned" /\ ctx'[LeaderOf(u)] = ctx[LeaderOf(u)]
      BY <3>2, <3>3, KeptStays
    <3>5. final = answer[u] => final # NoOutcome
      BY <1>2, <3>1, NoOutcomeType
    <3>6. QED
      BY <3>1, <3>2, <3>3, <3>4, <3>5
  <2>2. CASE pc[u] # "returned"
    <3>1. Answers(u)
      BY <1>2, <2>2, StepSplit, AnswersEffect
         DEF Quiet, Moves, Lead, Follow, TypeOK
    <3>2. UNCHANGED <<following, ctx>>
      BY <3>1, AnswersEffect
    <3>3. LeaderOf(u)' = LeaderOf(u)
      BY <3>2 DEF LeaderOf
    <3>4. QED
      BY <1>2, <3>1, <3>2, <3>3, AnswerIsKept
  <2>3. QED
    BY <2>1, <2>2
<1>3. \A u \in Waits : Kept(u)'
  BY <1>2 DEF Kept
<1>4. QED
  BY <1>1, <1>3 DEF Retained

LEMMA RetainedHolds == Spec => []Retained
<1>1. Inv /\ Retained /\ [Next]_vars => Retained'
  BY NextRetained
<1>2. QED
  BY <1>1, InitRetained, InvHolds, PTL DEF Spec
------------------------------------------------------------------------------
\* The state of the contract.
finalBar  == Marked(final, FALSE)
phaseBar  == [w \in Waits |-> IF pc[w] = "idle" THEN "idle"
                              ELSE IF pc[w] = "returned" THEN "answered" ELSE "open"]
answerBar == [w \in Waits |-> IF pc[w] = "returned" THEN Marked(answer[w], Lapsed(w))
                              ELSE Marked(NoOutcome, FALSE)]

\* A mark loses nothing of an outcome.
LEMMA MarksDiffer ==
    ASSUME NEW o \in Outcome, NEW p \in Outcome,
           Marked(o, FALSE) = Marked(p, FALSE)
    PROVE  o = p
<1>1. o.result = p.result /\ o.err = p.err
  BY DEF Marked
<1>2. QED
  BY <1>1 DEF Outcome

\* What was answered keeps its mark.
LEMMA LapsedStays ==
    ASSUME Inv, Retained, [Next]_vars, NEW u \in Waits, pc[u] = "returned"
    PROVE  pc'[u] = "returned" /\ answerBar'[u] = answerBar[u]
<1>1. pc'[u] = "returned" /\ answer'[u] = answer[u] /\ following'[u] = following[u]
  BY KeptStays
<1>2. LeaderOf(u)' = LeaderOf(u)
  BY <1>1 DEF LeaderOf
<1>3. answer[u].err \in {"nil", "exec"} => ctx'[LeaderOf(u)] = ctx[LeaderOf(u)]
  <2>1. LeaderOf(u) \in Waits
    BY DEF LeaderOf, Retained, Placed
  <2>2. answer[u].err \in {"nil", "exec"} => pc[LeaderOf(u)] = "returned"
    BY DEF Retained, Kept
  <2>3. QED
    BY <2>1, <2>2, KeptStays
<1>4. Lapsed(u)' = Lapsed(u)
  BY <1>1, <1>2, <1>3 DEF Lapsed
<1>5. QED
  BY <1>1, <1>4 DEF answerBar

\* A step that answers nobody leaves the answers of the contract alone.
LEMMA OthersStay ==
    ASSUME Inv, Retained, [Next]_vars, NEW u \in Waits,
           pc'[u] = "returned" => pc[u] = "returned"
    PROVE  answerBar'[u] = answerBar[u]
<1>1. CASE pc[u] = "returned"
  BY <1>1, LapsedStays
<1>2. CASE pc[u] # "returned"
  BY <1>2 DEF answerBar
<1>3. QED
  BY <1>1, <1>2

LEMMA AnswersStep ==
    ASSUME Inv, Inv', Retained, Retained', [Next]_vars, NEW w \in Waits, Answers(w)
    PROVE  Contract!Replay(w) \/ Contract!Settle(w) \/ Contract!GiveUp(w)
<1> USE DEF Inv
<1>1. /\ pc[w] \in {"idle", "publish", "follow"}
      /\ pc' = [pc EXCEPT ![w] = "returned"]
      /\ UNCHANGED <<following, ctx>> /\ (final # NoOutcome => final' = final)
      /\ pc \in [Waits -> PCs]
  BY AnswersEffect DEF TypeOK
<1>2. /\ phaseBar' = [phaseBar EXCEPT ![w] = "answered"]
      /\ phaseBar[w] = IF pc[w] = "idle" THEN "idle" ELSE "open"
  BY <1>1 DEF phaseBar
<1>3. answerBar' = [answerBar EXCEPT ![w] = answerBar'[w]]
  <2>1. \A u \in Waits \ {w} : answerBar'[u] = answerBar[u]
    BY <1>1, OthersStay
  <2>2. QED
    BY <2>1 DEF answerBar
<1>4. answerBar'[w] = Marked(answer'[w], Lapsed(w)')
  BY <1>1 DEF answerBar
<1>5. /\ answer'[w] \in Outcome /\ answer'[w].err # "none"
      /\ answer'[w].err \in {"nil", "exec"} =>
           final' = answer'[w] \/ ctx[LeaderOf(w)] = "ended"
  BY AnswerIsKept
<1>6. LeaderOf(w)' = LeaderOf(w) /\ Lapsed(w)' \in BOOLEAN
      /\ (Lapsed(w)' <=> answer'[w].err \in {"nil", "exec"} /\ ctx[LeaderOf(w)] = "ended")
  BY <1>1 DEF LeaderOf, Lapsed
<1>7. final \in Outcome /\ final' \in Outcome /\ NoOutcome \in Outcome
  BY NoOutcomeType DEF TypeOK
<1> DEFINE out == answer'[w]
<1> HIDE DEF out
<1>8. out \in Outcome /\ out.err # "none" /\ answerBar'[w] = Marked(out, Lapsed(w)')
  BY <1>4, <1>5 DEF out
<1>9. CASE ReturnCached(w)
  <2>1. out = final /\ final # NoOutcome /\ final' = final /\ pc[w] = "idle" /\ ctx[w] = "live"
    BY <1>9 DEF ReturnCached, out, TypeOK, done, Retained, Placed
  <2>2. LeaderOf(w) = w
    BY <2>1 DEF Retained, Placed, LeaderOf
  <2>3. Lapsed(w)' = FALSE
    BY <1>6, <2>1, <2>2
  <2>4. Marked(final, FALSE) # Marked(NoOutcome, FALSE)
    BY <1>7, <2>1, MarksDiffer
  <2>5. answerBar'[w] = finalBar /\ finalBar' = finalBar
    BY <1>8, <2>1, <2>3 DEF finalBar
  <2>6. QED
    BY <1>2, <1>3, <2>1, <2>4, <2>5
       DEF Contract!Replay, Contract!Answer, finalBar, phaseBar, answerBar
<1>10. CASE pc[w] # "idle" /\ final' = final /\ (out.err \in {"nil", "exec"} => Lapsed(w)')
  <2>1. out.err \in {"nil", "exec"} <=> Lapsed(w)'
    BY <1>6, <1>10 DEF out
  <2>2. Marked(out, Lapsed(w)') \in
          [result : ResultType, err : {"nil", "exec"}, lapsed : {TRUE}] \cup
          [result : ResultType, err : Errors \ {"none", "nil", "exec"}, lapsed : {FALSE}]
    <3>1. out.result \in ResultType /\ out.err \in Errors
      BY <1>8 DEF Outcome
    <3>2. CASE Lapsed(w)' = TRUE
      BY <2>1, <3>1, <3>2 DEF Marked
    <3>3. CASE Lapsed(w)' = FALSE
      BY <1>8, <2>1, <3>1, <3>3 DEF Marked
    <3>4. QED
      BY <1>6, <3>2, <3>3
  <2>3. finalBar' = finalBar
    BY <1>10 DEF finalBar
  <2>4. phaseBar[w] = "open"
    BY <1>2, <1>10
  <2>5. Contract!GiveUp(w)
    BY <1>2, <1>3, <1>8, <2>2, <2>3, <2>4
       DEF Contract!GiveUp, Contract!Answer, finalBar, phaseBar, answerBar
  <2>6. QED
    BY <2>5
<1>11. ASSUME pc[w] # "idle", out.err \in {"nil", "exec"}, ~Lapsed(w)'
       PROVE  /\ answerBar'[w] = Marked(out, FALSE) /\ final' = out
              /\ phaseBar[w] = "open"
  <2>1. final' = out
    BY <1>5, <1>6, <1>11 DEF out
  <2>2. Lapsed(w)' = FALSE
    BY <1>6, <1>11
  <2>3. QED
    BY <1>2, <1>8, <1>11, <2>1, <2>2
<1>12. CASE Publish(w)
  <2>1. final = NoOutcome /\ pc[w] = "publish" /\ out = answer[w]
        /\ \/ out.err \in {"nil", "exec"} /\ ctx[w] = "live"
           \/ (out.err \in {"nil", "exec"} => ctx[w] = "ended") /\ final' = final
    BY <1>12, PublishEffect DEF done, out
  <2>2. LeaderOf(w) = w
    BY <2>1 DEF Retained, Placed, LeaderOf, Leading
  <2>3. CASE out.err \in {"nil", "exec"} /\ ctx[w] = "live"
    <3>1. ~Lapsed(w)'
      BY <1>6, <2>2, <2>3
    <3>2. answerBar'[w] = Marked(out, FALSE) /\ final' = out /\ phaseBar[w] = "open"
      BY <1>11, <2>1, <2>3, <3>1
    <3>3. Marked(out, FALSE) \in [result : ResultType, err : {"nil", "exec"}, lapsed : {FALSE}]
      BY <1>8, <2>3 DEF Outcome, Marked
    <3>4. finalBar = Marked(NoOutcome, FALSE) /\ finalBar' = answerBar'[w]
      BY <2>1, <3>2 DEF finalBar
    <3>5. Contract!Settle(w)
      BY <1>2, <1>3, <3>2, <3>3, <3>4
         DEF Contract!Settle, Contract!Answer, finalBar, phaseBar, answerBar
    <3>6. QED
      BY <3>5
  <2>4. CASE (out.err \in {"nil", "exec"} => ctx[w] = "ended") /\ final' = final
    BY <1>6, <1>10, <2>1, <2>2, <2>4 DEF out
  <2>5. QED
    BY <2>1, <2>3, <2>4
<1>13. CASE FollowerReturns(w) \/ FollowerGivesUp(w)
  <2>1. pc[w] = "follow" /\ final' = final
    BY <1>13 DEF FollowerReturns, FollowerGivesUp
  <2>2. CASE out.err \in {"nil", "exec"} => Lapsed(w)'
    BY <1>10, <2>1, <2>2
  <2>3. CASE out.err \in {"nil", "exec"} /\ ~Lapsed(w)'
    <3>1. answerBar'[w] = Marked(out, FALSE) /\ final' = out /\ phaseBar[w] = "open"
      BY <1>11, <2>1, <2>3
    <3>2. final # NoOutcome
      BY <1>8, <2>1, <3>1, NoOutcomeType
    <3>3. finalBar # Marked(NoOutcome, FALSE)
      BY <1>7, <3>2, MarksDiffer DEF finalBar
    <3>4. answerBar'[w] = finalBar /\ finalBar' = finalBar
      BY <2>1, <3>1 DEF finalBar
    <3>5. Contract!Replay(w)
      BY <1>2, <1>3, <3>1, <3>3, <3>4
         DEF Contract!Replay, Contract!Answer, finalBar, phaseBar, answerBar
    <3>6. QED
      BY <3>5
  <2>4. QED
    BY <2>2, <2>3
<1>14. QED
  BY <1>9, <1>12, <1>13 DEF Answers

LEMMA ContractStep ==
    ASSUME Inv, Inv', Retained, Retained', [Next]_vars
    PROVE  Contract!Next \/ UNCHANGED <<finalBar, phaseBar, answerBar>>
<1> USE DEF Inv
<1>1. CASE Quiet
  <2>1. \A u \in Waits : answerBar'[u] = answerBar[u]
    BY <1>1, OthersStay DEF Quiet
  <2>2. UNCHANGED <<finalBar, phaseBar>>
    BY <1>1 DEF Quiet, finalBar, phaseBar
  <2>3. QED
    BY <2>1, <2>2 DEF answerBar
<1>2. ASSUME NEW w \in Waits, Moves(w)
      PROVE  UNCHANGED <<finalBar, phaseBar, answerBar>>
  <2>1. /\ pc[w] \in {"begin", "read"} /\ pc'[w] \in {"read", "publish"}
        /\ pc' = [pc EXCEPT ![w] = pc'[w]] /\ final' = final /\ pc \in [Waits -> PCs]
    BY <1>2 DEF Moves, TypeOK
  <2>2. \A u \in Waits : answerBar'[u] = answerBar[u]
    BY <2>1, OthersStay
  <2>3. answerBar' = answerBar
    BY <2>2 DEF answerBar
  <2>4. phaseBar' = phaseBar
    BY <2>1 DEF phaseBar
  <2>5. QED
    BY <2>1, <2>3, <2>4 DEF finalBar
<1>3. ASSUME NEW w \in Waits, Lead(w) \/ Follow(w)
      PROVE  Contract!Open(w)
  <2>1. /\ pc[w] = "idle" /\ pc'[w] \in {"begin", "follow"} /\ final = NoOutcome
        /\ pc' = [pc EXCEPT ![w] = pc'[w]] /\ final' = final /\ pc \in [Waits -> PCs]
    BY <1>3 DEF Lead, Follow, MayLead, done, TypeOK
  <2>2. \A u \in Waits : answerBar'[u] = answerBar[u]
    BY <2>1, OthersStay
  <2>3. answerBar' = answerBar
    BY <2>2 DEF answerBar
  <2>4. phaseBar[w] = "idle" /\ phaseBar' = [phaseBar EXCEPT ![w] = "open"]
    BY <2>1 DEF phaseBar
  <2>5. finalBar' = finalBar /\ finalBar = Marked(NoOutcome, FALSE)
    BY <2>1 DEF finalBar
  <2>6. QED
    BY <2>3, <2>4, <2>5 DEF Contract!Open, finalBar, phaseBar, answerBar
<1>4. CASE \E w \in Waits : Answers(w)
  BY <1>4, AnswersStep DEF Contract!Next
<1>5. QED
  BY <1>1, <1>2, <1>3, <1>4, StepSplit DEF Contract!Next

\* Wait is idempotent over the Python transport too: for any callers, contexts and
\* helpers, what the callers see is what the contract allows.
THEOREM Idempotent == Spec => WaitIsIdempotent
<1>1. Init => Contract!Init
  BY DEF Init, Contract!Init
<1>2. Inv /\ Inv' /\ Retained /\ Retained' /\ [Next]_vars
      => [Contract!Next]_(Contract!contractVars)
  BY ContractStep DEF Contract!contractVars, finalBar, phaseBar, answerBar
<1>3. QED
  BY <1>1, <1>2, InvHolds, RetainedHolds, PTL DEF Spec, WaitIsIdempotent, Contract!Spec
==============================================================================
