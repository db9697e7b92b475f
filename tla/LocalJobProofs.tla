--------------------------- MODULE LocalJobProofs ---------------------------
(***************************************************************************)
(* Theorems about LocalJob, for any number of calls of Wait, minions and   *)
(* job IDs, with or without JobWaitTimeout and event streams.              *)
(***************************************************************************)
EXTENDS LocalJob, AccumulatorProofs

------------------------------------------------------------------------------
\* Types of what the actions compute.

LEMMA OutcomeOfType ==
    ASSUME NEW r \in ResultType, NEW e \in Errors, NEW t \in BOOLEAN
    PROVE  OutcomeOf(r, e, t) \in Outcome
  BY DEF OutcomeOf, Outcome

LEMMA NilResultType ==
    NilResult \in ResultType
  BY DEF NilResult, ResultType, JidOrNone, Entry

LEMMA NoOutcomeType ==
    NoOutcome \in Outcome /\ NoOutcome.err = "none" /\ ~NoOutcome.terminal
  BY NilResultType, OutcomeOfType DEF NoOutcome, OutcomeOf, Errors

LEMMA NoMinionsOutcomeType ==
    NoMinionsOutcome \in Outcome
<1>1. [NilResult EXCEPT !.jid = JobId, !.failure = TRUE] \in ResultType
  BY NilResultType, WaitsAssumption DEF ResultType, JidOrNone
<1>2. QED
  BY <1>1, OutcomeOfType DEF NoMinionsOutcome, Errors

LEMMA JobsAreTyped ==
    Jobs \subseteq Job
<1> DEFINE Option == [known : BOOLEAN, set : SUBSET Minions]
<1>1. None \in Option /\ \A S \in SUBSET Minions : Some(S) \in Option
  BY DEF None, Some
<1>2. ASSUME NEW list \in Option, NEW start \in Option
      PROVE  NewJob(list, start) \in Job
  BY DEF NewJob, Job
<1>3. ASSUME NEW j \in Jobs
      PROVE  \E list \in Option, start \in Option : j = NewJob(list, start)
  BY <1>1 DEF Jobs
<1>4. QED
  BY <1>2, <1>3

LEMMA FreshAccumulatorType ==
    ASSUME job \in Job
    PROVE  FreshAccumulator \in AccType
<1>1. JobId \in JidOrNone /\ job.expected \in SUBSET Minions
  BY WaitsAssumption DEF JidOrNone, Job
<1>2. QED
  BY <1>1, NewAccumulatorType, SetExpectedType, SetJIDType DEF FreshAccumulator

LEMMA LookupResultType ==
    ASSUME job \in Job, NEW snapshot \in Snapshot
    PROVE  /\ LookupResult(snapshot) \in ResultType
           /\ \A m \in Returned(LookupResult(snapshot)) :
                 LookupResult(snapshot).byMinion[m].jid \in Jids
<1>1. \A m \in Present(snapshot) : [jid |-> JobId, value |-> snapshot[m]] \in Return
  BY WaitsAssumption DEF Present, Snapshot, Optional, Return, JidOrNone
<1>2. Present(snapshot) \subseteq Minions
  BY DEF Present
<1>3. job.expected \subseteq Minions /\ JobId \in Jids
  BY WaitsAssumption DEF Job
<1>4. LookupResult(snapshot) \in ResultType
  BY <1>1, <1>2, <1>3 DEF LookupResult, ResultType, Entry, JidOrNone
<1>5. ASSUME NEW m \in Returned(LookupResult(snapshot))
      PROVE  LookupResult(snapshot).byMinion[m].jid \in Jids
  BY <1>3 DEF LookupResult, Returned
<1>6. QED
  BY <1>4, <1>5

LEMMA MergedType ==
    ASSUME job \in Job, NEW a \in AccType, NEW snapshot \in Snapshot
    PROVE  MergeResult(a, LookupResult(snapshot)) \in AccType
  BY LookupResultType, MergeResultType

LEMMA FinishedOutcomeType ==
    ASSUME NEW r \in ResultType
    PROVE  /\ FinishedOutcome(r) \in Outcome
           /\ FinishedOutcome(r).err \in {"nil", "exec"}
           /\ FinishedOutcome(r).terminal
  BY OutcomeOfType DEF FinishedOutcome, OutcomeOf, Errors

LEMMA AddStreamedType ==
    ASSUME NEW a \in AccType, NEW event \in StreamedReturn
    PROVE  AddStreamed(a, event) \in AccType
<1>1. event.minion \in Minions /\ [jid |-> JobId, value |-> event.value] \in Return
  BY WaitsAssumption DEF StreamedReturn, Return, JidOrNone
<1>2. QED
  BY <1>1, AddMinionType DEF AddStreamed
------------------------------------------------------------------------------
\* Type correctness, one step per action.

\* What TypeOK and what follows need to be inductive: a job that expects minions
\* collects minions, a follower has a call to follow, and a receiver that sends
\* has an event to send.
Linked ==
    /\ job.expectedKnown => job.collectionKnown
    /\ \A w \in Waits : /\ pc[w] = "follow" => following[w] \in Waits
                        /\ rx[w] = "send" => inbox[w] # << >>

LEMMA NotEmptyAfterAppend ==
    \A s \in Seq(StreamedReturn), e \in StreamedReturn : Append(s, e) # << >>
<1>1. ASSUME NEW s \in Seq(StreamedReturn), NEW e \in StreamedReturn
      PROVE  Append(s, e) # << >>
  <2>1. Len(Append(s, e)) = Len(s) + 1 /\ Len(s) \in Nat
    OBVIOUS
  <2>2. Len(<< >>) = 0
    OBVIOUS
  <2>3. QED
    BY <2>1, <2>2
<1>2. QED
  BY <1>1

LEMMA NextLinked ==
    ASSUME TypeOK, Linked, Next
    PROVE  Linked'
<1> USE DEF TypeOK, Linked, saltVars, waitVars, rxVars
<1>1. ASSUME NEW m \in Minions, NEW v \in Reports, SaltCaches(m, v)
      PROVE  Linked'
  BY <1>1 DEF SaltCaches
<1>2. ASSUME NEW m \in Minions, NEW v \in Reports, SaltFires(m, v)
      PROVE  Linked'
  <2>1. [minion |-> m, value |-> v] \in StreamedReturn
    BY WaitsAssumption DEF StreamedReturn
  <2>2. ASSUME NEW w \in Waits, rx'[w] = "send"
        PROVE  inbox'[w] # << >>
    <3>1. inbox[w] \in Seq(StreamedReturn) /\ rx[w] = "send"
      BY <1>2, <2>2 DEF SaltFires
    <3>2. inbox'[w] = Append(inbox[w], [minion |-> m, value |-> v])
      BY <1>2, <3>1 DEF SaltFires
    <3>3. QED
      BY <2>1, <3>1, <3>2, NotEmptyAfterAppend
  <2>3. QED
    BY <1>2, <2>2 DEF SaltFires
<1>3. ASSUME NEW w \in Waits,
             \/ \E cause \in Causes : CallerEnds(w, cause)
             \/ WaitTimesOut(w)
             \/ SaltServesLookup(w)
             \/ ReturnCached(w) \/ Lead(w)
             \/ FollowerReturns(w) \/ FollowerGivesUp(w)
      PROVE  Linked'
  BY <1>3 DEF CallerEnds, WaitTimesOut, SaltServesLookup, ReturnCached, Lead,
              FollowerReturns, FollowerGivesUp
<1>4. ASSUME NEW w \in Waits, Follow(w)
      PROVE  Linked'
  BY <1>4 DEF Follow, MayFollow
<1>5. ASSUME NEW w \in Waits, LeaderStep(w) \/ LookupErrors(w)
      PROVE  Linked'
  <2>1. CASE StartWait(w)
    BY <2>1 DEF StartWait, LeaveWith
  <2>2. CASE SendLookup(w) \/ PollTimerFires(w) \/ PollReceives(w)
    BY <2>2 DEF SendLookup, PollTimerFires, PollReceives
  <2>3. CASE LookupReturns(w)
    BY <2>3 DEF LookupReturns, LeaveWith
  <2>4. CASE LookupAborted(w) \/ LookupErrors(w)
    BY <2>4 DEF LookupAborted, LookupErrors, LookupFails, LeaveWith
  <2>5. CASE PollContextEnds(w) \/ Publish(w)
    BY <2>5 DEF PollContextEnds, LeaveWith, Publish
  <2>6. QED
    BY <1>5, <2>1, <2>2, <2>3, <2>4, <2>5 DEF LeaderStep
<1>6. ASSUME NEW w \in Waits, RxStep(w) \/ StreamDrops(w)
      PROVE  Linked'
  BY <1>6 DEF RxStep, StreamDrops, Subscribed, SubscribeFails, RxReceives, RxForwards,
              RxStops, RxExits
<1>7. QED
  BY <1>1, <1>2, <1>3, <1>4, <1>5, <1>6 DEF Next

LEMMA InitType ==
    Init => TypeOK
<1> SUFFICES ASSUME Init PROVE TypeOK
  OBVIOUS
<1>1. job \in Job
  BY JobsAreTyped DEF Init
<1>2. cache \in Snapshot /\ fired \in Snapshot /\ reply \in [Waits -> Snapshot]
  BY DEF Init, Snapshot, Nothing, Optional
<1>3. /\ pc \in [Waits -> PCs] /\ ctx \in [Waits -> Causes]
      /\ waiting \in Waits \cup {NoWait} /\ following \in [Waits -> Waits \cup {NoWait}]
      /\ done \in BOOLEAN
  BY DEF Init, PCs, Causes
<1>4. final \in Outcome /\ answer \in [Waits -> Outcome]
  BY NoOutcomeType DEF Init
<1>5. acc \in [Waits -> AccType]
  BY NewAccumulatorType DEF Init
<1>6. rx \in [Waits -> {"off", "subscribing", "recv", "send", "exited"}]
  BY DEF Init
<1>7. inbox \in [Waits -> Seq(StreamedReturn)] /\ returns \in [Waits -> Seq(StreamedReturn)]
  BY DEF Init
<1>8. QED
  BY <1>1, <1>2, <1>3, <1>4, <1>5, <1>6, <1>7 DEF TypeOK

LEMMA SaltStepType ==
    ASSUME TypeOK, NEW m \in Minions, NEW v \in Reports,
           SaltCaches(m, v) \/ SaltFires(m, v)
    PROVE  TypeOK'
<1>1. v \in Optional /\ [minion |-> m, value |-> v] \in StreamedReturn
  BY WaitsAssumption DEF Optional, StreamedReturn
<1>2. CASE SaltCaches(m, v)
  BY <1>1, <1>2 DEF TypeOK, SaltCaches, Snapshot, waitVars, rxVars
<1>3. CASE SaltFires(m, v)
  <2>1. fired' \in Snapshot
    BY <1>1, <1>3 DEF TypeOK, SaltFires, Snapshot
  <2>2. inbox' \in [Waits -> Seq(StreamedReturn)]
    BY <1>1, <1>3 DEF TypeOK, SaltFires
  <2>3. QED
    BY <1>3, <2>1, <2>2 DEF TypeOK, SaltFires, waitVars
<1>4. QED
  BY <1>2, <1>3

\* The steps of contexts, of callers and of Salt's lookup.
LEMMA CallStepType ==
    ASSUME TypeOK, Linked, NEW w \in Waits,
           \/ \E cause \in Causes : CallerEnds(w, cause)
           \/ WaitTimesOut(w)
           \/ ReturnCached(w) \/ Follow(w) \/ Lead(w)
           \/ FollowerReturns(w) \/ FollowerGivesUp(w)
           \/ SaltServesLookup(w)
    PROVE  TypeOK'
<1>1. CASE \E cause \in Causes : CallerEnds(w, cause)
  BY <1>1 DEF TypeOK, CallerEnds, Causes, saltVars, waitVars, rxVars
<1>2. CASE WaitTimesOut(w)
  BY <1>2 DEF TypeOK, WaitTimesOut, Causes, saltVars, waitVars, rxVars
<1>3. CASE ReturnCached(w)
  BY <1>3 DEF TypeOK, ReturnCached, PCs, saltVars, rxVars
<1>4. CASE Follow(w)
  BY <1>4 DEF TypeOK, Follow, PCs, saltVars, rxVars
<1>5. CASE Lead(w)
  BY <1>5 DEF TypeOK, Lead, PCs, Leading, saltVars, rxVars
<1>6. CASE FollowerReturns(w)
  <2>1. answer[following[w]] \in Outcome
    BY <1>6 DEF TypeOK, Linked, FollowerReturns
  <2>2. QED
    BY <1>6, <2>1 DEF TypeOK, FollowerReturns, PCs, saltVars, rxVars
<1>7. CASE FollowerGivesUp(w)
  <2>1. OutcomeOf(NilResult, "ctx", FALSE) \in Outcome
    BY NilResultType, OutcomeOfType DEF Errors
  <2>2. QED
    BY <1>7, <2>1 DEF TypeOK, FollowerGivesUp, PCs, saltVars, rxVars
<1>8. CASE SaltServesLookup(w)
  BY <1>8 DEF TypeOK, SaltServesLookup, PCs, Leading, InWait, saltVars, rxVars
<1>9. QED
  BY <1>1, <1>2, <1>3, <1>4, <1>5, <1>6, <1>7, <1>8

LEMMA LookupFailsType ==
    ASSUME TypeOK, NEW w \in Waits, LookupFails(w)
    PROVE  TypeOK'
<1>1. OutcomeOf(Partial(w), "lookup", FALSE) \in Outcome
  BY ResultInType, OutcomeOfType DEF TypeOK, Partial, Errors
<1>2. Nothing \in Snapshot
  BY DEF Nothing, Snapshot, Optional
<1>3. QED
  BY <1>1, <1>2 DEF TypeOK, LookupFails, LeaveWith, PCs, Leading, saltVars, rxVars

LEMMA LeaderStepType ==
    ASSUME TypeOK, NEW w \in Waits, LeaderStep(w)
    PROVE  TypeOK'
<1>1. CASE StartWait(w)
  <2>1. NoMinionsOutcome \in Outcome /\ FreshAccumulator \in AccType
    BY NoMinionsOutcomeType, FreshAccumulatorType DEF TypeOK
  <2>2. answer' \in [Waits -> Outcome] /\ acc' \in [Waits -> AccType]
    <3>1. CASE LeaveWith(w, NoMinionsOutcome) /\ UNCHANGED acc
      BY <2>1, <3>1 DEF TypeOK, LeaveWith
    <3>2. CASE acc' = [acc EXCEPT ![w] = FreshAccumulator] /\ UNCHANGED answer
      BY <2>1, <3>2 DEF TypeOK
    <3>3. QED
      BY <1>1, <3>1, <3>2 DEF StartWait
  <2>3. pc' \in [Waits -> PCs]
    BY <1>1 DEF TypeOK, StartWait, LeaveWith, PCs, Leading, InWait
  <2>4. rx' \in [Waits -> {"off", "subscribing", "recv", "send", "exited"}]
    BY <1>1 DEF TypeOK, StartWait
  <2>5. QED
    BY <1>1, <2>2, <2>3, <2>4 DEF TypeOK, StartWait, saltVars
<1>2. CASE SendLookup(w)
  BY <1>2 DEF TypeOK, SendLookup, PCs, Leading, InWait, saltVars, waitVars, rxVars
<1>3. CASE LookupReturns(w)
  <2> DEFINE merged == MergeResult(acc[w], LookupResult(reply[w]))
  <2>1. merged \in AccType
    BY MergedType DEF TypeOK
  <2>2. FinishedOutcome(Result(merged)) \in Outcome
    BY <2>1, ResultInType, FinishedOutcomeType
  <2>3. Nothing \in Snapshot
    BY DEF Nothing, Snapshot, Optional
  <2>4. acc' \in [Waits -> AccType] /\ reply' \in [Waits -> Snapshot]
    BY <1>3, <2>1, <2>3 DEF TypeOK, LookupReturns
  <2>5. pc' \in [Waits -> PCs] /\ answer' \in [Waits -> Outcome]
    BY <1>3, <2>2 DEF TypeOK, LookupReturns, LeaveWith, PCs, Leading, InWait
  <2>6. QED
    BY <1>3, <2>4, <2>5 DEF TypeOK, LookupReturns, saltVars, rxVars
<1>4. CASE LookupAborted(w)
  BY <1>4, LookupFailsType DEF LookupAborted
<1>5. CASE PollTimerFires(w)
  BY <1>5 DEF TypeOK, PollTimerFires, PCs, Leading, InWait, saltVars, waitVars, rxVars
<1>6. CASE PollReceives(w)
  <2>1. Head(returns[w]) \in StreamedReturn /\ Tail(returns[w]) \in Seq(StreamedReturn)
    BY <1>6 DEF TypeOK, PollReceives
  <2>2. AddStreamed(acc[w], Head(returns[w])) \in AccType
    BY <2>1, AddStreamedType DEF TypeOK
  <2>3. acc' \in [Waits -> AccType] /\ returns' \in [Waits -> Seq(StreamedReturn)]
    BY <1>6, <2>1, <2>2 DEF TypeOK, PollReceives
  <2>4. pc' \in [Waits -> PCs]
    BY <1>6 DEF TypeOK, PollReceives, PCs, Leading, InWait
  <2>5. QED
    BY <1>6, <2>3, <2>4 DEF TypeOK, PollReceives, saltVars
<1>7. CASE PollContextEnds(w)
  <2>1. Partial(w) \in ResultType
    BY ResultInType DEF TypeOK, Partial
  <2>2. ExecErrorFor(ctx[w]) \in Errors /\ IsConfiguredWaitTimeout(ctx[w]) \in BOOLEAN
    BY WaitsAssumption DEF ExecErrorFor, Errors, IsConfiguredWaitTimeout
  <2>3. OutcomeOf(Partial(w), ExecErrorFor(ctx[w]), IsConfiguredWaitTimeout(ctx[w])) \in Outcome
    BY <2>1, <2>2, OutcomeOfType
  <2>4. QED
    BY <1>7, <2>3 DEF TypeOK, PollContextEnds, LeaveWith, PCs, Leading, saltVars, rxVars
<1>8. CASE Publish(w)
  <2>1. answer[w] \in Outcome /\ answer[w].terminal \in BOOLEAN
    BY DEF TypeOK, Outcome
  <2>2. done' \in BOOLEAN /\ final' \in Outcome /\ waiting' \in Waits \cup {NoWait}
    BY <1>8, <2>1 DEF TypeOK, Publish
  <2>3. answer' \in [Waits -> Outcome]
    BY <1>8, <2>1, <2>2 DEF TypeOK, Publish
  <2>4. acc' \in [Waits -> AccType] /\ returns' \in [Waits -> Seq(StreamedReturn)]
    BY <1>8, NewAccumulatorType DEF TypeOK, Publish
  <2>5. QED
    BY <1>8, <2>2, <2>3, <2>4 DEF TypeOK, Publish, PCs, saltVars
<1>9. QED
  BY <1>1, <1>2, <1>3, <1>4, <1>5, <1>6, <1>7, <1>8 DEF LeaderStep

LEMMA RxStepType ==
    ASSUME TypeOK, Linked, NEW w \in Waits, RxStep(w) \/ StreamDrops(w)
    PROVE  TypeOK'
<1> USE DEF TypeOK, saltVars, waitVars
<1>1. CASE Subscribed(w)
  BY <1>1 DEF Subscribed
<1>2. CASE RxExits(w)
  BY <1>2 DEF RxExits
<1>3. CASE RxReceives(w)
  BY <1>3 DEF RxReceives
<1>4. CASE RxForwards(w)
  <2>1. /\ Head(inbox[w]) \in StreamedReturn
        /\ Tail(inbox[w]) \in Seq(StreamedReturn)
    BY <1>4 DEF RxForwards, Linked
  <2>2. Append(returns[w], Head(inbox[w])) \in Seq(StreamedReturn)
    BY <2>1
  <2>3. QED
    BY <1>4, <2>1, <2>2 DEF RxForwards
<1>5. QED
  BY <1>1, <1>2, <1>3, <1>4 DEF RxStep, SubscribeFails, StreamDrops, RxStops

LEMMA NextType ==
    TypeOK /\ Linked /\ [Next]_vars => TypeOK' /\ Linked'
<1> SUFFICES ASSUME TypeOK, Linked, [Next]_vars PROVE TypeOK' /\ Linked'
  OBVIOUS
<1>1. ASSUME NEW w \in Waits, LookupErrors(w) PROVE TypeOK'
  BY <1>1, LookupFailsType DEF LookupErrors
<1>2. CASE UNCHANGED vars
  BY <1>2 DEF TypeOK, Linked, vars, saltVars, waitVars, rxVars
<1>3. CASE Next
  <2>1. TypeOK'
    BY <1>1, <1>3, SaltStepType, CallStepType, LeaderStepType, RxStepType DEF Next
  <2>2. QED
    BY <1>3, <2>1, NextLinked
<1>4. QED
  BY <1>2, <1>3

LEMMA CollectionOfJobs ==
    \A j \in Jobs : /\ ~j.collectionKnown => j.collection = {}
                    /\ j.expectedKnown => j.collectionKnown
<1> DEFINE Option == {o \in [known : BOOLEAN, set : SUBSET Minions] : o.known \/ o.set = {}}
<1>1. None \in Option /\ \A S \in SUBSET Minions : Some(S) \in Option
  BY DEF None, Some
<1>2. ASSUME NEW list \in Option, NEW start \in Option
      PROVE  /\ ~NewJob(list, start).collectionKnown => NewJob(list, start).collection = {}
             /\ NewJob(list, start).expectedKnown => NewJob(list, start).collectionKnown
  BY DEF NewJob
<1>3. ASSUME NEW j \in Jobs
      PROVE  \E list \in Option, start \in Option : j = NewJob(list, start)
  BY <1>1 DEF Jobs
<1> HIDE DEF Option
<1>4. QED
  BY <1>2, <1>3

LEMMA TypeCorrectAndLinked == Spec => [](TypeOK /\ Linked)
<1>1. Init => TypeOK /\ Linked
  BY InitType, CollectionOfJobs DEF Init, Linked
<1>2. QED
  BY <1>1, NextType, PTL DEF Spec

\* Every variable keeps to the values the code's fields can hold.
THEOREM TypeCorrect == Spec => []TypeOK
  BY TypeCorrectAndLinked, PTL
------------------------------------------------------------------------------
\* One leader at a time.

\* The steps that change none of pc, waiting, done, final and answer.
Background(w) ==
    \/ \E cause \in Causes : CallerEnds(w, cause)
    \/ WaitTimesOut(w) \/ StreamDrops(w) \/ RxStep(w)

callerVars == <<pc, waiting, following, done, final, answer>>

LEMMA BackgroundSteps ==
    /\ \A m \in Minions, v \in Reports :
          SaltCaches(m, v) \/ SaltFires(m, v) => UNCHANGED callerVars
    /\ \A w \in Waits : Background(w) => UNCHANGED callerVars
  BY DEF callerVars, Background, SaltCaches, SaltFires, CallerEnds, WaitTimesOut,
         StreamDrops, RxStep, Subscribed, SubscribeFails, RxReceives, RxForwards,
         RxStops, RxExits, waitVars

\* The steps of the leader inside localJob.wait: it keeps the lead.
Polling(w) ==
    \/ StartWait(w) \/ SendLookup(w) \/ SaltServesLookup(w) \/ LookupReturns(w)
    \/ LookupErrors(w) \/ LookupAborted(w)
    \/ PollTimerFires(w) \/ PollReceives(w) \/ PollContextEnds(w)

LEMMA PollingSteps ==
    ASSUME TypeOK, NEW w \in Waits, Polling(w)
    PROVE  /\ pc[w] \in InWait \cup {"begin"}
           /\ \E to \in InWait \cup {"publish"} : pc' = [pc EXCEPT ![w] = to]
           /\ \/ UNCHANGED answer /\ pc'[w] # "publish"
              \/ \E out \in Outcome :
                    /\ pc'[w] = "publish"
                    /\ answer' = [answer EXCEPT ![w] = out]
                    /\ out.err # "none"
                    /\ out.terminal /\ Linked => MaySettle(out)
           /\ UNCHANGED <<waiting, following, done, final>>
<1> DEFINE Fine(out) ==
        /\ out \in Outcome
        /\ out.err # "none"
        /\ out.terminal /\ Linked => MaySettle(out)
<1> USE DEF InWait
<1>1. ASSUME NEW out, Fine(out), LeaveWith(w, out)
      PROVE  /\ \E to \in InWait \cup {"publish"} : pc' = [pc EXCEPT ![w] = to]
             /\ \E o \in Outcome : /\ pc'[w] = "publish"
                                   /\ answer' = [answer EXCEPT ![w] = o]
                                   /\ Fine(o)
  BY <1>1 DEF LeaveWith, TypeOK
<1> HIDE DEF Fine
<1>2. CASE StartWait(w)
  <2>1. job.expectedKnown /\ job.expected = {} => Fine(NoMinionsOutcome)
    BY NoMinionsOutcomeType
       DEF Fine, NoMinionsOutcome, OutcomeOf, MaySettle, NobodyTargeted
  <2>2. QED
    BY <1>1, <1>2, <2>1 DEF StartWait, TypeOK, Fine
<1>3. CASE SendLookup(w) \/ SaltServesLookup(w) \/ PollTimerFires(w)
  BY <1>3 DEF SendLookup, SaltServesLookup, PollTimerFires, waitVars, TypeOK
<1>4. CASE PollReceives(w)
  BY <1>4 DEF PollReceives, TypeOK
<1>5. CASE LookupReturns(w)
  <2> DEFINE current == Result(MergeResult(acc[w], LookupResult(reply[w])))
  <2>1. current \in ResultType
    BY MergedType, ResultInType DEF TypeOK
  <2>2. LookupComplete(current) => Fine(FinishedOutcome(current))
    <3>1. ASSUME LookupComplete(current), Linked PROVE Collected(current)
      BY <3>1 DEF LookupComplete, Linked, Collected
    <3>2. FinishedOutcome(current).result = current
      BY DEF FinishedOutcome, OutcomeOf
    <3>3. QED
      BY <2>1, <3>1, <3>2, FinishedOutcomeType DEF Fine, MaySettle
  <2>3. QED
    BY <1>1, <1>5, <2>2 DEF LookupReturns, TypeOK, Fine
<1>6. CASE LookupErrors(w) \/ LookupAborted(w)
  <2>1. OutcomeOf(Partial(w), "lookup", FALSE) \in Outcome
    BY ResultInType, OutcomeOfType DEF TypeOK, Partial, Errors
  <2>2. Fine(OutcomeOf(Partial(w), "lookup", FALSE))
    BY <2>1 DEF Fine, OutcomeOf
  <2>3. QED
    BY <1>1, <1>6, <2>2 DEF LookupErrors, LookupAborted, LookupFails, Fine
<1>7. CASE PollContextEnds(w)
  <2> DEFINE out == OutcomeOf(Partial(w), ExecErrorFor(ctx[w]), IsConfiguredWaitTimeout(ctx[w]))
  <2>1. Partial(w) \in ResultType
    BY ResultInType DEF TypeOK, Partial
  <2>2. ExecErrorFor(ctx[w]) \in Errors /\ IsConfiguredWaitTimeout(ctx[w]) \in BOOLEAN
    BY WaitsAssumption DEF ExecErrorFor, Errors, IsConfiguredWaitTimeout
  <2>3. Fine(out)
    BY <2>1, <2>2, OutcomeOfType
       DEF Fine, OutcomeOf, ExecErrorFor, IsConfiguredWaitTimeout, MaySettle
  <2>4. QED
    BY <1>1, <1>7, <2>3 DEF PollContextEnds, Fine
<1>8. QED
  BY <1>2, <1>3, <1>4, <1>5, <1>6, <1>7 DEF Polling

\* The steps that Next is made of, as the proofs below split them.
LEMMA NextSplit ==
    ASSUME Next
    PROVE  \/ UNCHANGED callerVars
           \/ \E w \in Waits :
                \/ Polling(w) \/ Publish(w)
                \/ ReturnCached(w) \/ Follow(w) \/ Lead(w)
                \/ FollowerReturns(w) \/ FollowerGivesUp(w)
  BY BackgroundSteps DEF Next, LeaderStep, Background, Polling

LEMMA NextSingleLeader ==
    ASSUME TypeOK, SingleLeader, [Next]_vars
    PROVE  SingleLeader'
<1> USE DEF TypeOK, SingleLeader
<1>1. CASE UNCHANGED callerVars \/ UNCHANGED vars
  BY <1>1 DEF callerVars, vars, waitVars
<1>2. ASSUME NEW w \in Waits, Polling(w) PROVE SingleLeader'
  BY <1>2, PollingSteps DEF Leading, InWait
<1>3. ASSUME NEW w \in Waits, Publish(w) PROVE SingleLeader'
  BY <1>3, WaitsAssumption DEF Publish, Leading, InWait
<1>4. ASSUME NEW w \in Waits, Lead(w) PROVE SingleLeader'
  BY <1>4, WaitsAssumption DEF Lead, MayLead, Leading, InWait
<1>5. ASSUME NEW w \in Waits,
             ReturnCached(w) \/ Follow(w) \/ FollowerReturns(w) \/ FollowerGivesUp(w)
      PROVE  SingleLeader'
  <2>1. /\ pc[w] \in {"idle", "follow"}
        /\ \E to \in {"follow", "returned"} : pc' = [pc EXCEPT ![w] = to]
        /\ UNCHANGED <<waiting, done>>
    BY <1>5 DEF ReturnCached, Follow, FollowerReturns, FollowerGivesUp
  <2>2. QED
    BY <2>1 DEF Leading, InWait
<1>6. QED
  BY <1>1, <1>2, <1>3, <1>4, <1>5, NextSplit

\* At most one call polls Salt, it is the one job.waiting names, and nobody
\* polls for a job that is done, however the callers interleave.
THEOREM LeaderIsSingle == Spec => []SingleLeader
<1>1. Init => SingleLeader
  BY WaitsAssumption DEF Init, SingleLeader, Leading, InWait
<1>2. TypeOK /\ SingleLeader /\ [Next]_vars => SingleLeader'
  BY NextSingleLeader
<1>3. QED
  BY <1>1, <1>2, TypeCorrect, PTL DEF Spec
------------------------------------------------------------------------------
\* What a job settles on, and what Wait returns.

(***************************************************************************)
(* Nothing is cached until the job is done; what is cached is terminal and *)
(* made of a complete collection, an empty target or a configured timeout, *)
(* and so is what a call of wait is about to have cached; a call           *)
(* that returned a terminal outcome returned the cached one.               *)
(***************************************************************************)
Settlement ==
    /\ ~done => final = NoOutcome
    /\ done => final.terminal /\ MaySettle(final)
    /\ \A w \in Waits :
        /\ pc[w] \in {"publish", "returned"} => answer[w].err # "none"
        /\ pc[w] = "publish" /\ answer[w].terminal => MaySettle(answer[w])
        /\ pc[w] = "returned" /\ answer[w].terminal => done /\ answer[w] = final

LEMMA PublishSettles ==
    ASSUME TypeOK, SingleLeader, Settlement, NEW w \in Waits, Publish(w)
    PROVE  /\ ~done
           /\ answer' = answer
           /\ pc' = [pc EXCEPT ![w] = "returned"]
           /\ done' = answer[w].terminal
           /\ final' = IF answer[w].terminal THEN answer[w] ELSE final
<1>1. waiting = w /\ ~done
  BY WaitsAssumption DEF SingleLeader, Publish, Leading
<1>2. answer[w].terminal \in BOOLEAN /\ done \in BOOLEAN
  BY DEF TypeOK, Outcome
<1>3. done' = answer[w].terminal /\ final' = IF answer[w].terminal THEN answer[w] ELSE final
  BY <1>1, <1>2 DEF Publish
<1>4. answer' = [answer EXCEPT ![w] = answer[w]]
  BY <1>3 DEF Publish
<1>5. answer' = answer
  BY <1>4 DEF TypeOK
<1>6. QED
  BY <1>1, <1>3, <1>5 DEF Publish

\* PollingSteps, call by call.
LEMMA PollingFrame ==
    ASSUME TypeOK, Linked, NEW w \in Waits, Polling(w)
    PROVE  /\ pc[w] \in InWait \cup {"begin"}
           /\ pc'[w] \in InWait \cup {"publish"}
           /\ pc'[w] = "publish" => /\ answer'[w].err # "none"
                                    /\ answer'[w].terminal => MaySettle(answer'[w])
           /\ \A u \in Waits \ {w} : pc'[u] = pc[u] /\ answer'[u] = answer[u]
           /\ UNCHANGED <<done, final>>
<1>1. PICK to \in InWait \cup {"publish"} : pc' = [pc EXCEPT ![w] = to]
  BY PollingSteps
<1>2. pc'[w] = to /\ \A u \in Waits \ {w} : pc'[u] = pc[u]
  BY <1>1 DEF TypeOK
<1>3. CASE UNCHANGED answer /\ pc'[w] # "publish"
  BY <1>2, <1>3, PollingSteps
<1>4. ASSUME NEW out \in Outcome,
             answer' = [answer EXCEPT ![w] = out],
             out.err # "none",
             out.terminal => MaySettle(out)
      PROVE  /\ answer'[w].err # "none"
             /\ answer'[w].terminal => MaySettle(answer'[w])
             /\ \A u \in Waits \ {w} : answer'[u] = answer[u]
  <2>1. answer'[w] = out
    BY <1>4 DEF TypeOK
  <2>2. QED
    BY <1>4, <2>1 DEF TypeOK
<1>5. QED
  BY <1>2, <1>3, <1>4, PollingSteps

\* What newLocalJob derived is never assigned again.
LEMMA NextJob == [Next]_vars => job' = job
  BY DEF Next, vars, SaltCaches, SaltFires, CallerEnds, WaitTimesOut, ReturnCached, Follow,
         Lead, FollowerReturns, FollowerGivesUp, SaltServesLookup, LookupErrors, StreamDrops,
         LeaderStep, StartWait, SendLookup, LookupReturns, LookupAborted, LookupFails,
         PollTimerFires, PollReceives, PollContextEnds, Publish, RxStep, Subscribed,
         SubscribeFails, RxReceives, RxForwards, RxStops, RxExits

LEMMA NextSettlement ==
    ASSUME TypeOK, Linked, SingleLeader, Settlement, [Next]_vars
    PROVE  Settlement'
<1> USE DEF Settlement
<1>0. job' = job
  BY NextJob
<1>1. CASE UNCHANGED callerVars \/ UNCHANGED vars
  BY <1>0, <1>1 DEF callerVars, vars, waitVars, MaySettle, Collected, NobodyTargeted
<1>2. ASSUME NEW w \in Waits, Polling(w) PROVE Settlement'
  <2>1. /\ UNCHANGED <<done, final>>
        /\ pc'[w] # "returned"
        /\ pc'[w] = "publish" => /\ answer'[w].err # "none"
                                 /\ answer'[w].terminal => MaySettle(answer'[w])
        /\ \A u \in Waits \ {w} : pc'[u] = pc[u] /\ answer'[u] = answer[u]
    BY <1>2, PollingFrame DEF InWait
  <2>2. /\ ~done' => final' = NoOutcome
        /\ done' => final'.terminal /\ MaySettle(final')
    BY <2>1
  <2>3. ASSUME NEW u \in Waits
        PROVE  /\ pc'[u] \in {"publish", "returned"} => answer'[u].err # "none"
               /\ pc'[u] = "publish" /\ answer'[u].terminal => MaySettle(answer'[u])
               /\ pc'[u] = "returned" /\ answer'[u].terminal => done' /\ answer'[u] = final'
    <3>1. CASE u = w
      BY <2>1, <3>1
    <3>2. CASE u # w
      BY <2>1, <3>2
    <3>3. QED
      BY <3>1, <3>2
  <2>4. QED
    BY <1>0, <2>2, <2>3 DEF MaySettle, Collected, NobodyTargeted
<1>3. ASSUME NEW w \in Waits, Publish(w) PROVE Settlement'
  <2>1. pc[w] = "publish" /\ answer[w] \in Outcome
    BY <1>3 DEF Publish, TypeOK
  <2>2. /\ ~done
        /\ answer' = answer
        /\ pc'[w] = "returned"
        /\ \A u \in Waits \ {w} : pc'[u] = pc[u]
        /\ done' = answer[w].terminal
        /\ final' = IF answer[w].terminal THEN answer[w] ELSE final
    BY <1>3, PublishSettles DEF TypeOK
  <2>3. /\ ~done' => final' = NoOutcome
        /\ done' => final'.terminal /\ MaySettle(final')
    BY <2>1, <2>2
  <2>4. ASSUME NEW u \in Waits
        PROVE  /\ pc'[u] \in {"publish", "returned"} => answer'[u].err # "none"
               /\ pc'[u] = "publish" /\ answer'[u].terminal => MaySettle(answer'[u])
               /\ pc'[u] = "returned" /\ answer'[u].terminal => done' /\ answer'[u] = final'
    <3>1. CASE u = w
      BY <2>1, <2>2, <3>1
    <3>2. CASE u # w
      BY <2>1, <2>2, <3>2
    <3>3. QED
      BY <3>1, <3>2
  <2>5. QED
    BY <1>0, <2>3, <2>4 DEF MaySettle, Collected, NobodyTargeted
<1>4. ASSUME NEW w \in Waits, Lead(w) \/ Follow(w) PROVE Settlement'
  <2>1. /\ UNCHANGED <<answer, done, final>>
        /\ \A u \in Waits : pc'[u] \in {"publish", "returned"} => pc'[u] = pc[u]
    BY <1>4 DEF TypeOK, Lead, Follow
  <2>2. QED
    BY <1>0, <2>1 DEF MaySettle, Collected, NobodyTargeted
<1>5. ASSUME NEW w \in Waits, ReturnCached(w) PROVE Settlement'
  BY <1>0, <1>5 DEF TypeOK, ReturnCached, MaySettle, Collected, NobodyTargeted
<1>6. ASSUME NEW w \in Waits, FollowerReturns(w) PROVE Settlement'
  BY <1>0, <1>6 DEF TypeOK, FollowerReturns, Linked, Closed, MaySettle, Collected, NobodyTargeted
<1>7. ASSUME NEW w \in Waits, FollowerGivesUp(w) PROVE Settlement'
  BY <1>0, <1>7 DEF TypeOK, FollowerGivesUp, OutcomeOf, MaySettle, Collected, NobodyTargeted
<1>8. QED
  BY <1>1, <1>2, <1>3, <1>4, <1>5, <1>6, <1>7, NextSplit

LEMMA SettlementHolds ==
    Spec => [](TypeOK /\ Linked /\ SingleLeader /\ Settlement)
<1>1. Init => Settlement
  BY NoOutcomeType DEF Init, Settlement
<1>2. TypeOK /\ Linked /\ SingleLeader /\ Settlement /\ [Next]_vars => Settlement'
  BY NextSettlement
<1>3. QED
  BY <1>1, <1>2, TypeCorrectAndLinked, LeaderIsSingle, PTL DEF Spec

\* A job settles on a complete collection, on a target without minions, or,
\* when JobWaitTimeout is set, on a deadline: never on a cancelled context or a
\* failed lookup.
THEOREM CompletionSettles == Spec => []OnlyCompletionSettles
<1>1. Settlement => OnlyCompletionSettles
  BY DEF Settlement, OnlyCompletionSettles
<1>2. QED
  BY <1>1, SettlementHolds, PTL

------------------------------------------------------------------------------
\* LocalJob implements WaitContract.

phaseBar  == [w \in Waits |-> IF pc[w] = "idle" THEN "idle"
                              ELSE IF pc[w] = "returned" THEN "answered" ELSE "open"]
answerBar == [w \in Waits |-> IF pc[w] = "returned" THEN answer[w] ELSE NoOutcome]

\* A call that has an outcome that is not terminal, or is terminal, has one the
\* contract allows.
LEMMA OutcomesAreAllowed ==
    ASSUME NEW out \in Outcome, out.err # "none"
    PROVE  /\ out.terminal => out \in [result : ResultType, err : Errors \ {"none"}, terminal : {TRUE}]
           /\ ~out.terminal => out \in [result : ResultType, err : Errors \ {"none"}, terminal : {FALSE}]
  BY DEF Outcome

\* A step that answers call w changes its mapped phase and answer only.
LEMMA AnsweredBar ==
    ASSUME TypeOK, NEW w \in Waits, pc[w] # "returned",
           pc' = [pc EXCEPT ![w] = "returned"],
           \A u \in Waits \ {w} : answer'[u] = answer[u]
    PROVE  /\ phaseBar' = [phaseBar EXCEPT ![w] = "answered"]
           /\ answerBar' = [answerBar EXCEPT ![w] = answerBar'[w]]
           /\ answerBar'[w] = answer'[w]
           /\ phaseBar[w] = IF pc[w] = "idle" THEN "idle" ELSE "open"
  BY DEF phaseBar, answerBar, TypeOK

LEMMA ContractStep ==
    ASSUME TypeOK, TypeOK', Linked, SingleLeader, Settlement, [Next]_vars
    PROVE  Contract!Next \/ UNCHANGED <<final, phaseBar, answerBar>>
<1> USE DEF Contract!Next, Contract!Answer
<1>1. CASE UNCHANGED callerVars \/ UNCHANGED vars
  BY <1>1 DEF callerVars, vars, waitVars, phaseBar, answerBar
<1>2. ASSUME NEW w \in Waits, Polling(w)
      PROVE  UNCHANGED <<final, phaseBar, answerBar>>
  <2>1. /\ pc[w] \notin {"idle", "returned"} /\ pc'[w] \notin {"idle", "returned"}
        /\ \A u \in Waits \ {w} : pc'[u] = pc[u] /\ answer'[u] = answer[u]
        /\ final' = final
    BY <1>2, PollingFrame DEF InWait
  <2>2. QED
    BY <2>1 DEF phaseBar, answerBar, TypeOK
<1>3. ASSUME NEW w \in Waits, Lead(w) \/ Follow(w)
      PROVE  Contract!Open(w)
  <2>1. /\ pc[w] = "idle" /\ ~done /\ final' = final /\ answer' = answer
        /\ \E to \in {"begin", "follow"} : pc' = [pc EXCEPT ![w] = to]
    BY <1>3 DEF Lead, Follow, MayLead, MayFollow
  <2>2. final = NoOutcome
    BY <2>1 DEF Settlement
  <2>3. phaseBar' = [phaseBar EXCEPT ![w] = "open"] /\ answerBar' = answerBar
    BY <2>1 DEF phaseBar, answerBar, TypeOK
  <2>4. QED
    BY <2>1, <2>2, <2>3 DEF Contract!Open, phaseBar, answerBar
<1>4. ASSUME NEW w \in Waits, ReturnCached(w)
      PROVE  Contract!Replay(w)
  <2>1. /\ pc[w] = "idle" /\ done /\ UNCHANGED final
        /\ pc' = [pc EXCEPT ![w] = "returned"]
        /\ answer' = [answer EXCEPT ![w] = final]
    BY <1>4 DEF ReturnCached
  <2>2. final # NoOutcome
    BY <2>1, NoOutcomeType DEF Settlement
  <2>3. answer'[w] = final /\ \A u \in Waits \ {w} : answer'[u] = answer[u]
    BY <2>1 DEF TypeOK
  <2>4. QED
    BY <2>1, <2>2, <2>3, AnsweredBar DEF Contract!Replay, phaseBar, answerBar
<1>5. ASSUME NEW w \in Waits, Publish(w)
      PROVE  Contract!Settle(w) \/ Contract!GiveUp(w)
  <2>1. pc[w] = "publish" /\ answer[w] \in Outcome /\ answer[w].err # "none"
    BY <1>5 DEF Publish, TypeOK, Settlement
  <2>2. /\ phaseBar[w] = "open" /\ answerBar'[w] = answer[w]
        /\ phaseBar' = [phaseBar EXCEPT ![w] = "answered"]
        /\ answerBar' = [answerBar EXCEPT ![w] = answerBar'[w]]
    BY <1>5, <2>1, PublishSettles, AnsweredBar
  <2>3. CASE answer[w].terminal
    <3>1. final = NoOutcome /\ final' = answer[w]
      BY <1>5, <2>3, PublishSettles DEF Settlement
    <3>2. QED
      BY <2>1, <2>2, <2>3, <3>1, OutcomesAreAllowed
         DEF Contract!Settle, phaseBar, answerBar
  <2>4. CASE ~answer[w].terminal
    <3>1. final' = final
      BY <1>5, <2>4, PublishSettles
    <3>2. QED
      BY <2>1, <2>2, <2>4, <3>1, OutcomesAreAllowed
         DEF Contract!GiveUp, phaseBar, answerBar
  <2>5. QED
    BY <2>3, <2>4
<1>6. ASSUME NEW w \in Waits, FollowerReturns(w)
      PROVE  Contract!Replay(w) \/ Contract!GiveUp(w)
  <2> DEFINE out == answer[following[w]]
  <2>1. /\ pc[w] = "follow" /\ following[w] \in Waits /\ pc[following[w]] = "returned"
        /\ UNCHANGED final
        /\ pc' = [pc EXCEPT ![w] = "returned"]
        /\ answer' = [answer EXCEPT ![w] = out]
    BY <1>6 DEF FollowerReturns, Closed, Linked
  <2>2. out \in Outcome /\ out.err # "none"
    BY <2>1 DEF Settlement, TypeOK
  <2>3. answer'[w] = out /\ \A u \in Waits \ {w} : answer'[u] = answer[u]
    BY <2>1 DEF TypeOK
  <2>4. /\ phaseBar[w] = "open" /\ answerBar'[w] = out
        /\ phaseBar' = [phaseBar EXCEPT ![w] = "answered"]
        /\ answerBar' = [answerBar EXCEPT ![w] = answerBar'[w]]
    BY <2>1, <2>3, AnsweredBar
  <2>5. CASE out.terminal
    <3>1. out = final /\ final # NoOutcome
      BY <2>1, <2>2, <2>5, NoOutcomeType DEF Settlement
    <3>2. QED
      BY <2>1, <2>4, <3>1 DEF Contract!Replay, phaseBar, answerBar
  <2>6. CASE ~out.terminal
    BY <2>1, <2>2, <2>4, <2>6, OutcomesAreAllowed DEF Contract!GiveUp, phaseBar, answerBar
  <2>7. QED
    BY <2>5, <2>6
<1>7. ASSUME NEW w \in Waits, FollowerGivesUp(w)
      PROVE  Contract!GiveUp(w)
  <2> DEFINE out == OutcomeOf(NilResult, "ctx", FALSE)
  <2>1. /\ pc[w] = "follow" /\ UNCHANGED final
        /\ pc' = [pc EXCEPT ![w] = "returned"]
        /\ answer' = [answer EXCEPT ![w] = out]
    BY <1>7 DEF FollowerGivesUp
  <2>2. out \in Outcome /\ out.err # "none" /\ ~out.terminal
    BY NilResultType, OutcomeOfType DEF Errors, OutcomeOf
  <2> HIDE DEF out
  <2>3. answer'[w] = out /\ \A u \in Waits \ {w} : answer'[u] = answer[u]
    BY <2>1 DEF TypeOK
  <2>4. QED
    BY <2>1, <2>2, <2>3, AnsweredBar, OutcomesAreAllowed
       DEF Contract!GiveUp, phaseBar, answerBar
<1>8. QED
  BY <1>1, <1>2, <1>3, <1>4, <1>5, <1>6, <1>7, NextSplit

\* Wait is idempotent: for any callers, contexts and Salt, what the callers see
\* is what the contract allows: one outcome, retained and replayed, or interim
\* answers that leave the job unsettled.
THEOREM Idempotent == Spec => WaitIsIdempotent
<1>1. Init => Contract!Init
  BY DEF Init, Contract!Init
<1>2. /\ TypeOK /\ Linked /\ SingleLeader /\ Settlement
      /\ (TypeOK /\ Linked /\ SingleLeader /\ Settlement)'
      /\ [Next]_vars
      => [Contract!Next]_(Contract!contractVars)
  BY ContractStep DEF Contract!contractVars, phaseBar, answerBar
<1>3. QED
  BY <1>1, <1>2, SettlementHolds, PTL DEF Spec, WaitIsIdempotent, Contract!Spec

------------------------------------------------------------------------------
\* Where the answers come from.

\* r, an accumulator or a result, holds only returns Salt produced.
OfSalt(r) == \A m \in Returned(r) : r.byMinion[m].value \in {cache[m], fired[m]}

\* The events in s carry what was published.
Published(s) == \A i \in 1..Len(s) : s[i].value = fired[s[i].minion]

\* Every minion the caller asked for, or Salt reached, is in r, and none failed.
AllReport(r) ==
    /\ job.expected \cup job.collection \subseteq Returned(r)
    /\ \A m \in Returned(r) : r.byMinion[m].value = "ok"

SoundOutcome(out) ==
    /\ OfSalt(out.result)
    /\ out.result.missing = out.result.expected \ Returned(out.result)
    /\ out.err = "nil" => AllReport(out.result)

\* What is under way to the leader of call w.
Sources(w) ==
    /\ \A m \in Present(reply[w]) : reply[w][m] = cache[m]
    /\ Published(inbox[w])
    /\ Published(returns[w])

\* What call w has collected: it starts from nothing, expects what the job
\* expects, and has announced exactly what it holds and, at the end, returns.
Hydration(w) ==
    /\ OfSalt(acc[w])
    /\ acc[w].emitted = Returned(acc[w])
    /\ pc[w] \in {"idle", "begin"} => acc[w] = NewAccumulator
    /\ pc[w] \in InWait /\ job.expected # {} =>
          acc[w].expectedKnown /\ acc[w].expected = job.expected
    /\ pc[w] = "publish" => Returned(answer[w].result) = Returned(acc[w])

(***************************************************************************)
(* The three properties of what Wait returns, made inductive: returns flow *)
(* unchanged from Salt, through the reply, the stream and its channel, to  *)
(* the accumulator, the answer and the cached outcome.                     *)
(***************************************************************************)
Provenance ==
    /\ ~job.collectionKnown => job.collection = {}
    /\ \A w \in Waits : Sources(w) /\ Hydration(w) /\ SoundOutcome(answer[w])
    /\ SoundOutcome(final)

LEMMA NothingIsSound ==
    /\ Returned(NewAccumulator) = {} /\ Returned(NilResult) = {}
    /\ OfSalt(NewAccumulator) /\ NewAccumulator.emitted = {}
    /\ Present(Nothing) = {}
    /\ Published(<< >>)
    /\ SoundOutcome(NoOutcome)
    /\ SoundOutcome(NoMinionsOutcome)
    /\ SoundOutcome(OutcomeOf(NilResult, "ctx", FALSE))
    /\ Returned(NoMinionsOutcome.result) = {}
<1>1. /\ Returned(NewAccumulator) = {} /\ Returned(NilResult) = {}
      /\ OfSalt(NewAccumulator) /\ NewAccumulator.emitted = {}
      /\ Present(Nothing) = {}
      /\ Published(<< >>)
  BY DEF Returned, NewAccumulator, NilResult, OfSalt, Present, Nothing, Published
<1>2. ASSUME NEW e \in Errors \ {"nil"}, NEW t \in BOOLEAN
      PROVE  SoundOutcome(OutcomeOf(NilResult, e, t))
  <2>1. NilResult.missing = NilResult.expected \ Returned(NilResult)
    BY DEF NilResult
  <2>2. QED
    BY <1>1, <2>1 DEF SoundOutcome, OutcomeOf, OfSalt
<1>3. SoundOutcome(NoMinionsOutcome) /\ Returned(NoMinionsOutcome.result) = {}
  BY DEF SoundOutcome, NoMinionsOutcome, OutcomeOf, OfSalt, NilResult, Returned
<1>4. QED
  BY <1>1, <1>2, <1>3 DEF NoOutcome, Errors

LEMMA PublishedSequences ==
    ASSUME NEW s \in Seq(StreamedReturn), Published(s)
    PROVE  /\ \A e \in StreamedReturn : e.value = fired[e.minion] => Published(Append(s, e))
           /\ s # << >> => /\ Head(s) \in StreamedReturn
                           /\ Head(s).value = fired[Head(s).minion]
                           /\ Published(Tail(s))
<1>1. ASSUME NEW e \in StreamedReturn, e.value = fired[e.minion]
      PROVE  Published(Append(s, e))
  BY <1>1 DEF Published
<1>2. ASSUME s # << >>
      PROVE  /\ Head(s) \in StreamedReturn
             /\ Head(s).value = fired[Head(s).minion]
             /\ Published(Tail(s))
  BY <1>2 DEF Published
<1>3. QED
  BY <1>1, <1>2

\* What Salt produced stays produced, and stays what it was.
LEMMA SaltStepProvenance ==
    ASSUME TypeOK, Provenance, NEW m \in Minions, NEW v \in Reports,
           SaltCaches(m, v) \/ SaltFires(m, v)
    PROVE  Provenance'
<1> USE DEF Provenance
<1>1. /\ \A n \in Minions : /\ cache[n] # "none" => cache'[n] = cache[n]
                            /\ fired[n] # "none" => fired'[n] = fired[n]
      /\ UNCHANGED <<job, pc, answer, acc, reply, returns, final>>
      /\ v \in Value
  BY WaitsAssumption DEF SaltCaches, SaltFires, TypeOK, Snapshot, waitVars, rxVars
<1>2. ASSUME NEW r, r \in AccType \/ r \in ResultType, OfSalt(r)
      PROVE  OfSalt(r)'
  <2>1. ASSUME NEW n \in Returned(r)
        PROVE  r.byMinion[n].value \in {cache'[n], fired'[n]}
    <3>1. r.byMinion[n] \in Return /\ n \in Minions
      BY <1>2 DEF Returned, AccType, ResultType, Entry
    <3>2. r.byMinion[n].value # "none" /\ r.byMinion[n].value \in {cache[n], fired[n]}
      BY <1>2, <3>1 DEF OfSalt, Return, Value
    <3>3. QED
      BY <1>1, <3>1, <3>2
  <2>2. QED
    BY <2>1 DEF OfSalt
<1>3. ASSUME NEW out \in Outcome, SoundOutcome(out)
      PROVE  SoundOutcome(out)'
  <2>1. OfSalt(out.result)'
    BY <1>2, <1>3 DEF SoundOutcome, Outcome
  <2>2. QED
    BY <1>1, <1>3, <2>1 DEF SoundOutcome, AllReport
<1>4. ASSUME NEW s \in Seq(StreamedReturn), Published(s)
      PROVE  Published(s)'
  <2>1. ASSUME NEW i \in 1..Len(s)
        PROVE  s[i].value = fired'[s[i].minion]
    <3>1. s[i] \in StreamedReturn /\ s[i].value = fired[s[i].minion]
      BY <1>4 DEF Published
    <3>2. QED
      BY <1>1, <3>1 DEF StreamedReturn, Value
  <2>2. QED
    BY <2>1 DEF Published
<1>5. ASSUME NEW w \in Waits
      PROVE  Hydration(w)'
  <2>1. OfSalt(acc[w])'
    <3>1. OfSalt(acc[w]) /\ acc[w] \in AccType /\ acc'[w] = acc[w]
      BY <1>1 DEF Hydration, TypeOK
    <3>2. QED
      BY <1>2, <3>1 DEF OfSalt
  <2>2. QED
    BY <1>1, <2>1 DEF Hydration
<1>6. ASSUME NEW w \in Waits
      PROVE  Sources(w)'
  <2>1. \A n \in Present(reply'[w]) : reply'[w][n] = cache'[n]
    BY <1>1 DEF Sources, Present
  <2>2. Published(returns[w])'
    <3>1. Published(returns[w]) /\ returns[w] \in Seq(StreamedReturn) /\ returns'[w] = returns[w]
      BY <1>1 DEF Sources, TypeOK
    <3>2. QED
      BY <1>4, <3>1 DEF Published
  <2>3. Published(inbox[w])'
    <3> DEFINE event == [minion |-> m, value |-> v]
    <3>1. Published(inbox[w]) /\ inbox[w] \in Seq(StreamedReturn)
      BY DEF Sources, TypeOK
    <3>2. CASE inbox'[w] = inbox[w]
      BY <1>4, <3>1, <3>2 DEF Published
    <3>3. CASE SaltFires(m, v) /\ inbox'[w] = Append(inbox[w], event)
      <4>1. event \in StreamedReturn /\ fired'[m] = v
        BY <1>1, <3>3 DEF StreamedReturn, SaltFires, TypeOK, Snapshot
      <4>2. ASSUME NEW i \in 1..Len(inbox'[w])
            PROVE  inbox'[w][i].value = fired'[inbox'[w][i].minion]
        <5>1. CASE i \in 1..Len(inbox[w])
          <6>1. inbox'[w][i] = inbox[w][i]
            BY <3>1, <3>3, <4>1, <5>1
          <6>2. QED
            BY <1>4, <3>1, <5>1, <6>1 DEF Published
        <5>2. CASE i = Len(inbox[w]) + 1
          BY <3>1, <3>3, <4>1, <5>2
        <5>3. QED
          BY <3>1, <3>3, <4>1, <5>1, <5>2
      <4>3. QED
        BY <4>2 DEF Published
    <3>4. QED
      BY <3>2, <3>3 DEF SaltCaches, SaltFires, rxVars, TypeOK
  <2>4. QED
    BY <2>1, <2>2, <2>3 DEF Sources
<1>7. ASSUME NEW w \in Waits
      PROVE  SoundOutcome(answer[w])'
  <2>1. SoundOutcome(answer[w]) /\ answer[w] \in Outcome /\ answer'[w] = answer[w]
    BY <1>1 DEF TypeOK
  <2>2. QED
    BY <1>3, <2>1 DEF SoundOutcome, OfSalt, AllReport
<1>8. SoundOutcome(final)'
  BY <1>1, <1>3 DEF TypeOK, SoundOutcome, OfSalt, AllReport
<1>9. QED
  BY <1>1, <1>5, <1>6, <1>7, <1>8

\* A step of one call disturbs what is known of that call only.
OneCall(w) ==
    /\ UNCHANGED <<job, saltVars>>
    /\ \A u \in Waits \ {w} :
          /\ pc'[u] = pc[u] /\ answer'[u] = answer[u] /\ acc'[u] = acc[u]
          /\ reply'[u] = reply[u] /\ inbox'[u] = inbox[u] /\ returns'[u] = returns[u]

LEMMA ProvenanceOfCall ==
    ASSUME TypeOK, Provenance, NEW w \in Waits, OneCall(w),
           Sources(w)', Hydration(w)', SoundOutcome(answer[w])', SoundOutcome(final)'
    PROVE  Provenance'
<1>1. UNCHANGED <<job, cache, fired>>
  BY DEF OneCall, saltVars
<1>2. ASSUME NEW u \in Waits \ {w}
      PROVE  Sources(u)' /\ Hydration(u)' /\ SoundOutcome(answer[u])'
  <2>1. /\ pc'[u] = pc[u] /\ answer'[u] = answer[u] /\ acc'[u] = acc[u]
        /\ reply'[u] = reply[u] /\ inbox'[u] = inbox[u] /\ returns'[u] = returns[u]
    BY DEF OneCall
  <2>2. Sources(u) /\ Hydration(u) /\ SoundOutcome(answer[u])
    BY DEF Provenance
  <2>3. Sources(u)'
    BY <1>1, <2>1, <2>2 DEF Sources, Published
  <2>4. Hydration(u)'
    BY <1>1, <2>1, <2>2 DEF Hydration, OfSalt
  <2>5. SoundOutcome(answer[u])'
    BY <1>1, <2>1, <2>2 DEF SoundOutcome, OfSalt, AllReport
  <2>6. QED
    BY <2>3, <2>4, <2>5
<1>3. QED
  BY <1>1, <1>2 DEF Provenance

\* A sound outcome stays sound while Salt produces nothing.
LEMMA SoundFrame ==
    ASSUME NEW out, SoundOutcome(out), UNCHANGED <<job, cache, fired>>
    PROVE  SoundOutcome(out)'
  BY DEF SoundOutcome, OfSalt, AllReport

\* Steps that leave the leader's collection alone: contexts, the requests, and callers
\* that take the lead or join.
LEMMA QuietProvenance ==
    ASSUME TypeOK, Provenance, NEW w \in Waits,
           \/ \E cause \in Causes : CallerEnds(w, cause)
           \/ WaitTimesOut(w) \/ Lead(w) \/ Follow(w)
           \/ SendLookup(w) \/ PollTimerFires(w)
    PROVE  Provenance'
<1>1. /\ UNCHANGED <<job, saltVars, acc, reply, inbox, returns, answer, final>>
      /\ \/ UNCHANGED pc
         \/ \E to \in {"begin", "follow"} : pc[w] = "idle" /\ pc' = [pc EXCEPT ![w] = to]
         \/ \E to \in InWait : pc[w] \in InWait /\ pc' = [pc EXCEPT ![w] = to]
  BY DEF CallerEnds, WaitTimesOut, Lead, Follow, SendLookup, PollTimerFires, waitVars, rxVars,
         InWait
<1>2. OneCall(w)
  BY <1>1 DEF OneCall, TypeOK
<1>3. Sources(w)'
  BY <1>1 DEF Provenance, Sources, Published, saltVars
<1>4. Hydration(w)'
  BY <1>1 DEF Provenance, Hydration, OfSalt, InWait, TypeOK, saltVars
<1>5. SoundOutcome(answer[w])' /\ SoundOutcome(final)'
  BY <1>1, SoundFrame DEF Provenance, saltVars
<1>6. QED
  BY <1>2, <1>3, <1>4, <1>5, ProvenanceOfCall

\* Steps of callers that return an outcome: the cached one, the leader's, or their own.
LEMMA CallerProvenance ==
    ASSUME TypeOK, Linked, Provenance, NEW w \in Waits,
           ReturnCached(w) \/ FollowerReturns(w) \/ FollowerGivesUp(w)
    PROVE  Provenance'
<1>1. /\ UNCHANGED <<job, saltVars, acc, reply, inbox, returns, final>>
      /\ pc' = [pc EXCEPT ![w] = "returned"]
  BY DEF ReturnCached, FollowerReturns, FollowerGivesUp, rxVars
<1>2. PICK out : answer' = [answer EXCEPT ![w] = out] /\ SoundOutcome(out)
  <2>1. CASE ReturnCached(w)
    BY <2>1 DEF ReturnCached, Provenance
  <2>2. CASE FollowerReturns(w)
    BY <2>2 DEF FollowerReturns, Provenance, Linked
  <2>3. CASE FollowerGivesUp(w)
    BY <2>3, NothingIsSound DEF FollowerGivesUp
  <2>4. QED
    BY <2>1, <2>2, <2>3
<1>3. OneCall(w)
  BY <1>1, <1>2 DEF OneCall, TypeOK
<1>4. Sources(w)'
  BY <1>1 DEF Provenance, Sources, Published, saltVars
<1>5. Hydration(w)'
  BY <1>1 DEF Provenance, Hydration, OfSalt, InWait, TypeOK, saltVars
<1>6. SoundOutcome(answer[w])' /\ SoundOutcome(final)'
  <2>1. answer'[w] = out /\ UNCHANGED <<job, cache, fired, final>>
    BY <1>1, <1>2 DEF TypeOK, saltVars
  <2>2. SoundOutcome(out)' /\ SoundOutcome(final)'
    BY <1>2, <2>1, SoundFrame DEF Provenance
  <2>3. QED
    BY <2>1, <2>2 DEF SoundOutcome, OfSalt, AllReport
<1>7. QED
  BY <1>3, <1>4, <1>5, <1>6, ProvenanceOfCall

\* The goroutine of the return-event stream hands events on as it received them.
LEMMA RxProvenance ==
    ASSUME TypeOK, Linked, Provenance, NEW w \in Waits, RxStep(w) \/ StreamDrops(w)
    PROVE  Provenance'
<1>1. UNCHANGED <<job, saltVars, pc, waitVars>>
  BY DEF RxStep, StreamDrops, Subscribed, SubscribeFails, RxReceives, RxForwards, RxStops, RxExits
<1>2. /\ Published(inbox'[w]) /\ Published(returns'[w])
      /\ \A u \in Waits \ {w} : inbox'[u] = inbox[u] /\ returns'[u] = returns[u]
  <2>1. CASE Subscribed(w) \/ RxReceives(w)
    BY <2>1 DEF Subscribed, RxReceives, Provenance, Sources
  <2>2. CASE RxExits(w)
    BY <2>2, NothingIsSound DEF RxExits, Provenance, Sources, TypeOK
  <2>3. CASE RxForwards(w)
    <3>1. inbox[w] # << >> /\ inbox[w] \in Seq(StreamedReturn) /\ returns[w] \in Seq(StreamedReturn)
      BY <2>3 DEF RxForwards, Linked, TypeOK
    <3>2. /\ Head(inbox[w]) \in StreamedReturn
          /\ Head(inbox[w]).value = fired[Head(inbox[w]).minion]
          /\ Published(Tail(inbox[w]))
      BY <3>1, PublishedSequences DEF Provenance, Sources
    <3>3. Published(Append(returns[w], Head(inbox[w])))
      BY <3>1, <3>2, PublishedSequences DEF Provenance, Sources
    <3>4. /\ inbox'[w] = Tail(inbox[w]) /\ returns'[w] = Append(returns[w], Head(inbox[w]))
          /\ \A u \in Waits \ {w} : inbox'[u] = inbox[u] /\ returns'[u] = returns[u]
      BY <2>3 DEF RxForwards, TypeOK
    <3>5. QED
      BY <3>2, <3>3, <3>4
  <2>4. QED
    BY <2>1, <2>2, <2>3 DEF RxStep, SubscribeFails, StreamDrops, RxStops
<1>3. OneCall(w)
  BY <1>1, <1>2 DEF OneCall, waitVars
<1>4. Sources(w)'
  BY <1>1, <1>2 DEF Provenance, Sources, Published, saltVars, waitVars
<1>5. Hydration(w)'
  BY <1>1 DEF Provenance, Hydration, OfSalt, saltVars, waitVars
<1>6. SoundOutcome(answer[w])' /\ SoundOutcome(final)'
  BY <1>1, SoundFrame DEF Provenance, saltVars, waitVars
<1>7. QED
  BY <1>3, <1>4, <1>5, <1>6, ProvenanceOfCall

\* The steps of the leader.
LEMMA ServedProvenance ==
    ASSUME TypeOK, Provenance, NEW w \in Waits, SaltServesLookup(w)
    PROVE  Provenance'
<1>1. /\ UNCHANGED <<job, saltVars, acc, inbox, returns, answer, final>>
      /\ pc[w] = "sent" /\ pc' = [pc EXCEPT ![w] = "served"]
      /\ reply' = [reply EXCEPT ![w] = cache]
  BY DEF SaltServesLookup, rxVars
<1>2. OneCall(w)
  BY <1>1 DEF OneCall, TypeOK
<1>3. Sources(w)'
  BY <1>1 DEF Provenance, Sources, Published, Present, TypeOK, saltVars
<1>4. Hydration(w)'
  BY <1>1 DEF Provenance, Hydration, OfSalt, InWait, TypeOK, saltVars
<1>5. SoundOutcome(answer[w])' /\ SoundOutcome(final)'
  BY <1>1, SoundFrame DEF Provenance, saltVars
<1>6. QED
  BY <1>2, <1>3, <1>4, <1>5, ProvenanceOfCall

LEMMA FreshAccumulatorSays ==
    ASSUME job \in Job
    PROVE  /\ Returned(FreshAccumulator) = {} /\ FreshAccumulator.emitted = {}
           /\ OfSalt(FreshAccumulator)
           /\ job.expected # {} => /\ FreshAccumulator.expectedKnown
                                   /\ FreshAccumulator.expected = job.expected
<1>1. JobId \in JidOrNone /\ job.expected \in SUBSET Minions
  BY WaitsAssumption DEF JidOrNone, Job
<1>2. SetJID(NewAccumulator, JobId) \in AccType
  BY <1>1, SetJIDType, NewAccumulatorType
<1>3. /\ FreshAccumulator.byMinion = NewAccumulator.byMinion
      /\ FreshAccumulator.emitted = NewAccumulator.emitted
  BY <1>1, NewAccumulatorType, SetExpectedKeepsReturns DEF FreshAccumulator
<1>4. Returned(FreshAccumulator) = {} /\ FreshAccumulator.emitted = {}
  BY <1>3, NothingIsSound DEF Returned
<1>5. job.expected # {} => /\ FreshAccumulator.expectedKnown
                           /\ FreshAccumulator.expected = job.expected
  BY <1>2 DEF FreshAccumulator, SetExpected, AccType
<1>6. QED
  BY <1>4, <1>5 DEF OfSalt

LEMMA StartProvenance ==
    ASSUME TypeOK, Provenance, NEW w \in Waits, StartWait(w)
    PROVE  Provenance'
<1>1. pc[w] = "begin" /\ UNCHANGED <<job, saltVars, final, reply, inbox, returns>>
  BY DEF StartWait
<1>2. Sources(w)'
  BY <1>1 DEF Provenance, Sources, Published, saltVars
<1>3. SoundOutcome(final)'
  BY <1>1, SoundFrame DEF Provenance, saltVars
<1>4. CASE LeaveWith(w, NoMinionsOutcome) /\ UNCHANGED acc
  <2>1. pc'[w] = "publish" /\ answer'[w] = NoMinionsOutcome /\ acc'[w] = NewAccumulator
    BY <1>1, <1>4 DEF LeaveWith, TypeOK, Provenance, Hydration
  <2>2. OneCall(w)
    BY <1>1, <1>4 DEF LeaveWith, OneCall, TypeOK
  <2>3. Hydration(w)'
    BY <2>1, NothingIsSound DEF Hydration, OfSalt, InWait
  <2>4. SoundOutcome(answer[w])'
    BY <1>1, <2>1, SoundFrame, NothingIsSound DEF saltVars, SoundOutcome, OfSalt, AllReport
  <2>5. QED
    BY <1>2, <1>3, <2>2, <2>3, <2>4, ProvenanceOfCall
<1>5. CASE /\ acc' = [acc EXCEPT ![w] = FreshAccumulator]
           /\ pc' = [pc EXCEPT ![w] = "lookup"]
           /\ UNCHANGED answer
  <2>1. pc'[w] = "lookup" /\ acc'[w] = FreshAccumulator
    BY <1>5 DEF TypeOK
  <2>2. OneCall(w)
    BY <1>1, <1>5 DEF OneCall, TypeOK
  <2>3. Hydration(w)'
    <3>1. job \in Job /\ job' = job
      BY <1>1 DEF TypeOK
    <3>2. QED
      BY <2>1, <3>1, FreshAccumulatorSays DEF Hydration, OfSalt, InWait
  <2>4. SoundOutcome(answer[w])'
    BY <1>1, <1>5, SoundFrame DEF Provenance, saltVars
  <2>5. QED
    BY <1>2, <1>3, <2>2, <2>3, <2>4, ProvenanceOfCall
<1>6. QED
  BY <1>4, <1>5 DEF StartWait

\* What the leader collects is a result that says where it comes from.
LEMMA CollectedIsSound ==
    ASSUME NEW a \in AccType, OfSalt(a), NEW e \in Errors, NEW t \in BOOLEAN,
           e = "nil" => AllReport(Result(a))
    PROVE  SoundOutcome(OutcomeOf(Result(a), e, t))
<1>1. OfSalt(Result(a))
  BY ResultIsFaithful DEF OfSalt
<1>2. Result(a).missing = Result(a).expected \ Returned(Result(a))
  BY ResultIsFaithful
<1>3. QED
  BY <1>1, <1>2 DEF SoundOutcome, OutcomeOf

\* The wait gives up, with what it has collected.
LEMMA GiveUpProvenance ==
    ASSUME TypeOK, Provenance, NEW w \in Waits, NEW e \in Errors \ {"nil"}, NEW t \in BOOLEAN,
           LeaveWith(w, OutcomeOf(Partial(w), e, t)),
           reply' \in {reply, [reply EXCEPT ![w] = Nothing]},
           UNCHANGED <<job, saltVars, final, acc, inbox, returns>>
    PROVE  Provenance'
<1>1. /\ pc'[w] = "publish" /\ answer'[w] = OutcomeOf(Partial(w), e, t)
      /\ acc'[w] = acc[w] /\ acc[w] \in AccType
  BY DEF LeaveWith, TypeOK
<1>2. OneCall(w)
  BY DEF LeaveWith, OneCall, TypeOK
<1>3. Sources(w)'
  <2>1. reply'[w] \in {reply[w], Nothing} /\ UNCHANGED <<cache, fired>>
    BY DEF TypeOK, saltVars
  <2>2. \A m \in Present(reply'[w]) : reply'[w][m] = cache[m]
    BY <2>1, NothingIsSound DEF Provenance, Sources
  <2>3. Published(inbox[w]) /\ Published(returns[w])
    BY DEF Provenance, Sources
  <2>4. QED
    BY <2>1, <2>2, <2>3 DEF Sources, Published, Present
<1>4. Hydration(w)'
  <2>1. Returned(answer'[w].result) = Returned(acc'[w])
    BY <1>1, ResultIsFaithful DEF OutcomeOf, Partial
  <2>2. QED
    BY <1>1, <2>1 DEF Provenance, Hydration, OfSalt, InWait, saltVars
<1>5. SoundOutcome(answer[w])'
  <2>1. SoundOutcome(OutcomeOf(Partial(w), e, t))
    BY <1>1, CollectedIsSound DEF Partial, Provenance, Hydration
  <2> DEFINE out == OutcomeOf(Partial(w), e, t)
  <2> HIDE DEF out
  <2>2. answer'[w] = out /\ SoundOutcome(out) /\ UNCHANGED <<job, cache, fired>>
    BY <1>1, <2>1 DEF out, saltVars
  <2>3. QED
    BY <2>2 DEF SoundOutcome, OfSalt, AllReport
<1>6. SoundOutcome(final)'
  BY SoundFrame DEF Provenance, saltVars
<1>7. QED
  BY <1>2, <1>3, <1>4, <1>5, <1>6, ProvenanceOfCall

\* What the reply of a lookup holds, once normalized.
LEMMA LookupResultSays ==
    ASSUME job \in Job, NEW snapshot \in Snapshot
    PROVE  /\ Returned(LookupResult(snapshot)) = Present(snapshot)
           /\ \A m \in Present(snapshot) :
                 LookupResult(snapshot).byMinion[m].value = snapshot[m]
           /\ LookupResult(snapshot).expected =
                 IF job.expected # {} THEN job.expected ELSE Present(snapshot)
  BY WaitsAssumption, NoJidAssumption
     DEF LookupResult, Returned, Present, NoReturn, Snapshot, Optional, Value

LEMMA MergedSays ==
    ASSUME TypeOK, Provenance, NEW w \in Waits, pc[w] \in InWait
    PROVE  LET merged == MergeResult(acc[w], LookupResult(reply[w])) IN
           /\ merged \in AccType
           /\ OfSalt(merged)
           /\ merged.emitted = Returned(merged)
           /\ job.expected # {} => merged.expectedKnown /\ merged.expected = job.expected
<1> DEFINE looked == LookupResult(reply[w])
           merged == MergeResult(acc[w], looked)
<1>1. job \in Job /\ acc[w] \in AccType /\ reply[w] \in Snapshot
  BY DEF TypeOK
<1>2. looked \in ResultType /\ merged \in AccType
  BY <1>1, LookupResultType, MergedType
<1>3. /\ Returned(looked) = Present(reply[w])
      /\ \A m \in Present(reply[w]) : looked.byMinion[m].value = reply[w][m]
      /\ job.expected # {} => looked.expected = job.expected
  BY <1>1, LookupResultSays
<1> HIDE DEF looked
<1>4. /\ Returned(merged) = Returned(acc[w]) \cup Returned(looked)
      /\ merged.emitted = acc[w].emitted \cup Returned(looked)
      /\ \A m \in Returned(looked) : merged.byMinion[m] = looked.byMinion[m]
      /\ \A m \in Minions \ Returned(looked) : merged.byMinion[m] = acc[w].byMinion[m]
      /\ looked.expected # {} => merged.expectedKnown /\ merged.expected = looked.expected
  BY <1>1, <1>2, ReturnedOfMerge, MergeSays
<1> HIDE DEF merged
<1>5. ASSUME NEW m \in Returned(merged)
      PROVE  merged.byMinion[m].value \in {cache[m], fired[m]}
  <2>1. CASE m \in Returned(looked)
    BY <1>3, <1>4, <2>1 DEF Provenance, Sources
  <2>2. CASE m \in Minions /\ m \notin Returned(looked)
    <3>1. m \in Returned(acc[w]) /\ merged.byMinion[m] = acc[w].byMinion[m]
      BY <1>4, <1>5, <2>2
    <3>2. QED
      BY <3>1 DEF Provenance, Hydration, OfSalt
  <2>3. QED
    BY <1>5, <2>1, <2>2 DEF Returned
<1>6. merged.emitted = Returned(merged)
  BY <1>4 DEF Provenance, Hydration
<1>7. job.expected # {} => merged.expectedKnown /\ merged.expected = job.expected
  BY <1>3, <1>4
<1>8. QED
  BY <1>2, <1>5, <1>6, <1>7 DEF OfSalt, merged, looked

\* When a lookup completes the collection and the result is OK, everybody reported.
LEMMA CompleteMeansAllReport ==
    ASSUME job \in Job, ~job.collectionKnown => job.collection = {},
           NEW a \in AccType,
           job.expected # {} => a.expectedKnown /\ a.expected = job.expected,
           LookupComplete(Result(a)), OK(Result(a))
    PROVE  AllReport(Result(a))
<1>1. job.collection \subseteq Returned(Result(a))
  BY DEF LookupComplete
<1>2. job.expected \subseteq Returned(Result(a))
  <2>1. CASE job.expected # {}
    <3>1. Result(a).missing = job.expected \ Returned(Result(a))
      BY <2>1, ResultSays
    <3>2. QED
      BY <3>1 DEF OK
  <2>2. CASE job.expected = {}
    BY <2>2
  <2>3. QED
    BY <2>1, <2>2
<1>3. QED
  BY <1>1, <1>2 DEF AllReport, OK

LEMMA LookupProvenance ==
    ASSUME TypeOK, Provenance, NEW w \in Waits, LookupReturns(w)
    PROVE  Provenance'
<1> DEFINE merged  == MergeResult(acc[w], LookupResult(reply[w]))
           current == Result(merged)
<1>1. /\ pc[w] = "served" /\ UNCHANGED <<job, saltVars, final, inbox, returns>>
      /\ acc' = [acc EXCEPT ![w] = merged]
      /\ reply' = [reply EXCEPT ![w] = Nothing]
      /\ \/ LookupComplete(current) /\ LeaveWith(w, FinishedOutcome(current))
         \/ pc' = [pc EXCEPT ![w] = "poll"] /\ UNCHANGED answer
  BY DEF LookupReturns, rxVars
<1>2. /\ merged \in AccType
      /\ OfSalt(merged)
      /\ merged.emitted = Returned(merged)
      /\ job.expected # {} => merged.expectedKnown /\ merged.expected = job.expected
  BY <1>1, MergedSays DEF InWait
<1> HIDE DEF merged
<1>3. acc'[w] = merged /\ reply'[w] = Nothing /\ UNCHANGED <<job, cache, fired>>
  BY <1>1 DEF TypeOK, saltVars
<1>4. OneCall(w)
  BY <1>1 DEF OneCall, TypeOK, LeaveWith
<1>5. Sources(w)'
  <2>1. Published(inbox[w]) /\ Published(returns[w])
    BY DEF Provenance, Sources
  <2>2. QED
    BY <1>1, <1>3, <2>1, NothingIsSound DEF Sources, Published, Present
<1>6. SoundOutcome(final)'
  BY <1>1, <1>3, SoundFrame DEF Provenance
<1>7. CASE LookupComplete(current) /\ LeaveWith(w, FinishedOutcome(current))
  <2>1. pc'[w] = "publish" /\ answer'[w] = FinishedOutcome(current)
    BY <1>7 DEF LeaveWith, TypeOK
  <2>2. Hydration(w)'
    <3>1. Returned(answer'[w].result) = Returned(merged)
      BY <1>2, <2>1, ResultIsFaithful DEF FinishedOutcome, OutcomeOf
    <3>2. QED
      BY <1>2, <1>3, <2>1, <3>1 DEF Hydration, OfSalt, InWait
  <2>3. SoundOutcome(FinishedOutcome(current))
    <3>1. job \in Job /\ (~job.collectionKnown => job.collection = {})
      BY DEF TypeOK, Provenance
    <3>2. CASE OK(current)
      <4>1. AllReport(current)
        BY <1>2, <1>7, <3>1, <3>2, CompleteMeansAllReport
      <4>2. QED
        BY <1>2, <3>2, <4>1, CollectedIsSound DEF FinishedOutcome, Errors
    <3>3. CASE ~OK(current)
      BY <1>2, <3>3, CollectedIsSound DEF FinishedOutcome, Errors
    <3>4. QED
      BY <3>2, <3>3
  <2> DEFINE out == FinishedOutcome(current)
  <2> HIDE DEF out
  <2>4. SoundOutcome(answer[w])'
    <3>1. answer'[w] = out /\ SoundOutcome(out)
      BY <2>1, <2>3 DEF out
    <3>2. QED
      BY <1>3, <3>1 DEF SoundOutcome, OfSalt, AllReport
  <2>5. QED
    BY <1>4, <1>5, <1>6, <2>2, <2>4, ProvenanceOfCall
<1>8. CASE pc' = [pc EXCEPT ![w] = "poll"] /\ UNCHANGED answer
  <2>1. pc'[w] = "poll"
    BY <1>8 DEF TypeOK
  <2>2. Hydration(w)'
    BY <1>2, <1>3, <2>1 DEF Hydration, OfSalt, InWait
  <2>3. SoundOutcome(answer[w])'
    BY <1>3, <1>8, SoundFrame DEF Provenance
  <2>4. QED
    BY <1>4, <1>5, <1>6, <2>2, <2>3, ProvenanceOfCall
<1>9. QED
  BY <1>1, <1>7, <1>8

LEMMA ReceiveProvenance ==
    ASSUME TypeOK, Provenance, NEW w \in Waits, PollReceives(w)
    PROVE  Provenance'
<1> DEFINE event == Head(returns[w])
           after == AddStreamed(acc[w], event)
<1>1. /\ pc[w] = "poll" /\ returns[w] # << >>
      /\ UNCHANGED <<job, saltVars, final, answer, reply, inbox>>
      /\ acc' = [acc EXCEPT ![w] = after]
      /\ returns' = [returns EXCEPT ![w] = Tail(@)]
      /\ \E to \in {"lookup", "poll"} : pc' = [pc EXCEPT ![w] = to]
  BY DEF PollReceives
<1>2. /\ event \in StreamedReturn /\ event.value = fired[event.minion]
      /\ Published(Tail(returns[w]))
  BY <1>1, PublishedSequences DEF Provenance, Sources, TypeOK
<1> HIDE DEF event
<1>3. /\ event.minion \in Minions /\ [jid |-> JobId, value |-> event.value] \in Return
      /\ acc[w] \in AccType
  BY <1>2, WaitsAssumption DEF StreamedReturn, Return, JidOrNone, TypeOK
<1>4. /\ after \in AccType
      /\ after.expectedKnown = acc[w].expectedKnown /\ after.expected = acc[w].expected
      /\ Returned(after) = Returned(acc[w]) \cup {event.minion}
      /\ after.byMinion[event.minion].value = event.value
      /\ \A n \in Minions \ {event.minion} : after.byMinion[n] = acc[w].byMinion[n]
  BY <1>3, AddMinionSays DEF AddStreamed
<1>5. after.emitted = acc[w].emitted \cup {event.minion}
  BY <1>3 DEF AddStreamed, AddMinion, AccType
<1> HIDE DEF after
<1>6. acc'[w] = after /\ pc'[w] \in InWait /\ UNCHANGED <<job, cache, fired>>
  BY <1>1 DEF TypeOK, saltVars, InWait
<1>7. OneCall(w)
  BY <1>1 DEF OneCall, TypeOK
<1>8. Sources(w)'
  <2>1. returns'[w] = Tail(returns[w])
    BY <1>1 DEF TypeOK
  <2>2. /\ \A m \in Present(reply[w]) : reply[w][m] = cache[m]
        /\ Published(inbox[w])
    BY DEF Provenance, Sources
  <2>3. QED
    BY <1>1, <1>2, <1>6, <2>1, <2>2 DEF Sources, Published
<1>9. Hydration(w)'
  <2>1. ASSUME NEW m \in Returned(after)
        PROVE  after.byMinion[m].value \in {cache[m], fired[m]}
    <3>1. CASE m = event.minion
      BY <1>2, <1>4, <3>1
    <3>2. CASE m # event.minion
      <4>1. m \in Returned(acc[w]) /\ m \in Minions
        BY <1>4, <2>1, <3>2 DEF Returned
      <4>2. after.byMinion[m] = acc[w].byMinion[m]
        BY <1>4, <3>2, <4>1
      <4>3. QED
        BY <4>1, <4>2 DEF Provenance, Hydration, OfSalt
    <3>3. QED
      BY <3>1, <3>2
  <2>2. after.emitted = Returned(after)
    BY <1>4, <1>5 DEF Provenance, Hydration
  <2>3. job.expected # {} => after.expectedKnown /\ after.expected = job.expected
    BY <1>1, <1>4 DEF Provenance, Hydration, InWait
  <2>4. QED
    BY <1>6, <2>1, <2>2, <2>3 DEF Hydration, OfSalt, InWait
<1>10. SoundOutcome(answer[w])' /\ SoundOutcome(final)'
  BY <1>1, <1>6, SoundFrame DEF Provenance
<1>11. QED
  BY <1>7, <1>8, <1>9, <1>10, ProvenanceOfCall

LEMMA PublishProvenance ==
    ASSUME TypeOK, SingleLeader, Settlement, Provenance, NEW w \in Waits, Publish(w)
    PROVE  Provenance'
<1>1. /\ answer' = answer /\ final' \in {answer[w], final}
      /\ pc' = [pc EXCEPT ![w] = "returned"]
      /\ acc' = [acc EXCEPT ![w] = NewAccumulator]
      /\ returns' = [returns EXCEPT ![w] = << >>]
      /\ UNCHANGED <<job, saltVars, reply, inbox>>
  BY PublishSettles DEF Publish
<1>2. /\ pc'[w] = "returned" /\ acc'[w] = NewAccumulator /\ returns'[w] = << >>
      /\ UNCHANGED <<job, cache, fired>>
  BY <1>1 DEF TypeOK, saltVars
<1>3. OneCall(w)
  BY <1>1 DEF OneCall, TypeOK
<1>4. Sources(w)'
  BY <1>1, <1>2, NothingIsSound DEF Provenance, Sources, Published
<1>5. Hydration(w)'
  BY <1>2, NothingIsSound DEF Hydration, OfSalt, InWait
<1>6. SoundOutcome(answer[w])'
  BY <1>1, <1>2, SoundFrame DEF Provenance
<1>7. SoundOutcome(final)'
  <2>1. SoundOutcome(final') /\ UNCHANGED <<job, cache, fired>>
    BY <1>1, <1>2 DEF Provenance
  <2>2. QED
    BY <2>1 DEF SoundOutcome, OfSalt, AllReport
<1>8. QED
  BY <1>3, <1>4, <1>5, <1>6, <1>7, ProvenanceOfCall

LEMMA NextProvenance ==
    ASSUME TypeOK, Linked, SingleLeader, Settlement, Provenance, [Next]_vars
    PROVE  Provenance'
<1>1. ASSUME NEW w \in Waits, LookupErrors(w) \/ LookupAborted(w)
      PROVE  Provenance'
  BY <1>1, GiveUpProvenance
     DEF LookupErrors, LookupAborted, LookupFails, rxVars, Errors
<1>2. ASSUME NEW w \in Waits, PollContextEnds(w)
      PROVE  Provenance'
  <2>1. /\ ExecErrorFor(ctx[w]) \in Errors \ {"nil"}
        /\ IsConfiguredWaitTimeout(ctx[w]) \in BOOLEAN
    BY WaitsAssumption DEF ExecErrorFor, Errors, IsConfiguredWaitTimeout
  <2>2. QED
    BY <1>2, <2>1, GiveUpProvenance DEF PollContextEnds, rxVars
<1>3. CASE UNCHANGED vars
  <2>1. UNCHANGED <<job, cache, fired, pc, final, answer, acc, reply, inbox, returns>>
    BY <1>3 DEF vars, saltVars, waitVars, rxVars
  <2>2. ASSUME NEW w \in Waits
        PROVE  Sources(w)' /\ Hydration(w)' /\ SoundOutcome(answer[w])'
    BY <2>1 DEF Provenance, Sources, Published, Hydration, OfSalt, SoundOutcome, AllReport
  <2>3. SoundOutcome(final)'
    BY <2>1, SoundFrame DEF Provenance
  <2>4. QED
    BY <2>1, <2>2, <2>3 DEF Provenance
<1>4. QED
  BY <1>1, <1>2, <1>3, SaltStepProvenance, QuietProvenance, CallerProvenance, RxProvenance,
     ServedProvenance, StartProvenance, LookupProvenance, ReceiveProvenance, PublishProvenance
     DEF Next, LeaderStep

LEMMA ProvenanceHolds ==
    Spec => []Provenance
<1>1. Init => Provenance
  <2> SUFFICES ASSUME Init PROVE Provenance
    OBVIOUS
  <2>1. ~job.collectionKnown => job.collection = {}
    BY CollectionOfJobs DEF Init
  <2>2. ASSUME NEW w \in Waits
        PROVE  Sources(w) /\ Hydration(w) /\ SoundOutcome(answer[w])
    BY NothingIsSound DEF Init, Sources, Hydration, InWait
  <2>3. SoundOutcome(final)
    BY NothingIsSound DEF Init
  <2>4. QED
    BY <2>1, <2>2, <2>3 DEF Provenance
<1>2. TypeOK /\ Linked /\ SingleLeader /\ Settlement /\ Provenance /\ [Next]_vars => Provenance'
  BY NextProvenance
<1>3. QED
  BY <1>1, <1>2, SettlementHolds, PTL DEF Spec

\* No return is invented and none is both present and missing: every answer Wait
\* gives lists returns Salt produced, and as missing the expected minions it has
\* no return from.
THEOREM AnswersAreSalts == Spec => []AnswersComeFromSalt
<1>1. Provenance => AnswersComeFromSalt
  BY DEF Provenance, SoundOutcome, OfSalt, AnswersComeFromSalt
<1>2. QED
  BY <1>1, ProvenanceHolds, PTL

\* A success is Salt's: when the job settles on a nil error, each minion asked for
\* did report success and none of those Salt says it reached is left out.
THEOREM SuccessIsSalts == Spec => []SuccessIsReported
<1>1. TypeOK /\ Provenance => SuccessIsReported
  <2> SUFFICES ASSUME TypeOK, Provenance, done, final.err = "nil"
               PROVE  /\ \A m \in job.expected : "ok" \in {cache[m], fired[m]}
                      /\ job.collection \subseteq Returned(final.result)
    BY DEF SuccessIsReported
  <2>1. OfSalt(final.result) /\ AllReport(final.result)
    BY DEF Provenance, SoundOutcome
  <2>2. QED
    BY <2>1 DEF OfSalt, AllReport
<1>2. QED
  BY <1>1, TypeCorrect, ProvenanceHolds, PTL

\* What the observers were told while Wait ran is what its caller gets.
THEOREM ProgressIsResult == Spec => []ProgressMatchesResult
<1>1. Provenance => ProgressMatchesResult
  BY DEF Provenance, Hydration, ProgressMatchesResult
<1>2. QED
  BY <1>1, ProvenanceHolds, PTL

\* The poll that ends a wait overrules the event stream: the return it found in the
\* job cache is the one in the result.
THEOREM LookupOverrules == Spec => LookupReconciles
<1> DEFINE Reconciled(w) ==
        pc[w] = "served" /\ pc'[w] = "publish" /\ answer'[w].terminal =>
            \A m \in Present(reply[w]) :
                answer'[w].result.byMinion[m].value = reply[w][m]
<1>1. ASSUME TypeOK, Next, NEW w \in Waits, pc[w] = "served", pc'[w] = "publish",
             answer'[w].terminal
      PROVE  \A m \in Present(reply[w]) : answer'[w].result.byMinion[m].value = reply[w][m]
  <2>1. LookupReturns(w) \/ LookupErrors(w) \/ LookupAborted(w)
    <3>1. ASSUME NEW u \in Waits, Polling(u) \/ Publish(u) \/ ReturnCached(u) \/ Follow(u)
                                  \/ Lead(u) \/ FollowerReturns(u) \/ FollowerGivesUp(u)
          PROVE  u = w
      <4>1. \E to \in PCs : pc' = [pc EXCEPT ![u] = to]
        <5>1. CASE Polling(u)
          BY <1>1, <5>1, PollingSteps DEF PCs, Leading
        <5>2. CASE ~Polling(u)
          BY <3>1, <5>2 DEF Publish, ReturnCached, Follow, Lead, FollowerReturns,
             FollowerGivesUp, PCs, Leading
        <5>3. QED
          BY <5>1, <5>2
      <4>2. QED
        BY <1>1, <4>1 DEF TypeOK
    <3>2. ~UNCHANGED callerVars
      BY <1>1 DEF callerVars
    <3>3. Polling(w) \/ Publish(w) \/ ReturnCached(w) \/ Follow(w) \/ Lead(w)
          \/ FollowerReturns(w) \/ FollowerGivesUp(w)
      BY <1>1, <3>1, <3>2, NextSplit
    <3>4. QED
      BY <1>1, <3>3 DEF Polling, Publish, ReturnCached, Follow, Lead, FollowerReturns,
         FollowerGivesUp, StartWait, SendLookup, SaltServesLookup, PollTimerFires,
         PollReceives, PollContextEnds
  <2>2. CASE LookupErrors(w) \/ LookupAborted(w)
    BY <1>1, <2>2 DEF LookupErrors, LookupAborted, LookupFails, LeaveWith, OutcomeOf, TypeOK
  <2>3. CASE LookupReturns(w)
    <3> DEFINE looked == LookupResult(reply[w])
               merged == MergeResult(acc[w], looked)
    <3>1. job \in Job /\ acc[w] \in AccType /\ reply[w] \in Snapshot
      BY <1>1 DEF TypeOK
    <3>2. looked \in ResultType /\ merged \in AccType
      BY <3>1, LookupResultType, MergedType
    <3>3. /\ Returned(looked) = Present(reply[w])
          /\ \A m \in Present(reply[w]) : looked.byMinion[m].value = reply[w][m]
      BY <3>1, LookupResultSays
    <3>4. answer'[w].result = Result(merged)
      BY <1>1, <2>3 DEF LookupReturns, LeaveWith, FinishedOutcome, OutcomeOf, TypeOK
    <3> HIDE DEF looked
    <3>5. /\ Returned(looked) \subseteq Returned(merged)
          /\ \A m \in Returned(looked) : merged.byMinion[m] = looked.byMinion[m]
      BY <3>1, <3>2, ReturnedOfMerge
    <3> HIDE DEF merged
    <3>6. \A m \in Returned(merged) : Result(merged).byMinion[m].value = merged.byMinion[m].value
      BY <3>2, ResultIsFaithful
    <3>7. QED
      BY <3>3, <3>4, <3>5, <3>6
  <2>4. QED
    BY <2>1, <2>2, <2>3
<1>2. TypeOK /\ [Next]_vars => [\A w \in Waits : Reconciled(w)]_vars
  BY <1>1
<1>3. QED
  BY <1>2, TypeCorrect, PTL DEF Spec, LookupReconciles
==============================================================================
