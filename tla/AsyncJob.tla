------------------------------ MODULE AsyncJob ------------------------------
(***************************************************************************)
(* The scriptable job of the mock transport (AsyncJob in                   *)
(* transports/mock/mock.go): goroutines that call Return for minions, one  *)
(* that closes the job and several that Wait.  Return and the snapshot a   *)
(* Wait takes hold the job's mutex; Close does not.                        *)
(*                                                                         *)
(* Operators introduced as variants are the bugs the mutants put in.       *)
(***************************************************************************)
EXTENDS FiniteSets

CONSTANTS
    Minions,
    Expected,       \* the minions the job expects
    Returners,      \* goroutines, each in one call of Return at a time
    Closers,        \* goroutines that call Close
    Waiters,        \* goroutines that call Wait
    Nobody

ASSUME JobAssumption ==
    /\ Expected \subseteq Minions
    /\ Nobody \notin Returners \cup Waiters

VARIABLES
    returner,   \* where each returner is: "out", "lock", "record", "check"
    minion,     \* the minion it returns
    closer,     \* where each closer is: "out", "returned"
    waiter,     \* where each waiter is: "out", "select", "snapshot"
    live,       \* whether the context of its call is live
    resolved,   \* whether its select found the job done
    mu,         \* who holds the mutex
    done,       \* whether j.done is closed
    results,    \* j.results: whose return is kept for each minion, or Nobody's
    outcomes    \* history: what each call of Wait that was resolved has returned

vars == <<returner, minion, closer, waiter, live, resolved, mu, done, results, outcomes>>

returning == <<returner, minion>>
waiting   == <<waiter, live, resolved>>

Init ==
    /\ returner = [r \in Returners |-> "out"]
    /\ minion \in [Returners -> Minions]
    /\ closer = [c \in Closers |-> "out"]
    /\ waiter = [w \in Waiters |-> "out"]
    /\ live = [w \in Waiters |-> TRUE]
    /\ resolved = [w \in Waiters |-> FALSE]
    /\ mu = Nobody
    /\ done = FALSE
    /\ results = [m \in Minions |-> Nobody]
    /\ outcomes = {}

------------------------------------------------------------------------------
\* Return.

\* The minions that have returned.
Returned(res) == {m \in Minions : res[m] # Nobody}

BeginReturn(r) ==
    /\ returner[r] = "out"
    /\ \E m \in Minions : minion' = [minion EXCEPT ![r] = m]
    /\ returner' = [returner EXCEPT ![r] = "lock"]
    /\ UNCHANGED <<closer, waiting, mu, done, results, outcomes>>

\* Variant: the mutex is not taken.
Unlocked == TRUE

Free == mu = Nobody

\* It takes the mutex and finds the job open.
EnterReturn(r) ==
    /\ returner[r] = "lock"
    /\ Free
    /\ ~done
    /\ mu' = r
    /\ returner' = [returner EXCEPT ![r] = "record"]
    /\ UNCHANGED <<minion, closer, waiting, done, results, outcomes>>

\* It takes the mutex, finds the job done, and ignores the return.
IgnoreReturn(r) ==
    /\ returner[r] = "lock"
    /\ Free
    /\ done
    /\ returner' = [returner EXCEPT ![r] = "out"]
    /\ UNCHANGED <<minion, closer, waiting, mu, done, results, outcomes>>

Record(r) ==
    /\ returner[r] = "record"
    /\ results' = [results EXCEPT ![minion[r]] = r]
    /\ returner' = [returner EXCEPT ![r] = "check"]
    /\ UNCHANGED <<minion, closer, waiting, mu, done, outcomes>>

\* Variant: the job waits for minions it does not expect.
EveryReturned == Minions \subseteq Returned(results)

AllReturned == Expected \subseteq Returned(results)

FinishReturn(r) ==
    /\ returner[r] = "check"
    /\ done' = (done \/ AllReturned)
    /\ mu' = Nobody
    /\ returner' = [returner EXCEPT ![r] = "out"]
    /\ UNCHANGED <<minion, closer, waiting, results, outcomes>>

------------------------------------------------------------------------------
\* Close and Wait.

Close(c) ==
    /\ closer[c] = "out"
    /\ done' = TRUE
    /\ closer' = [closer EXCEPT ![c] = "returned"]
    /\ UNCHANGED <<returning, waiting, mu, results, outcomes>>

BeginWait(w) ==
    /\ waiter[w] = "out"
    /\ waiter' = [waiter EXCEPT ![w] = "select"]
    /\ live' = [live EXCEPT ![w] = TRUE]
    /\ UNCHANGED <<returning, closer, resolved, mu, done, results, outcomes>>

ContextEnds(w) ==
    /\ waiter[w] = "select"
    /\ live[w]
    /\ live' = [live EXCEPT ![w] = FALSE]
    /\ UNCHANGED <<returning, closer, waiter, resolved, mu, done, results, outcomes>>

\* The select in Wait; with both cases ready, either.
Select(w) ==
    /\ waiter[w] = "select"
    /\ \/ done /\ resolved' = [resolved EXCEPT ![w] = TRUE]
       \/ ~live[w] /\ resolved' = [resolved EXCEPT ![w] = FALSE]
    /\ waiter' = [waiter EXCEPT ![w] = "snapshot"]
    /\ UNCHANGED <<returning, closer, live, mu, done, results, outcomes>>

\* snapshot: under the mutex.
Snapshot(w) ==
    /\ waiter[w] = "snapshot"
    /\ Free
    /\ outcomes' = IF resolved[w] THEN outcomes \cup {results} ELSE outcomes
    /\ waiter' = [waiter EXCEPT ![w] = "out"]
    /\ UNCHANGED <<returning, closer, live, resolved, mu, done, results>>

ReturnStep(r) == EnterReturn(r) \/ IgnoreReturn(r) \/ Record(r) \/ FinishReturn(r)
WaitStep(w) == Select(w) \/ Snapshot(w)

Next ==
    \/ \E r \in Returners : BeginReturn(r) \/ ReturnStep(r)
    \/ \E c \in Closers : Close(c)
    \/ \E w \in Waiters : BeginWait(w) \/ ContextEnds(w) \/ WaitStep(w)

Spec == Init /\ [][Next]_vars

\* Goroutines run, and the mutex is fair.
FairSpec ==
    /\ Spec
    /\ \A r \in Returners : SF_vars(ReturnStep(r))
    /\ \A w \in Waiters : SF_vars(WaitStep(w))

------------------------------------------------------------------------------
\* Properties.

\* Every variable keeps to its values; the mutex is held by the one goroutine
\* that is in Return.
TypeOK ==
    /\ returner \in [Returners -> {"out", "lock", "record", "check"}]
    /\ minion \in [Returners -> Minions]
    /\ closer \in [Closers -> {"out", "returned"}]
    /\ waiter \in [Waiters -> {"out", "select", "snapshot"}]
    /\ live \in [Waiters -> BOOLEAN]
    /\ resolved \in [Waiters -> BOOLEAN]
    /\ mu \in Returners \cup {Nobody}
    /\ \A r \in Returners : mu = r <=> returner[r] \in {"record", "check"}
    /\ done \in BOOLEAN
    /\ results \in [Minions -> Returners \cup {Nobody}]
    /\ outcomes \in SUBSET [Minions -> Returners \cup {Nobody}]

\* "Return after Close must not [...] change the resolved result": all calls of
\* Wait that the job's end has released return the same, although Close may come
\* in the middle of a Return and Return may come at any time after.
WaitsAgree ==
    \A x, y \in outcomes : x = y

\* A Wait ends once every expected minion has returned.
WaitEnds ==
    \A w \in Waiters : waiter[w] = "select" /\ Expected \subseteq Returned(results) ~> waiter[w] = "out"
==============================================================================
