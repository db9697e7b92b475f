---------------------------- MODULE AsyncJobProofs ----------------------------
(***************************************************************************)
(* Theorems about AsyncJob, for any minions, expected set and number of    *)
(* goroutines that return, close and wait.                                 *)
(***************************************************************************)
EXTENDS AsyncJob, TLAPS

LEMMA InitType ==
    Init => TypeOK
<1> SUFFICES ASSUME Init PROVE TypeOK
  OBVIOUS
<1>1. \A r \in Returners : mu = r <=> returner[r] \in {"record", "check"}
  BY JobAssumption DEF Init
<1>2. QED
  BY <1>1 DEF Init, TypeOK

LEMMA ReturnType ==
    ASSUME TypeOK, NEW r \in Returners, BeginReturn(r) \/ ReturnStep(r)
    PROVE  TypeOK'
<1> USE DEF TypeOK, waiting
<1>1. CASE BeginReturn(r)
  BY <1>1 DEF BeginReturn
<1>2. CASE EnterReturn(r)
  BY <1>2, JobAssumption DEF EnterReturn, Free
<1>3. CASE IgnoreReturn(r)
  BY <1>3 DEF IgnoreReturn
<1>4. CASE Record(r)
  BY <1>4 DEF Record
<1>5. CASE FinishReturn(r)
  <2>1. done' \in BOOLEAN
    BY <1>5 DEF FinishReturn
  <2>2. mu = r
    BY <1>5 DEF FinishReturn
  <2>3. \A s \in Returners : mu' = s <=> returner'[s] \in {"record", "check"}
    BY <1>5, <2>2, JobAssumption DEF FinishReturn
  <2>4. returner' \in [Returners -> {"out", "lock", "record", "check"}]
    BY <1>5 DEF FinishReturn
  <2>5. QED
    BY <1>5, <2>1, <2>3, <2>4 DEF FinishReturn
<1>6. QED
  BY <1>1, <1>2, <1>3, <1>4, <1>5 DEF ReturnStep

LEMMA CallType ==
    ASSUME TypeOK,
           \/ \E c \in Closers : Close(c)
           \/ \E w \in Waiters : BeginWait(w) \/ ContextEnds(w) \/ WaitStep(w)
    PROVE  TypeOK'
<1> USE DEF TypeOK, returning, waiting
<1>1. ASSUME NEW c \in Closers, Close(c) PROVE TypeOK'
  BY <1>1 DEF Close
<1>2. ASSUME NEW w \in Waiters, BeginWait(w) PROVE TypeOK'
  BY <1>2 DEF BeginWait
<1>3. ASSUME NEW w \in Waiters, ContextEnds(w) PROVE TypeOK'
  BY <1>3 DEF ContextEnds
<1>4. ASSUME NEW w \in Waiters, Select(w) PROVE TypeOK'
  BY <1>4 DEF Select
<1>5. ASSUME NEW w \in Waiters, Snapshot(w) PROVE TypeOK'
  BY <1>5 DEF Snapshot
<1>6. QED
  BY <1>1, <1>2, <1>3, <1>4, <1>5 DEF WaitStep

LEMMA NextType ==
    TypeOK /\ [Next]_vars => TypeOK'
<1>1. TypeOK /\ UNCHANGED vars => TypeOK'
  BY DEF TypeOK, vars, returning, waiting
<1>2. QED
  BY <1>1, ReturnType, CallType DEF Next

\* Every variable keeps to its values, and the mutex is held by the goroutine
\* in Return.
THEOREM TypeCorrect == Spec => []TypeOK
  BY InitType, NextType, PTL DEF Spec
------------------------------------------------------------------------------
\* All calls of Wait that the job's end has released return the same.

(***************************************************************************)
(* A snapshot is taken with the mutex free and the job done: nobody is     *)
(* about to record then, and nobody gets that far any more, so that the    *)
(* returns are still those of the first snapshot.                          *)
(***************************************************************************)
Frozen ==
    /\ \A w \in Waiters : waiter[w] = "snapshot" /\ resolved[w] => done
    /\ outcomes # {} => /\ done
                        /\ outcomes = {results}
                        /\ \A r \in Returners : returner[r] # "record"

LEMMA InitFrozen ==
    Init => Frozen
  BY DEF Init, Frozen

LEMMA ReturnKeepsFrozen ==
    ASSUME TypeOK, Frozen, NEW r \in Returners, BeginReturn(r) \/ ReturnStep(r)
    PROVE  Frozen'
<1> USE DEF TypeOK, Frozen, waiting
<1>1. CASE BeginReturn(r)
  BY <1>1 DEF BeginReturn
<1>2. CASE EnterReturn(r)
  BY <1>2 DEF EnterReturn
<1>3. CASE IgnoreReturn(r)
  BY <1>3 DEF IgnoreReturn
<1>4. CASE Record(r)
  BY <1>4 DEF Record
<1>5. CASE FinishReturn(r)
  BY <1>5 DEF FinishReturn
<1>6. QED
  BY <1>1, <1>2, <1>3, <1>4, <1>5 DEF ReturnStep

LEMMA WaitKeepsFrozen ==
    ASSUME TypeOK, Frozen, NEW w \in Waiters,
           BeginWait(w) \/ ContextEnds(w) \/ WaitStep(w)
    PROVE  Frozen'
<1> USE DEF TypeOK, Frozen, returning
<1>1. CASE BeginWait(w)
  BY <1>1 DEF BeginWait
<1>2. CASE ContextEnds(w)
  BY <1>2 DEF ContextEnds
<1>3. CASE Select(w)
  BY <1>3 DEF Select
<1>4. CASE Snapshot(w)
  <2>1. \A r \in Returners : returner[r] # "record"
    BY <1>4, JobAssumption DEF Snapshot, Free
  <2>2. resolved[w] => done /\ outcomes' = {results}
    BY <1>4 DEF Snapshot
  <2>3. \A v \in Waiters : waiter'[v] = "snapshot" => waiter[v] = "snapshot"
    BY <1>4 DEF Snapshot
  <2>4. QED
    BY <1>4, <2>1, <2>2, <2>3 DEF Snapshot
<1>5. QED
  BY <1>1, <1>2, <1>3, <1>4 DEF WaitStep

LEMMA NextFrozen ==
    TypeOK /\ Frozen /\ [Next]_vars => Frozen'
<1>1. ASSUME NEW c \in Closers, Frozen, Close(c) PROVE Frozen'
  BY <1>1 DEF Close, Frozen, returning, waiting
<1>2. Frozen /\ UNCHANGED vars => Frozen'
  BY DEF Frozen, vars, returning, waiting
<1>3. QED
  BY <1>1, <1>2, ReturnKeepsFrozen, WaitKeepsFrozen DEF Next

\* "Return after Close must not [...] change the resolved result": the calls of
\* Wait that were released agree, though Close does not take the mutex and may
\* come in the middle of any number of Returns.
THEOREM AllWaitsAgree == Spec => []WaitsAgree
<1>1. Frozen => WaitsAgree
  BY DEF Frozen, WaitsAgree
<1>2. Spec => []Frozen
  BY InitFrozen, NextFrozen, TypeCorrect, PTL DEF Spec
<1>3. QED
  BY <1>1, <1>2, PTL
==============================================================================
