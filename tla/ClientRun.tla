------------------------------ MODULE ClientRun ------------------------------
(***************************************************************************)
(* One call of Client.Run (client.go): the lifecycle events it emits       *)
(* through MultiObserver around the handler chain, and the recovery from   *)
(* panics.  The handler chain is open: it emits events of its own, returns *)
(* anything or panics; RetriedRun closes it with the retry middleware.  An *)
(* observer returns or panics, and the context may end at any time.  The   *)
(* calls of Run share no state of the client's.                            *)
(*                                                                         *)
(* Operators introduced as variants are the bugs the mutants put in.       *)
(***************************************************************************)
EXTENDS Naturals, FiniteSets, Sequences, SequencesExt

CONSTANTS
    Observers,      \* how many observers: the client's first, then the call's
    MaxPanics       \* bound: how many times an observer panics

ASSUME RunAssumption ==
    /\ Observers \in Nat \ {0}
    /\ MaxPanics \in Nat

VARIABLES
    pc,         \* "start", "handler", "emit", "returned", "panicked"
    emitting,   \* the event being broadcast
    stripped,   \* whether its context cannot end
    turn,       \* the observer whose OnEvent runs
    resume,     \* where Run goes on when the event is broadcast
    recovering, \* whether recoverRun has caught a panic
    cancelled,  \* whether the context of the call has ended
    result,     \* outcome.result: "none", "ok" or "bad"
    err,        \* outcome.err
    log,        \* history: the events each observer was given
    panics      \* history: how often an observer has panicked

emission == <<emitting, stripped, turn, resume>>
outcome  == <<result, err>>
clientVars == <<pc, emission, recovering, cancelled, outcome, log, panics>>

Terminal == {"request.completed", "request.failed", "retry.exhausted"}
Final    == {"request.completed", "request.failed"}
Progress == {"minion.returned", "retry.scheduled", "retry.started", "retry.exhausted"}
All      == 1 .. Observers

HandlerErrors == {"execution", "transport", "cancelled"}

Init ==
    /\ pc = "start"
    /\ emitting = "none"
    /\ stripped = FALSE
    /\ turn = 1
    /\ resume = "none"
    /\ recovering = FALSE
    /\ cancelled = FALSE
    /\ result = "none"
    /\ err = "none"
    /\ log = [o \in All |-> << >>]
    /\ panics = 0

\* Variant: only the event of a success is detached.
DetachedIfCompleted(event) == event = "request.completed" /\ cancelled

\* The context of a terminal event is detached if it has ended by now.
Detached(event) == event \in Terminal /\ cancelled

\* observerEmitter.Emit.
Emit(event, then) ==
    /\ pc' = "emit"
    /\ emitting' = event
    /\ stripped' = Detached(event)
    /\ turn' = 1
    /\ resume' = then

------------------------------------------------------------------------------
\* Run and its handler.

RunStarts ==
    /\ pc = "start"
    /\ Emit("request.started", "handler")
    /\ UNCHANGED <<recovering, cancelled, outcome, log, panics>>

HandlerEmits(event) ==
    /\ pc = "handler"
    /\ Emit(event, "handler")
    /\ UNCHANGED <<recovering, cancelled, outcome, log, panics>>

\* A result that is not OK becomes an ExecutionError.
Judged(r, e) == IF e = "none" /\ r = "bad" THEN "execution" ELSE e

HandlerReturns(r, e) ==
    /\ pc = "handler"
    /\ result' = r
    /\ err' = Judged(r, e)
    /\ Emit(IF Judged(r, e) = "none" THEN "request.completed" ELSE "request.failed", "returned")
    /\ UNCHANGED <<recovering, cancelled, log, panics>>

\* Variant: a panic is recovered and not reported.
Unreported ==
    /\ pc' = "returned"
    /\ UNCHANGED emission

\* onPanic.
ReportPanic == Emit("request.failed", "returned")

\* recoverRun turns a panic into a TransportError.
Recover ==
    /\ recovering' = TRUE
    /\ err' = "panic"
    /\ ReportPanic

HandlerPanics ==
    /\ pc = "handler"
    /\ Recover
    /\ UNCHANGED <<cancelled, result, log, panics>>

ContextEnds ==
    /\ pc \notin {"returned", "panicked"}
    /\ ~cancelled
    /\ cancelled' = TRUE
    /\ UNCHANGED <<pc, emission, recovering, outcome, log, panics>>

------------------------------------------------------------------------------
\* MultiObserver.

\* What the observer is given: the event, and whether its context is live.
Given == [type |-> emitting, live |-> stripped \/ ~cancelled]

Delivered == log' = [log EXCEPT ![turn] = Append(@, Given)]

MoreToCall == turn < Observers

ObserverReturns ==
    /\ pc = "emit"
    /\ Delivered
    /\ \/ /\ MoreToCall
          /\ turn' = turn + 1
          /\ UNCHANGED <<pc, emitting, stripped, resume>>
       \/ /\ ~MoreToCall
          /\ pc' = resume
          /\ UNCHANGED emission
    /\ UNCHANGED <<recovering, cancelled, outcome, panics>>

\* The panic unwinds the handler too, if it is the handler that emits; a panic in
\* onPanic itself leaves Run.
ObserverPanics ==
    /\ pc = "emit"
    /\ panics < MaxPanics
    /\ panics' = panics + 1
    /\ Delivered
    /\ \/ /\ ~recovering
          /\ Recover
       \/ /\ recovering
          /\ pc' = "panicked"
          /\ UNCHANGED <<emission, recovering, err>>
    /\ UNCHANGED <<cancelled, result>>

Next ==
    \/ RunStarts \/ HandlerPanics
    \/ \E event \in Progress : HandlerEmits(event)
    \/ \E r \in {"none", "ok", "bad"}, e \in {"none"} \cup HandlerErrors : HandlerReturns(r, e)
    \/ ObserverReturns \/ ObserverPanics
    \/ ContextEnds

Spec == Init /\ [][Next]_clientVars

------------------------------------------------------------------------------
\* Properties.

\* How often an observer was given an event of these types.
Count(o, types) == Cardinality({i \in DOMAIN log[o] : log[o][i].type \in types})

Finals(o) == Count(o, Final)

\* The lifecycle of a call, as every observer hears it: it starts first, the latest
\* heard is how the call ended for its caller, even if this observer or another
\* panicked after the call was reported as completed, and it ends once if none did.
LifecycleIsComplete ==
    pc = "returned" => \A o \in All :
        /\ Last(log[o]).type = (IF err = "none" THEN "request.completed" ELSE "request.failed")
        /\ panics = 0 => Head(log[o]).type = "request.started" /\ Finals(o) = 1

\* Final events get through to observers that give up on an ended context: once
\* an observer was given an event whose context had ended, every terminal event
\* it is given later has a context that is live.
TerminalOutlivesContext ==
    \A o \in All : \A i, j \in DOMAIN log[o] :
        i < j /\ ~log[o][i].live /\ log[o][j].type \in Terminal => log[o][j].live
==============================================================================
