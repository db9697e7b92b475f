---------------------------- MODULE AsyncObserver ----------------------------
(***************************************************************************)
(* AsyncObserver (events.go): goroutines that execute requests hand their  *)
(* events to a bounded queue and one background goroutine delivers them to *)
(* the wrapped observer.  A full queue drops the newest event; Close stops *)
(* the goroutine and waits for it.                                         *)
(*                                                                         *)
(* Operators introduced as variants are the bugs the mutants put in.       *)
(***************************************************************************)
EXTENDS Naturals, Sequences, FiniteSets

CONSTANTS
    Emitters,       \* goroutines that call OnEvent
    Closers,        \* goroutines that call Close
    MaxEvents,      \* bound: how many events each emitter emits
    BufferSize      \* the capacity of the queue

ASSUME SizesAssumption ==
    /\ MaxEvents \in Nat
    /\ BufferSize \in Nat \ {0}     \* NewAsyncObserver raises it to 1

VARIABLES
    emitting,   \* where each emitter is in OnEvent: "out", or "past" its first select
    emitted,    \* how many events each emitter has handed over, one way or another
    queue,      \* o.queue
    closed,     \* whether o.done is closed
    closing,    \* where each closer is: "out", "waiting" on o.wg, "returned"
    worker,     \* o.run: "select", "deliver" or "exited"
    item,       \* the event being delivered, or NoEvent
    delivered,  \* the events the wrapped observer has received, in order
    dropped,    \* o.dropped
    ignored     \* history: events given to OnEvent after Close closed o.done

vars == <<emitting, emitted, queue, closed, closing, worker, item, delivered, dropped, ignored>>

Events  == Emitters \X (1 .. MaxEvents)
NoEvent == << >>

\* The event an emitter is about to hand over.
Current(e) == <<e, emitted[e] + 1>>

Init ==
    /\ emitting = [e \in Emitters |-> "out"]
    /\ emitted = [e \in Emitters |-> 0]
    /\ queue = << >>
    /\ closed = FALSE
    /\ closing = [c \in Closers |-> "out"]
    /\ worker = "select"
    /\ item = NoEvent
    /\ delivered = << >>
    /\ dropped = 0
    /\ ignored = {}

------------------------------------------------------------------------------
\* OnEvent.

\* One of its selects finds o.done closed.
IgnoreEvent(e) ==
    /\ emitted[e] < MaxEvents
    /\ closed
    /\ ignored' = ignored \cup {Current(e)}
    /\ emitted' = [emitted EXCEPT ![e] = @ + 1]
    /\ emitting' = [emitting EXCEPT ![e] = "out"]
    /\ UNCHANGED <<queue, closed, closing, worker, item, delivered, dropped>>

\* The first select does not.
EnterOnEvent(e) ==
    /\ emitting[e] = "out"
    /\ emitted[e] < MaxEvents
    /\ ~closed
    /\ emitting' = [emitting EXCEPT ![e] = "past"]
    /\ UNCHANGED <<emitted, queue, closed, closing, worker, item, delivered, dropped, ignored>>

\* A send on the buffered channel.
Queued(event) == Append(queue, event)

Room == Len(queue) < BufferSize

\* The second select sends, o.done closed or not.
QueueEvent(e) ==
    /\ emitting[e] = "past"
    /\ Room
    /\ queue' = Queued(Current(e))
    /\ emitted' = [emitted EXCEPT ![e] = @ + 1]
    /\ emitting' = [emitting EXCEPT ![e] = "out"]
    /\ UNCHANGED <<closed, closing, worker, item, delivered, dropped, ignored>>

\* Variant: an event that does not fit is not counted.
Uncounted == dropped

DropsCounted == dropped + 1

\* Variant: a select without default.
NeverDefault == FALSE

\* The default case of the second select: neither can proceed.
Default == ~Room /\ ~closed

DropEvent(e) ==
    /\ emitting[e] = "past"
    /\ Default
    /\ dropped' = DropsCounted
    /\ emitted' = [emitted EXCEPT ![e] = @ + 1]
    /\ emitting' = [emitting EXCEPT ![e] = "out"]
    /\ UNCHANGED <<queue, closed, closing, worker, item, delivered, ignored>>

------------------------------------------------------------------------------
\* run.

TakeEvent ==
    /\ worker = "select"
    /\ queue # << >>
    /\ item' = Head(queue)
    /\ queue' = Tail(queue)
    /\ worker' = "deliver"
    /\ UNCHANGED <<emitting, emitted, closed, closing, delivered, dropped, ignored>>

\* The wrapped observer's OnEvent returns.
Deliver ==
    /\ worker = "deliver"
    /\ delivered' = Append(delivered, item)
    /\ item' = NoEvent
    /\ worker' = "select"
    /\ UNCHANGED <<emitting, emitted, queue, closed, closing, dropped, ignored>>

\* Variant: the goroutine counts itself down on no path.
Leaked == "select"

\* The goroutine returns, through wg.Done.
Exited == "exited"

WorkerExits ==
    /\ worker = "select"
    /\ closed
    /\ worker' = Exited
    /\ UNCHANGED <<emitting, emitted, queue, closed, closing, item, delivered, dropped, ignored>>

------------------------------------------------------------------------------
\* Close.

BeginClose(c) ==
    /\ closing[c] = "out"
    /\ closed' = TRUE
    /\ closing' = [closing EXCEPT ![c] = "waiting"]
    /\ UNCHANGED <<emitting, emitted, queue, worker, item, delivered, dropped, ignored>>

\* Variant: Close does not wait.
AlwaysStopped == closed

\* o.wg.Wait returns.
Stopped == worker = "exited"

EndClose(c) ==
    /\ closing[c] = "waiting"
    /\ Stopped
    /\ closing' = [closing EXCEPT ![c] = "returned"]
    /\ UNCHANGED <<emitting, emitted, queue, closed, worker, item, delivered, dropped, ignored>>

Next ==
    \/ \E e \in Emitters :
        EnterOnEvent(e) \/ IgnoreEvent(e) \/ QueueEvent(e) \/ DropEvent(e)
    \/ TakeEvent \/ Deliver \/ WorkerExits
    \/ \E c \in Closers : BeginClose(c) \/ EndClose(c)

Spec == Init /\ [][Next]_vars

\* The rest of an OnEvent that is past its first select.
RestOfOnEvent(e) ==
    emitting[e] = "past" /\ (IgnoreEvent(e) \/ QueueEvent(e) \/ DropEvent(e))

\* Goroutines run.  A select with two ready cases picks one at random, so one
\* that finds o.done ready again and again takes it in the end.  The wrapped
\* observer need not return.
FairSpec ==
    /\ Spec
    /\ WF_vars(TakeEvent)
    /\ SF_vars(WorkerExits)
    /\ \A e \in Emitters : WF_vars(RestOfOnEvent(e))
    /\ \A c \in Closers : WF_vars(EndClose(c))

------------------------------------------------------------------------------
\* Properties.

\* Every variable keeps to its values, and the queue to its capacity.
TypeOK ==
    /\ emitting \in [Emitters -> {"out", "past"}]
    /\ emitted \in [Emitters -> 0 .. MaxEvents]
    /\ queue \in Seq(Events) /\ Len(queue) <= BufferSize
    /\ closed \in BOOLEAN
    /\ closing \in [Closers -> {"out", "waiting", "returned"}]
    /\ worker \in {"select", "deliver", "exited"}
    /\ item \in Events \cup {NoEvent}
    /\ delivered \in Seq(Events)
    /\ dropped \in Nat
    /\ ignored \in SUBSET Events

\* The events on their way through the observer, first delivered to last queued.
InFlight == IF item = NoEvent THEN << >> ELSE <<item>>
Accepted == delivered \o InFlight \o queue

\* The wrapped observer sees the events of one goroutine in the order they were
\* emitted, and none twice, whatever was dropped in between.
InOrder ==
    \A i, j \in DOMAIN Accepted :
        i < j /\ Accepted[i][1] = Accepted[j][1] => Accepted[i][2] < Accepted[j][2]

\* Every event is accounted for: in order, and Dropped reports every one that got
\* lost while the observer was open.  An event whose OnEvent returned was
\* delivered, waits, was counted as dropped, or came after Close.
LossesAreCounted ==
    /\ InOrder
    /\ Cardinality({ev \in Events : ev[2] <= emitted[ev[1]]})
         = Len(Accepted) + dropped + Cardinality(ignored)

\* After a Close has returned the wrapped observer is not called again, so it can
\* be torn down.
SilentAfterClose ==
    [][(\E c \in Closers : closing[c] = "returned")
         => delivered' = delivered /\ worker' # "deliver"]_vars

\* OnEvent never blocks the request that emits, not even when the wrapped
\* observer hangs.
OnEventReturns ==
    \A e \in Emitters : emitting[e] = "past" ~> emitting[e] = "out"

\* Close returns, however many events are queued or still arriving, if the
\* wrapped observer returns.
CloseReturns ==
    WF_vars(Deliver) =>
        \A c \in Closers : closing[c] = "waiting" ~> closing[c] = "returned"
==============================================================================
