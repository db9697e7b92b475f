-------------------------- MODULE AsyncObserverProofs --------------------------
(***************************************************************************)
(* Theorems about AsyncObserver, for any number of emitters, closers and   *)
(* events and any capacity of the queue.                                   *)
(***************************************************************************)
EXTENDS AsyncObserver, FiniteSetTheorems, SequenceTheorems, TLAPS

------------------------------------------------------------------------------
(***************************************************************************)
(* The inductive invariant: the types, where the goroutines are, and the   *)
(* accounts of the events.                                                 *)
(***************************************************************************)
\* The events that were handed over, one way or another.
HandedOver == {ev \in Events : ev[2] <= emitted[ev[1]]}

Working ==
    /\ \A e \in Emitters : emitting[e] = "past" => emitted[e] < MaxEvents
    /\ item # NoEvent <=> worker = "deliver"
    /\ \A c \in Closers : closing[c] = "returned" => worker = "exited"

\* An event in the queue, or delivered, was handed over, and so was one that was
\* ignored: the next event of its emitter is a later one.
Earlier ==
    /\ \A i \in DOMAIN Accepted : Accepted[i] \in HandedOver
    /\ ignored \subseteq HandedOver

Accounts ==
    /\ IsFiniteSet(HandedOver) /\ IsFiniteSet(ignored)
    /\ Cardinality(HandedOver) = Len(Accepted) + dropped + Cardinality(ignored)

Inv == TypeOK /\ Working /\ Earlier /\ InOrder /\ Accounts

LEMMA AcceptedType ==
    ASSUME TypeOK
    PROVE  /\ InFlight \in Seq(Events) /\ Accepted \in Seq(Events)
           /\ Len(Accepted) \in Nat /\ DOMAIN Accepted = 1 .. Len(Accepted)
<1>1. InFlight \in Seq(Events)
  BY DEF TypeOK, InFlight
<1>2. Accepted \in Seq(Events)
  BY <1>1, ConcatProperties DEF TypeOK, Accepted
<1>3. QED
  BY <1>1, <1>2, LenProperties

LEMMA InitInv == Init => Inv
<1> SUFFICES ASSUME Init PROVE Inv
  OBVIOUS
<1>1. TypeOK
  <2>1. << >> \in Seq(Events) /\ Len(<< >>) = 0
    BY EmptySeq
  <2>2. 0 \in 0 .. MaxEvents
    BY SizesAssumption
  <2>3. queue \in Seq(Events) /\ Len(queue) <= BufferSize /\ delivered \in Seq(Events)
    BY <2>1, SizesAssumption DEF Init
  <2>4. /\ emitting \in [Emitters -> {"out", "past"}] /\ emitted \in [Emitters -> 0 .. MaxEvents]
        /\ closing \in [Closers -> {"out", "waiting", "returned"}]
    BY <2>2 DEF Init
  <2>5. QED
    BY <2>3, <2>4 DEF Init, TypeOK
<1>2. Working
  <2>1. ASSUME NEW e \in Emitters PROVE emitting[e] # "past"
    BY DEF Init
  <2>2. QED
    BY <2>1 DEF Init, Working
<1>3. Accepted = << >>
  BY DEF Init, Accepted, InFlight
<1>4. HandedOver = {} /\ ignored = {}
  BY SizesAssumption DEF Init, HandedOver, Events
<1>5. Earlier /\ InOrder
  BY <1>3, <1>4 DEF Earlier, InOrder
<1>6. Accounts
  BY <1>3, <1>4, FS_EmptySet DEF Init, Accounts
<1>7. QED
  BY <1>1, <1>2, <1>5, <1>6 DEF Inv

------------------------------------------------------------------------------
\* The steps of OnEvent.

\* Handing an event over makes it the latest of its emitter's.
LEMMA HandOver ==
    ASSUME TypeOK, Earlier, Accounts, NEW e \in Emitters, emitted[e] < MaxEvents,
           emitted' = [emitted EXCEPT ![e] = @ + 1]
    PROVE  /\ Current(e) \in Events /\ Current(e) \notin HandedOver
           /\ Current(e) \notin ignored
           /\ HandedOver' = HandedOver \cup {Current(e)}
           /\ IsFiniteSet(HandedOver')
           /\ Cardinality(HandedOver') = Cardinality(HandedOver) + 1
           /\ Cardinality(HandedOver) \in Nat
           /\ emitted' \in [Emitters -> 0 .. MaxEvents]
<1>1. emitted \in [Emitters -> 0 .. MaxEvents] /\ emitted[e] \in 0 .. MaxEvents /\ MaxEvents \in Nat
  BY SizesAssumption DEF TypeOK
<1>2. emitted' \in [Emitters -> 0 .. MaxEvents] /\ emitted'[e] = emitted[e] + 1
      /\ \A f \in Emitters \ {e} : emitted'[f] = emitted[f]
  BY <1>1
<1>3. Current(e) \in Events /\ Current(e)[1] = e /\ Current(e)[2] = emitted[e] + 1
  BY <1>1 DEF Current, Events
<1>4. Current(e) \notin HandedOver
  BY <1>1, <1>3 DEF HandedOver
<1>5. ASSUME NEW ev \in Events
      PROVE  ev[2] <= emitted'[ev[1]] <=> ev[2] <= emitted[ev[1]] \/ ev = Current(e)
  <2>1. ev = <<ev[1], ev[2]>> /\ ev[1] \in Emitters /\ ev[2] \in 1 .. MaxEvents
    BY DEF Events
  <2>2. CASE ev[1] = e
    BY <1>1, <1>2, <2>1, <2>2 DEF Current
  <2>3. CASE ev[1] # e
    BY <1>2, <1>3, <2>1, <2>3
  <2>4. QED
    BY <2>2, <2>3
<1>6. HandedOver' = HandedOver \cup {Current(e)}
  BY <1>3, <1>5 DEF HandedOver
<1>7. QED
  BY <1>2, <1>3, <1>4, <1>6, FS_AddElement, FS_CardinalityType DEF Earlier, Accounts

LEMMA EnterOnEventInv ==
    ASSUME Inv, NEW e \in Emitters, EnterOnEvent(e)
    PROVE  Inv'
<1> USE DEF Inv, EnterOnEvent
<1>1. TypeOK' /\ Working'
  BY DEF TypeOK, Working
<1>2. Accepted' = Accepted /\ HandedOver' = HandedOver
  BY DEF Accepted, InFlight, HandedOver
<1>3. Earlier' /\ InOrder' /\ Accounts'
  BY <1>2 DEF Earlier, InOrder, Accounts
<1>4. QED
  BY <1>1, <1>3

LEMMA IgnoreEventInv ==
    ASSUME Inv, NEW e \in Emitters, IgnoreEvent(e)
    PROVE  Inv'
<1> USE DEF Inv
<1>1. /\ emitted[e] < MaxEvents /\ emitted' = [emitted EXCEPT ![e] = @ + 1]
      /\ emitting' = [emitting EXCEPT ![e] = "out"]
      /\ ignored' = ignored \cup {Current(e)}
      /\ UNCHANGED <<queue, closed, closing, worker, item, delivered, dropped>>
  BY DEF IgnoreEvent
<1>2. /\ Current(e) \in Events /\ Current(e) \notin ignored
      /\ HandedOver' = HandedOver \cup {Current(e)} /\ IsFiniteSet(HandedOver')
      /\ Cardinality(HandedOver') = Cardinality(HandedOver) + 1
      /\ emitted' \in [Emitters -> 0 .. MaxEvents]
  BY <1>1, HandOver
<1>3. Accepted' = Accepted
  BY <1>1 DEF Accepted, InFlight
<1>4. TypeOK' /\ Working'
  BY <1>1, <1>2 DEF TypeOK, Working
<1>5. Earlier' /\ InOrder'
  BY <1>1, <1>2, <1>3 DEF Earlier, InOrder
<1>6. Accounts'
  <2>1. IsFiniteSet(ignored') /\ Cardinality(ignored') = Cardinality(ignored) + 1
        /\ Cardinality(ignored) \in Nat
    BY <1>1, <1>2, FS_AddElement, FS_CardinalityType DEF Accounts
  <2>2. Len(Accepted) \in Nat /\ dropped \in Nat
    BY AcceptedType DEF TypeOK
  <2>3. QED
    BY <1>1, <1>2, <1>3, <2>1, <2>2 DEF Accounts
<1>7. QED
  BY <1>4, <1>5, <1>6

LEMMA DropEventInv ==
    ASSUME Inv, NEW e \in Emitters, DropEvent(e)
    PROVE  Inv'
<1> USE DEF Inv
<1>1. /\ emitted[e] < MaxEvents /\ emitted' = [emitted EXCEPT ![e] = @ + 1]
      /\ emitting' = [emitting EXCEPT ![e] = "out"]
      /\ dropped' = dropped + 1
      /\ UNCHANGED <<queue, closed, closing, worker, item, delivered, ignored>>
  BY DEF DropEvent, DropsCounted, Working
<1>2. /\ HandedOver' = HandedOver \cup {Current(e)} /\ IsFiniteSet(HandedOver')
      /\ Cardinality(HandedOver') = Cardinality(HandedOver) + 1
      /\ emitted' \in [Emitters -> 0 .. MaxEvents]
  BY <1>1, HandOver
<1>3. Accepted' = Accepted
  BY <1>1 DEF Accepted, InFlight
<1>4. TypeOK' /\ Working'
  BY <1>1, <1>2 DEF TypeOK, Working
<1>5. Earlier' /\ InOrder'
  BY <1>1, <1>2, <1>3 DEF Earlier, InOrder
<1>6. Accounts'
  <2>1. Len(Accepted) \in Nat /\ dropped \in Nat /\ Cardinality(ignored) \in Nat
    BY AcceptedType, FS_CardinalityType DEF TypeOK, Accounts
  <2>2. QED
    BY <1>1, <1>2, <1>3, <2>1 DEF Accounts
<1>7. QED
  BY <1>4, <1>5, <1>6

\* An event that is queued is the last of the accepted.
LEMMA QueuedIsLast ==
    ASSUME TypeOK, NEW event \in Events, queue' = Append(queue, event),
           UNCHANGED <<item, delivered>>
    PROVE  /\ queue' \in Seq(Events) /\ Len(queue') = Len(queue) + 1
           /\ Accepted' = Append(Accepted, event)
<1>1. queue \in Seq(Events) /\ delivered \o InFlight \in Seq(Events)
  BY AcceptedType, ConcatProperties DEF TypeOK
<1>2. queue' = queue \o <<event>> /\ <<event>> \in Seq(Events)
  BY <1>1, AppendIsConcat
<1>3. Accepted' = (delivered \o InFlight) \o (queue \o <<event>>)
  BY <1>2 DEF Accepted, InFlight
<1>4. Accepted' = Accepted \o <<event>>
  <2>1. ((delivered \o InFlight) \o queue) \o <<event>>
          = (delivered \o InFlight) \o (queue \o <<event>>)
    BY <1>1, <1>2, ConcatAssociative
  <2>2. QED
    BY <1>3, <2>1 DEF Accepted
<1>5. QED
  BY <1>1, <1>4, AcceptedType, AppendIsConcat, AppendProperties

LEMMA QueueEventInv ==
    ASSUME Inv, NEW e \in Emitters, QueueEvent(e)
    PROVE  Inv'
<1> USE DEF Inv
<1>1. /\ emitted[e] < MaxEvents /\ emitted' = [emitted EXCEPT ![e] = @ + 1]
      /\ emitting' = [emitting EXCEPT ![e] = "out"]
      /\ Len(queue) < BufferSize /\ queue' = Append(queue, Current(e))
      /\ UNCHANGED <<closed, closing, worker, item, delivered, dropped, ignored>>
  BY DEF QueueEvent, Queued, Room, Working
<1>2. /\ Current(e) \in Events /\ Current(e) \notin HandedOver
      /\ HandedOver' = HandedOver \cup {Current(e)} /\ IsFiniteSet(HandedOver')
      /\ Cardinality(HandedOver') = Cardinality(HandedOver) + 1
      /\ emitted' \in [Emitters -> 0 .. MaxEvents]
  BY <1>1, HandOver
<1>3. /\ queue' \in Seq(Events) /\ Len(queue') = Len(queue) + 1
      /\ Accepted' = Append(Accepted, Current(e))
  BY <1>1, <1>2, QueuedIsLast
<1> DEFINE n == Len(Accepted) + 1
<1>4. /\ Accepted \in Seq(Events) /\ Len(Accepted') = n /\ n \in Nat
      /\ Accepted'[n] = Current(e) /\ DOMAIN Accepted' = DOMAIN Accepted \cup {n}
      /\ \A i \in DOMAIN Accepted : Accepted'[i] = Accepted[i] /\ i \in Nat /\ i < n
      /\ Len(Accepted) \in Nat
  BY <1>2, <1>3, AcceptedType, AppendProperties
<1>5. TypeOK' /\ Working'
  <2>1. Len(queue') <= BufferSize
    BY <1>1, <1>3, SizesAssumption DEF TypeOK
  <2>2. QED
    BY <1>1, <1>2, <1>3, <2>1 DEF TypeOK, Working
<1> HIDE DEF n
<1>6. Earlier'
  BY <1>1, <1>2, <1>4 DEF Earlier
<1>7. InOrder'
  <2> SUFFICES ASSUME NEW i \in DOMAIN Accepted', NEW j \in DOMAIN Accepted',
                      i < j, Accepted'[i][1] = Accepted'[j][1]
               PROVE  Accepted'[i][2] < Accepted'[j][2]
    BY DEF InOrder
  <2>1. i \in DOMAIN Accepted
    BY <1>4
  <2>2. CASE j \in DOMAIN Accepted
    BY <1>4, <2>1, <2>2 DEF InOrder
  <2>3. CASE j = n
    <3>1. Accepted[i] \in HandedOver /\ Accepted[i][1] = e
      BY <1>4, <2>1, <2>3 DEF Earlier, Current
    <3>2. Accepted[i][2] <= emitted[e] /\ Accepted[i][2] \in Nat
      BY <3>1, SizesAssumption DEF HandedOver, Events
    <3>3. Accepted'[j][2] = emitted[e] + 1 /\ emitted[e] \in Nat
      BY <1>4, <2>3 DEF Current, TypeOK
    <3>4. QED
      BY <1>4, <2>1, <3>2, <3>3
  <2>4. QED
    BY <1>4, <2>2, <2>3
<1>8. Accounts'
  <2>1. dropped \in Nat /\ Cardinality(ignored) \in Nat
    BY FS_CardinalityType DEF TypeOK, Accounts
  <2>2. Len(Accepted') = Len(Accepted) + 1 /\ Len(Accepted) \in Nat
    BY <1>4 DEF n
  <2>3. QED
    BY <1>1, <1>2, <2>1, <2>2 DEF Accounts
<1>9. QED
  BY <1>5, <1>6, <1>7, <1>8

------------------------------------------------------------------------------
\* The steps of run and of Close.

LEMMA SameAccounts ==
    ASSUME Inv, Accepted' = Accepted, UNCHANGED <<emitted, dropped, ignored>>
    PROVE  Earlier' /\ InOrder' /\ Accounts'
<1>1. HandedOver' = HandedOver
  BY DEF HandedOver
<1>2. QED
  BY <1>1 DEF Inv, Earlier, InOrder, Accounts

LEMMA TakeEventInv ==
    ASSUME Inv, TakeEvent
    PROVE  Inv'
<1> USE DEF Inv
<1>1. /\ worker = "select" /\ worker' = "deliver" /\ queue # << >>
      /\ item' = Head(queue) /\ queue' = Tail(queue)
      /\ UNCHANGED <<emitting, emitted, closed, closing, delivered, dropped, ignored>>
  BY DEF TakeEvent
<1>2. item = NoEvent /\ queue \in Seq(Events) /\ delivered \in Seq(Events)
  BY <1>1 DEF Working, TypeOK
<1>3. /\ Head(queue) \in Events /\ Tail(queue) \in Seq(Events) /\ Len(Tail(queue)) = Len(queue) - 1
      /\ queue = <<Head(queue)>> \o Tail(queue)
  <2>1. Head(queue) \in Events /\ Tail(queue) \in Seq(Events) /\ Len(Tail(queue)) = Len(queue) - 1
    BY <1>1, <1>2, HeadTailProperties
  <2>2. queue = <<Head(queue)>> \o Tail(queue)
    BY <1>1, <1>2
  <2>3. QED
    BY <2>1, <2>2
<1>4. Head(queue) # NoEvent
  BY <1>3 DEF Events, NoEvent
<1>5. Accepted' = Accepted
  <2>1. Accepted' = (delivered \o <<Head(queue)>>) \o Tail(queue)
    BY <1>1, <1>4 DEF Accepted, InFlight
  <2>2. Accepted = delivered \o queue
    BY <1>2, ConcatEmptySeq DEF Accepted, InFlight
  <2>3. <<Head(queue)>> \in Seq(Events)
    BY <1>3
  <2>4. (delivered \o <<Head(queue)>>) \o Tail(queue) = delivered \o (<<Head(queue)>> \o Tail(queue))
    BY <1>2, <1>3, <2>3, ConcatAssociative
  <2>5. QED
    BY <1>3, <2>1, <2>2, <2>4
<1>6. TypeOK'
  <2>1. Len(queue') <= BufferSize
    BY <1>1, <1>2, <1>3, LenProperties, SizesAssumption DEF TypeOK
  <2>2. QED
    BY <1>1, <1>3, <2>1 DEF TypeOK
<1>7. Working'
  BY <1>1, <1>4 DEF Working, TypeOK
<1>8. QED
  BY <1>1, <1>5, <1>6, <1>7, SameAccounts

LEMMA DeliverInv ==
    ASSUME Inv, Deliver
    PROVE  Inv'
<1> USE DEF Inv
<1>1. /\ worker = "deliver" /\ worker' = "select"
      /\ delivered' = Append(delivered, item) /\ item' = NoEvent
      /\ UNCHANGED <<emitting, emitted, queue, closed, closing, dropped, ignored>>
  BY DEF Deliver
<1>2. /\ item \in Events /\ item # NoEvent
      /\ queue \in Seq(Events) /\ delivered \in Seq(Events)
  BY <1>1 DEF Working, TypeOK
<1>3. delivered' = delivered \o <<item>> /\ delivered' \in Seq(Events)
  BY <1>1, <1>2, AppendIsConcat, AppendProperties
<1>4. Accepted' = Accepted
  <2>1. Accepted' = ((delivered \o <<item>>) \o << >>) \o queue
    BY <1>1, <1>3 DEF Accepted, InFlight
  <2>2. (delivered \o <<item>>) \o << >> = delivered \o <<item>>
    BY <1>3, ConcatEmptySeq
  <2>3. Accepted = (delivered \o <<item>>) \o queue
    BY <1>2 DEF Accepted, InFlight
  <2>4. QED
    BY <2>1, <2>2, <2>3
<1>5. TypeOK' /\ Working'
  BY <1>1, <1>3 DEF TypeOK, Working
<1>6. QED
  BY <1>1, <1>4, <1>5, SameAccounts

LEMMA StopInv ==
    ASSUME Inv, WorkerExits \/ \E c \in Closers : BeginClose(c) \/ EndClose(c)
    PROVE  Inv'
<1> USE DEF Inv
<1>1. UNCHANGED <<emitting, emitted, queue, item, delivered, dropped, ignored>>
  BY DEF WorkerExits, BeginClose, EndClose
<1>2. TypeOK' /\ Working'
  <2>1. CASE WorkerExits
    BY <2>1 DEF WorkerExits, Exited, TypeOK, Working
  <2>2. ASSUME NEW c \in Closers, BeginClose(c) PROVE TypeOK' /\ Working'
    BY <2>2 DEF BeginClose, TypeOK, Working
  <2>3. ASSUME NEW c \in Closers, EndClose(c) PROVE TypeOK' /\ Working'
    BY <2>3 DEF EndClose, Stopped, TypeOK, Working
  <2>4. QED
    BY <2>1, <2>2, <2>3
<1>3. Accepted' = Accepted
  BY <1>1 DEF Accepted, InFlight
<1>4. QED
  BY <1>1, <1>2, <1>3, SameAccounts

LEMMA StepInv ==
    ASSUME Inv, [Next]_vars
    PROVE  Inv'
<1>1. CASE UNCHANGED vars
  <2>1. TypeOK' /\ Working'
    BY <1>1 DEF vars, Inv, TypeOK, Working
  <2>2. Accepted' = Accepted /\ UNCHANGED <<emitted, dropped, ignored>>
    BY <1>1 DEF vars, Accepted, InFlight
  <2>3. QED
    BY <2>1, <2>2, SameAccounts DEF Inv
<1>2. QED
  BY <1>1, EnterOnEventInv, IgnoreEventInv, QueueEventInv, DropEventInv, TakeEventInv, DeliverInv,
     StopInv DEF Next

LEMMA InvHolds == Spec => []Inv
  BY InitInv, StepInv, PTL DEF Spec

------------------------------------------------------------------------------
\* The queue keeps to its capacity, and the count of lost events is a number.
THEOREM Types == Spec => []TypeOK
<1>1. Inv => TypeOK
  BY DEF Inv
<1>2. QED
  BY InvHolds, <1>1, PTL

\* Every event is accounted for, and those that get through are in the order in
\* which their goroutine emitted them (OnEvent, run and Dropped).
THEOREM NoLossUncounted == Spec => []LossesAreCounted
<1>1. Inv => LossesAreCounted
  BY DEF Inv, LossesAreCounted, Accounts, HandedOver
<1>2. QED
  BY InvHolds, <1>1, PTL

\* A Close that has returned waited for the goroutine (o.wg), which is the only one
\* to call the wrapped observer, so that it is not called again.
THEOREM NoCallAfterClose == Spec => SilentAfterClose
<1>1. Inv /\ [Next]_vars =>
        [(\E c \in Closers : closing[c] = "returned")
            => delivered' = delivered /\ worker' # "deliver"]_vars
  <2> SUFFICES ASSUME Inv, Next, NEW c \in Closers, closing[c] = "returned"
               PROVE  delivered' = delivered /\ worker' # "deliver"
    OBVIOUS
  <2>1. worker = "exited"
    BY DEF Inv, Working
  <2>2. ~TakeEvent /\ ~Deliver
    BY <2>1 DEF TakeEvent, Deliver
  <2>3. QED
    BY <2>1, <2>2 DEF Next, EnterOnEvent, IgnoreEvent, QueueEvent, DropEvent, WorkerExits, Exited,
                      BeginClose, EndClose
<1>2. QED
  BY InvHolds, <1>1, PTL DEF Spec, SilentAfterClose
==============================================================================
