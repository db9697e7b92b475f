---------------------------- MODULE EventStream ----------------------------
(***************************************************************************)
(* An event stream of the REST transport (eventStream in                   *)
(* transports/rest/events.go): a goroutine reads frames off the response   *)
(* body, keeps those the filter wants and hands them through a bounded     *)
(* channel to the single consumer that calls Recv.  Each call of Recv has  *)
(* a context of its own; Close may come at any time from another           *)
(* goroutine.                                                              *)
(*                                                                         *)
(* Operators introduced as variants are the bugs the mutants put in.       *)
(***************************************************************************)
EXTENDS Naturals, Sequences, SequencesExt

CONSTANTS
    MaxFrames,      \* bound: how many frames Salt sends
    BufferSize      \* eventStreamEventBufferSize

ASSUME StreamAssumption ==
    /\ MaxFrames \in Nat
    /\ BufferSize \in Nat \ {0}

VARIABLES
    wanted,     \* the frames that match the filter
    sent,       \* how many frames Salt has written
    link,       \* the response body: "open", "ended", "broken", "closed"
    scanned,    \* how many frames the reader has scanned
    reader,     \* the goroutine: "scan", "failed", "send", "stopping", "stopped"
    item,       \* what it is about to send
    events,     \* the channel s.events
    finished,   \* whether s.events is closed
    done,       \* whether s.done is closed
    closer,     \* Close: "out", "closing", "returned"
    recv,       \* Recv: "out" or "blocked"
    live,       \* whether the context of that call is live
    received,   \* history: what Recv has returned off the channel
    sawEnd      \* history: whether Recv found the channel closed

wire == <<wanted, sent>>
read == <<scanned, reader, item>>
chan == <<events, finished>>
close == <<done, closer>>
call == <<recv, live>>
seen == <<received, sawEnd>>
streamVars == <<wire, link, read, chan, close, call, seen>>

Frames    == 1 .. MaxFrames
Frame(n)  == <<"frame", n>>
EndOfFile == <<"io.EOF">>
Failure   == <<"TransportError">>
Nothing   == <<"nothing">>
Events    == {Frame(n) : n \in Frames}
Errors    == {EndOfFile, Failure}

StreamInit ==
    /\ wanted \in SUBSET Frames
    /\ sent = 0
    /\ link = "open"
    /\ scanned = 0
    /\ reader = "scan"
    /\ item = Nothing
    /\ events = << >>
    /\ finished = FALSE
    /\ done = FALSE
    /\ closer = "out"
    /\ recv = "out"
    /\ live = TRUE
    /\ received = << >>
    /\ sawEnd = FALSE

------------------------------------------------------------------------------
\* Salt and the network.

SaltSends ==
    /\ link = "open"
    /\ sent < MaxFrames
    /\ sent' = sent + 1
    /\ UNCHANGED <<wanted, link, read, chan, close, call, seen>>

\* Salt ends the response.
LinkEnds ==
    /\ link = "open"
    /\ link' = "ended"
    /\ UNCHANGED <<wire, read, chan, close, call, seen>>

\* The connection fails, a frame is too large for the scanner, or the context of
\* Subscribe ends; frames that were on their way may be lost.
LinkBreaks ==
    /\ link = "open"
    /\ link' = "broken"
    /\ UNCHANGED <<wire, read, chan, close, call, seen>>

------------------------------------------------------------------------------
\* read and send.

\* eventMatchesFilter.
Matches(n) == n \in wanted

\* nextFrame returns a frame; the bytes of a frame cut off by a clean end are one.
ScanFrame ==
    /\ reader = "scan"
    /\ scanned < sent
    /\ scanned' = scanned + 1
    /\ \/ Matches(scanned') /\ item' = Frame(scanned') /\ reader' = "send"
       \/ ~Matches(scanned') /\ UNCHANGED <<item, reader>>
    /\ UNCHANGED <<wire, link, chan, close, call, seen>>

\* nextFrame returns io.EOF; sendReadError sends it.
ScanEnds ==
    /\ reader = "scan"
    /\ link = "ended"
    /\ scanned = sent
    /\ item' = EndOfFile
    /\ reader' = "send"
    /\ UNCHANGED <<wire, link, scanned, chan, close, call, seen>>

\* nextFrame returns an error.
ScanFails ==
    /\ reader = "scan"
    /\ link \in {"broken", "closed"}
    /\ reader' = "failed"
    /\ UNCHANGED <<wire, link, scanned, item, chan, close, call, seen>>

\* Variant: the body is closed because the stream is, and that is an error too.
AlwaysReported == TRUE

\* sendReadError says nothing of an error that Close has caused.
Reported == ~done

CheckError ==
    /\ reader = "failed"
    /\ \/ Reported /\ item' = Failure /\ reader' = "send"
       \/ ~Reported /\ reader' = "stopping" /\ UNCHANGED item
    /\ UNCHANGED <<wire, link, scanned, chan, close, call, seen>>

AfterSend == IF item \in Events THEN "scan" ELSE "stopping"

Room == Len(events) < BufferSize

Send ==
    /\ reader = "send"
    /\ Room
    /\ events' = Append(events, item)
    /\ item' = Nothing
    /\ reader' = AfterSend
    /\ UNCHANGED <<wire, link, scanned, finished, close, call, seen>>

\* Variant: the send does not look at s.done.
NeverStopped == FALSE

Stopped == done

SendStops ==
    /\ reader = "send"
    /\ Stopped
    /\ item' = Nothing
    /\ reader' = "stopping"
    /\ UNCHANGED <<wire, link, scanned, chan, close, call, seen>>

\* Variant: the goroutine ends and leaves the channel open.
LeftOpen == FALSE

Closed == TRUE

ReaderStops ==
    /\ reader = "stopping"
    /\ reader' = "stopped"
    /\ finished' = Closed
    /\ UNCHANGED <<wire, link, scanned, item, events, close, call, seen>>

------------------------------------------------------------------------------
\* Close.

BeginClose ==
    /\ closer = "out"
    /\ done' = TRUE
    /\ closer' = "closing"
    /\ UNCHANGED <<wire, link, read, chan, call, seen>>

\* The request's context is cancelled and the body closed.
EndClose ==
    /\ closer = "closing"
    /\ closer' = "returned"
    /\ link' = IF link = "broken" THEN link ELSE "closed"
    /\ UNCHANGED <<wire, read, chan, done, call, seen>>

------------------------------------------------------------------------------
\* Recv.

BeginRecv ==
    /\ recv = "out"
    /\ recv' = "blocked"
    /\ live' = TRUE
    /\ UNCHANGED <<wire, link, read, chan, close, seen>>

CallEnds ==
    /\ recv = "blocked"
    /\ live
    /\ live' = FALSE
    /\ UNCHANGED <<wire, link, read, chan, close, recv, seen>>

\* Variant: Recv takes an event first and looks at its context then.
Swallowed == IF events = << >> THEN events ELSE Tail(events)

\* What a call that gives up leaves in the channel.
LeftBehind == events

RecvGivesUp ==
    /\ recv = "blocked"
    /\ ~live
    /\ events' = LeftBehind
    /\ recv' = "out"
    /\ UNCHANGED <<wire, link, read, finished, close, live, seen>>

RecvReturns ==
    /\ recv = "blocked"
    /\ events # << >>
    /\ received' = Append(received, Head(events))
    /\ events' = Tail(events)
    /\ recv' = "out"
    /\ UNCHANGED <<wire, link, read, finished, close, live, sawEnd>>

RecvEnds ==
    /\ recv = "blocked"
    /\ events = << >>
    /\ finished
    /\ sawEnd' = TRUE
    /\ recv' = "out"
    /\ UNCHANGED <<wire, link, read, chan, close, live, received>>

ReaderStep ==
    ScanFrame \/ ScanEnds \/ ScanFails \/ CheckError \/ Send \/ SendStops \/ ReaderStops

RecvStep == RecvGivesUp \/ RecvReturns \/ RecvEnds

StreamNext ==
    \/ SaltSends \/ LinkEnds \/ LinkBreaks
    \/ ReaderStep
    \/ BeginClose \/ EndClose
    \/ BeginRecv \/ CallEnds \/ RecvStep

StreamSpec == StreamInit /\ [][StreamNext]_streamVars

\* Goroutines run; Salt sends when it likes and the consumer calls when it likes.
FairStreamSpec ==
    /\ StreamSpec
    /\ WF_streamVars(ReaderStep) /\ WF_streamVars(EndClose) /\ WF_streamVars(RecvStep)

------------------------------------------------------------------------------
\* Properties.

\* What is on its way to the consumer, first received to last scanned.
Held == IF item = Nothing THEN << >> ELSE <<item>>
Flow == received \o events \o Held

\* The frames that are conveyed, and those the filter wants of the ones scanned.
Conveyed == {n \in Frames : \E i \in DOMAIN Flow : Flow[i] = Frame(n)}
Due      == {n \in wanted : n <= scanned}

InSaltsOrder ==
    \A i, j \in DOMAIN Flow : \A m, n \in Frames :
        i < j /\ Flow[i] = Frame(m) /\ Flow[j] = Frame(n) => m < n

\* While the stream is open the consumer gets every event the filter wants, in
\* Salt's order and once, however many of its calls give up in between: "Recv
\* respects per-call context cancellation without closing the underlying stream".
\* After Close it may miss the latest.
NothingLost ==
    /\ InSaltsOrder
    /\ ~done => Conveyed = Due
    /\ Conveyed \subseteq Due
    /\ \A n \in Conveyed, m \in Due : m < n => m \in Conveyed

\* How a stream ends is told apart: unless it was closed, the consumer has got the
\* error that broke it, or the error for a connection that ended, before it sees
\* io.EOF; and Close is not mistaken for a failure of the connection, by a Recv
\* that is blocked at that moment or by a later one.
EndIsTold ==
    /\ sawEnd /\ ~done =>
         received # << >> /\ Last(received) = (IF link = "broken" THEN Failure ELSE EndOfFile)
    /\ link # "broken" => \A i \in DOMAIN received : received[i] # Failure

\* The goroutine ends after Close, blocked on a full channel or on the body.
ReaderEnds ==
    done ~> reader = "stopped"

\* Close releases a Recv that is blocked in another goroutine.
CloseReleasesRecv ==
    done /\ recv = "blocked" ~> recv = "out"
==============================================================================
