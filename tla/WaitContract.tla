---------------------------- MODULE WaitContract ----------------------------
(***************************************************************************)
(* What a Brine job promises to the callers of Wait, with no word on how   *)
(* the outcome is found: a job settles at most once; a call made after     *)
(* that is answered at once with the settled outcome; a call made before   *)
(* it is answered with the settled outcome, or with an interim one (a      *)
(* partial result, an ended context) that the job does not retain.         *)
(***************************************************************************)
CONSTANTS
    Waits,      \* calls of Wait
    Finals,     \* outcomes a job may settle on
    Interims,   \* outcomes it may give without settling
    NoOutcome   \* no outcome yet

VARIABLES
    settled,    \* the outcome the job retains, or NoOutcome
    phase,      \* "idle", "open" or "answered", for each call
    answer      \* what each call was answered

contractVars == <<settled, phase, answer>>

Init ==
    /\ settled = NoOutcome
    /\ phase = [w \in Waits |-> "idle"]
    /\ answer = [w \in Waits |-> NoOutcome]

Open(w) ==
    /\ phase[w] = "idle"
    /\ settled = NoOutcome
    /\ phase' = [phase EXCEPT ![w] = "open"]
    /\ UNCHANGED <<settled, answer>>

Answer(w, from) ==
    /\ phase[w] \in from
    /\ phase' = [phase EXCEPT ![w] = "answered"]
    /\ answer' = [answer EXCEPT ![w] = answer'[w]]

\* The call is answered with what the job has settled on.
Replay(w) ==
    /\ settled # NoOutcome
    /\ Answer(w, {"idle", "open"})
    /\ answer'[w] = settled
    /\ UNCHANGED settled

\* The call finds the final outcome: the job retains it.
Settle(w) ==
    /\ settled = NoOutcome
    /\ Answer(w, {"open"})
    /\ answer'[w] \in Finals
    /\ settled' = answer'[w]

\* The call gives up, or joined one that did.
GiveUp(w) ==
    /\ Answer(w, {"open"})
    /\ answer'[w] \in Interims
    /\ UNCHANGED settled

Next == \E w \in Waits : Open(w) \/ Replay(w) \/ Settle(w) \/ GiveUp(w)

Spec == Init /\ [][Next]_contractVars
==============================================================================
