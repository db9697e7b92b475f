----------------------------- MODULE Accumulator -----------------------------
(***************************************************************************)
(* transportkit.Accumulator: the per-wait hydration of a brine.Result from *)
(* minion returns that arrive by job lookup, by the event stream, or by    *)
(* bridge frames.  The accumulator is a record; each method is an operator *)
(* giving the record after the call, and a second operator giving the      *)
(* progress events the call emits.  Raw payload bytes are left out.        *)
(* Operators introduced as variants are the bugs the mutants put in.       *)
(***************************************************************************)
EXTENDS Naturals, Sequences, FiniteSets

CONSTANTS
    Minions,    \* minion IDs
    Jids,       \* job IDs that can appear in a frame
    NoJid       \* the empty job ID

ASSUME NoJidAssumption == NoJid \notin Jids

JidOrNone == Jids \cup {NoJid}

(***************************************************************************)
(* A normalized return keeps the job ID it was stamped with and whether    *)
(* Failure/RetCode classify it as a failure.  A minion without an entry in *)
(* the byMinion map is mapped to NoReturn.                                 *)
(***************************************************************************)
Value    == {"ok", "fail"}
Return   == [jid : JidOrNone, value : Value]
NoReturn == [jid |-> NoJid, value |-> "none"]
Entry    == Return \cup {NoReturn}

AccType == [jid           : JidOrNone,
            jids          : SUBSET Jids,
            expectedKnown : BOOLEAN,
            expected      : SUBSET Minions,
            byMinion      : [Minions -> Entry],
            emitted       : SUBSET Minions]

ResultType == [jid      : JidOrNone,
               expected : SUBSET Minions,
               byMinion : [Minions -> Entry],
               missing  : SUBSET Minions,
               failure  : BOOLEAN]

Returned(r) == {m \in Minions : r.byMinion[m] # NoReturn}

NewAccumulator ==
    [jid |-> NoJid, jids |-> {}, expectedKnown |-> FALSE, expected |-> {},
     byMinion |-> [m \in Minions |-> NoReturn], emitted |-> {}]

------------------------------------------------------------------------------

SetJID(acc, jid) ==
    IF jid = NoJid THEN acc
    ELSE [acc EXCEPT !.jid = jid, !.jids = @ \cup {jid}]

ExpectedEvent(acc) == [type |-> "expected_minions", jid |-> acc.jid, minions |-> acc.expected]
ReturnedEvent(m, ret) == [type |-> "minion_returned", jid |-> ret.jid, minions |-> {m}]

SetExpected(acc, jid, minions) ==
    [SetJID(acc, jid) EXCEPT !.expectedKnown = TRUE, !.expected = minions]

\* SetExpected announces the set only when it, or the job ID, is news.
SetExpectedEvents(acc, jid, minions) ==
    IF \/ ~acc.expectedKnown
       \/ acc.expected # minions
       \/ jid # NoJid /\ acc.jid # jid
    THEN << ExpectedEvent(SetExpected(acc, jid, minions)) >>
    ELSE << >>

\* The return as AddMinion stores it: stamped with the accumulator's job ID
\* when the frame carried none.
Stamped(acc, ret) == IF ret.jid = NoJid THEN [ret EXCEPT !.jid = acc.jid] ELSE ret

\* The job ID after AddMinion: the first one a return carries is adopted.
Adopted(acc, ret) == IF acc.jid = NoJid THEN ret.jid ELSE acc.jid

AddMinion(acc, m, ret) ==
    LET stored == Stamped(acc, ret) IN
    [acc EXCEPT !.jid      = Adopted(acc, stored),
                !.jids     = @ \cup ({stored.jid} \ {NoJid}),
                !.byMinion = [@ EXCEPT ![m] = stored],
                !.emitted  = @ \cup {m}]

AddMinionEvents(acc, m, ret) ==
    LET after == AddMinion(acc, m, ret) IN
    (IF acc.expectedKnown /\ acc.jid = NoJid /\ after.jid # NoJid
     THEN << ExpectedEvent(after) >> ELSE << >>)
    \o
    (IF m \in acc.emitted THEN << >>
     ELSE << ReturnedEvent(m, Stamped(acc, ret)) >>)

\* Variant: the first return stored for a minion stays.
FirstKept(stored, incoming) == IF stored # NoReturn THEN stored ELSE incoming

\* A return replaces the one stored for its minion.
Latest(stored, incoming) == IF incoming # NoReturn THEN incoming ELSE stored

(***************************************************************************)
(* MergeResult, for a lookup result: it names its job, and its returns are *)
(* already stamped (applyJobExpected), so the loop over AddMinion has this *)
(* closed form.                                                            *)
(***************************************************************************)
MergeResult(acc, result) ==
    LET named == SetJID(acc, result.jid)
        known == IF result.expected = {} THEN named
                 ELSE SetExpected(named, result.jid, result.expected)
        rets  == Returned(result)
    IN  [known EXCEPT
            !.byMinion = [m \in Minions |-> Latest(known.byMinion[m], result.byMinion[m])],
            !.jids     = @ \cup {result.byMinion[m].jid : m \in rets},
            !.emitted  = @ \cup rets]

Complete(acc) == acc.expectedKnown /\ acc.expected \subseteq Returned(acc)

\* Variant: computed before the returns are.
AllExpected(acc) == acc.expected

Missing(acc) == IF acc.expectedKnown THEN acc.expected \ Returned(acc) ELSE {}

ResultJID(acc) ==
    IF acc.jid # NoJid THEN acc.jid
    ELSE IF Cardinality(acc.jids) = 1 THEN CHOOSE j \in acc.jids : TRUE
    ELSE NoJid

Result(acc) ==
    LET jid == ResultJID(acc) IN
    [jid      |-> jid,
     expected |-> IF acc.expectedKnown THEN acc.expected ELSE Returned(acc),
     byMinion |-> [m \in Minions |->
        IF m \in Returned(acc) /\ acc.byMinion[m].jid = NoJid
        THEN [acc.byMinion[m] EXCEPT !.jid = jid]
        ELSE acc.byMinion[m]],
     missing  |-> Missing(acc),
     failure  |-> FALSE]

\* brine.Result.OK for a local result.
OK(result) ==
    /\ ~result.failure
    /\ \A m \in Returned(result) : result.byMinion[m].value = "ok"
    /\ result.missing = {}
==============================================================================
