------------------------------ MODULE InfoProbe ------------------------------
(***************************************************************************)
(* Transport.Info of the REST transport (rest.go) and of the Python        *)
(* transport (python.go): concurrent callers, the version probe and the    *)
(* cache of the first version found.  REST callers share a probe, three    *)
(* attempts against Salt, through a singleflight group; a Python caller    *)
(* starts a helper process of its own.  Of a probe's outcome the model     *)
(* keeps whether a version was found.                                      *)
(*                                                                         *)
(* Operators introduced as variants are the bugs the mutants put in.       *)
(***************************************************************************)
EXTENDS Naturals, FiniteSets, Sequences, SequencesExt

CONSTANTS
    Transports,     \* among "rest" and "python"
    Callers,        \* goroutines, each calling Info again and again
    NoCaller,
    MaxCalls        \* bound: how often each of them calls

ASSUME CallersAssumption ==
    /\ Transports \subseteq {"rest", "python"}
    /\ NoCaller \notin Callers
    /\ MaxCalls \in Nat

VARIABLES
    transport,  \* the transport that is asked
    at,         \* where each caller is
    calls,      \* how often it has called
    follows,    \* the caller whose probe it waits for
    infoGroup,  \* the caller that leads the probe in the group
    cached,     \* whether cachedInfo is stored
    found,      \* whether what a caller found, or was handed, has a version
    late,       \* history: whether a version was cached when its call last looked
    answers,    \* history: whether each caller's latest answer had a version
    probes,     \* history: how many probes were made
    failed      \* history: how many of them found nothing

infoVars ==
    <<transport, at, calls, follows, infoGroup, cached, found, late, answers, probes, failed>>

Leading == {"recheck", "probe", "store", "done"}

InfoInit ==
    /\ transport \in Transports
    /\ at = [c \in Callers |-> "out"]
    /\ calls = [c \in Callers |-> 0]
    /\ follows = [c \in Callers |-> NoCaller]
    /\ infoGroup = NoCaller
    /\ cached = FALSE
    /\ found = [c \in Callers |-> FALSE]
    /\ late = [c \in Callers |-> FALSE]
    /\ answers = [c \in Callers |-> FALSE]
    /\ probes = 0
    /\ failed = 0

MoveTo(c, to) == at' = [at EXCEPT ![c] = to]

\* The call begins to look for a version, or asks the group for one.
Looks(c) == late' = [late EXCEPT ![c] = cached]

\* Info returns to c, with a version or without.
Answer(c, version) ==
    /\ MoveTo(c, "out")
    /\ answers' = [answers EXCEPT ![c] = version]

------------------------------------------------------------------------------
Call(c) ==
    /\ at[c] = "out"
    /\ calls[c] < MaxCalls
    /\ calls' = [calls EXCEPT ![c] = @ + 1]
    /\ Looks(c)
    /\ MoveTo(c, "load")
    /\ UNCHANGED <<transport, follows, infoGroup, cached, found, answers, probes, failed>>

LoadHits(c) ==
    /\ at[c] = "load"
    /\ cached
    /\ Answer(c, TRUE)
    /\ UNCHANGED <<transport, calls, follows, infoGroup, cached, found, late, probes, failed>>

LoadMisses(c) ==
    /\ at[c] = "load"
    /\ ~cached
    /\ MoveTo(c, "miss")
    /\ UNCHANGED <<transport, calls, follows, infoGroup, cached, found, late, answers, probes, failed>>

\* Variant: every caller that misses makes a probe of its own.
Never == FALSE

UnderWay == infoGroup # NoCaller

Coalesces == transport = "rest"

\* infoGroup.Do: wait for the probe under way, or lead one.
Follow(c) ==
    /\ at[c] = "miss" /\ Coalesces
    /\ UnderWay
    /\ follows' = [follows EXCEPT ![c] = infoGroup]
    /\ Looks(c)
    /\ MoveTo(c, "wait")
    /\ UNCHANGED <<transport, calls, infoGroup, cached, found, answers, probes, failed>>

Lead(c) ==
    /\ at[c] = "miss" /\ Coalesces
    /\ ~UnderWay
    /\ infoGroup' = c
    /\ Looks(c)
    /\ MoveTo(c, "recheck")
    /\ UNCHANGED <<transport, calls, follows, cached, found, answers, probes, failed>>

\* The Python transport: whoever misses probes.
ProbeAlone(c) ==
    /\ at[c] = "miss" /\ ~Coalesces
    /\ probes' = probes + 1
    /\ MoveTo(c, "probe")
    /\ UNCHANGED <<transport, calls, follows, infoGroup, cached, found, late, answers, failed>>

\* Variant: the leader does not look at the cache again.
NeverByNow == FALSE

CachedByNow == cached

LookAgain(c) ==
    /\ at[c] = "recheck"
    /\ \/ /\ CachedByNow
          /\ found' = [found EXCEPT ![c] = TRUE]
          /\ MoveTo(c, "done")
          /\ UNCHANGED probes
       \/ /\ ~CachedByNow
          /\ probes' = probes + 1
          /\ MoveTo(c, "probe")
          /\ UNCHANGED found
    /\ UNCHANGED <<transport, calls, follows, infoGroup, cached, late, answers, failed>>

\* The REST probe asks the welcome page and two runners in turn until one tells;
\* each may not know, refuse or be out of reach, or ten seconds may have passed or
\* the context of the call that probes may have ended.
Attempts == {"welcome", "manage.versions", "test.get_opts"}
RestVersions == {\E a \in Attempts : tells[a] : tells \in [Attempts -> BOOLEAN]}

\* The lines the helper may write: run_info writes one scalar frame, main an error
\* frame; a helper that fails writes anything.
InfoLines == {"version", "blank", "error", "garbage"}

\* saltVersionFromInfo: the fields of a frame outlive the frame, so the scalar that
\* counts is the last one; any line that is an error or no frame spoils the rest.
SaltVersionFromInfo(lines) ==
    LET scalars == SelectSeq(lines, LAMBDA line : line \in {"version", "blank"}) IN
    /\ Range(lines) \cap {"error", "garbage"} = {}
    /\ scalars # << >> /\ Last(scalars) = "version"

\* A helper that exits with an error, or is killed, tells nothing.
HelperVersions == {FALSE} \cup {SaltVersionFromInfo(lines) : lines \in SeqOf(InfoLines, 2)}

\* detectSaltVersion.
ProbeReturns(c) ==
    /\ at[c] = "probe"
    /\ \E version \in (IF Coalesces THEN RestVersions ELSE HelperVersions) :
        /\ found' = [found EXCEPT ![c] = version]
        /\ failed' = IF version THEN failed ELSE failed + 1
    /\ MoveTo(c, "store")
    /\ UNCHANGED <<transport, calls, follows, infoGroup, cached, late, answers, probes>>

\* Only a version is stored.
Stored(c) == cached \/ found[c]

Store(c) ==
    /\ at[c] = "store"
    /\ cached' = Stored(c)
    /\ MoveTo(c, IF Coalesces THEN "done" ELSE "told")
    /\ UNCHANGED <<transport, calls, follows, infoGroup, found, late, answers, probes, failed>>

\* The probe is over: its key leaves the group, and the leader and those that waited
\* hold what it found.
LeaveGroup(c) ==
    /\ at[c] = "done"
    /\ infoGroup' = NoCaller
    /\ LET told == {c} \cup {f \in Callers : at[f] = "wait" /\ follows[f] = c} IN
        /\ at' = [f \in Callers |-> IF f \in told THEN "told" ELSE at[f]]
        /\ found' = [f \in Callers |-> IF f \in told THEN found[c] ELSE found[f]]
        /\ follows' = [f \in Callers |-> IF f \in told THEN NoCaller ELSE follows[f]]
    /\ UNCHANGED <<transport, calls, cached, late, answers, probes, failed>>

\* Each of them returns in its own time, and looks at nothing else before.
Return(c) ==
    /\ at[c] = "told"
    /\ Answer(c, found[c])
    /\ UNCHANGED <<transport, calls, follows, infoGroup, cached, found, late, probes, failed>>

Step(c) ==
    \/ LoadHits(c) \/ LoadMisses(c) \/ Follow(c) \/ Lead(c) \/ ProbeAlone(c)
    \/ LookAgain(c) \/ ProbeReturns(c) \/ Store(c) \/ LeaveGroup(c) \/ Return(c)

InfoNext == \E c \in Callers : Call(c) \/ Step(c)

InfoSpec == InfoInit /\ [][InfoNext]_infoVars

------------------------------------------------------------------------------
\* Properties.

\* REST callers coalesce onto one probe, and none is made once a version was found:
\* every probe but the one under way, or the one that found it, has failed.
OneProbeAtATime ==
    Coalesces => probes <= failed + 1

\* A version that was found reaches everybody who looks for it later ("cached
\* permanently", rest.go): a call that began when one was cached, or over REST asked
\* the group when one was, is answered with a version, though it missed the cache
\* before, and though the probe it leads or joins would fail.  A caller that joined a
\* probe before is answered with what that one found, even when it returns after a
\* later probe stored a version.
LateCallersAreTold ==
    [][\A c \in Callers :
        at[c] # "out" /\ at'[c] = "out" /\ late[c] => answers'[c]]_infoVars
==============================================================================
