------------------------------ MODULE Requests ------------------------------
(***************************************************************************)
(* Requests: how they are built and validated, what a transport refuses,   *)
(* and what each transport asks of Salt on their behalf.  Arguments,       *)
(* keyword arguments and metadata are passed through untouched and are     *)
(* left out.                                                               *)
(***************************************************************************)
EXTENDS Integers, Sequences

CONSTANTS
    NoFunction,     \* the empty function name
    Second,         \* clock ticks in a second
    MaxDuration     \* the largest time.Duration

ASSUME DurationAssumption ==
    /\ Second \in Nat \ {0}
    /\ MaxDuration \in Nat
    /\ Second <= MaxDuration

(***************************************************************************)
(* A target is the minions its expression can match; only an empty list or *)
(* an empty expression can match none.                                     *)
(***************************************************************************)
TargetType == {"list", "glob"}
NoTarget   == [type |-> "nil", names |-> {}]
NoBatch    == [count |-> 0, percent |-> 0]

List(names) == [type |-> "list", names |-> names]
Glob(names) == [type |-> "glob", names |-> names]

------------------------------------------------------------------------------
(***************************************************************************)
(* Builders and options.                                                   *)
(***************************************************************************)
Local(function, target) ==
    [kind |-> "local", function |-> function, target |-> target, entries |-> << >>,
     batch |-> NoBatch, moduleTimeout |-> 0, gatherTimeout |-> 0, fullReturn |-> FALSE]

Runner(function)  == [Local(function, NoTarget) EXCEPT !.kind = "runner"]
Lowstate(entries) == [Local(NoFunction, NoTarget) EXCEPT !.kind = "lowstate", !.entries = entries]

\* Each batch option replaces the whole batch.
BatchCount(request, n)       == [request EXCEPT !.batch = [count |-> n, percent |-> 0]]
BatchPercent(request, p)     == [request EXCEPT !.batch = [count |-> 0, percent |-> p]]
ModuleTimeout(request, d)    == [request EXCEPT !.moduleTimeout = d]
GatherJobTimeout(request, d) == [request EXCEPT !.gatherTimeout = d]
FullReturn(request, v)       == [request EXCEPT !.fullReturn = v]

------------------------------------------------------------------------------
(***************************************************************************)
(* Request.Validate.                                                       *)
(***************************************************************************)
IsEmptyTarget(target) == target.names = {}

LowstateClientRequiresTarget(client) == client \in {"local", "local_async"}

ValidEntry(entry) ==
    /\ entry.client # "" /\ entry.fun # NoFunction
    /\ LowstateClientRequiresTarget(entry.client) => ~IsEmptyTarget(entry.target)

ValidKind(request) ==
    \/ request.kind = "local" /\ request.function # NoFunction
       /\ request.target.type # "nil" /\ ~IsEmptyTarget(request.target)
    \/ request.kind = "runner" /\ request.function # NoFunction
    \/ request.kind = "lowstate" /\ request.entries # << >>
       /\ \A i \in DOMAIN request.entries : ValidEntry(request.entries[i])

\* Variant: a count and a percentage may be given together.
LooseBatch(batch) == batch.count >= 0 /\ batch.percent <= 100

ValidBatch(batch) ==
    /\ batch.count >= 0
    /\ batch.count = 0 => batch.percent >= 0
    /\ ~(batch.count > 0 /\ batch.percent > 0)
    /\ batch.percent <= 100

Valid(request) ==
    /\ ValidKind(request)
    /\ ValidBatch(request.batch)
    /\ request.moduleTimeout >= 0 /\ request.gatherTimeout >= 0

------------------------------------------------------------------------------
(***************************************************************************)
(* What the transports provide and refuse.                                 *)
(***************************************************************************)
CommonCapabilities ==
    {"run.sync", "local.run", "local.start", "runner.run", "jobs.lookup", "targets.resolve", "batch"}

RestCapabilities(mode) ==
    CommonCapabilities \cup {"lowstate", "events", "returns.stream"}
    \cup (IF mode # "direct" THEN {"returns.run_scoped"} ELSE {})

PythonCapabilities == CommonCapabilities \cup {"returns.run_scoped"}

UsesBatch(request) == request.batch.count > 0 \/ request.batch.percent > 0

\* requireSupportedOptions, for Run.
SupportsOptions(capabilities, request) ==
    UsesBatch(request) => request.kind = "local" /\ "batch" \in capabilities

------------------------------------------------------------------------------
(***************************************************************************)
(* What Salt is asked.  The batch strings of the transports are built in   *)
(* opposite orders of preference: REST overwrites the count with the       *)
(* percentage, the Python bridge returns the count first.                  *)
(***************************************************************************)
RestBatch(batch) ==
    IF batch.percent > 0 THEN [count |-> 0, percent |-> batch.percent]
    ELSE IF batch.count > 0 THEN [count |-> batch.count, percent |-> 0] ELSE NoBatch

PythonBatch(batch) ==
    IF batch.count > 0 THEN [count |-> batch.count, percent |-> 0]
    ELSE IF batch.percent > 0 THEN [count |-> 0, percent |-> batch.percent] ELSE NoBatch

\* time.Duration is a signed integer: the sum may wrap around.
Wrapped(n)  == IF n > MaxDuration THEN n - 2 * (MaxDuration + 1) ELSE n
Quotient(n) == IF n >= 0 THEN n \div Second ELSE -((-n) \div Second)

DurationSecondsCeil(d) == IF d <= 0 THEN 0 ELSE Quotient(Wrapped(d + Second - 1))

Asked(client, function, target) ==
    [client |-> client, function |-> function, target |-> target, batch |-> NoBatch,
     timeout |-> 0, gather |-> 0, fullReturn |-> FALSE]

\* lowstatePayload: one chunk, or the entries of a lowstate request without
\* the request's options.
LowstatePayload(request) ==
    IF request.kind = "lowstate"
    THEN [i \in DOMAIN request.entries |->
            Asked(request.entries[i].client, request.entries[i].fun, request.entries[i].target)]
    ELSE << [Asked(request.kind, request.function, request.target) EXCEPT
                !.batch      = RestBatch(request.batch),
                !.timeout    = DurationSecondsCeil(request.moduleTimeout),
                !.gather     = DurationSecondsCeil(request.gatherTimeout),
                !.fullReturn = request.fullReturn] >>

(***************************************************************************)
(* makeBridgeRequest and the call the helper makes of it.  An older Salt   *)
(* refuses the full_return argument and is called again without it; a      *)
(* runner is given no options; the gather timeout has no field.            *)
(***************************************************************************)
BridgePayload(request, older) ==
    LET asked == Asked(request.kind, request.function, request.target) IN
    << IF request.kind # "local" THEN asked
       ELSE [asked EXCEPT !.batch      = PythonBatch(request.batch),
                          !.timeout    = DurationSecondsCeil(request.moduleTimeout),
                          !.fullReturn = request.fullReturn /\ ~older] >>
==============================================================================
