------------------------------- MODULE Returns -------------------------------
(***************************************************************************)
(* How a minion's reply, or a runner's payload, becomes success or         *)
(* failure: transportkit's classifiers and normalizers, the envelope       *)
(* detection of the two transports, and package states' decoding.  JSON is *)
(* abstracted to the shapes the classifiers tell apart.                    *)
(***************************************************************************)
EXTENDS Integers, Sequences

CONSTANTS
    Functions,      \* Salt function names
    StateFunctions  \* those with the prefix "state."

ASSUME StateFunctionsAssumption == StateFunctions \subseteq Functions

(***************************************************************************)
(* A module return.  A map is the set of the kinds of its values: a state  *)
(* chunk with result true, false or null, or a value that is no chunk.     *)
(***************************************************************************)
Scalars   == {"true", "false", "null", "text", "messages", "other"}
ChunkKind == {"ok", "failed", "pending", "alien"}
Body      == [shape : Scalars \cup {"map"}, chunks : SUBSET ChunkKind]

Scalar(shape) == [shape |-> shape, chunks |-> {}]
MapOf(chunks) == [shape |-> "map", chunks |-> chunks]

(***************************************************************************)
(* What Salt sends for a minion: the bare return (no field), or an object  *)
(* with these fields around it.  error tells a non-empty error field.      *)
(***************************************************************************)
Field    == {"ret", "return", "jid", "retcode", "success", "error"}
Metadata == {"jid", "retcode", "success", "error"}

Reply == [fields : SUBSET Field, body : Body, retcode : 0..1,
          success : BOOLEAN, error : BOOLEAN]

\* The value as a module return, when the object is taken for data.
AsBody(reply) == IF reply.fields = {} THEN reply.body ELSE MapOf({"alien"})

FailureKind == {"retcode", "malformed", "minion_exception", "unknown"}
NoFailure   == "none"

\* The first failure of two.
f ?? g == IF f # NoFailure THEN f ELSE g

When(condition, failure) == IF condition THEN failure ELSE NoFailure

------------------------------------------------------------------------------
(***************************************************************************)
(* Classifiers.  bareFalse is the registry BareFalseModules.  A JSON null  *)
(* unmarshals into a bool as false, and into a string as "".               *)
(***************************************************************************)
IsBareFalse(body) == body.shape \in {"false", "null"}

BareFalseFailure(bareFalse, function, body) ==
    When(IsBareFalse(body) /\ function \in bareFalse, "unknown")

IsStateFunction(function) == function \in StateFunctions
IsMalformedState(body)    == body.shape \in {"null", "text", "messages"}

\* decodeStateChunks: one value that is no chunk makes the map no state return.
IsStateReturn(body) ==
    body.shape = "map" /\ body.chunks # {} /\ "alien" \notin body.chunks

HasFailedChunk(body) == IsStateReturn(body) /\ "failed" \in body.chunks

\* Variant: only malformed returns fail.
OnlyMalformed(function, body) ==
    When(IsStateFunction(function) /\ IsMalformedState(body), "malformed")

\* Variant: only failed chunks count.
OnlyFailedChunk(function, body) ==
    When(IsStateFunction(function) /\ HasFailedChunk(body), "unknown")

StateFailure(function, body) ==
    IF IsStateFunction(function)
    THEN When(HasFailedChunk(body), "unknown") ?? When(IsMalformedState(body), "malformed")
    ELSE NoFailure

StateReturnSucceeded(function, body) ==
    IsStateFunction(function) /\ IsStateReturn(body) /\ body.chunks = {"ok"}

(***************************************************************************)
(* ScalarFailure.  A payload is the sequence of its maps, in the order the *)
(* traversal through lists and the keys data, return and ret meets them; a *)
(* map is the set of its failure marks.                                    *)
(***************************************************************************)
Mark == {"error", "exception", "unsuccessful", "retcode"}

ScalarMapFailure(marks) ==
    When("error" \in marks, "malformed") ?? When("exception" \in marks, "minion_exception")
    ?? When("unsuccessful" \in marks, "unknown") ?? When("retcode" \in marks, "retcode")

ScalarFailure(payload) ==
    LET failing == {i \in DOMAIN payload : ScalarMapFailure(payload[i]) # NoFailure}
    IN  IF failing = {} THEN NoFailure
        ELSE ScalarMapFailure(payload[CHOOSE i \in failing : \A j \in failing : i <= j])

------------------------------------------------------------------------------
(***************************************************************************)
(* transportkit.MinionReturn, and its normalization.                       *)
(***************************************************************************)
SuccessFlag  == {"absent", "yes", "no"}
MinionReturn == [body : Body, retcode : 0..1, retcodeKnown : BOOLEAN,
                 success : SuccessFlag, error : BOOLEAN, prefer : BOOLEAN]

Flag(reply) ==
    IF "success" \notin reply.fields THEN "absent" ELSE IF reply.success THEN "yes" ELSE "no"

\* Variant: a preferred state return hides every other sign of failure.
CleanWins(bareFalse, function, in) ==
    IF in.prefer /\ StateReturnSucceeded(function, in.body) THEN NoFailure
    ELSE When(in.error, "minion_exception")
         ?? When(in.retcodeKnown /\ in.retcode # 0, "retcode")
         ?? When(in.success = "no", "unknown")
         ?? StateFailure(function, in.body)

MinionFailure(bareFalse, function, in) ==
    LET clean == in.prefer /\ StateReturnSucceeded(function, in.body) IN
    When(in.error, "minion_exception")
    ?? When(in.prefer, StateFailure(function, in.body))
    ?? When(in.retcodeKnown /\ in.retcode # 0 /\ ~clean, "retcode")
    ?? When(in.success = "no", "unknown")
    ?? When(~clean /\ ~in.retcodeKnown, BareFalseFailure(bareFalse, function, in.body))
    ?? When(~clean, StateFailure(function, in.body))

Verdict == [failure : FailureKind \cup {NoFailure}, retcode : 0..1, body : Body]

NormalizeMinionReturn(bareFalse, function, in) ==
    LET failure == MinionFailure(bareFalse, function, in)
        retcode == IF in.retcodeKnown THEN in.retcode ELSE 0
    IN  [failure |-> failure,
         retcode |-> IF failure # NoFailure THEN 1
                     ELSE IF in.prefer /\ StateReturnSucceeded(function, in.body) THEN 0
                     ELSE retcode,
         body |-> in.body]

------------------------------------------------------------------------------
(***************************************************************************)
(* The REST transport: an object with ret is an envelope when full returns *)
(* were asked for, or when it carries metadata; its retcode then counts as *)
(* known even if the field is absent.                                      *)
(***************************************************************************)
IsFullReturn(reply, fullReturn) ==
    "ret" \in reply.fields /\ (fullReturn \/ reply.fields \cap Metadata # {})

RestMinionReturn(reply, fullReturn) ==
    IF IsFullReturn(reply, fullReturn)
    THEN [body |-> reply.body, retcodeKnown |-> TRUE, success |-> Flag(reply),
          retcode |-> IF "retcode" \in reply.fields THEN reply.retcode ELSE 0,
          error |-> "error" \in reply.fields /\ reply.error, prefer |-> FALSE]
    ELSE [body |-> AsBody(reply), retcodeKnown |-> FALSE, retcode |-> 0,
          success |-> "absent", error |-> FALSE, prefer |-> FALSE]

(***************************************************************************)
(* A return event of a job (minionReturn): no function is passed on, so    *)
(* that neither the state classifiers nor the registry look at the body.   *)
(***************************************************************************)
EventMinionReturn(reply) ==
    [body |-> reply.body, retcodeKnown |-> TRUE, success |-> Flag(reply),
     retcode |-> IF "retcode" \in reply.fields THEN reply.retcode ELSE 0,
     error |-> "error" \in reply.fields /\ reply.error, prefer |-> FALSE]

(***************************************************************************)
(* The Python helper unwraps any object with ret, return, retcode, jid or  *)
(* error, and the transport prefers the state return to the retcode.       *)
(***************************************************************************)
Unwrapped(reply) == reply.fields \cap {"ret", "return", "retcode", "jid", "error"} # {}

PythonMinionReturn(reply) ==
    IF Unwrapped(reply)
    THEN [body |-> IF reply.fields \cap {"ret", "return"} # {} THEN reply.body
                   ELSE AsBody(reply),
          retcodeKnown |-> "retcode" \in reply.fields, success |-> Flag(reply),
          retcode |-> IF "retcode" \in reply.fields THEN reply.retcode ELSE 0,
          error |-> "error" \in reply.fields /\ reply.error, prefer |-> TRUE]
    ELSE [body |-> AsBody(reply), retcodeKnown |-> FALSE, retcode |-> 0,
          success |-> "absent", error |-> FALSE, prefer |-> TRUE]

RestVerdict(bareFalse, function, fullReturn, reply) ==
    NormalizeMinionReturn(bareFalse, function, RestMinionReturn(reply, fullReturn))

PythonVerdict(bareFalse, function, reply) ==
    NormalizeMinionReturn(bareFalse, function, PythonMinionReturn(reply))

------------------------------------------------------------------------------
(***************************************************************************)
(* What Salt says, told from the reply alone and not by the classifiers.   *)
(* Salt's own two shapes are a bare return and an envelope of ret and      *)
(* metadata; of any other object nobody can tell whether it is data.       *)
(***************************************************************************)
SaltShaped(reply) ==
    \/ reply.fields = {}
    \/ "ret" \in reply.fields /\ reply.fields \cap Metadata # {}

\* The signs of failure in a reply of one of these shapes.
Sign == {"error", "unsuccessful", "retcode", "malformed", "chunk", "false"}

Shows(bareFalse, function, reply, sign) ==
    CASE sign = "error"        -> "error" \in reply.fields /\ reply.error
      [] sign = "unsuccessful" -> "success" \in reply.fields /\ ~reply.success
      [] sign = "retcode"      -> "retcode" \in reply.fields /\ reply.retcode # 0
      [] sign = "malformed"    -> function \in StateFunctions
                                  /\ reply.body.shape \in {"null", "text", "messages"}
      [] sign = "chunk"        -> function \in StateFunctions
                                  /\ reply.body.shape = "map" /\ "failed" \in reply.body.chunks
      [] sign = "false"        -> reply.fields = {} /\ function \in bareFalse
                                  /\ reply.body.shape \in {"false", "null"}

Signs(bareFalse, function, reply) == {sign \in Sign : Shows(bareFalse, function, reply, sign)}

(***************************************************************************)
(* The signs the code does not heed, each a gap in what it can promise.    *)
(* A failed chunk is not looked for beside a value that is no chunk; the   *)
(* Python transport lets a state return whose chunks all succeeded         *)
(* overrule the retcode; nothing in the body of an event counts.           *)
(***************************************************************************)
Unheeded(via, function, body) ==
    {sign \in Sign :
        \/ sign = "chunk" /\ "alien" \in body.chunks
        \/ sign = "retcode" /\ via = "python" /\ StateReturnSucceeded(function, body)
        \/ sign \in {"malformed", "chunk", "false"} /\ via = "event"}

SaysNoFailure(via, bareFalse, function, reply) ==
    SaltShaped(reply) =>
        Signs(bareFalse, function, reply) \subseteq Unheeded(via, function, reply.body)

------------------------------------------------------------------------------
(***************************************************************************)
(* Package states.  DecodeMinion accepts a non-empty map of chunks only.   *)
(***************************************************************************)
Decodes(body) ==
    /\ ~IsMalformedState(body)
    /\ body.shape = "map" /\ body.chunks # {}
    /\ "alien" \notin body.chunks

\* Return.OK: no chunk of the decoded return failed.
StateReturnOK(body) == "failed" \notin body.chunks

MalformedStateRetryPredicate(function, verdict) ==
    /\ IsStateFunction(function)
    /\ verdict.failure # NoFailure \/ verdict.retcode # 0
    /\ IsMalformedState(verdict.body)
==============================================================================
