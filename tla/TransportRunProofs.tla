-------------------------- MODULE TransportRunProofs --------------------------
(***************************************************************************)
(* Theorems about TransportRun, for any calls, minions, replies, payloads  *)
(* and changes of the registry.                                            *)
(***************************************************************************)
EXTENDS TransportRun, AccumulatorProofs

------------------------------------------------------------------------------
(***************************************************************************)
(* Returns: what the normalizers return, for any function, registry and    *)
(* reply.                                                                  *)
(***************************************************************************)
LEMMA StateFailureKind ==
    ASSUME NEW function, NEW body
    PROVE  /\ StateFailure(function, body) \in {NoFailure, "unknown", "malformed"}
           /\ StateFailure(function, body) = NoFailure <=>
                ~(IsStateFunction(function) /\ (HasFailedChunk(body) \/ IsMalformedState(body)))
  BY DEF StateFailure, When, ??, NoFailure

LEMMA CleanIsNoFailure ==
    ASSUME NEW function, NEW body, StateReturnSucceeded(function, body)
    PROVE  /\ ~HasFailedChunk(body) /\ ~IsMalformedState(body) /\ ~IsBareFalse(body)
           /\ StateFailure(function, body) = NoFailure
<1>1. ~HasFailedChunk(body) /\ ~IsMalformedState(body) /\ ~IsBareFalse(body)
  BY DEF StateReturnSucceeded, HasFailedChunk, IsStateReturn, IsMalformedState, IsBareFalse
<1>2. QED
  BY <1>1, StateFailureKind

\* The signs of failure a normalized return is silent about only when it has none.
Clean(function, in) == in.prefer /\ StateReturnSucceeded(function, in.body)

LEMMA FailureMeans ==
    ASSUME NEW registry, NEW function, NEW in \in MinionReturn
    PROVE  /\ MinionFailure(registry, function, in) \in FailureKind \cup {NoFailure}
           /\ MinionFailure(registry, function, in) = NoFailure <=>
                /\ ~in.error
                /\ in.success # "no"
                /\ in.retcodeKnown /\ in.retcode # 0 => Clean(function, in)
                /\ ~(~in.retcodeKnown /\ IsBareFalse(in.body) /\ function \in registry)
                /\ StateFailure(function, in.body) = NoFailure
<1>1. /\ in.error \in BOOLEAN /\ in.prefer \in BOOLEAN /\ in.retcodeKnown \in BOOLEAN
  BY DEF MinionReturn
<1>2. StateFailure(function, in.body) \in {NoFailure, "unknown", "malformed"}
  BY StateFailureKind
<1>3. Clean(function, in) => /\ StateFailure(function, in.body) = NoFailure
                             /\ ~IsBareFalse(in.body)
  BY CleanIsNoFailure DEF Clean
<1>4. QED
  BY <1>1, <1>2, <1>3 DEF MinionFailure, Clean, BareFalseFailure, When, ??, NoFailure, FailureKind

\* The code and the failure of a normalized return agree, so that a reader of
\* either, as MinionResult's users and the retry predicate are, sees the same
\* minions fail (minion.go, NormalizeMinionReturn).
THEOREM RetcodeAgreesWithFailure ==
    ASSUME NEW registry, NEW function, NEW in \in MinionReturn
    PROVE  /\ NormalizeMinionReturn(registry, function, in).failure = NoFailure
              <=> NormalizeMinionReturn(registry, function, in).retcode = 0
           /\ NormalizeMinionReturn(registry, function, in) \in
                [failure : FailureKind \cup {NoFailure}, retcode : 0..1, body : {in.body}]
<1> DEFINE failure == MinionFailure(registry, function, in)
<1>1. /\ failure \in FailureKind \cup {NoFailure}
      /\ failure = NoFailure =>
            (in.retcodeKnown /\ in.retcode # 0 => Clean(function, in))
  BY FailureMeans
<1>2. in.retcode \in 0..1
  BY DEF MinionReturn
<1> HIDE DEF failure
<1>3. NormalizeMinionReturn(registry, function, in) =
        [failure |-> failure,
         retcode |-> IF failure # NoFailure THEN 1
                     ELSE IF Clean(function, in) THEN 0
                     ELSE IF in.retcodeKnown THEN in.retcode ELSE 0,
         body |-> in.body]
  BY DEF NormalizeMinionReturn, failure, Clean
<1>4. QED
  BY <1>1, <1>2, <1>3

LEMMA DecodedType ==
    ASSUME NEW reply \in Reply, NEW fullReturn \in BOOLEAN
    PROVE  /\ RestMinionReturn(reply, fullReturn) \in MinionReturn
           /\ PythonMinionReturn(reply) \in MinionReturn
           /\ EventMinionReturn(reply) \in MinionReturn
<1>1. /\ reply.body \in Body /\ reply.retcode \in 0..1 /\ reply.error \in BOOLEAN
      /\ AsBody(reply) \in Body /\ Flag(reply) \in SuccessFlag
  BY DEF Reply, AsBody, Flag, SuccessFlag, Body, MapOf, ChunkKind
<1>2. RestMinionReturn(reply, fullReturn) \in MinionReturn
  BY <1>1 DEF RestMinionReturn, MinionReturn, SuccessFlag
<1>3. PythonMinionReturn(reply) \in MinionReturn
  BY <1>1 DEF PythonMinionReturn, MinionReturn, SuccessFlag
<1>4. EventMinionReturn(reply) \in MinionReturn
  BY <1>1 DEF EventMinionReturn, MinionReturn, SuccessFlag
<1>5. QED
  BY <1>2, <1>3, <1>4

\* What each transport makes of a reply of one of Salt's two shapes.

LEMMA BareDecoded ==
    ASSUME NEW reply \in Reply, reply.fields = {}, NEW fullReturn
    PROVE  /\ RestMinionReturn(reply, fullReturn) =
                [body |-> reply.body, retcodeKnown |-> FALSE, retcode |-> 0,
                 success |-> "absent", error |-> FALSE, prefer |-> FALSE]
           /\ PythonMinionReturn(reply) =
                [body |-> reply.body, retcodeKnown |-> FALSE, retcode |-> 0,
                 success |-> "absent", error |-> FALSE, prefer |-> TRUE]
  BY DEF RestMinionReturn, PythonMinionReturn, IsFullReturn, Unwrapped, AsBody

LEMMA EnvelopeDecoded ==
    ASSUME NEW reply \in Reply, "ret" \in reply.fields, reply.fields \cap Metadata # {},
           NEW fullReturn
    PROVE  LET error   == "error" \in reply.fields /\ reply.error
               retcode == IF "retcode" \in reply.fields THEN reply.retcode ELSE 0
           IN  /\ RestMinionReturn(reply, fullReturn) =
                    [body |-> reply.body, retcodeKnown |-> TRUE, success |-> Flag(reply),
                     retcode |-> retcode, error |-> error, prefer |-> FALSE]
               /\ PythonMinionReturn(reply) =
                    [body |-> reply.body, retcodeKnown |-> "retcode" \in reply.fields,
                     success |-> Flag(reply), retcode |-> retcode, error |-> error,
                     prefer |-> TRUE]
<1>1. IsFullReturn(reply, fullReturn) /\ Unwrapped(reply)
  BY DEF IsFullReturn, Unwrapped
<1>2. reply.fields \cap {"ret", "return"} # {}
  OBVIOUS
<1>3. QED
  BY <1>1, <1>2 DEF RestMinionReturn, PythonMinionReturn

LEMMA Normalized ==
    ASSUME NEW registry, NEW function, NEW in
    PROVE  /\ NormalizeMinionReturn(registry, function, in).failure =
                MinionFailure(registry, function, in)
           /\ NormalizeMinionReturn(registry, function, in).body = in.body
  BY DEF NormalizeMinionReturn

\* A reply shows no heeded sign if it shows none of those, kind by kind.
LEMMA NoHeededSign ==
    ASSUME NEW via, NEW registry, NEW function, NEW reply,
           ~("error" \in reply.fields /\ reply.error),
           ~("success" \in reply.fields /\ ~reply.success),
           "retcode" \in reply.fields /\ reply.retcode # 0 =>
                via = "python" /\ StateReturnSucceeded(function, reply.body),
           via # "event" =>
                /\ StateFailure(function, reply.body) = NoFailure
                /\ ~(reply.fields = {} /\ function \in registry /\ IsBareFalse(reply.body))
    PROVE  Signs(registry, function, reply) \subseteq Unheeded(via, function, reply.body)
<1> SUFFICES ASSUME NEW sign \in Sign, Shows(registry, function, reply, sign)
             PROVE  sign \in Unheeded(via, function, reply.body)
  BY DEF Signs
<1>1. sign # "error" /\ sign # "unsuccessful"
  BY DEF Shows
<1>2. CASE sign = "retcode"
  BY <1>2 DEF Shows, Unheeded
<1>3. CASE sign \in {"malformed", "chunk", "false"} /\ via = "event"
  BY <1>3 DEF Unheeded
<1>4. ASSUME via # "event"
      PROVE  ~(IsStateFunction(function)
                  /\ (HasFailedChunk(reply.body) \/ IsMalformedState(reply.body)))
  BY <1>4, StateFailureKind
<1>5. CASE sign = "malformed" /\ via # "event"
  BY <1>4, <1>5 DEF Shows, IsStateFunction, IsMalformedState
<1>6. CASE sign = "chunk" /\ via # "event"
  <2>1. /\ reply.body.shape = "map" /\ "failed" \in reply.body.chunks
        /\ ~HasFailedChunk(reply.body)
    BY <1>4, <1>6 DEF Shows, IsStateFunction
  <2>2. "alien" \in reply.body.chunks
    BY <2>1 DEF HasFailedChunk, IsStateReturn
  <2>3. QED
    BY <1>6, <2>2 DEF Unheeded
<1>7. CASE sign = "false" /\ via # "event"
  BY <1>7 DEF Shows, IsBareFalse
<1>8. QED
  BY <1>1, <1>2, <1>3, <1>5, <1>6, <1>7 DEF Sign

\* A heeded sign of failure in a reply of Salt's makes the normalized return a failure.
LEMMA NoSignIsLost ==
    ASSUME NEW registry, NEW function, NEW reply \in Reply, NEW fullReturn \in BOOLEAN,
           NEW noFunction
    PROVE  /\ RestVerdict(registry, function, fullReturn, reply).failure = NoFailure
                => SaysNoFailure("rest", registry, function, reply)
           /\ PythonVerdict(registry, function, reply).failure = NoFailure
                => SaysNoFailure("python", registry, function, reply)
           /\ NormalizeMinionReturn(registry, noFunction, EventMinionReturn(reply)).failure
                = NoFailure => SaysNoFailure("event", registry, function, reply)
<1> DEFINE error == "error" \in reply.fields /\ reply.error
           Carries(in) ==
             /\ in.body = reply.body /\ in.error = error /\ in.success = Flag(reply)
             /\ "retcode" \in reply.fields => in.retcodeKnown /\ in.retcode = reply.retcode
           Looks(in) == reply.fields = {} => ~in.retcodeKnown
<1>1. ASSUME NEW via, NEW used, NEW in \in MinionReturn, Carries(in),
             MinionFailure(registry, used, in) = NoFailure,
             in.prefer => via = "python",
             via # "event" => used = function /\ Looks(in)
      PROVE  via = "event" \/ used = function =>
                Signs(registry, function, reply) \subseteq Unheeded(via, function, reply.body)
  <2> SUFFICES ASSUME via = "event" \/ used = function
               PROVE  Signs(registry, function, reply)
                         \subseteq Unheeded(via, function, reply.body)
    OBVIOUS
  <2> HIDE DEF error
  <2>1. /\ ~in.error /\ in.success # "no"
        /\ in.retcodeKnown /\ in.retcode # 0 => Clean(used, in)
        /\ ~(~in.retcodeKnown /\ IsBareFalse(in.body) /\ used \in registry)
        /\ StateFailure(used, in.body) = NoFailure
    BY <1>1, FailureMeans
  <2>2. ~error /\ Flag(reply) # "no"
    BY <1>1, <2>1
  <2>3. ~("success" \in reply.fields /\ ~reply.success)
    BY <2>2 DEF Flag
  <2>4. via = "event" => via # "python"
    OBVIOUS
  <2>5. "retcode" \in reply.fields /\ reply.retcode # 0 =>
            via = "python" /\ StateReturnSucceeded(function, reply.body)
    BY <1>1, <2>1, <2>4 DEF Clean
  <2>6. via # "event" =>
            /\ StateFailure(function, reply.body) = NoFailure
            /\ ~(reply.fields = {} /\ function \in registry /\ IsBareFalse(reply.body))
    BY <1>1, <2>1
  <2>7. QED
    BY <2>2, <2>3, <2>5, <2>6, NoHeededSign DEF error
<1> DEFINE rest   == RestMinionReturn(reply, fullReturn)
           python == PythonMinionReturn(reply)
           event  == EventMinionReturn(reply)
<1>2. rest \in MinionReturn /\ python \in MinionReturn /\ event \in MinionReturn
  BY DecodedType
<1>3. ~rest.prefer /\ ~event.prefer
  BY DEF RestMinionReturn, EventMinionReturn
<1>4. Carries(event)
  BY DEF EventMinionReturn
<1>5. SaltShaped(reply) => Carries(rest) /\ Looks(rest) /\ Carries(python) /\ Looks(python)
  <2>1. CASE reply.fields = {}
    <3>1. Flag(reply) = "absent" /\ ~error
      BY <2>1 DEF Flag
    <3>2. rest = [body |-> reply.body, retcodeKnown |-> FALSE, retcode |-> 0,
                  success |-> "absent", error |-> FALSE, prefer |-> FALSE]
      BY <2>1, BareDecoded
    <3>3. python = [body |-> reply.body, retcodeKnown |-> FALSE, retcode |-> 0,
                    success |-> "absent", error |-> FALSE, prefer |-> TRUE]
      BY <2>1, BareDecoded
    <3>4. error = FALSE
      BY <3>1
    <3> HIDE DEF rest, python, error
    <3>5. QED
      BY <2>1, <3>1, <3>2, <3>3, <3>4
  <2>2. CASE "ret" \in reply.fields /\ reply.fields \cap Metadata # {}
    <3> DEFINE retcode == IF "retcode" \in reply.fields THEN reply.retcode ELSE 0
    <3>1. /\ rest = [body |-> reply.body, retcodeKnown |-> TRUE, success |-> Flag(reply),
                     retcode |-> retcode, error |-> error, prefer |-> FALSE]
          /\ python = [body |-> reply.body, retcodeKnown |-> "retcode" \in reply.fields,
                       success |-> Flag(reply), retcode |-> retcode, error |-> error,
                       prefer |-> TRUE]
      BY <2>2, EnvelopeDecoded
    <3>2. "retcode" \in reply.fields => retcode = reply.retcode
      OBVIOUS
    <3> HIDE DEF rest, python, error, retcode
    <3>3. QED
      BY <2>2, <3>1, <3>2
  <2>3. QED
    BY <2>1, <2>2 DEF SaltShaped
<1> HIDE DEF Carries, Looks, rest, python, event
<1>6. SaltShaped(reply) /\ MinionFailure(registry, function, rest) = NoFailure =>
        Signs(registry, function, reply) \subseteq Unheeded("rest", function, reply.body)
  BY <1>1, <1>2, <1>3, <1>5
<1>7. SaltShaped(reply) /\ MinionFailure(registry, function, python) = NoFailure =>
        Signs(registry, function, reply) \subseteq Unheeded("python", function, reply.body)
  BY <1>1, <1>2, <1>5
<1>8. MinionFailure(registry, noFunction, event) = NoFailure =>
        Signs(registry, function, reply) \subseteq Unheeded("event", function, reply.body)
  BY <1>1, <1>2, <1>3, <1>4
<1>9. /\ RestVerdict(registry, function, fullReturn, reply).failure =
            MinionFailure(registry, function, rest)
      /\ PythonVerdict(registry, function, reply).failure =
            MinionFailure(registry, function, python)
      /\ NormalizeMinionReturn(registry, noFunction, EventMinionReturn(reply)).failure =
            MinionFailure(registry, noFunction, event)
  BY Normalized DEF RestVerdict, PythonVerdict, rest, python, event
<1>10. QED
  BY <1>6, <1>7, <1>8, <1>9 DEF SaysNoFailure

\* The two transports agree on which replies of Salt are failures, bare or in an
\* envelope with a retcode, except for a nonzero retcode around a state return whose
\* chunks all succeeded: a failure over REST and a success over Python
\* (normalize.go, normalizeMinion; python.go, normalizeBridgeMinion).
THEOREM TransportsAgree ==
    ASSUME NEW registry, NEW function, NEW reply \in Reply, SaltShaped(reply),
           reply.fields = {} \/ "retcode" \in reply.fields, NEW fullReturn \in BOOLEAN
    PROVE  RestVerdict(registry, function, fullReturn, reply).failure = NoFailure
           <=> /\ PythonVerdict(registry, function, reply).failure = NoFailure
               /\ ~(/\ reply.fields # {} /\ reply.retcode # 0
                    /\ StateReturnSucceeded(function, reply.body))
<1> DEFINE rest   == RestMinionReturn(reply, fullReturn)
           python == PythonMinionReturn(reply)
<1>1. rest \in MinionReturn /\ python \in MinionReturn
  BY DecodedType
<1>2. rest.prefer = FALSE /\ python.prefer = TRUE
  BY DEF RestMinionReturn, PythonMinionReturn
<1>3. /\ rest.body = reply.body /\ python.body = reply.body
      /\ rest.error = python.error /\ rest.success = python.success
      /\ rest.retcodeKnown = python.retcodeKnown /\ rest.retcode = python.retcode
      /\ rest.retcodeKnown <=> reply.fields # {}
      /\ rest.retcodeKnown => rest.retcode = reply.retcode
  <2>1. CASE reply.fields = {}
    <3>1. /\ rest = [body |-> reply.body, retcodeKnown |-> FALSE, retcode |-> 0,
                     success |-> "absent", error |-> FALSE, prefer |-> FALSE]
          /\ python = [body |-> reply.body, retcodeKnown |-> FALSE, retcode |-> 0,
                       success |-> "absent", error |-> FALSE, prefer |-> TRUE]
      BY <2>1, BareDecoded
    <3> HIDE DEF rest, python
    <3>2. QED
      BY <2>1, <3>1
  <2>2. CASE "ret" \in reply.fields /\ "retcode" \in reply.fields
    <3> DEFINE error == "error" \in reply.fields /\ reply.error
    <3>1. /\ rest = [body |-> reply.body, retcodeKnown |-> TRUE, success |-> Flag(reply),
                     retcode |-> reply.retcode, error |-> error, prefer |-> FALSE]
          /\ python = [body |-> reply.body, retcodeKnown |-> TRUE, success |-> Flag(reply),
                       retcode |-> reply.retcode, error |-> error, prefer |-> TRUE]
      BY <2>2, EnvelopeDecoded DEF Metadata
    <3> HIDE DEF rest, python, error
    <3>2. QED
      BY <2>2, <3>1
  <2>3. QED
    BY <2>1, <2>2 DEF SaltShaped
<1>4. /\ RestVerdict(registry, function, fullReturn, reply).failure =
            MinionFailure(registry, function, rest)
      /\ PythonVerdict(registry, function, reply).failure =
            MinionFailure(registry, function, python)
  BY Normalized DEF RestVerdict, PythonVerdict
<1> HIDE DEF rest, python
<1>5. MinionFailure(registry, function, python) = NoFailure <=>
        /\ ~rest.error /\ rest.success # "no"
        /\ rest.retcodeKnown /\ rest.retcode # 0 => StateReturnSucceeded(function, reply.body)
        /\ ~(~rest.retcodeKnown /\ IsBareFalse(reply.body) /\ function \in registry)
        /\ StateFailure(function, reply.body) = NoFailure
  BY <1>1, <1>2, <1>3, FailureMeans DEF Clean
<1>6. MinionFailure(registry, function, rest) = NoFailure <=>
        /\ ~rest.error /\ rest.success # "no"
        /\ ~(rest.retcodeKnown /\ rest.retcode # 0)
        /\ ~(~rest.retcodeKnown /\ IsBareFalse(reply.body) /\ function \in registry)
        /\ StateFailure(function, reply.body) = NoFailure
  BY <1>1, <1>2, <1>3, FailureMeans DEF Clean
<1>7. QED
  BY <1>3, <1>4, <1>5, <1>6

------------------------------------------------------------------------------
(***************************************************************************)
(* The inductive invariant is TypeOK and the five below.                   *)
(***************************************************************************)
NothingHeard ==
    /\ matched = {} /\ acc = NewAccumulator /\ streamed = {}
    /\ replies = [m \in Minions |-> NoReply] /\ verdict = [m \in Minions |-> NoVerdict]

\* What has been set by when.
Progress ==
    /\ pc # "idle" => call \in Calls
    /\ pc \in {"idle", "accepted", "sent", "job"} => NothingHeard
    /\ pc \in {"idle", "accepted"} => asked = << >>
    /\ pc \in {"idle", "accepted", "sent", "gathered", "job", "waiting"} =>
         result = NoResult /\ err = "none"
    /\ pc = "gathered" => IsLocal /\ call.transport = "python" /\ streamed = {}
    /\ pc = "job" /\ call.op = "run" => IsLocal /\ call.transport = "rest"
    /\ pc = "waiting" => IsLocal /\ call.transport = "rest"
    /\ pc = "returned" /\ err = "none" => result # NoResult

\* A return that was normalized to a success had no sign of failure, for the
\* functions that have been registered ever since.
Sound(m) ==
    verdict[m].failure = NoFailure =>
        /\ m \notin streamed => StateFailure(Request.function, verdict[m].body) = NoFailure
        /\ SaysNoFailure(Via(m), listed, Request.function, replies[m])

Judged ==
    \A m \in Minions :
        IF replies[m] = NoReply THEN verdict[m] = NoVerdict
        ELSE verdict[m] \in Verdict /\ Sound(m)

\* The entries of an accumulator or a result are of minions of the target that
\* replied, and say what was made of the replies.
Entered(r) ==
    \A m \in Returned(r) :
        /\ m \in Request.target.names /\ replies[m] # NoReply
        /\ r.byMinion[m].value = "ok" => verdict[m].failure = NoFailure

Collected ==
    pc \in {"gathered", "waiting"} =>
        /\ pc = "gathered" \/ Owed # {} => acc.expectedKnown /\ acc.expected = Owed
        /\ matched \subseteq Request.target.names
        /\ Entered(acc)

Accounted ==
    result # NoResult =>
        /\ Entered(result)
        /\ IsLocal => /\ Owed \subseteq Returned(result) \cup result.missing
                      /\ Returned(result) \cap result.missing = {}

Reported ==
    pc = "done" =>
        /\ report.exit = ExitStatus(err) /\ report.output = BuildOutput(result)
        /\ report.states = StatesRun(result, err)
        /\ err = "none" => result # NoResult /\ (call.op = "run" => OK(result))
        /\ report.resolved # {} =>
             result # NoResult /\ report.resolved = ResponsiveMinions

Inv == TypeOK /\ Progress /\ Judged /\ Collected /\ Accounted /\ Reported
------------------------------------------------------------------------------
\* The values that stand for nothing are no values.

LEMMA NothingIsNothing ==
    /\ NoReply \notin Replies
    /\ NoVerdict \notin Verdict
    /\ NoResult \notin ResultType
<1>1. \A r \in Reply : DOMAIN r = {"fields", "body", "retcode", "success", "error"}
  BY DEF Reply
<1>2. \A v \in Verdict : DOMAIN v = {"failure", "retcode", "body"}
  BY DEF Verdict
<1>3. \A r \in ResultType : DOMAIN r = {"jid", "expected", "byMinion", "missing", "failure"}
  BY DEF ResultType
<1>4. /\ DOMAIN NoReply = {"NoReplyYet"} /\ DOMAIN NoVerdict = {"NoVerdictYet"}
      /\ DOMAIN NoResult = {"NoResultYet"}
  BY DEF NoReply, NoVerdict, NoResult
<1>5. QED
  BY <1>1, <1>2, <1>3, <1>4, TransportRunAssumption

LEMMA CallIsTyped ==
    ASSUME NEW c \in Calls
    PROVE  /\ c \in CallType /\ c.request \in RequestType
           /\ c.request.target.names \subseteq Minions /\ c.request.fullReturn \in BOOLEAN
<1>1. c \in CallType /\ c.request \in RequestType
  BY TransportRunAssumption DEF CallType
<1>2. QED
  BY <1>1 DEF RequestType

LEMMA TheJidType == TheJid \in Jids
  BY TransportRunAssumption DEF TheJid

LEMMA EntryOfType ==
    ASSUME NEW reply, NEW v \in Verdict
    PROVE  /\ EntryOf(reply, v) \in Return /\ EntryOf(reply, v) \in Entry
           /\ EntryOf(reply, v) # NoReturn
           /\ EntryOf(reply, v).value = "ok" => v.failure = NoFailure
  BY TheJidType DEF EntryOf, Return, Entry, NoReturn, JidOrNone, Value

LEMMA EmptyResultType ==
    /\ EmptyResult \in ResultType /\ Returned(EmptyResult) = {}
    /\ EmptyResult # NoResult
    /\ \A b \in BOOLEAN : /\ [EmptyResult EXCEPT !.failure = b] \in ResultType
                          /\ Returned([EmptyResult EXCEPT !.failure = b]) = {}
                          /\ [EmptyResult EXCEPT !.failure = b].missing = {}
<1>1. EmptyResult \in ResultType /\ Returned(EmptyResult) = {}
  BY DEF EmptyResult, ResultType, JidOrNone, Entry, Returned
<1>2. \A b \in BOOLEAN : /\ [EmptyResult EXCEPT !.failure = b] \in ResultType
                         /\ Returned([EmptyResult EXCEPT !.failure = b]) = {}
                         /\ [EmptyResult EXCEPT !.failure = b].missing = {}
  BY DEF EmptyResult, ResultType, JidOrNone, Entry, Returned
<1>3. QED
  BY <1>1, <1>2, NothingIsNothing

LEMMA JobEntryType ==
    ASSUME NEW reply, NEW v \in Verdict
    PROVE  /\ JobEntry(reply, v) \in Return /\ JobEntry(reply, v) \in Entry
           /\ JobEntry(reply, v) # NoReturn /\ JobEntry(reply, v).jid \in Jids
           /\ JobEntry(reply, v).value = "ok" => v.failure = NoFailure
<1> DEFINE entry == EntryOf(reply, v)
<1>1. entry \in Return /\ (entry.value = "ok" => v.failure = NoFailure)
  BY EntryOfType
<1> HIDE DEF entry
<1>2. JobEntry(reply, v) = [entry EXCEPT !.jid = TheJid]
  BY DEF JobEntry, entry
<1>3. [entry EXCEPT !.jid = TheJid] \in Return
  BY <1>1, TheJidType DEF Return, JidOrNone
<1>4. [entry EXCEPT !.jid = TheJid].jid = TheJid /\ [entry EXCEPT !.jid = TheJid].value = entry.value
  BY <1>1 DEF Return
<1>5. QED
  BY <1>1, <1>2, <1>3, <1>4, TheJidType, NoReturnIsNotAReturn DEF Entry

\* A registry that loses functions makes no more signs of failure.
LEMMA FewerListed ==
    ASSUME NEW via, NEW more, NEW fewer, NEW function, NEW reply, fewer \subseteq more,
           SaysNoFailure(via, more, function, reply)
    PROVE  SaysNoFailure(via, fewer, function, reply)
<1>1. ASSUME NEW sign \in Sign, Shows(fewer, function, reply, sign)
      PROVE  Shows(more, function, reply, sign)
  BY <1>1 DEF Shows, Sign
<1>2. Signs(fewer, function, reply) \subseteq Signs(more, function, reply)
  BY <1>1 DEF Signs
<1>3. QED
  BY <1>2 DEF SaysNoFailure
------------------------------------------------------------------------------
\* The invariant is inductive.

LEMMA InitInv == Init => Inv
<1> SUFFICES ASSUME Init PROVE Inv
  OBVIOUS
<1>1. TypeOK
  BY NewAccumulatorType, TransportRunAssumption DEF Init, TypeOK, Error
<1>2. Progress /\ Judged /\ Collected /\ Accounted /\ Reported
  BY DEF Init, Progress, NothingHeard, Judged, Collected, Accounted, Reported
<1>3. QED
  BY <1>1, <1>2 DEF Inv

\* The registry changes, or nothing does.
LEMMA QuietInv ==
    ASSUME Inv, UNCHANGED <<pc, call, asked, matched, replies, acc, verdict, streamed, result, err, report>>,
           listed' \subseteq listed, listed' \subseteq bareFalse', bareFalse' \subseteq Functions
    PROVE  Inv'
<1> USE DEF Inv
<1>1. TypeOK'
  BY DEF TypeOK
<1>2. Progress'
  BY DEF Progress, NothingHeard, IsLocal, Request
<1>3. Judged'
  <2> SUFFICES ASSUME NEW m \in Minions, replies[m] # NoReply
               PROVE  verdict[m] \in Verdict /\ Sound(m)'
    BY DEF Judged
  <2>1. verdict[m] \in Verdict /\ Sound(m)
    BY DEF Judged
  <2>2. QED
    BY <2>1, FewerListed DEF Sound, Via, Request
<1>4. Collected' /\ Accounted'
  BY DEF Collected, Accounted, Entered, Owed, OwedOf, IsLocal, Request
<1>5. Reported'
  BY DEF Reported, ExitStatus, StatesRun, ResponsiveMinions, IsLocal, Request
<1>6. QED
  BY <1>1, <1>2, <1>3, <1>4, <1>5

\* Up to the message for Salt, no minion is heard of and there is no result.
LEMMA AskInv ==
    ASSUME Inv,
           \/ \E c \in Calls : Submit(c)
           \/ Refuse \/ PostDirect
           \/ \E older \in BOOLEAN : StartJob(older) \/ StartHelper(older)
    PROVE  Inv'
<1> USE DEF Inv
<1>1. /\ NothingHeard /\ result = NoResult /\ err = "none"
      /\ UNCHANGED <<matched, replies, acc, verdict, streamed, report>>
  BY DEF Progress, Submit, Refuse, PostDirect, StartJob, StartHelper
<1>2. /\ result' = NoResult
      /\ \/ pc' = "returned" /\ err' \in {"invalid", "unsupported"}
         \/ pc' \in {"accepted", "sent", "job"} /\ err' = "none"
      /\ pc' = "accepted" => asked' = << >>
      /\ pc' = "job" /\ call'.op = "run" => IsLocal' /\ call'.transport = "rest"
      /\ call' \in Calls
      /\ bareFalse' = bareFalse /\ listed' \in {listed, bareFalse}
  BY <1>1 DEF Progress, Submit, Refuse, PostDirect, StartJob, StartHelper, TransportReturns,
              RefusedAs, ViaJob, IsLocal, Request
<1>3. NothingHeard'
  BY <1>1 DEF NothingHeard
<1>4. TypeOK'
  BY <1>1, <1>2, TransportRunAssumption DEF TypeOK, Error
<1>5. Progress' /\ Collected' /\ Accounted' /\ Reported'
  BY <1>2, <1>3 DEF Progress, Collected, Accounted, Reported
<1>6. Judged'
  BY <1>3 DEF Judged, NothingHeard
<1>7. QED
  BY <1>4, <1>5, <1>6

\* A call that fails has no result, and one of a runner or of lowstate no minions.
LEMMA PayloadInv ==
    ASSUME Inv,
           \/ \E payload : NormalizeScalar(payload) \/ NormalizeBridgeScalar(payload)
           \/ \E fits \in BOOLEAN, e \in Error : PostFails(fits, e)
           \/ \E e \in Error : HelperFails(e)
    PROVE  Inv'
<1> USE DEF Inv
<1>1. /\ UNCHANGED <<call, asked, bareFalse, listed, matched, replies, acc, verdict, streamed, report>>
      /\ pc' = "returned" /\ pc \in {"sent", "gathered"}
  BY DEF NormalizeScalar, NormalizeBridgeScalar, PostFails, HelperFails, TransportReturns
<1>2. \/ result' = NoResult /\ err' \in Error \ {"none"}
      \/ /\ ~IsLocal /\ err' = "none"
         /\ \E b \in BOOLEAN : result' = [EmptyResult EXCEPT !.failure = b]
  BY DEF NormalizeScalar, NormalizeBridgeScalar, PostFails, HelperFails, TransportReturns,
         IsLocal, Error
<1>3. \/ result' = NoResult /\ err' \in Error \ {"none"}
      \/ /\ ~IsLocal /\ err' = "none"
         /\ result' \in ResultType /\ Returned(result') = {} /\ result' # NoResult
  BY <1>2, EmptyResultType, NothingIsNothing
<1>4. TypeOK'
  BY <1>1, <1>3 DEF TypeOK, Error
<1>5. Progress' /\ Collected' /\ Reported'
  BY <1>1, <1>3 DEF Progress, Collected, Reported
<1>6. Judged'
  BY <1>1 DEF Judged, Sound, Via, Request
<1>7. Accounted'
  BY <1>1, <1>3 DEF Accounted, Entered, IsLocal, Request
<1>8. QED
  BY <1>4, <1>5, <1>6, <1>7

\* What either transport makes of a reply is a verdict that misses no sign of failure.
LEMMA VerdictIsSound ==
    ASSUME NEW reply \in Replies, NEW registry, NEW function, NEW fullReturn \in BOOLEAN
    PROVE  LET rest   == RestVerdict(registry, function, fullReturn, reply)
               python == PythonVerdict(registry, function, reply)
           IN  /\ rest \in Verdict /\ python \in Verdict
               /\ rest.failure = NoFailure => StateFailure(function, rest.body) = NoFailure
               /\ python.failure = NoFailure => StateFailure(function, python.body) = NoFailure
<1>1. reply \in Reply
  BY TransportRunAssumption
<1>2. ASSUME NEW in \in MinionReturn
      PROVE  LET v == NormalizeMinionReturn(registry, function, in) IN
             v \in Verdict /\ (v.failure = NoFailure => StateFailure(function, v.body) = NoFailure)
  <2> DEFINE v == NormalizeMinionReturn(registry, function, in)
  <2>1. v \in [failure : FailureKind \cup {NoFailure}, retcode : 0..1, body : {in.body}]
    BY RetcodeAgreesWithFailure
  <2>2. v.failure = MinionFailure(registry, function, in) /\ v.body = in.body
    BY Normalized
  <2> HIDE DEF v
  <2>3. v \in Verdict
    BY <2>1 DEF Verdict, MinionReturn
  <2>4. MinionFailure(registry, function, in) = NoFailure =>
            StateFailure(function, in.body) = NoFailure
    BY FailureMeans
  <2>5. QED
    BY <2>2, <2>3, <2>4 DEF v
<1>3. QED
  BY <1>1, <1>2, DecodedType DEF RestVerdict, PythonVerdict

\* What has been collected makes a result that accounts for those owed an account.
MissesOwed(r) == Owed \subseteq Returned(r) \cup r.missing /\ Returned(r) \cap r.missing = {}

LEMMA CollectedIsAccounted ==
    ASSUME NEW a \in AccType, Entered(a), Owed # {} => a.expectedKnown /\ a.expected = Owed
    PROVE  /\ Result(a) \in ResultType /\ Result(a) # NoResult
           /\ Entered(Result(a)) /\ MissesOwed(Result(a))
<1>1. Result(a) \in ResultType /\ Result(a) # NoResult
  BY ResultInType, NothingIsNothing
<1>2. /\ Returned(Result(a)) = Returned(a)
      /\ \A m \in Returned(a) : Result(a).byMinion[m].value = a.byMinion[m].value
      /\ Result(a).missing = Result(a).expected \ Returned(a)
  BY ResultIsFaithful
<1>3. Owed # {} => Result(a).expected = Owed
  BY DEF Result
<1>4. Entered(Result(a))
  BY <1>2 DEF Entered
<1>5. MissesOwed(Result(a))
  BY <1>2, <1>3 DEF MissesOwed
<1>6. QED
  BY <1>1, <1>4, <1>5

LEMMA NormalizeLocalInv ==
    ASSUME Inv, NEW answered \in SUBSET Minions, NormalizeLocal(answered)
    PROVE  Inv'
<1> USE DEF Inv
<1>1. PICK given \in [answered -> Replies] :
         /\ replies' = [m \in Minions |-> IF m \in answered THEN given[m] ELSE NoReply]
         /\ verdict' = [m \in Minions |-> IF m \in answered THEN RestVerdictOf(given[m])
                                          ELSE NoVerdict]
         /\ LET entries == [m \in Minions |-> IF m \in answered
                              THEN EntryOf(given[m], RestVerdictOf(given[m])) ELSE NoReturn]
                jids == {entries[m].jid : m \in answered} \ {NoJid}
            IN  TransportReturns([EmptyResult EXCEPT
                    !.jid      = IF Cardinality(jids) = 1 THEN TheJid ELSE NoJid,
                    !.expected = RestExpected(answered),
                    !.byMinion = entries,
                    !.missing  = RestExpected(answered) \ answered], "none")
  BY DEF NormalizeLocal
<1>2. /\ pc = "sent" /\ call.transport = "rest" /\ IsLocal
      /\ answered \subseteq Request.target.names /\ matched' = answered /\ streamed = {}
      /\ UNCHANGED <<call, asked, bareFalse, listed, acc, streamed, report>>
  BY DEF NormalizeLocal, Progress, NothingHeard
<1>3. /\ call \in Calls /\ Request.target.names \subseteq Minions
      /\ Request.fullReturn \in BOOLEAN
  BY <1>2, CallIsTyped DEF Progress, Request
<1>4. ASSUME NEW m \in answered
      PROVE  LET v == RestVerdictOf(given[m]) IN
             /\ v \in Verdict
             /\ v.failure = NoFailure =>
                  /\ StateFailure(Request.function, v.body) = NoFailure
                  /\ SaysNoFailure("rest", listed, Request.function, given[m])
  <2>1. given[m] \in Replies /\ given[m] \in Reply /\ listed \subseteq bareFalse
    BY TransportRunAssumption DEF TypeOK
  <2>2. QED
    BY <1>3, <2>1, VerdictIsSound, NoSignIsLost, FewerListed DEF RestVerdictOf
<1> DEFINE entries == [m \in Minions |-> IF m \in answered
                         THEN EntryOf(given[m], RestVerdictOf(given[m])) ELSE NoReturn]
           jid == IF Cardinality({entries[m].jid : m \in answered} \ {NoJid}) = 1
                  THEN TheJid ELSE NoJid
<1>5. /\ entries \in [Minions -> Entry]
      /\ \A m \in Minions : entries[m] # NoReturn <=> m \in answered
      /\ \A m \in answered : entries[m].value = "ok" =>
            RestVerdictOf(given[m]).failure = NoFailure
  BY <1>4, EntryOfType DEF Entry
<1>6. jid \in JidOrNone
  BY TheJidType DEF JidOrNone
<1>7. RestExpected(answered) \subseteq Minions
  BY <1>3 DEF RestExpected
<1> HIDE DEF entries, jid
<1>8. /\ result' = [jid |-> jid, expected |-> RestExpected(answered), byMinion |-> entries,
                    missing |-> RestExpected(answered) \ answered, failure |-> FALSE]
      /\ pc' = "returned" /\ err' = "none"
  BY <1>1 DEF TransportReturns, EmptyResult, entries, jid
<1>9. /\ result' \in ResultType /\ result' # NoResult
      /\ Returned(result') = answered /\ result'.byMinion = entries
      /\ result'.missing = RestExpected(answered) \ answered
  <2>1. RestExpected(answered) \ answered \subseteq Minions
    BY <1>7
  <2>2. result' \in ResultType
    BY <1>5, <1>6, <1>7, <1>8, <2>1 DEF ResultType
  <2>3. result'.byMinion = entries /\ result'.missing = RestExpected(answered) \ answered
    BY <1>8
  <2>4. Returned(result') = answered
    BY <1>5, <2>3 DEF Returned
  <2>5. QED
    BY <2>2, <2>3, <2>4, NothingIsNothing
<1>10. /\ \A m \in answered : /\ replies'[m] = given[m] /\ replies'[m] # NoReply
                              /\ verdict'[m] = RestVerdictOf(given[m])
       /\ \A m \in Minions \ answered : replies'[m] = NoReply /\ verdict'[m] = NoVerdict
  BY <1>1, NothingIsNothing
<1>11. TypeOK'
  <2>1. /\ replies' \in [Minions -> Replies \cup {NoReply}]
        /\ verdict' \in [Minions -> Verdict \cup {NoVerdict}]
    BY <1>1, <1>4
  <2>2. QED
    BY <1>2, <1>8, <1>9, <2>1 DEF TypeOK, Error
<1>12. Progress' /\ Collected' /\ Reported'
  BY <1>2, <1>3, <1>8, <1>9 DEF Progress, Collected, Reported
<1>13. Judged'
  <2>1. ASSUME NEW m \in answered PROVE verdict'[m] \in Verdict /\ Sound(m)'
    BY <1>2, <1>4, <1>10 DEF Sound, Via, Request
  <2>2. QED
    BY <1>10, <2>1 DEF Judged
<1>14. Accounted'
  <2>1. Entered(result)'
    BY <1>2, <1>5, <1>9, <1>10 DEF Entered, Request
  <2>2. Owed' \subseteq RestExpected(answered)
    BY <1>2 DEF Owed, OwedOf, RestExpected, Request
  <2>3. QED
    BY <1>9, <2>1, <2>2 DEF Accounted
<1>15. QED
  BY <1>11, <1>12, <1>13, <1>14

LEMMA MinionsFrameInv ==
    ASSUME Inv, NEW minions \in SUBSET Minions, MinionsFrame(minions)
    PROVE  Inv'
<1> USE DEF Inv
<1>1. /\ pc = "sent" /\ call.transport = "python" /\ IsLocal
      /\ minions \subseteq Request.target.names /\ matched' = minions /\ pc' = "gathered"
      /\ acc' = SetExpected(NewAccumulator, NoJid, ExpectedMinions(minions))
      /\ UNCHANGED <<call, asked, bareFalse, listed, replies, verdict, streamed, result, err, report>>
  BY DEF MinionsFrame, Progress, NothingHeard
<1>2. ExpectedMinions(minions) \subseteq Minions
  BY <1>1, CallIsTyped DEF ExpectedMinions, Progress, Request
<1>3. /\ acc' \in AccType /\ acc'.expectedKnown /\ acc'.expected = ExpectedMinions(minions)
      /\ Returned(acc') = {}
  <2>1. NoJid \in JidOrNone /\ NewAccumulator \in AccType
    BY NewAccumulatorType DEF JidOrNone
  <2>2. acc'.byMinion = NewAccumulator.byMinion
    BY <1>1, <1>2, <2>1, SetExpectedKeepsReturns
  <2>3. Returned(acc') = {}
    BY <2>2 DEF Returned, NewAccumulator
  <2>4. acc'.expectedKnown /\ acc'.expected = ExpectedMinions(minions)
    BY <1>1 DEF SetExpected, SetJID, NewAccumulator
  <2>5. QED
    BY <1>1, <1>2, <2>1, <2>3, <2>4, SetExpectedType
<1>4. TypeOK'
  BY <1>1, <1>3 DEF TypeOK
<1>5. Progress' /\ Reported'
  BY <1>1 DEF Progress, NothingHeard, Reported, IsLocal, Request
<1>6. Judged'
  BY <1>1 DEF Progress, NothingHeard, Judged
<1>7. Collected'
  <2>1. Owed' = ExpectedMinions(minions)
    BY <1>1 DEF Owed, OwedOf, ExpectedMinions, Request
  <2>2. QED
    BY <1>1, <1>3, <2>1 DEF Collected, Entered, Request
<1>8. Accounted'
  BY <1>1 DEF Progress, Accounted
<1>9. QED
  BY <1>4, <1>5, <1>6, <1>7, <1>8

LEMMA ReturnFrameInv ==
    ASSUME Inv, NEW m \in Minions, NEW reply \in Replies, ReturnFrame(m, reply)
    PROVE  Inv'
<1> USE DEF Inv
<1> DEFINE v   == PythonVerdict(bareFalse, Request.function, reply)
           ret == EntryOf(reply, v)
<1>1. /\ pc = "gathered" /\ m \in matched /\ replies[m] = NoReply
      /\ replies' = [replies EXCEPT ![m] = reply] /\ verdict' = [verdict EXCEPT ![m] = v]
      /\ acc' = AddMinion(acc, m, ret)
      /\ UNCHANGED <<pc, call, asked, bareFalse, listed, matched, streamed, result, err, report>>
  BY DEF ReturnFrame
<1>2. /\ call.transport = "python" /\ call \in Calls /\ listed \subseteq bareFalse
      /\ reply \in Reply /\ reply # NoReply
  BY <1>1, NothingIsNothing, TransportRunAssumption DEF Progress, TypeOK
<1>3. /\ v \in Verdict
      /\ v.failure = NoFailure => StateFailure(Request.function, v.body) = NoFailure
  BY VerdictIsSound
<1>4. v.failure = NoFailure => SaysNoFailure("python", listed, Request.function, reply)
  BY <1>2, NoSignIsLost, FewerListed
<1>5. ret \in Return /\ (ret.value = "ok" => v.failure = NoFailure)
  BY <1>3, EntryOfType
<1> HIDE DEF v, ret
<1>6. /\ acc' \in AccType
      /\ acc'.expectedKnown = acc.expectedKnown /\ acc'.expected = acc.expected
      /\ Returned(acc') = Returned(acc) \cup {m}
      /\ acc'.byMinion[m].value = ret.value
      /\ \A n \in Minions \ {m} : acc'.byMinion[n] = acc.byMinion[n]
  BY <1>1, <1>5, AddMinionSays DEF TypeOK
<1>7. /\ replies'[m] = reply /\ verdict'[m] = v
      /\ \A n \in Minions \ {m} : replies'[n] = replies[n] /\ verdict'[n] = verdict[n]
  BY <1>1 DEF TypeOK
<1>8. TypeOK'
  BY <1>1, <1>3, <1>6 DEF TypeOK
<1>9. Progress' /\ Reported'
  BY <1>1 DEF Progress, Reported, IsLocal, Request
<1>10. Judged'
  <2>1. Via(m)' = "python" /\ \A n \in Minions : Via(n)' = Via(n)
    BY <1>1, <1>2 DEF Progress, Via
  <2>2. verdict'[m] \in Verdict /\ Sound(m)'
    BY <1>1, <1>3, <1>4, <1>7, <2>1 DEF Sound, Request
  <2>3. ASSUME NEW n \in Minions \ {m}
        PROVE  IF replies'[n] = NoReply THEN verdict'[n] = NoVerdict
               ELSE verdict'[n] \in Verdict /\ Sound(n)'
    BY <1>1, <1>7, <2>1 DEF Judged, Sound, Request
  <2>4. QED
    BY <1>2, <1>7, <2>2, <2>3 DEF Judged
<1>11. Collected'
  <2>1. Entered(acc)'
    <3>1. ASSUME NEW n \in Returned(acc')
          PROVE  /\ n \in Request.target.names /\ replies'[n] # NoReply
                 /\ acc'.byMinion[n].value = "ok" => verdict'[n].failure = NoFailure
      <4>1. CASE n = m
        BY <1>1, <1>2, <1>5, <1>6, <1>7, <4>1 DEF Collected
      <4>2. CASE n # m
        BY <1>1, <1>6, <1>7, <3>1, <4>2 DEF Collected, Entered, Returned
      <4>3. QED
        BY <4>1, <4>2
    <3>2. QED
      BY <1>1, <3>1 DEF Entered, Request
  <2>2. QED
    BY <1>1, <1>6, <2>1 DEF Collected, Owed, OwedOf, Request
<1>12. Accounted'
  BY <1>1 DEF Progress, Accounted
<1>13. QED
  BY <1>8, <1>9, <1>10, <1>11, <1>12

LEMMA HelperExitsInv ==
    ASSUME Inv, HelperExits
    PROVE  Inv'
<1> USE DEF Inv
<1>1. /\ pc = "gathered" /\ pc' = "returned" /\ result' = Result(acc) /\ err' = "none"
      /\ UNCHANGED <<call, asked, bareFalse, listed, matched, replies, acc, verdict, streamed, report>>
  BY DEF HelperExits, TransportReturns
<1>2. acc \in AccType /\ acc.expectedKnown /\ acc.expected = Owed /\ Entered(acc)
  BY <1>1 DEF Collected, TypeOK
<1>3. /\ result' \in ResultType /\ result' # NoResult
      /\ Returned(result') = Returned(acc) /\ result'.missing = Owed \ Returned(acc)
      /\ \A m \in Returned(acc) : result'.byMinion[m].value = acc.byMinion[m].value
  BY <1>1, <1>2, ResultSays, NothingIsNothing
<1>4. TypeOK'
  BY <1>1, <1>3 DEF TypeOK, Error
<1>5. Progress' /\ Collected' /\ Reported'
  BY <1>1, <1>3 DEF Progress, Collected, Reported
<1>6. Judged'
  BY <1>1 DEF Judged, Sound, Via, Request
<1>7. Accounted'
  BY <1>1, <1>2, <1>3 DEF Accounted, Entered, Owed, OwedOf, Request
<1>8. QED
  BY <1>4, <1>5, <1>6, <1>7

\* A job that cannot be started, and a wait that ends before the job does.
LEMMA JobEndsInv ==
    ASSUME Inv, NEW e, StartFails(e) \/ WaitEnds(e)
    PROVE  Inv'
<1> USE DEF Inv
<1>1. /\ UNCHANGED <<call, asked, bareFalse, listed, matched, replies, acc, verdict, streamed, report>>
      /\ pc \in {"job", "waiting"} /\ pc' = "returned" /\ err' \in Error \ {"none"}
      /\ \/ result' = NoResult
         \/ pc = "waiting" /\ result' = Result(acc)
  BY DEF StartFails, WaitEnds, TransportReturns, Error
<1>2. /\ result' \in ResultType \cup {NoResult}
      /\ result' # NoResult => Entered(result') /\ MissesOwed(result')
  BY <1>1, CollectedIsAccounted DEF TypeOK, Collected
<1>3. TypeOK'
  BY <1>1, <1>2 DEF TypeOK
<1>4. Progress' /\ Collected' /\ Reported'
  BY <1>1 DEF Progress, Collected, Reported
<1>5. Judged'
  BY <1>1 DEF Judged, Sound, Via, Request
<1>6. Accounted'
  BY <1>1, <1>2 DEF Accounted, MissesOwed, Entered, Owed, OwedOf, IsLocal, Request
<1>7. QED
  BY <1>3, <1>4, <1>5, <1>6

LEMMA StartReplyInv ==
    ASSUME Inv, NEW named \in BOOLEAN, NEW minions \in SUBSET Minions, StartReply(named, minions)
    PROVE  Inv'
<1> USE DEF Inv
<1> DEFINE none == Request.target.type # "list" /\ named /\ minions = {}
<1>1. /\ pc = "job" /\ call.op = "run" /\ IsLocal /\ call.transport = "rest" /\ NothingHeard
      /\ call \in Calls /\ minions \subseteq Request.target.names
      /\ matched' = IF named THEN minions
                    ELSE IF Request.target.type = "list" THEN Request.target.names ELSE {}
      /\ UNCHANGED <<call, asked, bareFalse, listed, replies, verdict, streamed, report>>
  BY DEF StartReply, Progress
<1>2. Request.target.names \subseteq Minions
  BY <1>1, CallIsTyped DEF Request
<1>3. /\ matched' \subseteq Request.target.names /\ matched' \subseteq Minions
      /\ OwedOf(matched') \subseteq Minions /\ Owed' = OwedOf(matched')
  BY <1>1, <1>2 DEF OwedOf, Owed, Request
<1>4. CASE none
  <2>1. /\ pc' = "returned" /\ err' = "execution" /\ acc' = acc
        /\ result' = [EmptyResult EXCEPT !.jid = TheJid, !.failure = TRUE]
    BY <1>4 DEF StartReply, TransportReturns
  <2>2. result' \in ResultType /\ Returned(result') = {} /\ result'.missing = {}
    BY <2>1, EmptyResultType, TheJidType DEF ResultType, EmptyResult, Returned, JidOrNone
  <2>3. Owed' = {}
    BY <1>1, <1>4 DEF Owed, OwedOf, Request
  <2>4. TypeOK'
    BY <1>1, <1>3, <2>1, <2>2 DEF TypeOK, Error
  <2>5. Progress' /\ Collected' /\ Reported'
    BY <1>1, <2>1 DEF Progress, Collected, Reported
  <2>6. Judged'
    BY <1>1 DEF NothingHeard, Judged
  <2>7. Accounted'
    BY <2>2, <2>3 DEF Accounted, Entered
  <2>8. QED
    BY <2>4, <2>5, <2>6, <2>7
<1>5. CASE ~none
  <2> DEFINE owed == OwedOf(matched')
  <2>1. /\ pc' = "waiting" /\ UNCHANGED <<result, err>>
        /\ acc' = IF owed = {} THEN SetJID(NewAccumulator, TheJid)
                  ELSE SetExpected(NewAccumulator, TheJid, owed)
    BY <1>1, <1>5 DEF StartReply, NothingHeard
  <2>2. owed \in SUBSET Minions /\ TheJid \in JidOrNone /\ NewAccumulator \in AccType
    BY <1>3, TheJidType, NewAccumulatorType DEF JidOrNone
  <2> HIDE DEF owed, none
  <2>3. acc' \in AccType /\ acc'.byMinion = NewAccumulator.byMinion
    BY <2>1, <2>2, SetJIDType, SetExpectedType, SetExpectedKeepsReturns
  <2>4. owed # {} => acc'.expectedKnown /\ acc'.expected = owed
    BY <2>1 DEF SetExpected, SetJID, NewAccumulator
  <2>5. Returned(acc') = {}
    BY <2>3 DEF Returned, NewAccumulator
  <2>6. TypeOK'
    BY <1>1, <1>3, <2>1, <2>3 DEF TypeOK
  <2>7. Progress' /\ Reported'
    BY <1>1, <2>1 DEF Progress, Reported, IsLocal, Request
  <2>8. Judged'
    BY <1>1 DEF NothingHeard, Judged
  <2>9. Collected'
    BY <1>1, <1>3, <2>1, <2>4, <2>5 DEF Collected, Entered, Request, owed
  <2>10. Accounted'
    BY <2>1, <1>1 DEF Progress, Accounted
  <2>11. QED
    BY <2>6, <2>7, <2>8, <2>9, <2>10
<1>6. QED
  BY <1>4, <1>5

LEMMA EventReturnInv ==
    ASSUME Inv, NEW m \in Minions, NEW reply \in Replies, EventReturn(m, reply)
    PROVE  Inv'
<1> USE DEF Inv
<1> DEFINE v   == StreamVerdictOf(reply)
           ret == JobEntry(reply, v)
<1>1. /\ pc = "waiting" /\ m \in Reached
      /\ replies' = [replies EXCEPT ![m] = reply] /\ verdict' = [verdict EXCEPT ![m] = v]
      /\ streamed' = streamed \cup {m} /\ acc' = AddMinion(acc, m, ret)
      /\ UNCHANGED <<pc, call, asked, bareFalse, listed, matched, result, err, report>>
  BY DEF EventReturn
<1>2. /\ call.transport = "rest" /\ IsLocal /\ call \in Calls /\ listed \subseteq bareFalse
      /\ reply \in Reply /\ reply # NoReply /\ m \in Request.target.names
  BY <1>1, NothingIsNothing, TransportRunAssumption DEF Progress, TypeOK, Collected, Reached
<1>3. v \in Verdict
  <2> DEFINE in == EventMinionReturn(reply)
             w  == NormalizeMinionReturn(bareFalse, NoFunction, in)
  <2>1. in \in MinionReturn
    BY <1>2, DecodedType
  <2>2. w \in [failure : FailureKind \cup {NoFailure}, retcode : 0..1, body : {in.body}]
    BY <2>1, RetcodeAgreesWithFailure
  <2>3. in.body \in Body
    BY <2>1 DEF MinionReturn
  <2> HIDE DEF w, in
  <2>4. w \in Verdict
    BY <2>2, <2>3 DEF Verdict
  <2>5. QED
    BY <2>4 DEF StreamVerdictOf, w, in
<1>4. v.failure = NoFailure => SaysNoFailure("event", listed, Request.function, reply)
  BY <1>2, NoSignIsLost, FewerListed DEF StreamVerdictOf
<1>5. ret \in Return /\ (ret.value = "ok" => v.failure = NoFailure)
  BY <1>3, JobEntryType
<1> HIDE DEF v, ret
<1>6. /\ acc' \in AccType
      /\ acc'.expectedKnown = acc.expectedKnown /\ acc'.expected = acc.expected
      /\ Returned(acc') = Returned(acc) \cup {m}
      /\ acc'.byMinion[m].value = ret.value
      /\ \A n \in Minions \ {m} : acc'.byMinion[n] = acc.byMinion[n]
  BY <1>1, <1>5, AddMinionSays DEF TypeOK
<1>7. /\ replies'[m] = reply /\ verdict'[m] = v
      /\ \A n \in Minions \ {m} : /\ replies'[n] = replies[n] /\ verdict'[n] = verdict[n]
                                  /\ n \in streamed' <=> n \in streamed
  BY <1>1 DEF TypeOK
<1>8. TypeOK'
  BY <1>1, <1>3, <1>6 DEF TypeOK
<1>9. Progress' /\ Reported'
  BY <1>1 DEF Progress, Reported, IsLocal, Request
<1>10. Judged'
  <2> SUFFICES ASSUME NEW n \in Minions
               PROVE  IF replies'[n] = NoReply THEN verdict'[n] = NoVerdict
                      ELSE verdict'[n] \in Verdict /\ Sound(n)'
    BY DEF Judged
  <2>1. CASE n = m
    BY <1>1, <1>2, <1>3, <1>4, <1>7, <2>1 DEF Sound, Via, Request
  <2>2. CASE n # m
    BY <1>1, <1>7, <2>2 DEF Judged, Sound, Via, Request
  <2>3. QED
    BY <2>1, <2>2
<1>11. Collected'
  <2>1. Entered(acc)'
    <3>1. ASSUME NEW n \in Returned(acc')
          PROVE  /\ n \in Request.target.names /\ replies'[n] # NoReply
                 /\ acc'.byMinion[n].value = "ok" => verdict'[n].failure = NoFailure
      <4>1. CASE n = m
        BY <1>2, <1>5, <1>6, <1>7, <4>1
      <4>2. CASE n # m
        BY <1>1, <1>6, <1>7, <3>1, <4>2 DEF Collected, Entered, Returned
      <4>3. QED
        BY <4>1, <4>2
    <3>2. QED
      BY <1>1, <3>1 DEF Entered, Request
  <2>2. QED
    BY <1>1, <1>6, <2>1 DEF Collected, Owed, OwedOf, Request
<1>12. Accounted'
  BY <1>1 DEF Progress, Accounted
<1>13. QED
  BY <1>8, <1>9, <1>10, <1>11, <1>12

LEMMA LookupInv ==
    ASSUME Inv, NEW answered \in SUBSET Minions, Lookup(answered)
    PROVE  Inv'
<1> USE DEF Inv
<1> DEFINE new == Unheard(answered)
           entries == [m \in Minions |-> IF m \in answered
                         THEN JobEntry(replies'[m], verdict'[m]) ELSE NoReturn]
           lookup  == [jid |-> TheJid, expected |-> IF Owed = {} THEN answered ELSE Owed,
                       byMinion |-> entries, missing |-> Owed \ answered, failure |-> FALSE]
<1>1. /\ pc = "waiting" /\ answered \subseteq Reached
      /\ streamed' = streamed \ answered
      /\ verdict' = [m \in Minions |-> IF m \in answered THEN RestVerdictOf(replies'[m])
                                       ELSE verdict[m]]
      /\ acc' = MergeResult(acc, lookup)
      /\ \/ /\ pc' = "returned" /\ result' = Result(acc')
            /\ err' = IF OK(Result(acc')) THEN "none" ELSE "execution"
         \/ UNCHANGED <<pc, result, err>>
      /\ UNCHANGED <<call, asked, bareFalse, listed, matched, report>>
  BY DEF Lookup, TransportReturns
<1>2. PICK given \in [new -> Replies] :
         replies' = [m \in Minions |-> IF m \in new THEN given[m] ELSE replies[m]]
  BY DEF Lookup
<1>3. /\ call.transport = "rest" /\ IsLocal /\ call \in Calls /\ listed \subseteq bareFalse
      /\ matched \subseteq Request.target.names /\ Entered(acc) /\ acc \in AccType
      /\ Owed # {} => acc.expectedKnown /\ acc.expected = Owed
  BY <1>1 DEF Progress, TypeOK, Collected
<1>4. Request.target.names \subseteq Minions /\ Request.fullReturn \in BOOLEAN
  BY <1>3, CallIsTyped DEF Request
<1>5. answered \subseteq Request.target.names /\ Owed \subseteq Minions
  BY <1>1, <1>3, <1>4 DEF Reached, Owed, OwedOf
<1>6. /\ replies' \in [Minions -> Replies \cup {NoReply}]
      /\ \A m \in answered : replies'[m] \in Replies
      /\ \A m \in Minions : replies[m] # NoReply => replies'[m] = replies[m]
      /\ \A m \in Minions \ answered : replies'[m] = replies[m]
  BY <1>2 DEF TypeOK, Unheard
<1>7. ASSUME NEW m \in answered
      PROVE  /\ verdict'[m] = RestVerdictOf(replies'[m]) /\ verdict'[m] \in Verdict
             /\ replies'[m] # NoReply
             /\ verdict'[m].failure = NoFailure =>
                  /\ StateFailure(Request.function, verdict'[m].body) = NoFailure
                  /\ SaysNoFailure("rest", listed, Request.function, replies'[m])
  <2>1. replies'[m] \in Replies /\ replies'[m] \in Reply
    BY <1>6, TransportRunAssumption
  <2>2. verdict'[m] = RestVerdictOf(replies'[m])
    BY <1>1
  <2> DEFINE v == RestVerdict(bareFalse, Request.function, Request.fullReturn, replies'[m])
  <2>3. /\ v \in Verdict
        /\ v.failure = NoFailure => StateFailure(Request.function, v.body) = NoFailure
    BY <1>4, <2>1, VerdictIsSound
  <2>4. v.failure = NoFailure => SaysNoFailure("rest", listed, Request.function, replies'[m])
    BY <1>3, <1>4, <2>1, NoSignIsLost, FewerListed
  <2>5. verdict'[m] = v /\ replies'[m] # NoReply
    BY <2>1, <2>2, NothingIsNothing DEF RestVerdictOf
  <2> HIDE DEF v
  <2>6. QED
    BY <2>2, <2>3, <2>4, <2>5
<1>8. \A m \in Minions \ answered : /\ verdict'[m] = verdict[m]
                                    /\ m \in streamed' <=> m \in streamed
  BY <1>1
<1>9. /\ entries \in [Minions -> Entry]
      /\ \A m \in Minions : entries[m] # NoReturn <=> m \in answered
      /\ \A m \in answered : /\ entries[m].jid \in Jids
                             /\ entries[m].value = "ok" => verdict'[m].failure = NoFailure
  BY <1>7, JobEntryType DEF Entry
<1> HIDE DEF entries
<1>10. /\ lookup \in ResultType /\ Returned(lookup) = answered
       /\ \A m \in answered : lookup.byMinion[m] = entries[m]
       /\ Owed # {} => lookup.expected = Owed
  <2>1. (IF Owed = {} THEN answered ELSE Owed) \subseteq Minions /\ Owed \ answered \subseteq Minions
    BY <1>5
  <2>2. lookup \in ResultType
    BY <1>9, <2>1, TheJidType DEF ResultType, JidOrNone
  <2>3. Returned(lookup) = answered
    BY <1>9 DEF Returned
  <2>4. QED
    BY <2>2, <2>3
<1> HIDE DEF lookup
<1>11. /\ acc' \in AccType
       /\ Returned(acc') = Returned(acc) \cup answered
       /\ \A m \in answered : acc'.byMinion[m] = entries[m]
       /\ \A m \in Minions \ answered : acc'.byMinion[m] = acc.byMinion[m]
       /\ Owed # {} => acc'.expectedKnown /\ acc'.expected = Owed
  <2>1. \A m \in Returned(lookup) : lookup.byMinion[m].jid \in Jids
    BY <1>9, <1>10
  <2>2. acc' \in AccType
    BY <1>1, <1>3, <1>10, <2>1, MergeResultType
  <2>3. /\ Returned(acc') = Returned(acc) \cup answered
        /\ \A m \in answered : acc'.byMinion[m] = entries[m]
    BY <1>1, <1>3, <1>10, ReturnedOfMerge
  <2>4. /\ \A m \in Minions \ answered : acc'.byMinion[m] = acc.byMinion[m]
        /\ lookup.expected # {} => acc'.expectedKnown /\ acc'.expected = lookup.expected
    BY <1>1, <1>3, <1>10, MergeSays
  <2>5. QED
    BY <1>10, <2>2, <2>3, <2>4
<1>12. /\ Entered(acc)' /\ Owed' = Owed
  <2>1. ASSUME NEW m \in Returned(acc')
        PROVE  /\ m \in Request.target.names /\ replies'[m] # NoReply
               /\ acc'.byMinion[m].value = "ok" => verdict'[m].failure = NoFailure
    <3>1. CASE m \in answered
      BY <1>5, <1>7, <1>9, <1>11, <3>1
    <3>2. CASE m \notin answered
      <4>1. m \in Returned(acc) /\ m \in Minions
        BY <1>11, <2>1, <3>2 DEF Returned
      <4>2. QED
        BY <1>3, <1>6, <1>8, <1>11, <3>2, <4>1 DEF Entered
    <3>3. QED
      BY <3>1, <3>2
  <2>2. QED
    BY <1>1, <2>1 DEF Entered, Owed, OwedOf, Request
<1>13. /\ pc' = "returned" => /\ result' \in ResultType /\ result' # NoResult
                              /\ Entered(result)' /\ MissesOwed(result)'
       /\ err' \in Error /\ result' \in ResultType \cup {NoResult}
  <2>1. /\ Result(acc') \in ResultType /\ Result(acc') # NoResult
        /\ Returned(Result(acc')) = Returned(acc')
        /\ \A m \in Returned(acc') : Result(acc').byMinion[m].value = acc'.byMinion[m].value
        /\ Result(acc').missing = Result(acc').expected \ Returned(acc')
    BY <1>11, ResultInType, ResultIsFaithful, NothingIsNothing
  <2>2. Owed # {} => Result(acc').expected = Owed
    BY <1>11 DEF Result
  <2>3. CASE pc' = "returned"
    <3>1. result' = Result(acc') /\ err' \in Error
      BY <1>1, <2>3 DEF Error
    <3>2. Entered(result)' /\ MissesOwed(result)'
      BY <1>12, <2>1, <2>2, <3>1 DEF Entered, MissesOwed
    <3>3. QED
      BY <2>1, <3>1, <3>2
  <2>4. CASE pc' # "returned"
    BY <1>1, <2>4 DEF TypeOK
  <2>5. QED
    BY <2>3, <2>4
<1>14. TypeOK'
  <2>1. verdict' \in [Minions -> Verdict \cup {NoVerdict}]
    BY <1>1, <1>7 DEF TypeOK
  <2>2. QED
    BY <1>1, <1>6, <1>11, <1>13, <2>1 DEF TypeOK
<1>15. Progress' /\ Reported'
  BY <1>1, <1>13 DEF Progress, Reported, IsLocal, Request
<1>16. Judged'
  <2> SUFFICES ASSUME NEW m \in Minions
               PROVE  IF replies'[m] = NoReply THEN verdict'[m] = NoVerdict
                      ELSE verdict'[m] \in Verdict /\ Sound(m)'
    BY DEF Judged
  <2>1. CASE m \in answered
    BY <1>1, <1>3, <1>7, <2>1 DEF Sound, Via, Request
  <2>2. CASE m \notin answered
    BY <1>1, <1>6, <1>8, <2>2 DEF Judged, Sound, Via, Request
  <2>3. QED
    BY <2>1, <2>2
<1>17. Collected'
  BY <1>1, <1>3, <1>11, <1>12 DEF Collected, Request
<1>18. Accounted'
  <2>1. CASE pc' = "returned"
    BY <1>13, <2>1 DEF Accounted, MissesOwed
  <2>2. CASE pc' # "returned"
    BY <1>1, <2>2 DEF Progress, Accounted
  <2>3. QED
    BY <2>1, <2>2
<1>19. QED
  BY <1>14, <1>15, <1>16, <1>17, <1>18

LEMMA ConcludeInv ==
    ASSUME Inv, Conclude
    PROVE  Inv'
<1> USE DEF Inv
<1>1. /\ pc = "returned" /\ pc' = "done"
      /\ err' = IF call.op = "run" THEN RunError ELSE err
      /\ report' = [exit     |-> ExitStatus(err'),
                    output   |-> BuildOutput(result),
                    resolved |-> IF err = "none" THEN ResponsiveMinions ELSE {},
                    states   |-> StatesRun(result, err')]
      /\ UNCHANGED <<call, asked, bareFalse, listed, matched, replies, acc, verdict, streamed, result>>
  BY DEF Conclude
<1>2. /\ err' \in Error
      /\ err' = "none" => result # NoResult /\ (call.op = "run" => OK(result))
      /\ err = "none" => result # NoResult
  BY <1>1 DEF Progress, RunError, TypeOK, Error
<1>3. TypeOK'
  BY <1>1, <1>2 DEF TypeOK
<1>4. Progress'
  BY <1>1 DEF Progress
<1>5. Judged' /\ Collected' /\ Accounted'
  BY <1>1 DEF Judged, Sound, Via, Collected, Accounted, Entered, Owed, OwedOf, IsLocal, Request
<1>6. Reported'
  <2>1. /\ report'.exit = ExitStatus(err') /\ report'.output = BuildOutput(result)
        /\ report'.states = StatesRun(result, err')
        /\ report'.resolved # {} => result # NoResult /\ report'.resolved = ResponsiveMinions
    BY <1>1, <1>2
  <2>2. /\ ExitStatus(err)' = ExitStatus(err') /\ ResponsiveMinions' = ResponsiveMinions
        /\ StatesRun(result, err)' = StatesRun(result, err')
    BY <1>1 DEF ExitStatus, ResponsiveMinions, StatesRun, IsLocal, Request
  <2>3. QED
    BY <1>1, <1>2, <2>1, <2>2 DEF Reported
<1>7. QED
  BY <1>3, <1>4, <1>5, <1>6

LEMMA NextInv == Inv /\ [Next]_vars => Inv'
<1> SUFFICES ASSUME Inv, [Next]_vars PROVE Inv'
  OBVIOUS
<1>1. ASSUME NEW f \in Registrable, RegisterBareFalseModule(f) \/ UnregisterBareFalseModule(f)
      PROVE  Inv'
  BY <1>1, QuietInv, TransportRunAssumption
     DEF RegisterBareFalseModule, UnregisterBareFalseModule, Inv, TypeOK
<1>2. CASE Finished \/ UNCHANGED vars
  BY <1>2, QuietInv DEF Finished, vars, Inv, TypeOK
<1>3. CASE Next
  BY <1>1, <1>2, <1>3, AskInv, PayloadInv, NormalizeLocalInv, MinionsFrameInv, ReturnFrameInv,
     HelperExitsInv, JobEndsInv, StartReplyInv, EventReturnInv, LookupInv, ConcludeInv DEF Next
<1>4. QED
  BY <1>2, <1>3

LEMMA InvHolds == Spec => []Inv
  BY InitInv, NextInv, PTL DEF Spec
------------------------------------------------------------------------------
\* Theorems.

\* Every variable keeps to the values the code's fields can hold.
THEOREM TypeCorrect == Spec => []TypeOK
  BY InvHolds, PTL DEF Inv

LEMMA EnteredSucceeded ==
    ASSUME Inv, NEW m \in Minions, replies[m] # NoReply, verdict[m].failure = NoFailure
    PROVE  Succeeded(m)
  BY DEF Inv, Judged, Sound, Succeeded

\* An exit status of 0 means that every minion answered and showed no sign of failure
\* that the code heeds, for every request, target, reply and change of the registry,
\* through a REST job, a direct REST call or the helper (classify.go, minion.go,
\* normalize.go, job.go, events.go, python.go, client.go and cmd/brine/main.go
\* together).
THEOREM ExitZeroIsHonest == Spec => []ExitZeroMeansEveryMinionSucceeded
<1>1. Inv => ExitZeroMeansEveryMinionSucceeded
  <2> SUFFICES ASSUME Inv, pc = "done", call.op = "run", IsLocal, report.exit = 0
               PROVE  /\ report.output.ok /\ report.output.failed = {}
                      /\ \A m \in Owed \cup Returned(result) : Succeeded(m)
    BY DEF ExitZeroMeansEveryMinionSucceeded
  <2>1. /\ result # NoResult /\ OK(result) /\ report.output = BuildOutput(result)
    BY DEF Inv, Reported, ExitStatus
  <2>2. /\ result.missing = {}
        /\ \A m \in Returned(result) : result.byMinion[m].value = "ok"
    BY <2>1 DEF OK
  <2>3. report.output.ok /\ report.output.failed = {}
    BY <2>1, <2>2 DEF BuildOutput, Failures
  <2>4. Owed \subseteq Returned(result) /\ Entered(result)
    BY <2>1, <2>2 DEF Inv, Accounted
  <2>5. \A m \in Owed \cup Returned(result) : Succeeded(m)
    BY <2>2, <2>4, EnteredSucceeded DEF Entered, Returned
  <2>6. QED
    BY <2>3, <2>5
<1>2. QED
  BY <1>1, InvHolds, PTL

\* No minion is lost between the target and the result (normalize.go,
\* applyExplicitTargetExpected; brine_salt_bridge.py, expected_minions; rest.go and
\* python.go, responsiveMinions).
THEOREM NobodyIsLost == Spec => []EveryTargetedMinionIsAccountedFor
<1>1. Inv => EveryTargetedMinionIsAccountedFor
  <2> SUFFICES ASSUME Inv, pc = "done", NEW m \in report.resolved
               PROVE  m \in Request.target.names /\ Succeeded(m)
    BY DEF EveryTargetedMinionIsAccountedFor, Inv, Accounted
  <2>1. result # NoResult /\ m \in Returned(result) /\ verdict[m].failure = NoFailure
    BY DEF Inv, Reported, ResponsiveMinions
  <2>2. m \in Minions /\ m \in Request.target.names /\ replies[m] # NoReply
    BY <2>1 DEF Inv, Accounted, Entered, Returned
  <2>3. QED
    BY <2>1, <2>2, EnteredSucceeded
<1>2. QED
  BY <1>1, InvHolds, PTL

\* A nil error of states.Run stands for every minion (states/run.go, Run;
\* states/states.go, DecodeMinion).
THEOREM StatesRunIsComplete == Spec => []StatesRunTellsAll
<1>1. Inv => StatesRunTellsAll
  <2> SUFFICES ASSUME Inv, pc = "done", call.op = "run", report.states.ok, NEW m \in Owed
               PROVE  /\ m \in report.states.decoded
                      /\ m \notin streamed => StateReturnOK(verdict[m].body)
    BY DEF StatesRunTellsAll
  <2>1. report.states = StatesRun(result, err)
    BY DEF Inv, Reported
  <2> DEFINE decoded  == {n \in Returned(result) : Decodes(verdict[n].body)}
             complete == err = "none" /\ decoded = Returned(result)
  <2>2. /\ result # NoResult /\ IsLocal /\ IsStateFunction(Request.function)
        /\ complete /\ report.states.decoded = decoded
    <3>1. ~(result = NoResult \/ ~(IsLocal /\ IsStateFunction(Request.function)))
      BY <2>1 DEF StatesRun
    <3>2. report.states = [decoded |-> decoded, failed |-> Failures(result), ok |-> complete]
      BY <2>1, <3>1 DEF StatesRun
    <3> HIDE DEF decoded, complete
    <3>3. QED
      BY <3>1, <3>2
  <2>3. OK(result) /\ Owed \subseteq Returned(result) /\ Entered(result)
    BY <2>2 DEF Inv, Reported, Accounted, OK
  <2>4. /\ m \in report.states.decoded /\ Decodes(verdict[m].body)
        /\ verdict[m].failure = NoFailure /\ replies[m] # NoReply /\ m \in Minions
    BY <2>2, <2>3 DEF OK, Entered, Returned
  <2>5. m \notin streamed => StateFailure(Request.function, verdict[m].body) = NoFailure
    BY <2>4 DEF Inv, Judged, Sound
  <2>6. QED
    BY <2>2, <2>4, <2>5, StateFailureKind DEF Decodes, HasFailedChunk, IsStateReturn, StateReturnOK
<1>2. QED
  BY <1>1, InvHolds, PTL

\* A malformed state return is always offered to the retry predicate
\* (classify.go, StateFailure; states/states.go, MalformedStateRetryPredicate).
THEOREM MalformedIsRetried == Spec => []MalformedStateIsRetried
<1>1. Inv => MalformedStateIsRetried
  <2> SUFFICES ASSUME Inv, NEW m \in Minions \ streamed, verdict[m] # NoVerdict,
                      IsStateFunction(Request.function), IsMalformedState(verdict[m].body)
               PROVE  verdict[m].failure # NoFailure
    BY DEF MalformedStateIsRetried, MalformedStateRetryPredicate
  <2>1. replies[m] # NoReply /\ Sound(m)
    BY DEF Inv, Judged
  <2>2. QED
    BY <2>1, StateFailureKind DEF Sound
<1>2. QED
  BY <1>1, InvHolds, PTL

------------------------------------------------------------------------------
\* What Salt is asked.

\* A duration that does not come within a second of the largest is rounded up to
\* whole seconds.
LEMMA CeilCovers ==
    ASSUME NEW d \in Duration, d >= 0
    PROVE  Covers(DurationSecondsCeil(d), d)
<1> DEFINE n == d + Second - 1
           q == n \div Second
           p == q * Second
<1>1. /\ Second \in Nat \ {0} /\ MaxDuration \in Nat /\ d \in Nat /\ n \in Nat
  BY DurationAssumption DEF Duration
<1>2. q \in Nat /\ p \in Nat /\ p <= n /\ n < p + Second
  BY <1>1
<1>3. CASE d = 0
  BY <1>1, <1>3 DEF Covers, DurationSecondsCeil
<1>4. CASE d > 0 /\ d <= MaxDuration - Second
  <2>1. DurationSecondsCeil(d) = q
    BY <1>1, <1>4 DEF DurationSecondsCeil, Wrapped, Quotient
  <2> HIDE DEF q
  <2>2. d <= p /\ p < d + Second
    BY <1>1, <1>2, <1>4
  <2>3. QED
    BY <2>1, <2>2 DEF Covers
<1>5. CASE ~(d <= MaxDuration - Second)
  BY <1>5 DEF Covers
<1>6. QED
  BY <1>1, <1>3, <1>4, <1>5

\* One entry asks what a request says, but for the time a minion is given.
Names(entry, request) ==
    /\ entry.function = request.function /\ entry.target = request.target
    /\ request.kind = "local" =>
         /\ request.batch.count > 0 =>
              entry.batch = [count |-> request.batch.count, percent |-> 0]
         /\ request.batch.percent > 0 =>
              entry.batch = [count |-> 0, percent |-> request.batch.percent]

LEMMA BatchesAgree ==
    ASSUME NEW request \in RequestType, Valid(request)
    PROVE  /\ RestBatch(request.batch) = PythonBatch(request.batch)
           /\ request.batch.count > 0 =>
                RestBatch(request.batch) = [count |-> request.batch.count, percent |-> 0]
           /\ request.batch.percent > 0 =>
                RestBatch(request.batch) = [count |-> 0, percent |-> request.batch.percent]
  BY DEF RequestType, Valid, ValidBatch, RestBatch, PythonBatch

LEMMA LowstateAsks ==
    ASSUME NEW request \in RequestType, Valid(request), request.kind # "lowstate"
    PROVE  /\ Len(LowstatePayload(request)) = 1
           /\ Names(LowstatePayload(request)[1], request)
           /\ Covers(LowstatePayload(request)[1].timeout, request.moduleTimeout)
           /\ Covers(LowstatePayload(request)[1].gather, request.gatherTimeout)
<1>1. /\ request.moduleTimeout \in Duration /\ request.moduleTimeout >= 0
      /\ request.gatherTimeout \in Duration /\ request.gatherTimeout >= 0
  BY DEF RequestType, Valid
<1> DEFINE entry == [Asked(request.kind, request.function, request.target) EXCEPT
                        !.batch      = RestBatch(request.batch),
                        !.timeout    = DurationSecondsCeil(request.moduleTimeout),
                        !.gather     = DurationSecondsCeil(request.gatherTimeout),
                        !.fullReturn = request.fullReturn]
<1>2. LowstatePayload(request) = << entry >>
  BY DEF LowstatePayload
<1>3. /\ entry.function = request.function /\ entry.target = request.target
      /\ entry.batch = RestBatch(request.batch)
      /\ entry.timeout = DurationSecondsCeil(request.moduleTimeout)
      /\ entry.gather = DurationSecondsCeil(request.gatherTimeout)
  BY DEF Asked
<1> HIDE DEF entry
<1>4. QED
  BY <1>1, <1>2, <1>3, BatchesAgree, CeilCovers DEF Names

LEMMA BridgeAsks ==
    ASSUME NEW request \in RequestType, Valid(request), NEW older \in BOOLEAN
    PROVE  /\ Len(BridgePayload(request, older)) = 1
           /\ Names(BridgePayload(request, older)[1], request)
           /\ request.kind = "local" =>
                Covers(BridgePayload(request, older)[1].timeout, request.moduleTimeout)
<1>1. request.moduleTimeout \in Duration /\ request.moduleTimeout >= 0
  BY DEF RequestType, Valid
<1> DEFINE plain == Asked(request.kind, request.function, request.target)
           full  == [plain EXCEPT !.batch      = PythonBatch(request.batch),
                                  !.timeout    = DurationSecondsCeil(request.moduleTimeout),
                                  !.fullReturn = request.fullReturn /\ ~older]
<1>2. BridgePayload(request, older) = << IF request.kind # "local" THEN plain ELSE full >>
  BY DEF BridgePayload
<1>3. /\ plain.function = request.function /\ plain.target = request.target
      /\ full.function = request.function /\ full.target = request.target
      /\ full.batch = PythonBatch(request.batch)
      /\ full.timeout = DurationSecondsCeil(request.moduleTimeout)
  BY DEF Asked
<1> HIDE DEF plain, full
<1>4. QED
  BY <1>1, <1>2, <1>3, BatchesAgree, CeilCovers DEF Names

\* The first entry of what starts a job, over either transport.
LEMMA StartAsks ==
    ASSUME Request \in RequestType, Valid(Request), IsLocal, NEW older \in BOOLEAN
    PROVE  /\ Names(AsyncLocalPayload[1], Request)
           /\ Covers(AsyncLocalPayload[1].timeout, Request.moduleTimeout)
           /\ Covers(AsyncLocalPayload[1].gather, Request.gatherTimeout)
           /\ Names(BridgeStartPayload(older)[1], Request)
           /\ \/ BridgeStartPayload(older)[1].timeout = 0
              \/ Covers(BridgeStartPayload(older)[1].timeout, Request.moduleTimeout)
<1> DEFINE rest   == LowstatePayload(Request)[1]
           bridge == BridgePayload(Request, TRUE)[1]
<1>1. /\ AsyncLocalPayload[1] = [rest EXCEPT !.client = "local_async"]
      /\ BridgeStartPayload(older)[1] =
           [bridge EXCEPT !.client = "local_async", !.timeout = IF older THEN 0 ELSE @]
  BY DEF AsyncLocalPayload, BridgeStartPayload
<1>2. /\ Names(rest, Request) /\ Names(bridge, Request)
      /\ Covers(rest.timeout, Request.moduleTimeout)
      /\ Covers(rest.gather, Request.gatherTimeout)
      /\ Covers(bridge.timeout, Request.moduleTimeout)
  BY LowstateAsks, BridgeAsks DEF IsLocal
<1> HIDE DEF rest, bridge
<1>3. QED
  BY <1>1, <1>2 DEF Names

LEMMA AskedStep ==
    ASSUME Inv, SaltIsAskedWhatWasRequested, [Next]_vars
    PROVE  SaltIsAskedWhatWasRequested'
<1> USE DEF Inv
<1>1. CASE UNCHANGED <<call, asked>>
  BY <1>1 DEF SaltIsAskedWhatWasRequested, Request, IsLocal
<1>2. CASE PostDirect \/ \E older \in BOOLEAN : StartJob(older) \/ StartHelper(older)
  <2> SUFFICES ASSUME call.op # "resolve", Request.kind # "lowstate"
               PROVE  /\ Names(asked'[1], Request)
                      /\ IsLocal => \/ /\ call.transport = "python" /\ call.op = "start"
                                       /\ asked'[1].timeout = 0
                                    \/ Covers(asked'[1].timeout, Request.moduleTimeout)
                      /\ call.transport = "rest" =>
                           Covers(asked'[1].gather, Request.gatherTimeout)
    BY <1>2 DEF SaltIsAskedWhatWasRequested, Names, Request, IsLocal,
                PostDirect, StartJob, StartHelper
  <2>1. pc = "accepted" /\ RefusedAs = "none"
    BY <1>2 DEF PostDirect, StartJob, StartHelper
  <2>2. call \in CallType /\ Request \in RequestType
    BY <2>1, CallIsTyped DEF Progress, Request
  <2>3. Valid(Request) /\ (call.op = "start" => IsLocal)
    BY <2>1 DEF RefusedAs
  <2>4. CASE PostDirect
    BY <2>2, <2>3, <2>4, LowstateAsks DEF PostDirect
  <2>5. ASSUME NEW older \in BOOLEAN, StartJob(older)
        PROVE  IsLocal /\ (call.transport = "python" => call.op = "start")
               /\ asked' = IF call.transport = "rest" THEN AsyncLocalPayload
                           ELSE BridgeStartPayload(older)
    BY <2>3, <2>5 DEF StartJob, ViaJob
  <2>6. ASSUME NEW older \in BOOLEAN, StartHelper(older)
        PROVE  call.transport = "python" /\ asked' = BridgePayload(Request, older)
    BY <2>6 DEF StartHelper
  <2>7. call.transport \in {"rest", "python"}
    BY <2>2 DEF CallType
  <2>8. QED
    BY <1>2, <2>2, <2>3, <2>4, <2>5, <2>6, <2>7, StartAsks, BridgeAsks DEF IsLocal
<1>3. ASSUME NEW c \in Calls, Submit(c) PROVE asked' = << >>
  BY <1>3 DEF Submit, Progress
<1>4. CASE ~(UNCHANGED <<call, asked>> \/ \E c \in Calls : Submit(c))
  <2>1. PostDirect \/ \E older \in BOOLEAN : StartJob(older) \/ StartHelper(older)
    BY <1>4 DEF Next, vars, RegisterBareFalseModule, UnregisterBareFalseModule, Refuse,
                NormalizeLocal, NormalizeScalar, NormalizeBridgeScalar, PostFails,
                MinionsFrame, ReturnFrame, HelperExits, HelperFails, StartFails, StartReply,
                EventReturn, Lookup, WaitEnds, Conclude, Finished
  <2>2. QED
    BY <1>2, <2>1
<1>5. QED
  BY <1>1, <1>3, <1>4 DEF SaltIsAskedWhatWasRequested

\* What Salt is asked is what was requested, for every batch and duration a
\* request can have (request.go, Validate; rest.go, lowstatePayload and
\* asyncLocalPayload; python.go, makeBridgeRequest).
THEOREM RequestsAreConveyed == Spec => []SaltIsAskedWhatWasRequested
<1>1. Init => SaltIsAskedWhatWasRequested
  BY DEF Init, SaltIsAskedWhatWasRequested
<1>2. Inv /\ SaltIsAskedWhatWasRequested /\ [Next]_vars => SaltIsAskedWhatWasRequested'
  BY AskedStep
<1>3. QED
  BY <1>1, <1>2, InvHolds, PTL DEF Spec
==============================================================================
