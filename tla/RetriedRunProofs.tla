--------------------------- MODULE RetriedRunProofs ---------------------------
(***************************************************************************)
(* Theorems about RetriedRun, for any minions, observers, predicate,       *)
(* number of attempts and answers of the transport.                        *)
(***************************************************************************)
EXTENDS RetriedRun, FiniteSetTheorems, TLAPS

------------------------------------------------------------------------------
(***************************************************************************)
(* The inductive invariant: the middleware's part, and the client's.       *)
(***************************************************************************)
RetryTypes ==
    /\ rpc \in {"first", "loop", "delay", "attempt", "returned"}
    /\ attempt \in Nat \ {0}
    /\ merged \in R!Results(Minions)
    /\ herr \in {"none", "execution", "transport", "cancelled"}
    /\ latest \in [Minions -> R!Answers \cup {"none", "absent"}]
    /\ started \in [Minions -> Nat]
    /\ exhausted \subseteq Minions

Failed(r) == R!Of(R!Failures(r))

\* The merged result says the same of each minion as the latest answer about it.
Known ==
    \A m \in Minions :
        /\ latest[m] \in {"ok", "none"} <=> m \notin Failed(merged)
        /\ latest[m] = "ok" => m \in DOMAIN merged.by /\ merged.by[m] = "ok"

\* Where the attempts are: what is retried, and how often it has been.
Attempting ==
    /\ rpc = "first" => /\ attempt = 1 /\ exhausted = {} /\ merged = R!NoResult
                        /\ \A m \in Minions : started[m] = 0 /\ latest[m] = "none"
    /\ rpc \in {"loop", "delay", "attempt"} =>
         /\ attempt > 1 /\ attempt <= MaxAttempts + 1 /\ exhausted = {}
         /\ rpc # "loop" => attempt <= MaxAttempts
         /\ retry = R!Retryable(merged)
         /\ \A m \in R!Of(retry) :
              started[m] = IF rpc = "attempt" THEN attempt - 1 ELSE attempt - 2
    /\ rpc # "returned" => herr = "none"
    /\ attempt > 1 /\ merged.failure => Failed(merged) # {}
    /\ rpc = "returned" /\ attempt > 1 =>
         /\ herr = "none" => R!OK(merged)
         /\ herr = "execution" => ~R!OK(merged)

RetryInv == RetryTypes /\ Known /\ Attempting /\ ExhaustedAfterAllAttempts

\* What Run returns is made of what the middleware returned.
Concluded ==
    /\ pc = "emit" => resume \in {"handler", "returned"}
    /\ pc = "returned" \/ (pc = "emit" /\ resume = "returned") =>
         /\ err = "none" => rpc = "returned" /\ herr = "none" /\ R!OK(merged)
         /\ err = "execution" => rpc = "returned" /\ (herr = "execution" \/ ~R!OK(merged))

Inv == RetryInv /\ Concluded
------------------------------------------------------------------------------
\* Results.

LEMMA ResultsType ==
    ASSUME NEW target, NEW r
    PROVE  r \in R!Results(target) <=>
             \E D \in SUBSET target : \E by \in [D -> R!Answers] :
                \E missing \in SUBSET target, failure \in BOOLEAN :
                    r = [by |-> by, missing |-> missing, failure |-> failure]
  BY DEF R!Results, R!Partial

LEMMA ResultFields ==
    ASSUME NEW target, NEW r \in R!Results(target)
    PROVE  /\ DOMAIN r.by \subseteq target /\ r.by \in [DOMAIN r.by -> R!Answers]
           /\ r.missing \subseteq target /\ r.failure \in BOOLEAN
           /\ r = [by |-> r.by, missing |-> r.missing, failure |-> r.failure]
<1>1. PICK D \in SUBSET target : \E by \in [D -> R!Answers] :
          \E missing \in SUBSET target, failure \in BOOLEAN :
              r = [by |-> by, missing |-> missing, failure |-> failure]
  BY ResultsType
<1>2. PICK by \in [D -> R!Answers] : \E missing \in SUBSET target, failure \in BOOLEAN :
              r = [by |-> by, missing |-> missing, failure |-> failure]
  BY <1>1
<1>3. PICK missing \in SUBSET target, failure \in BOOLEAN :
              r = [by |-> by, missing |-> missing, failure |-> failure]
  BY <1>2
<1>4. r.by = by /\ r.missing = missing /\ r.failure = failure
  BY <1>3
<1>5. QED
  BY <1>3, <1>4

LEMMA MakesResult ==
    ASSUME NEW target, NEW D \in SUBSET target, NEW by \in [D -> R!Answers],
           NEW missing \in SUBSET target, NEW failure \in BOOLEAN
    PROVE  [by |-> by, missing |-> missing, failure |-> failure] \in R!Results(target)
  BY ResultsType

LEMMA FailedOf ==
    ASSUME NEW r, NEW m
    PROVE  /\ m \in Failed(r) <=> \/ m \in DOMAIN r.by /\ r.by[m] \in R!Failing
                                  \/ m \in r.missing
           /\ m \in R!Of(R!Retryable(r)) <=>
                \/ m \in DOMAIN r.by /\ r.by[m] \in R!Failing /\ r.by[m] \in Selected
                \/ m \in r.missing /\ "absent" \in Selected
<1>1. /\ \A f \in R!Failures(r) :
           \/ f[1] \in DOMAIN r.by /\ r.by[f[1]] \in R!Failing /\ f[2] = r.by[f[1]]
           \/ f[1] \in r.missing /\ f[2] = "absent"
      /\ m \in DOMAIN r.by /\ r.by[m] \in R!Failing =>
           \E f \in R!Failures(r) : f[1] = m /\ f[2] = r.by[m]
      /\ m \in r.missing => \E f \in R!Failures(r) : f[1] = m /\ f[2] = "absent"
  <2>1. \A f \in R!Failures(r) :
           \/ f[1] \in DOMAIN r.by /\ r.by[f[1]] \in R!Failing /\ f[2] = r.by[f[1]]
           \/ f[1] \in r.missing /\ f[2] = "absent"
    BY DEF R!Failures
  <2>2. ASSUME m \in DOMAIN r.by, r.by[m] \in R!Failing
        PROVE  \E f \in R!Failures(r) : f[1] = m /\ f[2] = r.by[m]
    <3>1. <<m, r.by[m]>> \in R!Failures(r)
      BY <2>2 DEF R!Failures
    <3>2. QED
      BY <3>1
  <2>3. ASSUME m \in r.missing
        PROVE  \E f \in R!Failures(r) : f[1] = m /\ f[2] = "absent"
    <3>1. <<m, "absent">> \in R!Failures(r)
      BY <2>3 DEF R!Failures
    <3>2. QED
      BY <3>1
  <2>4. QED
    BY <2>1, <2>2, <2>3
<1>2. m \in Failed(r) <=> \E f \in R!Failures(r) : f[1] = m
  BY DEF Failed, R!Of
<1>3. m \in R!Of(R!Retryable(r)) <=> \E f \in R!Failures(r) : f[2] \in Selected /\ f[1] = m
  BY DEF R!Of, R!Retryable
<1>4. QED
  BY <1>1, <1>2, <1>3

LEMMA NoFailures ==
    ASSUME NEW r PROVE R!Failures(r) = {} <=> Failed(r) = {}
<1>1. \A f \in R!Failures(r) : f[1] \in Failed(r)
  BY DEF Failed, R!Of
<1>2. \A m \in Failed(r) : \E f \in R!Failures(r) : TRUE
  BY DEF Failed, R!Of
<1>3. QED
  BY <1>1, <1>2

LEMMA NoResultSays ==
    /\ R!NoResult \in R!Results(Minions)
    /\ Failed(R!NoResult) = {} /\ R!NoResult.failure = FALSE
<1>1. << >> \in [{} -> R!Answers] /\ DOMAIN << >> = {}
  OBVIOUS
<1>2. R!NoResult \in R!Results(Minions)
  BY <1>1, MakesResult DEF R!NoResult
<1>3. R!NoResult.by = << >> /\ R!NoResult.missing = {} /\ R!NoResult.failure = FALSE
  BY DEF R!NoResult
<1>4. QED
  BY <1>1, <1>2, <1>3, FailedOf

\* Merging the answers of a retry, which are of minions that failed, into a result.
LEMMA MergeSays ==
    ASSUME NEW dst \in R!Results(Minions), NEW target \in SUBSET Minions,
           NEW src \in R!Answered(target)
    PROVE  LET r == R!Merge(dst, src) IN
           /\ r \in R!Results(Minions)
           /\ \A m \in Minions :
                /\ m \in DOMAIN r.by <=> m \in DOMAIN src.by \/ m \in DOMAIN dst.by
                /\ m \in DOMAIN src.by => r.by[m] = src.by[m]
                /\ m \in DOMAIN dst.by \ DOMAIN src.by => r.by[m] = dst.by[m]
                /\ m \in r.missing <=> m \in src.missing \/ m \in dst.missing \ DOMAIN src.by
           /\ r.failure => Failed(r) # {}
<1>1. /\ src \in R!Results(target) /\ src.missing \cap DOMAIN src.by = {}
  BY DEF R!Answered
<1>2. /\ DOMAIN src.by \subseteq target /\ src.by \in [DOMAIN src.by -> R!Answers]
      /\ src.missing \subseteq target
      /\ DOMAIN dst.by \subseteq Minions /\ dst.by \in [DOMAIN dst.by -> R!Answers]
      /\ dst.missing \subseteq Minions /\ dst.failure \in BOOLEAN
      /\ dst = [by |-> dst.by, missing |-> dst.missing, failure |-> dst.failure]
  BY <1>1, ResultFields
<1> DEFINE by      == R!Over(src.by, dst.by)
           missing == R!StillMissing(dst, src)
           D       == DOMAIN src.by \cup DOMAIN dst.by
           whole   == [by |-> by, missing |-> missing, failure |-> dst.failure]
           failure == R!StillFailed(dst, whole)
<1>3. /\ by \in [D -> R!Answers] /\ DOMAIN by = D
      /\ \A m \in DOMAIN src.by : by[m] = src.by[m]
      /\ \A m \in DOMAIN dst.by \ DOMAIN src.by : by[m] = dst.by[m]
  BY <1>2 DEF R!Over
<1>4. D \in SUBSET Minions /\ missing \in SUBSET Minions
      /\ \A m : m \in missing <=> m \in src.missing \/ m \in dst.missing \ DOMAIN src.by
  BY <1>2 DEF R!StillMissing
<1> HIDE DEF by, missing, D
<1>5. R!Merge(dst, src) = [whole EXCEPT !.failure = failure]
  BY DEF R!Merge, by, missing
<1>6. R!Merge(dst, src) = [by |-> by, missing |-> missing, failure |-> failure]
  BY <1>5
<1>7. failure \in BOOLEAN /\ (failure => R!Failures(whole) # {})
  BY <1>2 DEF R!StillFailed
<1> DEFINE r == R!Merge(dst, src)
<1>8. r.by = by /\ r.missing = missing /\ r.failure = failure
  BY <1>6
<1>9. r \in R!Results(Minions)
  BY <1>3, <1>4, <1>6, <1>7, MakesResult
<1>10. R!Failures(r) = R!Failures(whole)
  BY <1>8 DEF R!Failures
<1> HIDE DEF r, failure, whole
<1>11. r.failure => Failed(r) # {}
  BY <1>7, <1>8, <1>10, NoFailures
<1>12. QED
  BY <1>3, <1>4, <1>8, <1>9, <1>11 DEF r, D

LEMMA OKSays ==
    ASSUME NEW r PROVE R!OK(r) <=> ~r.failure /\ Failed(r) = {}
  BY NoFailures DEF R!OK
------------------------------------------------------------------------------
\* The steps of the middleware.

\* What SuccessIsKept says of a step.
Keeps ==
    \A m \in Minions :
        latest[m] = "ok" => /\ latest'[m] = "ok" /\ merged'.by[m] = "ok"
                            /\ m \notin merged'.missing

\* A step that learns nothing keeps every success.
LEMMA NothingNew ==
    ASSUME RetryInv, UNCHANGED <<merged, latest>>
    PROVE  Known' /\ Keeps
  BY FailedOf DEF RetryInv, Known, Keeps, Failed

\* The first answer.
LEMMA FirstAnswer ==
    ASSUME RetryInv, rpc = "first", NEW r \in R!Answered(Minions), merged' = r, R!Learn(r)
    PROVE  /\ merged' \in R!Results(Minions)
           /\ latest' \in [Minions -> R!Answers \cup {"none", "absent"}]
           /\ Known' /\ Keeps
<1>1. /\ r \in R!Results(Minions) /\ r.missing \cap DOMAIN r.by = {}
  BY DEF R!Answered
<1>2. /\ DOMAIN r.by \subseteq Minions /\ r.by \in [DOMAIN r.by -> R!Answers]
      /\ r.missing \subseteq Minions
  BY <1>1, ResultFields
<1>3. \A m \in Minions : latest[m] = "none"
  BY DEF RetryInv, Attempting
<1>4. /\ latest' \in [Minions -> R!Answers \cup {"none", "absent"}]
      /\ \A m \in Minions : latest'[m] = IF m \in DOMAIN r.by THEN r.by[m]
                                         ELSE IF m \in r.missing THEN "absent" ELSE "none"
  BY <1>2, <1>3 DEF R!Learn, RetryInv, RetryTypes
<1>5. ASSUME NEW m \in Minions
      PROVE  /\ latest'[m] \in {"ok", "none"} <=> m \notin Failed(r)
             /\ latest'[m] = "ok" => m \in DOMAIN r.by /\ r.by[m] = "ok"
  BY <1>1, <1>2, <1>4, FailedOf DEF R!Failing, R!Answers
<1>6. Known'
  BY <1>5 DEF Known, Failed
<1>7. QED
  BY <1>1, <1>3, <1>4, <1>6 DEF Keeps

LEMMA FirstRunRetriedInv ==
    ASSUME RetryInv, R!FirstRunRetried
    PROVE  RetryInv' /\ Keeps
<1>1. PICK r \in R!Answered(Minions) :
         R!Retryable(r) # {} /\ merged' = r /\ retry' = R!Retryable(r) /\ R!Learn(r)
  BY DEF R!FirstRunRetried
<1>2. /\ rpc = "first" /\ MaxAttempts > 1 /\ attempt' = 2 /\ rpc' = "loop"
      /\ UNCHANGED <<herr, started, exhausted>>
  BY DEF R!FirstRunRetried, R!RetriesAtAll
<1>3. /\ merged' \in R!Results(Minions)
      /\ latest' \in [Minions -> R!Answers \cup {"none", "absent"}]
      /\ Known' /\ Keeps
  BY <1>1, <1>2, FirstAnswer
<1>4. RetryTypes'
  BY <1>2, <1>3 DEF RetryInv, RetryTypes
<1>5. Attempting'
  <2>1. Failed(r) # {}
    <3>1. R!Failures(r) # {}
      BY <1>1 DEF R!Retryable
    <3>2. QED
      BY <3>1, NoFailures
  <2>2. /\ exhausted = {} /\ herr = "none" /\ \A m \in Minions : started[m] = 0
    BY <1>2 DEF RetryInv, Attempting
  <2>3. R!Of(retry') \subseteq Minions
    <3>1. R!Answered(Minions) \subseteq R!Results(Minions)
      BY DEF R!Answered
    <3>2. r.missing \subseteq Minions /\ DOMAIN r.by \subseteq Minions
      BY <3>1, ResultFields
    <3>3. QED
      BY <1>1, <3>2, FailedOf
  <2>4. QED
    BY <1>1, <1>2, <2>1, <2>2, <2>3, RetryAssumption DEF Attempting, Failed
<1>6. ExhaustedAfterAllAttempts'
  BY <1>2 DEF RetryInv, Attempting, ExhaustedAfterAllAttempts, R!ExhaustedAfterAllAttempts
<1>7. QED
  BY <1>3, <1>4, <1>5, <1>6 DEF RetryInv

LEMMA FirstRunReturnedInv ==
    ASSUME RetryInv, R!FirstRunReturned
    PROVE  RetryInv' /\ Keeps
<1>1. PICK r \in R!Answered(Minions) : merged' = r /\ R!Learn(r)
  BY DEF R!FirstRunReturned
<1>2. /\ rpc = "first" /\ rpc' = "returned" /\ herr' \in {"none", "execution", "transport"}
      /\ UNCHANGED <<attempt, started, exhausted>>
  BY DEF R!FirstRunReturned
<1>3. /\ merged' \in R!Results(Minions)
      /\ latest' \in [Minions -> R!Answers \cup {"none", "absent"}]
      /\ Known' /\ Keeps
  BY <1>1, <1>2, FirstAnswer
<1>4. attempt = 1 /\ exhausted = {}
  BY <1>2 DEF RetryInv, Attempting
<1>5. RetryTypes' /\ Attempting' /\ ExhaustedAfterAllAttempts'
  BY <1>2, <1>3, <1>4 DEF RetryInv, RetryTypes, Attempting, ExhaustedAfterAllAttempts,
                          R!ExhaustedAfterAllAttempts
<1>6. QED
  BY <1>3, <1>5 DEF RetryInv

\* The steps that learn nothing.
LEMMA QuietStepInv ==
    ASSUME RetryInv,
           \/ R!FirstRunFails \/ R!Schedule \/ R!DelayAborted
           \/ R!DelayPasses \/ R!AttemptFails \/ R!Finish
    PROVE  RetryInv' /\ Keeps
<1> USE DEF RetryInv
<1>1. UNCHANGED <<attempt, merged, retry, latest>>
  BY DEF R!FirstRunFails, R!Schedule, R!DelayAborted, R!DelayPasses, R!AttemptFails, R!Finish,
         R!told
<1>2. Known' /\ Keeps
  BY <1>1, NothingNew
<1>3. R!Of(R!Retryable(merged)) \subseteq Minions
  <2>1. merged.missing \subseteq Minions /\ DOMAIN merged.by \subseteq Minions
    BY ResultFields DEF RetryTypes
  <2>2. QED
    BY <2>1, FailedOf
<1>4. CASE R!FirstRunFails \/ R!DelayAborted \/ R!AttemptFails
  <2>1. /\ rpc' = "returned" /\ herr' \in {"transport", "cancelled"}
        /\ UNCHANGED <<started, exhausted>>
        /\ exhausted = {}
    BY <1>4 DEF R!FirstRunFails, R!DelayAborted, R!AttemptFails, R!told, Attempting
  <2>2. RetryTypes' /\ Attempting' /\ ExhaustedAfterAllAttempts'
    BY <1>1, <2>1 DEF RetryTypes, Attempting, Failed, ExhaustedAfterAllAttempts,
                      R!ExhaustedAfterAllAttempts
  <2>3. QED
    BY <1>2, <2>2
<1>5. CASE R!Schedule
  <2>1. /\ rpc = "loop" /\ rpc' = "delay" /\ attempt <= MaxAttempts
        /\ UNCHANGED <<herr, started, exhausted>>
    BY <1>5 DEF R!Schedule, R!AttemptsLeft, R!told
  <2>2. RetryTypes' /\ Attempting' /\ ExhaustedAfterAllAttempts'
    BY <1>1, <2>1 DEF RetryTypes, Attempting, Failed, ExhaustedAfterAllAttempts,
                      R!ExhaustedAfterAllAttempts
  <2>3. QED
    BY <1>2, <2>2
<1>6. CASE R!DelayPasses
  <2>1. /\ rpc = "delay" /\ rpc' = "attempt" /\ UNCHANGED <<herr, exhausted>>
        /\ started' = [m \in Minions |-> IF m \in R!Of(retry) THEN started[m] + 1 ELSE started[m]]
    BY <1>6 DEF R!DelayPasses
  <2>2. RetryTypes'
    BY <1>1, <2>1 DEF RetryTypes
  <2>3. Attempting'
    <3>1. /\ attempt > 1 /\ attempt <= MaxAttempts /\ exhausted = {} /\ herr = "none"
          /\ retry = R!Retryable(merged)
          /\ \A m \in R!Of(retry) : started[m] = attempt - 2
      BY <2>1 DEF Attempting
    <3>2. \A m \in R!Of(retry) : started'[m] = attempt - 1
      BY <1>3, <2>1, <3>1 DEF RetryTypes
    <3>3. QED
      BY <1>1, <2>1, <3>1, <3>2, RetryAssumption DEF Attempting, Failed, RetryTypes
  <2>4. ExhaustedAfterAllAttempts'
    BY <2>1 DEF Attempting, ExhaustedAfterAllAttempts, R!ExhaustedAfterAllAttempts
  <2>5. QED
    BY <1>2, <2>2, <2>3, <2>4
<1>7. CASE R!Finish
  <2>1. /\ rpc = "loop" /\ rpc' = "returned" /\ UNCHANGED started
        /\ attempt > MaxAttempts \/ retry = {}
        /\ exhausted' = R!Of(retry)
        /\ herr' = IF R!OK(merged) THEN "none" ELSE "execution"
    BY <1>7, RetryAssumption DEF R!Finish, R!AttemptsLeft, R!Exhausted, RetryTypes
  <2>2. /\ retry = R!Retryable(merged) /\ attempt <= MaxAttempts + 1
        /\ \A m \in R!Of(retry) : started[m] = attempt - 2
    BY <2>1 DEF Attempting
  <2>3. RetryTypes'
    BY <1>1, <1>3, <2>1, <2>2 DEF RetryTypes
  <2>4. Attempting'
    BY <1>1, <2>1 DEF Attempting, Failed, R!OK, R!Failures
  <2>5. \A m \in R!Of(retry) : started[m] = MaxAttempts - 1
    <3>1. retry = {} => R!Of(retry) = {}
      BY DEF R!Of
    <3>2. attempt > MaxAttempts => attempt = MaxAttempts + 1
      BY <2>2, RetryAssumption DEF RetryTypes
    <3>3. QED
      BY <2>1, <2>2, <3>1, <3>2, RetryAssumption
  <2>6. ExhaustedAfterAllAttempts'
    BY <1>1, <2>1, <2>2, <2>5 DEF ExhaustedAfterAllAttempts, R!ExhaustedAfterAllAttempts,
                                  R!Retryable, R!Failures
  <2>7. QED
    BY <1>2, <2>3, <2>4, <2>6
<1>8. QED
  BY <1>4, <1>5, <1>6, <1>7

LEMMA AttemptReturnsInv ==
    ASSUME RetryInv, R!AttemptReturns
    PROVE  RetryInv' /\ Keeps
<1> USE DEF RetryInv
<1> DEFINE target == R!RetryTarget
<1>1. PICK src \in R!Answered(target) : merged' = R!Merge(merged, src) /\ R!Learn(src)
  BY DEF R!AttemptReturns
<1>2. /\ rpc = "attempt" /\ rpc' = "loop" /\ attempt' = attempt + 1
      /\ retry' = R!Retryable(merged')
      /\ UNCHANGED <<herr, started, exhausted>>
  BY DEF R!AttemptReturns
<1>3. /\ attempt > 1 /\ attempt <= MaxAttempts /\ exhausted = {} /\ herr = "none"
      /\ target = R!Of(R!Retryable(merged))
      /\ \A m \in target : started[m] = attempt - 1
  BY <1>2 DEF Attempting, R!RetryTarget
<1>4. /\ DOMAIN merged.by \subseteq Minions /\ merged.missing \subseteq Minions
      /\ merged.by \in [DOMAIN merged.by -> R!Answers]
  BY ResultFields DEF RetryTypes
<1>5. target \subseteq Minions /\ target \subseteq Failed(merged)
  BY <1>3, <1>4, FailedOf
<1> HIDE DEF target
<1>6. /\ src.missing \cap DOMAIN src.by = {} /\ src \in R!Results(target)
      /\ DOMAIN src.by \subseteq target /\ src.by \in [DOMAIN src.by -> R!Answers]
      /\ src.missing \subseteq target
  BY ResultFields DEF R!Answered
<1>7. /\ merged' \in R!Results(Minions) /\ (merged'.failure => Failed(merged') # {})
      /\ \A m \in Minions :
           /\ m \in DOMAIN merged'.by <=> m \in DOMAIN src.by \/ m \in DOMAIN merged.by
           /\ m \in DOMAIN src.by => merged'.by[m] = src.by[m]
           /\ m \in DOMAIN merged.by \ DOMAIN src.by => merged'.by[m] = merged.by[m]
           /\ m \in merged'.missing <=>
                m \in src.missing \/ m \in merged.missing \ DOMAIN src.by
  BY <1>1, <1>5, MergeSays DEF RetryTypes
<1>8. /\ latest' \in [Minions -> R!Answers \cup {"none", "absent"}]
      /\ \A m \in Minions : latest'[m] = IF m \in DOMAIN src.by THEN src.by[m]
                                         ELSE IF m \in src.missing THEN "absent" ELSE latest[m]
  BY <1>1, <1>6 DEF R!Learn, RetryTypes
<1>9. ASSUME NEW m \in Minions
      PROVE  /\ latest'[m] \in {"ok", "none"} <=> m \notin Failed(merged')
             /\ latest'[m] = "ok" => m \in DOMAIN merged'.by /\ merged'.by[m] = "ok"
             /\ latest[m] = "ok" => m \notin DOMAIN src.by /\ m \notin src.missing
                                    /\ m \notin merged.missing
  <2>1. latest[m] = "ok" => m \notin Failed(merged)
    BY DEF Known
  <2>2. CASE m \in DOMAIN src.by
    BY <1>5, <1>6, <1>7, <1>8, <2>1, <2>2, FailedOf DEF R!Failing, R!Answers
  <2>3. CASE m \in src.missing
    BY <1>5, <1>6, <1>7, <1>8, <2>1, <2>3, FailedOf
  <2>4. CASE m \notin DOMAIN src.by /\ m \notin src.missing
    <3>1. latest'[m] = latest[m] /\ (m \in Failed(merged') <=> m \in Failed(merged))
      BY <1>7, <1>8, <2>4, FailedOf
    <3>2. m \in Failed(merged) <=> latest[m] \notin {"ok", "none"}
      BY DEF Known
    <3>3. latest[m] = "ok" => m \in DOMAIN merged.by /\ merged.by[m] = "ok"
      BY DEF Known
    <3>4. QED
      BY <1>7, <2>1, <2>4, <3>1, <3>2, <3>3, FailedOf
  <2>5. QED
    BY <2>2, <2>3, <2>4
<1>10. Known'
  BY <1>9 DEF Known, Failed
<1>11. Keeps
  BY <1>7, <1>8, <1>9 DEF Keeps, Known
<1>12. RetryTypes'
  BY <1>2, <1>7, <1>8 DEF RetryTypes
<1>13. Attempting'
  <2>1. R!Of(retry') \subseteq target
    <3>1. DOMAIN merged'.by \subseteq Minions /\ merged'.missing \subseteq Minions
      BY <1>7, ResultFields
    <3>2. ASSUME NEW m \in R!Of(retry') PROVE m \in target
      <4>1. m \in Minions
        BY <1>2, <3>1, <3>2, FailedOf
      <4>2. \/ m \in DOMAIN merged'.by /\ merged'.by[m] \in R!Failing /\ merged'.by[m] \in Selected
            \/ m \in merged'.missing /\ "absent" \in Selected
        BY <1>2, FailedOf
      <4>3. QED
        BY <1>3, <1>6, <1>7, <4>1, <4>2, FailedOf
    <3>3. QED
      BY <3>2
  <2>2. \A m \in R!Of(retry') : started'[m] = attempt' - 2
    BY <1>2, <1>3, <2>1 DEF RetryTypes
  <2>3. attempt' > 1 /\ attempt' <= MaxAttempts + 1
    BY <1>2, <1>3, RetryAssumption DEF RetryTypes
  <2>4. QED
    BY <1>2, <1>3, <1>7, <2>2, <2>3 DEF Attempting, Failed
<1>14. ExhaustedAfterAllAttempts'
  BY <1>2, <1>3 DEF ExhaustedAfterAllAttempts, R!ExhaustedAfterAllAttempts
<1>15. QED
  BY <1>10, <1>11, <1>12, <1>13, <1>14
------------------------------------------------------------------------------
\* The run.

LEMMA InitInv == RunInit => Inv
<1> SUFFICES ASSUME RunInit PROVE Inv
  OBVIOUS
<1> USE DEF RunInit
<1>1. /\ rpc = "first" /\ attempt = 1 /\ merged = R!NoResult /\ herr = "none"
      /\ latest = [m \in Minions |-> "none"] /\ started = [m \in Minions |-> 0]
      /\ exhausted = {}
  BY DEF R!Init
<1>2. RetryTypes
  BY <1>1, NoResultSays DEF RetryTypes
<1>3. Known
  BY <1>1, NoResultSays DEF Known
<1>4. Attempting /\ ExhaustedAfterAllAttempts
  BY <1>1 DEF Attempting, ExhaustedAfterAllAttempts, R!ExhaustedAfterAllAttempts
<1>5. Concluded
  BY DEF Init, Concluded
<1>6. QED
  BY <1>2, <1>3, <1>4, <1>5 DEF Inv, RetryInv

LEMMA RetryUnchanged ==
    ASSUME RetryInv, UNCHANGED retryVars
    PROVE  RetryInv' /\ Keeps
<1>1. UNCHANGED <<rpc, attempt, merged, retry, herr, latest, started, exhausted>>
  BY DEF retryVars
<1>2. Known' /\ Keeps
  BY <1>1, NothingNew
<1>3. RetryTypes' /\ Attempting' /\ ExhaustedAfterAllAttempts'
  BY <1>1 DEF RetryInv, RetryTypes, Attempting, Failed, ExhaustedAfterAllAttempts,
              R!ExhaustedAfterAllAttempts
<1>4. QED
  BY <1>2, <1>3 DEF RetryInv

\* The steps of the middleware are steps of the handler.
LEMMA MiddlewareStep ==
    ASSUME RunNext
    PROVE  \/ /\ pc = "handler" /\ pc' = "handler"
              /\ \/ R!FirstRunRetried \/ R!FirstRunReturned \/ R!AttemptReturns
                 \/ R!FirstRunFails \/ R!Schedule \/ R!DelayAborted
                 \/ R!DelayPasses \/ R!AttemptFails \/ R!Finish
           \/ /\ UNCHANGED retryVars
              /\ \/ \E event : HandlerEmits(event)
                 \/ rpc = "returned" /\ HandlerReturns(ResultKind, herr)
                 \/ RunStarts \/ HandlerPanics \/ ObserverReturns \/ ObserverPanics \/ ContextEnds
<1>1. CASE TransportAnnounces \/ MiddlewareEmits
  BY <1>1 DEF TransportAnnounces, MiddlewareEmits
<1>2. CASE MiddlewareReturns
  BY <1>2 DEF MiddlewareReturns
<1>3. CASE Client
  BY <1>3 DEF Client
<1>4. CASE TransportAnswers \/ TransportFails \/ RetryScheduled \/ RetryAborted
           \/ RetryStarted \/ RetriesEnd
  BY <1>4 DEF TransportAnswers, TransportFails, RetryScheduled, RetryAborted, RetryStarted,
              RetriesEnd, Middleware
<1>5. QED
  BY <1>1, <1>2, <1>3, <1>4 DEF RunNext

LEMMA RetryStepInv ==
    ASSUME RetryInv, RunNext
    PROVE  RetryInv' /\ Keeps
<1>1. CASE R!FirstRunRetried
  BY <1>1, FirstRunRetriedInv
<1>2. CASE R!FirstRunReturned
  BY <1>2, FirstRunReturnedInv
<1>3. CASE R!AttemptReturns
  BY <1>3, AttemptReturnsInv
<1>4. CASE R!FirstRunFails \/ R!Schedule \/ R!DelayAborted
           \/ R!DelayPasses \/ R!AttemptFails \/ R!Finish
  BY <1>4, QuietStepInv
<1>5. CASE UNCHANGED retryVars
  BY <1>5, RetryUnchanged
<1>6. QED
  BY <1>1, <1>2, <1>3, <1>4, <1>5, MiddlewareStep

LEMMA ConcludedStep ==
    ASSUME Concluded, RunNext
    PROVE  Concluded'
<1>1. CASE pc' = "handler"
  BY <1>1 DEF Concluded
<1>2. CASE UNCHANGED retryVars /\ \E event : HandlerEmits(event)
  BY <1>2 DEF HandlerEmits, Emit, Concluded
<1>3. CASE UNCHANGED retryVars /\ rpc = "returned" /\ HandlerReturns(ResultKind, herr)
  <2>1. /\ pc' = "emit" /\ resume' = "returned" /\ err' = Judged(ResultKind, herr)
        /\ UNCHANGED <<rpc, herr, merged>>
    BY <1>3 DEF HandlerReturns, Emit, retryVars
  <2>2. err' = "none" => herr = "none" /\ R!OK(merged)
    BY <2>1 DEF Judged, ResultKind
  <2>3. err' = "execution" => herr = "execution" \/ ~R!OK(merged)
    BY <2>1 DEF Judged, ResultKind
  <2>4. R!OK(merged)' <=> R!OK(merged)
    BY <2>1 DEF R!OK, R!Failures
  <2>5. QED
    BY <1>3, <2>1, <2>2, <2>3, <2>4 DEF Concluded
<1>4. CASE UNCHANGED retryVars /\ (RunStarts \/ HandlerPanics)
  BY <1>4 DEF RunStarts, HandlerPanics, Recover, ReportPanic, Emit, Concluded
<1>5. CASE UNCHANGED retryVars /\ ObserverPanics
  BY <1>5 DEF ObserverPanics, Recover, ReportPanic, Emit, Concluded
<1>6. CASE UNCHANGED retryVars /\ (ObserverReturns \/ ContextEnds)
  <2>1. /\ UNCHANGED <<rpc, herr, merged, err>>
        /\ \/ UNCHANGED <<pc, resume>>
           \/ pc = "emit" /\ pc' = resume
    BY <1>6 DEF ObserverReturns, ContextEnds, emission, outcome, retryVars
  <2>2. R!OK(merged)' <=> R!OK(merged)
    BY <2>1 DEF R!OK, R!Failures
  <2>3. QED
    BY <2>1, <2>2 DEF Concluded
<1>7. QED
  BY <1>1, <1>2, <1>3, <1>4, <1>5, <1>6, MiddlewareStep

LEMMA StepInv ==
    ASSUME Inv, [RunNext]_vars
    PROVE  Inv' /\ Keeps
<1>1. CASE RunNext
  BY <1>1, RetryStepInv, ConcludedStep DEF Inv
<1>2. CASE UNCHANGED vars
  <2>1. UNCHANGED retryVars /\ UNCHANGED clientVars
    BY <1>2 DEF vars
  <2>2. UNCHANGED <<rpc, herr, merged, err, pc, resume>>
    BY <2>1 DEF retryVars, clientVars, emission, outcome
  <2>3. R!OK(merged)' <=> R!OK(merged)
    BY <2>2 DEF R!OK, R!Failures
  <2>4. Concluded'
    BY <2>2, <2>3 DEF Inv, Concluded
  <2>5. QED
    BY <2>1, <2>4, RetryUnchanged DEF Inv
<1>3. QED
  BY <1>1, <1>2

LEMMA InvHolds == RunSpec => []Inv
<1>1. Inv /\ [RunNext]_vars => Inv'
  BY StepInv
<1>2. QED
  BY InitInv, <1>1, PTL DEF RunSpec
------------------------------------------------------------------------------
\* A minion that succeeded is never asked again, whatever the predicate selects and
\* however many attempts there are: its success is the latest that is known of it
\* and the return in the result, until Run returns.
THEOREM SuccessStays == RunSpec => SuccessIsKept
<1>1. Inv /\ [RunNext]_vars => [\A m \in Minions :
        latest[m] = "ok" => /\ latest'[m] = "ok"
                            /\ merged'.by[m] = "ok"
                            /\ m \notin merged'.missing]_(R!vars)
  BY StepInv DEF Keeps
<1>2. QED
  BY InvHolds, <1>1, PTL DEF RunSpec, SuccessIsKept, R!SuccessIsKept

\* A minion is announced as exhausted only after every attempt that the
\* configuration allows.
THEOREM NoEarlyExhaustion == RunSpec => []ExhaustedAfterAllAttempts
<1>1. Inv => ExhaustedAfterAllAttempts
  BY DEF Inv, RetryInv
<1>2. QED
  BY InvHolds, <1>1, PTL

\* What Run returns agrees with the latest that is known of the minions.
THEOREM OutcomeIsTheLatest == RunSpec => []OutcomeMatchesLatest
<1>1. ASSUME Inv PROVE OutcomeMatchesLatest
  <2>1. ASSUME pc = "returned", err = "none", NEW m \in Minions
        PROVE  latest[m] \in {"ok", "none"}
    <3>1. m \notin Failed(merged)
      BY <1>1, <2>1, OKSays DEF Inv, Concluded
    <3>2. QED
      BY <1>1, <3>1 DEF Inv, RetryInv, Known
  <2>2. ASSUME pc = "returned", err = "execution", attempt > 1
        PROVE  \E m \in Minions : latest[m] \notin {"ok", "none"}
    <3>1. rpc = "returned" /\ ~R!OK(merged)
      BY <1>1, <2>2 DEF Inv, Concluded, RetryInv, Attempting
    <3>2. PICK m \in Failed(merged) : TRUE
      BY <1>1, <2>2, <3>1, OKSays DEF Inv, RetryInv, Attempting
    <3>3. m \in Minions
      <4>1. merged \in R!Results(Minions)
        BY <1>1 DEF Inv, RetryInv, RetryTypes
      <4>2. DOMAIN merged.by \subseteq Minions /\ merged.missing \subseteq Minions
        BY <4>1, ResultFields
      <4>3. QED
        BY <4>2, FailedOf
    <3>4. QED
      BY <1>1, <3>2, <3>3 DEF Inv, RetryInv, Known
  <2>3. QED
    BY <2>1, <2>2 DEF OutcomeMatchesLatest
<1>2. QED
  BY InvHolds, <1>1, PTL
------------------------------------------------------------------------------
(***************************************************************************)
(* The client, whatever its handler: ClientRun leaves the handler open,    *)
(* and RetriedRun is one way to close it.  What the observers hear is      *)
(* proved of ClientRun, and holds of RetriedRun because that implements it.*)
(***************************************************************************)
EventTypes == Final \cup Progress \cup {"request.started"}
Entries    == [type : EventTypes, live : BOOLEAN]

ClientTypes ==
    /\ pc \in {"start", "handler", "emit", "returned", "panicked"}
    /\ emitting \in EventTypes \cup {"none"} /\ turn \in All
    /\ stripped \in BOOLEAN /\ cancelled \in BOOLEAN
    /\ log \in [All -> Seq(Entries)]
    /\ panics \in Nat /\ (pc = "panicked" => panics > 0)

\* The call has ended, but for the broadcast that says so.
Concluding == pc = "returned" \/ (pc = "emit" /\ resume = "returned")

Ending == IF err = "none" THEN "request.completed" ELSE "request.failed"

\* An observer has been given the event that is broadcast.
Told(o) == pc = "emit" => o < turn

Broadcast ==
    pc = "emit" => /\ emitting \in EventTypes /\ resume \in {"handler", "returned"}
                   /\ resume = "handler" => emitting \notin Final
                   /\ resume = "returned" => emitting = Ending

Begins ==
    panics = 0 => \A o \in All :
        IF pc = "start" \/ (pc = "emit" /\ emitting = "request.started" /\ ~Told(o))
        THEN log[o] = << >>
        ELSE log[o] # << >> /\ Head(log[o]).type = "request.started"

Ends ==
    \A o \in All :
        /\ Concluding /\ Told(o) => log[o] # << >> /\ Last(log[o]).type = Ending
        /\ panics = 0 => Finals(o) = IF Concluding /\ Told(o) THEN 1 ELSE 0

\* A terminal event that is broadcast with the context of the call was detached
\* from no context that had ended: the observers still to be given it were given
\* none with an ended context before, though the context may end on the way.
Outlives ==
    /\ TerminalOutlivesContext
    /\ \A o \in All : \A i \in DOMAIN log[o] : ~log[o][i].live =>
         /\ cancelled
         /\ pc = "emit" /\ emitting \in Terminal /\ ~stripped => Told(o)

ClientInv == ClientTypes /\ Broadcast /\ Begins /\ Ends /\ Outlives

LEMMA DeliveredSays ==
    ASSUME ClientTypes, emitting \in EventTypes, Delivered
    PROVE  /\ log' \in [All -> Seq(Entries)]
           /\ \A o \in All \ {turn} : log'[o] = log[o]
           /\ log'[turn] = Append(log[turn], Given)
           /\ Len(log'[turn]) = Len(log[turn]) + 1 /\ Len(log[turn]) \in Nat
           /\ \A i \in DOMAIN log[turn] : log'[turn][i] = log[turn][i]
           /\ Last(log'[turn]) = Given
           /\ log'[turn] # << >>
           /\ log[turn] # << >> => Head(log'[turn]) = Head(log[turn])
<1>1. Given \in Entries
  BY DEF ClientTypes, Given, Entries
<1>2. /\ log[turn] \in Seq(Entries) /\ log'[turn] = Append(log[turn], Given)
      /\ \A o \in All \ {turn} : log'[o] = log[o]
  BY DEF ClientTypes, Delivered
<1>3. log' \in [All -> Seq(Entries)]
  BY <1>1 DEF ClientTypes, Delivered
<1>4. /\ Len(log'[turn]) = Len(log[turn]) + 1 /\ Len(log[turn]) \in Nat
      /\ \A i \in DOMAIN log[turn] : log'[turn][i] = log[turn][i]
      /\ log'[turn][Len(log[turn]) + 1] = Given
  BY <1>1, <1>2
<1>5. Last(log'[turn]) = Given
  BY <1>4 DEF Last
<1>6. log'[turn] # << >>
  BY <1>1, <1>2
<1>7. ASSUME log[turn] # << >> PROVE Head(log'[turn]) = Head(log[turn])
  BY <1>1, <1>2, <1>7
<1>8. QED
  BY <1>2, <1>3, <1>4, <1>5, <1>6, <1>7

\* Counting the events of some types after one was delivered.
LEMMA CountDelivered ==
    ASSUME ClientTypes, emitting \in EventTypes, Delivered, NEW types, NEW o \in All
    PROVE  /\ Count(o, types) \in Nat
           /\ Count(o, types)' = Count(o, types)
                                   + (IF o = turn /\ emitting \in types THEN 1 ELSE 0)
<1> DEFINE Some(s) == {i \in DOMAIN s : s[i].type \in types}
<1>1. \A s \in Seq(Entries) : IsFiniteSet(Some(s)) /\ Cardinality(Some(s)) \in Nat
  <2> SUFFICES ASSUME NEW s \in Seq(Entries)
               PROVE  IsFiniteSet(Some(s)) /\ Cardinality(Some(s)) \in Nat
    OBVIOUS
  <2>1. IsFiniteSet(1 .. Len(s)) /\ Some(s) \in SUBSET (1 .. Len(s))
    BY FS_Interval
  <2>2. QED
    BY <2>1, FS_Subset, FS_CardinalityType
<1>2. log[o] \in Seq(Entries) /\ Count(o, types) = Cardinality(Some(log[o]))
      /\ Count(o, types)' = Cardinality(Some(log'[o]))
  BY DEF ClientTypes, Count
<1>3. CASE o # turn
  <2>1. log'[o] = log[o]
    BY <1>3, DeliveredSays
  <2> HIDE DEF Some
  <2>2. Count(o, types)' = Count(o, types) /\ Count(o, types) \in Nat
    BY <1>1, <1>2, <2>1
  <2>3. QED
    BY <1>3, <2>2
<1>4. CASE o = turn
  <2> DEFINE n == Len(log[o]) + 1
  <2>1. /\ log'[o] = Append(log[o], Given) /\ Len(log'[o]) = n /\ n \in Nat
        /\ log'[o] \in Seq(Entries)
        /\ \A i \in DOMAIN log[o] : log'[o][i] = log[o][i]
    BY <1>4, DeliveredSays
  <2>2. log'[o][n].type = emitting
    BY <1>2, <2>1 DEF Given
  <2>3. DOMAIN log'[o] = DOMAIN log[o] \cup {n} /\ n \notin DOMAIN log[o]
    BY <1>2, <2>1
  <2>4. Some(log'[o]) = Some(log[o]) \cup (IF emitting \in types THEN {n} ELSE {})
    BY <2>1, <2>2, <2>3
  <2>5. n \notin Some(log[o])
    BY <2>3
  <2> HIDE DEF Some, n
  <2>6. CASE emitting \in types
    <3>1. Cardinality(Some(log'[o])) = Cardinality(Some(log[o])) + 1
      BY <1>1, <1>2, <2>4, <2>5, <2>6, FS_AddElement
    <3>2. QED
      BY <1>1, <1>2, <1>4, <2>6, <3>1
  <2>7. CASE emitting \notin types
    <3>1. Some(log'[o]) = Some(log[o])
      BY <2>4, <2>7
    <3>2. QED
      BY <1>1, <1>2, <1>4, <2>7, <3>1
  <2>8. QED
    BY <2>6, <2>7
<1>5. QED
  BY <1>3, <1>4

\* What the broadcast of another event owes to the terminal events: those that
\* were delivered, the latest included, were not lost on an observer that gave up.
LEMMA DeliveredOutlives ==
    ASSUME ClientTypes, Outlives, pc = "emit", emitting \in EventTypes, Delivered, UNCHANGED cancelled
    PROVE  /\ TerminalOutlivesContext'
           /\ \A o \in All : \A i \in DOMAIN log'[o] : ~log'[o][i].live => cancelled'
           /\ \A o \in All \ {turn} : log'[o] = log[o]
<1> DEFINE n == Len(log[turn]) + 1
<1>1. /\ log'[turn] = Append(log[turn], Given) /\ log'[turn][n] = Given
      /\ DOMAIN log'[turn] = DOMAIN log[turn] \cup {n}
      /\ \A i \in DOMAIN log[turn] : log'[turn][i] = log[turn][i] /\ i \in Nat /\ i < n
      /\ n \in Nat
  <2>1. log[turn] \in Seq(Entries) /\ log' \in [All -> Seq(Entries)]
    BY DeliveredSays DEF ClientTypes
  <2>2. QED
    BY <2>1, DeliveredSays DEF ClientTypes
<1>2. \A o \in All \ {turn} : log'[o] = log[o]
  BY DeliveredSays
<1>3. Given.type = emitting /\ Given.live = (stripped \/ ~cancelled)
  BY DEF Given
<1> HIDE DEF n
<1>4. \A i \in DOMAIN log[turn] : ~log[turn][i].live /\ emitting \in Terminal => stripped
  <2>1. ~Told(turn)
    BY DEF Told, ClientTypes, All
  <2>2. QED
    BY <2>1 DEF Outlives, ClientTypes
<1>5. ASSUME NEW o \in All, NEW i \in DOMAIN log'[o]
      PROVE  /\ ~log'[o][i].live => cancelled
             /\ \A j \in DOMAIN log'[o] :
                  i < j /\ ~log'[o][i].live /\ log'[o][j].type \in Terminal => log'[o][j].live
  <2>1. CASE o # turn
    BY <1>2, <1>5, <2>1 DEF Outlives, TerminalOutlivesContext
  <2>2. CASE o = turn /\ i = n
    <3>1. ~log'[o][i].live => cancelled
      BY <1>1, <1>3, <2>2
    <3>2. \A j \in DOMAIN log'[o] : ~(i < j)
      BY <1>1, <2>2
    <3>3. QED
      BY <3>1, <3>2
  <2>3. CASE o = turn /\ i # n
    <3>1. i \in DOMAIN log[turn] /\ log'[o][i] = log[turn][i]
      BY <1>1, <1>5, <2>3
    <3>2. ~log[turn][i].live => cancelled
      BY <3>1 DEF Outlives, ClientTypes
    <3>3. ASSUME NEW j \in DOMAIN log'[o],
                 i < j, ~log'[o][i].live, log'[o][j].type \in Terminal
          PROVE  log'[o][j].live
      <4>1. CASE j = n
        BY <1>1, <1>3, <1>4, <2>3, <3>1, <3>3, <4>1
      <4>2. CASE j # n
        <5>1. j \in DOMAIN log[turn] /\ log'[o][j] = log[turn][j]
          BY <1>1, <2>3, <3>3, <4>2
        <5>2. QED
          BY <3>1, <3>3, <5>1 DEF Outlives, TerminalOutlivesContext, ClientTypes
      <4>3. QED
        BY <4>1, <4>2
    <3>4. QED
      BY <3>1, <3>2, <3>3
  <2>4. QED
    BY <2>1, <2>2, <2>3
<1>6. TerminalOutlivesContext'
  BY <1>5 DEF TerminalOutlivesContext
<1>7. QED
  BY <1>2, <1>5, <1>6

\* An event is broadcast to observers none of which was given it.
LEMMA EmitOutlives ==
    ASSUME NEW event, NEW then, Emit(event, then), cancelled' = cancelled,
           TerminalOutlivesContext',
           \A o \in All : \A i \in DOMAIN log'[o] : ~log'[o][i].live => cancelled'
    PROVE  Outlives'
  BY DEF Outlives, Emit, Detached

LEMMA NoneTold ==
    ASSUME NEW event, NEW then, Emit(event, then), NEW o \in All
    PROVE  ~Told(o)' /\ turn' \in All
  BY RunAssumption DEF Emit, Told, All

\* The steps that emit an event before any observer has panicked.
LEMMA EmitInv ==
    ASSUME ClientInv, pc \in {"start", "handler"},
           NEW event \in EventTypes, NEW then \in {"handler", "returned"}, Emit(event, then),
           event = "request.started" <=> pc = "start",
           event \in Final <=> then = "returned", then = "returned" => event = Ending',
           UNCHANGED <<cancelled, log, panics>>
    PROVE  ClientInv'
<1> USE DEF ClientInv
<1>1. ClientTypes' /\ Broadcast'
  <2>1. turn' \in All
    BY RunAssumption DEF Emit, All
  <2>2. QED
    BY <2>1 DEF ClientTypes, Broadcast, Emit, Detached
<1>2. Begins'
  BY NoneTold DEF Begins, Emit, Told
<1>3. Ends'
  <2>1. ~Concluding
    BY DEF Concluding
  <2>2. \A o \in All : Finals(o)' = Finals(o)
    BY DEF Finals, Count
  <2>3. QED
    BY <2>1, <2>2, NoneTold DEF Ends
<1>4. Outlives'
  <2>1. TerminalOutlivesContext'
    BY DEF Outlives, TerminalOutlivesContext
  <2>2. QED
    BY <2>1, EmitOutlives DEF Outlives
<1>5. QED
  BY <1>1, <1>2, <1>3, <1>4

LEMMA ObserverReturnsInv ==
    ASSUME ClientInv, ObserverReturns
    PROVE  ClientInv'
<1> USE DEF ClientInv
<1>1. /\ pc = "emit" /\ emitting \in EventTypes /\ Delivered
      /\ UNCHANGED <<err, cancelled, panics, emitting, stripped, resume>>
      /\ \/ turn < Observers /\ turn' = turn + 1 /\ pc' = "emit"
         \/ ~(turn < Observers) /\ turn' = turn /\ pc' = resume
  BY DEF ObserverReturns, MoreToCall, emission, outcome, Broadcast
<1>2. resume \in {"handler", "returned"} /\ turn \in 1 .. Observers /\ Observers \in Nat
  BY <1>1, RunAssumption DEF Broadcast, ClientTypes, All
<1>3. \A o \in All : Told(o)' <=> Told(o) \/ o = turn
  BY <1>1, <1>2 DEF Told, All
<1>4. (Concluding' <=> Concluding) /\ Ending' = Ending
  BY <1>1, <1>2 DEF Concluding, Ending
<1>5. ClientTypes' /\ Broadcast'
  <2>1. log' \in [All -> Seq(Entries)]
    BY <1>1, DeliveredSays
  <2>2. QED
    BY <1>1, <1>2, <1>4, <2>1 DEF ClientTypes, Broadcast, All
<1>6. /\ \A o \in All \ {turn} : log'[o] = log[o]
      /\ log'[turn] # << >> /\ Last(log'[turn]).type = emitting
      /\ log[turn] # << >> => Head(log'[turn]) = Head(log[turn])
      /\ log[turn] = << >> => Head(log'[turn]).type = emitting
  <2>1. Given.type = emitting
    BY DEF Given
  <2>2. log[turn] \in Seq(Entries)
    BY DEF ClientTypes
  <2>3. QED
    BY <1>1, <2>1, <2>2, DeliveredSays
<1>7. ~Told(turn)
  BY <1>1, <1>2 DEF Told
<1>8. Begins'
  <2> SUFFICES ASSUME panics = 0, NEW o \in All
               PROVE  IF pc' = "start" \/ (pc' = "emit" /\ emitting' = "request.started" /\ ~Told(o)')
                      THEN log'[o] = << >>
                      ELSE log'[o] # << >> /\ Head(log'[o]).type = "request.started"
    BY <1>1 DEF Begins
  <2>1. IF emitting = "request.started" /\ ~Told(o)
        THEN log[o] = << >>
        ELSE log[o] # << >> /\ Head(log[o]).type = "request.started"
    BY <1>1 DEF Begins
  <2>2. CASE o = turn
    BY <1>1, <1>2, <1>3, <1>6, <1>7, <2>1, <2>2
  <2>3. CASE o # turn
    <3>1. log'[o] = log[o] /\ (Told(o)' <=> Told(o))
      BY <1>3, <1>6, <2>3
    <3>2. pc' # "emit" => Told(o)
      BY <1>1, <1>2, <1>3, <2>3 DEF Told
    <3>3. QED
      BY <1>1, <1>2, <2>1, <3>1, <3>2
  <2>4. QED
    BY <2>2, <2>3
<1>9. Ends'
  <2> SUFFICES ASSUME NEW o \in All
               PROVE  /\ Concluding' /\ Told(o)' => log'[o] # << >> /\ Last(log'[o]).type = Ending'
                      /\ panics' = 0 => Finals(o)' = IF Concluding' /\ Told(o)' THEN 1 ELSE 0
    BY DEF Ends
  <2>1. Concluding => emitting = Ending
    BY <1>1 DEF Concluding, Broadcast
  <2>2. Finals(o)' = Finals(o) + (IF o = turn /\ emitting \in Final THEN 1 ELSE 0)
        /\ Finals(o) \in Nat
    BY <1>1, CountDelivered DEF Finals
  <2>3. emitting \in Final <=> Concluding
    BY <1>1, <1>2 DEF Concluding, Broadcast, Ending, Final
  <2>4. panics = 0 => Finals(o) = IF Concluding /\ Told(o) THEN 1 ELSE 0
    BY DEF Ends
  <2>5. Concluding /\ Told(o) => log[o] # << >> /\ Last(log[o]).type = Ending
    BY DEF Ends
  <2>6. QED
    BY <1>1, <1>3, <1>4, <1>6, <1>7, <2>1, <2>2, <2>3, <2>4, <2>5
<1>10. Outlives'
  <2>1. /\ TerminalOutlivesContext'
        /\ \A o \in All : \A i \in DOMAIN log'[o] : ~log'[o][i].live => cancelled'
    BY <1>1, DeliveredOutlives
  <2>2. ASSUME NEW o \in All, NEW i \in DOMAIN log'[o], ~log'[o][i].live,
               pc' = "emit", emitting' \in Terminal, ~stripped', ~Told(o)'
        PROVE  FALSE
    <3>1. o # turn /\ ~Told(o) /\ log'[o] = log[o]
      BY <1>3, <1>6, <2>2
    <3>2. QED
      BY <1>1, <2>2, <3>1 DEF Outlives
  <2>3. QED
    BY <2>1, <2>2 DEF Outlives
<1>11. QED
  BY <1>5, <1>8, <1>9, <1>10

LEMMA ObserverPanicsInv ==
    ASSUME ClientInv, ObserverPanics
    PROVE  ClientInv'
<1> USE DEF ClientInv
<1>1. /\ pc = "emit" /\ emitting \in EventTypes /\ Delivered
      /\ cancelled' = cancelled /\ panics' = panics + 1 /\ panics' > 0
  BY DEF ObserverPanics, Broadcast, ClientTypes
<1>2. /\ log' \in [All -> Seq(Entries)]
      /\ TerminalOutlivesContext'
      /\ \A o \in All : \A i \in DOMAIN log'[o] : ~log'[o][i].live => cancelled'
  BY <1>1, DeliveredOutlives, DeliveredSays
<1>3. CASE Recover
  <2>1. Emit("request.failed", "returned") /\ err' = "panic"
    BY <1>3 DEF Recover, ReportPanic
  <2>2. turn' \in All /\ Outlives'
    BY <1>1, <1>2, <2>1, EmitOutlives, RunAssumption DEF Emit, All
  <2>3. ClientTypes' /\ Broadcast'
    BY <1>1, <1>2, <2>1, <2>2
       DEF ClientTypes, Broadcast, Emit, Detached, EventTypes, Final, Ending
  <2>4. Begins' /\ Ends'
    BY <1>1, <2>1, NoneTold DEF Begins, Ends
  <2>5. QED
    BY <2>2, <2>3, <2>4
<1>4. CASE pc' = "panicked" /\ UNCHANGED <<emission, recovering, err>>
  <2>1. ClientTypes' /\ Broadcast'
    BY <1>1, <1>2, <1>4 DEF ClientTypes, Broadcast, emission
  <2>2. Begins' /\ Ends' /\ Outlives'
    BY <1>1, <1>2, <1>4 DEF Begins, Ends, Outlives, Concluding
  <2>3. QED
    BY <2>1, <2>2
<1>5. QED
  BY <1>3, <1>4 DEF ObserverPanics

LEMMA SameClient ==
    ASSUME ClientInv, UNCHANGED <<pc, emission, err, cancelled, log, panics>>
    PROVE  ClientInv'
<1> USE DEF ClientInv, emission
<1>1. ClientTypes' /\ Broadcast' /\ Outlives'
  BY DEF ClientTypes, Broadcast, Ending, Outlives, TerminalOutlivesContext, Told
<1>2. Begins' /\ Ends'
  BY DEF Begins, Ends, Finals, Count, Told, Concluding, Ending
<1>3. QED
  BY <1>1, <1>2

LEMMA ContextEndsInv ==
    ASSUME ClientInv, ContextEnds
    PROVE  ClientInv'
<1> USE DEF ClientInv, ContextEnds, emission, outcome
<1>1. ClientTypes' /\ Broadcast' /\ Outlives'
  BY DEF ClientTypes, Broadcast, Ending, Outlives, TerminalOutlivesContext, Told
<1>2. Begins' /\ Ends'
  BY DEF Begins, Ends, Finals, Count, Told, Concluding, Ending
<1>3. QED
  BY <1>1, <1>2

LEMMA ClientInitInv == Init => ClientInv
<1> SUFFICES ASSUME Init PROVE ClientInv
  OBVIOUS
<1>1. log = [o \in All |-> << >>] /\ \A o \in All : log[o] = << >> /\ DOMAIN log[o] = {}
  BY DEF Init
<1>2. ClientTypes /\ Broadcast
  <2>1. << >> \in Seq(Entries) /\ 1 \in All
    BY RunAssumption DEF All
  <2>2. log \in [All -> Seq(Entries)]
    BY <1>1, <2>1
  <2>3. QED
    BY <2>1, <2>2 DEF Init, ClientTypes, Broadcast
<1>3. Begins /\ Outlives
  BY <1>1 DEF Init, Begins, Outlives, TerminalOutlivesContext
<1>4. \A o \in All : Finals(o) = 0
  <2>1. \A o \in All : {i \in DOMAIN log[o] : log[o][i].type \in Final} = {}
    BY <1>1
  <2>2. QED
    BY <2>1, FS_EmptySet DEF Finals, Count
<1>5. Ends
  BY <1>4 DEF Init, Ends, Concluding
<1>6. QED
  BY <1>2, <1>3, <1>5 DEF ClientInv

LEMMA ClientStepInv ==
    ASSUME ClientInv, [Next]_clientVars
    PROVE  ClientInv'
<1>1. CASE RunStarts
  BY <1>1, EmitInv DEF RunStarts, EventTypes, Final
<1>2. CASE \E event \in Progress : HandlerEmits(event)
  <2>1. PICK event \in Progress : HandlerEmits(event)
    BY <1>2
  <2>2. event \in EventTypes /\ event \notin Final /\ event # "request.started"
    BY DEF EventTypes, Progress, Final
  <2>3. QED
    BY <2>1, <2>2, EmitInv DEF HandlerEmits
<1>3. CASE \E r \in {"none", "ok", "bad"}, e \in {"none"} \cup HandlerErrors : HandlerReturns(r, e)
  <2>1. PICK r, e : HandlerReturns(r, e)
    BY <1>3
  <2> DEFINE event == IF Judged(r, e) = "none" THEN "request.completed" ELSE "request.failed"
  <2>2. /\ pc = "handler" /\ Emit(event, "returned") /\ event = Ending'
        /\ UNCHANGED <<cancelled, log, panics>>
    BY <2>1 DEF HandlerReturns, Ending
  <2>3. event \in Final /\ event \in EventTypes /\ event # "request.started"
    BY DEF Final, EventTypes
  <2>4. QED
    BY <2>2, <2>3, EmitInv
<1>4. CASE HandlerPanics
  <2>1. /\ pc = "handler" /\ Emit("request.failed", "returned") /\ err' = "panic"
        /\ UNCHANGED <<cancelled, log, panics>>
    BY <1>4 DEF HandlerPanics, Recover, ReportPanic
  <2>2. QED
    BY <2>1, EmitInv DEF Ending, EventTypes, Final
<1>5. CASE ObserverReturns
  BY <1>5, ObserverReturnsInv
<1>6. CASE ObserverPanics
  BY <1>6, ObserverPanicsInv
<1>7. CASE ContextEnds
  BY <1>7, ContextEndsInv
<1>8. CASE UNCHANGED clientVars
  BY <1>8, SameClient DEF clientVars, outcome
<1>9. QED
  BY <1>1, <1>2, <1>3, <1>4, <1>5, <1>6, <1>7, <1>8 DEF Next

\* Of a call with any handler, what the observers hear is a whole lifecycle, and
\* final events get through.
THEOREM AnyHandler == Spec => [](LifecycleIsComplete /\ TerminalOutlivesContext)
<1>1. Spec => []ClientInv
  BY ClientInitInv, ClientStepInv, PTL DEF Spec
<1>2. ASSUME ClientInv PROVE LifecycleIsComplete /\ TerminalOutlivesContext
  <2>1. ASSUME pc = "returned", NEW o \in All
        PROVE  /\ Last(log[o]).type = Ending
               /\ panics = 0 => Head(log[o]).type = "request.started" /\ Finals(o) = 1
    <3>1. Concluding /\ Told(o)
      BY <2>1 DEF Concluding, Told
    <3>2. QED
      BY <1>2, <2>1, <3>1 DEF ClientInv, Begins, Ends
  <2>2. QED
    BY <1>2, <2>1 DEF LifecycleIsComplete, Ending, ClientInv, Outlives
<1>3. QED
  BY <1>1, <1>2, PTL

\* The retry middleware is one of the handlers that ClientRun allows: the run
\* composed with it takes no step the client alone could not.
Backlogged ==
    /\ backlog \in Seq(Progress)
    /\ \A i, j \in DOMAIN backlog : backlog[i] = backlog[j]

LEMMA RetryListFinite ==
    ASSUME RetryInv, rpc \in {"loop", "delay", "attempt"}
    PROVE  Cardinality(retry) \in Nat /\ (retry # {} => Cardinality(retry) > 0)
           /\ (Cardinality(retry) > 0 => retry # {})
<1> DEFINE kinds == {"flaky", "broken", "absent"}
<1>1. retry = R!Retryable(merged) /\ merged \in R!Results(Minions)
  BY DEF RetryInv, Attempting, RetryTypes
<1>2. DOMAIN merged.by \subseteq Minions /\ merged.missing \subseteq Minions
  BY <1>1, ResultFields
<1>3. retry \in SUBSET (Minions \X kinds)
  BY <1>1, <1>2 DEF R!Retryable, R!Failures, R!Failing, R!Answers
<1>4. IsFiniteSet(kinds)
  <2>1. IsFiniteSet({"flaky"} \cup {"broken"})
    BY FS_Singleton, FS_AddElement
  <2>2. IsFiniteSet({"flaky"} \cup {"broken"} \cup {"absent"})
    BY <2>1, FS_AddElement
  <2>3. kinds = {"flaky"} \cup {"broken"} \cup {"absent"}
    OBVIOUS
  <2>4. QED
    BY <2>2, <2>3
<1> HIDE DEF kinds
<1>5. IsFiniteSet(retry)
  BY <1>3, <1>4, FS_Product, FS_Subset, RetryAssumption
<1>6. QED
  BY <1>5, FS_CardinalityType, FS_EmptySet

\* The steps that give the middleware events to emit.
LEMMA TellStep ==
    ASSUME RetryInv, RunNext, NEW event, NEW list, Tell(event, list),
           RetryScheduled \/ RetryStarted \/ RetriesEnd, list = retry, event \in Progress
    PROVE  /\ Backlogged'
           /\ Len(backlog') = Cardinality(retry) /\ Cardinality(retry) \in Nat
           /\ backlog' # << >> <=> Cardinality(retry) > 0
           /\ backlog' # << >> => Head(backlog') = event
<1>1. rpc \in {"loop", "delay"}
  BY DEF RetryScheduled, RetryStarted, RetriesEnd, Middleware, R!Schedule, R!DelayPasses, R!Finish
<1> DEFINE n == Cardinality(retry)
<1>2. n \in Nat
  BY <1>1, RetryListFinite
<1>3. backlog' = [i \in 1 .. n |-> event]
  BY DEF Tell
<1> HIDE DEF n
<1>4. backlog' \in Seq(Progress) /\ Len(backlog') = n
  BY <1>2, <1>3
<1>5. QED
  BY <1>2, <1>3, <1>4 DEF n, Backlogged

LEMMA TellsRetry ==
    ASSUME RetryScheduled \/ RetryStarted \/ RetriesEnd
    PROVE  \E event \in Progress : Tell(event, retry)
<1>1. {"retry.scheduled", "retry.started", "retry.exhausted"} \subseteq Progress
  BY DEF Progress
<1>2. QED
  BY <1>1 DEF RetryScheduled, RetryStarted, RetriesEnd

LEMMA BackloggedStep ==
    ASSUME RetryInv, Backlogged, [RunNext]_vars
    PROVE  Backlogged'
<1>1. CASE RunNext /\ (RetryScheduled \/ RetryStarted \/ RetriesEnd)
  BY <1>1, TellsRetry, TellStep
<1>2. CASE backlog' = backlog
  BY <1>2 DEF Backlogged
<1>3. CASE backlog # << >> /\ backlog' = Tail(backlog)
  <2>1. backlog \in Seq(Progress) /\ backlog' \in Seq(Progress)
    BY <1>3 DEF Backlogged
  <2>2. \A i \in DOMAIN backlog' : i + 1 \in DOMAIN backlog /\ backlog'[i] = backlog[i + 1]
    BY <1>3, <2>1
  <2>3. QED
    BY <2>1, <2>2 DEF Backlogged
<1>4. QED
  <2>1. \/ RetryScheduled \/ RetryStarted \/ RetriesEnd
        \/ backlog' = backlog
        \/ backlog # << >> /\ backlog' = Tail(backlog)
    BY DEF RunNext, TransportAnnounces, TransportAnswers, TransportFails, RetryAborted,
           MiddlewareEmits, MiddlewareReturns, Client, Silent, vars, RetryScheduled, RetryStarted,
           RetriesEnd
  <2>2. CASE UNCHANGED vars
    BY <2>2 DEF vars, Backlogged
  <2>3. QED
    BY <1>1, <1>2, <1>3, <2>1, <2>2

\* What the middleware does to itself.
LEMMA MiddlewareQuiet ==
    ASSUME TransportAnswers \/ TransportFails \/ RetryScheduled \/ RetryAborted
           \/ RetryStarted \/ RetriesEnd
    PROVE  UNCHANGED clientVars /\ pc = "handler" /\ backlog = << >>
<1>1. cancelled' = cancelled
  BY DEF TransportAnswers, TransportFails, RetryScheduled, RetryAborted, RetryStarted, RetriesEnd,
         Middleware, R!FirstRunRetried, R!FirstRunReturned, R!AttemptReturns, R!FirstRunFails,
         R!AttemptFails, R!Schedule, R!DelayAborted, R!DelayPasses, R!Finish
<1>2. UNCHANGED <<pc, emission, recovering, outcome, log, panics>> /\ pc = "handler"
      /\ backlog = << >>
  BY DEF TransportAnswers, TransportFails, RetryScheduled, RetryAborted, RetryStarted, RetriesEnd,
         Middleware
<1>3. QED
  BY <1>1, <1>2 DEF clientVars

LEMMA ImplementsStep ==
    ASSUME RetryInv, Backlogged, [RunNext]_vars
    PROVE  [Next]_clientVars
<1>1. CASE TransportAnnounces
  BY <1>1 DEF TransportAnnounces, Next, Progress
<1>2. CASE MiddlewareEmits
  <2>1. Head(backlog) \in Progress /\ HandlerEmits(Head(backlog))
    BY <1>2 DEF MiddlewareEmits, Backlogged
  <2>2. QED
    BY <2>1 DEF Next
<1>3. CASE MiddlewareReturns
  <2>1. /\ ResultKind \in {"none", "ok", "bad"} /\ herr \in {"none"} \cup HandlerErrors
        /\ HandlerReturns(ResultKind, herr)
    BY <1>3 DEF MiddlewareReturns, ResultKind, RetryInv, RetryTypes, HandlerErrors
  <2>2. QED
    BY <2>1 DEF Next
<1>4. CASE Client
  BY <1>4 DEF Client, Next
<1>5. CASE TransportAnswers \/ TransportFails \/ RetryScheduled \/ RetryAborted
           \/ RetryStarted \/ RetriesEnd
  BY <1>5, MiddlewareQuiet
<1>6. CASE UNCHANGED vars
  BY <1>6 DEF vars
<1>7. QED
  BY <1>1, <1>2, <1>3, <1>4, <1>5, <1>6 DEF RunNext

LEMMA InitBacklogged == RunInit => Backlogged
  BY DEF RunInit, Backlogged

\* Client.Run with the retry middleware implements Client.Run with an open handler
\* (retry.go's handler emits, returns and fails as any handler may).
THEOREM RunImplementsClient == RunSpec => Spec
<1>1. RunInit => Init
  BY DEF RunInit
<1>2. RunSpec => []Backlogged
  <2>1. Inv /\ Backlogged /\ [RunNext]_vars => Backlogged'
    BY BackloggedStep DEF Inv
  <2>2. QED
    BY InvHolds, InitBacklogged, <2>1, PTL DEF RunSpec
<1>3. Inv /\ Backlogged /\ [RunNext]_vars => [Next]_clientVars
  BY ImplementsStep DEF Inv
<1>4. QED
  BY InvHolds, <1>1, <1>2, <1>3, PTL DEF RunSpec, Spec

\* The lifecycle every observer hears ends as Run does for its caller, and only
\* once; MultiObserver stops at an observer that panics.
THEOREM LifecycleEnds == RunSpec => []LifecycleIsComplete
  BY RunImplementsClient, AnyHandler, PTL

\* An observer that was given an event with an ended context is given every
\* terminal event with a live one, for any moment at which the context may end.
THEOREM TerminalGetsThrough == RunSpec => []TerminalOutlivesContext
  BY RunImplementsClient, AnyHandler, PTL

------------------------------------------------------------------------------
(***************************************************************************)
(* The retries as they are told.  An event of the middleware is in one of  *)
(* three places: it waits in the backlog, it is broadcast and the turn of  *)
(* the observer is still to come, or the observer has heard it.            *)
(***************************************************************************)
InHand(o, type) == IF pc = "emit" /\ emitting = type /\ ~Told(o) THEN 1 ELSE 0

Waiting(type) == IF backlog # << >> /\ Head(backlog) = type THEN Len(backlog) ELSE 0

Due(o, type) == Heard(o, type) + InHand(o, type) + Waiting(type)

\* The retries that were scheduled and did not start.
Unstarted == IF rpc = "delay" \/ herr = "cancelled" THEN Cardinality(retry) ELSE 0

Telling ==
    panics = 0 /\ err # "panic" => \A o \in All :
        /\ Due(o, "retry.scheduled") = Due(o, "retry.started") + Unstarted
        /\ Due(o, "retry.exhausted") > 0 => rpc = "returned" /\ herr = "execution"

\* What Run returns is what the middleware did, once it has emitted its events.
Answering ==
    /\ Concluding => \/ err = "panic"
                     \/ rpc = "returned" /\ backlog = << >> /\ err = Judged(ResultKind, herr)
    /\ ~Concluding /\ pc # "panicked" => err = "none"

RunInv == Inv /\ ClientInv /\ Backlogged /\ Telling /\ Answering

RetryEvents == {"retry.scheduled", "retry.started", "retry.exhausted"}

LEMMA HeardType ==
    ASSUME ClientTypes, NEW o \in All, NEW type
    PROVE  Heard(o, type) \in Nat
<1> DEFINE some == {i \in DOMAIN log[o] : log[o][i].type \in {type}}
<1>1. log[o] \in Seq(Entries) /\ some \in SUBSET (1 .. Len(log[o]))
  BY DEF ClientTypes
<1>2. IsFiniteSet(some)
  BY <1>1, FS_Interval, FS_Subset
<1>3. QED
  BY <1>2, FS_CardinalityType DEF Heard, Count

LEMMA DueType ==
    ASSUME ClientTypes, Backlogged, NEW o \in All, NEW type
    PROVE  /\ Heard(o, type) \in Nat /\ InHand(o, type) \in Nat /\ Waiting(type) \in Nat
           /\ Due(o, type) \in Nat
<1>1. Waiting(type) \in Nat
  BY DEF Waiting, Backlogged
<1>2. QED
  BY <1>1, HeardType DEF Due, InHand

LEMMA AnsweringStep ==
    ASSUME Answering, Broadcast, RunNext
    PROVE  Answering'
<1>1. CASE (err' = "panic" /\ Concluding') \/ pc' = "panicked"
  BY <1>1 DEF Answering, Concluding
<1>2. CASE MiddlewareReturns
  <2>1. /\ err' = Judged(ResultKind, herr) /\ UNCHANGED <<rpc, herr, merged, backlog>>
        /\ rpc = "returned" /\ backlog = << >> /\ Concluding'
    BY <1>2 DEF MiddlewareReturns, HandlerReturns, retryVars, Emit, Concluding
  <2>2. ResultKind' = ResultKind
    BY <2>1 DEF ResultKind, R!OK, R!Failures
  <2>3. QED
    BY <2>1, <2>2 DEF Answering, Judged
<1>3. CASE UNCHANGED <<retryVars, backlog>> /\ (ObserverReturns \/ ContextEnds)
  <2>1. UNCHANGED <<rpc, herr, merged, backlog, err>>
    BY <1>3 DEF ObserverReturns, ContextEnds, retryVars, outcome
  <2>2. (Concluding' <=> Concluding) /\ pc # "panicked"
    BY <1>3 DEF ObserverReturns, ContextEnds, emission, Concluding, Broadcast
  <2>3. ResultKind' = ResultKind
    BY <2>1 DEF ResultKind, R!OK, R!Failures
  <2>4. QED
    BY <2>1, <2>2, <2>3 DEF Answering, Judged
<1>4. CASE TransportAnnounces \/ MiddlewareEmits \/ RunStarts
  BY <1>4 DEF TransportAnnounces, MiddlewareEmits, RunStarts, HandlerEmits, Emit, Answering,
              Concluding, outcome
<1>5. CASE TransportAnswers \/ TransportFails \/ RetryScheduled \/ RetryAborted
           \/ RetryStarted \/ RetriesEnd
  BY <1>5, MiddlewareQuiet DEF clientVars, outcome, emission, Answering, Concluding
<1>6. CASE HandlerPanics \/ ObserverPanics
  BY <1>1, <1>6 DEF HandlerPanics, ObserverPanics, Recover, ReportPanic, Emit, Concluding
<1>7. QED
  BY <1>2, <1>3, <1>4, <1>5, <1>6 DEF RunNext, Client

LEMMA DueUnchanged ==
    ASSUME UNCHANGED <<pc, emission, log, backlog>>, NEW o, NEW type
    PROVE  Due(o, type)' = Due(o, type)
  BY DEF Due, Heard, Count, InHand, Waiting, Told, emission

\* An event the middleware did not announce before changes what is due only if it
\* is one of its own.
LEMMA EmitDue ==
    ASSUME ClientTypes, Backlogged, pc \in {"start", "handler"}, NEW event, NEW then,
           Emit(event, then), UNCHANGED <<log, backlog>>, NEW o \in All, NEW type, event # type
    PROVE  Due(o, type)' = Due(o, type)
<1>1. InHand(o, type) = 0 /\ InHand(o, type)' = 0
  BY DEF InHand, Emit
<1>2. Heard(o, type)' = Heard(o, type) /\ Waiting(type)' = Waiting(type)
  BY DEF Heard, Count, Waiting
<1>3. QED
  BY <1>1, <1>2 DEF Due

LEMMA MiddlewareEmitsDue ==
    ASSUME ClientTypes, Backlogged, MiddlewareEmits, NEW o \in All, NEW type
    PROVE  Due(o, type)' = Due(o, type)
<1> DEFINE event == Head(backlog)
<1>1. /\ pc = "handler" /\ Emit(event, "handler") /\ log' = log
      /\ backlog # << >> /\ backlog' = Tail(backlog)
  BY DEF MiddlewareEmits, HandlerEmits
<1>2. InHand(o, type) = 0 /\ InHand(o, type)' = IF event = type THEN 1 ELSE 0
  <2>1. ~Told(o)'
    BY <1>1, NoneTold
  <2>2. QED
    BY <1>1, <2>1 DEF InHand, Emit
<1>3. Heard(o, type)' = Heard(o, type)
  BY <1>1 DEF Heard, Count
<1>4. /\ backlog \in Seq(Progress) /\ Len(backlog) \in Nat /\ Len(backlog) > 0
      /\ Len(backlog') = Len(backlog) - 1
      /\ backlog' # << >> <=> Len(backlog) > 1
      /\ backlog' # << >> => Head(backlog') = event
  <2>1. backlog \in Seq(Progress) /\ backlog' \in Seq(Progress) /\ Len(backlog) > 0
        /\ Len(backlog') = Len(backlog) - 1
    BY <1>1 DEF Backlogged
  <2>2. backlog' # << >> <=> Len(backlog) > 1
    BY <2>1
  <2>3. ASSUME backlog' # << >> PROVE Head(backlog') = event
    <3>1. Head(backlog') = backlog[2] /\ event = backlog[1] /\ 2 \in DOMAIN backlog /\ 1 \in DOMAIN backlog
      BY <1>1, <2>1, <2>2, <2>3
    <3>2. QED
      BY <3>1 DEF Backlogged
  <2>4. QED
    BY <2>1, <2>2, <2>3
<1> HIDE DEF event
<1>5. Waiting(type) = IF event = type THEN Len(backlog) ELSE 0
  BY <1>1 DEF Waiting, event
<1>6. Waiting(type)' = IF event = type THEN Len(backlog) - 1 ELSE 0
  <2>1. Waiting(type)' = IF backlog' # << >> /\ Head(backlog') = type THEN Len(backlog') ELSE 0
    BY DEF Waiting
  <2>2. QED
    BY <1>4, <2>1
<1>7. Heard(o, type) \in Nat
  BY HeardType
<1>8. QED
  BY <1>2, <1>3, <1>4, <1>5, <1>6, <1>7 DEF Due

LEMMA ObserverReturnsDue ==
    ASSUME ClientInv, Backlogged, ObserverReturns, backlog' = backlog, NEW o \in All, NEW type
    PROVE  Due(o, type)' = Due(o, type)
<1>1. /\ pc = "emit" /\ emitting \in EventTypes /\ Delivered /\ emitting' = emitting
      /\ \/ turn < Observers /\ turn' = turn + 1 /\ pc' = "emit"
         \/ ~(turn < Observers) /\ turn' = turn /\ pc' = resume
      /\ resume \in {"handler", "returned"} /\ turn \in 1 .. Observers /\ Observers \in Nat
  BY RunAssumption
     DEF ClientInv, ClientTypes, Broadcast, All, ObserverReturns, MoreToCall, emission
<1>2. Heard(o, type)' = Heard(o, type) + (IF o = turn /\ emitting = type THEN 1 ELSE 0)
      /\ Heard(o, type) \in Nat
  BY <1>1, CountDelivered DEF Heard, ClientInv
<1>3. InHand(o, type) = IF emitting = type /\ ~(o < turn) THEN 1 ELSE 0
  BY <1>1 DEF InHand, Told
<1>4. InHand(o, type)' = IF emitting = type /\ ~(o < turn) /\ o # turn THEN 1 ELSE 0
  <2>1. InHand(o, type)' = IF pc' = "emit" /\ emitting' = type /\ ~Told(o)' THEN 1 ELSE 0
    BY DEF InHand
  <2>2. Told(o)' <=> (pc' = "emit" => o < turn')
    BY DEF Told
  <2>3. QED
    BY <1>1, <2>1, <2>2 DEF All
<1>5. Waiting(type)' = Waiting(type) /\ Waiting(type) \in Nat
  BY DueType DEF Waiting, ClientInv
<1>6. QED
  BY <1>1, <1>2, <1>3, <1>4, <1>5 DEF Due, All

\* The events the middleware is to emit are due to every observer at once.
LEMMA TellDue ==
    ASSUME RetryInv, ClientTypes, RunNext, RetryScheduled \/ RetryStarted \/ RetriesEnd,
           NEW event \in Progress, Tell(event, retry), NEW o \in All, NEW type
    PROVE  /\ Due(o, type)' = Due(o, type) + (IF event = type THEN Cardinality(retry) ELSE 0)
           /\ Cardinality(retry) \in Nat
<1>1. /\ UNCHANGED clientVars /\ pc = "handler" /\ backlog = << >>
  BY MiddlewareQuiet
<1>2. Heard(o, type)' = Heard(o, type) /\ Heard(o, type) \in Nat
  BY <1>1, HeardType DEF clientVars, Heard, Count
<1>3. InHand(o, type) = 0 /\ InHand(o, type)' = 0
  BY <1>1 DEF clientVars, InHand
<1>4. Waiting(type) = 0
  BY <1>1 DEF Waiting
<1>5. Waiting(type)' = (IF event = type THEN Cardinality(retry) ELSE 0)
      /\ Cardinality(retry) \in Nat
  <2>1. /\ Len(backlog') = Cardinality(retry) /\ Cardinality(retry) \in Nat
        /\ backlog' # << >> <=> Cardinality(retry) > 0
        /\ backlog' # << >> => Head(backlog') = event
    BY TellStep
  <2>2. Waiting(type)' = IF backlog' # << >> /\ Head(backlog') = type THEN Len(backlog') ELSE 0
    BY DEF Waiting
  <2>3. QED
    BY <2>1, <2>2
<1>6. QED
  BY <1>2, <1>3, <1>4, <1>5 DEF Due

LEMMA TellingStep ==
    ASSUME RunInv, RunNext
    PROVE  Telling'
<1> USE DEF RunInv, Inv, ClientInv
<1>1. CASE HandlerPanics \/ ObserverPanics
  <2>1. err' = "panic" \/ panics' > 0
    BY <1>1 DEF HandlerPanics, ObserverPanics, Recover, ClientTypes
  <2>2. QED
    BY <2>1 DEF Telling
<1> SUFFICES ASSUME ~(HandlerPanics \/ ObserverPanics), panics' = 0, err' # "panic", NEW o \in All
             PROVE  /\ Due(o, "retry.scheduled")' = Due(o, "retry.started")' + Unstarted'
                    /\ Due(o, "retry.exhausted")' > 0 => rpc' = "returned" /\ herr' = "execution"
  BY <1>1 DEF Telling
<1>2. panics = 0 /\ (err # "panic" \/ MiddlewareReturns)
  BY DEF RunNext, TransportAnnounces, MiddlewareEmits, HandlerEmits, MiddlewareReturns,
         HandlerReturns, Client, RunStarts, ObserverReturns, ContextEnds, outcome, clientVars,
         TransportAnswers, TransportFails, RetryScheduled, RetryAborted, RetryStarted, RetriesEnd,
         Middleware
<1>3. err # "panic"
  BY <1>2 DEF MiddlewareReturns, HandlerReturns, Answering, Concluding
<1>4. /\ Due(o, "retry.scheduled") = Due(o, "retry.started") + Unstarted
      /\ Due(o, "retry.exhausted") > 0 => rpc = "returned" /\ herr = "execution"
  BY <1>2, <1>3 DEF Telling
<1>5. \A type : Due(o, type) \in Nat
  BY DueType
<1>6. CASE UNCHANGED retryVars /\ \A type \in RetryEvents : Due(o, type)' = Due(o, type)
  <2>1. UNCHANGED <<rpc, herr, retry>>
    BY <1>6 DEF retryVars
  <2>2. Unstarted' = Unstarted
    BY <2>1 DEF Unstarted
  <2>3. QED
    BY <1>4, <1>6, <2>1, <2>2 DEF RetryEvents
<1>7. CASE TransportAnnounces
  <2>1. /\ pc = "handler" /\ Emit("minion.returned", "handler")
        /\ UNCHANGED <<log, backlog, retryVars>>
    BY <1>7 DEF TransportAnnounces, HandlerEmits
  <2>2. QED
    BY <1>6, <2>1, EmitDue DEF RetryEvents
<1>8. CASE MiddlewareEmits
  BY <1>6, <1>8, MiddlewareEmitsDue DEF MiddlewareEmits
<1>9. CASE MiddlewareReturns
  <2>1. /\ pc = "handler" /\ UNCHANGED <<log, backlog, retryVars>>
        /\ Emit(IF Judged(ResultKind, herr) = "none" THEN "request.completed"
                ELSE "request.failed", "returned")
    BY <1>9 DEF MiddlewareReturns, HandlerReturns
  <2>2. QED
    BY <1>6, <2>1, EmitDue DEF RetryEvents
<1>10. CASE Client
  <2>1. UNCHANGED <<backlog, retryVars>>
    BY <1>10 DEF Client
  <2>2. CASE RunStarts
    BY <1>6, <2>1, <2>2, EmitDue DEF RunStarts, RetryEvents
  <2>3. CASE ObserverReturns
    BY <1>6, <2>1, <2>3, ObserverReturnsDue
  <2>4. CASE ContextEnds
    BY <1>6, <2>1, <2>4, DueUnchanged DEF ContextEnds
  <2>5. QED
    BY <1>10, <2>2, <2>3, <2>4 DEF Client
<1>11. CASE RetryScheduled
  <2>1. /\ rpc = "loop" /\ rpc' = "delay" /\ UNCHANGED <<herr, retry>>
        /\ Tell("retry.scheduled", retry)
    BY <1>11 DEF RetryScheduled, Middleware, R!Schedule
  <2>2. /\ Due(o, "retry.scheduled")' = Due(o, "retry.scheduled") + Cardinality(retry)
        /\ Due(o, "retry.started")' = Due(o, "retry.started")
        /\ Due(o, "retry.exhausted")' = Due(o, "retry.exhausted")
        /\ Cardinality(retry) \in Nat
    BY <1>5, <1>11, <2>1, TellDue DEF Progress
  <2>3. herr = "none" /\ Unstarted = 0 /\ Unstarted' = Cardinality(retry)
    BY <2>1 DEF RetryInv, Attempting, Unstarted
  <2>4. QED
    BY <1>4, <1>5, <2>1, <2>2, <2>3
<1>12. CASE RetryStarted
  <2>1. /\ rpc = "delay" /\ rpc' = "attempt" /\ UNCHANGED <<herr, retry>>
        /\ Tell("retry.started", retry)
    BY <1>12 DEF RetryStarted, Middleware, R!DelayPasses
  <2>2. /\ Due(o, "retry.started")' = Due(o, "retry.started") + Cardinality(retry)
        /\ Due(o, "retry.scheduled")' = Due(o, "retry.scheduled")
        /\ Due(o, "retry.exhausted")' = Due(o, "retry.exhausted")
        /\ Cardinality(retry) \in Nat
    BY <1>5, <1>12, <2>1, TellDue DEF Progress
  <2>3. herr = "none" /\ Unstarted = Cardinality(retry) /\ Unstarted' = 0
    BY <2>1 DEF RetryInv, Attempting, Unstarted
  <2>4. QED
    BY <1>4, <1>5, <2>1, <2>2, <2>3
<1>13. CASE RetriesEnd
  <2>1. /\ rpc = "loop" /\ rpc' = "returned" /\ UNCHANGED <<retry, merged>>
        /\ herr' = (IF R!OK(merged) THEN "none" ELSE "execution")
        /\ Tell("retry.exhausted", retry)
    BY <1>13 DEF RetriesEnd, Middleware, R!Finish
  <2>2. /\ Due(o, "retry.exhausted")' = Due(o, "retry.exhausted") + Cardinality(retry)
        /\ Due(o, "retry.scheduled")' = Due(o, "retry.scheduled")
        /\ Due(o, "retry.started")' = Due(o, "retry.started")
        /\ Cardinality(retry) \in Nat
    BY <1>5, <1>13, <2>1, TellDue DEF Progress
  <2>3. herr = "none" /\ Unstarted = 0 /\ Unstarted' = 0
    BY <2>1 DEF RetryInv, Attempting, Unstarted
  <2>4. ASSUME Cardinality(retry) > 0 PROVE herr' = "execution"
    <3>1. retry # {} /\ retry = R!Retryable(merged)
      BY <2>1, <2>4, RetryListFinite DEF RetryInv, Attempting
    <3>2. R!Failures(merged) # {}
      BY <3>1 DEF R!Retryable
    <3>3. QED
      BY <2>1, <3>2 DEF R!OK
  <2>5. Due(o, "retry.exhausted") = 0
    BY <1>4, <1>5, <2>1
  <2>6. QED
    BY <1>4, <1>5, <2>1, <2>2, <2>3, <2>4, <2>5
<1>14. CASE TransportAnswers \/ TransportFails \/ RetryAborted
  <2>1. UNCHANGED clientVars /\ backlog' = backlog
    BY <1>14, MiddlewareQuiet DEF TransportAnswers, TransportFails, RetryAborted, Silent
  <2>2. \A type : Due(o, type)' = Due(o, type)
    BY <2>1, DueUnchanged DEF clientVars
  <2>3. rpc # "returned" /\ herr = "none"
    BY <1>14 DEF TransportAnswers, TransportFails, RetryAborted, Middleware, R!FirstRunRetried,
                 R!FirstRunReturned, R!AttemptReturns, R!FirstRunFails, R!AttemptFails,
                 R!DelayAborted, RetryInv, Attempting
  <2>4. Unstarted' = Unstarted
    <3>1. CASE TransportAnswers \/ TransportFails
      <4>1. rpc # "delay" /\ rpc' # "delay" /\ herr' # "cancelled"
        BY <2>3, <3>1 DEF TransportAnswers, TransportFails, Middleware, R!FirstRunRetried,
                 R!FirstRunReturned, R!AttemptReturns, R!FirstRunFails, R!AttemptFails
      <4>2. QED
        BY <2>3, <4>1 DEF Unstarted
    <3>2. CASE RetryAborted
      BY <3>2 DEF RetryAborted, Middleware, R!DelayAborted, Unstarted
    <3>3. QED
      BY <1>14, <3>1, <3>2
  <2>5. QED
    BY <1>4, <1>5, <2>2, <2>3, <2>4
<1>15. QED
  BY <1>7, <1>8, <1>9, <1>10, <1>11, <1>12, <1>13, <1>14 DEF RunNext

LEMMA RunStep ==
    ASSUME RunInv, [RunNext]_vars
    PROVE  RunInv'
<1>1. Inv' /\ Backlogged' /\ ClientInv'
  BY StepInv, BackloggedStep, ImplementsStep, ClientStepInv DEF RunInv, Inv
<1>2. CASE RunNext
  BY <1>1, <1>2, TellingStep, AnsweringStep DEF RunInv, ClientInv
<1>3. CASE UNCHANGED vars
  <2>1. UNCHANGED <<rpc, herr, merged, retry, pc, emission, resume, log, backlog, err, panics>>
    BY <1>3 DEF vars, retryVars, clientVars, emission, outcome
  <2>2. \A o \in All, type \in RetryEvents : Due(o, type)' = Due(o, type)
    BY <2>1, DueUnchanged
  <2>3. Unstarted' = Unstarted /\ (Concluding' <=> Concluding)
    BY <2>1 DEF Unstarted, Concluding
  <2>4. ResultKind' = ResultKind
    BY <2>1 DEF ResultKind, R!OK, R!Failures
  <2>5. Telling'
    BY <2>1, <2>2, <2>3 DEF RunInv, Telling, RetryEvents
  <2>6. Answering'
    BY <2>1, <2>3, <2>4 DEF RunInv, Answering, Judged
  <2>7. QED
    BY <1>1, <2>5, <2>6 DEF RunInv
<1>4. QED
  BY <1>2, <1>3

LEMMA RunInitInv == RunInit => RunInv
<1> SUFFICES ASSUME RunInit PROVE RunInv
  OBVIOUS
<1>1. Inv /\ ClientInv /\ Backlogged
  BY InitInv, ClientInitInv, InitBacklogged DEF RunInit
<1>2. Answering
  BY DEF RunInit, Init, Answering, Concluding
<1>3. \A o \in All, type \in RetryEvents : Due(o, type) = 0
  <2> SUFFICES ASSUME NEW o \in All, NEW type \in RetryEvents PROVE Due(o, type) = 0
    OBVIOUS
  <2>1. log[o] = << >> /\ backlog = << >> /\ pc = "start"
    BY DEF RunInit, Init
  <2>2. {i \in DOMAIN log[o] : log[o][i].type \in {type}} = {}
    BY <2>1
  <2>3. Heard(o, type) = 0
    BY <2>2, FS_EmptySet DEF Heard, Count
  <2>4. QED
    BY <2>1, <2>3 DEF Due, InHand, Waiting
<1>4. Unstarted = 0
  BY DEF RunInit, R!Init, Unstarted
<1>5. Telling
  BY <1>3, <1>4 DEF Telling, RetryEvents
<1>6. QED
  BY <1>1, <1>2, <1>5 DEF RunInv

\* Unless an observer panics, each hears of every retry that was scheduled, that it
\* starts, but for those a context that ended prevented; and of retries that are
\* exhausted only if Run fails.
THEOREM RetriesAreHeard == RunSpec => []RetriesAreTold
<1>1. ASSUME RunInv PROVE RetriesAreTold
  <2> SUFFICES ASSUME pc = "returned", panics = 0, err # "panic", NEW o \in All
               PROVE  /\ Heard(o, "retry.scheduled") = Heard(o, "retry.started")
                            + (IF err = "cancelled" THEN Cardinality(retry) ELSE 0)
                      /\ Heard(o, "retry.exhausted") > 0 => err = "execution"
    BY DEF RetriesAreTold
  <2>1. rpc = "returned" /\ backlog = << >> /\ err = Judged(ResultKind, herr)
    BY <1>1 DEF RunInv, Answering, Concluding
  <2>2. \A type : Heard(o, type) \in Nat /\ Due(o, type) = Heard(o, type)
    <3>1. \A type : Heard(o, type) \in Nat
      BY <1>1, HeardType DEF RunInv, ClientInv
    <3>2. \A type : InHand(o, type) = 0 /\ Waiting(type) = 0
      BY <2>1 DEF InHand, Waiting
    <3>3. QED
      BY <3>1, <3>2 DEF Due
  <2>3. /\ Heard(o, "retry.scheduled") = Heard(o, "retry.started") + Unstarted
        /\ Heard(o, "retry.exhausted") > 0 => herr = "execution"
    BY <1>1, <2>2 DEF RunInv, Telling
  <2>4. Unstarted = IF err = "cancelled" THEN Cardinality(retry) ELSE 0
    BY <2>1 DEF Unstarted, Judged
  <2>5. herr = "execution" => err = "execution"
    BY <2>1 DEF Judged
  <2>6. QED
    BY <2>3, <2>4, <2>5
<1>2. QED
  BY RunInitInv, RunStep, <1>1, PTL DEF RunSpec
==============================================================================
