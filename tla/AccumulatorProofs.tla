-------------------------- MODULE AccumulatorProofs --------------------------
(***************************************************************************)
(* What the accumulator's methods preserve and return, for any minions,    *)
(* job IDs and order of calls.                                             *)
(***************************************************************************)
EXTENDS Accumulator, FiniteSetTheorems, TLAPS

LEMMA NoReturnIsNotAReturn ==
    \A ret \in Return : ret # NoReturn
  BY DEF Return, NoReturn, Value

LEMMA NewAccumulatorType ==
    NewAccumulator \in AccType
  BY DEF NewAccumulator, AccType, JidOrNone, Entry

LEMMA SetJIDType ==
    ASSUME NEW acc \in AccType, NEW jid \in JidOrNone
    PROVE  SetJID(acc, jid) \in AccType
  BY DEF SetJID, AccType, JidOrNone

LEMMA SetExpectedType ==
    ASSUME NEW acc \in AccType, NEW jid \in JidOrNone, NEW S \in SUBSET Minions
    PROVE  SetExpected(acc, jid, S) \in AccType
  BY SetJIDType DEF SetExpected, AccType

LEMMA AddMinionType ==
    ASSUME NEW acc \in AccType, NEW m \in Minions, NEW ret \in Return
    PROVE  AddMinion(acc, m, ret) \in AccType
<1> DEFINE stored == Stamped(acc, ret)
<1>1. stored \in Return
  BY DEF Stamped, Return, AccType
<1>2. stored.jid \in JidOrNone /\ stored \in Entry
  BY <1>1 DEF Return, Entry
<1>3. Adopted(acc, stored) \in JidOrNone
  BY <1>2 DEF Adopted, AccType
<1> HIDE DEF stored
<1>4. [acc EXCEPT !.jid      = Adopted(acc, stored),
                  !.jids     = @ \cup ({stored.jid} \ {NoJid}),
                  !.byMinion = [@ EXCEPT ![m] = stored],
                  !.emitted  = @ \cup {m}] \in AccType
  BY <1>2, <1>3 DEF AccType, JidOrNone
<1>5. QED
  BY <1>4 DEF AddMinion, stored

LEMMA ResultJIDType ==
    ASSUME NEW acc \in AccType
    PROVE  ResultJID(acc) \in JidOrNone
<1>1. CASE acc.jid # NoJid
  BY <1>1 DEF ResultJID, AccType
<1>2. CASE acc.jid = NoJid /\ Cardinality(acc.jids) = 1
  <2>1. acc.jids # {}
    BY <1>2, FS_EmptySet
  <2>2. (CHOOSE j \in acc.jids : TRUE) \in acc.jids
    BY <2>1
  <2>3. QED
    BY <1>2, <2>2 DEF ResultJID, AccType, JidOrNone
<1>3. CASE acc.jid = NoJid /\ Cardinality(acc.jids) # 1
  BY <1>3 DEF ResultJID, JidOrNone
<1>4. QED
  BY <1>1, <1>2, <1>3

LEMMA ResultInType ==
    ASSUME NEW acc \in AccType
    PROVE  Result(acc) \in ResultType
<1>1. ResultJID(acc) \in JidOrNone
  BY ResultJIDType
<1>2. ASSUME NEW m \in Minions, m \in Returned(acc)
      PROVE  [acc.byMinion[m] EXCEPT !.jid = ResultJID(acc)] \in Entry
  BY <1>1, <1>2 DEF Returned, AccType, Entry, Return
<1>3. \A m \in Minions : acc.byMinion[m] \in Entry
  BY DEF AccType
<1>4. Returned(acc) \subseteq Minions /\ Missing(acc) \subseteq Minions
  BY DEF Returned, Missing, AccType
<1>5. QED
  BY <1>1, <1>2, <1>3, <1>4 DEF Result, ResultType, AccType

LEMMA MergeResultType ==
    ASSUME NEW acc \in AccType, NEW result \in ResultType,
           \A m \in Returned(result) : result.byMinion[m].jid \in Jids
    PROVE  MergeResult(acc, result) \in AccType
<1> DEFINE named == SetJID(acc, result.jid)
           known == IF result.expected = {} THEN named
                    ELSE SetExpected(named, result.jid, result.expected)
           rets  == Returned(result)
<1>1. named \in AccType
  BY SetJIDType DEF ResultType
<1>2. known \in AccType
  BY <1>1, SetExpectedType DEF ResultType
<1>3. \A m \in Minions : Latest(known.byMinion[m], result.byMinion[m]) \in Entry
  BY <1>2 DEF Latest, AccType, ResultType
<1>4. rets \subseteq Minions /\ {result.byMinion[m].jid : m \in rets} \subseteq Jids
  BY DEF Returned
<1> HIDE DEF known, rets
<1>5. [known EXCEPT
            !.byMinion = [m \in Minions |-> Latest(known.byMinion[m], result.byMinion[m])],
            !.jids     = @ \cup {result.byMinion[m].jid : m \in rets},
            !.emitted  = @ \cup rets] \in AccType
  BY <1>2, <1>3, <1>4 DEF AccType
<1>6. QED
  BY <1>5 DEF MergeResult, known, rets

------------------------------------------------------------------------------
\* Which minions an accumulator, and the result built from it, hold.

LEMMA ReturnedOfResult ==
    ASSUME NEW acc \in AccType
    PROVE  /\ Returned(Result(acc)) = Returned(acc)
           /\ Result(acc).missing = Missing(acc)
<1>1. ASSUME NEW m \in Minions, acc.byMinion[m] # NoReturn
      PROVE  [acc.byMinion[m] EXCEPT !.jid = ResultJID(acc)] # NoReturn
  BY <1>1 DEF AccType, Entry, Return, NoReturn, Value
<1>2. QED
  BY <1>1 DEF Result, Returned

LEMMA ReturnedOfAddMinion ==
    ASSUME NEW acc \in AccType, NEW m \in Minions, NEW ret \in Return
    PROVE  Returned(AddMinion(acc, m, ret)) = Returned(acc) \cup {m}
<1>1. Stamped(acc, ret) # NoReturn
  BY DEF Stamped, Return, NoReturn, Value
<1>2. AddMinion(acc, m, ret).byMinion = [acc.byMinion EXCEPT ![m] = Stamped(acc, ret)]
  BY DEF AddMinion, AccType
<1>3. QED
  BY <1>1, <1>2 DEF Returned, AccType

LEMMA SetExpectedKeepsReturns ==
    ASSUME NEW acc \in AccType, NEW jid \in JidOrNone, NEW S \in SUBSET Minions
    PROVE  /\ SetJID(acc, jid).byMinion = acc.byMinion
           /\ SetJID(acc, jid).emitted = acc.emitted
           /\ SetExpected(acc, jid, S).byMinion = acc.byMinion
           /\ SetExpected(acc, jid, S).emitted = acc.emitted
  BY DEF SetExpected, SetJID, AccType

LEMMA ReturnedOfMerge ==
    ASSUME NEW acc \in AccType, NEW result \in ResultType
    PROVE  /\ Returned(MergeResult(acc, result)) = Returned(acc) \cup Returned(result)
           /\ MergeResult(acc, result).emitted = acc.emitted \cup Returned(result)
           /\ \A m \in Returned(result) :
                 MergeResult(acc, result).byMinion[m] = result.byMinion[m]
<1> DEFINE named == SetJID(acc, result.jid)
           known == IF result.expected = {} THEN named
                    ELSE SetExpected(named, result.jid, result.expected)
<1>1. named \in AccType /\ named.byMinion = acc.byMinion /\ named.emitted = acc.emitted
  BY SetJIDType, SetExpectedKeepsReturns DEF ResultType
<1>2. known \in AccType /\ known.byMinion = acc.byMinion /\ known.emitted = acc.emitted
  BY <1>1, SetExpectedType, SetExpectedKeepsReturns DEF ResultType
<1> HIDE DEF known, named
<1>3. /\ MergeResult(acc, result).byMinion =
            [m \in Minions |-> Latest(known.byMinion[m], result.byMinion[m])]
      /\ MergeResult(acc, result).emitted = known.emitted \cup Returned(result)
  BY <1>2 DEF MergeResult, known, named, AccType
<1>4. QED
  BY <1>2, <1>3 DEF Latest, Returned

\* A result built from an accumulator has the accumulator's values, and misses what
\* was expected of it and did not return.
LEMMA ResultSays ==
    ASSUME NEW a \in AccType, a.expectedKnown
    PROVE  /\ Result(a) \in ResultType
           /\ Returned(Result(a)) = Returned(a)
           /\ \A m \in Returned(a) : Result(a).byMinion[m].value = a.byMinion[m].value
           /\ Result(a).missing = a.expected \ Returned(a)
<1>1. Result(a).missing = a.expected \ Returned(a)
  BY ReturnedOfResult DEF Missing
<1>2. ASSUME NEW m \in Returned(a)
      PROVE  Result(a).byMinion[m].value = a.byMinion[m].value
  BY DEF Result, Returned, AccType, Entry, Return
<1>3. QED
  BY <1>1, <1>2, ResultInType, ReturnedOfResult

LEMMA AddMinionSays ==
    ASSUME NEW acc \in AccType, NEW m \in Minions, NEW ret \in Return
    PROVE  LET after == AddMinion(acc, m, ret) IN
           /\ after \in AccType
           /\ after.expectedKnown = acc.expectedKnown /\ after.expected = acc.expected
           /\ Returned(after) = Returned(acc) \cup {m}
           /\ after.byMinion[m].value = ret.value
           /\ \A n \in Minions \ {m} : after.byMinion[n] = acc.byMinion[n]
<1> DEFINE after == AddMinion(acc, m, ret)
<1>1. /\ after.byMinion = [acc.byMinion EXCEPT ![m] = Stamped(acc, ret)]
      /\ after.expectedKnown = acc.expectedKnown /\ after.expected = acc.expected
  BY DEF AddMinion, AccType
<1>2. Stamped(acc, ret).value = ret.value
  BY DEF Stamped, Return
<1>3. after.byMinion[m].value = ret.value
  BY <1>1, <1>2 DEF AccType
<1>4. \A n \in Minions \ {m} : after.byMinion[n] = acc.byMinion[n]
  BY <1>1 DEF AccType
<1>5. QED
  BY <1>1, <1>3, <1>4, AddMinionType, ReturnedOfAddMinion
\* The same for a collector that may not know whom to expect: then it expects those it
\* has, and misses none.
LEMMA ResultIsFaithful ==
    ASSUME NEW a \in AccType
    PROVE  /\ Returned(Result(a)) = Returned(a)
           /\ \A m \in Returned(a) : Result(a).byMinion[m].value = a.byMinion[m].value
           /\ Result(a).missing = Result(a).expected \ Returned(a)
<1>1. ASSUME NEW m \in Returned(a)
      PROVE  Result(a).byMinion[m].value = a.byMinion[m].value
  BY DEF Result, Returned, AccType, Entry, Return
<1>2. Result(a).missing = Result(a).expected \ Returned(a)
  BY DEF Result, Missing
<1>3. QED
  BY <1>1, <1>2, ReturnedOfResult

\* What MergeResult does to the minions the result does not hold, and to the expected set.
LEMMA MergeSays ==
    ASSUME NEW acc \in AccType, NEW result \in ResultType
    PROVE  LET merged == MergeResult(acc, result) IN
           /\ \A m \in Minions \ Returned(result) : merged.byMinion[m] = acc.byMinion[m]
           /\ result.expected # {} => merged.expectedKnown /\ merged.expected = result.expected
           /\ result.expected = {} => /\ merged.expectedKnown = acc.expectedKnown
                                      /\ merged.expected = acc.expected
<1> DEFINE named == SetJID(acc, result.jid)
           known == IF result.expected = {} THEN named
                    ELSE SetExpected(named, result.jid, result.expected)
<1>1. named \in AccType /\ named.byMinion = acc.byMinion
  BY SetJIDType, SetExpectedKeepsReturns DEF ResultType
<1>2. known \in AccType /\ known.byMinion = acc.byMinion
  BY <1>1, SetExpectedType, SetExpectedKeepsReturns DEF ResultType
<1>3. /\ result.expected # {} => known.expectedKnown /\ known.expected = result.expected
      /\ result.expected = {} => /\ known.expectedKnown = acc.expectedKnown
                                 /\ known.expected = acc.expected
  <2>1. SetJID(named, result.jid) \in AccType
    BY <1>1, SetJIDType DEF ResultType
  <2>2. named.expectedKnown = acc.expectedKnown /\ named.expected = acc.expected
    BY DEF SetJID, AccType
  <2>3. QED
    BY <2>1, <2>2 DEF SetExpected, AccType
<1> HIDE DEF known, named
<1>4. /\ MergeResult(acc, result).byMinion =
            [m \in Minions |-> Latest(known.byMinion[m], result.byMinion[m])]
      /\ MergeResult(acc, result).expectedKnown = known.expectedKnown
      /\ MergeResult(acc, result).expected = known.expected
  BY <1>2 DEF MergeResult, known, named, AccType
<1>5. QED
  BY <1>2, <1>3, <1>4 DEF Latest, Returned
==============================================================================
