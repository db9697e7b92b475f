------------------------- MODULE RestTransportProofs -------------------------
(***************************************************************************)
(* Theorems about three parts of the REST transport that share nothing but *)
(* the server: RestAuth, for any number of requests, revocations, expiries *)
(* and failures; InfoProbe, for any number of callers and calls; and       *)
(* EventStream, for any number of frames, any filter and any capacity of   *)
(* its channel.                                                            *)
(***************************************************************************)
EXTENDS RestAuth, InfoProbe, EventStream, FiniteSetTheorems, SequenceTheorems, TLAPS

------------------------------------------------------------------------------
(***************************************************************************)
(* RestAuth.                                                               *)
(***************************************************************************)
LEMMA OwnIsACall ==
    ASSUME TypeOK, NEW r \in Requests
    PROVE  Own(r) \in Calls
  BY DEF TypeOK, Own, Calls

LEMMA InitType ==
    Init => TypeOK
<1> SUFFICES ASSUME Init PROVE TypeOK
  OBVIOUS
<1>1. pc \in [Requests -> PCs] /\ attempt \in [Requests -> {1, 2}]
  BY DEF Init, PCs
<1>2. /\ held \in [Requests -> Nat]
      /\ joined \in [Requests -> Calls \cup {NoCall}]
      /\ login \in [Calls -> Nat]
  BY DEF Init, NoToken
<1>3. revoked \in 0 .. MaxRevocations /\ expiries \in 0 .. MaxExpiries /\ failures \in 0 .. MaxFailures
  BY RequestsAssumption DEF Init
<1>4. QED
  BY <1>1, <1>2, <1>3 DEF Init, TypeOK, NoToken

LEMMA TokenStepType ==
    ASSUME TypeOK, NEW r \in Requests,
           \/ Start(r) \/ TokenCached(r) \/ TokenMisses(r)
           \/ JoinLogin(r) \/ LeadLogin(r) \/ FollowerReturns(r)
    PROVE  TypeOK'
<1> USE DEF TypeOK, Goto, Obtain, PCs, LoggingIn, Ended, loginVars, authVars, saltVars, bounded
<1>1. CASE Start(r)
  BY <1>1 DEF Start
<1>2. CASE TokenCached(r)
  BY <1>2 DEF TokenCached
<1>3. CASE TokenMisses(r)
  BY <1>3 DEF TokenMisses
<1>4. CASE JoinLogin(r)
  <2>1. group \in Requests
    BY <1>4 DEF JoinLogin
  <2>2. Own(group) \in Calls
    BY <2>1, OwnIsACall
  <2>3. QED
    BY <1>4, <2>2 DEF JoinLogin
<1>5. CASE LeadLogin(r)
  BY <1>5 DEF LeadLogin
<1>6. CASE FollowerReturns(r)
  <2>1. joined[r] \in Calls
    BY <1>6 DEF FollowerReturns
  <2>2. login[joined[r]] \in Nat
    BY <2>1
  <2>3. QED
    BY <1>6, <2>2 DEF FollowerReturns
<1>7. QED
  BY <1>1, <1>2, <1>3, <1>4, <1>5, <1>6

LEMMA LoginStepType ==
    ASSUME TypeOK, NEW r \in Requests,
           Recheck(r) \/ SaltIssues(r) \/ CacheToken(r) \/ LoginReturns(r) \/ LoginFails(r)
    PROVE  TypeOK'
<1> USE OwnIsACall
    DEF TypeOK, Goto, Obtain, PCs, LoggingIn, Ended, loginVars, authVars, saltVars, bounded
<1>1. CASE Recheck(r)
  BY <1>1 DEF Recheck
<1>2. CASE SaltIssues(r)
  <2>1. valid' \in SUBSET (1 .. issued')
    BY <1>2 DEF SaltIssues
  <2>2. issued' \in Nat /\ login' \in [Calls -> Nat]
    BY <1>2 DEF SaltIssues
  <2>3. QED
    BY <1>2, <2>1, <2>2 DEF SaltIssues
<1>3. CASE CacheToken(r)
  BY <1>3 DEF CacheToken
<1>4. CASE LoginReturns(r)
  BY <1>4 DEF LoginReturns, Left, Released
<1>5. CASE LoginFails(r)
  <2>1. failures' \in 0 .. MaxFailures /\ causes' \in Nat
    BY <1>5, RequestsAssumption DEF LoginFails
  <2>2. login' \in [Calls -> Nat] /\ ended' \in SUBSET Calls
    BY <1>5 DEF LoginFails, Released, NoToken
  <2>3. QED
    BY <1>5, <2>1, <2>2 DEF LoginFails, Left
<1>6. QED
  BY <1>1, <1>2, <1>3, <1>4, <1>5

LEMMA PostStepType ==
    ASSUME TypeOK, NEW r \in Requests,
           SaltAccepts(r) \/ SaltRejects(r) \/ PostFails(r) \/ Invalidate(r) \/ Refuse(r)
    PROVE  TypeOK'
<1> USE DEF TypeOK, Goto, PCs, LoggingIn, Ended, loginVars, authVars, saltVars, bounded
<1>1. CASE SaltAccepts(r)
  BY <1>1 DEF SaltAccepts
<1>2. CASE SaltRejects(r)
  BY <1>2 DEF SaltRejects
<1>3. CASE PostFails(r)
  BY <1>3, RequestsAssumption DEF PostFails
<1>4. CASE Invalidate(r)
  <2>1. attempt' \in [Requests -> {1, 2}] /\ causes' \in Nat
    BY <1>4 DEF Invalidate, MayRetry
  <2>2. QED
    BY <1>4, <2>1 DEF Invalidate, NoToken
<1>5. CASE Refuse(r)
  BY <1>5 DEF Refuse
<1>6. QED
  BY <1>1, <1>2, <1>3, <1>4, <1>5

LEMMA NextType ==
    TypeOK /\ [Next]_vars => TypeOK'
<1> SUFFICES ASSUME TypeOK, [Next]_vars PROVE TypeOK'
  OBVIOUS
<1>1. CASE \E r \in Requests :
             Start(r) \/ RequestStep(r) \/ SaltStep(r) \/ LoginFails(r) \/ PostFails(r)
  BY <1>1, TokenStepType, LoginStepType, PostStepType DEF RequestStep, SaltStep
<1>2. CASE Expires
  <2>1. expiries' \in 0 .. MaxExpiries /\ causes' \in Nat
    BY <1>2, RequestsAssumption DEF TypeOK, Expires
  <2>2. QED
    BY <1>2, <2>1 DEF TypeOK, Expires, loginVars, saltVars
<1>3. CASE SaltRevokes
  BY <1>3, RequestsAssumption DEF TypeOK, SaltRevokes, loginVars, authVars, bounded
<1>4. CASE UNCHANGED vars
  BY <1>4 DEF TypeOK, vars, loginVars, authVars, saltVars, bounded
<1>5. QED
  BY <1>1, <1>2, <1>3, <1>4 DEF Next

\* Every variable keeps to its values; no request is sent more than twice.
THEOREM TypeCorrect == Spec => []TypeOK
  BY InitType, NextType, PTL DEF Spec
------------------------------------------------------------------------------
\* Nobody waits for a login that will not be answered.

\* The call a follower waits for is over or in progress.
Served(u) ==
    \/ joined[u] \in ended
    \/ pc[joined[u][1]] \in LoggingIn /\ Own(joined[u][1]) = joined[u]

(***************************************************************************)
(* NoOrphans is inductive once it is known that who waits has joined a     *)
(* call, and not NoCall, whose leader is nobody.                           *)
(***************************************************************************)
Followed ==
    /\ group # NoRequest => pc[group] \in LoggingIn
    /\ \A u \in Requests : pc[u] = "join" => joined[u] \in Calls /\ Served(u)

\* A request moves on without ending a login or beginning to wait for one.
LEMMA MovingKeepsFollowed ==
    ASSUME TypeOK, Followed, NEW r \in Requests, NEW to \in PCs \ {"join"},
           pc' = [pc EXCEPT ![r] = to],
           pc[r] \in LoggingIn => to \in LoggingIn,
           \A u \in Requests \ {r} : joined'[u] = joined[u],
           UNCHANGED <<attempt, ended, group>>
    PROVE  Followed'
<1>1. /\ pc'[r] = to
      /\ \A u \in Requests \ {r} : pc'[u] = pc[u]
      /\ \A u \in Requests : pc[u] \in LoggingIn => pc'[u] \in LoggingIn
  BY DEF TypeOK
<1>2. group' # NoRequest => pc'[group'] \in LoggingIn
  BY <1>1 DEF TypeOK, Followed
<1>3. ASSUME NEW u \in Requests, pc'[u] = "join"
      PROVE  joined'[u] \in Calls /\ Served(u)'
  <2>1. u # r /\ joined'[u] = joined[u] /\ joined[u] \in Calls /\ Served(u)
    BY <1>1, <1>3 DEF Followed
  <2>2. joined[u][1] \in Requests
    BY <2>1 DEF Calls
  <2>3. QED
    BY <1>1, <2>1, <2>2 DEF Served, Own
<1>4. QED
  BY <1>2, <1>3 DEF Followed

\* A login call ends: it leaves the group, and its followers are released.
LEMMA EndingKeepsFollowed ==
    ASSUME TypeOK, Followed, NEW r \in Requests, NEW to \in {"post", "failed"},
           pc[r] \in LoggingIn,
           pc' = [pc EXCEPT ![r] = to],
           group' = Left(r), ended' = Released(r),
           UNCHANGED <<attempt, joined>>
    PROVE  Followed'
<1>1. pc'[r] = to /\ \A u \in Requests \ {r} : pc'[u] = pc[u]
  BY DEF TypeOK
<1>2. group' # NoRequest => pc'[group'] \in LoggingIn
  BY <1>1 DEF TypeOK, Followed, Left
<1>3. ASSUME NEW u \in Requests, pc'[u] = "join"
      PROVE  joined'[u] \in Calls /\ Served(u)'
  <2>1. u # r /\ joined[u] \in Calls /\ Served(u)
    BY <1>1, <1>3 DEF Followed
  <2>2. joined[u][1] \in Requests
    BY <2>1 DEF Calls
  <2>3. CASE joined[u][1] = r /\ joined[u] = Own(r)
    BY <2>1, <2>3 DEF Served, Released
  <2>4. CASE joined[u][1] # r
    BY <1>1, <2>1, <2>2, <2>4 DEF Served, Own, Released
  <2>5. CASE joined[u][1] = r /\ joined[u] # Own(r)
    BY <2>1, <2>5 DEF Served, Released
  <2>6. QED
    BY <2>3, <2>4, <2>5
<1>4. QED
  BY <1>2, <1>3 DEF Followed

LEMMA InitFollowed ==
    Init => Followed
  BY DEF Init, Followed

LEMMA RequestKeepsFollowed ==
    ASSUME TypeOK, Followed, NEW r \in Requests,
           Start(r) \/ RequestStep(r) \/ SaltStep(r) \/ LoginFails(r) \/ PostFails(r)
    PROVE  Followed'
<1> USE DEF Goto, Obtain, PCs, LoggingIn, Ended, loginVars, authVars
<1>1. CASE \/ Start(r) \/ TokenCached(r) \/ TokenMisses(r) \/ Refuse(r)
           \/ SaltAccepts(r) \/ SaltRejects(r) \/ PostFails(r)
  BY <1>1, MovingKeepsFollowed
     DEF Start, TokenCached, TokenMisses, Refuse, SaltAccepts, SaltRejects, PostFails
<1>2. CASE Recheck(r) \/ SaltIssues(r) \/ CacheToken(r)
  BY <1>2, MovingKeepsFollowed DEF Recheck, SaltIssues, CacheToken
<1>3. CASE FollowerReturns(r)
  BY <1>3, MovingKeepsFollowed DEF FollowerReturns, TypeOK
<1>4. CASE LoginReturns(r) \/ LoginFails(r)
  BY <1>4, EndingKeepsFollowed DEF LoginReturns, LoginFails
<1>5. CASE JoinLogin(r)
  BY <1>5, OwnIsACall DEF JoinLogin, TypeOK, Followed, Served, Own, Calls
<1>6. CASE LeadLogin(r)
  BY <1>6 DEF LeadLogin, TypeOK, Followed, Served, Own, Calls
<1>7. CASE Invalidate(r)
  BY <1>7 DEF Invalidate, TypeOK, Followed, Served, Own, Calls
<1>8. QED
  BY <1>1, <1>2, <1>3, <1>4, <1>5, <1>6, <1>7 DEF RequestStep, SaltStep

LEMMA NextFollowed ==
    TypeOK /\ Followed /\ [Next]_vars => Followed'
<1> SUFFICES ASSUME TypeOK, Followed, [Next]_vars PROVE Followed'
  OBVIOUS
<1>1. CASE UNCHANGED <<pc, attempt, joined, ended, group>>
  BY <1>1 DEF Followed, Served, Own
<1>2. CASE Expires \/ SaltRevokes \/ UNCHANGED vars
  BY <1>1, <1>2 DEF Expires, SaltRevokes, vars, loginVars, authVars
<1>3. QED
  BY <1>2, RequestKeepsFollowed DEF Next

\* Nobody waits for a login that will not be answered, however logins, their
\* followers, failures and invalidations interleave: the group names a login in
\* progress, and what a request waits for is over or in progress.
THEOREM NobodyIsOrphaned == Spec => []NoOrphans
<1>1. Followed => NoOrphans
  BY DEF Followed, Served, NoOrphans
<1>2. Spec => []Followed
  BY InitFollowed, NextFollowed, TypeCorrect, PTL DEF Spec
<1>3. QED
  BY <1>1, <1>2, PTL
------------------------------------------------------------------------------
\* A login per cause.

\* The logins Salt is yet to be asked for: by the calls past their second look at
\* the cache, and by the forgotten ones before it.
Asking == {r \in Requests : pc[r] = "login" \/ (pc[r] = "recheck" /\ r # group)}

\* One more will be asked for when nothing is cached and the group holds no call
\* that asks, or has asked, for the token to cache.
Need == IF ~Cached /\ (group # NoRequest => pc[group] \in {"recheck", "cached"})
        THEN 1 ELSE 0

(***************************************************************************)
(* The bound on the tokens issued is not inductive: a login that is about  *)
(* to be asked for must be paid for already.  A forgotten call may ask     *)
(* whatever is cached meanwhile by others and expires again, so its login  *)
(* is paid for when it is forgotten.                                       *)
(***************************************************************************)
Accounted ==
    /\ IsFiniteSet(Asking)
    /\ issued + Cardinality(Asking) + Need <= 1 + causes
    /\ \A r \in Requests : pc[r] = "issued" => login[Own(r)] # NoToken

LEMMA AskingCount ==
    ASSUME NEW S, IsFiniteSet(S), NEW r
    PROVE  /\ Cardinality(S) \in Nat
           /\ IsFiniteSet(S \cup {r}) /\ IsFiniteSet(S \ {r})
           /\ Cardinality(S \cup {r}) <= Cardinality(S) + 1
           /\ r \in S => Cardinality(S \ {r}) = Cardinality(S) - 1
<1>1. Cardinality(S) \in Nat
  BY FS_CardinalityType
<1>2. /\ IsFiniteSet(S \cup {r})
      /\ Cardinality(S \cup {r}) = IF r \in S THEN Cardinality(S) ELSE Cardinality(S) + 1
  BY FS_AddElement
<1>3. /\ IsFiniteSet(S \ {r})
      /\ Cardinality(S \ {r}) = IF r \in S THEN Cardinality(S) - 1 ELSE Cardinality(S)
  BY FS_RemoveElement
<1>4. QED
  BY <1>1, <1>2, <1>3

\* A request that leads no login moves on without touching the cache or the group.
LEMMA QuietAccounted ==
    ASSUME TypeOK, Followed, Accounted, NEW r \in Requests, NEW to \in PCs \ LoggingIn,
           pc[r] \notin LoggingIn, pc' = [pc EXCEPT ![r] = to],
           UNCHANGED <<attempt, login, group, token, usable, issued, causes>>
    PROVE  Accounted'
<1>1. pc'[r] = to /\ \A u \in Requests \ {r} : pc'[u] = pc[u]
  BY DEF TypeOK
<1>2. Asking' = Asking
  BY <1>1 DEF Asking, LoggingIn
<1>3. Need' = Need
  <2>1. group # NoRequest => group \in Requests /\ group # r
    BY DEF TypeOK, Followed
  <2>2. QED
    BY <1>1, <2>1 DEF Need, Cached
<1>4. \A u \in Requests : pc'[u] = "issued" => login'[Own(u)'] # NoToken
  BY <1>1 DEF Accounted, Own, LoggingIn
<1>5. QED
  BY <1>2, <1>3, <1>4 DEF Accounted

LEMMA LeadAccounted ==
    ASSUME TypeOK, Accounted, NEW r \in Requests, LeadLogin(r)
    PROVE  Accounted'
<1>1. /\ pc[r] = "miss" /\ pc'[r] = "recheck" /\ \A u \in Requests \ {r} : pc'[u] = pc[u]
      /\ group = NoRequest /\ group' = r
      /\ UNCHANGED <<attempt, login, token, usable, issued, causes>>
  BY DEF LeadLogin, Goto, TypeOK, loginVars, saltVars
<1>2. Asking' = Asking
  BY <1>1, RequestsAssumption DEF Asking
<1>3. Need' = Need
  BY <1>1 DEF Need, Cached
<1>4. \A u \in Requests : pc'[u] = "issued" => login'[Own(u)'] # NoToken
  BY <1>1 DEF Accounted, Own
<1>5. QED
  BY <1>1, <1>2, <1>3, <1>4 DEF Accounted

\* One call of a login gets on, or ends; calls are told apart by who leads them.
LEMMA IssuedElsewhere ==
    ASSUME TypeOK, Accounted, NEW r \in Requests, NEW to \in PCs \ {"issued"}, NEW tk,
           pc' = [pc EXCEPT ![r] = to],
           login' = [login EXCEPT ![Own(r)] = tk] \/ login' = login,
           attempt' = attempt
    PROVE  \A u \in Requests : pc'[u] = "issued" => login'[Own(u)'] # NoToken
<1>1. ASSUME NEW u \in Requests, pc'[u] = "issued"
      PROVE  login'[Own(u)'] # NoToken
  <2>1. u # r /\ pc[u] = "issued" /\ Own(u)' = Own(u) /\ Own(u) # Own(r)
    BY <1>1 DEF TypeOK, Own
  <2>2. login[Own(u)] # NoToken /\ Own(u) \in Calls
    BY <2>1, OwnIsACall DEF Accounted
  <2>3. QED
    BY <2>1, <2>2 DEF TypeOK
<1>2. QED
  BY <1>1

LEMMA RecheckAccounted ==
    ASSUME TypeOK, Accounted, NEW r \in Requests, Recheck(r)
    PROVE  Accounted'
<1>1. /\ pc[r] = "recheck"
      /\ \/ Cached /\ pc' = [pc EXCEPT ![r] = "cached"]
         \/ ~Cached /\ pc' = [pc EXCEPT ![r] = "login"]
      /\ login' = [login EXCEPT ![Own(r)] = token] \/ login' = login
      /\ UNCHANGED <<attempt, group, token, usable, issued, causes>>
  BY DEF Recheck, CachedAgain, Goto, authVars, saltVars
<1>2. \A u \in Requests : pc'[u] = "issued" => login'[Own(u)'] # NoToken
  BY <1>1, IssuedElsewhere DEF PCs, LoggingIn
<1>3. Cardinality(Asking) \in Nat /\ issued \in Nat /\ causes \in Nat
  BY AskingCount DEF Accounted, TypeOK
<1>4. CASE Cached /\ pc' = [pc EXCEPT ![r] = "cached"]
  <2>1. Asking' = Asking \ {r}
    BY <1>1, <1>4 DEF Asking, TypeOK
  <2>2. Need = 0 /\ Need' = 0
    BY <1>1, <1>4 DEF Need, Cached
  <2>3. r \notin Asking => Asking \ {r} = Asking
    OBVIOUS
  <2>4. IsFiniteSet(Asking') /\ Cardinality(Asking') <= Cardinality(Asking)
    BY <1>3, <2>1, <2>3, AskingCount DEF Accounted
  <2>5. Cardinality(Asking') \in Nat
    BY <2>4, AskingCount
  <2>6. QED
    BY <1>1, <1>2, <1>3, <2>2, <2>4, <2>5 DEF Accounted
<1>5. CASE ~Cached /\ pc' = [pc EXCEPT ![r] = "login"]
  <2>1. Asking' = Asking \cup {r}
    BY <1>1, <1>5 DEF Asking, TypeOK
  <2>2. CASE group = r
    <3>1. Need = 1 /\ Need' = 0
      BY <1>1, <1>5, <2>2, RequestsAssumption DEF Need, Cached, TypeOK
    <3>2. IsFiniteSet(Asking') /\ Cardinality(Asking') <= Cardinality(Asking) + 1
      BY <2>1, AskingCount DEF Accounted
    <3>3. Cardinality(Asking') \in Nat
      BY <3>2, AskingCount
    <3>4. QED
      BY <1>1, <1>2, <1>3, <3>1, <3>2, <3>3 DEF Accounted
  <2>3. CASE group # r
    <3>1. Asking \cup {r} = Asking
      BY <1>1, <2>3 DEF Asking
    <3>2. Need' = Need
      BY <1>1, <1>5, <2>3 DEF Need, Cached, TypeOK
    <3>3. QED
      BY <1>1, <1>2, <2>1, <3>1, <3>2 DEF Accounted
  <2>4. QED
    BY <2>2, <2>3
<1>6. QED
  BY <1>1, <1>4, <1>5

LEMMA IssueAccounted ==
    ASSUME TypeOK, Accounted, NEW r \in Requests, SaltIssues(r)
    PROVE  Accounted'
<1>1. /\ pc[r] = "login" /\ pc' = [pc EXCEPT ![r] = "issued"]
      /\ issued' = issued + 1 /\ issued \in Nat /\ causes \in Nat
      /\ login' = [login EXCEPT ![Own(r)] = issued + 1]
      /\ UNCHANGED <<attempt, group, token, usable, causes>>
  BY DEF SaltIssues, Goto, authVars, TypeOK
<1>2. Asking' = Asking \ {r} /\ r \in Asking
  BY <1>1 DEF Asking, TypeOK
<1>3. Need' = Need
  BY <1>1 DEF Need, Cached, TypeOK
<1>4. ASSUME NEW u \in Requests, pc'[u] = "issued"
      PROVE  login'[Own(u)'] # NoToken
  <2>1. Own(u)' = Own(u) /\ Own(u) \in Calls /\ Own(r) \in Calls
    BY <1>1, OwnIsACall DEF Own
  <2>2. CASE u = r
    BY <1>1, <2>1, <2>2 DEF TypeOK, NoToken
  <2>3. CASE u # r
    <3>1. pc[u] = "issued" /\ Own(u) # Own(r)
      BY <1>1, <1>4, <2>3 DEF TypeOK, Own
    <3>2. QED
      BY <1>1, <2>1, <3>1 DEF TypeOK, Accounted
  <2>4. QED
    BY <2>2, <2>3
<1>5. /\ IsFiniteSet(Asking') /\ Cardinality(Asking) \in Nat
      /\ Cardinality(Asking') = Cardinality(Asking) - 1
  BY <1>2, AskingCount DEF Accounted
<1>6. Need \in {0, 1}
  BY DEF Need
<1>7. QED
  BY <1>1, <1>3, <1>4, <1>5, <1>6 DEF Accounted

LEMMA CacheAccounted ==
    ASSUME TypeOK, Accounted, NEW r \in Requests, CacheToken(r)
    PROVE  Accounted'
<1>1. /\ pc[r] = "issued" /\ pc' = [pc EXCEPT ![r] = "cached"]
      /\ token' # NoToken /\ usable' = TRUE
      /\ UNCHANGED <<attempt, login, group, issued, causes>>
  BY DEF CacheToken, Goto, loginVars, saltVars, Accounted
<1>2. Asking' = Asking
  BY <1>1 DEF Asking, TypeOK
<1>3. Need' = 0 /\ Need \in {0, 1}
  BY <1>1 DEF Need, Cached
<1>4. \A u \in Requests : pc'[u] = "issued" => login'[Own(u)'] # NoToken
  BY <1>1, IssuedElsewhere DEF PCs, LoggingIn
<1>5. Cardinality(Asking) \in Nat /\ issued \in Nat /\ causes \in Nat
  BY AskingCount DEF Accounted, TypeOK
<1>6. QED
  BY <1>1, <1>2, <1>3, <1>4, <1>5 DEF Accounted

LEMMA ReturnAccounted ==
    ASSUME TypeOK, Accounted, NEW r \in Requests, LoginReturns(r)
    PROVE  Accounted'
<1>1. /\ pc[r] = "cached" /\ pc' = [pc EXCEPT ![r] = "post"]
      /\ group' = Left(r)
      /\ UNCHANGED <<attempt, login, token, usable, issued, causes>>
  BY DEF LoginReturns, Obtain, Goto, saltVars
<1>2. Asking' = Asking
  BY <1>1, RequestsAssumption DEF Asking, TypeOK, Left
<1>3. Need' = Need
  BY <1>1, RequestsAssumption DEF Need, Cached, TypeOK, Left
<1>4. \A u \in Requests : pc'[u] = "issued" => login'[Own(u)'] # NoToken
  BY <1>1, IssuedElsewhere DEF PCs, LoggingIn
<1>5. QED
  BY <1>1, <1>2, <1>3, <1>4 DEF Accounted

LEMMA FailAccounted ==
    ASSUME TypeOK, Accounted, NEW r \in Requests, LoginFails(r)
    PROVE  Accounted'
<1>1. /\ pc[r] \in {"login", "issued"} /\ pc' = [pc EXCEPT ![r] = "failed"]
      /\ group' = Left(r)
      /\ login' = [login EXCEPT ![Own(r)] = NoToken]
      /\ causes' = IF pc[r] = "issued" THEN causes + 1 ELSE causes
      /\ UNCHANGED <<attempt, token, usable, issued>>
  BY DEF LoginFails, Goto, saltVars
<1>2. \A u \in Requests : pc'[u] = "issued" => login'[Own(u)'] # NoToken
  BY <1>1, IssuedElsewhere DEF PCs, LoggingIn, Ended
<1>3. Cardinality(Asking) \in Nat /\ issued \in Nat /\ causes \in Nat
  BY AskingCount DEF Accounted, TypeOK
<1>4. Need \in {0, 1} /\ Need' \in {0, 1}
  BY DEF Need
<1>5. CASE pc[r] = "login"
  <2>1. Asking' = Asking \ {r} /\ r \in Asking
    BY <1>1, <1>5, RequestsAssumption DEF Asking, TypeOK, Left
  <2>2. IsFiniteSet(Asking') /\ Cardinality(Asking') = Cardinality(Asking) - 1
    BY <2>1, AskingCount DEF Accounted
  <2>3. QED
    BY <1>1, <1>2, <1>3, <1>4, <1>5, <2>2 DEF Accounted
<1>6. CASE pc[r] = "issued"
  <2>1. Asking' = Asking
    BY <1>1, <1>6, RequestsAssumption DEF Asking, TypeOK, Left
  <2>2. QED
    BY <1>1, <1>2, <1>3, <1>4, <1>6, <2>1 DEF Accounted
<1>7. QED
  BY <1>1, <1>5, <1>6

LEMMA InvalidateAccounted ==
    ASSUME TypeOK, Accounted, NEW r \in Requests, Invalidate(r)
    PROVE  Accounted'
<1>1. /\ pc[r] = "rejected" /\ pc'[r] = "token" /\ \A u \in Requests \ {r} : pc'[u] = pc[u]
      /\ group' = NoRequest
      /\ \A u \in Requests \ {r} : attempt'[u] = attempt[u]
      /\ causes' = causes + (IF group = NoRequest THEN 1 ELSE 2)
      /\ UNCHANGED <<login, issued>>
  BY DEF Invalidate, Goto, TypeOK, loginVars, saltVars
<1>2. \A u \in Requests : pc'[u] = "issued" => login'[Own(u)'] # NoToken
  BY <1>1 DEF Accounted, Own
<1>3. Cardinality(Asking) \in Nat /\ issued \in Nat /\ causes \in Nat
  BY AskingCount DEF Accounted, TypeOK
<1>4. Need \in {0, 1} /\ Need' \in {0, 1}
  BY DEF Need
<1>5. CASE group = NoRequest
  <2>1. Asking' = Asking
    BY <1>1, <1>5 DEF Asking
  <2>2. QED
    BY <1>1, <1>2, <1>3, <1>4, <1>5, <2>1 DEF Accounted
<1>6. CASE group # NoRequest
  <2>1. CASE pc[group] = "recheck"
    <3>1. Asking' = Asking \cup {group}
      BY <1>1, <1>6, <2>1, RequestsAssumption DEF Asking, TypeOK
    <3>2. IsFiniteSet(Asking') /\ Cardinality(Asking') <= Cardinality(Asking) + 1
      BY <3>1, AskingCount DEF Accounted
    <3>3. Cardinality(Asking') \in Nat
      BY <3>2, AskingCount
    <3>4. QED
      BY <1>1, <1>2, <1>3, <1>4, <1>6, <3>2, <3>3 DEF Accounted
  <2>2. CASE pc[group] # "recheck"
    <3>1. Asking' = Asking
      BY <1>1, <1>6, <2>2, RequestsAssumption DEF Asking, TypeOK
    <3>2. QED
      BY <1>1, <1>2, <1>3, <1>4, <1>6, <3>1 DEF Accounted
  <2>3. QED
    BY <2>1, <2>2
<1>7. QED
  BY <1>5, <1>6

LEMMA ExpiryAccounted ==
    ASSUME TypeOK, Accounted, Expires
    PROVE  Accounted'
<1>1. /\ Cached /\ causes' = causes + 1
      /\ UNCHANGED <<pc, attempt, login, group, issued>>
  BY DEF Expires, loginVars, saltVars
<1>2. Asking' = Asking
  BY <1>1 DEF Asking
<1>3. Need = 0 /\ Need' \in {0, 1}
  BY <1>1 DEF Need
<1>4. Cardinality(Asking) \in Nat /\ issued \in Nat /\ causes \in Nat
  BY AskingCount DEF Accounted, TypeOK
<1>5. QED
  BY <1>1, <1>2, <1>3, <1>4 DEF Accounted, Own

LEMMA NextAccounted ==
    ASSUME TypeOK, Followed, Accounted, [Next]_vars
    PROVE  Accounted'
<1>1. ASSUME NEW r \in Requests,
             \/ Start(r) \/ TokenCached(r) \/ TokenMisses(r) \/ JoinLogin(r) \/ Refuse(r)
             \/ SaltAccepts(r) \/ SaltRejects(r) \/ PostFails(r) \/ FollowerReturns(r)
      PROVE  Accounted'
  BY <1>1, QuietAccounted
     DEF Start, TokenCached, TokenMisses, JoinLogin, Refuse, SaltAccepts, SaltRejects, PostFails,
         FollowerReturns, Goto, Obtain, PCs, LoggingIn, Ended, loginVars, authVars, saltVars
<1>2. CASE SaltRevokes \/ UNCHANGED vars
  <2>1. UNCHANGED <<pc, attempt, login, group, token, usable, issued, causes>>
    BY <1>2 DEF SaltRevokes, vars, loginVars, authVars, saltVars
  <2>2. Asking' = Asking /\ Need' = Need
    BY <2>1 DEF Asking, Need, Cached
  <2>3. QED
    BY <2>1, <2>2 DEF Accounted, Own
<1>3. QED
  BY <1>1, <1>2, LeadAccounted, RecheckAccounted, IssueAccounted, CacheAccounted,
     ReturnAccounted, FailAccounted, InvalidateAccounted, ExpiryAccounted
     DEF Next, RequestStep, SaltStep

LEMMA InitAccounted ==
    Init => Accounted
<1> SUFFICES ASSUME Init PROVE Accounted
  OBVIOUS
<1>1. Asking = {}
  BY DEF Init, Asking
<1>2. IsFiniteSet(Asking) /\ Cardinality(Asking) = 0
  BY <1>1, FS_EmptySet
<1>3. Need \in {0, 1}
  BY DEF Need
<1>4. QED
  BY <1>2, <1>3 DEF Init, Accounted

\* Salt is not asked in vain, for any number of requests and however they, their
\* logins and the cache interleave: a token is asked for once, and once more for each
\* token lost, each login forgotten and each answer lost; and no request is sent
\* more than twice.
THEOREM LoginsAreCaused == Spec => []OneLoginPerCause
<1>1. TypeOK /\ Accounted => OneLoginPerCause
  <2> SUFFICES ASSUME TypeOK, Accounted PROVE OneLoginPerCause
    OBVIOUS
  <2>1. Cardinality(Asking) \in Nat /\ Need \in {0, 1} /\ issued \in Nat /\ causes \in Nat
    BY AskingCount DEF Accounted, Need, TypeOK
  <2>2. issued <= 1 + causes
    BY <2>1 DEF Accounted
  <2>3. QED
    BY <2>2 DEF TypeOK, OneLoginPerCause
<1>2. TypeOK /\ Followed /\ Accounted /\ [Next]_vars => Accounted'
  BY NextAccounted
<1>3. Spec => []Followed
  BY InitFollowed, NextFollowed, TypeCorrect, PTL DEF Spec
<1>4. QED
  BY <1>1, <1>2, <1>3, InitAccounted, TypeCorrect, PTL DEF Spec

------------------------------------------------------------------------------
(***************************************************************************)
(* InfoProbe.  Over REST only the leader of infoGroup is past the cache;   *)
(* the rest of the invariant follows the version it may find.              *)
(***************************************************************************)
Places == {"out", "load", "miss", "wait", "told"} \cup Leading

InfoTypes ==
    /\ at \in [Callers -> Places]
    /\ found \in [Callers -> BOOLEAN]
    /\ late \in [Callers -> BOOLEAN]
    /\ answers \in [Callers -> BOOLEAN]
    /\ cached \in BOOLEAN
    /\ probes \in Nat /\ failed \in Nat

\* The probe that leaves one more than have failed: it is under way, or it found
\* the version, which is about to be cached, or is.
Paid ==
    \/ cached
    \/ \E c \in Callers : at[c] = "probe" \/ (at[c] = "store" /\ found[c])

Coalesced ==
    /\ \A c \in Callers : at[c] \in Leading => infoGroup = c
    /\ \A c \in Callers : at[c] \in {"probe", "store"} => ~cached
    /\ \A c \in Callers : at[c] = "done" /\ ~found[c] => ~cached
    /\ probes <= failed + 1
    /\ ~Paid => probes <= failed

\* A caller that looked when a version was cached has it, or will have it: while it
\* is on its way the version is cached, and what it is told then has one.
Informed(c) ==
    /\ at[c] = "miss" => ~late[c]
    /\ at[c] = "told" /\ late[c] => found[c]
    /\ late[c] /\ at[c] \in {"load", "wait"} \cup Leading => cached
    /\ ~Coalesces /\ at[c] \in Leading => ~late[c]
    /\ at[c] \in {"wait", "recheck", "done"} => Coalesces

InfoInv == InfoTypes /\ (Coalesces => Coalesced) /\ \A c \in Callers : Informed(c)

LEMMA InfoInitInv ==
    ASSUME InfoInit
    PROVE  InfoInv
<1>1. InfoTypes
  BY DEF InfoInit, InfoTypes, Places
<1>2. \A c \in Callers : at[c] = "out" /\ ~cached
  BY DEF InfoInit
<1>3. probes = 0 /\ failed = 0
  BY DEF InfoInit
<1>4. Coalesced
  BY <1>2, <1>3 DEF Coalesced, Leading
<1>5. \A c \in Callers : Informed(c)
  BY <1>2 DEF Informed, Leading
<1>6. QED
  BY <1>1, <1>4, <1>5 DEF InfoInv

\* A step that is not the return of c moves c only: what is known of the others stays,
\* since a version is never forgotten.
LEMMA InformedFrame ==
    ASSUME InfoInv, NEW c \in Callers, NEW d \in Callers, d # c,
           at' = [at EXCEPT ![c] = at'[c]], late' = [late EXCEPT ![c] = late'[c]],
           found' = [found EXCEPT ![c] = found'[c]], transport' = transport,
           cached => cached'
    PROVE  Informed(d)'
<1>1. at'[d] = at[d] /\ late'[d] = late[d] /\ found'[d] = found[d]
  BY DEF InfoInv, InfoTypes
<1>2. QED
  BY <1>1 DEF InfoInv, Informed, Coalesces

LEMMA InfoQuiet ==
    ASSUME InfoInv, NEW c \in Callers,
           \/ Call(c) \/ LoadHits(c) \/ LoadMisses(c)
           \/ Follow(c) \/ Lead(c) \/ Return(c)
    PROVE  InfoInv'
<1> USE CallersAssumption DEF InfoInv, Coalesces
<1>1. /\ at' \in [Callers -> Places]
      /\ UNCHANGED <<transport, cached, found, probes, failed>>
      /\ at[c] \in {"out", "load", "miss", "told"}
      /\ at' = [at EXCEPT ![c] = at'[c]]
      /\ at'[c] \in {"out", "load", "miss", "wait", "recheck"}
      /\ \/ infoGroup' = infoGroup /\ at'[c] # "recheck"
         \/ infoGroup = NoCaller /\ infoGroup' = c
  BY DEF Call, LoadHits, LoadMisses, Follow, Lead, Return, MoveTo, Answer,
         UnderWay, InfoTypes, Leading, Places
<1>2. answers' \in [Callers -> BOOLEAN]
  BY DEF Call, LoadHits, LoadMisses, Follow, Lead, Return, Answer, InfoTypes
<1>3. late' \in [Callers -> BOOLEAN] /\ late' = [late EXCEPT ![c] = late'[c]]
  BY DEF Call, LoadHits, LoadMisses, Follow, Lead, Return, Looks, InfoTypes
<1>4. InfoTypes'
  BY <1>1, <1>2, <1>3 DEF InfoTypes
<1>5. ASSUME Coalesces PROVE Coalesced'
  <2>1. \A d \in Callers : d # c => at'[d] = at[d]
    BY <1>1 DEF InfoTypes
  <2>2. Paid' <=> Paid
    BY <1>1, <2>1 DEF Paid
  <2>3. \A d \in Callers : at'[d] \in Leading => infoGroup' = d
    BY <1>1, <1>5, <2>1 DEF Coalesced, Leading
  <2>4. QED
    BY <1>1, <1>5, <2>1, <2>2, <2>3 DEF Coalesced
<1>6. Informed(c)'
  <2>1. CASE Call(c) \/ Follow(c) \/ Lead(c)
    <3>1. late'[c] = cached /\ at'[c] \in {"load", "wait", "recheck"}
      BY <2>1 DEF Call, Follow, Lead, Looks, MoveTo, InfoTypes
    <3>2. at'[c] # "load" => Coalesces
      BY <2>1 DEF Call, Follow, Lead, MoveTo, InfoTypes
    <3>3. QED
      BY <1>1, <3>1, <3>2 DEF Informed, Leading
  <2>2. CASE LoadMisses(c)
    <3>1. at'[c] = "miss" /\ ~late'[c]
      BY <2>2 DEF LoadMisses, MoveTo, InfoTypes, Informed
    <3>2. QED
      BY <3>1 DEF Informed, Leading
  <2>3. CASE LoadHits(c) \/ Return(c)
    <3>1. at'[c] = "out"
      BY <2>3 DEF LoadHits, Return, Answer, MoveTo, InfoTypes
    <3>2. QED
      BY <3>1 DEF Informed, Leading
  <2>4. QED
    BY <2>1, <2>2, <2>3
<1>7. ASSUME NEW d \in Callers PROVE Informed(d)'
  <2>1. found' = [found EXCEPT ![c] = found'[c]]
    BY <1>1 DEF InfoTypes
  <2>2. d # c => Informed(d)'
    BY <1>1, <1>3, <2>1, InformedFrame
  <2>3. QED
    BY <1>6, <2>2
<1>8. QED
  BY <1>1, <1>4, <1>5, <1>7

LEMMA InfoAlone ==
    ASSUME InfoInv, NEW c \in Callers, ProbeAlone(c)
    PROVE  InfoInv'
<1>1. InfoTypes' /\ (Coalesces => Coalesced)' /\ late' = late /\ found' = found
  BY DEF InfoInv, InfoTypes, ProbeAlone, MoveTo, Coalesces, Leading, Places
<1>2. at' = [at EXCEPT ![c] = at'[c]] /\ at'[c] = "probe" /\ UNCHANGED <<transport, cached>>
  BY DEF InfoInv, InfoTypes, ProbeAlone, MoveTo
<1>3. Informed(c)'
  BY <1>1, <1>2 DEF InfoInv, Informed, ProbeAlone, Coalesces
<1>4. \A d \in Callers : Informed(d)'
  BY <1>1, <1>2, <1>3, InformedFrame DEF InfoInv, InfoTypes
<1>5. QED
  BY <1>1, <1>4 DEF InfoInv

\* What a probe tells is a yes or a no.
LEMMA OutcomeType ==
    ASSUME NEW version \in (IF Coalesces THEN RestVersions ELSE HelperVersions)
    PROVE  version \in BOOLEAN
  BY DEF RestVersions, HelperVersions, SaltVersionFromInfo

\* The caller that leads the probe goes on with it: no other leads one.
LEMMA InfoLeads ==
    ASSUME InfoInv, NEW c \in Callers,
           LookAgain(c) \/ ProbeReturns(c) \/ Store(c)
    PROVE  InfoInv'
<1> USE DEF InfoInv, Coalesces
<1>1. /\ at[c] \in Leading /\ infoGroup' = infoGroup /\ transport' = transport
      /\ at' = [at EXCEPT ![c] = at'[c]] /\ at'[c] \in {"probe", "store", "done", "told"}
      /\ answers' = answers /\ late' = late
      /\ Coalesces => at'[c] # "told"
  BY DEF LookAgain, ProbeReturns, Store, MoveTo, Leading, InfoTypes
<1>2. InfoTypes'
  <2>1. at' \in [Callers -> Places]
    BY <1>1 DEF InfoTypes, Leading, Places
  <2>2. CASE LookAgain(c)
    <3>1. found' \in [Callers -> BOOLEAN]
      BY <2>2 DEF InfoTypes, LookAgain
    <3>2. probes' \in Nat /\ failed' \in Nat /\ cached' \in BOOLEAN
      BY <2>2 DEF InfoTypes, LookAgain
    <3>3. QED
      BY <1>1, <2>1, <3>1, <3>2 DEF InfoTypes
  <2>3. CASE ProbeReturns(c)
    <3>1. found' \in [Callers -> BOOLEAN] /\ failed' \in Nat
      BY <2>3, OutcomeType DEF InfoTypes, ProbeReturns
    <3>2. QED
      BY <1>1, <2>1, <2>3, <3>1 DEF InfoTypes, ProbeReturns
  <2>4. CASE Store(c)
    BY <1>1, <2>1, <2>4 DEF InfoTypes, Store, Stored
  <2>5. QED
    BY <2>2, <2>3, <2>4
<1>3. ASSUME Coalesces PROVE Coalesced'
  <2> USE <1>3 DEF Coalesced
  <2>1. \A d \in Callers : d # c =>
           at[d] \notin Leading /\ at'[d] = at[d]
    BY <1>1 DEF InfoTypes
  <2>2. \A d \in Callers : at'[d] \in {"probe", "store", "done"} \cup Leading => d = c
    BY <2>1 DEF Leading
  <2>3. infoGroup = c
    BY <1>1
  <2>4. CASE LookAgain(c)
    <3>1. UNCHANGED <<cached, failed>> /\ at[c] = "recheck"
      BY <2>4 DEF LookAgain
    <3>2. Paid <=> cached
      BY <2>1, <3>1 DEF Paid, Leading
    <3>3. CASE cached
      <4>1. at'[c] = "done" /\ found'[c] /\ probes' = probes /\ Paid'
        BY <2>4, <3>1, <3>3 DEF LookAgain, CachedByNow, MoveTo, InfoTypes, Paid
      <4>2. QED
        BY <2>2, <2>3, <1>1, <3>1, <4>1
    <3>4. CASE ~cached
      <4>1. at'[c] = "probe" /\ probes' = probes + 1 /\ Paid'
        BY <2>4, <3>1, <3>4 DEF LookAgain, CachedByNow, MoveTo, InfoTypes, Paid
      <4>2. probes \in Nat /\ failed \in Nat
        BY DEF InfoTypes
      <4>3. probes' <= failed' + 1
        BY <3>1, <3>2, <3>4, <4>1, <4>2
      <4>4. QED
        BY <2>2, <2>3, <1>1, <3>1, <3>4, <4>1, <4>3
    <3>5. QED
      BY <3>3, <3>4 DEF InfoTypes
  <2>5. CASE ProbeReturns(c)
    <3>1. /\ UNCHANGED <<cached, probes>> /\ at[c] = "probe" /\ at'[c] = "store"
          /\ probes \in Nat /\ failed \in Nat
      BY <2>5 DEF ProbeReturns, MoveTo, InfoTypes
    <3>2. \/ found'[c] /\ failed' = failed
          \/ failed' = failed + 1
      BY <2>5 DEF ProbeReturns, InfoTypes
    <3>3. probes' <= failed' + 1 /\ (~Paid' => probes' <= failed')
      BY <3>1, <3>2 DEF Paid
    <3>4. QED
      BY <1>1, <2>2, <2>3, <3>1, <3>3
  <2>6. CASE Store(c)
    <3>1. /\ UNCHANGED <<found, probes, failed>> /\ at[c] = "store" /\ at'[c] = "done"
          /\ ~cached /\ cached' = found[c]
      BY <2>6 DEF Store, Stored, MoveTo, InfoTypes
    <3>2. Paid' <=> Paid
      BY <2>1, <2>2, <3>1 DEF Paid, Leading
    <3>3. QED
      BY <1>1, <2>2, <2>3, <3>1, <3>2
  <2>7. QED
    BY <2>4, <2>5, <2>6
<1>4. /\ found' = [found EXCEPT ![c] = found'[c]]
      /\ cached => cached'
  BY DEF LookAgain, ProbeReturns, Store, Stored, InfoTypes
<1>5. Informed(c)'
  <2>1. Informed(c)
    OBVIOUS
  <2>2. CASE LookAgain(c)
    BY <1>1, <1>4, <2>1, <2>2 DEF Informed, LookAgain, Leading, MoveTo
  <2>3. CASE ProbeReturns(c)
    BY <1>1, <1>4, <2>1, <2>3 DEF Informed, ProbeReturns, Leading, MoveTo
  <2>4. CASE Store(c)
    <3>1. at[c] = "store" /\ at'[c] = IF Coalesces THEN "done" ELSE "told"
      BY <2>4 DEF Store, MoveTo, InfoTypes
    <3>2. late'[c] = late[c] /\ found'[c] = found[c]
      BY <1>1, <2>4 DEF Store
    <3>3. (~Coalesces => ~late[c]) /\ (late[c] => cached)
      BY <2>1, <3>1 DEF Informed, Leading
    <3>4. QED
      BY <1>1, <1>4, <3>1, <3>2, <3>3 DEF Informed, Leading
  <2>5. QED
    BY <2>2, <2>3, <2>4
<1>6. \A d \in Callers : Informed(d)'
  BY <1>1, <1>4, <1>5, InformedFrame DEF InfoTypes
<1>7. QED
  BY <1>1, <1>2, <1>3, <1>6

\* The call leaves the group: what it found is what it, and each that waited for it, is
\* told.
LEMMA InfoLeaves ==
    ASSUME InfoInv, NEW c \in Callers, LeaveGroup(c)
    PROVE  InfoInv'
<1> USE DEF InfoInv, Coalesces
<1> DEFINE told == {c} \cup {f \in Callers : at[f] = "wait" /\ follows[f] = c}
<1>1. /\ at[c] = "done" /\ infoGroup' = NoCaller /\ Coalesces
      /\ UNCHANGED <<transport, cached, late, answers, probes, failed>>
      /\ at' = [d \in Callers |-> IF d \in told THEN "told" ELSE at[d]]
      /\ found' = [d \in Callers |-> IF d \in told THEN found[c] ELSE found[d]]
  BY DEF LeaveGroup, Informed
<1> HIDE DEF told
<1>2. InfoTypes'
  BY <1>1 DEF InfoTypes, Places
<1>3. Coalesced'
  <2> USE <1>1 DEF Coalesced
  <2>0. c \in told
    BY DEF told
  <2>1. \A d \in Callers : at'[d] \notin Leading
    BY <2>0 DEF Leading
  <2>2. Paid => cached
    BY DEF Paid, Leading
  <2>3. QED
    BY <2>1, <2>2 DEF Paid, Leading
<1>4. ASSUME NEW d \in Callers PROVE Informed(d)'
  <2>1. CASE d \in told
    <3>1. at[d] \in {"wait", "done"}
      BY <1>1, <2>1 DEF told
    <3>2. late[d] => cached
      BY <3>1 DEF Informed, Leading
    <3>3. cached => found[c]
      BY <1>1 DEF Coalesced, InfoTypes
    <3>4. at'[d] = "told" /\ found'[d] = found[c] /\ late'[d] = late[d]
      BY <1>1, <2>1
    <3>5. QED
      BY <3>2, <3>3, <3>4 DEF Informed, Leading
  <2>2. CASE d \notin told
    <3>1. at'[d] = at[d] /\ found'[d] = found[d] /\ late'[d] = late[d]
      BY <1>1, <2>2
    <3>2. QED
      BY <1>1, <3>1 DEF Informed
  <2>3. QED
    BY <2>1, <2>2
<1>5. QED
  BY <1>1, <1>2, <1>3, <1>4

LEMMA InfoStep ==
    ASSUME InfoInv, [InfoNext]_(infoVars)
    PROVE  InfoInv'
<1>1. CASE InfoNext
  BY <1>1, InfoQuiet, InfoAlone, InfoLeads, InfoLeaves DEF InfoNext, Step
<1>2. CASE UNCHANGED infoVars
  BY <1>2 DEF infoVars, InfoInv, InfoTypes, Coalesced, Paid, Coalesces, Informed
<1>3. QED
  BY <1>1, <1>2

LEMMA InfoHolds == InfoSpec => []InfoInv
<1>1. InfoInit => InfoInv
  BY InfoInitInv
<1>2. InfoInv /\ [InfoNext]_(infoVars) => InfoInv'
  BY InfoStep
<1>3. QED
  BY <1>1, <1>2, PTL DEF InfoSpec

\* REST callers of Info coalesce onto one probe, however many they are, and none
\* is made once a version was found: each but the latest has failed.
THEOREM ProbesCoalesce == InfoSpec => []OneProbeAtATime
<1>1. InfoInv => OneProbeAtATime
  BY DEF InfoInv, Coalesced, OneProbeAtATime
<1>2. QED
  BY InfoHolds, <1>1, PTL

\* Whoever looks for the version when one is cached is answered with one: a call of
\* either transport that began then, and a REST call that missed the cache but asked
\* the group then, for any number of callers and however the probes end.
THEOREM LateCallersLearn == InfoSpec => LateCallersAreTold
<1>1. InfoInv /\ [InfoNext]_(infoVars) =>
        [\A c \in Callers :
            at[c] # "out" /\ at'[c] = "out" /\ late[c] => answers'[c]]_(infoVars)
  <2> SUFFICES ASSUME InfoInv, NEW l \in Callers, Call(l) \/ Step(l),
                      NEW c \in Callers, at[c] # "out", at'[c] = "out", late[c]
               PROVE  answers'[c]
    BY DEF InfoNext
  <2> USE DEF InfoInv, InfoTypes
  <2>1. CASE Return(l)
    <3>1. c = l /\ at[l] = "told" /\ answers'[l] = found[l]
      BY <2>1 DEF Return, Answer, MoveTo
    <3>2. QED
      BY <3>1 DEF Informed
  <2>2. CASE LoadHits(l)
    BY <2>2 DEF LoadHits, Answer, MoveTo
  <2>3. CASE LeaveGroup(l)
    BY <2>3 DEF LeaveGroup
  <2>4. CASE Store(l)
    BY <2>4 DEF Store, MoveTo
  <2>5. CASE \/ Call(l) \/ LoadMisses(l) \/ Follow(l) \/ Lead(l)
             \/ ProbeAlone(l) \/ LookAgain(l) \/ ProbeReturns(l)
    BY <2>5 DEF Call, LoadMisses, Follow, Lead, ProbeAlone, LookAgain,
                ProbeReturns, MoveTo
  <2>6. QED
    BY <2>1, <2>2, <2>3, <2>4, <2>5 DEF Step
<1>2. QED
  BY InfoHolds, <1>1, PTL DEF InfoSpec, LateCallersAreTold

------------------------------------------------------------------------------
(***************************************************************************)
(* EventStream.  What was received, waits in the channel and is in the     *)
(* reader's hands is one flow, which ends with how the connection ended.   *)
(***************************************************************************)
Sendable == Events \cup Errors

\* How the stream ends unless it is closed.
TrueEnd == IF link = "broken" THEN Failure ELSE EndOfFile

StreamTypes ==
    /\ wanted \in SUBSET Frames
    /\ sent \in Nat /\ sent <= MaxFrames /\ scanned \in Nat /\ scanned <= sent
    /\ item \in Sendable \cup {Nothing}
    /\ events \in Seq(Sendable) /\ received \in Seq(Sendable)
    /\ reader \in {"scan", "failed", "send", "stopping", "stopped"}

StreamPhases ==
    /\ item # Nothing <=> reader = "send"
    /\ finished => reader = "stopped"
    /\ sawEnd => finished /\ events = << >>
    /\ link = "closed" \/ closer # "out" => done
    /\ reader = "failed" => link \in {"broken", "closed"}

\* The reader loses an event only when it is about to stop after Close.
Conveying ==
    /\ NothingLost
    /\ reader \in {"scan", "failed", "send"} => Conveyed = Due

Ending ==
    /\ ~done => /\ item \in Errors => item = TrueEnd /\ link # "open"
                /\ reader \in {"stopping", "stopped"} =>
                     Flow # << >> /\ Flow[Len(Flow)] = TrueEnd /\ link # "open"
    /\ link # "broken" => \A i \in DOMAIN Flow : Flow[i] # Failure

StreamInv == StreamTypes /\ StreamPhases /\ Conveying /\ Ending

\* The frames a sequence carries, and whether it does in Salt's order.
Carried(s) == {n \in Frames : \E i \in DOMAIN s : s[i] = Frame(n)}

Ordered(s) ==
    \A i, j \in DOMAIN s : \A m, n \in Frames :
        i < j /\ s[i] = Frame(m) /\ s[j] = Frame(n) => m < n

LEMMA Items ==
    /\ Nothing \notin Sendable
    /\ Failure \in Sendable /\ EndOfFile \in Sendable
    /\ Failure # EndOfFile
    /\ Events \cap Errors = {}
    /\ \A m, n : Frame(m) = Frame(n) => m = n
    /\ \A n \in Frames : Frame(n) \in Sendable /\ Frame(n) \in Events
  BY DEF Sendable, Nothing, Failure, EndOfFile, Events, Errors,
         Frame

LEMMA FlowType ==
    ASSUME StreamTypes
    PROVE  /\ Held \in Seq(Sendable) /\ Flow \in Seq(Sendable)
           /\ received \o events \in Seq(Sendable)
<1>1. Held \in Seq(Sendable)
  BY DEF StreamTypes, Held
<1>2. QED
  BY <1>1, ConcatProperties DEF StreamTypes, Flow

LEMMA AppendCarries ==
    ASSUME NEW s \in Seq(Sendable), NEW x \in Sendable
    PROVE  /\ Carried(Append(s, x)) = Carried(s) \cup {n \in Frames : x = Frame(n)}
           /\ Ordered(Append(s, x)) <=>
                /\ Ordered(s)
                /\ \A n \in Frames : x = Frame(n) => \A m \in Carried(s) : m < n
<1> DEFINE t == Append(s, x)
           k == Len(s) + 1
<1>1. /\ DOMAIN t = DOMAIN s \cup {k} /\ t[k] = x /\ k \notin DOMAIN s
      /\ \A i \in DOMAIN s : t[i] = s[i] /\ i \in Nat /\ i < k /\ ~(k < i)
      /\ ~(k < k)
  <2>1. DOMAIN s = 1 .. Len(s) /\ Len(s) \in Nat /\ DOMAIN t = 1 .. k
    BY LenProperties, AppendProperties
  <2>2. QED
    BY <2>1, AppendProperties
<1> HIDE DEF t, k
<1>2. Carried(t) = Carried(s) \cup {n \in Frames : x = Frame(n)}
  BY <1>1 DEF Carried
<1>3. ASSUME Ordered(t)
      PROVE  /\ Ordered(s)
             /\ \A n \in Frames : x = Frame(n) => \A m \in Carried(s) : m < n
  BY <1>1, <1>3 DEF Ordered, Carried
<1>4. ASSUME Ordered(s),
             \A n \in Frames : x = Frame(n) => \A m \in Carried(s) : m < n
      PROVE  Ordered(t)
  <2> SUFFICES ASSUME NEW i \in DOMAIN t, NEW j \in DOMAIN t,
                      NEW m \in Frames, NEW n \in Frames,
                      i < j, t[i] = Frame(m), t[j] = Frame(n)
               PROVE  m < n
    BY DEF Ordered
  <2>1. i \in DOMAIN s /\ s[i] = Frame(m)
    BY <1>1
  <2>2. CASE j \in DOMAIN s
    BY <1>1, <1>4, <2>1, <2>2 DEF Ordered
  <2>3. CASE j = k
    <3>1. m \in Carried(s)
      BY <2>1 DEF Carried
    <3>2. QED
      BY <1>1, <1>4, <2>3, <3>1
  <2>4. QED
    BY <1>1, <2>2, <2>3
<1>5. QED
  BY <1>2, <1>3, <1>4 DEF t

LEMMA FlowCarries ==
    /\ Conveyed = Carried(Flow)
    /\ InSaltsOrder <=> Ordered(Flow)
  BY DEF Conveyed, Carried, InSaltsOrder, Ordered

\* What the reader is about to send comes after what it has sent.
LEMMA HoldsLast ==
    ASSUME StreamTypes
    PROVE  /\ item = Nothing => Flow = received \o events
           /\ item # Nothing => Flow = Append(received \o events, item)
<1>1. received \o events \in Seq(Sendable)
  BY FlowType
<1>2. QED
  BY <1>1, ConcatEmptySeq, AppendIsConcat DEF StreamTypes, Flow, Held

LEMMA StreamInitInv ==
    ASSUME MaxFrames \in Nat, StreamInit
    PROVE  StreamInv
<1> USE DEF StreamInit
<1>1. Flow = << >>
  BY DEF Flow, Held
<1>2. StreamTypes
  BY EmptySeq DEF StreamTypes
<1>3. StreamPhases
  BY DEF StreamPhases
<1>4. Ending
  <2>1. item \notin Errors
    BY Items DEF Sendable
  <2>2. QED
    BY <1>1, <2>1 DEF Ending
<1>5. Conveyed = {} /\ InSaltsOrder
  <2>1. \A i \in DOMAIN Flow : FALSE
    BY <1>1
  <2>2. QED
    BY <2>1 DEF Conveyed, InSaltsOrder
<1>6. Due = {}
  <2>1. \A n \in wanted : ~(n <= scanned)
    BY DEF Frames
  <2>2. QED
    BY <2>1 DEF Due
<1>7. Conveying
  BY <1>5, <1>6 DEF Conveying, NothingLost
<1>8. QED
  BY <1>2, <1>3, <1>4, <1>7 DEF StreamInv

LEMMA FlowFixed ==
    ASSUME UNCHANGED <<received, events, item>>
    PROVE  Flow' = Flow
  BY DEF Flow, Held

\* A step that leaves what is on its way, and the filter's share of what was
\* scanned, as they are.
LEMMA SameFlow ==
    ASSUME MaxFrames \in Nat, StreamInv, Flow' = Flow, Due' = Due,
           reader' \in {"scan", "failed", "send"} => reader \in {"scan", "failed", "send"},
           done => done'
    PROVE  Conveying'
<1>1. Conveyed' = Conveyed /\ (InSaltsOrder => InSaltsOrder')
  BY DEF Conveyed, InSaltsOrder
<1>2. QED
  BY <1>1 DEF StreamInv, Conveying, NothingLost

LEMMA DueFixed ==
    ASSUME UNCHANGED <<wanted, scanned>>
    PROVE  Due' = Due
  BY DEF Due

\* Salt, the network, and the calls of Recv that leave the queue alone.
LEMMA OutsideInv ==
    ASSUME MaxFrames \in Nat, StreamInv,
           \/ SaltSends \/ LinkEnds \/ LinkBreaks
           \/ BeginClose \/ EndClose
           \/ BeginRecv \/ CallEnds \/ RecvGivesUp \/ RecvEnds
    PROVE  StreamInv'
<1> USE DEF StreamInv
<1>1. /\ UNCHANGED <<wanted, scanned, reader, item, events, finished, received>>
      /\ done => done'
  BY DEF SaltSends, LinkEnds, LinkBreaks, BeginClose, EndClose,
         BeginRecv, CallEnds, RecvGivesUp, RecvEnds,
         LeftBehind, wire, read, chan, close, call,
         seen
<1>2. Flow' = Flow /\ Conveying'
  BY <1>1, FlowFixed, DueFixed, SameFlow
<1>3. StreamTypes'
  <2>1. sent' = sent \/ (sent' = sent + 1 /\ sent < MaxFrames)
    BY DEF SaltSends, LinkEnds, LinkBreaks, BeginClose, EndClose,
         BeginRecv, CallEnds, RecvGivesUp, RecvEnds, wire
  <2>2. sent' \in Nat /\ sent' <= MaxFrames /\ scanned <= sent'
    BY <2>1 DEF StreamTypes
  <2>3. QED
    BY <1>1, <2>2 DEF StreamTypes
<1>4. CASE SaltSends \/ BeginRecv \/ CallEnds \/ RecvGivesUp
  <2>1. UNCHANGED <<link, done, closer, sawEnd>>
    BY <1>4 DEF SaltSends, BeginRecv, CallEnds, RecvGivesUp,
                close, seen
  <2>2. StreamPhases' /\ Ending'
    BY <1>1, <1>2, <2>1 DEF StreamPhases, Ending, TrueEnd
  <2>3. QED
    BY <1>2, <1>3, <2>2
<1>5. CASE RecvEnds
  <2>1. UNCHANGED <<link, done, closer>> /\ finished /\ events = << >>
    BY <1>5 DEF RecvEnds, close, chan
  <2>2. StreamPhases' /\ Ending'
    BY <1>1, <1>2, <2>1 DEF StreamPhases, Ending, TrueEnd
  <2>3. QED
    BY <1>2, <1>3, <2>2
<1>6. CASE LinkEnds \/ LinkBreaks
  <2>1. link = "open" /\ link' \in {"ended", "broken"} /\ UNCHANGED <<done, closer, sawEnd>>
    BY <1>6 DEF LinkEnds, LinkBreaks, close, seen
  <2>2. StreamPhases' /\ Ending'
    BY <1>1, <1>2, <2>1 DEF StreamPhases, Ending
  <2>3. QED
    BY <1>2, <1>3, <2>2
<1>7. CASE BeginClose \/ EndClose
  <2>1. /\ done' /\ sawEnd' = sawEnd
        /\ link' = link \/ (link # "broken" /\ link' = "closed")
    BY <1>7 DEF BeginClose, EndClose, seen, StreamPhases
  <2>2. StreamPhases' /\ Ending'
    BY <1>1, <1>2, <2>1 DEF StreamPhases, Ending
  <2>3. QED
    BY <1>2, <1>3, <2>2
<1>8. QED
  BY <1>4, <1>5, <1>6, <1>7

\* An event changes hands: the reader sends it, or Recv returns it.
LEMMA HandsInv ==
    ASSUME MaxFrames \in Nat, StreamInv, Send \/ RecvReturns
    PROVE  StreamInv'
<1> USE DEF StreamInv
<1>1. /\ UNCHANGED <<wanted, sent, link, scanned, done, closer, finished, sawEnd>>
  BY DEF Send, RecvReturns, wire, close, read, seen
<1>2. received \in Seq(Sendable) /\ events \in Seq(Sendable)
  BY DEF StreamTypes
<1>3. CASE Send
  <2>1. /\ reader = "send" /\ events' = Append(events, item) /\ item' = Nothing
        /\ reader' = (IF item \in Events THEN "scan" ELSE "stopping")
        /\ received' = received
    BY <1>3 DEF Send, AfterSend, seen
  <2>2. item \in Sendable /\ item # Nothing
    BY <2>1 DEF StreamPhases, StreamTypes
  <2>3. events' = events \o <<item>> /\ events' \in Seq(Sendable)
    BY <1>2, <2>1, <2>2, AppendIsConcat, AppendProperties
  <2>4. StreamTypes'
    BY <1>1, <2>1, <2>3 DEF StreamTypes
  <2>5. Flow' = Flow
    <3>1. Flow' = received \o events'
      BY <2>1, <2>4, HoldsLast, FlowType, ConcatEmptySeq DEF Flow, Held, StreamTypes
    <3>2. Flow = (received \o events) \o <<item>>
      BY <2>2 DEF Flow, Held
    <3>3. <<item>> \in Seq(Sendable)
      BY <2>2
    <3>4. (received \o events) \o <<item>> = received \o (events \o <<item>>)
      BY <1>2, <3>3, ConcatAssociative
    <3>5. QED
      BY <2>3, <3>1, <3>2, <3>4
  <2>6. Conveying'
    BY <1>1, <2>1, <2>5, DueFixed, SameFlow
  <2>7. StreamPhases'
    BY <1>1, <2>1 DEF StreamPhases
  <2>8. Ending'
    <3>1. item \notin Events => item \in Errors
      BY <2>2 DEF Sendable
    <3>2. Flow # << >> /\ Flow[Len(Flow)] = item
      <4>1. received \o events \in Seq(Sendable)
        BY FlowType
      <4>2. Flow = Append(received \o events, item)
        BY <2>2, HoldsLast
      <4>3. QED
        BY <2>2, <4>1, <4>2, AppendProperties, LenProperties
    <3>3. item' \notin Errors
      BY <2>1, Items DEF Sendable
    <3>4. QED
      BY <1>1, <2>1, <2>5, <3>1, <3>2, <3>3 DEF Ending, TrueEnd
  <2>9. QED
    BY <2>4, <2>6, <2>7, <2>8
<1>4. CASE RecvReturns
  <2>1. /\ events # << >> /\ received' = Append(received, Head(events)) /\ events' = Tail(events)
        /\ UNCHANGED <<reader, item>>
    BY <1>4 DEF RecvReturns, read
  <2>2. /\ Head(events) \in Sendable /\ Tail(events) \in Seq(Sendable)
        /\ <<Head(events)>> \in Seq(Sendable) /\ events = <<Head(events)>> \o Tail(events)
    <3>1. Head(events) \in Sendable /\ Tail(events) \in Seq(Sendable)
      BY <1>2, <2>1, HeadTailProperties
    <3>2. events = <<Head(events)>> \o Tail(events)
      BY <1>2, <2>1
    <3>3. QED
      BY <3>1, <3>2
  <2>3. received' = received \o <<Head(events)>> /\ received' \in Seq(Sendable)
    BY <1>2, <2>1, <2>2, AppendIsConcat, AppendProperties
  <2>4. received' \o events' = received \o events
    <3>1. (received \o <<Head(events)>>) \o Tail(events) = received \o (<<Head(events)>> \o Tail(events))
      BY <1>2, <2>2, ConcatAssociative
    <3>2. QED
      BY <2>1, <2>2, <2>3, <3>1
  <2>5. Flow' = Flow
    BY <2>1, <2>4 DEF Flow, Held
  <2>6. StreamTypes' /\ StreamPhases'
    BY <1>1, <2>1, <2>2, <2>3 DEF StreamTypes, StreamPhases
  <2>7. Conveying' /\ Ending'
    BY <1>1, <2>1, <2>5, DueFixed, SameFlow DEF Ending, TrueEnd
  <2>8. QED
    BY <2>6, <2>7
<1>5. QED
  BY <1>3, <1>4

\* What the reader does to the frames it scans.

\* It holds an item more, an error.
LEMMA ErrorHeld ==
    ASSUME StreamInv, item = Nothing, item' \in Errors,
           reader \in {"scan", "failed"}, reader' = "send",
           UNCHANGED <<wanted, scanned, events, received, done>>
    PROVE  Conveying' /\ Flow' = Append(Flow, item')
<1> USE DEF StreamInv
<1>1. received \o events \in Seq(Sendable) /\ Flow = received \o events
  BY FlowType, HoldsLast
<1>2. item' \in Sendable /\ item' # Nothing
  BY Items DEF Sendable
<1>3. Flow' = Append(Flow, item')
  <2>1. Flow' = (received \o events) \o <<item'>>
    BY <1>2 DEF Flow, Held
  <2>2. QED
    BY <1>1, <1>2, <2>1, AppendIsConcat
<1>4. \A n \in Frames : item' # Frame(n)
  BY Items
<1>5. /\ Carried(Append(Flow, item'))
           = Carried(Flow) \cup {n \in Frames : item' = Frame(n)}
      /\ Ordered(Append(Flow, item')) <=>
           /\ Ordered(Flow)
           /\ \A n \in Frames :
                 item' = Frame(n) => \A m \in Carried(Flow) : m < n
  BY <1>1, <1>2, AppendCarries
<1>6. /\ Carried(Flow') = Carried(Flow)
      /\ Ordered(Flow) => Ordered(Flow')
  BY <1>3, <1>4, <1>5
<1>7. Conveyed' = Conveyed /\ (InSaltsOrder => InSaltsOrder')
  <2>1. Conveyed' = Carried(Flow') /\ (InSaltsOrder' <=> Ordered(Flow'))
    BY DEF Conveyed, Carried, InSaltsOrder, Ordered
  <2>2. QED
    BY <1>6, <2>1, FlowCarries
<1>8. Conveying'
  BY <1>7, DueFixed DEF Conveying, NothingLost
<1>9. QED
  BY <1>3, <1>8

\* After an error is held, and none other was, it is the last that is on its way.
LEMMA ErrorEnding ==
    ASSUME StreamInv, Flow' = Append(Flow, item'), reader' = "send",
           item' = TrueEnd, link # "open", link' = link
    PROVE  Ending'
<1>1. Flow \in Seq(Sendable) /\ item' \in Sendable
  BY FlowType, Items DEF StreamInv, TrueEnd
<1>2. link # "broken" => item' # Failure
  BY Items DEF TrueEnd
<1>3. \A i \in DOMAIN Flow' :
         Flow'[i] = item' \/ (i \in DOMAIN Flow /\ Flow'[i] = Flow[i])
  <2>1. /\ DOMAIN Flow = 1 .. Len(Flow) /\ Len(Flow) \in Nat
        /\ DOMAIN Flow' = 1 .. Len(Flow) + 1
        /\ \A i \in 1 .. Len(Flow) : Flow'[i] = Flow[i]
        /\ Flow'[Len(Flow) + 1] = item'
    <3>1. Flow' \in Seq(Sendable)
      BY <1>1, AppendProperties
    <3>2. QED
      BY <1>1, <3>1, AppendProperties, LenProperties
  <2>2. QED
    BY <2>1
<1>4. link' # "broken" => \A i \in DOMAIN Flow' : Flow'[i] # Failure
  BY <1>2, <1>3 DEF StreamInv, Ending
<1>5. TrueEnd' = TrueEnd
  BY DEF TrueEnd
<1>6. QED
  BY <1>4, <1>5 DEF Ending

LEMMA ScanFrameInv ==
    ASSUME MaxFrames \in Nat, StreamInv, ScanFrame
    PROVE  StreamInv'
<1> USE DEF StreamInv
<1>1. /\ reader = "scan" /\ scanned < sent /\ scanned' = scanned + 1
      /\ UNCHANGED <<wanted, sent, link, events, finished, done, closer, received, sawEnd>>
  BY DEF ScanFrame, wire, chan, close, seen
<1>2. /\ scanned \in Nat /\ sent \in Nat /\ sent <= MaxFrames /\ wanted \subseteq Frames
      /\ item = Nothing
  BY <1>1 DEF StreamTypes, StreamPhases
<1>3. scanned' \in Frames /\ scanned' <= sent' /\ scanned' \in Nat
  BY <1>1, <1>2 DEF Frames
<1>4. \A n \in Frames : n <= scanned' <=> n <= scanned \/ n = scanned'
  BY <1>1, <1>2 DEF Frames
<1>5. CASE scanned' \in wanted
  <2>1. item' = Frame(scanned') /\ reader' = "send"
    BY <1>1, <1>5 DEF ScanFrame, Matches
  <2>2. item' \in Sendable /\ item' # Nothing /\ item' \in Events
    BY <1>3, <2>1, Items
  <2>3. StreamTypes' /\ StreamPhases'
    BY <1>1, <1>2, <1>3, <2>1, <2>2 DEF StreamTypes, StreamPhases
  <2>4. received \o events \in Seq(Sendable) /\ Flow = received \o events
    BY <1>2, FlowType, HoldsLast
  <2>5. Flow' = Append(Flow, item')
    <3>1. Flow' = (received \o events) \o <<item'>>
      BY <1>1, <2>2 DEF Flow, Held
    <3>2. QED
      BY <2>2, <2>4, <3>1, AppendIsConcat
  <2>6. Due' = Due \cup {scanned'}
    BY <1>1, <1>2, <1>3, <1>4, <1>5 DEF Due
  <2>7. /\ Carried(Flow') = Carried(Flow) \cup {scanned'}
        /\ Ordered(Flow') <=>
             Ordered(Flow) /\ \A m \in Carried(Flow) : m < scanned'
    <3>1. \A n \in Frames : item' = Frame(n) <=> n = scanned'
      BY <1>3, <2>1, Items
    <3>2. /\ Carried(Append(Flow, item'))
               = Carried(Flow) \cup {n \in Frames : item' = Frame(n)}
          /\ Ordered(Append(Flow, item')) <=>
               /\ Ordered(Flow)
               /\ \A n \in Frames :
                     item' = Frame(n) => \A m \in Carried(Flow) : m < n
      BY <2>2, <2>4, AppendCarries
    <3>3. QED
      BY <1>3, <2>5, <3>1, <3>2
  <2>8. Carried(Flow) = Due /\ Ordered(Flow)
    BY <1>1, FlowCarries DEF Conveying, NothingLost
  <2>9. Ordered(Flow')
    <3>1. \A m \in Due : m < scanned'
      <4>1. \A m \in Due : m \in Nat /\ m <= scanned
        BY <1>2 DEF Due, Frames
      <4>2. QED
        BY <1>1, <1>2, <4>1
    <3>2. QED
      BY <2>7, <2>8, <3>1
  <2>10. Conveyed' = Due' /\ InSaltsOrder'
    <3>1. Conveyed' = Carried(Flow') /\ (InSaltsOrder' <=> Ordered(Flow'))
      BY DEF Conveyed, Carried, InSaltsOrder, Ordered
    <3>2. QED
      BY <2>6, <2>7, <2>8, <2>9, <3>1
  <2>11. Conveying'
    BY <2>10 DEF Conveying, NothingLost
  <2>12. Ending'
    <3>1. item' # Failure /\ item' \notin Errors
      BY <2>2, Items DEF Errors
    <3>2. /\ DOMAIN Flow = 1 .. Len(Flow) /\ Len(Flow) \in Nat
          /\ DOMAIN Flow' = 1 .. Len(Flow) + 1
          /\ \A i \in 1 .. Len(Flow) : Flow'[i] = Flow[i]
          /\ Flow'[Len(Flow) + 1] = item'
      <4>1. Flow' \in Seq(Sendable)
        BY <2>2, <2>4, <2>5, AppendProperties
      <4>2. QED
        BY <2>2, <2>4, <2>5, <4>1, AppendProperties, LenProperties
    <3>3. link' # "broken" => \A i \in DOMAIN Flow' : Flow'[i] # Failure
      BY <1>1, <3>1, <3>2 DEF Ending
    <3>4. QED
      BY <2>1, <3>1, <3>3 DEF Ending
  <2>13. QED
    BY <2>3, <2>11, <2>12
<1>6. CASE scanned' \notin wanted
  <2>1. UNCHANGED <<item, reader>>
    BY <1>6 DEF ScanFrame, Matches
  <2>2. Due' = Due
    BY <1>1, <1>2, <1>4, <1>6 DEF Due
  <2>3. Flow' = Flow
    BY <1>1, <2>1, FlowFixed
  <2>4. StreamTypes' /\ StreamPhases' /\ Ending'
    BY <1>1, <1>2, <1>3, <2>1, <2>3 DEF StreamTypes, StreamPhases, Ending, TrueEnd
  <2>5. QED
    BY <1>1, <2>1, <2>2, <2>3, <2>4, SameFlow
<1>7. QED
  BY <1>5, <1>6

\* An error ends what the reader has to say.
LEMMA ScanErrorInv ==
    ASSUME MaxFrames \in Nat, StreamInv,
           ScanEnds \/ ScanFails \/ CheckError \/ ReaderStops
    PROVE  StreamInv'
<1> USE DEF StreamInv
<1>1. UNCHANGED <<wanted, sent, link, scanned, events, done, closer, received, sawEnd>>
  BY DEF ScanEnds, ScanFails, CheckError, ReaderStops, wire,
         chan, close, seen
<1>2. CASE ScanEnds \/ (CheckError /\ reader' = "send")
  <2>1. /\ reader' = "send" /\ finished' = finished /\ reader \in {"scan", "failed"}
        /\ item' \in Errors
        /\ link # "open" /\ item' = TrueEnd
    <3>1. CASE ScanEnds
      BY <3>1 DEF ScanEnds, chan, TrueEnd, Errors
    <3>2. CASE CheckError /\ reader' = "send"
      <4>1. /\ reader = "failed" /\ item' = Failure /\ ~done /\ finished' = finished
        BY <3>2 DEF CheckError, Reported, chan
      <4>2. link = "broken"
        BY <4>1 DEF StreamPhases
      <4>3. QED
        BY <3>2, <4>1, <4>2 DEF TrueEnd, Errors
    <3>3. QED
      BY <1>2, <3>1, <3>2
  <2>2. item = Nothing /\ item' \in Sendable /\ item' # Nothing
    BY <2>1, Items DEF StreamPhases, Sendable
  <2>3. StreamTypes' /\ StreamPhases'
    BY <1>1, <2>1, <2>2 DEF StreamTypes, StreamPhases
  <2>4. QED
    BY <1>1, <2>1, <2>2, <2>3, ErrorHeld, ErrorEnding
<1>3. CASE ScanFails \/ ReaderStops \/ (CheckError /\ reader' # "send")
  <2>1. /\ item' = item
        /\ \/ /\ reader = "scan" /\ reader' = "failed"
              /\ link \in {"broken", "closed"} /\ finished' = finished
           \/ reader = "failed" /\ reader' = "stopping" /\ done /\ finished' = finished
           \/ reader = "stopping" /\ reader' = "stopped"
    BY <1>3 DEF ScanFails, ReaderStops, CheckError, Reported, chan
  <2>2. Flow' = Flow /\ Due' = Due
    BY <1>1, <2>1, FlowFixed, DueFixed
  <2>3. StreamTypes' /\ StreamPhases'
    BY <1>1, <2>1 DEF StreamTypes, StreamPhases
  <2>4. Ending'
    BY <1>1, <2>1, <2>2 DEF Ending, TrueEnd
  <2>5. Conveying'
    BY <1>1, <2>1, <2>2, SameFlow
  <2>6. QED
    BY <2>3, <2>4, <2>5
<1>4. QED
  BY <1>2, <1>3

\* After Close the reader drops what it holds, the latest.
LEMMA SendStopsInv ==
    ASSUME StreamInv, SendStops
    PROVE  StreamInv'
<1> USE DEF StreamInv
<1>1. /\ reader = "send" /\ reader' = "stopping" /\ done /\ item' = Nothing
      /\ UNCHANGED <<wanted, sent, link, scanned, events, finished, done, closer, received, sawEnd>>
  BY DEF SendStops, Stopped, wire, chan, close, seen
<1>2. StreamTypes' /\ StreamPhases'
  BY <1>1 DEF StreamTypes, StreamPhases
<1> DEFINE kept == received \o events
<1>3. kept \in Seq(Sendable) /\ item \in Sendable
      /\ Flow = Append(kept, item)
  BY <1>1, FlowType, HoldsLast DEF StreamTypes, StreamPhases
<1>4. Flow' = kept
  BY <1>1, <1>3, ConcatEmptySeq DEF Flow, Held
<1> HIDE DEF kept
<1>5. /\ Carried(Flow) = Due /\ Ordered(Flow)
  BY <1>1, FlowCarries DEF Conveying, NothingLost
<1>6. /\ Due = Carried(kept) \cup {n \in Frames : item = Frame(n)}
      /\ Ordered(kept)
      /\ \A n \in Frames : item = Frame(n) => \A m \in Carried(kept) : m < n
  BY <1>3, <1>5, AppendCarries
<1>7. ASSUME NEW n \in Carried(kept), NEW m \in Due, m < n
      PROVE  m \in Carried(kept)
  <2>1. CASE item = Frame(m)
    <3>1. n < m /\ m \in Nat /\ n \in Nat
      BY <1>6, <1>7, <2>1 DEF Carried, Due, Frames, StreamTypes
    <3>2. QED
      BY <1>7, <3>1
  <2>2. CASE item # Frame(m)
    BY <1>6, <2>2
  <2>3. QED
    BY <2>1, <2>2
<1>8. Conveying'
  <2>1. Conveyed' = Carried(kept) /\ (InSaltsOrder' <=> Ordered(kept))
    BY <1>4 DEF Conveyed, Carried, InSaltsOrder, Ordered
  <2>2. Due' = Due
    BY <1>1, DueFixed
  <2>3. QED
    BY <1>1, <1>6, <1>7, <2>1, <2>2 DEF Conveying, NothingLost
<1>9. Ending'
  <2>1. \A i \in DOMAIN kept : i \in DOMAIN Flow /\ Flow[i] = kept[i]
    BY <1>3, AppendProperties, LenProperties
  <2>2. QED
    BY <1>1, <1>4, <2>1 DEF Ending
<1>10. QED
  BY <1>2, <1>8, <1>9

LEMMA StreamStep ==
    ASSUME MaxFrames \in Nat, StreamInv, [StreamNext]_(streamVars)
    PROVE  StreamInv'
<1>1. CASE UNCHANGED streamVars
  <2>1. UNCHANGED <<wanted, sent, link, scanned, reader, item, events, finished, done, closer,
                    received, sawEnd>>
    BY <1>1 DEF streamVars, wire, read, chan, close, call,
                seen
  <2>2. Flow' = Flow /\ Due' = Due
    BY <2>1, FlowFixed, DueFixed
  <2>3. StreamTypes' /\ StreamPhases' /\ Ending'
    BY <2>1, <2>2 DEF StreamInv, StreamTypes, StreamPhases, Ending, TrueEnd
  <2>4. QED
    BY <2>1, <2>2, <2>3, SameFlow DEF StreamInv
<1>2. CASE StreamNext
  BY <1>2, OutsideInv, HandsInv, ScanFrameInv, ScanErrorInv, SendStopsInv
     DEF StreamNext, ReaderStep, RecvStep
<1>3. QED
  BY <1>1, <1>2

LEMMA StreamHolds == StreamSpec => []StreamInv
<1>1. StreamInit => StreamInv
  BY StreamInitInv, StreamAssumption
<1>2. StreamInv /\ [StreamNext]_(streamVars) => StreamInv'
  BY StreamStep, StreamAssumption
<1>3. QED
  BY <1>1, <1>2, PTL DEF StreamSpec

\* A stream that is not closed gives its consumer every event the filter wants, in
\* Salt's order and once, calls of Recv that give up included; and one that is
\* closed misses at most the latest (read, send and Recv in events.go).
THEOREM NoEventIsLost == StreamSpec => []NothingLost
<1>1. StreamInv => NothingLost
  BY DEF StreamInv, Conveying
<1>2. QED
  BY StreamHolds, <1>1, PTL

\* The consumer is told how a stream ended before it finds it closed, and an end
\* that Close has caused is never told as a failure (sendReadError).
THEOREM TheEndIsTold == StreamSpec => []EndIsTold
<1>1. ASSUME StreamInv PROVE EndIsTold
  <2> USE <1>1 DEF StreamInv
  <2>1. received \in Seq(Sendable) /\ events \in Seq(Sendable)
    BY DEF StreamTypes
  <2>2. ASSUME sawEnd, ~done
        PROVE  received # << >>
               /\ Last(received) = (IF link = "broken" THEN Failure ELSE EndOfFile)
    <3>1. events = << >> /\ reader = "stopped" /\ item = Nothing
      BY <2>2 DEF StreamPhases
    <3>2. Flow = received
      BY <2>1, <3>1, HoldsLast, ConcatEmptySeq
    <3>3. QED
      BY <2>2, <3>1, <3>2 DEF Ending, TrueEnd, Last
  <2>3. ASSUME link # "broken", NEW i \in DOMAIN received
        PROVE  received[i] # Failure
    <3>1. i \in DOMAIN Flow /\ Flow[i] = received[i]
      <4>1. Flow = received \o (events \o Held) /\ events \o Held \in Seq(Sendable)
        BY <2>1, FlowType, ConcatAssociative, ConcatProperties DEF Flow
      <4>2. QED
        BY <2>1, <4>1, ConcatProperties, LenProperties
    <3>2. QED
      BY <2>3, <3>1 DEF Ending
  <2>4. QED
    BY <2>2, <2>3 DEF EndIsTold
<1>2. QED
  BY StreamHolds, <1>1, PTL
==============================================================================
