------------------------------ MODULE RestAuth ------------------------------
(***************************************************************************)
(* Authenticated requests of the REST transport: EAuth caches the token of *)
(* /login, concurrent logins are coalesced by a singleflight group, and a  *)
(* request that Salt answers with 401 invalidates the token and is sent    *)
(* once more (transports/rest/auth.go, postBody in rest.go and subscribe   *)
(* in events.go).  Tokens are numbered in the order Salt issues them.      *)
(*                                                                         *)
(* Operators introduced as variants are the bugs the mutants put in.       *)
(***************************************************************************)
EXTENDS Naturals, FiniteSets

CONSTANTS
    Requests,       \* goroutines, each sending one request
    NoRequest,
    MaxRevocations, \* bound: how often Salt forgets every token it issued
    MaxExpiries,    \* bound: how often the cached token comes to its skewed expiry
    MaxFailures     \* bound: how many calls to Salt fail other than with a 401

ASSUME RequestsAssumption ==
    /\ NoRequest \notin Requests
    /\ MaxRevocations \in Nat
    /\ MaxExpiries \in Nat
    /\ MaxFailures \in Nat

VARIABLES
    pc,         \* where each request is
    attempt,    \* 1, or 2 once retryAuth is spent
    held,       \* the token the request carries
    joined,     \* the login call a request waits for: <<its leader, the leader's attempt>>
    login,      \* the token each login call obtained, or NoToken
    ended,      \* the login calls that are over
    group,      \* the leader of the call in the singleflight group
    token,      \* EAuth.token, or NoToken
    usable,     \* whether EAuth.expire less the skew is still to come
    issued,     \* Salt: how many tokens it has issued
    valid,      \* Salt: the tokens it accepts
    revoked,    \* how often Salt has revoked them
    expiries,   \* how often the cached token expired
    failures,   \* how many calls failed
    causes      \* history: how often a token or a login was lost

authVars == <<group, token, usable>>
saltVars == <<issued, valid, revoked>>
loginVars == <<login, ended>>
bounded == <<expiries, failures>>
vars == <<pc, attempt, held, joined, loginVars, authVars, saltVars, bounded, causes>>

NoToken  == 0
NoCall   == <<NoRequest, 0>>
Calls    == Requests \X {1, 2}

\* The login call a request leads.
Own(r) == <<r, attempt[r]>>

LoggingIn == {"recheck", "login", "issued", "cached"}
Ended     == {"accepted", "refused", "failed"}
PCs       == LoggingIn \cup Ended \cup {"idle", "token", "miss", "join", "post", "rejected"}

Init ==
    /\ pc = [r \in Requests |-> "idle"]
    /\ attempt = [r \in Requests |-> 1]
    /\ held = [r \in Requests |-> NoToken]
    /\ joined = [r \in Requests |-> NoCall]
    /\ login = [c \in Calls |-> NoToken]
    /\ ended = {}
    /\ group = NoRequest
    /\ token = NoToken
    /\ usable = FALSE
    /\ issued = 0
    /\ valid = {}
    /\ revoked = 0
    /\ expiries = 0
    /\ failures = 0
    /\ causes = 0

Goto(r, to) == pc' = [pc EXCEPT ![r] = to]

\* Token returns tk to the request, which sends itself with it.
Obtain(r, tk) == Goto(r, "post") /\ held' = [held EXCEPT ![r] = tk]

------------------------------------------------------------------------------
\* EAuth.Token.

Start(r) ==
    /\ pc[r] = "idle"
    /\ Goto(r, "token")
    /\ UNCHANGED <<attempt, held, joined, loginVars, authVars, saltVars, bounded, causes>>

Cached == token # NoToken /\ usable

TokenCached(r) ==
    /\ pc[r] = "token"
    /\ Cached
    /\ Obtain(r, token)
    /\ UNCHANGED <<attempt, joined, loginVars, authVars, saltVars, bounded, causes>>

TokenMisses(r) ==
    /\ pc[r] = "token"
    /\ ~Cached
    /\ Goto(r, "miss")
    /\ UNCHANGED <<attempt, held, joined, loginVars, authVars, saltVars, bounded, causes>>

\* group.Do: join the call in the group, whoever leads it, or lead a new one.
JoinLogin(r) ==
    /\ pc[r] = "miss"
    /\ group # NoRequest
    /\ Goto(r, "join")
    /\ joined' = [joined EXCEPT ![r] = Own(group)]
    /\ UNCHANGED <<attempt, held, loginVars, authVars, saltVars, bounded, causes>>

LeadLogin(r) ==
    /\ pc[r] = "miss"
    /\ group = NoRequest
    /\ group' = r
    /\ Goto(r, "recheck")
    /\ UNCHANGED <<attempt, held, joined, loginVars, token, usable, saltVars, bounded, causes>>

\* Variant: the leader logs in without looking at the cache again.
NeverCached == FALSE

\* The leader looks at the cache again: a call may have ended meanwhile.
CachedAgain == Cached

Recheck(r) ==
    /\ pc[r] = "recheck"
    /\ \/ /\ CachedAgain
          /\ login' = [login EXCEPT ![Own(r)] = token]
          /\ Goto(r, "cached")
       \/ /\ ~CachedAgain
          /\ Goto(r, "login")
          /\ UNCHANGED login
    /\ UNCHANGED <<attempt, held, joined, ended, authVars, saltVars, bounded, causes>>

\* Salt answers /login; its answer is on the way.
SaltIssues(r) ==
    /\ pc[r] = "login"
    /\ issued' = issued + 1
    /\ valid' = valid \cup {issued'}
    /\ login' = [login EXCEPT ![Own(r)] = issued']
    /\ Goto(r, "issued")
    /\ UNCHANGED <<attempt, held, joined, ended, authVars, revoked, bounded, causes>>

CacheToken(r) ==
    /\ pc[r] = "issued"
    /\ token' = login[Own(r)]
    /\ usable' = TRUE
    /\ Goto(r, "cached")
    /\ UNCHANGED <<attempt, held, joined, loginVars, group, saltVars, bounded, causes>>

\* The entry of a call that ends leaves the group, unless it was forgotten.
Left(r) == IF group = r THEN NoRequest ELSE group

\* Variant: nobody is told that a forgotten call is over.
ReleasedIfCurrent(r) == IF group = r THEN ended \cup {Own(r)} ELSE ended

\* Its followers are released, forgotten or not.
Released(r) == ended \cup {Own(r)}

LoginReturns(r) ==
    /\ pc[r] = "cached"
    /\ group' = Left(r)
    /\ ended' = Released(r)
    /\ Obtain(r, login[Own(r)])
    /\ UNCHANGED <<attempt, joined, login, token, usable, saltVars, bounded, causes>>

\* The login fails: refused, unreachable, or the leader's context ends.
LoginFails(r) ==
    /\ pc[r] \in {"login", "issued"}
    /\ failures < MaxFailures
    /\ failures' = failures + 1
    /\ causes' = IF pc[r] = "issued" THEN causes + 1 ELSE causes
    /\ login' = [login EXCEPT ![Own(r)] = NoToken]
    /\ group' = Left(r)
    /\ ended' = Released(r)
    /\ Goto(r, "failed")
    /\ UNCHANGED <<attempt, held, joined, token, usable, saltVars, expiries>>

\* A follower gets what its leader got: the token, or the leader's error.
FollowerReturns(r) ==
    /\ pc[r] = "join"
    /\ joined[r] \in ended
    /\ joined' = [joined EXCEPT ![r] = NoCall]
    /\ \/ /\ login[joined[r]] # NoToken
          /\ Obtain(r, login[joined[r]])
       \/ /\ login[joined[r]] = NoToken
          /\ Goto(r, "failed")
          /\ UNCHANGED held
    /\ UNCHANGED <<attempt, loginVars, authVars, saltVars, bounded, causes>>

------------------------------------------------------------------------------
\* postBody: the request is sent with its token, and once more after a 401.

SaltAccepts(r) ==
    /\ pc[r] = "post"
    /\ held[r] \in valid
    /\ Goto(r, "accepted")
    /\ UNCHANGED <<attempt, held, joined, loginVars, authVars, saltVars, bounded, causes>>

SaltRejects(r) ==
    /\ pc[r] = "post"
    /\ held[r] \notin valid
    /\ Goto(r, "rejected")
    /\ UNCHANGED <<attempt, held, joined, loginVars, authVars, saltVars, bounded, causes>>

PostFails(r) ==
    /\ pc[r] = "post"
    /\ failures < MaxFailures
    /\ failures' = failures + 1
    /\ Goto(r, "failed")
    /\ UNCHANGED <<attempt, held, joined, loginVars, authVars, saltVars, expiries, causes>>

\* Variant: a 401 is always worth another try.
AlwaysRetried(r) == TRUE

\* retryAuth.
MayRetry(r) == attempt[r] = 1

\* InvalidateToken: the login in flight is forgotten with the token.
Invalidate(r) ==
    /\ pc[r] = "rejected"
    /\ MayRetry(r)
    /\ token' = NoToken
    /\ usable' = FALSE
    /\ group' = NoRequest
    /\ attempt' = [attempt EXCEPT ![r] = @ + 1]
    /\ Goto(r, "token")
    /\ causes' = causes + (IF group = NoRequest THEN 1 ELSE 2)
    /\ UNCHANGED <<held, joined, loginVars, saltVars, bounded>>

Refuse(r) ==
    /\ pc[r] = "rejected"
    /\ ~MayRetry(r)
    /\ Goto(r, "refused")
    /\ UNCHANGED <<attempt, held, joined, loginVars, authVars, saltVars, bounded, causes>>

------------------------------------------------------------------------------
\* Time and Salt.

Expires ==
    /\ Cached
    /\ expiries < MaxExpiries
    /\ expiries' = expiries + 1
    /\ usable' = FALSE
    /\ causes' = causes + 1
    /\ UNCHANGED <<pc, attempt, held, joined, loginVars, group, token, saltVars, failures>>

\* Salt's master restarts, or its tokens are cleared.
SaltRevokes ==
    /\ revoked < MaxRevocations
    /\ revoked' = revoked + 1
    /\ valid' = {}
    /\ UNCHANGED <<pc, attempt, held, joined, loginVars, authVars, issued, bounded, causes>>

RequestStep(r) ==
    \/ TokenCached(r) \/ TokenMisses(r) \/ JoinLogin(r) \/ LeadLogin(r)
    \/ Recheck(r) \/ CacheToken(r) \/ LoginReturns(r) \/ FollowerReturns(r)
    \/ Invalidate(r) \/ Refuse(r)

SaltStep(r) == SaltIssues(r) \/ SaltAccepts(r) \/ SaltRejects(r)

\* The requests of postBody and of subscribe, which takes the same steps.
Next ==
    \/ \E r \in Requests :
        Start(r) \/ RequestStep(r) \/ SaltStep(r) \/ LoginFails(r) \/ PostFails(r)
    \/ Expires
    \/ SaltRevokes

Spec == Init /\ [][Next]_vars

------------------------------------------------------------------------------
\* Properties.

\* Every variable keeps to its values; a request is sent twice at most.
TypeOK ==
    /\ pc \in [Requests -> PCs]
    /\ attempt \in [Requests -> {1, 2}]
    /\ held \in [Requests -> Nat]
    /\ joined \in [Requests -> Calls \cup {NoCall}]
    /\ login \in [Calls -> Nat]
    /\ ended \in SUBSET Calls
    /\ group \in Requests \cup {NoRequest}
    /\ token \in Nat
    /\ usable \in BOOLEAN
    /\ issued \in Nat
    /\ valid \in SUBSET (1 .. issued)
    /\ revoked \in 0 .. MaxRevocations
    /\ expiries \in 0 .. MaxExpiries
    /\ failures \in 0 .. MaxFailures
    /\ causes \in Nat

\* Salt is not asked in vain.  Logins are coalesced: a token is asked for once, and
\* once more for each token that was invalidated or expired and each login that
\* was forgotten or whose answer was lost, however the requests interleave; and a
\* request is sent once more at most, though every answer be a 401.
OneLoginPerCause ==
    /\ issued <= 1 + causes
    /\ \A r \in Requests : attempt[r] <= 2

\* Nobody waits for a login that will not be answered: the group names one in
\* progress, and a call that a request waits for is over or in progress.
NoOrphans ==
    /\ group # NoRequest => pc[group] \in LoggingIn
    /\ \A r \in Requests : pc[r] = "join" =>
         LET leader == joined[r][1] IN
         \/ joined[r] \in ended
         \/ pc[leader] \in LoggingIn /\ Own(leader) = joined[r]
==============================================================================
