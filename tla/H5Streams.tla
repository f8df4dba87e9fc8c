----------------------------- MODULE H5Streams -----------------------------
(***************************************************************************)
(* internal/h5monitor and the parts of internal/ezviz it calls: requests   *)
(* for live and playback addresses take a slot of their user, ask the      *)
(* camera cloud with a cached access token, which each call fetches when   *)
(* there is none and once more when it is refused, and are audited before  *)
(* the address is handed out; disabling an address gives a slot back.      *)
(* Slots and token live in memory and are lost with the process.           *)
(***************************************************************************)
EXTENDS Naturals, FiniteSets

CONSTANTS
    Users, Requests, None,
    UserMax, AdminMax,   \* acquireConcurrency: 15 and 20
    MaxToken             \* bound on how often the cloud changes its token

ASSUME StreamAssumption ==
    UserMax \in Nat \ {0} /\ AdminMax \in Nat /\ UserMax <= AdminMax /\ MaxToken \in Nat

Tokens == 0..MaxToken
Kinds == {"live", "playback", "segments", "disable"}
VARIABLES
    active,   \* concurrency: slots taken, by user
    cache,    \* tokens[account]: token, and whether it has an hour to go
    static,   \* the account's configured AccessToken
    cloud,    \* the token that the cloud accepts
    pc, answer, user,
    call,     \* of a request under way: what it asks for, and of its call of
              \*   the cloud the step, the token in use, the token fetched, and
              \*   whether a token was refused
    slot,     \* slot of a started stream: "none", "taken", "held", "back", "lost"
    audit,    \* requests with a success row in the audit log
    stray     \* slots given back by disable requests without a stream of their own

mem == <<active, slot, stray>>
vars == <<mem, static, cache, cloud, pc, answer, user, call, audit>>

NoCall == [kind |-> None, target |-> None, step |-> None,
           token |-> None, got |-> None, refused |-> FALSE]
Steps == {"aac", "address", "segments", "disable"}
CallTypes == [kind : Kinds \cup {None}, target : Requests \cup {None},
              step : Steps \cup {None}, token : Tokens \cup {None},
              got : Tokens \cup {None}, refused : BOOLEAN]

TypeOK ==
    /\ active \in [Users -> 0..AdminMax]
    /\ cache \in [token : Tokens \cup {None}, fresh : BOOLEAN]
    /\ static \in {None, 0} /\ cloud \in Tokens
    /\ pc \in [Requests -> {"new", "admit", "look", "post", "refresh", "store", "repost",
                            "audit", "end"}]
    /\ user \in [Requests -> Users \cup {None}]
    /\ call \in [Requests -> CallTypes]
    /\ answer \in [Requests -> {"none", "ok", "failed", "expired"}]
    /\ slot \in [Requests -> {"none", "taken", "held", "back", "lost"}]
    /\ audit \subseteq Requests
    /\ stray \in [Users -> Nat]

Init ==
    /\ active = [u \in Users |-> 0]
    /\ cache = [token |-> None, fresh |-> FALSE]
    /\ static \in {None, 0} /\ cloud = 0
    /\ pc = [r \in Requests |-> "new"]
    /\ user = [r \in Requests |-> None] /\ answer = [r \in Requests |-> "none"]
    /\ call = [r \in Requests |-> NoCall]
    /\ slot = [r \in Requests |-> "none"]
    /\ audit = {}
    /\ stray = [u \in Users |-> 0]

-----------------------------------------------------------------------------
(* Slots. *)

\* The answer of a request; "failed" stands for every refusal but an expired token.
End(r, a) ==
    /\ pc' = [pc EXCEPT ![r] = "end"]
    /\ answer' = [answer EXCEPT ![r] = a]
    /\ call' = [call EXCEPT ![r] = IF a = "expired" THEN [NoCall EXCEPT !.got = call[r].got]
                                   ELSE NoCall]

Limit(isAdmin) == IF isAdmin THEN AdminMax ELSE UserMax

\* The body of releaseConcurrency.
Released(u) == [active EXCEPT ![u] = IF @ > 0 THEN @ - 1 ELSE @]

\* Mutant: a failed start keeps its slot.
releaseStart_Kept(r) == slot' = [slot EXCEPT ![r] = "back"] /\ UNCHANGED <<active, stray>>

\* releaseConcurrency after a start that failed.
releaseStart(r) ==
    /\ active' = Released(user[r])
    /\ slot' = [slot EXCEPT ![r] = "back"]
    /\ UNCHANGED stray

\* releaseConcurrency of DisableURL: the slot is the caller's, the address need
\* not be; "stray" keeps count of that.
releaseDisabled(r) ==
    LET s == call[r].target
        own == s # None /\ user[s] = user[r] /\ slot[s] = "held"
    IN  /\ active' = Released(user[r])
        /\ slot' = IF own THEN [slot EXCEPT ![s] = "back"] ELSE slot
        /\ stray' = IF own THEN stray ELSE [stray EXCEPT ![user[r]] = @ + 1]

\* acquireConcurrency when the user is below the limit of the role.
acquireConcurrency(r, isAdmin) ==
    LET u == user[r]
    IN  /\ active[u] < Limit(isAdmin)
        /\ active' = [active EXCEPT ![u] = @ + 1]
        /\ slot' = [slot EXCEPT ![r] = "taken"]
        /\ UNCHANGED stray

-----------------------------------------------------------------------------
(* The handlers up to the call of the cloud. *)

\* ensureCanViewStoreForAction and applyServerIdentity.  Rights and roles are
\* changed by administrators at any time, so each reading may find any value; the
\* role is looked at once, where a slot is taken, and is chosen there.
\* t is the stream that a disable request names, whoever it belongs to.
Begin(r, u, k, t) ==
    /\ pc[r] = "new"
    /\ user' = [user EXCEPT ![r] = u]
    /\ \/ /\ pc' = [pc EXCEPT ![r] = "admit"]
          /\ call' = [call EXCEPT ![r] = [NoCall EXCEPT !.kind = k, !.target = t]]
          /\ UNCHANGED answer
       \/ End(r, "failed")
    /\ UNCHANGED <<static, mem, cache, cloud, audit>>

\* Of a call that ended only what was asked for is kept.
Asks(r) == [NoCall EXCEPT !.kind = call[r].kind, !.target = call[r].target]
Call(r, s) ==
    /\ pc' = [pc EXCEPT ![r] = "look"]
    /\ call' = [call EXCEPT ![r] = [Asks(r) EXCEPT !.step = s]]
    /\ UNCHANGED answer

\* One action per route.
getLiveURL(r, u) == Begin(r, u, "live", None)
getPlaybackURL(r, u) == Begin(r, u, "playback", None)
getRecordSegments(r, u) == Begin(r, u, "segments", None)
disableURL(r, u, t) == t # r /\ slot[t] \in {"held", "back", "lost"} /\ Begin(r, u, "disable", t)

\* validateChannel may find the channel gone at any time, and there may be no slot:
\* both end the request alike.
Start(r, first) ==
    /\ \/ End(r, "failed") /\ UNCHANGED mem
       \/ \E isAdmin \in BOOLEAN : acquireConcurrency(r, isAdmin) /\ Call(r, first)
    /\ UNCHANGED <<static, cache, cloud, user, audit>>

GetLiveURL(r) == pc[r] = "admit" /\ call[r].kind = "live" /\ Start(r, "aac")

\* The request's time range is tested between the channel and the slot; a bad one
\* ends like a channel that is gone.
GetPlaybackURL(r) == pc[r] = "admit" /\ call[r].kind = "playback" /\ Start(r, "address")

GetRecordSegments(r) ==
    /\ pc[r] = "admit" /\ call[r].kind = "segments"
    /\ Call(r, "segments") \/ End(r, "failed")
    /\ UNCHANGED <<static, mem, cache, cloud, user, audit>>

\* A channel that is not valid any more gives the slot back at once.
DisableURL(r) ==
    /\ pc[r] = "admit" /\ call[r].kind = "disable"
    /\ \/ Call(r, "disable") /\ UNCHANGED mem
       \/ End(r, "failed") /\ releaseDisabled(r)
    /\ UNCHANGED <<static, cache, cloud, user, audit>>

-----------------------------------------------------------------------------
(* A call of the cloud. *)

\* accessToken.
LookToken(r) ==
    LET usable == cache.token # None /\ cache.fresh
    IN  /\ pc[r] = "look"
        /\ call' = [call EXCEPT ![r].token = IF usable THEN cache.token ELSE static]
        /\ pc' = [pc EXCEPT ![r] = IF usable \/ static # None THEN "post" ELSE "refresh"]
        /\ UNCHANGED <<static, mem, cache, cloud, user, answer, audit>>

\* What becomes of a request when its call ends with result "ok", "failed" or
\* "expired".  The AAC transfer is optional.
EnsureAACTransfer(r, result) == call[r].step = "aac" /\ Call(r, "address") /\ UNCHANGED mem

Address(r, result) ==
    /\ call[r].step = "address"
    /\ IF result = "ok"
       THEN /\ pc' = [pc EXCEPT ![r] = "audit"]
            /\ call' = [call EXCEPT ![r] = Asks(r)]
            /\ UNCHANGED <<mem, answer>>
       ELSE End(r, result) /\ releaseStart(r)
LiveAddress(r, result) == call[r].kind = "live" /\ Address(r, result)
PlaybackAddress(r, result) == call[r].kind = "playback" /\ Address(r, result)

\* All pages are asked for again with the new token.
QueryRecordSegments(r, result) ==
    call[r].step = "segments" /\ End(r, result) /\ UNCHANGED mem

DisableLiveAddress(r, result) ==
    call[r].step = "disable" /\ End(r, result) /\ releaseDisabled(r)

CallEnds(r, result) ==
    \/ EnsureAACTransfer(r, result)
    \/ LiveAddress(r, result)
    \/ PlaybackAddress(r, result)
    \/ QueryRecordSegments(r, result)
    \/ DisableLiveAddress(r, result)

\* The first postForm of a call; a refused token is refreshed, also one that the
\* call has just fetched for an empty cache; any other error is final.
Post(r) ==
    /\ pc[r] = "post"
    /\ \/ call[r].token = cloud /\ CallEnds(r, "ok")
       \/ /\ call[r].token # cloud
          /\ pc' = [pc EXCEPT ![r] = "refresh"]
          /\ call' = [call EXCEPT ![r].refused = TRUE, ![r].token = None]
          /\ UNCHANGED <<mem, answer>>
       \/ CallEnds(r, "failed")
    /\ UNCHANGED <<static, cache, cloud, user, audit>>

\* refreshToken, the request: no lock is held over it.
RefreshToken(r) ==
    /\ pc[r] = "refresh"
    /\ \/ /\ call' = [call EXCEPT ![r].got = cloud]
          /\ pc' = [pc EXCEPT ![r] = "store"]
          /\ UNCHANGED <<mem, answer>>
       \/ CallEnds(r, "failed")
    /\ UNCHANGED <<static, cache, cloud, user, audit>>

\* Mutant: the token is taken from the cache, where another refresh may be.
StoreToken_ReadsCache(r) ==
    /\ pc[r] = "store"
    /\ cache' = IF cache.token = None THEN [token |-> call[r].got, fresh |-> TRUE] ELSE cache
    /\ call' = [call EXCEPT ![r].token = cache'.token]
    /\ pc' = [pc EXCEPT ![r] = IF call[r].refused THEN "repost" ELSE "post"]
    /\ UNCHANGED <<static, mem, cloud, user, answer, audit>>

\* refreshToken, the answer: the last one to arrive stays in the cache.
StoreToken(r) ==
    /\ pc[r] = "store"
    /\ cache' = [token |-> call[r].got, fresh |-> TRUE]
    /\ call' = [call EXCEPT ![r].token = call[r].got]
    /\ pc' = [pc EXCEPT ![r] = IF call[r].refused THEN "repost" ELSE "post"]
    /\ UNCHANGED <<static, mem, cloud, user, answer, audit>>

\* The request with the token refreshed after the refusal; there is no third one.
Repost(r) ==
    /\ pc[r] = "repost"
    /\ \/ call[r].token = cloud /\ CallEnds(r, "ok")
       \/ call[r].token # cloud /\ CallEnds(r, "expired")
       \/ CallEnds(r, "failed")
    /\ UNCHANGED <<static, cache, cloud, user, audit>>

-----------------------------------------------------------------------------
(* The end of a start, and the surroundings. *)

\* recordMonitorAudit of a success: without it the address is not handed out.
RecordAudit(r) ==
    /\ pc[r] = "audit"
    /\ \/ /\ audit' = audit \cup {r}
          /\ End(r, "ok")
          /\ slot' = [slot EXCEPT ![r] = "held"]
          /\ UNCHANGED <<active, stray>>
       \/ /\ audit' \in {audit, audit \cup {r}}
          /\ End(r, "failed")
          /\ releaseStart(r)
    /\ UNCHANGED <<static, cache, cloud, user>>

\* The process starts again: slots, token and requests under way are gone, the
\* streams of the clients play on.
Restart ==
    /\ active' = [u \in Users |-> 0]
    /\ cache' = [token |-> None, fresh |-> FALSE]
    /\ slot' = [r \in Requests |-> IF slot[r] \in {"taken", "held"} THEN "lost" ELSE slot[r]]
    /\ pc' = [r \in Requests |-> IF pc[r] = "new" THEN "new" ELSE "end"]
    /\ call' = [r \in Requests |-> [NoCall EXCEPT !.got = IF answer[r] = "expired" THEN call[r].got
                                                         ELSE None]]
    /\ UNCHANGED <<static, stray, cloud, user, answer, audit>>

\* The cached token has less than an hour to go.
Age ==
    /\ cache.fresh
    /\ cache' = [cache EXCEPT !.fresh = FALSE]
    /\ UNCHANGED <<static, mem, cloud, pc, answer, user, call, audit>>

\* The cloud stops accepting its token, whatever expiry it had announced.
Rotate ==
    /\ cloud < MaxToken
    /\ cloud' = cloud + 1
    /\ UNCHANGED <<static, mem, cache, pc, answer, user, call, audit>>

Next ==
    \/ \E r \in Requests, u \in Users :
          \/ getLiveURL(r, u) \/ getPlaybackURL(r, u) \/ getRecordSegments(r, u)
          \/ \E t \in Requests : disableURL(r, u, t)
    \/ \E r \in Requests : \/ GetLiveURL(r) \/ GetPlaybackURL(r) \/ GetRecordSegments(r)
                           \/ DisableURL(r)
                           \/ LookToken(r) \/ Post(r) \/ RefreshToken(r) \/ StoreToken(r)
                           \/ Repost(r) \/ RecordAudit(r)
    \/ Restart \/ Age \/ Rotate

Spec == Init /\ [][Next]_vars

-----------------------------------------------------------------------------
(* Properties. *)

Streams(u) == {r \in Requests : user[r] = u /\ slot[r] \in {"taken", "held"}}

\* The count of a user is the number of starts under way and addresses handed out:
\* no path of the handlers leaks a slot, and only a disable request for an address
\* that holds no slot of the caller makes the count too small, by one each.
SlotsAccounted ==
    \A u \in Users : LET n == Cardinality(Streams(u))
                     IN  active[u] <= n /\ n <= active[u] + stray[u]

\* A call that was refused and refreshed its token fails for an expired token only
\* if the cloud changed it once more after that refresh: a stale token, whether it
\* was cached, configured, fetched by the call itself for an empty cache or left by
\* a slower refresh of another request, costs one repetition and never an error.
OneRefreshSuffices ==
    \A r \in Requests : answer[r] = "expired" => call[r].got < cloud
=============================================================================
