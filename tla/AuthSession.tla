---------------------------- MODULE AuthSession ----------------------------
(***************************************************************************)
(* The login sessions of internal/app: the SSO credential check, the       *)
(* session table tb_auth_sessions as MySQLStore keeps it, and the handlers *)
(* that read and write it (authGate, authMeHandler, the status poll, the   *)
(* SSO callback and logout).  Every statement or transaction the code      *)
(* sends to MySQL is one step, so two tabs, two pods, an administrator and *)
(* the clock interleave between them.                                      *)
(*                                                                         *)
(* The host is a company host, so authRequired is TRUE and a rejected      *)
(* callback may redirect to the gateway.                                   *)
(***************************************************************************)
EXTENDS Naturals, FiniteSets

CONSTANTS
    Users,        \* rows of tb_users
    Creds,        \* SSO JWTs the gateway can issue
    CredUser,     \* the user whose mail a JWT carries
    Tokens,       \* random session tokens (newAuthSessionToken)
    Browsers,     \* cookie jars
    Reqs,         \* HTTP requests in flight
    None,
    IdleTimeout,  \* defaultAuthIdleTimeout, in ticks
    AbsTimeout,   \* defaultAuthAbsoluteTimeout, in ticks
    CredTTL,      \* lifetime of a JWT plus the accepted clock skew, in ticks
    MaxTime       \* bound of the clock

ASSUME SessionAssumption ==
    /\ CredUser \in [Creds -> Users] /\ Browsers # {}
    /\ None \notin Users \cup Creds \cup Tokens \cup Reqs
    /\ IdleTimeout \in Nat \ {0} /\ AbsTimeout \in Nat /\ IdleTimeout <= AbsTimeout
    /\ CredTTL \in Nat /\ MaxTime \in Nat

VARIABLES
    now,       \* the clock: utc_timestamp of the database and authNow of the pods
    enabled,   \* tb_users.enabled
    credExp,   \* exp claim of each JWT; 0 when the gateway has not issued it
    row,       \* tb_auth_sessions by token; user = None when there is no row
    lock,      \* holder of the InnoDB lock on each tb_users row
    jar,       \* cookies of each browser: sso, local session, reauth attempt
    pc, in, uid, out, made, \* per request: step, cookies sent, user read, answer, token created
    used       \* history: when the owner last made a request that authGate accepted

vars == <<now, enabled, credExp, row, lock, jar, pc, in, uid, out, made, used>>

Reasons == {"none", "idle_timeout", "absolute_timeout", "manual_logout"}
Kinds   == {"api", "me", "status", "callback", "logout"}
Steps   == {"idle", "sso", "resso", "touch", "revoke", "status", "mestatus",
            "lock", "check", "insert", "respond"}
Codes   == {"none", "ok", "error", "unauthorized", "forbidden", "login_required",
            "idle", "absolute", "reauth_required", "unavailable", "gateway",
            "created", "signed_in", "logged_out"}

Session == [user : Users \cup {None}, sso : Creds \cup {None},
            created : Nat, last : Nat, expires : Nat, revoked : Reasons]
NoSession == [user |-> None, sso |-> None, created |-> 0, last |-> 0,
              expires |-> 0, revoked |-> "none"]

Cookie  == [sso : Creds \cup {None}, local : Tokens \cup {None}, attempt : BOOLEAN]
Request == [kind : Kinds, browser : Browsers, sso : Creds \cup {None},
            local : Tokens \cup {None}, attempt : BOOLEAN]

TypeOK ==
    /\ now \in Nat
    /\ enabled \in [Users -> BOOLEAN]
    /\ credExp \in [Creds -> Nat]
    /\ row \in [Tokens -> Session]
    /\ lock \in [Users -> Reqs \cup {None}]
    /\ jar \in [Browsers -> Cookie]
    /\ pc \in [Reqs -> Steps]
    /\ in \in [Reqs -> Request]
    /\ uid \in [Reqs -> Users \cup {None}]
    /\ out \in [Reqs -> Codes]
    /\ made \in [Reqs -> Tokens \cup {None}]
    /\ used \in [Tokens -> Nat]

-----------------------------------------------------------------------------
(* The store's decisions, as functions of one row, the asking user and now. *)

Later(a, b)   == IF a >= b THEN a ELSE b
Earlier(a, b) == IF a <= b THEN a ELSE b

\* Mutant: the where clause without user_id.
Touchable_NoUser(s, u) ==
    /\ s.user # None /\ s.revoked = "none" /\ s.expires > now
    /\ s.last + IdleTimeout > now /\ s.created + AbsTimeout > now

\* The where clause of mysqlAuthSessionTouchSQL and mysqlAuthSessionValidSQL.
Touchable(s, u) ==
    /\ s.user = u
    /\ s.revoked = "none"
    /\ s.expires > now
    /\ s.last + IdleTimeout > now
    /\ s.created + AbsTimeout > now

\* The outcome of TouchAuthSession; an unknown row and a revoked one are "idle".
TouchOutcome(s, u) ==
    IF Touchable(s, u) THEN "active"
    ELSE IF s.user = u /\ s.revoked = "none" /\ s.created + AbsTimeout <= now
         THEN "absolute" ELSE "idle"

\* The set clause of mysqlAuthSessionTouchSQL.
Touched(s) ==
    LET active == Later(s.last, now)
    IN  [user |-> s.user, sso |-> s.sso, created |-> s.created, last |-> active,
         expires |-> Earlier(s.created + AbsTimeout, active + IdleTimeout),
         revoked |-> s.revoked]

\* The outcome of GetAuthSessionStatus: the age is tested before the revocation.
StatusOutcome(s, u) ==
    IF s.user # u THEN "idle"
    ELSE IF s.created + AbsTimeout <= now THEN "absolute"
    ELSE IF s.revoked # "none" \/ Earlier(s.expires, s.last + IdleTimeout) <= now
         THEN "idle" ELSE "ok"

\* Mutant: a revocation overwrites an earlier one.
Revoked_Overwrite(s, u, why) == IF s.user = u THEN [s EXCEPT !.revoked = why] ELSE s

\* mysqlAuthSessionRevokeSQL: only an unrevoked row of the same user is written.
Revoked(s, u, why) ==
    IF s.user = u /\ s.revoked = "none"
    THEN [user |-> s.user, sso |-> s.sso, created |-> s.created, last |-> s.last,
          expires |-> s.expires, revoked |-> why]
    ELSE s

\* memoryAuthSessionStore's versions of the same three operations.
MemTouchOutcome(s, u) ==
    IF s.user # u \/ s.revoked # "none" THEN "idle"
    ELSE IF now >= s.created + AbsTimeout THEN "absolute"
    ELSE IF now >= s.expires \/ now >= s.last + IdleTimeout THEN "idle" ELSE "active"

\* Mutant: the memory store forgets the absolute deadline when it extends.
MemTouched_NoClamp(s) ==
    IF now > s.last THEN [s EXCEPT !.last = now, !.expires = now + IdleTimeout] ELSE s

MemTouched(s) ==
    IF now > s.last
    THEN [user |-> s.user, sso |-> s.sso, created |-> s.created, last |-> now,
          expires |-> IF now + IdleTimeout > s.created + AbsTimeout
                      THEN s.created + AbsTimeout ELSE now + IdleTimeout,
          revoked |-> s.revoked]
    ELSE s

MemStatusOutcome(s, u) ==
    IF s.user # u \/ s.revoked # "none" THEN "idle"
    ELSE IF s.created + AbsTimeout <= now THEN "absolute"
    ELSE IF Earlier(s.expires, s.last + IdleTimeout) <= now THEN "idle" ELSE "ok"

-----------------------------------------------------------------------------
(* Requests and answers. *)

\* validateAPISIXSSOToken: a JWT that was issued and has not expired.
ValidCred(c) == c # None /\ credExp[c] # 0 /\ now <= credExp[c]

\* The error of authenticateSSO for the cookies of r; "ok" when it succeeds.
authenticateSSO(r) ==
    IF ~ValidCred(in[r].sso) THEN "unauthorized"
    ELSE IF ~enabled[CredUser[in[r].sso]] THEN "forbidden" ELSE "ok"

\* rejectAuthCallback on a company host, then writeAuthError.
rejectAuthCallback(r, err) ==
    IF err = "unavailable" \/ in[r].attempt THEN err ELSE "gateway"

\* How an error reaches the client: the callback goes through rejectAuthCallback
\* once its own authenticateSSO has succeeded.
Reply(r, err) ==
    IF in[r].kind = "callback" /\ pc[r] # "sso" THEN rejectAuthCallback(r, err) ELSE err

Respond(r, code) ==
    /\ pc' = [pc EXCEPT ![r] = "respond"]
    /\ out' = [out EXCEPT ![r] = code]

Goto(r, step) == pc' = [pc EXCEPT ![r] = step] /\ UNCHANGED out

NoCookies == [kind |-> "api", browser |-> CHOOSE b \in Browsers : TRUE,
              sso |-> None, local |-> None, attempt |-> FALSE]

Init ==
    /\ now = 1
    /\ enabled = [u \in Users |-> TRUE]
    /\ credExp = [c \in Creds |-> 0]
    /\ row = [t \in Tokens |-> NoSession]
    /\ lock = [u \in Users |-> None]
    /\ jar = [b \in Browsers |-> [sso |-> None, local |-> None, attempt |-> FALSE]]
    /\ pc = [r \in Reqs |-> "idle"]
    /\ in = [r \in Reqs |-> NoCookies]
    /\ uid = [r \in Reqs |-> None]
    /\ out = [r \in Reqs |-> "none"]
    /\ made = [r \in Reqs |-> None]
    /\ used = [t \in Tokens |-> 0]

-----------------------------------------------------------------------------
(* The environment. *)

Tick ==
    /\ now < MaxTime
    /\ now' = now + 1
    /\ UNCHANGED <<enabled, credExp, row, lock, jar, pc, in, uid, out, made, used>>

\* The gateway signs a person in and plants a new JWT in the browser.
GatewaySignIn(b, c) ==
    /\ credExp[c] = 0
    /\ credExp' = [credExp EXCEPT ![c] = now + CredTTL]
    /\ jar' = [jar EXCEPT ![b] = [sso |-> c, local |-> jar[b].local,
                                  attempt |-> jar[b].attempt]]
    /\ UNCHANGED <<now, enabled, row, lock, pc, in, uid, out, made, used>>

\* The reauth attempt cookie has a MaxAge of its own.
AttemptExpires(b) ==
    /\ jar[b].attempt
    /\ jar' = [jar EXCEPT ![b] = [sso |-> jar[b].sso, local |-> jar[b].local,
                                  attempt |-> FALSE]]
    /\ UNCHANGED <<now, enabled, credExp, row, lock, pc, in, uid, out, made, used>>

\* An administrator enables or disables a user; updateAuthUser locks the row.
SetEnabled(u) ==
    /\ lock[u] = None
    /\ enabled' = [enabled EXCEPT ![u] = ~enabled[u]]
    /\ UNCHANGED <<now, credExp, row, lock, jar, pc, in, uid, out, made, used>>

\* A browser sends a request with the cookies it holds.
Send(r, b, k) ==
    /\ pc[r] = "idle"
    /\ pc' = [pc EXCEPT ![r] = "sso"]
    /\ in' = [in EXCEPT ![r] = [kind |-> k, browser |-> b, sso |-> jar[b].sso,
                                local |-> jar[b].local, attempt |-> jar[b].attempt]]
    /\ UNCHANGED <<now, enabled, credExp, row, lock, jar, uid, out, made, used>>

-----------------------------------------------------------------------------
(* The handlers. *)

\* authenticateSSO, and what each handler does next with the identity.
CheckSSO(r) ==
    /\ pc[r] = "sso"
    /\ in[r].kind # "logout"
    /\ IF authenticateSSO(r) = "ok"
       THEN /\ uid' = [uid EXCEPT ![r] = CredUser[in[r].sso]]
            /\ \/ in[r].kind = "callback" /\ in[r].local = None /\ Goto(r, "lock")
               \/ in[r].kind = "callback" /\ in[r].local # None /\ Goto(r, "resso")
               \/ in[r].kind # "callback" /\ in[r].local = None /\ Respond(r, "login_required")
               \/ in[r].kind = "status" /\ in[r].local # None /\ Goto(r, "status")
               \/ in[r].kind \in {"api", "me"} /\ in[r].local # None /\ Goto(r, "touch")
       ELSE Respond(r, authenticateSSO(r)) /\ UNCHANGED uid
    /\ UNCHANGED <<now, enabled, credExp, row, lock, jar, in, made, used>>

\* The callback with a session cookie authenticates a second time.
RecheckSSO(r) ==
    /\ pc[r] = "resso"
    /\ IF authenticateSSO(r) = "ok" THEN Goto(r, "touch")
       ELSE Respond(r, Reply(r, authenticateSSO(r)))
    /\ UNCHANGED <<now, enabled, credExp, row, lock, jar, in, uid, made, used>>

\* tb_users cannot be read: authenticateSSO returns the driver's error.
UserReadFails(r) ==
    /\ pc[r] \in {"sso", "resso"}
    /\ in[r].kind # "logout"
    /\ ValidCred(in[r].sso)
    /\ Respond(r, Reply(r, "error"))
    /\ UNCHANGED <<now, enabled, credExp, row, lock, jar, in, uid, made, used>>

\* Mutant: an update whose where clause has lost the idle tests.
TouchAuthSession_RevivesIdle(r) ==
    LET t == in[r].local
    IN  /\ pc[r] = "touch"
        /\ IF /\ row[t].user = uid[r] /\ row[t].revoked = "none"
              /\ row[t].created + AbsTimeout > now
           THEN /\ row' = [row EXCEPT ![t] = Touched(row[t])]
                /\ used' = [used EXCEPT ![t] = now]
                /\ Respond(r, "ok")
           ELSE Respond(r, "unavailable") /\ UNCHANGED <<row, used>>
        /\ UNCHANGED <<now, enabled, credExp, lock, jar, in, uid, made>>

\* authenticateRequest: TouchAuthSession; a dead session goes on to be revoked.
TouchAuthSession(r) ==
    LET t == in[r].local
        outcome == TouchOutcome(row[t], uid[r])
    IN  /\ pc[r] = "touch"
        /\ IF outcome = "active"
           THEN /\ row' = [row EXCEPT ![t] = Touched(row[t])]
                /\ used' = [used EXCEPT ![t] = now]
                /\ \/ in[r].kind = "api" /\ Respond(r, "ok")
                   \/ in[r].kind = "me" /\ Goto(r, "mestatus")
                   \/ in[r].kind = "callback" /\ Respond(r, "signed_in")
           ELSE /\ pc' = [pc EXCEPT ![r] = "revoke"]
                /\ out' = [out EXCEPT ![r] = outcome]
                /\ UNCHANGED <<row, used>>
        /\ UNCHANGED <<now, enabled, credExp, lock, jar, in, uid, made>>

\* Mutant: the status poll counts as activity.
GetAuthSessionStatus_Touches(r) ==
    LET t == in[r].local
        outcome == StatusOutcome(row[t], uid[r])
    IN  /\ pc[r] \in {"status", "mestatus"}
        /\ IF outcome = "ok" THEN row' = [row EXCEPT ![t] = Touched(row[t])] ELSE UNCHANGED row
        /\ Respond(r, outcome)
        /\ UNCHANGED <<now, enabled, credExp, lock, jar, in, uid, made, used>>

\* The session-status poll and the second read of authMeHandler.
GetAuthSessionStatus(r) ==
    LET outcome == StatusOutcome(row[in[r].local], uid[r])
    IN  /\ pc[r] \in {"status", "mestatus"}
        /\ IF pc[r] = "status" /\ outcome # "ok"
           THEN /\ pc' = [pc EXCEPT ![r] = "revoke"]
                /\ out' = [out EXCEPT ![r] = outcome]
           ELSE Respond(r, outcome)
        /\ UNCHANGED <<now, enabled, credExp, row, lock, jar, in, uid, made, used>>

RevokeReason(code) ==
    IF code = "idle" THEN "idle_timeout"
    ELSE IF code = "absolute" THEN "absolute_timeout" ELSE "manual_logout"

\* RevokeAuthSession with the reason decided before; its error is dropped.
RevokeAuthSession(r) ==
    LET t == in[r].local
        why == RevokeReason(out[r])
    IN  /\ pc[r] = "revoke"
        /\ row' \in {row, [row EXCEPT ![t] = Revoked(row[t], uid[r], why)]}
        /\ Respond(r, Reply(r, out[r]))
        /\ UNCHANGED <<now, enabled, credExp, lock, jar, in, uid, made, used>>

\* The session store fails: authentication fails closed.  When it is the commit
\* of a touch whose outcome is lost, the row may have been written.
SessionStoreFails(r) ==
    LET t == in[r].local
    IN  /\ pc[r] \in {"touch", "status", "mestatus"}
        /\ Respond(r, "unavailable")
        /\ \/ UNCHANGED <<row, used>>
           \/ /\ pc[r] = "touch" /\ TouchOutcome(row[t], uid[r]) = "active"
              /\ row' = [row EXCEPT ![t] = Touched(row[t])]
              /\ used' = [used EXCEPT ![t] = now]
        /\ UNCHANGED <<now, enabled, credExp, lock, jar, in, uid, made>>

\* authLogoutHandler: a cross-site GET is refused; the session is revoked only
\* for a valid, enabled user; otherwise the cookies are cleared whatever happens.
Logout(r) ==
    /\ pc[r] = "sso"
    /\ in[r].kind = "logout"
    /\ \/ /\ in[r].local # None
          /\ authenticateSSO(r) = "ok"
          /\ uid' = [uid EXCEPT ![r] = CredUser[in[r].sso]]
          /\ pc' = [pc EXCEPT ![r] = "revoke"]
          /\ out' = [out EXCEPT ![r] = "logged_out"]
       \/ Respond(r, "logged_out") /\ UNCHANGED uid  \* not eligible, or the read failed
       \/ Respond(r, "forbidden") /\ UNCHANGED uid   \* isCrossSiteLogoutRequest
    /\ UNCHANGED <<now, enabled, credExp, row, lock, jar, in, made, used>>

\* Mutants: the first select without "for update", and without "enabled = 1".
LockUser_NoWait(r) ==
    /\ pc[r] = "lock" /\ enabled[uid[r]]
    /\ lock' = [lock EXCEPT ![uid[r]] = r] /\ Goto(r, "check")
    /\ UNCHANGED <<now, enabled, credExp, row, jar, in, uid, made, used>>
LockUser_AnyUser(r) ==
    /\ pc[r] = "lock" /\ lock[uid[r]] = None
    /\ lock' = [lock EXCEPT ![uid[r]] = r] /\ Goto(r, "check")
    /\ UNCHANGED <<now, enabled, credExp, row, jar, in, uid, made, used>>

\* CreateAuthSession, first statement: lock the enabled user's row.
LockUser(r) ==
    LET u == uid[r]
    IN  /\ pc[r] = "lock"
        /\ lock[u] = None
        /\ IF enabled[u]
           THEN lock' = [lock EXCEPT ![u] = r] /\ Goto(r, "check")
           ELSE UNCHANGED lock /\ Respond(r, Reply(r, "reauth_required"))
        /\ UNCHANGED <<now, enabled, credExp, row, jar, in, uid, made, used>>

\* Second statement: has this JWT already been exchanged for a session?
CheckConsumed(r) ==
    LET u == uid[r]
        consumed == \E t \in Tokens : row[t].user = u /\ row[t].sso = in[r].sso
    IN  /\ pc[r] = "check"
        /\ IF consumed
           THEN lock' = [lock EXCEPT ![u] = None] /\ Respond(r, Reply(r, "reauth_required"))
           ELSE UNCHANGED lock /\ Goto(r, "insert")
        /\ UNCHANGED <<now, enabled, credExp, row, jar, in, uid, made, used>>

NewSession(u, c) ==
    [user |-> u, sso |-> c, created |-> now, last |-> now,
     expires |-> now + IdleTimeout, revoked |-> "none"]

\* Mutant: the transaction is left open when the insert has failed.
InsertSession_LeftOpen(r, t) ==
    /\ pc[r] = "insert"
    /\ row[t].user = None
    /\ Respond(r, "unavailable")
    /\ UNCHANGED <<now, enabled, credExp, row, lock, jar, in, uid, made, used>>

\* Insert and commit; when the commit's outcome is lost the row may exist.
InsertSession(r, t) ==
    LET u == uid[r]
        filled == [row EXCEPT ![t] = NewSession(u, in[r].sso)]
    IN  /\ pc[r] = "insert"
        /\ row[t].user = None
        /\ lock' = [lock EXCEPT ![u] = None]
        /\ row' = filled
        /\ used' = [used EXCEPT ![t] = now]
        /\ \/ Respond(r, "created") /\ made' = [made EXCEPT ![r] = t]
           \/ Respond(r, "unavailable") /\ UNCHANGED made
        /\ UNCHANGED <<now, enabled, credExp, jar, in, uid>>

\* Any statement of the transaction may fail or wait too long for the lock.
CreateFails(r) ==
    /\ pc[r] \in {"lock", "check", "insert"}
    /\ lock' = [u \in Users |-> IF lock[u] = r THEN None ELSE lock[u]]
    /\ Respond(r, "unavailable")
    /\ UNCHANGED <<now, enabled, credExp, row, jar, in, uid, made, used>>

\* writeAuthError, setAuthSessionCookie and clearAuthCookie as the browser sees them.
Cookies(j, code, token) ==
    IF code \in {"idle", "absolute", "reauth_required", "unavailable", "logged_out"}
    THEN [sso |-> None, local |-> None, attempt |-> j.attempt]
    ELSE IF code = "gateway" THEN [sso |-> None, local |-> None, attempt |-> TRUE]
    ELSE IF code = "created" THEN [sso |-> j.sso, local |-> token, attempt |-> FALSE]
    ELSE IF code = "signed_in" THEN [sso |-> j.sso, local |-> j.local, attempt |-> FALSE]
    ELSE j

Finish(r) ==
    /\ pc' = [pc EXCEPT ![r] = "idle"]
    /\ in' = [in EXCEPT ![r] = NoCookies]
    /\ uid' = [uid EXCEPT ![r] = None]
    /\ out' = [out EXCEPT ![r] = "none"]
    /\ made' = [made EXCEPT ![r] = None]

\* The answer arrives; answers of concurrent requests arrive in any order.
Deliver(r) ==
    /\ pc[r] = "respond"
    /\ jar' = [jar EXCEPT ![in[r].browser] = Cookies(@, out[r], made[r])]
    /\ Finish(r)
    /\ UNCHANGED <<now, enabled, credExp, row, lock, used>>

\* The pod dies or the connection breaks: an open transaction is rolled back.
Drop(r) ==
    /\ pc[r] # "idle"
    /\ lock' = [u \in Users |-> IF lock[u] = r THEN None ELSE lock[u]]
    /\ Finish(r)
    /\ UNCHANGED <<now, enabled, credExp, row, jar, used>>

-----------------------------------------------------------------------------
\* The steps of a handler that nothing goes wrong in, but for the wait in LockUser.
Handle(r) ==
    \/ CheckSSO(r) \/ RecheckSSO(r) \/ TouchAuthSession(r) \/ GetAuthSessionStatus(r)
    \/ RevokeAuthSession(r) \/ Logout(r) \/ CheckConsumed(r)
    \/ (\E t \in Tokens : InsertSession(r, t)) \/ Deliver(r)

Fail(r) == UserReadFails(r) \/ SessionStoreFails(r) \/ CreateFails(r) \/ Drop(r)

Next ==
    \/ Tick
    \/ \E b \in Browsers, c \in Creds : GatewaySignIn(b, c)
    \/ \E b \in Browsers : AttemptExpires(b)
    \/ \E u \in Users : SetEnabled(u)
    \/ \E r \in Reqs, b \in Browsers, k \in Kinds : Send(r, b, k)
    \/ \E r \in Reqs : Handle(r) \/ LockUser(r) \/ Fail(r)

Spec == Init /\ [][Next]_vars

\* A handler runs until it answers, and InnoDB queues the waiters of a row lock.
\* No failure, time-out or broken connection is relied on.
FairSpec == Spec /\ \A r \in Reqs : WF_vars(Handle(r)) /\ SF_vars(LockUser(r))

-----------------------------------------------------------------------------
(* Properties. *)

\* A session in force: not revoked, and before each of its three deadlines.
Live(t) ==
    /\ row[t].user # None /\ row[t].revoked = "none"
    /\ now < row[t].expires
    /\ now < row[t].last + IdleTimeout
    /\ now < row[t].created + AbsTimeout

\* A JWT buys at most one session, however many callbacks race for it and
\* whether or not the first session has since expired or been revoked
\* (CreateAuthSession: "Every fingerprint writer must take this lock").
CredentialConsumedOnce ==
    \A s, t \in Tokens :
        row[s].user # None /\ row[s].user = row[t].user /\ row[s].sso = row[t].sso
        => s = t

\* A session in force has been used by its owner through
\* authGate within the idle timeout and is younger than the absolute one: the
\* status poll and other browsers' requests do not keep it alive.
LiveMeansRecentlyUsed ==
    \A t \in Tokens :
        Live(t) => /\ now < used[t] + IdleTimeout
                   /\ now < row[t].created + AbsTimeout

\* Concurrent requests cannot reactivate a session that has expired or been
\* revoked, and a revocation keeps the first reason.
DeadStaysDead ==
    [][\A t \in Tokens :
          row[t].user # None /\ ~Live(t)
          => /\ ~Live(t)'
             /\ row[t].revoked # "none" => row'[t].revoked = row[t].revoked]_vars

\* The reason is decided in one statement and written by a later one: when it
\* is written it is still true of the row.
RevokedReasonTrue ==
    \A t \in Tokens :
        /\ row[t].revoked = "idle_timeout" =>
              now >= Earlier(row[t].expires, row[t].last + IdleTimeout)
        /\ row[t].revoked = "absolute_timeout" => now >= row[t].created + AbsTimeout

\* An accepted request is backed by a session of the user its JWT names, and
\* only a request whose session is dead or foreign is told it timed out.
AnswersMatchSession ==
    \A r \in Reqs :
        pc[r] = "respond" =>
          /\ out[r] \in {"ok", "signed_in"} =>
                row[in[r].local].user = CredUser[in[r].sso]
          /\ out[r] \in {"idle", "absolute"} =>
                ~Live(in[r].local) \/ row[in[r].local].user # CredUser[in[r].sso]

\* A session is created only for a user who is enabled at that moment: the
\* enabled test and the insert are under the lock that disabling also takes.
CreatedOnlyWhileEnabled ==
    [][\A t \in Tokens :
          row[t].user = None /\ row'[t].user # None => enabled[row'[t].user]]_vars

\* The in-memory store "keeps ... aligned with the persistent session contract":
\* it answers a touch exactly as MySQL does, leaves the same row, and gives a poll
\* the same status, but for a revoked session that is past its absolute age:
\* MySQL names the age, the memory store idleness.
StoresAgree ==
    \A t \in Tokens, u \in Users :
        /\ MemTouchOutcome(row[t], u) = TouchOutcome(row[t], u)
        /\ TouchOutcome(row[t], u) = "active" => MemTouched(row[t]) = Touched(row[t])
        /\ \/ MemStatusOutcome(row[t], u) = StatusOutcome(row[t], u)
           \/ row[t].revoked # "none" /\ now >= row[t].created + AbsTimeout

\* Every request ends without the help of a lock timeout: every way out of
\* CreateAuthSession gives the user's row lock back.
EveryRequestEnds ==
    \A r \in Reqs : pc[r] # "idle" ~> pc[r] = "idle"
=============================================================================
