------------------------- MODULE AuthSessionProofs -------------------------
(***************************************************************************)
(* Who may log in and act: AuthSession, for every number of users, JWTs,   *)
(* tokens, requests and browsers and every length of the timeouts, and in  *)
(* the second half UserAdmin, where the accounts come from.                *)
(***************************************************************************)
EXTENDS AuthSession, UserAdmin, TLAPS

\* A request without cookies is well typed.
LEMMA NoCookiesType == NoCookies \in Request
  <1> (CHOOSE b \in Browsers : TRUE) \in Browsers
    BY SessionAssumption
  <1> QED  BY DEF NoCookies, Request, Kinds

\* Touching or revoking a session gives a session.
LEMMA SessionOps ==
  ASSUME NEW s \in Session, now \in Nat
  PROVE  /\ Touched(s) \in Session
         /\ \A u : \A why \in Reasons : Revoked(s, u, why) \in Session
  <1>1. Touched(s) \in Session
    BY SessionAssumption DEF Session, Touched, Later, Earlier
  <1>2. \A u : \A why \in Reasons : Revoked(s, u, why) \in Session
    BY DEF Session, Revoked, Reasons
  <1> QED  BY <1>1, <1>2

\* Whatever the error, the answer is one of Codes.
LEMMA ReplyType ==
  ASSUME NEW r \in Reqs, NEW err \in Codes
  PROVE  Reply(r, err) \in Codes
  BY DEF Reply, rejectAuthCallback, Codes

\* What the store answers is one of the answers the handlers know.
LEMMA OutcomeType ==
  ASSUME NEW s, NEW u
  PROVE  /\ TouchOutcome(s, u) \in {"active", "absolute", "idle"}
         /\ StatusOutcome(s, u) \in {"ok", "absolute", "idle"}
  BY DEF TouchOutcome, StatusOutcome

\* The initial states are well typed.
LEMMA TypeInit == Init => TypeOK
  BY NoCookiesType, SessionAssumption
     DEF Init, TypeOK, Cookie, NoSession, Session, Reasons, Steps, Codes

\* Every step of authGate, login, logout and the environment keeps the types.
LEMMA TypeStep == TypeOK /\ [Next]_vars => TypeOK'
  <1> SUFFICES ASSUME TypeOK, [Next]_vars PROVE TypeOK'
    OBVIOUS
  <1> USE SessionAssumption DEF TypeOK
  <1>1. CASE Tick
    BY <1>1 DEF Tick
  <1>2. ASSUME NEW b \in Browsers, NEW c \in Creds, GatewaySignIn(b, c) PROVE TypeOK'
    BY <1>2 DEF GatewaySignIn, Cookie
  <1>3. ASSUME NEW b \in Browsers, AttemptExpires(b) PROVE TypeOK'
    BY <1>3 DEF AttemptExpires, Cookie
  <1>4. ASSUME NEW u \in Users, SetEnabled(u) PROVE TypeOK'
    BY <1>4 DEF SetEnabled
  <1>5. ASSUME NEW r \in Reqs, NEW b \in Browsers, NEW k \in Kinds, Send(r, b, k) PROVE TypeOK'
    <2>1. [kind |-> k, browser |-> b, sso |-> jar[b].sso,
           local |-> jar[b].local, attempt |-> jar[b].attempt] \in Request
      BY DEF Request, Cookie
    <2> QED  BY <1>5, <2>1 DEF Send, Steps
  <1>6. ASSUME NEW r \in Reqs, CheckSSO(r) PROVE TypeOK'
    <2>1. authenticateSSO(r) \in Codes
      BY DEF authenticateSSO, Codes
    <2>2. authenticateSSO(r) = "ok" => CredUser[in[r].sso] \in Users
      BY DEF authenticateSSO, ValidCred, Request
    <2>3. uid' \in [Reqs -> Users \cup {None}]
      BY <1>6, <2>2 DEF CheckSSO
    <2>4. pc' \in [Reqs -> Steps] /\ out' \in [Reqs -> Codes]
      <3>1. CASE authenticateSSO(r) = "ok"
        BY <1>6, <3>1 DEF CheckSSO, Goto, Respond, Steps, Codes
      <3>2. CASE authenticateSSO(r) # "ok"
        BY <1>6, <2>1, <3>2 DEF CheckSSO, Respond, Steps
      <3> QED  BY <3>1, <3>2
    <2> QED  BY <1>6, <2>3, <2>4 DEF CheckSSO
  <1>7. ASSUME NEW r \in Reqs, RecheckSSO(r) PROVE TypeOK'
    <2>1. authenticateSSO(r) \in Codes
      BY DEF authenticateSSO, Codes
    <2>2. Reply(r, authenticateSSO(r)) \in Codes
      BY <2>1, ReplyType
    <2> QED  BY <1>7, <2>2 DEF RecheckSSO, Goto, Respond, Steps
  <1>8. ASSUME NEW r \in Reqs, UserReadFails(r) PROVE TypeOK'
    <2>1. Reply(r, "error") \in Codes
      BY ReplyType DEF Codes
    <2> QED  BY <1>8, <2>1 DEF UserReadFails, Respond, Steps
  <1>9. ASSUME NEW r \in Reqs, TouchAuthSession(r) PROVE TypeOK'
    <2> DEFINE t == in[r].local
    <2>1. row' \in [Tokens -> Session]
      BY <1>9, SessionOps DEF TouchAuthSession
    <2>2. used' \in [Tokens -> Nat]
      BY <1>9 DEF TouchAuthSession
    <2>3. TouchOutcome(row[t], uid[r]) # "active" => TouchOutcome(row[t], uid[r]) \in Codes
      BY OutcomeType DEF Codes
    <2>4. pc' \in [Reqs -> Steps] /\ out' \in [Reqs -> Codes]
      BY <1>9, <2>3 DEF TouchAuthSession, Goto, Respond, Steps, Codes
    <2> QED  BY <1>9, <2>1, <2>2, <2>4 DEF TouchAuthSession
  <1>10. ASSUME NEW r \in Reqs, GetAuthSessionStatus(r) PROVE TypeOK'
    <2>1. StatusOutcome(row[in[r].local], uid[r]) \in Codes
      BY OutcomeType DEF Codes
    <2> QED  BY <1>10, <2>1 DEF GetAuthSessionStatus, Respond, Steps
  <1>11. ASSUME NEW r \in Reqs, RevokeAuthSession(r) PROVE TypeOK'
    <2>1. RevokeReason(out[r]) \in Reasons
      BY DEF Reasons, RevokeReason
    <2>2. row' \in [Tokens -> Session]
      <3>1. \A t \in Tokens : Revoked(row[t], uid[r], RevokeReason(out[r])) \in Session
        BY <2>1, SessionOps
      <3>2. \/ row' = row
            \/ row' = [row EXCEPT ![in[r].local]
                         = Revoked(row[in[r].local], uid[r], RevokeReason(out[r]))]
        BY <1>11 DEF RevokeAuthSession
      <3> QED  BY <3>1, <3>2
    <2>3. Reply(r, out[r]) \in Codes
      BY ReplyType
    <2> QED  BY <1>11, <2>2, <2>3 DEF RevokeAuthSession, Respond, Steps
  <1>12. ASSUME NEW r \in Reqs, SessionStoreFails(r) PROVE TypeOK'
    <2>1. row' \in [Tokens -> Session] /\ used' \in [Tokens -> Nat]
      BY <1>12, SessionOps DEF SessionStoreFails
    <2> QED  BY <1>12, <2>1 DEF SessionStoreFails, Respond, Steps, Codes
  <1>13. ASSUME NEW r \in Reqs, Logout(r) PROVE TypeOK'
    <2>1. authenticateSSO(r) = "ok" => CredUser[in[r].sso] \in Users
      BY DEF authenticateSSO, ValidCred, Request
    <2> QED  BY <1>13, <2>1 DEF Logout, Respond, Steps, Codes
  <1>14. ASSUME NEW r \in Reqs, LockUser(r) PROVE TypeOK'
    <2>1. Reply(r, "reauth_required") \in Codes
      BY ReplyType DEF Codes
    <2> QED  BY <1>14, <2>1 DEF LockUser, Goto, Respond, Steps
  <1>15. ASSUME NEW r \in Reqs, CheckConsumed(r) PROVE TypeOK'
    <2>1. Reply(r, "reauth_required") \in Codes
      BY ReplyType DEF Codes
    <2> QED  BY <1>15, <2>1 DEF CheckConsumed, Goto, Respond, Steps
  <1>16. ASSUME NEW r \in Reqs, NEW t \in Tokens, InsertSession(r, t) PROVE TypeOK'
    <2>1. NewSession(uid[r], in[r].sso) \in Session
      BY DEF NewSession, Session, Reasons, Request
    <2>2. row' \in [Tokens -> Session] /\ used' \in [Tokens -> Nat]
          /\ lock' \in [Users -> Reqs \cup {None}]
      BY <1>16, <2>1 DEF InsertSession
    <2>3. pc' \in [Reqs -> Steps] /\ out' \in [Reqs -> Codes]
          /\ made' \in [Reqs -> Tokens \cup {None}]
      BY <1>16 DEF InsertSession, Respond, Steps, Codes
    <2> QED  BY <1>16, <2>2, <2>3 DEF InsertSession
  <1>17. ASSUME NEW r \in Reqs, CreateFails(r) PROVE TypeOK'
    BY <1>17 DEF CreateFails, Respond, Steps, Codes
  <1>18. ASSUME NEW r \in Reqs, Finish(r)
         PROVE  /\ pc' \in [Reqs -> Steps] /\ in' \in [Reqs -> Request]
                /\ uid' \in [Reqs -> Users \cup {None}]
                /\ out' \in [Reqs -> Codes]
                /\ made' \in [Reqs -> Tokens \cup {None}]
    BY <1>18, NoCookiesType DEF Finish, Steps, Codes
  <1>19. ASSUME NEW r \in Reqs, Deliver(r) PROVE TypeOK'
    <2>1. \A j \in Cookie : Cookies(j, out[r], made[r]) \in Cookie
      BY DEF Cookies, Cookie
    <2> QED  BY <1>18, <1>19, <2>1 DEF Deliver, Request
  <1>20. ASSUME NEW r \in Reqs, Drop(r) PROVE TypeOK'
    BY <1>18, <1>20 DEF Drop
  <1>21. CASE UNCHANGED vars
    BY <1>21 DEF vars
  <1> QED
    BY <1>1, <1>2, <1>3, <1>4, <1>5, <1>6, <1>7, <1>8, <1>9, <1>10, <1>11, <1>12,
       <1>13, <1>14, <1>15, <1>16, <1>17, <1>19, <1>20, <1>21
    DEF Next, Handle, Fail

\* Every variable of the session component keeps its type.
THEOREM TypeCorrect == Spec => []TypeOK
  BY TypeInit, TypeStep, PTL DEF Spec

-----------------------------------------------------------------------------
(* One session per JWT. *)

\* Past authenticateSSO a request knows the user its JWT names.
KnowsUser == {"resso", "touch", "revoke", "status", "mestatus", "lock", "check", "insert"}
UserRead ==
    \A r \in Reqs : pc[r] \in KnowsUser =>
        in[r].sso \in Creds /\ uid[r] = CredUser[in[r].sso]

\* Inside the transaction of CreateAuthSession a request holds its user's lock.
LockHeld ==
    \A r \in Reqs : pc[r] \in {"check", "insert"} => lock[uid[r]] = r

\* Between the second statement and the insert no other request consumes the JWT.
NotYetConsumed ==
    \A r \in Reqs, t \in Tokens :
        pc[r] = "insert" => ~(row[t].user = uid[r] /\ row[t].sso = in[r].sso)

LoginInv == TypeOK /\ UserRead /\ LockHeld /\ NotYetConsumed /\ CredentialConsumedOnce

\* A request past authenticateSSO keeps the user it read.
LEMMA UserReadStep == TypeOK /\ UserRead /\ [Next]_vars => UserRead'
  <1> SUFFICES ASSUME TypeOK, UserRead, [Next]_vars PROVE UserRead'
    OBVIOUS
  <1> USE SessionAssumption DEF UserRead, KnowsUser
  <1>1. CASE UNCHANGED <<pc, in, uid>>
    BY <1>1
  <1>2. ASSUME NEW r \in Reqs, NEW b \in Browsers, NEW k \in Kinds, Send(r, b, k) PROVE UserRead'
    BY <1>2 DEF Send, TypeOK
  <1>3. ASSUME NEW r \in Reqs, CheckSSO(r) PROVE UserRead'
    <2>1. CASE authenticateSSO(r) = "ok"
      <3>1. in[r].sso \in Creds
        BY <2>1 DEF authenticateSSO, ValidCred, TypeOK, Request
      <3> QED  BY <1>3, <2>1, <3>1 DEF CheckSSO, Goto, Respond, TypeOK
    <2>2. CASE authenticateSSO(r) # "ok"
      BY <1>3, <2>2 DEF CheckSSO, Respond, TypeOK
    <2> QED  BY <2>1, <2>2
  <1>4. ASSUME NEW r \in Reqs, Logout(r) PROVE UserRead'
    <2>1. authenticateSSO(r) = "ok" => in[r].sso \in Creds
      BY DEF authenticateSSO, ValidCred, TypeOK, Request
    <2> QED  BY <1>4, <2>1 DEF Logout, Respond, TypeOK
  <1>5. ASSUME NEW r \in Reqs, pc[r] \in KnowsUser \/ pc'[r] \notin KnowsUser,
               UNCHANGED <<in, uid>>, \A q \in Reqs \ {r} : pc'[q] = pc[q]
        PROVE  UserRead'
    BY <1>5
  <1>6. ASSUME NEW r \in Reqs, Finish(r) PROVE UserRead'
    BY <1>6 DEF Finish, TypeOK
  <1>7. ASSUME NEW r \in Reqs, Handle(r) \/ LockUser(r) \/ Fail(r) PROVE UserRead'
    <2>1. CASE RecheckSSO(r)
      BY <2>1, <1>5 DEF RecheckSSO, Goto, Respond, TypeOK
    <2>2. CASE UserReadFails(r)
      BY <2>2, <1>5 DEF UserReadFails, Respond, TypeOK
    <2>3. CASE TouchAuthSession(r)
      BY <2>3, <1>5 DEF TouchAuthSession, Goto, Respond, TypeOK
    <2>4. CASE GetAuthSessionStatus(r)
      BY <2>4, <1>5 DEF GetAuthSessionStatus, Respond, TypeOK
    <2>5. CASE RevokeAuthSession(r)
      BY <2>5, <1>5 DEF RevokeAuthSession, Respond, TypeOK
    <2>6. CASE SessionStoreFails(r)
      BY <2>6, <1>5 DEF SessionStoreFails, Respond, TypeOK
    <2>7. CASE LockUser(r)
      BY <2>7, <1>5 DEF LockUser, Goto, Respond, TypeOK
    <2>8. CASE CheckConsumed(r)
      BY <2>8, <1>5 DEF CheckConsumed, Goto, Respond, TypeOK
    <2>9. ASSUME NEW t \in Tokens, InsertSession(r, t) PROVE UserRead'
      BY <2>9, <1>5 DEF InsertSession, Respond, TypeOK
    <2>10. CASE CreateFails(r)
      BY <2>10, <1>5 DEF CreateFails, Respond, TypeOK
    <2>11. CASE Deliver(r) \/ Drop(r)
      BY <2>11, <1>6 DEF Deliver, Drop
    <2> QED  BY <1>3, <1>4, <1>7, <2>1, <2>2, <2>3, <2>4, <2>5, <2>6, <2>7, <2>8, <2>9,
                <2>10, <2>11 DEF Handle, Fail
  <1>8. CASE Tick \/ (\E b \in Browsers, c \in Creds : GatewaySignIn(b, c))
             \/ (\E b \in Browsers : AttemptExpires(b)) \/ (\E u \in Users : SetEnabled(u))
    BY <1>1, <1>8 DEF Tick, GatewaySignIn, AttemptExpires, SetEnabled
  <1> QED  BY <1>1, <1>2, <1>7, <1>8 DEF Next, vars

\* Only InsertSession changes the owner or the JWT of a row.
LEMMA RowsKeepOwner ==
  ASSUME TypeOK, [Next]_vars, ~ \E r \in Reqs, t \in Tokens : InsertSession(r, t)
  PROVE  \A t \in Tokens : row'[t].user = row[t].user /\ row'[t].sso = row[t].sso
  <1> DEFINE Kept == \A t \in Tokens : row'[t].user = row[t].user /\ row'[t].sso = row[t].sso
  <1>1. CASE UNCHANGED row
    BY <1>1
  <1>2. \A t \in Tokens : /\ Touched(row[t]).user = row[t].user
                           /\ Touched(row[t]).sso = row[t].sso
    BY DEF Touched
  <1>3. ASSUME NEW t \in Tokens, NEW u, NEW why
        PROVE  /\ Revoked(row[t], u, why).user = row[t].user
               /\ Revoked(row[t], u, why).sso = row[t].sso
    BY DEF Revoked
  <1>4. ASSUME NEW t, row' = [row EXCEPT ![t] = Touched(row[t])] PROVE Kept
    BY <1>2, <1>4 DEF TypeOK
  <1>5. ASSUME NEW t, NEW u, NEW why, row' = [row EXCEPT ![t] = Revoked(row[t], u, why)] PROVE Kept
    BY <1>3, <1>5 DEF TypeOK
  <1>6. ASSUME NEW r \in Reqs, TouchAuthSession(r) \/ SessionStoreFails(r) PROVE Kept
    BY <1>1, <1>4, <1>6 DEF TouchAuthSession, SessionStoreFails
  <1>7. ASSUME NEW r \in Reqs, RevokeAuthSession(r) PROVE Kept
    <2>1. \/ row' = row
          \/ row' = [row EXCEPT ![in[r].local]
                       = Revoked(row[in[r].local], uid[r], RevokeReason(out[r]))]
      BY <1>7 DEF RevokeAuthSession
    <2> QED  BY <1>1, <1>5, <2>1
  <1>8. ASSUME NEW r \in Reqs, CheckSSO(r) \/ RecheckSSO(r) \/ GetAuthSessionStatus(r)
               \/ Logout(r) \/ CheckConsumed(r) \/ Deliver(r) \/ LockUser(r)
               \/ UserReadFails(r) \/ CreateFails(r) \/ Drop(r)
        PROVE  UNCHANGED row
    BY <1>8 DEF CheckSSO, RecheckSSO, GetAuthSessionStatus, Logout, CheckConsumed, Deliver,
                LockUser, UserReadFails, CreateFails, Drop
  <1>9. CASE Tick \/ (\E b \in Browsers, c \in Creds : GatewaySignIn(b, c))
             \/ (\E b \in Browsers : AttemptExpires(b)) \/ (\E u \in Users : SetEnabled(u))
             \/ (\E r \in Reqs, b \in Browsers, k \in Kinds : Send(r, b, k))
    BY <1>1, <1>9 DEF Tick, GatewaySignIn, AttemptExpires, SetEnabled, Send
  <1>10. CASE UNCHANGED vars
    BY <1>1, <1>10 DEF vars
  <1> QED  BY <1>1, <1>6, <1>7, <1>8, <1>9, <1>10 DEF Next, Handle, Fail

\* A login between its lock and its commit holds the lock of its user's row.
LEMMA LockHeldStep == TypeOK /\ UserRead /\ LockHeld /\ [Next]_vars => LockHeld'
  <1> SUFFICES ASSUME TypeOK, UserRead, LockHeld, [Next]_vars PROVE LockHeld'
    OBVIOUS
  <1> USE SessionAssumption DEF LockHeld, TypeOK
  <1>1. ASSUME NEW r \in Reqs, UNCHANGED lock,
               pc'[r] \in {"check", "insert"} => pc[r] \in {"check", "insert"} /\ uid'[r] = uid[r],
               \A q \in Reqs \ {r} : pc'[q] = pc[q] /\ uid'[q] = uid[q]
        PROVE  LockHeld'
    BY <1>1
  <1>2. CASE UNCHANGED <<lock, pc, uid>>
    BY <1>2
  <1>3. ASSUME NEW r \in Reqs, LockUser(r) PROVE LockHeld'
    <2>1. uid[r] \in Users
      BY <1>3 DEF UserRead, KnowsUser, LockUser
    <2>2. \A q \in Reqs \ {r} : pc[q] \in {"check", "insert"} => uid[q] # uid[r]
      BY <1>3 DEF LockUser
    <2>3. CASE enabled[uid[r]]
      <3>1. lock' = [lock EXCEPT ![uid[r]] = r] /\ UNCHANGED uid
            /\ pc' = [pc EXCEPT ![r] = "check"]
        BY <1>3, <2>3 DEF LockUser, Goto
      <3> QED  BY <2>1, <2>2, <3>1
    <2>4. CASE ~enabled[uid[r]]
      BY <1>1, <1>3, <2>4 DEF LockUser, Respond
    <2> QED  BY <2>3, <2>4
  <1>4. ASSUME NEW r \in Reqs, CheckConsumed(r) PROVE LockHeld'
    <2>1. uid[r] \in Users /\ lock[uid[r]] = r
      BY <1>4 DEF UserRead, KnowsUser, CheckConsumed
    <2>2. \A q \in Reqs \ {r} : pc[q] \in {"check", "insert"} => uid[q] # uid[r]
      BY <2>1
    <2>3. UNCHANGED uid /\ \A q \in Reqs \ {r} : pc'[q] = pc[q]
      BY <1>4 DEF CheckConsumed, Goto, Respond
    <2>4. CASE lock' = [lock EXCEPT ![uid[r]] = None] /\ pc'[r] = "respond"
      BY <2>1, <2>2, <2>3, <2>4
    <2>5. CASE UNCHANGED lock
      BY <1>4, <2>1, <2>3, <2>5
    <2> QED  BY <1>4, <2>4, <2>5 DEF CheckConsumed, Goto, Respond
  <1>5. ASSUME NEW r \in Reqs, NEW t \in Tokens, InsertSession(r, t) PROVE LockHeld'
    <2>1. uid[r] \in Users /\ lock[uid[r]] = r
      BY <1>5 DEF UserRead, KnowsUser, InsertSession
    <2> QED  BY <1>5, <2>1 DEF InsertSession, Respond
  <1>6. ASSUME NEW r \in Reqs, lock' = [u \in Users |-> IF lock[u] = r THEN None ELSE lock[u]],
               pc'[r] \notin {"check", "insert"},
               \A q \in Reqs \ {r} : pc'[q] = pc[q] /\ uid'[q] = uid[q]
        PROVE  LockHeld'
    <2>1. \A q \in Reqs : pc[q] \in {"check", "insert"} => uid[q] \in Users
      BY DEF UserRead, KnowsUser
    <2> QED  BY <1>6, <2>1
  <1>7. ASSUME NEW r \in Reqs, CreateFails(r) \/ Drop(r) PROVE LockHeld'
    BY <1>6, <1>7 DEF CreateFails, Drop, Finish, Respond
  <1>8. ASSUME NEW r \in Reqs, Handle(r) \/ LockUser(r) \/ Fail(r) PROVE LockHeld'
    <2>1. CASE CheckSSO(r)
      BY <2>1, <1>1 DEF CheckSSO, Goto, Respond
    <2>2. CASE RecheckSSO(r)
      BY <2>2, <1>1 DEF RecheckSSO, Goto, Respond
    <2>3. CASE TouchAuthSession(r)
      BY <2>3, <1>1 DEF TouchAuthSession, Goto, Respond
    <2>4. CASE GetAuthSessionStatus(r) \/ RevokeAuthSession(r) \/ Logout(r)
      BY <2>4, <1>1 DEF GetAuthSessionStatus, RevokeAuthSession, Logout, Respond
    <2>5. CASE UserReadFails(r) \/ SessionStoreFails(r) \/ Deliver(r)
      BY <2>5, <1>1 DEF UserReadFails, SessionStoreFails, Deliver, Finish, Respond
    <2> QED  BY <1>3, <1>4, <1>5, <1>7, <1>8, <2>1, <2>2, <2>3, <2>4, <2>5 DEF Handle, Fail
  <1>9. ASSUME NEW r \in Reqs, NEW b \in Browsers, NEW k \in Kinds, Send(r, b, k) PROVE LockHeld'
    BY <1>1, <1>9 DEF Send
  <1>10. CASE Tick \/ (\E b \in Browsers, c \in Creds : GatewaySignIn(b, c))
             \/ (\E b \in Browsers : AttemptExpires(b)) \/ (\E u \in Users : SetEnabled(u))
    BY <1>2, <1>10 DEF Tick, GatewaySignIn, AttemptExpires, SetEnabled
  <1> QED  BY <1>2, <1>8, <1>9, <1>10 DEF Next, vars

\* A step other than an insert reaches "insert" only from a fresh CheckConsumed.
LEMMA InsertReached ==
  ASSUME TypeOK, [Next]_vars, NEW q \in Reqs, pc'[q] = "insert"
  PROVE  /\ in'[q] = in[q] /\ uid'[q] = uid[q]
         /\ \/ pc[q] = "insert"
            \/ \A t \in Tokens : ~(row[t].user = uid[q] /\ row[t].sso = in[q].sso)
  <1> USE DEF TypeOK
  <1> DEFINE Goal == /\ in'[q] = in[q] /\ uid'[q] = uid[q]
                     /\ \/ pc[q] = "insert"
                        \/ \A t \in Tokens : ~(row[t].user = uid[q] /\ row[t].sso = in[q].sso)
  <1>1. ASSUME NEW r \in Reqs, Handle(r) \/ LockUser(r) \/ Fail(r) PROVE Goal
    <2>1. CASE CheckSSO(r)
      BY <2>1 DEF CheckSSO, Goto, Respond
    <2>2. CASE RecheckSSO(r) \/ LockUser(r)
      BY <2>2 DEF RecheckSSO, LockUser, Goto, Respond
    <2>3. CASE TouchAuthSession(r)
      BY <2>3 DEF TouchAuthSession, Goto, Respond
    <2>4. CASE GetAuthSessionStatus(r) \/ RevokeAuthSession(r) \/ Logout(r)
      BY <2>4 DEF GetAuthSessionStatus, RevokeAuthSession, Logout, Respond
    <2>5. CASE UserReadFails(r) \/ SessionStoreFails(r) \/ CreateFails(r)
      BY <2>5 DEF UserReadFails, SessionStoreFails, CreateFails, Respond
    <2>6. CASE Deliver(r) \/ Drop(r)
      BY <2>6 DEF Deliver, Drop, Finish
    <2>7. CASE CheckConsumed(r)
      BY <2>7 DEF CheckConsumed, Goto, Respond
    <2>8. ASSUME NEW t \in Tokens, InsertSession(r, t) PROVE Goal
      BY <2>8 DEF InsertSession, Respond
    <2> QED  BY <1>1, <2>1, <2>2, <2>3, <2>4, <2>5, <2>6, <2>7, <2>8 DEF Handle, Fail
  <1>2. CASE Tick \/ (\E b \in Browsers, c \in Creds : GatewaySignIn(b, c))
             \/ (\E b \in Browsers : AttemptExpires(b)) \/ (\E u \in Users : SetEnabled(u))
             \/ (\E r \in Reqs, b \in Browsers, k \in Kinds : Send(r, b, k))
    BY <1>2 DEF Tick, GatewaySignIn, AttemptExpires, SetEnabled, Send
  <1>3. CASE UNCHANGED vars
    BY <1>3 DEF vars
  <1> QED  BY <1>1, <1>2, <1>3 DEF Next

\* The three parts of the login invariant are preserved together.
LEMMA LoginStep == LoginInv /\ [Next]_vars => LoginInv'
  <1> SUFFICES ASSUME LoginInv, [Next]_vars PROVE LoginInv'
    OBVIOUS
  <1>1. TypeOK' /\ UserRead' /\ LockHeld'
    BY TypeStep, UserReadStep, LockHeldStep DEF LoginInv
  <1>2. CASE \E r \in Reqs, t \in Tokens : InsertSession(r, t)
    <2>1. PICK r \in Reqs, t \in Tokens : InsertSession(r, t)
      BY <1>2
    <2>2. /\ pc[r] = "insert" /\ row[t].user = None
          /\ row' = [row EXCEPT ![t] = NewSession(uid[r], in[r].sso)]
          /\ pc' = [pc EXCEPT ![r] = "respond"] /\ UNCHANGED <<in, uid>>
      BY <2>1 DEF InsertSession, Respond
    <2>3. /\ \A s \in Tokens \ {t} : row'[s] = row[s]
          /\ row'[t].user = uid[r] /\ row'[t].sso = in[r].sso
      BY <2>2 DEF LoginInv, TypeOK, NewSession
    <2>4. ASSUME NEW q \in Reqs, q # r, pc[q] = "insert" PROVE uid[q] # uid[r]
      BY <2>2, <2>4 DEF LoginInv, LockHeld
    <2>5. NotYetConsumed'
      BY <2>2, <2>3, <2>4 DEF LoginInv, NotYetConsumed, TypeOK
    <2>6. CredentialConsumedOnce'
      BY <2>2, <2>3 DEF LoginInv, NotYetConsumed, CredentialConsumedOnce
    <2> QED  BY <1>1, <2>5, <2>6 DEF LoginInv
  <1>3. CASE ~ \E r \in Reqs, t \in Tokens : InsertSession(r, t)
    <2>1. \A t \in Tokens : row'[t].user = row[t].user /\ row'[t].sso = row[t].sso
      BY <1>3, RowsKeepOwner DEF LoginInv
    <2>2. NotYetConsumed'
      BY <2>1, InsertReached DEF LoginInv, NotYetConsumed
    <2>3. CredentialConsumedOnce'
      BY <2>1 DEF LoginInv, CredentialConsumedOnce
    <2> QED  BY <1>1, <2>2, <2>3 DEF LoginInv
  <1> QED  BY <1>2, <1>3

\* However many callbacks race, on however many pods, a JWT buys one session.
THEOREM OneSessionPerCredential == Spec => []CredentialConsumedOnce
  <1>1. Init => LoginInv
    <2> SUFFICES ASSUME Init PROVE LoginInv
      OBVIOUS
    <2>1. TypeOK
      BY TypeInit
    <2>2. UserRead /\ LockHeld /\ NotYetConsumed
      BY DEF Init, UserRead, KnowsUser, LockHeld, NotYetConsumed
    <2>3. CredentialConsumedOnce
      BY DEF Init, CredentialConsumedOnce, NoSession
    <2> QED  BY <2>1, <2>2, <2>3 DEF LoginInv
  <1>2. LoginInv => CredentialConsumedOnce
    BY DEF LoginInv
  <1> QED  BY <1>1, <1>2, LoginStep, PTL DEF Spec

-----------------------------------------------------------------------------
(* An expired or revoked session is never in force again. *)

\* The whole effect of a step on the session table: a touch of a row in force, a
\* revocation, or an insert.
LEMMA RowEffect ==
  ASSUME TypeOK, UserRead, [Next]_vars
  PROVE  \/ UNCHANGED <<row, used>>
         \/ \E t \in Tokens, u \in Users : /\ now' = now /\ Touchable(row[t], u)
                                           /\ row' = [row EXCEPT ![t] = Touched(row[t])]
                                           /\ used' = [used EXCEPT ![t] = now]
         \/ \E r \in Reqs :
               /\ pc[r] = "revoke" /\ in[r].local \in Tokens /\ UNCHANGED <<now, used>>
               /\ row' = [row EXCEPT ![in[r].local]
                            = Revoked(row[in[r].local], uid[r], RevokeReason(out[r]))]
         \/ \E r \in Reqs, t \in Tokens : InsertSession(r, t)
  <1> USE DEF TypeOK
  <1> DEFINE Touch(t, u) == /\ now' = now /\ Touchable(row[t], u)
                            /\ row' = [row EXCEPT ![t] = Touched(row[t])]
                            /\ used' = [used EXCEPT ![t] = now]
             Revoke(r) ==
               /\ pc[r] = "revoke" /\ in[r].local \in Tokens /\ UNCHANGED <<now, used>>
               /\ row' = [row EXCEPT ![in[r].local]
                            = Revoked(row[in[r].local], uid[r], RevokeReason(out[r]))]
             Goal ==
               \/ UNCHANGED <<row, used>>
               \/ \E t \in Tokens, u \in Users : Touch(t, u)
               \/ \E r \in Reqs : Revoke(r)
               \/ \E r \in Reqs, t \in Tokens : InsertSession(r, t)
  <1>1. ASSUME NEW r \in Reqs, pc[r] \in KnowsUser PROVE uid[r] \in Users
    BY <1>1, SessionAssumption DEF UserRead
  <1>2. ASSUME NEW t, t \notin Tokens, NEW s, row' = [row EXCEPT ![t] = s] PROVE UNCHANGED row
    BY <1>2
  <1>3. ASSUME NEW t, NEW u \in Users, now' = now, Touchable(row[t], u),
               row' = [row EXCEPT ![t] = Touched(row[t])], used' = [used EXCEPT ![t] = now]
        PROVE  Goal
    <2>1. CASE t \in Tokens
      BY <1>3, <2>1
    <2>2. CASE t \notin Tokens
      BY <1>3, <2>2
    <2> QED  BY <2>1, <2>2
  <1>4. ASSUME NEW r \in Reqs, TouchAuthSession(r) \/ SessionStoreFails(r) PROVE Goal
    <2> DEFINE t == in[r].local
    <2>1. uid[r] \in Users \/ UNCHANGED <<row, used>>
      BY <1>1, <1>4 DEF TouchAuthSession, SessionStoreFails, KnowsUser
    <2>2. \/ UNCHANGED <<row, used>>
          \/ /\ TouchOutcome(row[t], uid[r]) = "active" /\ now' = now
             /\ row' = [row EXCEPT ![t] = Touched(row[t])]
             /\ used' = [used EXCEPT ![t] = now]
      BY <1>4 DEF TouchAuthSession, SessionStoreFails
    <2>3. TouchOutcome(row[t], uid[r]) = "active" => Touchable(row[t], uid[r])
      BY DEF TouchOutcome
    <2> QED  BY <1>3, <2>1, <2>2, <2>3
  <1>5. ASSUME NEW r \in Reqs, RevokeAuthSession(r) PROVE Goal
    <2>1. \/ row' = row
          \/ row' = [row EXCEPT ![in[r].local]
                       = Revoked(row[in[r].local], uid[r], RevokeReason(out[r]))]
      BY <1>5 DEF RevokeAuthSession
    <2>2. pc[r] = "revoke" /\ UNCHANGED <<now, used>>
      BY <1>5 DEF RevokeAuthSession
    <2> QED  BY <1>2, <2>1, <2>2
  <1>6. ASSUME NEW r \in Reqs, CheckSSO(r) \/ RecheckSSO(r) \/ GetAuthSessionStatus(r)
               \/ Logout(r) \/ CheckConsumed(r) \/ Deliver(r) \/ LockUser(r)
               \/ UserReadFails(r) \/ CreateFails(r) \/ Drop(r)
        PROVE  UNCHANGED <<row, used>>
    BY <1>6 DEF CheckSSO, RecheckSSO, GetAuthSessionStatus, Logout, CheckConsumed, Deliver,
                LockUser, UserReadFails, CreateFails, Drop
  <1>7. CASE Tick \/ (\E b \in Browsers, c \in Creds : GatewaySignIn(b, c))
             \/ (\E b \in Browsers : AttemptExpires(b)) \/ (\E u \in Users : SetEnabled(u))
             \/ (\E r \in Reqs, b \in Browsers, k \in Kinds : Send(r, b, k))
    BY <1>7 DEF Tick, GatewaySignIn, AttemptExpires, SetEnabled, Send
  <1>8. CASE UNCHANGED vars
    BY <1>8 DEF vars
  <1>9. Goal
    BY <1>4, <1>5, <1>6, <1>7, <1>8 DEF Next, Handle, Fail
  <1> QED  BY <1>9

\* The same, without saying which request did it.
LEMMA RowStep ==
  ASSUME TypeOK, UserRead, [Next]_vars
  PROVE  \/ UNCHANGED row
         \/ \E t \in Tokens, u \in Users : /\ now' = now /\ Touchable(row[t], u)
                                           /\ row' = [row EXCEPT ![t] = Touched(row[t])]
         \/ \E t \in Tokens, u \in Users, why \in Reasons :
               now' = now /\ row' = [row EXCEPT ![t] = Revoked(row[t], u, why)]
         \/ \E t \in Tokens : row[t].user = None /\ \A s \in Tokens \ {t} : row'[s] = row[s]
  <1>1. \A r \in Reqs : pc[r] = "revoke" => uid[r] \in Users
    BY SessionAssumption DEF UserRead, KnowsUser
  <1>2. \A r \in Reqs : RevokeReason(out[r]) \in Reasons
    BY DEF RevokeReason, Reasons
  <1>3. \A r \in Reqs, t \in Tokens :
           InsertSession(r, t) => row[t].user = None /\ \A s \in Tokens \ {t} : row'[s] = row[s]
    BY DEF InsertSession, TypeOK
  <1> QED  BY <1>1, <1>2, <1>3, RowEffect

\* The clock never runs backwards.
LEMMA ClockStep ==
  ASSUME TypeOK, [Next]_vars
  PROVE  now' \in Nat /\ now <= now'
  <1>1. CASE Tick
    BY <1>1 DEF Tick, TypeOK
  <1>2. CASE UNCHANGED now
    BY <1>2 DEF TypeOK
  <1>3. ASSUME NEW r \in Reqs, Handle(r) \/ LockUser(r) \/ Fail(r) PROVE UNCHANGED now
    BY <1>3 DEF Handle, Fail, CheckSSO, RecheckSSO, TouchAuthSession, GetAuthSessionStatus,
       RevokeAuthSession, Logout, CheckConsumed, InsertSession, Deliver, LockUser,
       UserReadFails, SessionStoreFails, CreateFails, Drop
  <1>4. CASE (\E b \in Browsers, c \in Creds : GatewaySignIn(b, c))
             \/ (\E b \in Browsers : AttemptExpires(b)) \/ (\E u \in Users : SetEnabled(u))
             \/ (\E r \in Reqs, b \in Browsers, k \in Kinds : Send(r, b, k))
    BY <1>2, <1>4 DEF GatewaySignIn, AttemptExpires, SetEnabled, Send
  <1> QED  BY <1>1, <1>2, <1>3, <1>4 DEF Next, vars

\* The action of DeadStaysDead.
Buried ==
    \A t \in Tokens :
        row[t].user # None /\ ~Live(t)
        => /\ ~Live(t)'
           /\ row[t].revoked # "none" => row'[t].revoked = row[t].revoked

\* No step revives a row that is dead, or changes the reason of a revoked one.
LEMMA BuriedStep == TypeOK /\ UserRead /\ [Next]_vars => Buried
  <1> SUFFICES ASSUME TypeOK, UserRead, [Next]_vars,
                      NEW t \in Tokens, row[t].user # None, ~Live(t)
               PROVE  ~Live(t)' /\ (row[t].revoked # "none" => row'[t].revoked = row[t].revoked)
    BY DEF Buried
  <1> DEFINE Goal == ~Live(t)' /\ (row[t].revoked # "none" => row'[t].revoked = row[t].revoked)
  <1>0. row[t] \in Session /\ now \in Nat /\ now' \in Nat /\ now <= now'
    BY ClockStep DEF TypeOK
  <1>1. CASE row'[t] = row[t]
    BY <1>0, <1>1, SessionAssumption DEF Live, Session
  <1>2. ASSUME NEW s \in Tokens, NEW u \in Users, now' = now, Touchable(row[s], u),
               row' = [row EXCEPT ![s] = Touched(row[s])]
        PROVE  row'[t] = row[t]
    <2>1. s # t
      BY <1>2, <1>0, SessionAssumption DEF Touchable, Live, Session
    <2> QED  BY <1>2, <2>1 DEF TypeOK
  <1>3. ASSUME NEW s \in Tokens, NEW u \in Users, NEW why \in Reasons, now' = now,
               row' = [row EXCEPT ![s] = Revoked(row[s], u, why)]
        PROVE  Goal
    <2>1. CASE s # t
      BY <1>1, <1>3, <2>1 DEF TypeOK
    <2>2. CASE s = t
      <3>1. row'[t] = Revoked(row[t], u, why)
        BY <1>3, <2>2 DEF TypeOK
      <3>2. CASE row[t].revoked = "none" /\ row[t].user = u
        <4>1. /\ row'[t].user = row[t].user /\ row'[t].last = row[t].last
              /\ row'[t].created = row[t].created /\ row'[t].expires = row[t].expires
          BY <3>1, <3>2 DEF Revoked
        <4>2. ~Live(t)'
          BY <1>3, <3>2, <4>1 DEF Live
        <4> QED  BY <3>2, <4>2
      <3>3. CASE ~(row[t].revoked = "none" /\ row[t].user = u)
        BY <1>1, <3>1, <3>3 DEF Revoked
      <3> QED  BY <3>2, <3>3
    <2> QED  BY <2>1, <2>2
  <1>4. ASSUME NEW s \in Tokens, row[s].user = None, \A q \in Tokens \ {s} : row'[q] = row[q]
        PROVE  row'[t] = row[t]
    BY <1>4
  <1> QED  BY <1>1, <1>2, <1>3, <1>4, RowStep

\* Whatever runs concurrently, an expired or revoked session stays so, and a
\* revocation keeps its first reason.
THEOREM DeadSessionsStayDead == Spec => DeadStaysDead
  <1>1. Init => TypeOK /\ UserRead
    <2>1. Init => UserRead
      BY DEF Init, UserRead, KnowsUser
    <2> QED  BY <2>1, TypeInit
  <1>2. (TypeOK /\ UserRead) /\ [Next]_vars => (TypeOK /\ UserRead)'
    BY TypeStep, UserReadStep
  <1>3. (TypeOK /\ UserRead) /\ [Next]_vars => [Buried]_vars
    BY BuriedStep
  <1>4. Spec => [][Buried]_vars
    BY <1>1, <1>2, <1>3, PTL DEF Spec
  <1> QED  BY <1>4 DEF DeadStaysDead, Buried

-----------------------------------------------------------------------------
(* The contents of the rows, and what the requests in flight may rely on. *)

\* The deadline of a row is exactly what its other columns give, and its last
\* activity is the last accepted request of its owner.
RowShape ==
    \A t \in Tokens :
        /\ row[t].user = None => row[t].revoked = "none"
        /\ row[t].user # None =>
              /\ row[t].expires = Earlier(row[t].created + AbsTimeout, row[t].last + IdleTimeout)
              /\ row[t].created <= row[t].last /\ row[t].last <= now
              /\ used[t] = row[t].last

\* A token that a browser holds, sends or is about to receive has a row.
CookiesKnown ==
    /\ \A b \in Browsers : jar[b].local # None => row[jar[b].local].user # None
    /\ \A r \in Reqs : in[r].local # None => row[in[r].local].user # None
    /\ \A r \in Reqs : made[r] # None => row[made[r]].user # None

\* The steps that use the session cookie are reached only with one.
LocalSent ==
    \A r \in Reqs :
        pc[r] \in {"resso", "touch", "revoke", "status", "mestatus"} => in[r].local # None

\* Inside the transaction of CreateAuthSession the user is enabled.
EnabledHeld ==
    \A r \in Reqs : pc[r] \in {"check", "insert"} => enabled[uid[r]]

\* The reason a request has decided on is true of a row that is still unrevoked.
ReasonHolds(s, code) ==
    IF code = "idle" THEN now >= Earlier(s.expires, s.last + IdleTimeout)
    ELSE now >= s.created + AbsTimeout

Verdict ==
    \A r \in Reqs :
        pc[r] \in {"revoke", "respond"} /\ out[r] \in {"idle", "absolute"} =>
            /\ in[r].local \in Tokens /\ in[r].sso \in Creds
            /\ row[in[r].local].user = CredUser[in[r].sso] /\ row[in[r].local].revoked = "none"
               => ReasonHolds(row[in[r].local], out[r])

\* A request that was accepted names a session of its own user.
Accepted ==
    \A r \in Reqs :
        pc[r] \in {"revoke", "respond"} /\ out[r] \in {"ok", "signed_in"} =>
            /\ in[r].local \in Tokens /\ in[r].sso \in Creds
            /\ row[in[r].local].user = CredUser[in[r].sso]

SessionInv ==
    /\ LoginInv
    /\ RowShape
    /\ RevokedReasonTrue
    /\ CookiesKnown
    /\ LocalSent
    /\ EnabledHeld
    /\ Verdict
    /\ Accepted

\* The effect of a step on one row.
LEMMA OneRow ==
  ASSUME LoginInv, [Next]_vars, NEW t \in Tokens
  PROVE  \/ row'[t] = row[t] /\ used'[t] = used[t]
         \/ /\ now' = now /\ \E u \in Users : Touchable(row[t], u)
            /\ row'[t] = Touched(row[t]) /\ used'[t] = now
         \/ /\ now' = now /\ used'[t] = used[t]
            /\ \E r \in Reqs : /\ pc[r] = "revoke" /\ in[r].local = t
                               /\ row'[t] = Revoked(row[t], uid[r], RevokeReason(out[r]))
         \/ /\ now' = now /\ used'[t] = now /\ row[t].user = None
            /\ \E r \in Reqs : /\ pc[r] = "insert"
                               /\ row'[t] = NewSession(uid[r], in[r].sso)
  <1> USE DEF LoginInv, TypeOK
  <1>1. ASSUME NEW r \in Reqs, NEW s \in Tokens, InsertSession(r, s)
        PROVE  /\ pc[r] = "insert" /\ now' = now /\ row[s].user = None
               /\ row' = [row EXCEPT ![s] = NewSession(uid[r], in[r].sso)]
               /\ used' = [used EXCEPT ![s] = now]
    BY <1>1 DEF InsertSession
  <1>2. CASE \E r \in Reqs, s \in Tokens : InsertSession(r, s)
    <2>1. PICK r \in Reqs, s \in Tokens : InsertSession(r, s)
      BY <1>2
    <2>2. CASE s = t
      BY <1>1, <2>1, <2>2
    <2>3. CASE s # t
      BY <1>1, <2>1, <2>3
    <2> QED  BY <2>2, <2>3
  <1>3. ASSUME NEW s \in Tokens, NEW u \in Users, now' = now, Touchable(row[s], u),
               row' = [row EXCEPT ![s] = Touched(row[s])], used' = [used EXCEPT ![s] = now]
        PROVE  \/ row'[t] = row[t] /\ used'[t] = used[t]
               \/ /\ now' = now /\ Touchable(row[t], u)
                  /\ row'[t] = Touched(row[t]) /\ used'[t] = now
    BY <1>3
  <1>4. ASSUME NEW r \in Reqs, pc[r] = "revoke", in[r].local \in Tokens, UNCHANGED <<now, used>>,
               row' = [row EXCEPT ![in[r].local]
                            = Revoked(row[in[r].local], uid[r], RevokeReason(out[r]))]
        PROVE  \/ row'[t] = row[t] /\ used'[t] = used[t]
               \/ /\ now' = now /\ used'[t] = used[t]
                  /\ in[r].local = t
                  /\ row'[t] = Revoked(row[t], uid[r], RevokeReason(out[r]))
    BY <1>4
  <1>5. CASE UNCHANGED <<row, used>>
    BY <1>5
  <1> QED  BY <1>2, <1>3, <1>4, <1>5, RowEffect

\* A row keeps its owner for ever.
LEMMA OwnerStays ==
  ASSUME LoginInv, [Next]_vars, NEW t \in Tokens, row[t].user # None
  PROVE  row'[t].user = row[t].user
  <1>1. Touched(row[t]).user = row[t].user
    BY DEF Touched
  <1>2. \A u, why : Revoked(row[t], u, why).user = row[t].user
    BY DEF Revoked
  <1> QED  BY <1>1, <1>2, OneRow

\* Deadlines and last activity stay exact under touches, revocations and inserts.
LEMMA RowShapeStep == ASSUME SessionInv, [Next]_vars PROVE RowShape'
  <1> SUFFICES ASSUME NEW t \in Tokens
               PROVE  /\ row'[t].user = None => row'[t].revoked = "none"
                      /\ row'[t].user # None =>
                           /\ row'[t].expires = Earlier(row'[t].created + AbsTimeout,
                                                        row'[t].last + IdleTimeout)
                           /\ row'[t].created <= row'[t].last /\ row'[t].last <= now'
                           /\ used'[t] = row'[t].last
    BY DEF RowShape
  <1>0. row[t] \in Session /\ now \in Nat /\ now' \in Nat /\ now <= now'
    BY ClockStep DEF SessionInv, LoginInv, TypeOK
  <1>1. CASE row'[t] = row[t] /\ used'[t] = used[t]
    BY <1>0, <1>1 DEF SessionInv, RowShape, Session
  <1>2. ASSUME now' = now, NEW u \in Users, Touchable(row[t], u),
               row'[t] = Touched(row[t]), used'[t] = now
        PROVE  /\ row'[t].user # None
               /\ row'[t].expires = Earlier(row'[t].created + AbsTimeout, row'[t].last + IdleTimeout)
               /\ row'[t].created <= row'[t].last /\ row'[t].last <= now'
               /\ used'[t] = row'[t].last
    <2>1. row[t].user # None
      BY <1>2, SessionAssumption DEF Touchable
    <2>2. row[t].last <= now /\ row[t].created <= row[t].last
      BY <2>1 DEF SessionInv, RowShape
    <2>3. Later(row[t].last, now) = now
      BY <1>0, <2>2 DEF Later, Session
    <2>4. /\ row'[t].user = row[t].user /\ row'[t].created = row[t].created /\ row'[t].last = now
          /\ row'[t].expires = Earlier(row[t].created + AbsTimeout, now + IdleTimeout)
      BY <1>2, <2>3 DEF Touched
    <2> QED  BY <1>0, <1>2, <2>1, <2>2, <2>4 DEF Session
  <1>3. ASSUME now' = now, used'[t] = used[t], NEW r \in Reqs, pc[r] = "revoke",
               row'[t] = Revoked(row[t], uid[r], RevokeReason(out[r]))
        PROVE  /\ row'[t].user = row[t].user
               /\ row[t].user = None => row'[t].revoked = row[t].revoked
               /\ row'[t].expires = row[t].expires /\ row'[t].created = row[t].created
               /\ row'[t].last = row[t].last
    <2>1. uid[r] # None
      BY <1>3, SessionAssumption DEF SessionInv, LoginInv, UserRead, KnowsUser
    <2> QED  BY <1>3, <2>1 DEF Revoked
  <1>4. ASSUME now' = now, used'[t] = now, NEW r \in Reqs, pc[r] = "insert",
               row'[t] = NewSession(uid[r], in[r].sso)
        PROVE  /\ row'[t].user # None
               /\ row'[t].expires = Earlier(row'[t].created + AbsTimeout, row'[t].last + IdleTimeout)
               /\ row'[t].created <= row'[t].last /\ row'[t].last <= now'
               /\ used'[t] = row'[t].last
    <2>1. uid[r] # None
      BY <1>4, SessionAssumption DEF SessionInv, LoginInv, UserRead, KnowsUser
    <2>2. /\ row'[t].user = uid[r] /\ row'[t].created = now /\ row'[t].last = now
          /\ row'[t].expires = now + IdleTimeout
      BY <1>4 DEF NewSession
    <2>3. Earlier(now + AbsTimeout, now + IdleTimeout) = now + IdleTimeout
      BY <1>0, SessionAssumption DEF Earlier
    <2> QED  BY <1>0, <1>4, <2>1, <2>2, <2>3
  <1>5. LoginInv /\ RowShape
    BY DEF SessionInv
  <1> QED  BY <1>0, <1>1, <1>2, <1>3, <1>4, <1>5, OneRow DEF RowShape

\* A reason that was true when it was decided is true when it is written.
LEMMA ReasonStep == ASSUME SessionInv, [Next]_vars PROVE RevokedReasonTrue'
  <1> SUFFICES ASSUME NEW t \in Tokens
               PROVE  /\ row'[t].revoked = "idle_timeout" =>
                           now' >= Earlier(row'[t].expires, row'[t].last + IdleTimeout)
                      /\ row'[t].revoked = "absolute_timeout" =>
                           now' >= row'[t].created + AbsTimeout
    BY DEF RevokedReasonTrue
  <1>0. row[t] \in Session /\ now \in Nat /\ now' \in Nat /\ now <= now'
    BY ClockStep DEF SessionInv, LoginInv, TypeOK
  <1>1. CASE row'[t] = row[t]
    <2>1. Earlier(row[t].expires, row[t].last + IdleTimeout) \in Nat
          /\ row[t].created + AbsTimeout \in Nat
      BY <1>0, SessionAssumption DEF Session, Earlier
    <2> QED  BY <1>0, <1>1, <2>1 DEF SessionInv, RevokedReasonTrue
  <1>2. ASSUME NEW u \in Users, Touchable(row[t], u), row'[t] = Touched(row[t])
        PROVE  row'[t].revoked = "none"
    BY <1>2 DEF Touchable, Touched
  <1>3. ASSUME now' = now, NEW r \in Reqs, pc[r] = "revoke", in[r].local = t,
               row'[t] = Revoked(row[t], uid[r], RevokeReason(out[r]))
        PROVE  /\ row'[t].revoked = "idle_timeout" =>
                    now' >= Earlier(row'[t].expires, row'[t].last + IdleTimeout)
               /\ row'[t].revoked = "absolute_timeout" => now' >= row'[t].created + AbsTimeout
    <2>1. CASE row[t].user = uid[r] /\ row[t].revoked = "none"
      <3>1. /\ row'[t].expires = row[t].expires /\ row'[t].created = row[t].created
            /\ row'[t].last = row[t].last /\ row'[t].revoked = RevokeReason(out[r])
        BY <1>3, <2>1 DEF Revoked
      <3>2. uid[r] = CredUser[in[r].sso]
        BY <1>3 DEF SessionInv, LoginInv, UserRead, KnowsUser
      <3>3. row'[t].revoked = "idle_timeout" => out[r] = "idle"
        BY <3>1 DEF RevokeReason
      <3>4. row'[t].revoked = "absolute_timeout" => out[r] = "absolute"
        BY <3>1 DEF RevokeReason
      <3> QED  BY <1>3, <2>1, <3>1, <3>2, <3>3, <3>4 DEF SessionInv, Verdict, ReasonHolds
    <2>2. CASE ~(row[t].user = uid[r] /\ row[t].revoked = "none")
      BY <1>1, <1>3, <2>2 DEF Revoked
    <2> QED  BY <2>1, <2>2
  <1>4. ASSUME NEW r \in Reqs, row'[t] = NewSession(uid[r], in[r].sso)
        PROVE  row'[t].revoked = "none"
    BY <1>4 DEF NewSession
  <1>5. LoginInv
    BY DEF SessionInv
  <1> QED  BY <1>1, <1>2, <1>3, <1>4, <1>5, OneRow

\* Cookies are planted only after the row was committed.
LEMMA CookiesStep == ASSUME SessionInv, [Next]_vars PROVE CookiesKnown'
  <1> USE SessionAssumption
  <1>0. LoginInv /\ TypeOK /\ CookiesKnown
    BY DEF SessionInv, LoginInv
  <1>1. \A t \in Tokens : row[t].user # None => row'[t].user # None
    BY <1>0, OwnerStays
  <1>2. ASSUME NEW b \in Browsers, jar'[b].local # None
        PROVE  /\ jar'[b].local \in Tokens
               /\ \/ jar'[b].local = jar[b].local
                  \/ \E r \in Reqs : jar'[b].local = made[r]
    <2>0. jar[b].local \in Tokens \cup {None} /\ \A r \in Reqs : made[r] \in Tokens \cup {None}
      BY <1>0 DEF TypeOK, Cookie
    <2>1. CASE UNCHANGED jar
      BY <1>2, <2>0, <2>1
    <2>2. ASSUME NEW d \in Browsers, NEW c \in Creds, GatewaySignIn(d, c)
          PROVE  jar'[b].local = jar[b].local
      BY <1>0, <2>2 DEF GatewaySignIn, TypeOK
    <2>3. ASSUME NEW d \in Browsers, AttemptExpires(d)
          PROVE  jar'[b].local = jar[b].local
      BY <1>0, <2>3 DEF AttemptExpires, TypeOK
    <2>4. ASSUME NEW r \in Reqs, Deliver(r)
          PROVE  jar'[b].local = None \/ jar'[b].local = jar[b].local \/ jar'[b].local = made[r]
      <3>1. CASE b = in[r].browser
        <4>1. jar'[b] = Cookies(jar[b], out[r], made[r])
          BY <1>0, <2>4, <3>1 DEF Deliver, TypeOK
        <4> QED  BY <4>1 DEF Cookies
      <3>2. CASE b # in[r].browser
        BY <1>0, <2>4, <3>2 DEF Deliver, TypeOK
      <3> QED  BY <3>1, <3>2
    <2>5. ASSUME NEW r \in Reqs, Handle(r) \/ LockUser(r) \/ Fail(r), ~Deliver(r)
          PROVE  UNCHANGED jar
      BY <2>5 DEF Handle, Fail, CheckSSO, RecheckSSO, TouchAuthSession, GetAuthSessionStatus,
         RevokeAuthSession, Logout, CheckConsumed, InsertSession, LockUser,
         UserReadFails, SessionStoreFails, CreateFails, Drop
    <2>6. CASE Tick \/ (\E u \in Users : SetEnabled(u))
               \/ (\E r \in Reqs, d \in Browsers, k \in Kinds : Send(r, d, k)) \/ UNCHANGED vars
      BY <2>1, <2>6 DEF Tick, SetEnabled, Send, vars
    <2> QED  BY <1>2, <2>0, <2>1, <2>2, <2>3, <2>4, <2>5, <2>6 DEF Next
  <1>3. ASSUME NEW q \in Reqs, in'[q].local # None
        PROVE  /\ in'[q].local \in Tokens
               /\ in'[q].local = in[q].local \/ \E b \in Browsers : in'[q].local = jar[b].local
    <2>0. in'[q].local \in Tokens \cup {None}
      BY <1>0, TypeStep DEF TypeOK, Request
    <2>1. CASE UNCHANGED in
      BY <1>3, <2>0, <2>1
    <2>2. ASSUME NEW r \in Reqs, NEW b \in Browsers, NEW k \in Kinds, Send(r, b, k)
          PROVE  in'[q].local = in[q].local \/ in'[q].local = jar[b].local
      BY <1>0, <2>2 DEF Send, TypeOK
    <2>3. ASSUME NEW r \in Reqs, Finish(r) PROVE in'[q].local = in[q].local
      BY <1>0, <1>3, <2>3 DEF Finish, NoCookies, TypeOK
    <2>4. ASSUME NEW r \in Reqs, Handle(r) \/ LockUser(r) \/ Fail(r)
          PROVE  UNCHANGED in \/ Finish(r)
      BY <2>4 DEF Handle, Fail, CheckSSO, RecheckSSO, TouchAuthSession, GetAuthSessionStatus,
         RevokeAuthSession, Logout, CheckConsumed, InsertSession, LockUser,
         UserReadFails, SessionStoreFails, CreateFails, Drop, Deliver
    <2>5. CASE Tick \/ (\E u \in Users : SetEnabled(u)) \/ UNCHANGED vars
               \/ (\E b \in Browsers, c \in Creds : GatewaySignIn(b, c))
               \/ (\E b \in Browsers : AttemptExpires(b))
      BY <2>1, <2>5 DEF Tick, SetEnabled, GatewaySignIn, AttemptExpires, vars
    <2> QED  BY <1>3, <2>0, <2>1, <2>2, <2>3, <2>4, <2>5 DEF Next
  <1>4. ASSUME NEW q \in Reqs, made'[q] # None
        PROVE  /\ made'[q] \in Tokens
               /\ made'[q] = made[q] \/ row'[made'[q]].user # None
    <2>0. made'[q] \in Tokens \cup {None}
      BY <1>0, TypeStep DEF TypeOK
    <2>1. CASE UNCHANGED made
      BY <1>4, <2>0, <2>1
    <2>2. ASSUME NEW r \in Reqs, NEW t \in Tokens, InsertSession(r, t)
          PROVE  made'[q] = made[q] \/ row'[made'[q]].user # None
      <3>1. uid[r] # None
        BY <1>0, <2>2 DEF InsertSession, LoginInv, UserRead, KnowsUser
      <3>2. row'[t].user = uid[r]
        BY <1>0, <2>2 DEF InsertSession, NewSession, TypeOK
      <3> QED  BY <1>0, <2>2, <3>1, <3>2 DEF InsertSession, TypeOK
    <2>3. ASSUME NEW r \in Reqs, Finish(r) PROVE made'[q] = made[q]
      BY <1>0, <1>4, <2>3 DEF Finish, TypeOK
    <2>4. ASSUME NEW r \in Reqs, Handle(r) \/ LockUser(r) \/ Fail(r),
                 ~ \E t \in Tokens : InsertSession(r, t)
          PROVE  UNCHANGED made \/ Finish(r)
      BY <2>4 DEF Handle, Fail, CheckSSO, RecheckSSO, TouchAuthSession, GetAuthSessionStatus,
         RevokeAuthSession, Logout, CheckConsumed, LockUser,
         UserReadFails, SessionStoreFails, CreateFails, Drop, Deliver
    <2>5. CASE Tick \/ (\E u \in Users : SetEnabled(u)) \/ UNCHANGED vars
               \/ (\E b \in Browsers, c \in Creds : GatewaySignIn(b, c))
               \/ (\E b \in Browsers : AttemptExpires(b))
               \/ (\E r \in Reqs, b \in Browsers, k \in Kinds : Send(r, b, k))
      BY <2>1, <2>5 DEF Tick, SetEnabled, GatewaySignIn, AttemptExpires, Send, vars
    <2> QED  BY <1>4, <2>0, <2>1, <2>2, <2>3, <2>4, <2>5 DEF Next
  <1>5. ASSUME NEW b \in Browsers, jar'[b].local # None PROVE row'[jar'[b].local].user # None
    BY <1>0, <1>1, <1>2, <1>5 DEF CookiesKnown
  <1>6. ASSUME NEW q \in Reqs, in'[q].local # None PROVE row'[in'[q].local].user # None
    BY <1>0, <1>1, <1>3, <1>6 DEF CookiesKnown
  <1>7. ASSUME NEW q \in Reqs, made'[q] # None PROVE row'[made'[q]].user # None
    BY <1>0, <1>1, <1>4, <1>7 DEF CookiesKnown
  <1> QED  BY <1>5, <1>6, <1>7 DEF CookiesKnown

\* A request reaches the steps that use the session cookie only if it sent one.
LEMMA LocalSentStep == ASSUME SessionInv, [Next]_vars PROVE LocalSent'
  <1> USE DEF TypeOK, LocalSent
  <1>0. TypeOK /\ LocalSent
    BY DEF SessionInv, LoginInv
  <1>1. CASE UNCHANGED <<pc, in>>
    BY <1>0, <1>1
  <1>2. ASSUME NEW r \in Reqs, Handle(r) \/ LockUser(r) \/ Fail(r) PROVE LocalSent'
    <2>1. CASE CheckSSO(r)
      BY <1>0, <2>1 DEF CheckSSO, Goto, Respond
    <2>2. CASE RecheckSSO(r) \/ LockUser(r)
      BY <1>0, <2>2 DEF RecheckSSO, LockUser, Goto, Respond
    <2>3. CASE TouchAuthSession(r)
      BY <1>0, <2>3 DEF TouchAuthSession, Goto, Respond
    <2>4. CASE GetAuthSessionStatus(r) \/ RevokeAuthSession(r)
      BY <1>0, <2>4 DEF GetAuthSessionStatus, RevokeAuthSession, Respond
    <2>5. CASE Logout(r)
      BY <1>0, <2>5 DEF Logout, Respond
    <2>6. CASE UserReadFails(r) \/ SessionStoreFails(r) \/ CreateFails(r)
      BY <1>0, <2>6 DEF UserReadFails, SessionStoreFails, CreateFails, Respond
    <2>7. CASE Deliver(r) \/ Drop(r)
      BY <1>0, <2>7 DEF Deliver, Drop, Finish
    <2>8. CASE CheckConsumed(r)
      BY <1>0, <2>8 DEF CheckConsumed, Goto, Respond
    <2>9. ASSUME NEW t \in Tokens, InsertSession(r, t) PROVE LocalSent'
      BY <1>0, <2>9 DEF InsertSession, Respond
    <2> QED  BY <1>2, <2>1, <2>2, <2>3, <2>4, <2>5, <2>6, <2>7, <2>8, <2>9 DEF Handle, Fail
  <1>3. ASSUME NEW r \in Reqs, NEW b \in Browsers, NEW k \in Kinds, Send(r, b, k)
        PROVE  LocalSent'
    BY <1>0, <1>3 DEF Send
  <1>4. CASE Tick \/ (\E b \in Browsers, c \in Creds : GatewaySignIn(b, c))
             \/ (\E b \in Browsers : AttemptExpires(b)) \/ (\E u \in Users : SetEnabled(u))
    BY <1>1, <1>4 DEF Tick, GatewaySignIn, AttemptExpires, SetEnabled
  <1> QED  BY <1>1, <1>2, <1>3, <1>4 DEF Next, vars

\* Nobody disables a user while a login holds the user's row.
LEMMA EnabledStep == ASSUME SessionInv, [Next]_vars PROVE EnabledHeld'
  <1> USE SessionAssumption DEF TypeOK, EnabledHeld
  <1>0. TypeOK /\ EnabledHeld /\ LockHeld
    BY DEF SessionInv, LoginInv
  <1>1. ASSUME NEW r \in Reqs, UNCHANGED enabled,
               pc'[r] \in {"check", "insert"} =>
                   /\ uid'[r] = uid[r]
                   /\ pc[r] \in {"check", "insert"} \/ enabled[uid[r]],
               \A q \in Reqs \ {r} : pc'[q] = pc[q] /\ uid'[q] = uid[q]
        PROVE  EnabledHeld'
    BY <1>0, <1>1
  <1>2. CASE UNCHANGED <<enabled, pc, uid>>
    BY <1>0, <1>2
  <1>3. ASSUME NEW u \in Users, SetEnabled(u) PROVE EnabledHeld'
    <2>1. \A r \in Reqs : pc[r] \in {"check", "insert"} => uid[r] # u
      BY <1>0, <1>3 DEF SetEnabled, LockHeld
    <2> QED  BY <1>0, <1>3, <2>1 DEF SetEnabled
  <1>4. ASSUME NEW r \in Reqs, Handle(r) \/ LockUser(r) \/ Fail(r) PROVE EnabledHeld'
    <2>1. CASE CheckSSO(r)
      BY <1>0, <1>1, <2>1 DEF CheckSSO, Goto, Respond
    <2>2. CASE RecheckSSO(r) \/ LockUser(r)
      BY <1>0, <1>1, <2>2 DEF RecheckSSO, LockUser, Goto, Respond
    <2>3. CASE TouchAuthSession(r)
      BY <1>0, <1>1, <2>3 DEF TouchAuthSession, Goto, Respond
    <2>4. CASE GetAuthSessionStatus(r) \/ RevokeAuthSession(r) \/ Logout(r)
      BY <1>0, <1>1, <2>4 DEF GetAuthSessionStatus, RevokeAuthSession, Logout, Respond
    <2>5. CASE UserReadFails(r) \/ SessionStoreFails(r) \/ CreateFails(r)
      BY <1>0, <1>1, <2>5 DEF UserReadFails, SessionStoreFails, CreateFails, Respond
    <2>6. CASE Deliver(r) \/ Drop(r)
      BY <1>0, <1>1, <2>6 DEF Deliver, Drop, Finish
    <2>7. CASE CheckConsumed(r)
      BY <1>0, <1>1, <2>7 DEF CheckConsumed, Goto, Respond
    <2>8. ASSUME NEW t \in Tokens, InsertSession(r, t) PROVE EnabledHeld'
      BY <1>0, <1>1, <2>8 DEF InsertSession, Respond
    <2> QED  BY <1>4, <2>1, <2>2, <2>3, <2>4, <2>5, <2>6, <2>7, <2>8 DEF Handle, Fail
  <1>5. ASSUME NEW r \in Reqs, NEW b \in Browsers, NEW k \in Kinds, Send(r, b, k)
        PROVE  EnabledHeld'
    BY <1>0, <1>1, <1>5 DEF Send
  <1>6. CASE Tick \/ (\E b \in Browsers, c \in Creds : GatewaySignIn(b, c))
             \/ (\E b \in Browsers : AttemptExpires(b))
    BY <1>2, <1>6 DEF Tick, GatewaySignIn, AttemptExpires
  <1> QED  BY <1>2, <1>3, <1>4, <1>5, <1>6 DEF Next, vars

\* Where an answer about the session comes from: it was decided earlier, or the
\* store gave it in this step.
LEMMA AnswerReached ==
  ASSUME SessionInv, [Next]_vars, NEW q \in Reqs, pc'[q] \in {"revoke", "respond"},
         out'[q] \in {"idle", "absolute", "ok", "signed_in"}
  PROVE  /\ in'[q] = in[q]
         /\ \/ pc[q] \in {"revoke", "respond"} /\ out'[q] = out[q]
            \/ /\ pc[q] \in {"touch", "status", "mestatus"} /\ now' = now
               /\ \/ /\ out'[q] \in {"ok", "signed_in"}
                     /\ row[in[q].local].user = uid[q]
                  \/ /\ out'[q] \in {"idle", "absolute"} /\ UNCHANGED row
                     /\ \/ out'[q] = TouchOutcome(row[in[q].local], uid[q])
                        \/ out'[q] = StatusOutcome(row[in[q].local], uid[q])
  <1> USE DEF TypeOK
  <1>0. TypeOK
    BY DEF SessionInv, LoginInv
  <1> DEFINE Goal ==
         /\ in'[q] = in[q]
         /\ \/ pc[q] \in {"revoke", "respond"} /\ out'[q] = out[q]
            \/ /\ pc[q] \in {"touch", "status", "mestatus"} /\ now' = now
               /\ \/ /\ out'[q] \in {"ok", "signed_in"}
                     /\ row[in[q].local].user = uid[q]
                  \/ /\ out'[q] \in {"idle", "absolute"} /\ UNCHANGED row
                     /\ \/ out'[q] = TouchOutcome(row[in[q].local], uid[q])
                        \/ out'[q] = StatusOutcome(row[in[q].local], uid[q])
  <1>1. ASSUME NEW r \in Reqs, Handle(r) \/ LockUser(r) \/ Fail(r) PROVE Goal
    <2>1. CASE r # q
      <3>1. /\ pc'[q] = pc[q] /\ out'[q] = out[q] /\ in'[q] = in[q]
        <4>1. CASE CheckSSO(r) \/ RecheckSSO(r) \/ LockUser(r)
          BY <1>0, <2>1, <4>1 DEF CheckSSO, RecheckSSO, LockUser, Goto, Respond
        <4>2. CASE TouchAuthSession(r)
          BY <1>0, <2>1, <4>2 DEF TouchAuthSession, Goto, Respond
        <4>3. CASE GetAuthSessionStatus(r) \/ RevokeAuthSession(r) \/ Logout(r)
          BY <1>0, <2>1, <4>3 DEF GetAuthSessionStatus, RevokeAuthSession, Logout, Respond
        <4>4. CASE UserReadFails(r) \/ SessionStoreFails(r) \/ CreateFails(r)
          BY <1>0, <2>1, <4>4 DEF UserReadFails, SessionStoreFails, CreateFails, Respond
        <4>5. CASE Deliver(r) \/ Drop(r)
          BY <1>0, <2>1, <4>5 DEF Deliver, Drop, Finish
        <4>6. CASE CheckConsumed(r) \/ \E t \in Tokens : InsertSession(r, t)
          BY <1>0, <2>1, <4>6 DEF CheckConsumed, InsertSession, Goto, Respond
        <4> QED  BY <1>1, <4>1, <4>2, <4>3, <4>4, <4>5, <4>6 DEF Handle, Fail
      <3> QED  BY <3>1
    <2>2. CASE r = q
      <3>1. CASE CheckSSO(r)
        <4>1. CASE authenticateSSO(r) = "ok"
          BY <1>0, <2>2, <3>1, <4>1 DEF CheckSSO, Goto, Respond
        <4>2. CASE authenticateSSO(r) # "ok"
          <5>1. out'[q] = authenticateSSO(r)
            BY <1>0, <2>2, <3>1, <4>2 DEF CheckSSO, Respond
          <5> QED  BY <4>2, <5>1 DEF authenticateSSO
        <4> QED  BY <4>1, <4>2
      <3>2. CASE RecheckSSO(r)
        <4>1. CASE authenticateSSO(r) = "ok"
          BY <1>0, <2>2, <3>2, <4>1 DEF RecheckSSO, Goto
        <4>2. CASE authenticateSSO(r) # "ok"
          <5>1. out'[q] = Reply(r, authenticateSSO(r))
            BY <1>0, <2>2, <3>2, <4>2 DEF RecheckSSO, Respond
          <5> QED  BY <4>2, <5>1 DEF authenticateSSO, Reply, rejectAuthCallback
        <4> QED  BY <4>1, <4>2
      <3>3. CASE LockUser(r) \/ CheckConsumed(r)
        <4>1. out'[q] = Reply(r, "reauth_required") \/ pc'[q] \in {"check", "insert"}
          BY <1>0, <2>2, <3>3 DEF LockUser, CheckConsumed, Goto, Respond
        <4> QED  BY <4>1 DEF Reply, rejectAuthCallback
      <3>4. CASE UserReadFails(r)
        <4>1. out'[q] = Reply(r, "error")
          BY <1>0, <2>2, <3>4 DEF UserReadFails, Respond
        <4> QED  BY <4>1 DEF Reply, rejectAuthCallback
      <3>5. CASE TouchAuthSession(r)
        <4>1. TouchOutcome(row[in[q].local], uid[q]) = "active" => row[in[q].local].user = uid[q]
          BY DEF TouchOutcome, Touchable
        <4>2. TouchOutcome(row[in[q].local], uid[q]) # "active" =>
                 TouchOutcome(row[in[q].local], uid[q]) \in {"idle", "absolute"}
          BY OutcomeType
        <4> QED  BY <1>0, <2>2, <3>5, <4>1, <4>2 DEF TouchAuthSession, Goto, Respond
      <3>6. CASE GetAuthSessionStatus(r)
        <4>1. StatusOutcome(row[in[q].local], uid[q]) = "ok" => row[in[q].local].user = uid[q]
          BY DEF StatusOutcome
        <4>2. StatusOutcome(row[in[q].local], uid[q]) \in {"ok", "idle", "absolute"}
          BY OutcomeType
        <4>3. out'[q] = StatusOutcome(row[in[q].local], uid[q]) /\ in' = in /\ row' = row
              /\ now' = now /\ pc[q] \in {"status", "mestatus"}
          BY <1>0, <2>2, <3>6 DEF GetAuthSessionStatus, Respond
        <4> QED  BY <4>1, <4>2, <4>3
      <3>7. CASE RevokeAuthSession(r)
        <4>1. out'[q] = Reply(r, out[r]) /\ in' = in /\ pc[q] = "revoke"
          BY <1>0, <2>2, <3>7 DEF RevokeAuthSession, Respond
        <4> QED  BY <2>2, <4>1 DEF Reply, rejectAuthCallback
      <3>8. CASE Logout(r)
        BY <1>0, <2>2, <3>8 DEF Logout, Respond
      <3>9. CASE SessionStoreFails(r) \/ CreateFails(r) \/ \E t \in Tokens : InsertSession(r, t)
        BY <1>0, <2>2, <3>9 DEF SessionStoreFails, CreateFails, InsertSession, Respond
      <3>10. CASE Deliver(r) \/ Drop(r)
        BY <1>0, <2>2, <3>10 DEF Deliver, Drop, Finish
      <3> QED  BY <1>1, <3>1, <3>2, <3>3, <3>4, <3>5, <3>6, <3>7, <3>8, <3>9, <3>10
                  DEF Handle, Fail
    <2> QED  BY <2>1, <2>2
  <1>2. ASSUME NEW r \in Reqs, NEW b \in Browsers, NEW k \in Kinds, Send(r, b, k) PROVE Goal
    BY <1>0, <1>2 DEF Send
  <1>3. CASE Tick \/ (\E b \in Browsers, c \in Creds : GatewaySignIn(b, c))
             \/ (\E b \in Browsers : AttemptExpires(b)) \/ (\E u \in Users : SetEnabled(u))
             \/ UNCHANGED vars
    BY <1>3 DEF Tick, GatewaySignIn, AttemptExpires, SetEnabled, vars
  <1> QED  BY <1>1, <1>2, <1>3 DEF Next

\* What the store answers is true of the row it read.
LEMMA OutcomeTrue ==
  ASSUME NEW s \in Session, NEW u \in Users, now \in Nat, s.user = u, s.revoked = "none"
  PROVE  /\ TouchOutcome(s, u) \in {"idle", "absolute"} => ReasonHolds(s, TouchOutcome(s, u))
         /\ StatusOutcome(s, u) \in {"idle", "absolute"} => ReasonHolds(s, StatusOutcome(s, u))
  <1>1. s.expires \in Nat /\ s.last \in Nat /\ s.created \in Nat
    BY DEF Session
  <1>2. TouchOutcome(s, u) \in {"idle", "absolute"} => ReasonHolds(s, TouchOutcome(s, u))
    BY <1>1, SessionAssumption DEF TouchOutcome, Touchable, ReasonHolds, Earlier
  <1>3. StatusOutcome(s, u) \in {"idle", "absolute"} => ReasonHolds(s, StatusOutcome(s, u))
    BY <1>1, SessionAssumption DEF StatusOutcome, ReasonHolds, Earlier
  <1> QED  BY <1>2, <1>3

\* Once true of an unrevoked row, a reason stays true until the row is revoked: no
\* touch revives the row and no login reuses it.
LEMMA ReasonStays ==
  ASSUME SessionInv, [Next]_vars, NEW t \in Tokens, NEW code \in {"idle", "absolute"},
         row[t].user # None, row'[t].revoked = "none",
         row[t].revoked = "none" => ReasonHolds(row[t], code)
  PROVE  ReasonHolds(row[t], code)' /\ row'[t] = row[t]
  <1>0. row[t] \in Session /\ now \in Nat /\ now' \in Nat /\ now <= now'
    BY ClockStep DEF SessionInv, LoginInv, TypeOK
  <1>1. CASE row'[t] = row[t]
    <2>1. Earlier(row[t].expires, row[t].last + IdleTimeout) \in Nat
          /\ row[t].created + AbsTimeout \in Nat
      BY <1>0, SessionAssumption DEF Session, Earlier
    <2> QED  BY <1>0, <1>1, <2>1 DEF ReasonHolds
  <1>2. ASSUME NEW u \in Users, Touchable(row[t], u) PROVE FALSE
    BY <1>0, <1>2, SessionAssumption DEF Touchable, ReasonHolds, Earlier, Session
  <1>3. ASSUME NEW r \in Reqs, row'[t] = Revoked(row[t], uid[r], RevokeReason(out[r]))
        PROVE  row'[t] = row[t]
    BY <1>3 DEF Revoked, RevokeReason
  <1>4. LoginInv
    BY DEF SessionInv
  <1> QED  BY <1>1, <1>2, <1>3, <1>4, OneRow

\* A request that has been answered, or is about to revoke, is right about its session.
LEMMA AnswersStep == ASSUME SessionInv, [Next]_vars PROVE Verdict' /\ Accepted'
  <1>0. TypeOK /\ LoginInv /\ UserRead /\ LocalSent /\ CookiesKnown /\ now \in Nat
    BY DEF SessionInv, LoginInv, TypeOK
  <1>1. ASSUME NEW q \in Reqs, pc[q] \in {"touch", "status", "mestatus"}
        PROVE  /\ in[q].local \in Tokens /\ in[q].sso \in Creds
               /\ uid[q] = CredUser[in[q].sso] /\ uid[q] \in Users
               /\ row[in[q].local].user # None /\ row[in[q].local] \in Session
    <2>1. in[q].local \in Tokens
      BY <1>0, <1>1 DEF LocalSent, TypeOK, Request
    <2>2. in[q].sso \in Creds /\ uid[q] = CredUser[in[q].sso]
      BY <1>0, <1>1 DEF UserRead, KnowsUser
    <2> QED  BY <1>0, <2>1, <2>2, SessionAssumption DEF CookiesKnown, TypeOK
  <1>2. ASSUME NEW q \in Reqs, pc'[q] \in {"revoke", "respond"}, out'[q] \in {"idle", "absolute"}
        PROVE  /\ in'[q].local \in Tokens /\ in'[q].sso \in Creds
               /\ row'[in'[q].local].user = CredUser[in'[q].sso]
                    /\ row'[in'[q].local].revoked = "none"
                  => ReasonHolds(row[in[q].local], out[q])'
    <2> DEFINE t == in[q].local
    <2>1. in'[q] = in[q]
      BY <1>2, AnswerReached
    <2>2. CASE pc[q] \in {"revoke", "respond"} /\ out'[q] = out[q]
      <3>1. /\ t \in Tokens /\ in[q].sso \in Creds
            /\ row[t].user = CredUser[in[q].sso] /\ row[t].revoked = "none"
               => ReasonHolds(row[t], out'[q])
        BY <1>2, <2>2 DEF SessionInv, Verdict
      <3>2. row[t].user # None
        BY <1>0, <3>1, SessionAssumption DEF CookiesKnown
      <3>3. row'[t].user = row[t].user
        BY <1>0, <3>1, <3>2, OwnerStays
      <3>4. ASSUME row'[t].user = CredUser[in[q].sso], row'[t].revoked = "none"
            PROVE  ReasonHolds(row[in[q].local], out[q])'
        BY <1>2, <2>1, <3>1, <3>2, <3>3, <3>4, ReasonStays
      <3> QED  BY <2>1, <3>1, <3>4
    <2>3. CASE /\ pc[q] \in {"touch", "status", "mestatus"} /\ now' = now /\ UNCHANGED row
               /\ \/ out'[q] = TouchOutcome(row[in[q].local], uid[q])
                  \/ out'[q] = StatusOutcome(row[in[q].local], uid[q])
      <3>1. /\ t \in Tokens /\ in[q].sso \in Creds /\ uid[q] = CredUser[in[q].sso]
            /\ uid[q] \in Users /\ row[t] \in Session
        BY <1>1, <2>3
      <3>2. row[t].user = uid[q] /\ row[t].revoked = "none" => ReasonHolds(row[t], out'[q])
        BY <1>0, <1>2, <2>3, <3>1, OutcomeTrue
      <3>3. ReasonHolds(row[t], out'[q]) => ReasonHolds(row[in[q].local], out[q])'
        BY <2>1, <2>3 DEF ReasonHolds
      <3> QED  BY <2>1, <2>3, <3>1, <3>2, <3>3
    <2> QED  BY <1>2, <2>2, <2>3, AnswerReached
  <1>3. ASSUME NEW q \in Reqs, pc'[q] \in {"revoke", "respond"}, out'[q] \in {"ok", "signed_in"}
        PROVE  /\ in'[q].local \in Tokens /\ in'[q].sso \in Creds
               /\ row'[in'[q].local].user = CredUser[in'[q].sso]
    <2> DEFINE t == in[q].local
    <2>1. in'[q] = in[q]
      BY <1>3, AnswerReached
    <2>2. t \in Tokens /\ in[q].sso \in Creds /\ row[t].user = CredUser[in[q].sso]
      <3>1. CASE pc[q] \in {"revoke", "respond"} /\ out'[q] = out[q]
        BY <1>3, <3>1 DEF SessionInv, Accepted
      <3>2. CASE pc[q] \in {"touch", "status", "mestatus"} /\ row[t].user = uid[q]
        BY <1>1, <3>2
      <3> QED  BY <1>3, <3>1, <3>2, AnswerReached
    <2>3. row[t].user # None
      BY <1>0, <2>2, SessionAssumption DEF CookiesKnown
    <2> QED  BY <1>0, <2>1, <2>2, <2>3, OwnerStays
  <1>4. Verdict'
    BY <1>2 DEF Verdict
  <1>5. Accepted'
    BY <1>3 DEF Accepted
  <1> QED  BY <1>4, <1>5

\* The initial states satisfy the session invariant.
LEMMA SessionInit == Init => SessionInv
  <1> SUFFICES ASSUME Init PROVE SessionInv
    OBVIOUS
  <1>1. LoginInv
    BY TypeInit DEF Init, LoginInv, UserRead, KnowsUser, LockHeld, NotYetConsumed,
       CredentialConsumedOnce, NoSession
  <1>2. RowShape /\ RevokedReasonTrue
    BY DEF Init, RowShape, RevokedReasonTrue, NoSession
  <1>3. CookiesKnown
    BY DEF Init, CookiesKnown, NoCookies
  <1>4. LocalSent /\ EnabledHeld /\ Verdict /\ Accepted
    BY DEF Init, LocalSent, EnabledHeld, Verdict, Accepted
  <1> QED  BY <1>1, <1>2, <1>3, <1>4 DEF SessionInv

\* The session invariant is inductive.
THEOREM SessionInductive == Spec => []SessionInv
  <1>1. SessionInv /\ [Next]_vars => SessionInv'
    <2> SUFFICES ASSUME SessionInv, [Next]_vars PROVE SessionInv'
      OBVIOUS
    <2>1. LoginInv'
      BY LoginStep DEF SessionInv
    <2> QED  BY <2>1, RowShapeStep, ReasonStep, CookiesStep, LocalSentStep, EnabledStep,
                AnswersStep DEF SessionInv
  <1> QED  BY SessionInit, <1>1, PTL DEF Spec

\* Only requests that authGate accepted keep a session in force: neither the status
\* poll nor a request of another user extends it.
THEOREM OnlyUseKeepsAlive == Spec => []LiveMeansRecentlyUsed
  <1>1. SessionInv => LiveMeansRecentlyUsed
    BY DEF SessionInv, RowShape, LiveMeansRecentlyUsed, Live
  <1> QED  BY SessionInductive, <1>1, PTL

\* The reason in revoke_reason is true of the row, although another request may
\* touch or revoke the session between the decision and RevokeAuthSession.
THEOREM ReasonsTrue == Spec => []RevokedReasonTrue
  <1>1. SessionInv => RevokedReasonTrue
    BY DEF SessionInv
  <1> QED  BY SessionInductive, <1>1, PTL

\* An accepted request belongs to the owner of its session, and nobody is told of
\* a timeout while the session is in force.
THEOREM AnswersRight == Spec => []AnswersMatchSession
  <1>1. SessionInv => AnswersMatchSession
    <2> SUFFICES ASSUME SessionInv, NEW r \in Reqs, pc[r] = "respond"
                 PROVE  /\ out[r] \in {"ok", "signed_in"} =>
                             row[in[r].local].user = CredUser[in[r].sso]
                        /\ out[r] \in {"idle", "absolute"} =>
                             ~Live(in[r].local) \/ row[in[r].local].user # CredUser[in[r].sso]
      BY DEF AnswersMatchSession
    <2>1. out[r] \in {"ok", "signed_in"} => row[in[r].local].user = CredUser[in[r].sso]
      BY DEF SessionInv, Accepted
    <2>2. ASSUME out[r] \in {"idle", "absolute"}, Live(in[r].local),
                 row[in[r].local].user = CredUser[in[r].sso]
          PROVE  FALSE
      <3>1. in[r].local \in Tokens /\ ReasonHolds(row[in[r].local], out[r])
        BY <2>2 DEF SessionInv, Verdict, Live
      <3>2. row[in[r].local] \in Session /\ now \in Nat
        BY <3>1 DEF SessionInv, LoginInv, TypeOK
      <3> QED  BY <2>2, <3>1, <3>2, SessionAssumption DEF ReasonHolds, Live, Earlier, Session
    <2> QED  BY <2>1, <2>2
  <1> QED  BY SessionInductive, <1>1, PTL

\* memoryAuthSessionStore and MySQLStore answer alike on every row that the handlers
\* can produce, although they test the deadlines in a different order.
THEOREM StoresAlike == Spec => []StoresAgree
  <1>1. SessionInv => StoresAgree
    <2> SUFFICES ASSUME SessionInv, NEW t \in Tokens, NEW u \in Users
                 PROVE  /\ MemTouchOutcome(row[t], u) = TouchOutcome(row[t], u)
                        /\ TouchOutcome(row[t], u) = "active" => MemTouched(row[t]) = Touched(row[t])
                        /\ \/ MemStatusOutcome(row[t], u) = StatusOutcome(row[t], u)
                           \/ row[t].revoked # "none" /\ now >= row[t].created + AbsTimeout
      BY DEF StoresAgree
    <2>0. row[t] \in Session /\ now \in Nat
      BY DEF SessionInv, LoginInv, TypeOK
    <2>1. row[t].last \in Nat /\ row[t].expires \in Nat /\ row[t].created \in Nat
      BY <2>0 DEF Session
    <2>2. MemTouchOutcome(row[t], u) = TouchOutcome(row[t], u)
      BY <2>0, <2>1, SessionAssumption DEF MemTouchOutcome, TouchOutcome, Touchable
    <2>3. ASSUME TouchOutcome(row[t], u) = "active" PROVE MemTouched(row[t]) = Touched(row[t])
      <3>1. row[t].user = u /\ u # None
        BY <2>3, SessionAssumption DEF TouchOutcome, Touchable
      <3>2. /\ row[t].expires = Earlier(row[t].created + AbsTimeout, row[t].last + IdleTimeout)
            /\ row[t].last <= now
        BY <3>1 DEF SessionInv, RowShape
      <3>3. Later(row[t].last, now) = now
        BY <2>0, <2>1, <3>2 DEF Later
      <3>4. CASE now > row[t].last
        <4>1. Earlier(row[t].created + AbsTimeout, now + IdleTimeout)
                = IF now + IdleTimeout > row[t].created + AbsTimeout
                  THEN row[t].created + AbsTimeout ELSE now + IdleTimeout
          BY <2>0, <2>1, SessionAssumption DEF Earlier
        <4> QED  BY <3>3, <3>4, <4>1 DEF MemTouched, Touched
      <3>5. CASE now = row[t].last
        <4>1. Touched(row[t]) = row[t]
          BY <2>0, <3>2, <3>3, <3>5 DEF Touched, Session
        <4> QED  BY <2>0, <2>1, <3>5, <4>1 DEF MemTouched
      <3> QED  BY <2>0, <2>1, <3>2, <3>4, <3>5
    <2>4. \/ MemStatusOutcome(row[t], u) = StatusOutcome(row[t], u)
          \/ row[t].revoked # "none" /\ now >= row[t].created + AbsTimeout
      BY <2>0, <2>1, SessionAssumption DEF MemStatusOutcome, StatusOutcome, Earlier
    <2> QED  BY <2>2, <2>3, <2>4
  <1> QED  BY SessionInductive, <1>1, PTL

\* No session is created for a user whom an administrator has disabled, however
\* updateAuthUser and the two statements of CreateAuthSession interleave.
THEOREM CreatedWhileEnabled == Spec => CreatedOnlyWhileEnabled
  <1> DEFINE Admitted == \A t \in Tokens :
          row[t].user = None /\ row'[t].user # None => enabled[row'[t].user]
  <1>1. SessionInv /\ [Next]_vars => [Admitted]_vars
    <2> SUFFICES ASSUME SessionInv, [Next]_vars, NEW t \in Tokens, row[t].user = None,
                        row'[t].user # None
                 PROVE  enabled[row'[t].user]
      OBVIOUS
    <2>1. Touched(row[t]).user = row[t].user /\ \A u, why : Revoked(row[t], u, why).user = row[t].user
      BY DEF Touched, Revoked
    <2>2. PICK r \in Reqs : pc[r] = "insert" /\ row'[t] = NewSession(uid[r], in[r].sso)
      BY <2>1, OneRow DEF SessionInv
    <2>3. row'[t].user = uid[r]
      BY <2>2 DEF NewSession
    <2> QED  BY <2>2, <2>3 DEF SessionInv, EnabledHeld
  <1> QED  BY SessionInductive, <1>1, PTL DEF Spec, CreatedOnlyWhileEnabled

-----------------------------------------------------------------------------
(* User administration, for any number of accounts, institutions and       *)
(* administrators, any forms and both stores.  The inductive invariant     *)
(* says what the transaction may rely on between its first locking         *)
(* statement and its commit: the lock, and through it that the account is  *)
(* still the one whose revision was compared.                              *)

\* What a's transaction relies on after Begin.
TxInv(a) ==
    tab[a] = "write" =>
        /\ store = "mysql"
        /\ rowLock[target[a]] = a
        /\ creating[a] # acct[target[a]].exists
        /\ ~creating[a] => form[a] = RevisionOf(target[a])

\* An account that does not exist has no scopes.
NoOrphans == \A u \in Accounts : ~acct[u].exists => scopes[u] = {}

\* The steps in which a's save has had no effect, and the one in which it has.
Unapplied == {"idle", "listing", "editing", "begin", "write", "fail", "conflict"}
OutcomeInv(a) ==
    /\ tab[a] \in Unapplied => ~applied[a]
    /\ store = "mysql" => tab[a] # "memaudit" /\ (tab[a] = "error" => ~applied[a])
    /\ tab[a] \in {"saved", "memaudit"} => applied[a]

UsersInv ==
    /\ UsersTypeOK
    /\ NoOrphans
    /\ \A a \in Admins : TxInv(a) /\ OutcomeInv(a)
    /\ AuditReplaysTable

\* The actions of one administrator.
Act(a) ==
    \/ \E u \in Accounts : ListUsers(a, u)
    \/ \E m \in Forms : SubmitUpdate(a, m)
    \/ \E u \in Accounts, m \in Forms : SubmitCreate(a, u, m)
    \/ ListScopes(a) \/ Begin(a) \/ Write(a) \/ TxFails(a)
    \/ RecordFailure(a) \/ MemSave(a) \/ MemAudit(a) \/ Return(a)

\* Next is the CRM or one administrator's action.
LEMMA NextSplit ==
    UsersNext => UNCHANGED store /\ ((\E i \in Insts : CRMChange(i)) \/ \E a \in Admins : Act(a))
BY DEF UsersNext, Step, Act

\* The blank form and input have their types.
LEMMA BlankTypes == AnyUser \in Accounts /\ BlankForm \in Revision /\ BlankInput \in Mutation
<1>1. AnyUser \in Accounts
  BY UserAssumption DEF AnyUser
<1>2. BlankForm \in Revision /\ BlankInput \in Mutation
  BY DEF BlankForm, BlankInput, Revision, Mutation, Roles
<1> QED BY <1>1, <1>2

\* The rows and the events that a save writes have their types.
LEMMA SaveTypes ==
    ASSUME UsersTypeOK, NEW a \in Admins
    PROVE  /\ NewRows(a) \in SUBSET Scope
           /\ \A rows \in SUBSET Scope : Named(rows) \in SUBSET Insts
           /\ EventOf(a) \in Event
           /\ \A result \in {"success", "failed"} : RequestEvent(a, result) \in Event
<1>0. input[a] \in Mutation /\ target[a] \in Accounts /\ scopes[target[a]] \in SUBSET Scope
  BY DEF UsersTypeOK
<1>1. NewRows(a) \in SUBSET Scope
  <2>1. \A i \in input[a].ids : [kind |-> "crm", inst |-> i] \in Scope
    BY <1>0 DEF Mutation, Scope
  <2> QED BY <1>0, <2>1 DEF NewRows
<1>2. \A rows \in SUBSET Scope : Named(rows) \in SUBSET Insts
  BY DEF Named, Scope
<1>3. EventOf(a) \in Event
  <2>1. Named(NewRows(a)) \in SUBSET Insts /\ Named(scopes[target[a]]) \in SUBSET Insts
    BY <1>0, <1>1, <1>2
  <2> QED BY <1>0, <2>1 DEF EventOf, Event, Mutation
<1>4. \A result \in {"success", "failed"} : RequestEvent(a, result) \in Event
  BY <1>0 DEF RequestEvent, Event, Mutation
<1> QED BY <1>1, <1>2, <1>3, <1>4

\* The initial states satisfy the invariant.
LEMMA InitInv == UsersInit => UsersInv
<1> SUFFICES ASSUME UsersInit PROVE UsersInv
  OBVIOUS
<1>1. UsersTypeOK
  <2>1. [exists : BOOLEAN, role : {"viewer"}, enabled : {TRUE}]
          \subseteq [exists : BOOLEAN, role : Roles, enabled : BOOLEAN]
    BY DEF Roles
  <2>2. acct \in [Accounts -> [exists : BOOLEAN, role : Roles, enabled : BOOLEAN]]
    BY <2>1 DEF UsersInit
  <2>3. audit \in Seq(Event)
    BY DEF UsersInit
  <2> QED BY <2>2, <2>3, BlankTypes DEF UsersInit, UsersTypeOK, TabSteps
<1>2. NoOrphans /\ AuditReplaysTable
  BY DEF UsersInit, NoOrphans, AuditReplaysTable
<1>3. \A a \in Admins : TxInv(a) /\ OutcomeInv(a)
  BY DEF UsersInit, TxInv, OutcomeInv
<1> QED BY <1>1, <1>2, <1>3 DEF UsersInv

\* Apply keeps the types.
LEMMA ApplyType ==
    ASSUME UsersTypeOK, NEW a \in Admins, Apply(a)
    PROVE  /\ acct' \in [Accounts -> [exists : BOOLEAN, role : Roles, enabled : BOOLEAN]]
           /\ scopes' \in [Accounts -> SUBSET Scope]
           /\ applied' \in [Admins -> BOOLEAN]
<1>1. [exists |-> TRUE, role |-> input[a].role, enabled |-> input[a].enabled]
        \in [exists : BOOLEAN, role : Roles, enabled : BOOLEAN]
  BY DEF UsersTypeOK, Mutation
<1>2. NewRows(a) \in SUBSET Scope
  BY SaveTypes
<1> QED BY <1>1, <1>2 DEF Apply, UsersTypeOK

\* Every action keeps the types.
LEMMA UsersTypeStep == ASSUME UsersTypeOK, [UsersNext]_userVars PROVE UsersTypeOK'
<1>0. store' \in Backends
  BY DEF UsersTypeOK, UsersNext, userVars
<1>1. CASE UNCHANGED userVars
  BY <1>1 DEF UsersTypeOK, userVars
<1>2. ASSUME NEW i \in Insts, CRMChange(i) PROVE UsersTypeOK'
  BY <1>0, <1>2 DEF CRMChange, UsersTypeOK
<1>3. ASSUME NEW a \in Admins, Act(a) PROVE UsersTypeOK'
  <2>1. ASSUME NEW u \in Accounts, ListUsers(a, u) PROVE UsersTypeOK'
    <3>1. [role |-> acct[u].role, enabled |-> acct[u].enabled, rows |-> {}] \in Revision
      BY DEF UsersTypeOK, Revision
    <3> QED BY <1>0, <2>1, <3>1 DEF ListUsers, TabTo, UsersTypeOK, TabSteps
  <2>2. ASSUME NEW m \in Forms, SubmitUpdate(a, m) PROVE UsersTypeOK'
    BY <1>0, <2>2, UserAssumption DEF SubmitUpdate, TabTo, UsersTypeOK, TabSteps
  <2>3. ASSUME NEW u \in Accounts, NEW m \in Forms, SubmitCreate(a, u, m) PROVE UsersTypeOK'
    BY <1>0, <2>3, UserAssumption DEF SubmitCreate, TabTo, UsersTypeOK, TabSteps
  <2>4. CASE ListScopes(a)
    <3>1. [role |-> form[a].role, enabled |-> form[a].enabled, rows |-> scopes[target[a]]]
            \in Revision
      BY DEF UsersTypeOK, Revision
    <3>2. form' \in [Admins -> Revision]
      BY <2>4, <3>1, BlankTypes DEF ListScopes, UsersTypeOK
    <3>3. tab' \in [Admins -> TabSteps]
      BY <2>4 DEF ListScopes, TabTo, UsersTypeOK, TabSteps
    <3> QED BY <1>0, <2>4, <3>2, <3>3 DEF ListScopes, UsersTypeOK
  <2>5. CASE Begin(a)
    <3>1. Candidates \in SUBSET Insts
      BY DEF Candidates
    <3> QED BY <1>0, <2>5, <3>1 DEF Begin, TabTo, UsersTypeOK, TabSteps
  <2>6. CASE Write(a)
    <3>1. tab' \in [Admins -> TabSteps] /\ rowLock' \in [Accounts -> Admins \cup {Nobody}]
      BY <2>6 DEF Write, TabTo, UsersTypeOK, TabSteps
    <3>2. CASE UNCHANGED <<acct, scopes, applied, audit>>
      BY <1>0, <2>6, <3>1, <3>2 DEF Write, UsersTypeOK
    <3>3. CASE Apply(a) /\ audit' = Append(audit, EventOf(a))
      <4>1. audit' \in Seq(Event)
        BY <3>3, SaveTypes DEF UsersTypeOK
      <4> QED BY <1>0, <2>6, <3>1, <3>3, <4>1, ApplyType DEF Write, UsersTypeOK
    <3> QED BY <2>6, <3>2, <3>3 DEF Write
  <2>7. CASE TxFails(a)
    BY <1>0, <2>7 DEF TxFails, TabTo, UsersTypeOK, TabSteps
  <2>8. CASE RecordFailure(a)
    <3>1. audit' \in Seq(Event)
      <4>1. RequestEvent(a, "failed") \in Event /\ audit \in Seq(Event)
        BY SaveTypes DEF UsersTypeOK
      <4>2. Append(audit, RequestEvent(a, "failed")) \in Seq(Event)
        BY <4>1
      <4> QED BY <2>8, <4>1, <4>2 DEF RecordFailure
    <3> QED BY <1>0, <2>8, <3>1 DEF RecordFailure, TabTo, UsersTypeOK, TabSteps
  <2>9. CASE MemSave(a)
    <3>1. tab' \in [Admins -> TabSteps]
      BY <2>9 DEF MemSave, TabTo, UsersTypeOK, TabSteps
    <3> QED BY <1>0, <2>9, <3>1, ApplyType DEF MemSave, UsersTypeOK
  <2>10. CASE MemAudit(a)
    <3>1. audit' \in Seq(Event)
      BY <2>10, SaveTypes DEF MemAudit, UsersTypeOK
    <3> QED BY <1>0, <2>10, <3>1 DEF MemAudit, TabTo, UsersTypeOK, TabSteps
  <2>11. CASE Return(a)
    BY <1>0, <2>11, BlankTypes DEF Return, TabTo, UsersTypeOK, TabSteps
  <2> QED BY <1>3, <2>1, <2>2, <2>3, <2>4, <2>5, <2>6, <2>7, <2>8, <2>9, <2>10, <2>11 DEF Act
<1> QED BY <1>1, <1>2, <1>3, NextSplit

\* An action that leaves a transaction of another tab, its lock and its account
\* alone keeps what that transaction relies on.
LEMMA Undisturbed ==
    ASSUME UsersInv, NEW a \in Admins, TxInv(a), UNCHANGED store,
           tab'[a] = tab[a], target'[a] = target[a], creating'[a] = creating[a], form'[a] = form[a],
           tab[a] = "write" => /\ rowLock'[target[a]] = rowLock[target[a]]
                               /\ acct'[target[a]] = acct[target[a]]
                               /\ scopes'[target[a]] = scopes[target[a]]
    PROVE  TxInv(a)'
BY DEF TxInv, RevisionOf

\* Locks protect every open transaction from every other tab.
LEMMA TxStep == ASSUME UsersInv, [UsersNext]_userVars PROVE \A a \in Admins : TxInv(a)'
<1> SUFFICES ASSUME NEW a \in Admins PROVE TxInv(a)'
  OBVIOUS
<1>0. UsersTypeOK /\ TxInv(a)
  BY DEF UsersInv
<1>1. CASE UNCHANGED userVars
  BY <1>0, <1>1, Undisturbed DEF userVars
<1>2. ASSUME NEW i \in Insts, CRMChange(i), UNCHANGED store PROVE TxInv(a)'
  BY <1>0, <1>2, Undisturbed DEF CRMChange
<1>3. ASSUME NEW b \in Admins, Act(b), UNCHANGED store PROVE TxInv(a)'
  <2>1. CASE a = b
    <3>1. CASE Begin(b)
      <4>1. CASE tab'[a] = "write"
        <5>1. /\ store = "mysql" /\ rowLock' = [rowLock EXCEPT ![target[a]] = a]
              /\ creating[a] # acct[target[a]].exists
              /\ ~creating[a] => form[a] = RevisionOf(target[a])
              /\ UNCHANGED <<acct, scopes, target, creating, form>>
          BY <1>0, <2>1, <3>1, <4>1 DEF Begin, TabTo, UsersTypeOK
        <5>2. rowLock'[target[a]] = a
          BY <1>0, <5>1 DEF UsersTypeOK
        <5> QED BY <1>3, <5>1, <5>2 DEF TxInv, RevisionOf
      <4> QED BY <4>1 DEF TxInv
    <3>2. CASE ~Begin(b)
      <4>1. tab'[a] # "write"
        BY <1>0, <1>3, <2>1, <3>2 DEF Act, ListUsers, SubmitUpdate, SubmitCreate, ListScopes,
           Write, TxFails, RecordFailure, MemSave, MemAudit, Return, TabTo, UsersTypeOK
      <4> QED BY <4>1 DEF TxInv
    <3> QED BY <3>1, <3>2
  <2>2. CASE a # b
    <3>0. /\ tab'[a] = tab[a] /\ target'[a] = target[a] /\ creating'[a] = creating[a]
          /\ form'[a] = form[a]
      <4>1. CASE Begin(b) \/ Write(b) \/ TxFails(b) \/ RecordFailure(b) \/ MemSave(b) \/ MemAudit(b)
        BY <1>0, <2>2, <4>1 DEF Begin, Write, TxFails, RecordFailure, MemSave, MemAudit, TabTo, UsersTypeOK
      <4>2. CASE ~(Begin(b) \/ Write(b) \/ TxFails(b) \/ RecordFailure(b) \/ MemSave(b) \/ MemAudit(b))
        BY <1>0, <1>3, <2>2, <4>2 DEF Act, ListUsers, SubmitUpdate, SubmitCreate, ListScopes,
           Return, TabTo, UsersTypeOK
      <4> QED BY <4>1, <4>2
    <3> SUFFICES ASSUME tab[a] = "write"
                 PROVE  /\ rowLock'[target[a]] = rowLock[target[a]]
                        /\ acct'[target[a]] = acct[target[a]]
                        /\ scopes'[target[a]] = scopes[target[a]]
      BY <1>0, <1>3, <3>0, Undisturbed
    <3>1. rowLock[target[a]] = a /\ store = "mysql" /\ target[a] \in Accounts
      BY <1>0 DEF TxInv, UsersTypeOK
    <3>2. CASE Begin(b)
      <4>1. target[b] # target[a]
        BY <3>1, <3>2, UserAssumption DEF Begin
      <4> QED BY <1>0, <3>2, <4>1 DEF Begin, UsersTypeOK
    <3>3. CASE Write(b)
      <4>1. rowLock[target[b]] = b
        BY <3>3 DEF Write, UsersInv, TxInv
      <4>2. target[b] # target[a]
        BY <2>2, <3>1, <4>1
      <4> QED BY <1>0, <3>3, <4>2 DEF Write, Apply, UsersTypeOK
    <3>4. CASE TxFails(b)
      BY <1>0, <2>2, <3>1, <3>4 DEF TxFails, UsersTypeOK
    <3>5. CASE MemSave(b)
      BY <3>1, <3>5 DEF MemSave
    <3>6. CASE ~(Begin(b) \/ Write(b) \/ TxFails(b) \/ MemSave(b))
      BY <1>3, <3>6 DEF Act, ListUsers, SubmitUpdate, SubmitCreate, ListScopes,
         RecordFailure, MemAudit, Return
    <3> QED BY <3>2, <3>3, <3>4, <3>5, <3>6
  <2> QED BY <2>1, <2>2
<1> QED BY <1>1, <1>2, <1>3, NextSplit

\* Whoever changes an account or its scopes has applied a save.
LEMMA AccountStep ==
    ASSUME UsersTypeOK, [UsersNext]_userVars
    PROVE  \/ UNCHANGED <<acct, scopes>>
           \/ \E a \in Admins : (Write(a) \/ MemSave(a)) /\ Apply(a)
<1>1. CASE UNCHANGED userVars
  BY <1>1 DEF userVars
<1>2. ASSUME NEW i \in Insts, CRMChange(i) PROVE UNCHANGED <<acct, scopes>>
  BY <1>2 DEF CRMChange
<1>3. ASSUME NEW a \in Admins, Act(a)
      PROVE  UNCHANGED <<acct, scopes>> \/ ((Write(a) \/ MemSave(a)) /\ Apply(a))
  <2>1. CASE Write(a)
    BY <2>1 DEF Write
  <2>2. CASE MemSave(a)
    BY <2>2 DEF MemSave
  <2> QED BY <1>3, <2>1, <2>2 DEF Act, ListUsers, SubmitUpdate, SubmitCreate, ListScopes,
             Begin, TxFails, RecordFailure, MemAudit, Return
<1> QED BY <1>1, <1>2, <1>3, NextSplit

\* A saved account exists; no other account changes.
LEMMA OrphansStep == ASSUME UsersInv, [UsersNext]_userVars PROVE NoOrphans'
<1>0. UsersTypeOK /\ NoOrphans
  BY DEF UsersInv
<1>1. CASE UNCHANGED <<acct, scopes>>
  BY <1>0, <1>1 DEF NoOrphans
<1>2. ASSUME NEW a \in Admins, Apply(a) PROVE NoOrphans'
  <2>1. target[a] \in Accounts /\ acct'[target[a]].exists = TRUE
    BY <1>0, <1>2 DEF Apply, UsersTypeOK
  <2>2. \A u \in Accounts \ {target[a]} : acct'[u] = acct[u] /\ scopes'[u] = scopes[u]
    BY <1>0, <1>2 DEF Apply, UsersTypeOK
  <2> QED BY <1>0, <2>1, <2>2 DEF NoOrphans
<1> QED BY <1>0, <1>1, <1>2, AccountStep

\* Answers keep telling whether the save took effect.
LEMMA OutcomeStep == ASSUME UsersInv, [UsersNext]_userVars PROVE \A a \in Admins : OutcomeInv(a)'
<1> SUFFICES ASSUME NEW a \in Admins PROVE OutcomeInv(a)'
  OBVIOUS
<1>0. UsersTypeOK /\ OutcomeInv(a) /\ TxInv(a)
  BY DEF UsersInv
<1>1. ASSUME UNCHANGED store, tab'[a] = tab[a], applied'[a] = applied[a] PROVE OutcomeInv(a)'
  BY <1>0, <1>1 DEF OutcomeInv
<1>2. CASE UNCHANGED userVars
  BY <1>1, <1>2 DEF userVars
<1>3. ASSUME NEW i \in Insts, CRMChange(i), UNCHANGED store PROVE OutcomeInv(a)'
  BY <1>1, <1>3 DEF CRMChange
<1>4. ASSUME NEW b \in Admins, Act(b), UNCHANGED store PROVE OutcomeInv(a)'
  <2>1. CASE a # b
    <3>1. tab'[a] = tab[a] /\ applied'[a] = applied[a]
      <4>1. CASE Begin(b) \/ Write(b) \/ TxFails(b) \/ RecordFailure(b) \/ MemSave(b) \/ MemAudit(b)
        BY <1>0, <2>1, <4>1 DEF Begin, Write, TxFails, RecordFailure, MemSave, MemAudit, Apply,
           TabTo, UsersTypeOK
      <4>2. CASE ~(Begin(b) \/ Write(b) \/ TxFails(b) \/ RecordFailure(b) \/ MemSave(b) \/ MemAudit(b))
        BY <1>0, <1>4, <2>1, <4>2 DEF Act, ListUsers, SubmitUpdate, SubmitCreate, ListScopes,
           Return, TabTo, UsersTypeOK
      <4> QED BY <4>1, <4>2
    <3> QED BY <1>1, <1>4, <3>1
  <2>2. CASE a = b
    <3> USE DEF OutcomeInv, Unapplied
    <3>1. CASE Begin(b)
      BY <1>0, <1>4, <2>2, <3>1 DEF Begin, TabTo, UsersTypeOK
    <3>2. CASE Write(b)
      <4>1. tab[a] = "write" /\ store = "mysql" /\ ~applied[a]
        BY <1>0, <2>2, <3>2 DEF Write, TxInv
      <4>2. CASE Apply(b) /\ (TabTo(b, "saved") \/ TabTo(b, "unknown"))
        <5>1. applied'[a] = TRUE /\ tab'[a] \in {"saved", "unknown"}
          BY <1>0, <2>2, <4>2 DEF Apply, TabTo, UsersTypeOK
        <5> QED BY <5>1
      <4>3. CASE UNCHANGED <<acct, scopes, applied, audit>> /\ (TabTo(b, "fail") \/ TabTo(b, "unknown"))
        <5>1. ~applied'[a] /\ tab'[a] \in {"fail", "unknown"}
          BY <1>0, <2>2, <4>1, <4>3 DEF TabTo, UsersTypeOK
        <5> QED BY <5>1
      <4> QED BY <3>2, <4>2, <4>3 DEF Write
    <3>3. CASE TxFails(b)
      BY <1>0, <1>4, <2>2, <3>3 DEF TxFails, TabTo, UsersTypeOK
    <3>4. CASE RecordFailure(b)
      BY <1>0, <1>4, <2>2, <3>4 DEF RecordFailure, TabTo, UsersTypeOK
    <3>5. CASE MemSave(b)
      <4>1. store' = "memory" /\ tab[a] = "begin" /\ ~applied[a]
        BY <1>0, <1>4, <2>2, <3>5 DEF MemSave
      <4>2. \/ tab'[a] \in {"conflict", "fail"} /\ applied'[a] = applied[a]
            \/ tab'[a] = "memaudit" /\ applied'[a] = TRUE
        BY <1>0, <2>2, <3>5 DEF MemSave, Apply, TabTo, UsersTypeOK
      <4> QED BY <4>1, <4>2
    <3>6. CASE MemAudit(b)
      BY <1>0, <1>4, <2>2, <3>6 DEF MemAudit, TabTo, UsersTypeOK
    <3>7. CASE Return(b)
      BY <1>0, <1>4, <2>2, <3>7 DEF Return, TabTo, UsersTypeOK
    <3>8. CASE ListScopes(b) \/ \E m \in Forms : SubmitUpdate(b, m)
      BY <1>0, <1>4, <2>2, <3>8 DEF ListScopes, SubmitUpdate, TabTo, UsersTypeOK
    <3>9. CASE \E u \in Accounts : ListUsers(b, u) \/ \E m \in Forms : SubmitCreate(b, u, m)
      BY <1>0, <1>4, <2>2, <3>9 DEF ListUsers, SubmitCreate, TabTo, UsersTypeOK
    <3> QED BY <1>4, <3>1, <3>2, <3>3, <3>4, <3>5, <3>6, <3>7, <3>8, <3>9 DEF Act
  <2> QED BY <2>1, <2>2
<1> QED BY <1>2, <1>3, <1>4, NextSplit

\* One more event keeps the story whole when a successful one starts from the
\* scopes it finds, describes what it leaves, and is the only cause of a change.
LEMMA OneMoreEvent ==
    ASSUME UsersTypeOK, AuditReplaysTable, UNCHANGED store, NEW e \in Event,
           audit' = Append(audit, e),
           e.result = "success" => /\ e.before = Named(scopes[e.user])
                                   /\ e.after = Named(scopes'[e.user])
                                   /\ e.role = acct'[e.user].role
                                   /\ e.enabled = acct'[e.user].enabled,
           \A u \in Accounts : u # e.user \/ e.result # "success"
                               => acct'[u] = acct[u] /\ scopes'[u] = scopes[u]
    PROVE  AuditReplaysTable'
<1>0. PICK n \in Nat : n = Len(audit)
  BY DEF UsersTypeOK
<1>1. audit \in Seq(Event) /\ Len(audit') = n + 1 /\ audit'[n + 1] = e
  BY <1>0 DEF UsersTypeOK
<1>2. \A k \in 1 .. n : audit'[k] = audit[k]
  BY <1>0, <1>1
<1>3. \A u \in Accounts : \A k \in 1 .. n : Changed(u, k)' <=> Changed(u, k)
  BY <1>2 DEF Changed
<1>4. \A u \in Accounts : Changed(u, n + 1)' <=> (u = e.user /\ e.result = "success")
  BY <1>1 DEF Changed
<1> SUFFICES ASSUME store = "mysql", NEW u \in Accounts, NEW j \in 1 .. n + 1, Changed(u, j)'
             PROVE  /\ \A k \in 1 .. n + 1 :
                         j < k /\ Changed(u, k)' /\ NoChangeWithin(u, j, k)'
                         => audit'[k].before = audit'[j].after
                    /\ NoChangeWithin(u, j, n + 2)' =>
                         /\ audit'[j].after = Named(scopes'[u])
                         /\ audit'[j].role = acct'[u].role
                         /\ audit'[j].enabled = acct'[u].enabled
  BY <1>1 DEF AuditReplaysTable
<1>5. CASE j = n + 1
  <2>1. u = e.user /\ e.result = "success"
    BY <1>4, <1>5
  <2>2. \A k \in 1 .. n + 1 : ~(j < k)
    BY <1>1, <1>5
  <2> QED BY <1>1, <1>5, <2>1, <2>2
<1>6. CASE j \in 1 .. n
  <2>1. Changed(u, j) /\ audit'[j] = audit[j]
    BY <1>2, <1>3, <1>6
  <2>2. /\ \A k \in 1 .. n : j < k /\ Changed(u, k) /\ NoChangeWithin(u, j, k)
                             => audit[k].before = audit[j].after
        /\ NoChangeWithin(u, j, n + 1) => /\ audit[j].after = Named(scopes[u])
                                          /\ audit[j].role = acct[u].role
                                          /\ audit[j].enabled = acct[u].enabled
    BY <1>0, <1>6, <2>1 DEF AuditReplaysTable
  <2>3. \A k \in Nat : NoChangeWithin(u, j, k)' => NoChangeWithin(u, j, k)
    BY <1>0, <1>1, <1>3 DEF NoChangeWithin
  <2>4. ASSUME NEW k \in 1 .. n + 1, j < k, Changed(u, k)', NoChangeWithin(u, j, k)'
        PROVE  audit'[k].before = audit'[j].after
    <3>1. NoChangeWithin(u, j, k)
      BY <1>1, <2>3, <2>4
    <3>2. CASE k \in 1 .. n
      BY <1>2, <1>3, <2>1, <2>2, <2>4, <3>1, <3>2
    <3>3. CASE k = n + 1
      BY <1>1, <1>4, <2>1, <2>2, <2>4, <3>1, <3>3
    <3> QED BY <1>1, <3>2, <3>3
  <2>5. ASSUME NoChangeWithin(u, j, n + 2)'
        PROVE  /\ audit'[j].after = Named(scopes'[u])
               /\ audit'[j].role = acct'[u].role
               /\ audit'[j].enabled = acct'[u].enabled
    <3>1. ~Changed(u, n + 1)'
      BY <1>1, <1>6, <2>5 DEF NoChangeWithin
    <3>2. NoChangeWithin(u, j, n + 2)
      BY <1>1, <2>3, <2>5
    <3>3. NoChangeWithin(u, j, n + 1)
      BY <1>0, <3>2 DEF NoChangeWithin
    <3> QED BY <1>4, <2>1, <2>2, <3>1, <3>3
  <2> QED BY <2>4, <2>5
<1> QED BY <1>1, <1>5, <1>6

\* Whoever extends the log of a MySQL store either commits a change with its
\* event, or records a failure.
LEMMA AuditEffect ==
    ASSUME UsersInv, [UsersNext]_userVars, store = "mysql"
    PROVE  \/ UNCHANGED <<acct, scopes, audit>>
           \/ \E a \in Admins : /\ UNCHANGED <<acct, scopes>>
                                /\ audit' = Append(audit, RequestEvent(a, "failed"))
           \/ \E a \in Admins : Write(a) /\ Apply(a) /\ audit' = Append(audit, EventOf(a))
<1>1. CASE UNCHANGED userVars
  BY <1>1 DEF userVars
<1>2. ASSUME NEW i \in Insts, CRMChange(i) PROVE UNCHANGED <<acct, scopes, audit>>
  BY <1>2 DEF CRMChange
<1>3. ASSUME NEW a \in Admins, Act(a)
      PROVE  \/ UNCHANGED <<acct, scopes, audit>>
             \/ UNCHANGED <<acct, scopes>> /\ audit' = Append(audit, RequestEvent(a, "failed"))
             \/ Write(a) /\ Apply(a) /\ audit' = Append(audit, EventOf(a))
  <2>1. CASE Write(a)
    BY <2>1 DEF Write
  <2>2. CASE RecordFailure(a)
    BY <2>2 DEF RecordFailure
  <2>3. ~MemSave(a) /\ ~MemAudit(a)
    BY DEF UsersInv, OutcomeInv, MemSave, MemAudit
  <2> QED BY <1>3, <2>1, <2>2, <2>3 DEF Act, ListUsers, SubmitUpdate, SubmitCreate, ListScopes,
             Begin, TxFails, Return
<1> QED BY <1>1, <1>2, <1>3, NextSplit

\* Every step keeps the story of the log whole.
LEMMA AuditStep == ASSUME UsersInv, [UsersNext]_userVars PROVE AuditReplaysTable'
<1>0. UsersTypeOK /\ AuditReplaysTable /\ NoOrphans /\ UNCHANGED store
  BY DEF UsersInv, UsersNext, userVars
<1> SUFFICES ASSUME store = "mysql" PROVE AuditReplaysTable'
  BY <1>0 DEF AuditReplaysTable
<1>1. CASE UNCHANGED <<acct, scopes, audit>>
  <2>1. \A u, j : Changed(u, j)' <=> Changed(u, j)
    BY <1>1 DEF Changed
  <2>2. \A u, j, k : NoChangeWithin(u, j, k)' <=> NoChangeWithin(u, j, k)
    BY <1>1, <2>1 DEF NoChangeWithin
  <2>3. \A u, j : NoChangeWithin(u, j, Len(audit) + 1)' <=> NoChangeWithin(u, j, Len(audit) + 1)
    BY <1>1, <2>1 DEF NoChangeWithin
  <2> QED BY <1>0, <1>1, <2>1, <2>2, <2>3 DEF AuditReplaysTable
<1>2. ASSUME NEW a \in Admins, UNCHANGED <<acct, scopes>>,
             audit' = Append(audit, RequestEvent(a, "failed"))
      PROVE  AuditReplaysTable'
  <2>1. RequestEvent(a, "failed") \in Event /\ RequestEvent(a, "failed").result # "success"
    BY <1>0, SaveTypes DEF RequestEvent
  <2> QED BY <1>0, <1>2, <2>1, OneMoreEvent
<1>3. ASSUME NEW a \in Admins, Write(a), Apply(a), audit' = Append(audit, EventOf(a))
      PROVE  AuditReplaysTable'
  <2> DEFINE e == EventOf(a)
  <2>1. target[a] \in Accounts /\ e \in Event /\ e.user = target[a]
    BY <1>0, SaveTypes DEF EventOf, UsersTypeOK
  <2>2. creating[a] => Named(scopes[target[a]]) = {}
    <3>1. creating[a] => ~acct[target[a]].exists
      BY <1>0, <1>3 DEF UsersInv, TxInv, Write, UsersTypeOK
    <3> QED BY <1>0, <2>1, <3>1 DEF NoOrphans, Named
  <2>3. e.before = Named(scopes[e.user])
    BY <2>1, <2>2 DEF EventOf
  <2>4. scopes'[target[a]] = NewRows(a) /\ acct'[target[a]].role = input[a].role
        /\ acct'[target[a]].enabled = input[a].enabled
    BY <1>0, <1>3, <2>1 DEF Apply, UsersTypeOK
  <2>5. e.after = Named(scopes'[e.user]) /\ e.role = acct'[e.user].role
        /\ e.enabled = acct'[e.user].enabled /\ e.result = "success"
    BY <2>1, <2>4 DEF EventOf
  <2>6. \A u \in Accounts : u # e.user => acct'[u] = acct[u] /\ scopes'[u] = scopes[u]
    BY <1>0, <1>3, <2>1 DEF Apply, UsersTypeOK
  <2> HIDE DEF e
  <2>7. audit' = Append(audit, e)
    BY <1>3 DEF e
  <2> QED BY <1>0, <2>1, <2>3, <2>5, <2>6, <2>7, OneMoreEvent
<1> QED BY <1>1, <1>2, <1>3, AuditEffect

\* The inductive invariant of user administration holds throughout: types, no
\* scopes without an account, what open transactions rely on, the outcome each
\* tab is in, and the story of the audit log.
THEOREM UsersInductive == UsersSpec => []UsersInv
<1>1. UsersInv /\ [UsersNext]_userVars => UsersInv'
  BY UsersTypeStep, TxStep, OrphansStep, OutcomeStep, AuditStep DEF UsersInv
<1> QED BY <1>1, InitInv, PTL DEF UsersSpec

\* Every variable stays in its type, for any users, institutions and forms.
THEOREM UsersTyped == UsersSpec => []UsersTypeOK
<1>1. UsersInv => UsersTypeOK
  BY DEF UsersInv
<1> QED BY <1>1, UsersInductive, PTL

\* The audit log of a MySQL store tells the whole story of every account
\* (CreateAuthUserWithAudit and UpdateAuthUserWithAudit commit the event with
\* the change it describes).
THEOREM AuditComplete == UsersSpec => []AuditReplaysTable
<1>1. UsersInv => AuditReplaysTable
  BY DEF UsersInv
<1> QED BY <1>1, UsersInductive, PTL

\* With MySQL the handlers' answers tell whether the save took effect.
THEOREM OutcomesTold == UsersSpec => []AnswersTellOutcome
<1>1. UsersInv => AnswersTellOutcome
  BY DEF UsersInv, OutcomeInv, Unapplied, AnswersTellOutcome
<1> QED BY <1>1, UsersInductive, PTL

\* What a viewer is listed to have is what CanUserViewMonitorStore lets a viewer
\* see, whatever rows an account holds.
THEOREM ListedIsViewable == UsersSpec => []ListedScopesAreViewable
<1>1. ASSUME UsersTypeOK, NEW u \in Accounts
      PROVE  {i \in Insts : CanView(u, "viewer", i)}
               = IF Mixed(scopes[u]) THEN {} ELSE ListedAvailable(u)
  <2>0. scopes[u] \in SUBSET Scope
    BY <1>1 DEF UsersTypeOK
  <2>1. \A i \in Insts : CanView(u, "viewer", i) <=>
            inst[i] # "off" /\ \E s \in scopes[u] : s.inst = i /\ \A o \in scopes[u] : o.kind = s.kind
    BY DEF CanView
  <2>2. CASE Mixed(scopes[u])
    BY <2>1, <2>2 DEF Mixed
  <2>3. CASE ~Mixed(scopes[u])
    <3>1. \A s, o \in scopes[u] : o.kind = s.kind
      BY <2>3 DEF Mixed
    <3>2. ListedAvailable(u) \subseteq Insts
      BY <2>0 DEF ListedAvailable, Named, Scope
    <3>3. \A i \in Insts : i \in ListedAvailable(u) <=> CanView(u, "viewer", i)
      BY <2>1, <3>1 DEF ListedAvailable, Named
    <3> QED BY <2>3, <3>2, <3>3
  <2> QED BY <2>2, <2>3
<1>2. UsersInv => ListedScopesAreViewable
  BY <1>1 DEF UsersInv, ListedScopesAreViewable
<1> QED BY <1>2, UsersInductive, PTL

\* No save overwrites a change its form did not show: the revision compared
\* under the lock is still the account's when the transaction writes it.
THEOREM UpdatesNeverLost == UsersSpec => NoLostUpdate
<1> DEFINE Kept == \A a \in Admins :
             ~applied[a] /\ applied'[a] /\ ~creating[a] => form[a] = RevisionOf(target[a])
<1>1. ASSUME UsersInv, UsersNext, NEW a \in Admins, ~applied[a], applied'[a], ~creating[a]
      PROVE  form[a] = RevisionOf(target[a])
  <2>0. UsersTypeOK /\ TxInv(a)
    BY <1>1 DEF UsersInv
  <2>1. ASSUME NEW i \in Insts, CRMChange(i) PROVE FALSE
    BY <1>1, <2>1 DEF CRMChange
  <2>2. ASSUME NEW b \in Admins, Act(b) PROVE form[a] = RevisionOf(target[a])
    <3>1. CASE Write(b)
      <4>1. a = b
        BY <1>1, <2>0, <3>1 DEF Write, Apply, UsersTypeOK
      <4> QED BY <1>1, <2>0, <3>1, <4>1 DEF Write, TxInv
    <3>2. CASE MemSave(b)
      <4>1. a = b /\ Apply(b)
        BY <1>1, <2>0, <3>2 DEF MemSave, Apply, UsersTypeOK
      <4> QED BY <1>1, <2>0, <3>2, <4>1 DEF MemSave, UsersTypeOK
    <3>3. CASE ~(Write(b) \/ MemSave(b))
      BY <1>1, <2>0, <2>2, <3>3 DEF Act, ListUsers, SubmitUpdate, SubmitCreate, ListScopes,
         Begin, TxFails, RecordFailure, MemAudit, Return, UsersTypeOK
    <3> QED BY <3>1, <3>2, <3>3
  <2> QED BY <1>1, <2>1, <2>2, NextSplit
<1>2. UsersInv /\ [UsersNext]_userVars => [Kept]_userVars
  BY <1>1
<1> QED BY <1>2, UsersInductive, PTL DEF UsersSpec, NoLostUpdate
=============================================================================
