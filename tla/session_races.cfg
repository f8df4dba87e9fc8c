SPECIFICATION Spec
CONSTANTS
  u1 = u1 u2 = u2 c1 = c1 c2 = c2 t1 = t1 t2 = t2 r1 = r1 r2 = r2
  Users = {u1}
  Creds = {c1}
  CredUser <- MCCredUser
  Tokens = {t1, t2}
  Browsers = {b1}
  Reqs = {r1, r2}
  None = None
  IdleTimeout = 2
  AbsTimeout = 3
  CredTTL = 3
  MaxTime = 4
SYMMETRY Symmetry
INVARIANTS CredentialConsumedOnce LiveMeansRecentlyUsed RevokedReasonTrue StoresAgree
PROPERTIES DeadStaysDead CreatedOnlyWhileEnabled
