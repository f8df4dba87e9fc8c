SPECIFICATION FairSpec
CONSTANTS
  u1 = u1 u2 = u2 c1 = c1 c2 = c2 t1 = t1 t2 = t2 r1 = r1 r2 = r2
  Users = {u1, u2}
  Creds = {c1, c2, c3}
  CredUser <- MCCredUser
  Tokens = {t1, t2, t3}
  Browsers = {b1}
  Reqs = {r1}
  None = None
  IdleTimeout = 1
  AbsTimeout = 1
  CredTTL = 1
  MaxTime = 1
INVARIANT AnswersMatchSession
PROPERTY EveryRequestEnds
