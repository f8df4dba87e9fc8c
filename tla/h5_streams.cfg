SPECIFICATION Spec
CONSTANTS
  Users = {u1, u2}
  Requests = {r1, r2, r3}
  None = None
  UserMax = 1
  AdminMax = 2
  MaxToken = 2
SYMMETRY Symmetry
INVARIANTS SlotsAccounted OneRefreshSuffices
