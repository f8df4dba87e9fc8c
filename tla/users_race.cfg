SPECIFICATION UsersSpec
CONSTANTS
  Accounts = {u1}
  Insts = {i1}
  Admins = {a1, a2}
  Nobody = Nobody
  Backends = {"mysql", "memory"}
  Forms <- RaceForms
  CRMStates = {"off", "on", "ready"}
  MaxEvents = 2
SYMMETRY Symmetry
INVARIANTS AuditReplaysTable AnswersTellOutcome ListedScopesAreViewable
PROPERTY NoLostUpdate
