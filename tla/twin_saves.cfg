SPECIFICATION FairSpec
CONSTANTS
  Stores = {s1, s2}
  DefaultIds = {s1}
  Admins = {a1, a2}
  None = None
  Missing = Missing
  MaxEvents = 2
INVARIANT AuditIsHistory
PROPERTIES NoUnseenOverwrite EverySaveIsAnswered ImplementsRegister
