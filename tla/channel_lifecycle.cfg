SPECIFICATION Spec
CONSTANTS
  Nos = {1, 2}
  Labels <- TwoLabels
  Results <- LabelOrNumber
  Procs = {p1, p2}
  Kinds = {"scan", "probe", "recognize", "batch", "refresh", "confirm", "nonbusiness", "unlock", "delete", "remove", "design"}
  Neighbour <- Twin
  Text <- NameOrder
  Waiting <- WaitingAreas
  None = None
  Missing = Missing
  MaxRequests = 5
  MaxAreas = 2
SYMMETRY Symmetry
INVARIANTS CountExact DecisionHonoured ReferencesLive HomeShowsWhatPlays ViewsAgree
PROPERTY MappingChangesOnPurpose
