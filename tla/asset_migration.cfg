SPECIFICATION Spec
CONSTANTS
  Forms = {"shared", "separate", "remote", "sample"}
  Orgs = {o1, o2}
  OwnOrg = o1
  AllowedOrgs = {o1, o2}
  main = main
  other = other
  Buckets = {main, other}
  Deployments <- MCDeployments
  None = None
  MaxRows = 2
  MaxShots = 2
  MaxRequests = 5
INVARIANTS MigratedMeansStored ManifestNamesOneSnapshot
