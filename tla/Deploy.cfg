SPECIFICATION MCSpec
CONSTANTS
  d1 = d1
  d2 = d2
  c1 = c1
  c2 = c2
  c3 = c3
  prod = prod
  dev = dev
  kv = kv
  None = None
  Partial = Partial
  Cached = Cached
  Clerk = {c1, c2, c3}
  Deployer = {d1, d2}
  Endpoint = {prod, dev}
  Default = prod
  Binding = {kv}
  MaxSites = 1
CONSTRAINT UntilRobbed
SYMMETRY DeployerSymmetry
INVARIANTS ActiveHasToken StoreSurvives UploadIsWhole
CHECK_DEADLOCK FALSE
