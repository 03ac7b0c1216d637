SPECIFICATION PipelineSpec
CONSTANTS
  b1 = b1
  b2 = b2
  b3 = b3
  k1 = k1
  k2 = k2
  None = None
  Damaged = Damaged
  Process <- Builds
  Key = {k1, k2}
  Deadline = 1
  StaleAge = 2
  HoldMax = 5
  CompileMax = 3
  Mortal = {b1}
  MaxDamage = 0
INVARIANTS BinaryFromOwnSource GeneratedStable
CONSTRAINTS UntilLost Mixed
SYMMETRY PipelineSymmetry
