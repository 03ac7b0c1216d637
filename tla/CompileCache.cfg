SPECIFICATION Spec
CONSTANTS
  b1 = b1
  b2 = b2
  b3 = b3
  k1 = k1
  k2 = k2
  None = None
  Damaged = Damaged
  Process <- Builds
  Key = {k1}
  Deadline = 1
  StaleAge = 2
  HoldMax = 2
  Mortal = {}
  MaxDamage = 1
INVARIANTS MutualExclusion CompileNotWasted
PROPERTIES ValidEntryKept ImplementsSingleFlight
SYMMETRY BuildSymmetry
