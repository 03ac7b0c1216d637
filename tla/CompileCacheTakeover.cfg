SPECIFICATION FairSpec
CONSTANTS
  b1 = b1
  b2 = b2
  b3 = b3
  k1 = k1
  k2 = k2
  None = None
  Damaged = Damaged
  Process = {b1, b2}
  Key = {k1, k2}
  Deadline = 1
  StaleAge = 2
  HoldMax = 3
  Mortal = {b1, b2}
  MaxDamage = 2
INVARIANTS OutputSound CleanExit
PROPERTIES Termination
