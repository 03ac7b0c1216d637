SPECIFICATION Spec
CONSTANTS
  b1 = b1
  b2 = b2
  b3 = b3
  gcc = gcc
  zig = zig
  None = None
  Pinned = Pinned
  Raw = Raw
  Spoilt = Spoilt
  Deadline = 1
  StaleAge = 2
  HoldMax = 2
  Process = {b1, b2}
  Command = {gcc}
  Mortal = {}
  MaxDamage = 0
INVARIANTS ConcurrentCallsShare
