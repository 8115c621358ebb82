SPECIFICATION Spec
CONSTANTS
  Calls = {c1, c2}
  TokenTtl = 5
  CacheTtl = 2
  Timeout = 1
  MaxKeys = 2
  MaxNow = 5
SYMMETRY CallSymmetry
INVARIANTS StaleKeyBounded UnknownSettles
