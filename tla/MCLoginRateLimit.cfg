CONSTANTS
  i1 = i1
  i2 = i2
  w1 = w1
  w2 = w2
  Ips = {i1, i2}
  Workers = {w1, w2}
  Kinds <- AllKinds
  MaxAttempts = 2
  Block = 1
  FailingReads <- OnlyLogin
  Cap = 4
SPECIFICATION FairSpec
INVARIANT GuessesBounded
PROPERTIES CountsSurvive BlockLifts
