CONSTANTS
  s1 = s1
  r1 = r1
  r2 = r2
  r3 = r3
  u1 = u1
  Users = {u1}
  Owner <- MCOwner
  Sessions = {s1}
  Requests = {r1, r2, r3}
  EarlyTokens <- MCNone
  MaxAttempts = 2
  Ttl = 1
  MaxNow = 2
SPECIFICATION FairSpec
INVARIANTS
  TypeOK
  ComparisonsBounded
  RemainingToldOnce
  ExceededIsTrue
  NoReplay
  LastLoginIsALogin
PROPERTIES RequestsAnswered SessionsExpire
