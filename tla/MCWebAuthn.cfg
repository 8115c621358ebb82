CONSTANTS
  u1 = u1
  u2 = u2
  s1 = s1
  s2 = s2
  c1 = c1
  q1 = q1
  q2 = q2
  Users = {u1, u2}
  Sessions = {s1, s2}
  Creds = {c1}
  Requests = {q1, q2}
  MaxCount = 2
  None = None
SPECIFICATION CeremonySpec
INVARIANTS
  ChallengeUsedOnce
  CountsIncrease
  CloneWarningExplained
  RegisteredIsBound
SYMMETRY RequestSymmetry
