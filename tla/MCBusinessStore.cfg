CONSTANTS
  q1 = q1
  q2 = q2
  q3 = q3
  employee = employee
  reading1 = reading1
  reading2 = reading2
  n1 = n1
  a1 = a1
  a2 = a2
  Requests = {q1, q2, q3}
  Seeds = {employee, reading1, reading2}
  Seeded <- MCSeeded
  Names = {n1}
  Seconds = {a1, a2}
  None = None
SPECIFICATION FairSpec
INVARIANTS
  AnswersForTheName
  RemovedOnRequest
PROPERTY GuardedGoes
CHECK_DEADLOCK FALSE
