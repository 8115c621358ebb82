SPECIFICATION Spec
CONSTANTS
  Subjects <- MCSubjects
  Role <- MCRole
  Ids = {"id"}
  Scores <- MCScores
  MaxPending = 1
INVARIANT LeaksOnlyThroughGuard
