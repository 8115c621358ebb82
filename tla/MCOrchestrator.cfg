SPECIFICATION FairSpec
CONSTANTS
  Requests = {r1, r2}
  Asks <- MCAsks
  Role <- MCRole
  Scores <- MCScores
INVARIANT LearntUnlessGivenUp
PROPERTIES ImplementsGate RequestsSettled
