SPECIFICATION SessionSpec
CONSTANTS
  Segments = {"id"}
  Scores <- MCScores
INVARIANT ShownIfAllowed
INVARIANT LostFromTheTop
INVARIANT CouldStart
INVARIANT OutageClosesAll
INVARIANT LearntWhereDecided
