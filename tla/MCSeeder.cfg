CONSTANTS
  r1 = r1
  r2 = r2
  Runs = {r1, r2}
  Seeds <- BusinessSeeds
  Unique <- UniquelyKeyed
SPECIFICATION Spec
INVARIANTS
  DanglingExplained
  DoneMeansComplete
  SomebodySurvives
  DoubledOnlyInARace
SYMMETRY RunSymmetry
