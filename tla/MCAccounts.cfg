CONSTANTS
  x1 = x1
  x2 = x2
  x3 = x3
  s1 = s1
  s2 = s2
  Registrations = {x1, x2, x3}
  Runs = {s1, s2}
  Names = {"admin", "maria"}
  Emails = {"admin@", "maria@"}
  Defaults <- MCDefaults
SPECIFICATION AccountsSpec
INVARIANTS
  CreatedIsKept
  SeededOrShadowed
SYMMETRY WriterSymmetry
