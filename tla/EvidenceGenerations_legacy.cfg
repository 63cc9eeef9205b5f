CONSTANTS
  Readers = {r1, r2}
  MaxGenerations = 2
  KeepLatest = 1
  LegacyLake = {TRUE}
SPECIFICATION Spec
SYMMETRY Symmetry
INVARIANT LegacyIsRetained
CHECK_DEADLOCK FALSE
