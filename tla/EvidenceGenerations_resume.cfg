CONSTANTS
  Readers = {r1, r2}
  MaxGenerations = 2
  KeepLatest = 1
  LegacyLake = {FALSE}
SPECIFICATION Spec
SYMMETRY Symmetry
INVARIANT ArchivalResumes
CHECK_DEADLOCK FALSE
