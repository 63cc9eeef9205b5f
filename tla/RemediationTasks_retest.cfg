CONSTANTS
  Reviewers = {v1}
  MaxGens = 2
  MaxClock = 4
SPECIFICATION RemediationSpec
INVARIANTS FreshRetestPasses
CHECK_DEADLOCK FALSE
