CONSTANTS
  Readers = {r1}
  MaxGenerations = 2
  KeepLatest = 1
  LegacyLake = {TRUE, FALSE}
SPECIFICATION FairSpec
PROPERTIES ReadersArePinned LakeIsUnlocked
CHECK_DEADLOCK FALSE
