CONSTANTS
  Readers = {r1}
  MaxGenerations = 3
  KeepLatest = 1
  LegacyLake = {TRUE, FALSE}
SPECIFICATION Spec
INVARIANTS TypeOK ActiveIsSealed PublishedIsAvailable LegacyReaderIsAlone FrozenIsInPlace
PROPERTIES SnapshotInputsStay PinnedStaysWhole ImplementsVault
CHECK_DEADLOCK FALSE
