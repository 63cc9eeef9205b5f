CONSTANTS
  Writers = {w1, w2}
  Publishers = {p1}
  MaxFence = 3
  MaxMoment = 1
SPECIFICATION FairSpec
INVARIANTS TypeOK NoLostUpdate PublishedIsCommitted AttemptsNotRepeated
PROPERTIES SupersededNeverCommits ImplementsRegister TenantIsFreed
CHECK_DEADLOCK FALSE
