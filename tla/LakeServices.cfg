CONSTANTS
  p1 = p1
  p2 = p2
  x1 = x1
  x2 = x2
  r1 = r1
  NoTenant = NoTenant
  NoWorker = NoWorker
  Tenants = {x1, x2}
  Workers = {p1, p2}
  Replicas = {r1}
  ReplicaOf <- TwoThreads
  Distributed = FALSE
  ConnectionsFail = FALSE
  MaxJobs = 2
  MaxPending = 2
  MaxClaims = 2
  MaxCrashes = 0
  Handlers = {p1, p2}
  People = {x1, x2}
  Hosted = TRUE
  Gates = 1
  MaxRuns = 2
  MaxSaves = 2
  MaxStops = 1
  Tickers = {p1, p2}
  Targets = {x1, x2}
  Period = 2
  MaxTime = 5
  MaxDeaths = 3
  Requests = {p1, p2}
  Proposals = {d1, d2}
  Transactional = {d1}
  LocksFail = TRUE
  MaxFaults = 2
  Reviewers = {p1, p2}
  MaxGens = 2
  MaxClock = 4
  Syncers = {p1, p2}
  Tables = {log}
  RowLimit = 2
  MaxTimes = 3
  MaxFailures = 2
  EventIds = {p1, p2}
  Minute = 2
  Slo = 1
  Ahead = 1
  MaxRemoved = 1
  MaxTicks = 7
  MaxCatalogs = 2
  MaxObserved = 2
SPECIFICATION AllSpec
SYMMETRY Symmetry
INVARIANTS TypesOK OneJobPerTenantInReplica EffectsRunOnce ReviewedContentRuns DecisionActsOnce RetestsAreNewer RegressionReopens WatermarkCovers AcknowledgedIsServed
PROPERTIES DecisionsAreFinal FiresOncePerInterval ClosedDecisionStays IncrementalIsFull ImplementsGates
CHECK_DEADLOCK FALSE
