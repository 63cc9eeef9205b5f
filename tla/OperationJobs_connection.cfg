CONSTANTS
  w1 = w1
  w2 = w2
  r1 = r1
  r2 = r2
  NoTenant = NoTenant
  NoWorker = NoWorker
  Tenants = {t1, t2}
  Workers = {w1, w2}
  Replicas = {r1, r2}
  ReplicaOf <- OneThreadEach
  Distributed = TRUE
  ConnectionsFail = TRUE
  MaxJobs = 2
  MaxPending = 2
  MaxClaims = 3
  MaxCrashes = 1
SPECIFICATION Spec
SYMMETRY Symmetry
INVARIANTS LiveWriterNotFenced
