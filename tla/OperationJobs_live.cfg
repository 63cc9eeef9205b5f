CONSTANTS
  w1 = w1
  w2 = w2
  r1 = r1
  r2 = r2
  NoTenant = NoTenant
  NoWorker = NoWorker
  Tenants = {t1, t2}
  Workers = {w1}
  Replicas = {r1}
  ReplicaOf <- OneThread
  Distributed = FALSE
  ConnectionsFail = FALSE
  MaxJobs = 2
  MaxPending = 2
  MaxClaims = 2
  MaxCrashes = 1
SPECIFICATION FairSpec
PROPERTY AcceptedIsSettled
