--------------------------- MODULE TenantPublication ---------------------------
(***************************************************************************)
(* Publication of one tenant's lake in a cluster (distributed/catalog.py,   *)
(* workspace.py, schedules.py).  Writers on any host take an expiring,      *)
(* fenced lease on the tenant's head row, change a private copy of the      *)
(* latest revision, and commit their domain SQL together with the new       *)
(* revision if the database still confirms the lease and the revision.      *)
(* Scheduler ticks run inside such a transaction and commit each attempt on *)
(* a connection of its own before they fire.                                *)
(*                                                                          *)
(* A lease is named by its fence, which acquire() increments: the number    *)
(* stands for the random owner id and for the transaction made under it.    *)
(* The content of a lake is the set of transactions whose changes it has.   *)
(* lease_until > clock_timestamp() is the Boolean "live".                   *)
(***************************************************************************)
EXTENDS Integers, Sequences

CONSTANTS
  Writers,      \* threads that run Runtime.transaction, on any host
  Publishers,   \* callers of Catalog.publish without a lease, once each
  MaxFence,     \* bound: leases ever granted
  MaxMoment     \* bound: moments a host's clock may show at a tick

ASSUME ConstantsAssumption ==
  /\ MaxFence \in Nat /\ MaxMoment \in Nat
  /\ Publishers \cap (Writers \cup Nat) = {}

Fences == 1..MaxFence
NoLease == 0
NotRead == -1
Transactions == Fences \cup Publishers

VARIABLES
  revisions,  \* DistributedRevision rows; the last one is the head's manifest
  owner,      \* head.owner: the lease that holds the tenant, or NoLease
  fence,      \* head.fence
  live,       \* head.lease_until is in the future
  domain,     \* transactions whose domain SQL is committed
  lastFired,  \* DistributedScheduleState.last_fired_at of a schedule target
  pc,         \* where each writer is in its transaction
  lease,      \* the lease each writer was granted
  base,       \* the version each writer (or publisher) has read
  local,      \* its private copy of the lake
  lost,       \* its heartbeat reported the lease lost
  moment,     \* the moment of its scheduler tick
  fired       \* history: <<moment, lease>> of each run the target was given

head == <<revisions, owner, fence, live>>
writerVars == <<pc, lease, base, local, lost, moment>>
vars == <<head, domain, lastFired, writerVars, fired>>

PC == {"idle", "acquired", "body", "due", "recorded", "fired", "ran", "commit", "release"}
Active == PC \ {"idle", "release"}

Version == Len(revisions)
Manifest == IF revisions = <<>> THEN {} ELSE revisions[Version]

\* Catalog._owns
Owns(w) == owner = lease[w] /\ fence = lease[w] /\ live

Init ==
  /\ revisions = <<>>
  /\ owner = NoLease
  /\ fence = 0
  /\ live = FALSE
  /\ domain = {}
  /\ lastFired = 0
  /\ pc = [w \in Writers |-> "idle"]
  /\ lease = [w \in Writers |-> NoLease]
  /\ base = [p \in Writers \cup Publishers |-> NotRead]
  /\ local = [p \in Writers \cup Publishers |-> {}]
  /\ lost = [w \in Writers |-> FALSE]
  /\ moment = [w \in Writers |-> 0]
  /\ fired = {}

Goto(w, from, to) == pc[w] \in from /\ pc' = [pc EXCEPT ![w] = to]

--------------------------------------------------------------------------------
(* A writer: Runtime.transaction *)

\* Mutant: an expired lease is not taken over.
AcquireUnowned(w) ==
  /\ Goto(w, {"idle"}, "acquired")
  /\ owner = NoLease
  /\ fence < MaxFence
  /\ fence' = fence + 1
  /\ owner' = fence'
  /\ live' = TRUE
  /\ lease' = [lease EXCEPT ![w] = fence']
  /\ lost' = [lost EXCEPT ![w] = FALSE]
  /\ UNCHANGED <<revisions, domain, lastFired, base, local, moment, fired>>

\* Catalog.acquire: no owner, or its lease has expired on the database clock.
Acquire(w) ==
  /\ Goto(w, {"idle"}, "acquired")
  /\ owner = NoLease \/ ~live
  /\ fence < MaxFence
  /\ fence' = fence + 1
  /\ owner' = fence'
  /\ live' = TRUE
  /\ lease' = [lease EXCEPT ![w] = fence']
  /\ lost' = [lost EXCEPT ![w] = FALSE]
  /\ UNCHANGED <<revisions, domain, lastFired, base, local, moment, fired>>

\* The head is read after the lease is granted; its immutable objects are restored.
ReadHead(w) ==
  /\ Goto(w, {"acquired"}, "body")
  /\ base' = [base EXCEPT ![w] = Version]
  /\ local' = [local EXCEPT ![w] = Manifest]
  /\ UNCHANGED <<head, domain, lastFired, lease, lost, moment, fired>>

\* The body (a job, a request or a tick) ends with the lake changed or not; a
\* heartbeat that lost the lease rejects it.
EndBody(w) ==
  /\ Goto(w, {"body", "ran"}, "commit")
  /\ ~lost[w]
  /\ \/ local' = [local EXCEPT ![w] = @ \cup {lease[w]}]
     \/ UNCHANGED local
  /\ UNCHANGED <<head, domain, lastFired, lease, base, lost, moment, fired>>

\* Mutant: the manifest is published on a connection of its own, before the domain SQL.
CommitManifestOnly(w) ==
  /\ Goto(w, {"commit"}, "release")
  /\ Owns(w)
  /\ Version = base[w]
  /\ revisions' = IF lease[w] \in local[w] THEN Append(revisions, local[w]) ELSE revisions
  /\ UNCHANGED <<owner, fence, live, domain, lastFired, lease, base, local, lost, moment, fired>>

\* Mutant: only the revision is checked, not the lease.
CommitUnfenced(w) ==
  /\ Goto(w, {"commit"}, "release")
  /\ Version = base[w]
  /\ revisions' = IF lease[w] \in local[w] THEN Append(revisions, local[w]) ELSE revisions
  /\ domain' = domain \cup {lease[w]}
  /\ UNCHANGED <<owner, fence, live, lastFired, lease, base, local, lost, moment, fired>>

\* Mutant: only the lease's owner is checked, neither its expiry nor the revision.
CommitUnversioned(w) ==
  /\ Goto(w, {"commit"}, "release")
  /\ owner = lease[w]
  /\ revisions' = IF lease[w] \in local[w] THEN Append(revisions, local[w]) ELSE revisions
  /\ domain' = domain \cup {lease[w]}
  /\ UNCHANGED <<owner, fence, live, lastFired, lease, base, local, lost, moment, fired>>

\* Catalog.publish, or Catalog.confirm when nothing visible changed: the head row
\* stays locked from the check to the commit.
Commit(w) ==
  /\ Goto(w, {"commit"}, "release")
  /\ Owns(w)
  /\ Version = base[w]
  /\ revisions' = IF lease[w] \in local[w] THEN Append(revisions, local[w]) ELSE revisions
  /\ domain' = domain \cup {lease[w]}
  /\ UNCHANGED <<owner, fence, live, lastFired, lease, base, local, lost, moment, fired>>

\* The body, the snapshot, the fence check or the commit fails: rollback.
Abort(w) ==
  /\ Goto(w, Active, "release")
  /\ UNCHANGED <<head, domain, lastFired, lease, base, local, lost, moment, fired>>

Forget(w) ==
  /\ lease' = [lease EXCEPT ![w] = NoLease]
  /\ base' = [base EXCEPT ![w] = NotRead]
  /\ local' = [local EXCEPT ![w] = {}]
  /\ lost' = [lost EXCEPT ![w] = FALSE]
  /\ moment' = [moment EXCEPT ![w] = 0]

\* Catalog.release: matched by owner and fence, expired or not.
Release(w) ==
  /\ Goto(w, {"release"}, "idle")
  /\ Forget(w)
  /\ owner' = IF owner = lease[w] THEN NoLease ELSE owner
  /\ live' = (owner # lease[w] /\ live)
  /\ UNCHANGED <<revisions, fence, domain, lastFired, fired>>

\* The release fails, or the process dies: the lease is left to expire.
Vanish(w) ==
  /\ Goto(w, PC \ {"idle"}, "idle")
  /\ Forget(w)
  /\ UNCHANGED <<head, domain, lastFired, fired>>

\* The heartbeat: a rejected renewal, or failures until the lease window closes.
HeartbeatLost(w) ==
  /\ pc[w] \in Active
  /\ ~lost[w]
  /\ lost' = [lost EXCEPT ![w] = TRUE]
  /\ UNCHANGED <<head, domain, lastFired, pc, lease, base, local, moment, fired>>

\* The database clock reaches lease_until: renewals came too late or not at all.
LeaseExpires ==
  /\ live
  /\ live' = FALSE
  /\ UNCHANGED <<revisions, owner, fence, domain, lastFired, writerVars, fired>>

--------------------------------------------------------------------------------
(* A scheduler tick in the body: tick_cluster, schedules.py *)

\* The target is due at this host's moment: at least one period after the last attempt.
Due(m) == m >= lastFired + 1

ReadSchedule(w) ==
  /\ \E m \in 1..MaxMoment :
       /\ moment' = [moment EXCEPT ![w] = m]
       /\ Goto(w, {"body"}, IF Due(m) THEN "due" ELSE "ran")
  /\ UNCHANGED <<head, domain, lastFired, lease, base, local, lost, fired>>

\* Mutant: the next due time is stored in place of the attempt's.
NextDue(m, n) == 1 + (IF m > n THEN m ELSE n)

Later(m, n) == IF m > n THEN m ELSE n

\* Mutant: an attempt is recorded without asking for the lease.
RecordUnfenced(w) ==
  /\ Goto(w, {"due", "fired"}, IF pc[w] = "due" THEN "recorded" ELSE "ran")
  /\ lastFired' = Later(lastFired, moment[w])
  /\ UNCHANGED <<head, domain, lease, base, local, lost, moment, fired>>

\* record_attempt: committed on its own under a lock of the head row.  The result
\* is recorded in the same way after the run.
RecordAttempt(w) ==
  /\ Goto(w, {"due", "fired"}, IF pc[w] = "due" THEN "recorded" ELSE "ran")
  /\ Owns(w)
  /\ lastFired' = Later(lastFired, moment[w])
  /\ UNCHANGED <<head, domain, lease, base, local, lost, moment, fired>>

\* The target runs: its external effects cannot be taken back.
Fire(w) ==
  /\ Goto(w, {"recorded"}, "fired")
  /\ fired' = fired \cup {<<moment[w], lease[w]>>}
  /\ UNCHANGED <<head, domain, lastFired, lease, base, local, lost, moment>>

--------------------------------------------------------------------------------
(* Catalog.publish without a lease *)

OptimisticRead(p) ==
  /\ base[p] = NotRead
  /\ base' = [base EXCEPT ![p] = Version]
  /\ local' = [local EXCEPT ![p] = Manifest \cup {p}]
  /\ UNCHANGED <<head, domain, lastFired, pc, lease, lost, moment, fired>>

\* Mutant: a publisher replaces whatever revision is current.
PublishUnversioned(p) ==
  /\ base[p] # NotRead
  /\ owner = NoLease \/ ~live
  /\ revisions' = Append(revisions, local[p])
  /\ domain' = domain \cup {p}
  /\ UNCHANGED <<owner, fence, live, lastFired, writerVars, fired>>

OptimisticPublish(p) ==
  /\ base[p] # NotRead
  /\ owner = NoLease \/ ~live
  /\ Version = base[p]
  /\ revisions' = Append(revisions, local[p])
  /\ domain' = domain \cup {p}
  /\ UNCHANGED <<owner, fence, live, lastFired, writerVars, fired>>

--------------------------------------------------------------------------------

WriterStep(w) ==
  \/ Acquire(w) \/ ReadHead(w) \/ EndBody(w) \/ Commit(w) \/ Release(w)
  \/ RecordAttempt(w) \/ Fire(w)
  \/ Abort(w)

Next ==
  \/ \E w \in Writers : WriterStep(w) \/ Vanish(w) \/ HeartbeatLost(w) \/ ReadSchedule(w)
  \/ LeaseExpires
  \/ \E p \in Publishers : OptimisticRead(p) \/ OptimisticPublish(p)

Spec == Init /\ [][Next]_vars

\* A writer ends its transaction, one way or the other, and another one comes; the
\* database clock passes a lease that nobody renews any more.
Fairness ==
  /\ \A w \in Writers : WF_vars(WriterStep(w))
  /\ WF_vars(LeaseExpires /\ \A w \in Writers : lease[w] # owner)

FairSpec == Spec /\ Fairness

--------------------------------------------------------------------------------
(* Properties *)

\* Every variable keeps its kind of value: the head row, the domain SQL and the writers.
TypeOK ==
  /\ revisions \in Seq(SUBSET Transactions)
  /\ owner \in 0..MaxFence
  /\ fence \in 0..MaxFence
  /\ live \in BOOLEAN
  /\ domain \subseteq Transactions
  /\ lastFired \in 0..MaxMoment
  /\ pc \in [Writers -> PC]
  /\ lease \in [Writers -> 0..MaxFence]
  /\ base \in [Writers \cup Publishers -> Nat \cup {NotRead}]
  /\ local \in [Writers \cup Publishers -> SUBSET Transactions]
  /\ lost \in [Writers -> BOOLEAN]
  /\ moment \in [Writers -> 0..MaxMoment]
  /\ fired \subseteq (1..MaxMoment) \X Fences

\* No published change is ever lost: each revision has everything the one before it has,
\* whoever published it and however late its writer was (publish's version and fence checks).
NoLostUpdate ==
  \A i, j \in 1..Len(revisions) : i < j => revisions[i] \subseteq revisions[j]

\* A lake is visible only with its domain SQL: what the head contains was committed.
PublishedIsCommitted == Manifest \subseteq domain

\* Two runs of a schedule target are at least a period apart on the hosts' clocks, the
\* later lease having the later moment: a crash, an abandoned publication or a second
\* scheduler never repeats an attempt ("does not erase an attempted ... run", DISTRIBUTED.md).
AttemptsNotRepeated ==
  \A a, b \in fired : a # b => a[2] # b[2] /\ (a[2] < b[2] => a[1] < b[1])

\* A lease that is not the tenant's current one never commits: once another writer
\* acquired the tenant, its predecessors are fenced out for good.
SupersededNeverCommits ==
  [][\A f \in Fences : f < fence /\ f \notin domain => f \notin domain']_vars

\* A failed owner is eventually replaced or releases the tenant.
TenantIsFreed ==
  \A f \in 1..(MaxFence - 1) : owner = f ~> owner # f

\* Concurrent, late and failed writers together behave as a register of revisions.
Register == INSTANCE PublicationRegister
ImplementsRegister == Register!Spec
================================================================================
