# A formal model of the TrustOps security data lake

This directory holds TLA+ specifications of the stateful protocols of the
`security_lakehouse` package (`src/src/security_lakehouse/`), the TLC
configurations that check them on small instances, and TLAPS proofs of their
main properties for every value of their constants. Paths below are relative to
that package unless they start with `docs/`.

1. [The system](#1-the-system): components, state, operations, interactions
2. [What is hard](#2-what-is-hard)
3. [Modules](#3-modules)
4. [Operation queue](#4-operation-queue-operationjobs)
5. [Evidence generations](#5-evidence-generations-evidencegenerations)
6. [Tenant publication](#6-tenant-publication-tenantpublication)
7. [The services around a lake](#7-the-services-around-a-lake)
8. [Runs and bounds](#8-runs-and-bounds)
9. [Proofs](#9-proofs)
10. [Disagreements with the documentation](#10-disagreements-with-the-documentation)
11. [What is not modelled, and the plan](#11-what-is-not-modelled-and-the-plan)

## 1. The system

TrustOps collects security evidence from connectors, evaluates controls of
compliance frameworks over it, and keeps the results, with snapshots, receipts
and approvals, for auditors. The evidence and the results are files of a *lake*
(bronze, silver, gold directories); users, tasks, jobs and other records are rows
of SQLite or PostgreSQL. It runs in two ways: **local**, with one or several server
processes and command lines sharing a directory, file locks and SQLite; and
**cluster** (`distributed/`), with any number of replicas, PostgreSQL, and lakes
stored as immutable objects, one head row per tenant.

| Component | State | Operations | Met in |
| --- | --- | --- | --- |
| Operation queue (`operation_jobs.py`, `distributed/locks.py`, `tenancy.py`) | rows with status, claim token, heartbeat; per-row execution lock; per-replica set of tenants in flight; child processes | enqueue, cancel, recover, claim (local and cluster), renew, run in a child, finish, interrupt | `OperationJobs` |
| Evidence generations (`generations.py`, `pipeline.py`) | generation directories, `.active-generation`, file locks | stage, seal, migrate a legacy lake, switch the pointer, clean up, pin | `EvidenceGenerations` |
| Retention (`generation_retention.py`, `scheduled_retention.py`) | archive directory | select, lock, verify, copy, remove, resume | `EvidenceGenerations` |
| Snapshots and their recovery (`assessment.py`, `io.chain_lock`, `snapshot_recovery.py`) | snapshot files, ledger, intent journal, quarantine | write, ledger, reconcile | `EvidenceGenerations` |
| Tenant publication (`distributed/catalog.py`, `workspace.py`, `schedules.py`) | head row with owner, fence, lease, version; revisions; schedule state | acquire, restore, heartbeat, publish, confirm, release, record an attempt | `TenantPublication` |
| Scheduler (`scheduler.py`) | schedules, state log, history log, recovery marker | tick, record an attempt and its outcome, repair-history | `Scheduler`; cluster tick: `TenantPublication` |
| Workflows and approvals (`workflows.py`) | workflow versions, run log, execution lock of a run | save, run, retry, pause at a gate, claim a decision, resume, reject, reconcile | `WorkflowRuns` |
| Agent decisions (`db/agent_runs.py`, endpoints of `server_app.py`) | one JSON column per agent run, execution lock | approve, reject, reconcile | `AgentDecisions` |
| Connectors and ingestion (`connector_runner.py`, `connectors_*.py`, `ingestion/`) | raw store, watermarks, run log | collect, merge, advance the watermark, materialize | `ConnectorSync` |
| Pipeline (`pipeline.py`, `evidence_freshness.py`) | index and state of the last evaluation, in the active generation | full run, incremental run | `IncrementalAssessment`; what becomes visible when: `EvidenceGenerations` |
| Remediation (`db/remediation.py`, `remediation_verification.py`) | tasks, receipts | edit, request a retest, verify, reconcile with a generation | `RemediationTasks`; its pin in `EvidenceGenerations` |
| Mapping review (`mapping_review.py`) | decision log, signed tip | decide, verify | planned |
| Assessment, control evaluation, frameworks | none (data in, data out) | evaluate | not modelled |
| API, console, CLI, authentication, commercial, sinks, connectors' transports | sessions, rate-limit windows, invites | requests | not modelled |

`PROJECT.json` lists every component with its files and the reason it is, or is
not, modelled.

How they interact:

* API processes and command lines **call** the components in their own thread, or
  **enqueue** an operation. A worker thread claims the row and runs the operation
  in a child process, which calls the same components.
* In a cluster a mutating request, a job or a tick runs inside
  `Runtime.transaction`: it works on a private copy of the lake, and its effect is
  published with its domain SQL, or not at all.
* Generations **share** the lake's directory with readers, retention and snapshot
  writers: `flock` on the lake, on a generation, and on the snapshot chain.
* A connector sync **calls** the pipeline, which publishes a generation.
* Generations **call back** into remediation after the pointer switch
  (`reconcile_published_tasks`), still under the lake's lock.
* Retention **reads** snapshots (files) and receipts (SQL) to know what to keep.
* The scheduler **calls** connectors, evaluation, workflows and retention.

## 2. What is hard

The behaviours that unit tests of this code hardly reach; the main ones are listed with their
line under `hazards` in `PROJECT.json`:

* **Interleavings** of processes that share only files or a database: two
  replicas claiming one row, a cancellation between a claim and a finish, a reader
  between its look at the pointer and its lock, retention between two looks at
  the references.
* **Torn logs**: an append that stops half-way, and the next row glued to its line:
  a claim that cannot be read again, an attempt the scheduler does not know of.
* **Read, compare, write without a lock**: the watermark of a connector, the version
  of a workflow, the closing of an agent's decision.
* **Stale state**: `owns_claim` before the write of a result, candidate tenants
  before their lock, a snapshot's generation before its lock, a lease before the
  commit.
* **Crashes** at every step: the parent of a running child, a publisher between
  the pointer and the cleanup, an archiver in the middle of a copy or of a removal,
  a snapshot writer between the file and the ledger, an owner of a lease.
* **Timeouts and late answers**: expired leases with a live owner, a renewal that
  keeps failing, a child that answers after its row was fenced.
* **Partial failure**: an exception after the pointer was switched, a tick whose
  attempt is committed and whose publication is rejected.
* **Liveness**: an accepted job is settled, a reader is not starved by retention, a
  tenant is not held for ever, no circle of locks.

## 3. Modules

| Module | What it is |
| --- | --- |
| `OperationJobs` | the durable queue with its replicas, threads, children, locks, leases and crashes |
| `OperationContract` | what the queue promises for a job; `OperationJobs` implements it |
| `EvidenceGenerations` | one local lake: publisher, readers, archiver, snapshots, recovery, receipts |
| `EvidenceVault` | what a lake promises its auditors; `EvidenceGenerations` implements it |
| `TenantPublication` | one tenant of a cluster: leased writers, lease-less publishers, ticks |
| `PublicationRegister` | what publication promises; `TenantPublication` implements it |
| `WorkflowRuns` | runs of a workflow, its approval gates and the reviewers who decide them |
| `DecisionGate` | what people's approvals promise; `WorkflowRuns` and `AgentDecisions` implement it |
| `Scheduler` | ticks of one lake, their state log, and repair-history |
| `AgentDecisions` | concurrent review of the decisions of one agent run |
| `RemediationTasks` | one task: edits, retests, and what publications do to it |
| `ConnectorSync` | overlapping syncs of one connector, the raw store, its watermark and what is served |
| `IncrementalAssessment` | incremental runs of the pipeline against what a full run would give |
| `MCLakeServices` | the six services of section 7 and the queue of one replica, in one instance for TLC |
| `MC*` | instances for TLC: finite functions, symmetry |
| `*Proofs` | theorems and their proofs |

Each `.cfg` is named after the module and the question it asks. `map` in
`PROJECT.json` gives the source lines of every definition. Definitions that carry a
`\* Mutant:` comment are deliberate errors, used to see that a property notices
them (`mutants`); the specifications do not use them.

Conventions. An action is what the code does between two points where another
process may intervene: one SQL transaction, one step under a lock, one file
operation that other processes can see. A conditional `UPDATE` that matches no row
is an action, or a disjunct, of its own. Time appears only through what the code
asks of it ("is the heartbeat older than the lease", "is the directory older than
the cutoff"), and may pass at any moment. Contents of files, JSON and messages are
left out. Counters that grow without bound in the code have a bound that ends
with the word *bound* in the list of CONSTANTS.

## 4. Operation queue (`OperationJobs`)

**State.** `rows, tenant, status, token, stale` are the table `operation_jobs`
(`stale[j]`: `heartbeat_at` is older than the lease). `lock` is `execution_lock(row)`: a
file lock, or a PostgreSQL session lock in a cluster (`process_lock`). `claimed` and
`child` describe the process spawned for each claim with what its pipe holds;
`started` is the last start of each tenant (fair order); `tlock` is the
transaction-scoped advisory lock of `_claim_distributed`. `pc, exclude, todo, heads,
target, mine, reply` are the local variables of each worker thread. A claim is a
number, which stands for the random worker token, for `started_at` and for the
child.

**Actions.** `Enqueue`, `Cancel`: the API. `BeginClaim`, `Recover*`: `recover()`, which
takes each expired row's execution lock before it fences the row. `SelectLocal`,
`SelectTenants`, `Tenant*`, `ClaimRow`, `ClaimMissed`: `claim()` and
`_claim_distributed()`, a select and a conditional update, with other replicas in
between. `Spawn`, `Renew`, `WatchEnds`, `TerminateChild`, `Settle`, `Finish`, `Interrupt`,
`WriteFails`, `Discard`: `JobWorker._isolated` and `run_once`. `Child*`:
`_subprocess_entry`. `Crash`, `Restart`, `LeaseExpires`, `ConnectionLost`: the environment;
a crash takes a replica's threads and locks, and leaves its children running.

**Properties.** `AtMostOneExecution`, `LiveWriterNotFenced`, `CancelledNeverRan`,
`SucceededCompleted`, `OneJobPerTenantInReplica`, `OneActiveJobPerTenant`,
`LocksHaveHolders`, `SettledIsFinal`, `AcceptedIsSettled`, and `ImplementsContract`: with *executing* the jobs
a child is running and *begun* those a child ever ran, every step of the queue is a
step of `OperationContract` or invisible. The contract says more than the
invariants together: for instance that a row is settled only when nothing executes
it, and that a cancelled execution is never reported as a success. `LocksHaveHolders` is
what settling rests on: recovery skips a row whose execution lock is taken, and a claim
a tenant whose lock is taken, so a lock that outlived its holder would strand them.

**Fairness** (`FairSpec`, used by `AcceptedIsSettled` alone). A live thread goes on
(the operating system schedules it); the watch loop ends when the child has replied
or is gone; a child ends (its hard deadline is a kernel timer); a crashed replica
is restarted (the compose and Helm files say so); the clock advances. No fairness
for clients, failed writes, renewals or crashes. The number of crashes is bounded,
so the property says that jobs are settled once crashes stop.

**Left out.** The in-process executor without isolation (no server starts it), the
result's content and size (a result over the limit is one outcome of `Finish`), and
what an operation does to the lake.

## 5. Evidence generations (`EvidenceGenerations`)

**State.** `dir` and `copy` say whether each generation's directory, in the lake and in
the archive, is absent, staged, sealed or partly there; `mtime` orders directories
for `--keep-latest`; `active` is the pointer. `legacy` says that the lake had artifacts
of its own before its first generation. `pubPc, cand, made` are the publisher inside
`serialized_publication`; `archPc, todo, path` the archiver inside
`archive_generations`; `readerPc, gen, shares` the threads in `pin_generation` and what
they do with the pin. `orphans` are snapshot files without ledger entry, `journal` is
`pending.json`. Who holds which lock follows from these.

**Actions.** `BeginPublication` ... `EndPublication`, with `FailPublication` (the handler:
remove what this call made but not the active one; the removal may itself fail
half-way) and `CrashPublication` (nothing is cleaned). `ReadPointer`, `Share`, `Open`, `Pin`:
the retry loop of a reader. `WriteSnapshot`, `LedgerSnapshot`: the file, then the
ledger, under the chain lock. `Verify`, `CommitRecord`: a receipt whose pin is released
before its SQL transaction commits. `BeginArchival` ... `EndArchival` and
`InterruptArchival`. `BeginRecovery`, `Quarantine`, `EndRecovery`, `CrashRecovery`:
`reconcile-snapshots --apply`.

**Properties.** `ActiveIsSealed`, `PublishedIsAvailable`, `PinnedStaysWhole`,
`SnapshotInputsStay`, `LegacyReaderIsAlone`, `FrozenIsInPlace`, `ReadersArePinned`,
`LakeIsUnlocked`, and `ImplementsVault`: what was published is current at once and
whole, stays in the lake or in the archive, and leaves the lake only when the archive
has it and no snapshot cites it.

Two observations that are not violations of any document, and bound what the
properties say:

* A receipt's pin is released before the receipt is committed
  (`server_app.py:2755`). Retention may list the receipts in between and archive the
  generation: the receipt then cites evidence of the archive. This is why
  `SnapshotInputsStay` speaks of snapshots and not of receipts.
* A reader that waits for a generation's lock while retention is interrupted in its
  removal gets the lock, sees a directory, and pins what is left of it
  (`generations.py:126`). `PublishedIsAvailable` says that a whole copy is in the
  archive; `PinnedStaysWhole` speaks of generations that are whole when pinned.

What was migrated from a legacy lake (`baselines`) is excluded from these
properties because of the first disagreement of section 10.

**Fairness.** Weak for a publication, an archival and a recovery once begun, and for
readers' own steps; strong for the steps that wait for a `flock` which others
take again and again (`Share`, `Pin`, and retention's wait for the chain): the kernel
grants a blocked request in the end. A snapshot or receipt that was begun is ended.
Nobody has to begin a publication or an archival.

**Left out.** Contents and hashes of files (`verify_generation` is "sealed"), the hash
chain of the ledger, the preview without `--archive-to`, the parsing of retention
policies and its reports, the optional external copy of a snapshot.

## 6. Tenant publication (`TenantPublication`)

**State.** `revisions, owner, fence, live` are the tenant's head row and its revisions
(`live`: `lease_until` is in the future on the database's clock). `domain` is the set of
transactions whose domain SQL is committed; the content of a revision is the set of
transactions whose changes it has. `lastFired` is `DistributedScheduleState`. Each
writer has a `pc` in `Runtime.transaction`, the `lease` it was granted, the `base` version
and the `local` copy it works on, whether its heartbeat reported a loss, and the
`moment` its host's clock showed. A lease is named by its fence.

**Actions.** `Acquire`, `ReadHead`, `EndBody`, `Commit` (publish, or confirm when nothing
changed), `Abort`, `Release`, `Vanish` (the process dies, or release fails),
`HeartbeatLost`, `LeaseExpires`; a tick in the body: `ReadSchedule`, `RecordAttempt` (on a
connection of its own), `Fire`; `OptimisticRead`, `OptimisticPublish` for callers of
`Catalog.publish` without a lease. A writer may go on for any time after its lease
expired: only the checks inside `Commit` and `RecordAttempt` stop it.

**Properties.** `NoLostUpdate`, `PublishedIsCommitted`, `AttemptsNotRepeated`,
`SupersededNeverCommits`, `TenantIsFreed`, and `ImplementsRegister`: each transaction
becomes visible in one step, on top of everything published before, or never.
`AttemptsNotRepeated` compares moments of the *hosts'* clocks, which may disagree: a
tick that reads an older clock does nothing, and one that reads a clock that runs
ahead fires early by the amount the clock is ahead.

**Fairness.** A writer ends its transaction, one way or the other; a lease that nobody
holds any more expires. A live owner whose heartbeats succeed may hold the tenant as
long as its transaction lasts.

**Left out.** `register` (a one-time check of the cluster's configuration), reads of
historical revisions, `metadata_transaction` (it takes no head), the cache of
restored revisions (planned), and the objects themselves, which are immutable and
named by their hash.

## 7. The services around a lake

Each of these keeps files, rows and locks of its own, which no other module shares;
what one sees of another is inside it (a publication, in `RemediationTasks` and
`ConnectorSync`; what a tick fires, in `Scheduler`).

### Workflow runs (`WorkflowRuns`)

**State.** `row` is the last readable row of each run in `workflow_runs.jsonl`; `torn` says
that the log ends in an unterminated line. `definition` is the version
`list_workflows()` returns. `execLock` is `_decision_execution_lock`. `step` and `work` are the
request threads, each in a server process of its own.

**Actions.** `ReadVersions`, `AppendVersion`: `save_workflow`, which holds no lock in
between. `StartRun`, `RetryRun`, `RecordRun`: the nodes up to the first gate, then one
row. `EnterDecision`, `ClaimDecision`, `RefuseDecision`, `ExecuteApproved`,
`RecordContinuation`, `RecordDecision`: a decision, whose claim is appended before
anything is executed. `Reconcile`: an operator closes a claim nobody executes any
more. `Stop` is an exception or a death anywhere, `StopMidAppend` a death inside a
write. `Append` is `append_jsonl`: it starts where the file ends, so that a row
written behind a torn line is glued to it and neither is read again.

**Properties.** `EffectsRunOnce`, `ReviewedContentRuns`, `DecisionsAreFinal`, and
`ImplementsRunGate`: `RunVerdict` reads a verdict off the last row of each run, and with it
every step of the log and its handlers is a step of `DecisionGate` or invisible.

**Observations.**

* A claim glued to a torn line is lost. If its process then dies too, the run still
  looks undecided, and its actions can be approved and executed once more
  (`workflows.py:1561`, `io.py:449`; the comment at `workflows.py:1538` calls the claim
  durable). `EffectsRunOnce` excludes the runs of `lostClaims`, and only these.
* Of two overlapping `save_workflow` calls the second is appended with the version of
  the first and never read (`workflows.py:971-991`).
* The approver of a second gate is compared with the one who approved the first,
  because the continuation is a run of theirs: the original starter may approve it.

**Left out.** What a node does, and the order of the nodes between two gates: that
walk is a pure function of the graph. After a gate it treats the children of
declined nodes differently from an unpaused run (`workflows.py:1296` and `1310-1334`).

### Scheduler (`Scheduler`)

**State.** `attempts` is what `_read_state` returns for each target; `tail` says how
`scheduler_state.jsonl` ends: whole, torn, *bare* (a complete row without its newline,
which can be read), or *corrupt* (a newline-terminated row that cannot). `marker` is
`scheduler_recovery_pending.json`, `flock` the holder of `.scheduler.lock`, and `phase, moment,
due, firing` the place of each process in `_tick_locked` or `repair_history`.

**Actions.** `BeginTick`, `RecordAttempt`, `Fire`, `RecordOutcome`, `EndTick`; `BeginRepair`,
`Rewrite`, `BeginDeferral`, `Defer`, `EndRepair`; `Die`, `DieMidAppend`. A tick reads its clock
and the state once.

**Property.** `FiresOncePerInterval`. It has a price the model also shows: a row
appended to a bare tail makes the file corrupt, and from then on every tick and
`repair-history` itself refuse the file until an operator edits it.

**Left out.** `connector_runs.jsonl`, repaired by the same command: nothing that is due
depends on it. A root tick for all tenants is this tick for each tenant.

### Agent decisions (`AgentDecisions`)

**State.** `decided` is the column `decisions_json` of one run, `runLock` its
`decision_execution_lock`, `seen` the column as each request has loaded it. `effects`
counts what each decision did that outlives its request: `Transactional` decisions
write rows of the request's own transaction, the others act at once.

**Actions.** `LoadRun`, `LockRun`, `Claim`, `Act`, `Close`, `FailClaim`: approval; `Reject`, which
takes no lock; `ReconcileClaim`; the refusals; `DieServing` and `LoseLock`.

**Properties.** `DecisionActsOnce`, `ClosedDecisionStays`, both until a PostgreSQL session
loses its advisory lock (`lockLost`). The docstring of `decision_execution_lock`
(`db/agent_runs.py:98-100`) says that the lock lives as long as its holder. After a lost
connection a reconciliation can close a claim whose worker is alive, and the
worker's unconditional close (`db/agent_runs.py:243`) then overwrites it.
`ImplementsProposalGate`: each decision of the column is a subject of `DecisionGate`; a lost
lock breaks all of them.

### The gate (`DecisionGate`)

Workflow approvals keep their state in an append-only log under a file lock, agent
decisions in one column under compare-and-swap and an advisory lock. `DecisionGate`
says what both promise: a subject is claimed at most once; it takes effect at most
once, and only under its claim; *accepted* is recorded only with the effect, *refused*
only without; a verdict is final; a claim nobody finishes ends as *unknown*, whether or
not it took effect. `Break` is the exception each has: a claim glued to a torn line, a lock
lost under its holder. A broken gate promises nothing more, and is never whole again.
`ImplementsGates` is both refinements. It says more than the invariants together: for
instance that nothing is executed before its claim, and that no accepted run is
reopened, reconciled or executed later.

### Remediation (`RemediationTasks`)

**State.** One linked task (`resolved, updated, receipts`), the row lock of a request
whose transaction has written it, and the generations with their verdict and the
time of their oldest evidence. `publisher` is the pipeline between its pointer switch
and the end of `reconcile_published_tasks`.

**Actions.** `Flip`, `SelectRegressed`, `Reopen`, `FailReconciliation`: a publication. `Edit`: a
PATCH. `BeginVerify`, `Pin`, `Resolve`, `Refuse`, `Abandon`: the verify endpoint.

**Properties.** `RetestsAreNewer`, `RegressionReopens`, and `FreshRetestPasses`, which is
violated (section 10). `RegressionReopens` leaves out the race at
`remediation_verification.py:110` (`raced`): a verification that pinned a passing
generation before a failing one was published may commit after the reconciliation
looked, and the task stays resolved until the next publication.

### Connector syncs (`ConnectorSync`)

**State.** `source` is what the mapped tables hold, one row per event time; `raw`,
`watermark` and `served` what the lake has; `rawLock` and `pipeLock` the two locks; `sync,
since, fetched, view` the place and the variables of each process.

**Actions.** `Emit`: the source grows, never in the past. `BeginSync`, `Collect`, `ReadRaw`,
`WriteRaw`, `CompareWatermark`, `WriteWatermark`, `ReadForPipeline`, `PublishView`,
`RecordServed` or `RecordCollected`: `run_connector_sync`; an idle process that takes
the publication lock is `run_lake_eval`. `FailSync` is an exception or a death at any
point.

**Properties.** `WatermarkCovers` and `AcknowledgedIsServed`. The first holds with one
mapped table and is violated with two (section 10).

**Observations.** Two overlapping syncs may move the watermark backwards, although the
docstring at `connector_runner.py:1692-1694` calls it monotonic: the next sync reads
rows again, which the merge absorbs. More rows with one event time than the row limit
are never read past. A torn line of `watermarks.jsonl` makes the later syncs of the
lake fail.

**Left out.** Late arrivals, which the documentation excludes. Overlapping *snapshot*
syncs, each of which removes what the other has just read
(`connector_runner.py:1772-1781`).

### Incremental assessment (`IncrementalAssessment`)

**State.** The raw store, with a fingerprint (here the time of collection) for each row;
the active generation with its rows, index, catalog, statuses and next freshness
transition; the run that holds the publication lock.

**Actions.** `Observe`, `Remove`, `ChangeCatalog`, `Advance`: the world. `BeginFull`, `ReadAll`:
`run_pipeline`. `BeginIncremental`, `Unchanged`, `Merge`, `FallBack`: `run_pipeline_incremental`.
`PublishEvaluation`, `FailRun`.

**Property.** `IncrementalIsFull`: an incremental run is compared with the full run that
is its definition. Evidence dated after the evaluation that saw it is excluded:
`_next_freshness_transition` (`pipeline.py:451-460`) has no moment for its coming of age,
which `evidence_freshness.py:88-92` counts.

### The instance for TLC (`MCLakeServices`)

The run `LakeServices` checks these six and the queue of one replica in one instance.
Their variables are disjoint and no action of one reads a variable of another, so a
behavior of all of them together is an interleaving of behaviors of each, and an
invariant or an action property of one cannot depend on the others. `moving` picks the
component a behavior is about; the others stay where they start. TLC then visits the
sum of their state spaces. The modules that do share state are composed by hand
inside one module: publisher, readers and archiver in `EvidenceGenerations`; syncs and
pipeline in `ConnectorSync`; publication and retests in `RemediationTasks`.

## 8. Runs and bounds

| Run | Shows | Distinct states |
| --- | --- | --- |
| `OperationJobs_local` | safety and the contract, two replicas on one lake | 0.9 M |
| `OperationJobs_distributed` | one active row per tenant, and no lock without a holder, with PostgreSQL claims and lost lock connections | 2.1 M |
| `OperationJobs_live` | every accepted job is settled | 97 k |
| `OperationJobs_connection` | a violation, section 10 | |
| `EvidenceGenerations_safety` | safety and the vault, empty and legacy lakes | 3.7 M |
| `EvidenceGenerations_live` | readers pin, the lake is unlocked | 58 k |
| `EvidenceGenerations_legacy`, `_resume` | violations, section 10 | |
| `TenantPublication` | safety, the register, and a tenant is freed | 0.6 M |
| `LakeServices` | the six services of section 7, and the threads of one replica | 1.2 M |
| `RemediationTasks_retest`, `ConnectorSync_backfill` | violations, section 10 | |

Bounds and why they are enough to meet the cases of interest:

* *Queue*: two replicas of one thread; two tenants, two jobs, three claims, one crash. Two
  jobs of one tenant, and of two, both occur. A row whose claim was lost is never claimed
  again, so three claims let both jobs be claimed with one attempt to spare. One crash
  leaves an orphan child that the other replica must respect. `LakeServices` has two
  threads of one replica instead, for what they share (`_claim_lock`, `_in_flight`): two
  jobs, two claims, and no crash, since a crash ends both threads at once and what it
  leaves behind is the subject of the other runs. `MaxPending` is 2, so that admission is refused only by the
  number of jobs; the limit itself is one atomic count and insert.
  The liveness run has one thread, whose crash makes progress depend on its restart.
* *Lake*: three generations (the baseline, one published, one staged or two
  published), `KeepLatest` = 1, one reader for safety. With two readers and three
  generations the state space is beyond what a run can finish; two readers are in
  the two violation runs and the proofs hold for any number.
  `LegacyLake` starts the lake empty and with artifacts of its own.
* *Publication*: two writers and one lease-less publisher, three leases, two
  moments: a lease may be taken over, and its successor taken over again, while the
  first owner still runs. Safety and liveness are one run, under the fairness of
  section 6 and without symmetry.
* *Services*: two processes each. *Workflows*: a gate, two runs (the paused one and its
  continuation or a retry), two saved versions, one stop. *Scheduler*: two targets, an
  interval of 2, five moments, three deaths: an attempt is torn, its repair
  interrupted, and the repaired target due again. *Agent*: a transactional and an
  immediate decision, two faults: a request dies with its claim open, and the lock of
  its successor is lost. *Remediation*: two generations, four moments: resolve,
  regress, retest. *Connector*: one table, a limit of two rows, three event times, two
  failures: a backlog larger than one sync. *Assessment*: two rows; minutes of two
  ticks, an objective of one minute and seven ticks, in which evidence gets stale and
  then expires; evidence dated one tick ahead; two catalogs; two
  observations, enough for a changed row beside a reused one, and for the loss of both.
* *The two violations* have one process each: neither needs an overlap.

Deadlock is checked in the runs of `OperationJobs`. The others have
`CHECK_DEADLOCK FALSE` because their bounds stop them: no lease is left
(`MaxFence`), no generation (`MaxGenerations`, `MaxGens`), no moment (`MaxTime`, `MaxTicks`), or
nothing more to save or run, and every process is idle.

Symmetry is used in safety runs only, over tenants, replicas with their threads,
processes, people, targets and readers; no definition orders them.

## 9. Proofs

`tlapm` checks all obligations of the eight proof modules. The assumptions are the
`ASSUME` of each module (`ConstantsAssumption`, `WorkflowConstants`, ...) and nothing else:
bounds are natural numbers, an interval is positive, the constants have their
kinds, a lost connection is possible only in a cluster, publishers are not writers
or numbers, nobody is called `"scheduler"` or `"free"`. TLC evaluates them on every run.
The theorems hold for any number of tenants, replicas, threads, processes, people,
readers, writers, generations, jobs, runs, targets, rows, claims, crashes and leases.

Each proof has the same shape: an inductive invariant `IInv`, made of named parts,
one lemma per group of actions and part, the invariants as consequences, then
action properties and the refinement step by step.

**`OperationJobsProofs`.** `IInv` is

* `ClaimsAgree`: the token of a row a claim was made on is that claim, and a row
  that was never claimed has no token. So no row is claimed twice, which is what
  `AtMostOneExecution` and `CancelledNeverRan` need and neither says: a row leaves
  `queued` once and never returns.
* `WorkersAgree`: what a thread's place says of `mine` and `target`; in particular two
  threads never have one claim.
* `OutcomesAgree` and `SucceededCompleted`: a reply, in the pipe or read, goes with the
  history of the claim, and the child is gone when its row is settled.
* `LocksAgree` and `LiveWriterNotFenced`, while no connection is lost: a child past
  `spawned` holds its row's lock, a fencing thread the lock of its target. Without
  the condition this is false, as the run `OperationJobs_connection` shows.
* `TenantsAgree`, in a cluster: a thread about to claim holds its tenant's advisory
  lock and the tenant has no active row; with it `OneActiveJobPerTenant`.

`ReplicasAgree`, on top of `IInv`, carries `OneJobPerTenantInReplica`, with or without lost
connections: under `_claim_lock` at most one thread of a replica claims, the snapshot
of `_in_flight` it took misses no tenant that became busy since, and what it selects
lies outside of that snapshot. The snapshot may be too large (a tenant finishes
meanwhile), never too small, because the only step that adds a busy tenant is the
claim itself.

`LocksAreHeld` is a safety fact that `AcceptedIsSettled` rests on, and needs neither whole
connections nor the distributed claim. Beside `IInv` it takes `TokensAgree` (a row's token is that of a
claim made on it, the converse of `ClaimsAgree`: the child that ends frees the lock of the
row it was claimed for, which must be the row it had locked) and `ClusterLocks` (only the
distributed claim walks through tenants and locks them: the local claim gives up after a
missed update without an unlock, and may). The lemma `ReleasedByChild` serves every way
a child ends.

**`EvidenceGenerationsProofs`.** `IInv` relates each process to the store.
`PublisherAgrees`: what the publisher's step says of its candidate, and that what it
made besides is a baseline. `PointerAgrees`: the pointer shows a sealed and published
generation, and published evidence is available. `ArchiverAgrees`: the archiver and
the publisher exclude each other; the generation examined is not the active one
and has no reader, from the copy on it is not ledgered, and from the removal on it
has a whole copy. `ReadersAgree`: a reader of the lake's own artifacts shares the
lake's lock, and at most one thread holds the chain, with its file in place.
`LakeImplementsVault` leaves out, as its refinement mapping does, what was migrated
from a legacy lake. `OnlyLateCleanupLosesLegacy` is about that part. `LegacyIsRetained` is
false of the code (section 10); the theorem assumes that nothing is removed between the
pointer switch and the end of the publication, which is what the code would have to
ensure, and concludes `LegacyIsRetained`. So no other step loses the baseline: not a crash
between any two steps, not a cleanup before the switch (the baseline is active then, or
the pointer has not hidden anything yet), and not retention, which copies first. The
strengthening `MigrationAgrees` counts the directories a publication has made, so that its
cleanup cannot meet the baseline of an earlier one.

**`TenantPublicationProofs`.** `IInv` is `LeasesAgree` (no lease was granted twice, the
owner is the last one granted or nobody, a transaction that is still running has
not committed), `CopiesAgree` (a private copy made from version `v` is revision `v`,
with or without the changes of its own transaction), `HistoryAgrees` (revisions
grow, and hold only committed transactions) and `AttemptsAgree` (attempts are ordered
by lease and by moment, none is later than `lastFired`, and the current owner's
is due after them all). The reason a takeover cannot repeat an attempt is that
`record_attempt` both asks for the lease and moves `lastFired` under one lock.

**`WorkflowRunsProofs`.** Three facts carry `EffectsRunOnce`: a handler past its claim
holds the run's execution lock, and so is alone; the row it finds is its own claim,
unless the claim was glued to a torn line (`ClaimsAreStored`, `AppendStoresOrLoses`);
and what is about to be executed never was (`ClaimsAreReviewed`). The status left behind
by every step keeps a second decision out. `ReviewedContentRuns` needs, besides, that the
content is compared under the claim; `DecisionsAreFinal` that a reconciliation and a
handler exclude each other by the lock.

**`SchedulerProofs`.** `PassOf`: a tick goes through targets that had a slot (neither the
last firing nor the last repair is within an interval) when it read the state, and
they still have it, because everybody else is kept out by the lock. `FileKnows`: a
readable file knows every firing, and without the marker every target has been
deferred since the last repair. The difficult steps are the deaths: a torn row
makes the file unreadable, and only `Rewrite`, under the marker, makes it readable.

**`ReviewProofs`, agent decisions.** While no lock was lost, the holder of the run's lock with an
open claim has seen exactly what is committed, because an open claim keeps every
other compare-and-swap out (`ClaimIsExclusive`). This is why the unconditional write of
`Close` loses nothing.

**The gates.** `RunsImplementGate` needs more than `WorkflowInv`: `HandlersAgree` says what each
handler is about to append (the result of nodes, or a rejection) and that a decision
which approves was executed before its run is closed, without which *accepted* might be
recorded with no effect. A new run's row leaves its gate open or refuses it, a claim
closes it or breaks it, and each later row moves it once. `ProposalsImplementGate`
follows from the invariant alone; once the lock was lost every step is `Break`.

**`ReviewProofs`, remediation.** A request holds the task's row from its note to its end, so
no reopening is newer than the note (`RequestHolds`), and the threshold of a retest
is at least the reopening it follows. `NobodyBehind`: after a reconciliation of a failing
generation that met no older pin, whoever is at work has pinned that generation.

**`IngestionProofs`, connector syncs.** `StoreInv`: what a sync collected is in the store from its
merge on and in what it publishes, the store only grows under its lock, and reported
rows are served. `CursorInv`: everything below the watermark that a sync has read is
stored, and what it collected is a prefix, by time, of what is at and above that
watermark. That a limited query returns such a prefix is a lemma on finite sets
(`OldestRowsAreAPrefix`), that a newest row exists one on well-founded order
(`NewestExists`). `OneTableWatermarkCovers` assumes `OneTable`; with two tables the prefixes
end at different times, and the property is false.

**`IngestionProofs`, assessment.** `AssessmentInv` adds two facts to the types.
`GenerationIsEvaluation`: the active generation is the evaluation of its own rows, at the
moment it was made, and its rows are the raw rows it indexed. `RunIsComplete`: a run that
has read its rows carries what a full run would, reused or not. The publishing half of
`IncrementalIsFull` follows. The other half is about a run that finds nothing to do: no
row has changed, and no status may have changed either although the clock has moved.
A status changes only at a whole number of minutes after the collection (`WholeMinutes`,
a lemma on `\div`), that moment is among the transitions of the row
(`TransitionMoments`), and the stored `due` is the first of them (`FirstMoment`, by
well-founded order), so before it every status lasts (`StatusLasts`).

**`LakeServicesProofs`.** A step of the composition is a step of one service and leaves the
variables of the others alone, so that each behavior of `AllSpec` is one of each service
(`ServicesAreIndependent`); `TypesHold` and `GatesHold` combine what is proved of them. That
the variables are disjoint is a fact about these modules; the theorem shows that the
instance TLC runs adds nothing to them.

Only model-checked: the liveness properties (`AcceptedIsSettled`, `ReadersArePinned`,
`LakeIsUnlocked`, `TenantIsFreed`), which are out of the prover's reach as they rest on
fairness. The violated properties are false of the code, and TLC shows how. Every other
property of a run is a theorem (the queue's `TypeOK` is checked as part of `TypesOK`);
`WatermarkCovers` under `OneTable`, and what a lost lock connection would break
(`LiveWriterNotFenced`, `ImplementsContract`) under `~ConnectionsFail`.

## 10. Disagreements with the documentation

* **`OperationJobs_connection`**. `operation_jobs.py:329-330`: "A process still owns
  execution. Its independent deadline bounds its lifetime; never fence a live writer
  mid-action." In a cluster the execution lock belongs to a connection of its own;
  after that connection is lost and the lease has expired, recovery fences a row
  whose child is still running. The job is still executed at most once, and the
  child's publication is refused by the tenant's lease.
* **`EvidenceGenerations_legacy`**. `docs/ASSESSMENT_GENERATIONS.md:50-51`: "Existing
  local lakes are migrated by retaining a copy of their previous artifacts before
  installing compatibility links." If the first publication raises after its pointer
  switch, its cleanup removes every directory it made but the active one, and with
  them the baseline, the only copy of the previous artifacts. Nothing else can lose it
  (`OnlyLateCleanupLosesLegacy`).
* **`EvidenceGenerations_resume`**. `docs/OPERATIONS_CONTRACTS.md:50-52`: "An
  interrupted archival resumes when the archived copy is complete". Interrupted while
  it removes the local directory, the next run verifies that directory first, and
  raises, although the copy is complete.
* **`RemediationTasks_retest`**. `docs/GOVERNED_REMEDIATION.md:68-69`: "Reopening retains
  previous receipts but requires a new generation with evidence observed after the
  task's latest update." The endpoint first records the reviewer's note, which makes
  the request itself the latest update (`server_app.py:2740-2745`), and then demands
  evidence observed after that (`remediation_verification.py:61`). Evidence newer than
  the task's last committed update, but older than the request, is refused.
* **`ConnectorSync_backfill`**. `docs/BRING_YOUR_OWN_LAKE.md:228-229`: "Each sync reads at most
  `options.max_rows_per_sync` rows per mapping (default 50,000, oldest first). A large
  backfill therefore advances over several syncs." All mappings share one watermark,
  which moves to the newest row of any of them (`connector_runner.py:1698-1707`): when one
  table is cut off by the limit and another is not, the rest of the first is never read.

## 11. What is not modelled, and the plan

Pure evaluation (controls, frameworks, readiness), parsing and presentation (API,
CLI, console), requests to vendor APIs, and reports are data transformations or
input and output without a protocol of their own. They are most of the repository's
75,000 lines, which is why the modules cover a small share of them: the stateful
protocols modelled here are a few thousand lines. The remaining stateful parts are
planned in this order:

1. `WorkflowRuns` over `TenantPublication`: in a cluster an approval runs in the tenant's
   transaction, so that its claim is published with its outcome or not at all, while
   the actions may have acted outside. To show: which actions may be repeated.
2. Fairness for the services: a paused run can always be decided or reconciled, a due
   target fires unless the file is corrupt, a publication's reconciliation ends.
   Scheduled retention over `EvidenceGenerations`: a stale directory that makes every
   later run fail.
3. Snapshot syncs and late rows in `ConnectorSync`, with a watermark per table to show
   what would repair the violation of section 10.
4. `MappingReview`: the decision log and its signed tip, with crashes in between.
5. `DerivedCache` (`read_cache.py`) and the cache of restored revisions
   (`distributed/workspace.py`): versions taken before a build, eviction beside readers.
6. Admission of requests, trust shares, invites and seats, rate-limit windows,
   operational retention.

Algorithms worth stating as operators and checking against a reference: the walk of
a workflow's graph, schedule expressions (`schedule_expr.py`), merge keys of the raw
store, verdict aggregation (`control_verdict.py`).
