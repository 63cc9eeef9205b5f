----------------------------- MODULE OperationJobs -----------------------------
(***************************************************************************)
(* The durable operation queue of operation_jobs.py: API processes insert   *)
(* rows, worker threads of several replicas claim them with conditional     *)
(* UPDATEs, run each claim in a spawned child process that holds the row's  *)
(* execution lock, and settle the row; recovery interrupts rows whose lease *)
(* has expired.                                                             *)
(*                                                                          *)
(* Job ids are row numbers in creation order (created_at, id).  A claim is  *)
(* numbered when it is made: the number stands for the uuid4 worker token,  *)
(* for the started_at stamp that orders tenants, and for the child process  *)
(* spawned for the claim.  The lease clock is abstracted to the Boolean     *)
(* "heartbeat_at < now - LEASE_SECONDS": time may pass at any moment.       *)
(***************************************************************************)
EXTENDS Integers, FiniteSets

CONSTANTS
  Tenants,
  Replicas,          \* server processes (or cluster workers)
  Workers,           \* worker threads of all replicas
  ReplicaOf,         \* the replica a worker thread belongs to
  Distributed,       \* TRUE: PostgreSQL claims and advisory locks; FALSE: local files
  ConnectionsFail,   \* TRUE: a session holding an advisory lock may be lost
  MaxJobs,           \* bound: rows ever accepted
  MaxPending,        \* the admission limit per tenant (100 in the code)
  MaxClaims,         \* bound: claims ever made
  MaxCrashes,        \* bound: replica crashes
  NoTenant, NoWorker

ASSUME ConstantsAssumption ==
  /\ MaxJobs \in Nat /\ MaxPending \in Nat /\ MaxClaims \in Nat /\ MaxCrashes \in Nat
  /\ Distributed \in BOOLEAN /\ ConnectionsFail \in BOOLEAN
  /\ ConnectionsFail => Distributed
  /\ ReplicaOf \in [Workers -> Replicas]
  /\ NoTenant \notin Tenants /\ NoWorker \notin Workers

Jobs == 1..MaxJobs
Claims == 1..MaxClaims
NoJob == 0
NoClaim == 0
\* execution_lock(row) is free, held by the child of claim c (as c), or by recovery.
Free == 0
Recovery == -1

VARIABLES
  rows,      \* number of rows inserted so far
  tenant,    \* tenant_id of each row
  status,    \* status column; "absent" before the row exists
  token,     \* worker_token column: the claim that owns the row
  stale,     \* heartbeat_at is older than the lease
  lock,      \* execution lock of each row
  claims,    \* number of claims made so far
  claimed,   \* the row each claim was made on
  child,     \* the child process of each claim, with the reply in its pipe
  started,   \* max(started_at) of a tenant / head.last_job_started_at
  tlock,     \* "tenant-claim" advisory transaction lock (distributed)
  pc,        \* where each worker thread is
  exclude,   \* frozenset(self._in_flight) passed to claim()
  todo,      \* rows recover() selected
  heads,     \* candidate tenants _claim_distributed() selected
  target,    \* the row a worker is about to interrupt or to claim
  mine,      \* the claim a worker thread is executing
  reply,     \* response read from the child's pipe
  crashes,
  began,     \* history: claims whose operation began to execute
  completed  \* history: claims whose operation returned a code below 400

rowVars == <<rows, tenant, status, token, stale>>
childVars == <<claims, claimed, child>>
shared == <<rowVars, lock, childVars, started, tlock>>
claimVars == <<exclude, todo, heads, target>>
taskVars == <<mine, reply>>
workerVars == <<pc, claimVars, taskVars>>
history == <<began, completed>>
ghosts == <<crashes, history>>
vars == <<shared, workerVars, ghosts>>

Pending == {"queued", "running", "cancelling"}
Active == {"running", "cancelling"}
Terminal == {"cancelled", "succeeded", "failed", "interrupted"}
Status == {"absent"} \cup Pending \cup Terminal

\* A child is spawned, takes the execution lock, checks its claim, runs, and
\* sends a reply ("ok", "error") before it exits.
Live == {"spawned", "locked", "running"}
ChildState == {"none", "exited", "ok", "error"} \cup Live

\* claim() and _claim() hold the replica's _claim_lock while a worker is in one of these.
Claiming == {"recover", "fence", "select", "tenants", "claim"}
Busy == {"spawn", "watch", "terminate", "settle", "finish", "interrupt", "discard"}
PC == {"down", "idle"} \cup Claiming \cup Busy

Peers(w) == {v \in Workers : ReplicaOf[v] = ReplicaOf[w]}
\* Mutant: threads of a replica claim without _claim_lock.
ClaimUnlocked(w) == TRUE

ClaimLockFree(w) == \A v \in Peers(w) \ {w} : pc[v] \notin Claiming
InFlight(w) == {tenant[claimed[mine[v]]] : v \in {u \in Peers(w) : mine[u] # NoClaim}}

RowsOf(t, states) == {j \in Jobs : tenant[j] = t /\ status[j] \in states}
\* Mutant: recover() selects running rows only.
StaleRunningRows == {j \in Jobs : status[j] = "running" /\ stale[j]}

StaleRows == {j \in Jobs : status[j] \in Active /\ stale[j]}

\* The UPDATE ... WHERE worker_token = :mine of a worker touches its row.
Owns(c, states) == token[claimed[c]] = c /\ status[claimed[c]] \in states

Init ==
  /\ rows = 0
  /\ tenant = [j \in Jobs |-> NoTenant]
  /\ status = [j \in Jobs |-> "absent"]
  /\ token = [j \in Jobs |-> NoClaim]
  /\ stale = [j \in Jobs |-> FALSE]
  /\ lock = [j \in Jobs |-> Free]
  /\ claims = 0
  /\ claimed = [c \in Claims |-> NoJob]
  /\ child = [c \in Claims |-> "none"]
  /\ started = [t \in Tenants |-> 0]
  /\ tlock = [t \in Tenants |-> NoWorker]
  /\ pc = [w \in Workers |-> "idle"]
  /\ exclude = [w \in Workers |-> {}]
  /\ todo = [w \in Workers |-> {}]
  /\ heads = [w \in Workers |-> {}]
  /\ target = [w \in Workers |-> NoJob]
  /\ mine = [w \in Workers |-> NoClaim]
  /\ reply = [w \in Workers |-> "none"]
  /\ crashes = 0
  /\ began = {}
  /\ completed = {}

--------------------------------------------------------------------------------
(* API processes *)

\* JobQueue.enqueue: count and insert under the tenant's admission lock.
Enqueue(t) ==
  /\ rows < MaxJobs
  /\ Cardinality(RowsOf(t, Pending)) < MaxPending
  /\ rows' = rows + 1
  /\ tenant' = [tenant EXCEPT ![rows + 1] = t]
  /\ status' = [status EXCEPT ![rows + 1] = "queued"]
  /\ UNCHANGED <<token, stale, lock, childVars, started, tlock, workerVars, ghosts>>

\* Mutant: a claimed row is cancelled at once instead of being asked to stop.
CancelAtOnce(s) == "cancelled"

\* JobQueue.cancel: the CASE is evaluated on the current row, whatever the
\* authorization read saw; a settled row is left alone.
CancelOutcome(s) == IF s = "queued" THEN "cancelled" ELSE "cancelling"

Cancel(j) ==
  /\ status[j] \in {"queued", "running"}
  /\ status' = [status EXCEPT ![j] = CancelOutcome(@)]
  /\ UNCHANGED <<rows, tenant, token, stale, lock, childVars, started, tlock, workerVars,
                 ghosts>>

\* The clock passes heartbeat_at + LEASE_SECONDS.
LeaseExpires(j) ==
  /\ status[j] \in Active
  /\ ~stale[j]
  /\ stale' = [stale EXCEPT ![j] = TRUE]
  /\ UNCHANGED <<rows, tenant, status, token, lock, childVars, started, tlock, workerVars,
                 ghosts>>

--------------------------------------------------------------------------------
(* Claiming: recover(), then the local or the distributed claim *)

\* _claim under _claim_lock; recover() selects the expired rows.
BeginClaim(w) ==
  /\ pc[w] = "idle"
  /\ ClaimLockFree(w)
  /\ pc' = [pc EXCEPT ![w] = "recover"]
  /\ exclude' = [exclude EXCEPT ![w] = InFlight(w)]
  /\ todo' = [todo EXCEPT ![w] = StaleRows]
  /\ UNCHANGED <<shared, heads, target, taskVars, ghosts>>

\* Mutant: recovery fences a row without taking its execution lock.
RecoverUnlocked(w) ==
  /\ pc[w] = "recover"
  /\ \E j \in todo[w] :
       /\ todo' = [todo EXCEPT ![w] = @ \ {j}]
       /\ target' = [target EXCEPT ![w] = j]
  /\ pc' = [pc EXCEPT ![w] = "fence"]
  /\ UNCHANGED <<rowVars, lock, childVars, started, tlock, exclude, heads, taskVars, ghosts>>

\* recover: the row's execution lock is free and recovery takes it.
RecoverLock(w) ==
  /\ pc[w] = "recover"
  /\ \E j \in todo[w] :
       /\ lock[j] = Free
       /\ lock' = [lock EXCEPT ![j] = Recovery]
       /\ todo' = [todo EXCEPT ![w] = @ \ {j}]
       /\ target' = [target EXCEPT ![w] = j]
  /\ pc' = [pc EXCEPT ![w] = "fence"]
  /\ UNCHANGED <<rowVars, childVars, started, tlock, exclude, heads, taskVars, ghosts>>

\* recover: BlockingIOError, a process still owns execution.
RecoverSkip(w) ==
  /\ pc[w] = "recover"
  /\ \E j \in todo[w] :
       /\ lock[j] # Free
       /\ todo' = [todo EXCEPT ![w] = @ \ {j}]
  /\ UNCHANGED <<shared, pc, exclude, heads, target, taskVars, ghosts>>

\* Mutant: recovery puts an expired row back in the queue.
RecoverRequeue(w) ==
  LET j == target[w] IN
  /\ pc[w] = "fence"
  /\ status' = [status EXCEPT ![j] = IF @ \in Active /\ stale[j] THEN "queued" ELSE @]
  /\ lock' = [lock EXCEPT ![j] = IF @ = Recovery THEN Free ELSE @]
  /\ pc' = [pc EXCEPT ![w] = "recover"]
  /\ target' = [target EXCEPT ![w] = NoJob]
  /\ UNCHANGED <<rows, tenant, token, stale, childVars, started, tlock, exclude, todo, heads,
                 taskVars, ghosts>>

\* recover: the conditional UPDATE to interrupted, then the lock is released.
RecoverFence(w) ==
  LET j == target[w] IN
  /\ pc[w] = "fence"
  /\ status' = [status EXCEPT ![j] = IF @ \in Active /\ stale[j] THEN "interrupted" ELSE @]
  /\ lock' = [lock EXCEPT ![j] = IF @ = Recovery THEN Free ELSE @]
  /\ pc' = [pc EXCEPT ![w] = "recover"]
  /\ target' = [target EXCEPT ![w] = NoJob]
  /\ UNCHANGED <<rows, tenant, token, stale, childVars, started, tlock, exclude, todo, heads,
                 taskVars, ghosts>>

RecoverDone(w) ==
  /\ pc[w] = "recover"
  /\ todo[w] = {}
  /\ pc' = [pc EXCEPT ![w] = "select"]
  /\ UNCHANGED <<shared, claimVars, taskVars, ghosts>>

\* Tenants with queued work that this replica may start now.  The distributed
\* query also leaves out tenants with an active row.
Eligible(w) ==
  {t \in Tenants \ exclude[w] :
     /\ RowsOf(t, {"queued"}) # {}
     /\ Distributed => RowsOf(t, Active) = {}}

Oldest(t, j) ==
  /\ j \in RowsOf(t, {"queued"})
  /\ \A k \in RowsOf(t, {"queued"}) : j <= k

\* ORDER BY coalesce(last_started, 0), created_at, id
Before(j, k) ==
  \/ started[tenant[j]] < started[tenant[k]]
  \/ started[tenant[j]] = started[tenant[k]] /\ j <= k

\* claim: one SELECT picks the first queued row of the tenants that may start.
SelectLocal(w) ==
  LET candidates == UNION {RowsOf(t, {"queued"}) : t \in Eligible(w)} IN
  /\ ~Distributed
  /\ pc[w] = "select"
  /\ \E j \in candidates :
       /\ \A k \in candidates : Before(j, k)
       /\ target' = [target EXCEPT ![w] = j]
  /\ pc' = [pc EXCEPT ![w] = "claim"]
  /\ UNCHANGED <<shared, exclude, todo, heads, taskVars, ghosts>>

\* claim / _claim_distributed: nothing to run; the session closes.
SelectNone(w) ==
  /\ pc[w] = "select"
  /\ Eligible(w) = {}
  /\ pc' = [pc EXCEPT ![w] = "idle"]
  /\ exclude' = [exclude EXCEPT ![w] = {}]
  /\ UNCHANGED <<shared, todo, heads, target, taskVars, ghosts>>

\* _claim_distributed: the candidate tenants, tried in any order.
SelectTenants(w) ==
  /\ Distributed
  /\ pc[w] = "select"
  /\ Eligible(w) # {}
  /\ heads' = [heads EXCEPT ![w] = Eligible(w)]
  /\ pc' = [pc EXCEPT ![w] = "tenants"]
  /\ UNCHANGED <<shared, exclude, todo, target, taskVars, ghosts>>

\* _claim_distributed: another transaction holds the tenant's claim lock, or,
\* with the lock, the tenant turns out busy or without queued work: continue.
TenantSkip(w) ==
  /\ pc[w] = "tenants"
  /\ \E t \in heads[w] :
       /\ heads' = [heads EXCEPT ![w] = @ \ {t}]
       /\ \/ /\ tlock[t] \notin {NoWorker, w}
             /\ UNCHANGED tlock
          \/ /\ tlock[t] \in {NoWorker, w}
             /\ RowsOf(t, Active) # {} \/ RowsOf(t, {"queued"}) = {}
             /\ tlock' = [tlock EXCEPT ![t] = w]
  /\ UNCHANGED <<rowVars, lock, childVars, started, pc, exclude, todo, target, taskVars,
                 ghosts>>

\* Mutant: the tenant is not rechecked for an active row under its lock.
TenantLockUnchecked(w) ==
  /\ pc[w] = "tenants"
  /\ \E t \in heads[w], j \in Jobs :
       /\ tlock[t] \in {NoWorker, w}
       /\ Oldest(t, j)
       /\ tlock' = [tlock EXCEPT ![t] = w]
       /\ heads' = [heads EXCEPT ![w] = @ \ {t}]
       /\ target' = [target EXCEPT ![w] = j]
  /\ pc' = [pc EXCEPT ![w] = "claim"]
  /\ UNCHANGED <<rowVars, lock, childVars, started, exclude, todo, taskVars, ghosts>>

\* _claim_distributed: lock the tenant, recheck that it is idle, read its oldest queued row.
TenantLock(w) ==
  /\ pc[w] = "tenants"
  /\ \E t \in heads[w], j \in Jobs :
       /\ tlock[t] \in {NoWorker, w}
       /\ RowsOf(t, Active) = {}
       /\ Oldest(t, j)
       /\ tlock' = [tlock EXCEPT ![t] = w]
       /\ heads' = [heads EXCEPT ![w] = @ \ {t}]
       /\ target' = [target EXCEPT ![w] = j]
  /\ pc' = [pc EXCEPT ![w] = "claim"]
  /\ UNCHANGED <<rowVars, lock, childVars, started, exclude, todo, taskVars, ghosts>>

\* The end of a transaction releases its advisory locks.
Unlocked(w) == [t \in Tenants |-> IF tlock[t] = w THEN NoWorker ELSE tlock[t]]

TenantsDone(w) ==
  /\ pc[w] = "tenants"
  /\ heads[w] = {}
  /\ tlock' = Unlocked(w)
  /\ pc' = [pc EXCEPT ![w] = "idle"]
  /\ exclude' = [exclude EXCEPT ![w] = {}]
  /\ UNCHANGED <<rowVars, lock, childVars, started, todo, heads, target, taskVars, ghosts>>

\* The conditional UPDATE queued -> running, committed, succeeds.
ClaimRow(w) ==
  LET j == target[w]
      c == claims + 1
  IN
  /\ pc[w] = "claim"
  /\ status[j] = "queued"
  /\ claims < MaxClaims
  /\ claims' = c
  /\ status' = [status EXCEPT ![j] = "running"]
  /\ token' = [token EXCEPT ![j] = c]
  /\ stale' = [stale EXCEPT ![j] = FALSE]
  /\ started' = [started EXCEPT ![tenant[j]] = c]
  /\ claimed' = [claimed EXCEPT ![c] = j]
  /\ tlock' = Unlocked(w)
  /\ pc' = [pc EXCEPT ![w] = "spawn"]
  /\ mine' = [mine EXCEPT ![w] = c]
  /\ exclude' = [exclude EXCEPT ![w] = {}]
  /\ heads' = [heads EXCEPT ![w] = {}]
  /\ target' = [target EXCEPT ![w] = NoJob]
  /\ UNCHANGED <<rows, tenant, lock, child, todo, reply, ghosts>>

\* The conditional UPDATE matches no row: the local claim returns None, the
\* distributed one continues with the next candidate.
ClaimMissed(w) ==
  /\ pc[w] = "claim"
  /\ status[target[w]] # "queued"
  /\ pc' = [pc EXCEPT ![w] = IF Distributed THEN "tenants" ELSE "idle"]
  /\ exclude' = [exclude EXCEPT ![w] = IF Distributed THEN @ ELSE {}]
  /\ target' = [target EXCEPT ![w] = NoJob]
  /\ UNCHANGED <<shared, todo, heads, taskVars, ghosts>>

--------------------------------------------------------------------------------
(* The child process of a claim: _subprocess_entry *)

ChildStep(c, from, to) ==
  /\ child[c] = from
  /\ child' = [child EXCEPT ![c] = to]

Release(c) == lock' = [lock EXCEPT ![claimed[c]] = IF @ = c THEN Free ELSE @]

ChildLock(c) ==
  /\ ChildStep(c, "spawned", "locked")
  /\ lock[claimed[c]] = Free
  /\ lock' = [lock EXCEPT ![claimed[c]] = c]
  /\ UNCHANGED <<rowVars, claims, claimed, started, tlock, workerVars, ghosts>>

\* The execution lock is taken: BlockingIOError is reported as a 500.
ChildBlocked(c) ==
  /\ ChildStep(c, "spawned", "error")
  /\ lock[claimed[c]] # Free
  /\ UNCHANGED <<rowVars, lock, claims, claimed, started, tlock, workerVars, ghosts>>

ChildBegin(c) ==
  /\ ChildStep(c, "locked", "running")
  /\ Owns(c, {"running"})
  /\ began' = began \cup {c}
  /\ UNCHANGED <<rowVars, lock, claims, claimed, started, tlock, workerVars, crashes,
                 completed>>

\* owns_claim is false: the child returns without a reply.
ChildDisowned(c) ==
  /\ ChildStep(c, "locked", "exited")
  /\ ~Owns(c, {"running"})
  /\ Release(c)
  /\ UNCHANGED <<rowVars, claims, claimed, started, tlock, workerVars, ghosts>>

ChildReply(c) ==
  /\ \/ /\ ChildStep(c, "running", "ok")
        /\ completed' = completed \cup {c}
     \/ /\ ChildStep(c, "running", "error")
        /\ UNCHANGED completed
  /\ Release(c)
  /\ UNCHANGED <<rowVars, claims, claimed, started, tlock, workerVars, crashes, began>>

\* Abrupt exit, or the kernel's SIGALRM at the hard deadline.
ChildDies(c) ==
  /\ child[c] \in Live
  /\ child' = [child EXCEPT ![c] = "exited"]
  /\ Release(c)
  /\ UNCHANGED <<rowVars, claims, claimed, started, tlock, workerVars, ghosts>>

--------------------------------------------------------------------------------
(* The worker thread that owns a claim: JobWorker._isolated *)

Spawn(w) ==
  /\ pc[w] = "spawn"
  /\ child' = [child EXCEPT ![mine[w]] = "spawned"]
  /\ pc' = [pc EXCEPT ![w] = "watch"]
  /\ UNCHANGED <<rowVars, lock, claims, claimed, started, tlock, claimVars, taskVars, ghosts>>

\* The lease is renewed while the row is running under this token.
Renew(w) ==
  /\ pc[w] = "watch"
  /\ Owns(mine[w], {"running"})
  /\ stale[claimed[mine[w]]]
  /\ stale' = [stale EXCEPT ![claimed[mine[w]]] = FALSE]
  /\ UNCHANGED <<rows, tenant, status, token, lock, childVars, started, tlock, workerVars,
                 ghosts>>

\* The pipe holds a reply, or a last poll finds none.
PipeContent(c) == IF child[c] \in {"ok", "error"} THEN child[c] ELSE "none"

\* Mutant: the row is settled before the child is terminated.
WatchEndsAlive(w) ==
  /\ pc[w] = "watch"
  /\ reply' = [reply EXCEPT ![w] = PipeContent(mine[w])]
  /\ pc' = [pc EXCEPT ![w] = "settle"]
  /\ UNCHANGED <<shared, claimVars, mine, ghosts>>

\* The watch loop ends: with a reply, with the child gone, with the claim lost, or
\* (at any moment) on shutdown, at the deadline or when renewal keeps failing.
WatchEnds(w) ==
  /\ pc[w] = "watch"
  /\ reply' = [reply EXCEPT ![w] = PipeContent(mine[w])]
  /\ pc' = [pc EXCEPT ![w] = "terminate"]
  /\ UNCHANGED <<shared, claimVars, mine, ghosts>>

\* Mutant: a child that is killed keeps its lock.
TerminateLocked(w) ==
  /\ pc[w] = "terminate"
  /\ child' = [child EXCEPT ![mine[w]] = "exited"]
  /\ pc' = [pc EXCEPT ![w] = "settle"]
  /\ UNCHANGED <<rowVars, lock, claims, claimed, started, tlock, claimVars, taskVars, ghosts>>

\* terminate, kill and join: the child is gone, and with it its lock.
TerminateChild(w) ==
  /\ pc[w] = "terminate"
  /\ child' = [child EXCEPT ![mine[w]] = "exited"]
  /\ Release(mine[w])
  /\ pc' = [pc EXCEPT ![w] = "settle"]
  /\ UNCHANGED <<rowVars, claims, claimed, started, tlock, claimVars, taskVars, ghosts>>

\* response is not None and owns_claim(row)
Settle(w) ==
  /\ pc[w] = "settle"
  /\ pc' = [pc EXCEPT ![w] =
              IF reply[w] # "none" /\ Owns(mine[w], {"running"}) THEN "finish" ELSE "interrupt"]
  /\ UNCHANGED <<shared, claimVars, taskVars, ghosts>>

\* Mutant: any reply counts as a success.
FinishAnyReply(r) == {"succeeded", "interrupted"}

\* finish: "succeeded" or "failed" by the reply's code, "interrupted" when the
\* result is over RESULT_LIMIT; the second UPDATE interrupts a cancelling row.
FinishStatus(r) == IF r = "ok" THEN {"succeeded", "interrupted"} ELSE {"failed", "interrupted"}

\* Mutant: the result is stored whatever became of the row meanwhile.
FinishUnowned(w) ==
  /\ pc[w] = "finish"
  /\ \E s \in FinishStatus(reply[w]) : status' = [status EXCEPT ![claimed[mine[w]]] = s]
  /\ pc' = [pc EXCEPT ![w] = "discard"]
  /\ UNCHANGED <<rows, tenant, token, stale, lock, childVars, started, tlock, claimVars,
                 taskVars, ghosts>>

Finish(w) ==
  /\ pc[w] = "finish"
  /\ LET j == claimed[mine[w]] IN
     \/ /\ Owns(mine[w], {"running"})
        /\ \E s \in FinishStatus(reply[w]) : status' = [status EXCEPT ![j] = s]
     \/ /\ Owns(mine[w], {"cancelling"})
        /\ status' = [status EXCEPT ![j] = "interrupted"]
     \/ /\ ~Owns(mine[w], Active)
        /\ UNCHANGED status
  /\ pc' = [pc EXCEPT ![w] = "discard"]
  /\ UNCHANGED <<rows, tenant, token, stale, lock, childVars, started, tlock, claimVars,
                 taskVars, ghosts>>

Interrupt(w) ==
  /\ pc[w] = "interrupt"
  /\ LET j == claimed[mine[w]] IN
     status' = [status EXCEPT ![j] = IF Owns(mine[w], Active) THEN "interrupted" ELSE @]
  /\ pc' = [pc EXCEPT ![w] = "discard"]
  /\ UNCHANGED <<rows, tenant, token, stale, lock, childVars, started, tlock, claimVars,
                 taskVars, ghosts>>

\* _write_with_retry gives up: the error propagates and the row stays as it is.
WriteFails(w) ==
  /\ pc[w] \in {"finish", "interrupt"}
  /\ pc' = [pc EXCEPT ![w] = "discard"]
  /\ UNCHANGED <<shared, claimVars, taskVars, ghosts>>

\* run_once's finally: _in_flight.discard under _claim_lock.
Discard(w) ==
  /\ pc[w] = "discard"
  /\ ClaimLockFree(w)
  /\ pc' = [pc EXCEPT ![w] = "idle"]
  /\ mine' = [mine EXCEPT ![w] = NoClaim]
  /\ reply' = [reply EXCEPT ![w] = "none"]
  /\ UNCHANGED <<shared, claimVars, ghosts>>

--------------------------------------------------------------------------------
(* Failures *)

\* A replica dies: its threads, file locks and transactions are gone; the
\* children it spawned run on, with their locks.
Crash(r) ==
  LET dead == {w \in Workers : ReplicaOf[w] = r} IN
  /\ crashes < MaxCrashes
  /\ \E w \in dead : pc[w] # "down"
  /\ crashes' = crashes + 1
  /\ pc' = [w \in Workers |-> IF w \in dead THEN "down" ELSE pc[w]]
  /\ exclude' = [w \in Workers |-> IF w \in dead THEN {} ELSE exclude[w]]
  /\ todo' = [w \in Workers |-> IF w \in dead THEN {} ELSE todo[w]]
  /\ heads' = [w \in Workers |-> IF w \in dead THEN {} ELSE heads[w]]
  /\ target' = [w \in Workers |-> IF w \in dead THEN NoJob ELSE target[w]]
  /\ mine' = [w \in Workers |-> IF w \in dead THEN NoClaim ELSE mine[w]]
  /\ reply' = [w \in Workers |-> IF w \in dead THEN "none" ELSE reply[w]]
  /\ lock' = [j \in Jobs |-> IF \E w \in dead : pc[w] = "fence" /\ target[w] = j
                                                /\ lock[j] = Recovery
                             THEN Free ELSE lock[j]]
  /\ tlock' = [t \in Tenants |-> IF tlock[t] \in dead THEN NoWorker ELSE tlock[t]]
  /\ UNCHANGED <<rowVars, childVars, started, history>>

Restart(r) ==
  /\ \A w \in Workers : ReplicaOf[w] = r => pc[w] = "down"
  /\ pc' = [w \in Workers |-> IF ReplicaOf[w] = r THEN "idle" ELSE pc[w]]
  /\ UNCHANGED <<shared, claimVars, taskVars, ghosts>>

\* process_lock: the connection that owns the session lock is lost; the holder runs on.
ConnectionLost(j) ==
  /\ ConnectionsFail
  /\ lock[j] # Free
  /\ lock' = [lock EXCEPT ![j] = Free]
  /\ UNCHANGED <<rowVars, childVars, started, tlock, workerVars, ghosts>>

--------------------------------------------------------------------------------

ClaimStep(w) ==
  \/ BeginClaim(w) \/ RecoverLock(w) \/ RecoverSkip(w) \/ RecoverFence(w) \/ RecoverDone(w)
  \/ SelectLocal(w) \/ SelectNone(w) \/ SelectTenants(w) \/ TenantSkip(w) \/ TenantLock(w)
  \/ TenantsDone(w) \/ ClaimRow(w) \/ ClaimMissed(w)

SettleStep(w) ==
  \/ Spawn(w) \/ TerminateChild(w) \/ Settle(w) \/ Finish(w) \/ Interrupt(w) \/ Discard(w)

ChildSteps(c) ==
  \/ ChildLock(c) \/ ChildBlocked(c) \/ ChildBegin(c) \/ ChildDisowned(c) \/ ChildReply(c)

Next ==
  \/ \E t \in Tenants : Enqueue(t)
  \/ \E j \in Jobs : Cancel(j) \/ LeaseExpires(j) \/ ConnectionLost(j)
  \/ \E w \in Workers :
       ClaimStep(w) \/ SettleStep(w) \/ Renew(w) \/ WatchEnds(w) \/ WriteFails(w)
  \/ \E c \in Claims : ChildSteps(c) \/ ChildDies(c)
  \/ \E r \in Replicas : Crash(r) \/ Restart(r)

Spec == Init /\ [][Next]_vars

\* A live thread keeps taking its own steps; the watch loop ends once the child
\* has replied or is gone; a child ends within its hard deadline; a crashed
\* replica is restarted; the clock advances.  No step of a client, no failed
\* write and no crash is assumed.
Fairness ==
  /\ \A w \in Workers :
       /\ WF_vars(ClaimStep(w))
       /\ WF_vars(SettleStep(w))
       /\ WF_vars(WatchEnds(w) /\ child[mine[w]] \notin Live)
  /\ \A c \in Claims : WF_vars(ChildSteps(c))
  /\ \A r \in Replicas : WF_vars(Restart(r))
  /\ \A j \in Jobs : WF_vars(LeaseExpires(j))

FairSpec == Spec /\ Fairness

--------------------------------------------------------------------------------
(* Properties *)

\* Every variable keeps its kind of value: columns, locks, claims, children and threads.
TypeOK ==
  /\ rows \in 0..MaxJobs
  /\ tenant \in [Jobs -> Tenants \cup {NoTenant}]
  /\ status \in [Jobs -> Status]
  /\ token \in [Jobs -> Claims \cup {NoClaim}]
  /\ stale \in [Jobs -> BOOLEAN]
  /\ lock \in [Jobs -> Claims \cup {Free, Recovery}]
  /\ claims \in 0..MaxClaims
  /\ claimed \in [Claims -> Jobs \cup {NoJob}]
  /\ child \in [Claims -> ChildState]
  /\ started \in [Tenants -> Claims \cup {0}]
  /\ tlock \in [Tenants -> Workers \cup {NoWorker}]
  /\ pc \in [Workers -> PC]
  /\ exclude \in [Workers -> SUBSET Tenants]
  /\ todo \in [Workers -> SUBSET Jobs]
  /\ heads \in [Workers -> SUBSET Tenants]
  /\ target \in [Workers -> Jobs \cup {NoJob}]
  /\ mine \in [Workers -> Claims \cup {NoClaim}]
  /\ reply \in [Workers -> {"none", "ok", "error"}]
  /\ crashes \in 0..MaxCrashes
  /\ began \subseteq Claims
  /\ completed \subseteq Claims

\* A job's operation begins to execute at most once, whatever expires, crashes or is
\* claimed again: "interrupted, never automatically retried" (operation_jobs.py).
AtMostOneExecution ==
  \A c, d \in began : claimed[c] = claimed[d] => c = d

\* While a child executes, its row is still active under its own token: neither
\* recovery nor a worker settles a row "mid-action" (recover's comment).
LiveWriterNotFenced ==
  \A c \in Claims : child[c] = "running" => Owns(c, Active)

\* A cancelled row was never claimed, so none of its effects can have happened
\* ("Queued cancellation guarantees the job was not claimed", ARCHITECTURE.md).
CancelledNeverRan ==
  \A j \in Jobs : status[j] = "cancelled" =>
    token[j] = NoClaim /\ \A c \in Claims : claimed[c] # j

\* A row is reported succeeded only if the execution of its own claim returned success.
SucceededCompleted ==
  \A j \in Jobs : status[j] = "succeeded" => token[j] \in completed

\* A replica never works on two jobs of one tenant at a time, although its threads
\* claim and release concurrently (_claim_lock and _in_flight).
OneJobPerTenantInReplica ==
  \A v, w \in Workers :
    /\ v # w /\ ReplicaOf[v] = ReplicaOf[w]
    /\ mine[v] # NoClaim /\ mine[w] # NoClaim
    => tenant[claimed[mine[v]]] # tenant[claimed[mine[w]]]

\* Cluster-wide, a tenant has at most one claimed row that is not settled: concurrent
\* replicas, crashes and late recovery included (_claim_distributed).
OneActiveJobPerTenant ==
  \A j, k \in Jobs :
    status[j] \in Active /\ status[k] \in Active /\ tenant[j] = tenant[k] => j = k

\* No lock outlives its holder: a row's execution lock is held by the child of its own
\* claim, which has not ended, or by a thread about to fence it, and a tenant's claim lock by
\* a thread that is choosing among tenants.  A lock left behind by a crash, a kill or a lost
\* connection would keep its row from recovery, or its tenant from being served, for good.
LocksHaveHolders ==
  /\ \A j \in Jobs :
       \/ lock[j] = Free
       \/ lock[j] = token[j] /\ child[token[j]] \in {"locked", "running"}
       \/ lock[j] = Recovery /\ \E w \in Workers : pc[w] = "fence" /\ target[w] = j
  /\ \A t \in Tenants : tlock[t] # NoWorker => pc[tlock[t]] \in {"tenants", "claim"}

\* A settled row never changes again: late replies, cancellations and recovery lose.
SettledIsFinal ==
  [][\A j \in Jobs : status[j] \in Terminal => status'[j] = status[j]]_vars

\* Every accepted job is eventually settled, whatever crashes.
AcceptedIsSettled ==
  \A j \in Jobs : status[j] \in Pending ~> status[j] \in Terminal

\* The queue implements its contract: a job is executing while a child runs it, and
\* its execution has begun once a claim of it began.
Contract == INSTANCE OperationContract WITH
  executing <- {claimed[c] : c \in {d \in Claims : child[d] = "running"}},
  begun <- {claimed[c] : c \in began}

ImplementsContract == Contract!Spec
================================================================================
