-------------------------- MODULE OperationJobsProofs --------------------------
(***************************************************************************)
(* Safety of the operation queue for every number of tenants, replicas,     *)
(* threads, jobs and crashes.                                               *)
(***************************************************************************)
EXTENDS OperationJobs, TLAPS

--------------------------------------------------------------------------------
(* The inductive invariant, by the part of the state it constrains *)

\* A row has a token exactly from its only claim on, and a claim keeps its row.
ClaimsAgree ==
  /\ \A c \in Claims : claimed[c] # NoJob => c <= claims /\ token[claimed[c]] = c
  /\ \A j \in Jobs : status[j] \in {"absent", "queued", "cancelled"} => token[j] = NoClaim
  /\ \A j \in Jobs : j > rows => status[j] = "absent"
  /\ \A j \in Jobs : status[j] # "absent" => tenant[j] \in Tenants
  /\ \A c \in Claims : child[c] # "none" \/ c \in began => claimed[c] # NoJob

\* A worker thread in each place has the row or the claim it needs, and no other has it.
WorkersAgree ==
  /\ \A w \in Workers : pc[w] \in {"fence", "claim"} => target[w] # NoJob
  /\ \A w \in Workers : pc[w] \in Busy <=> mine[w] # NoClaim
  /\ \A w \in Workers : mine[w] # NoClaim => claimed[mine[w]] # NoJob
  /\ \A v, w \in Workers : mine[v] = mine[w] /\ mine[v] # NoClaim => v = w

\* What a child or a worker knows of an execution's outcome is true.
OutcomesAgree ==
  /\ \A c \in Claims : child[c] = "ok" => c \in completed
  /\ \A c \in Claims : child[c] \in {"none", "spawned", "locked"} => c \notin began
  /\ \A c \in Claims : child[c] = "running" => c \in began
  /\ completed \subseteq began
  /\ \A w \in Workers : reply[w] = "ok" => mine[w] \in completed
  /\ \A w \in Workers : pc[w] \in {"settle", "finish", "interrupt"} =>
                          child[mine[w]] = "exited"
  /\ \A w \in Workers : pc[w] = "spawn" => child[mine[w]] = "none"

\* Execution locks, while no connection is lost: whoever executes or fences a row holds it.
LocksAgree ==
  /\ \A c \in Claims : child[c] \in {"locked", "running"} => lock[claimed[c]] = c
  /\ \A w \in Workers : pc[w] = "fence" => lock[target[w]] = Recovery
  /\ \A v, w \in Workers : pc[v] = "fence" /\ pc[w] = "fence" /\ target[v] = target[w] => v = w

\* Distributed claims: a tenant about to have a row claimed is locked by the claimer,
\* and idle.
TenantsAgree ==
  /\ \A w \in Workers : pc[w] = "claim" =>
       /\ status[target[w]] # "absent"
       /\ tlock[tenant[target[w]]] = w
       /\ \A j \in Jobs : tenant[j] = tenant[target[w]] => status[j] \notin Active
  /\ OneActiveJobPerTenant

\* The parts that need whole lock connections or the distributed claim are conditional.
IInv ==
  /\ TypeOK
  /\ ClaimsAgree
  /\ WorkersAgree
  /\ OutcomesAgree
  /\ SucceededCompleted
  /\ ~ConnectionsFail => LocksAgree /\ LiveWriterNotFenced
  /\ Distributed => TenantsAgree

\* Every step keeps the types.
LEMMA TypeStep == IInv /\ [Next]_vars => TypeOK'
<1> SUFFICES ASSUME IInv, [Next]_vars
             PROVE  TypeOK'
  OBVIOUS
<1> USE ConstantsAssumption DEF IInv, TypeOK, Jobs, Claims, NoJob, NoClaim, Free, Recovery,
     Status, Pending, Active,
     Terminal, Live, ChildState, Claiming, Busy, PC, shared, rowVars, childVars, claimVars, taskVars,
     workerVars, history, ghosts
<1>1. ASSUME NEW t \in Tenants, Enqueue(t) PROVE TypeOK'
  BY <1>1 DEF Enqueue
<1>2. ASSUME NEW j \in Jobs, Cancel(j) PROVE TypeOK'
  BY <1>2 DEF Cancel, CancelOutcome
<1>3. ASSUME NEW j \in Jobs, LeaseExpires(j) PROVE TypeOK'
  BY <1>3 DEF LeaseExpires
<1>4. ASSUME NEW j \in Jobs, ConnectionLost(j) PROVE TypeOK'
  BY <1>4 DEF ConnectionLost
<1>5. ASSUME NEW w \in Workers, BeginClaim(w) PROVE TypeOK'
  BY <1>5 DEF BeginClaim, InFlight, StaleRows, Peers, ClaimsAgree, WorkersAgree
<1>6. ASSUME NEW w \in Workers, RecoverLock(w) PROVE TypeOK'
  BY <1>6 DEF RecoverLock
<1>7. ASSUME NEW w \in Workers, RecoverSkip(w) PROVE TypeOK'
  BY <1>7 DEF RecoverSkip
<1>8. ASSUME NEW w \in Workers, RecoverFence(w) PROVE TypeOK'
  BY <1>8 DEF RecoverFence
<1>9. ASSUME NEW w \in Workers, RecoverDone(w) PROVE TypeOK'
  BY <1>9 DEF RecoverDone
<1>10. ASSUME NEW w \in Workers, SelectLocal(w) PROVE TypeOK'
  BY <1>10 DEF SelectLocal, Eligible, RowsOf
<1>11. ASSUME NEW w \in Workers, SelectNone(w) PROVE TypeOK'
  BY <1>11 DEF SelectNone
<1>12. ASSUME NEW w \in Workers, SelectTenants(w) PROVE TypeOK'
  BY <1>12 DEF SelectTenants, Eligible
<1>13. ASSUME NEW w \in Workers, TenantSkip(w) PROVE TypeOK'
  <2>1. PICK t \in heads[w] : heads' = [heads EXCEPT ![w] = @ \ {t}]
    BY <1>13 DEF TenantSkip
  <2>2. tlock' = tlock \/ \E s \in Tenants : tlock' = [tlock EXCEPT ![s] = w]
    <3>1. PICK s \in heads[w] : tlock' = tlock \/ tlock' = [tlock EXCEPT ![s] = w]
      BY <1>13 DEF TenantSkip
    <3> QED
      BY <3>1
  <2>3. UNCHANGED <<rowVars, lock, childVars, started, pc, exclude, todo, target, taskVars, ghosts>>
    BY <1>13 DEF TenantSkip
  <2>4. tlock' \in [Tenants -> Workers \cup {NoWorker}] /\ heads' \in [Workers -> SUBSET Tenants]
    BY <2>1, <2>2
  <2> QED
    BY <2>3, <2>4
<1>14. ASSUME NEW w \in Workers, TenantLock(w) PROVE TypeOK'
  BY <1>14 DEF TenantLock, Oldest, RowsOf
<1>15. ASSUME NEW w \in Workers, TenantsDone(w) PROVE TypeOK'
  BY <1>15 DEF TenantsDone, Unlocked
<1>16. ASSUME NEW w \in Workers, ClaimRow(w) PROVE TypeOK'
  <2> DEFINE c == claims + 1
  <2>1. c \in Claims /\ claims' = c /\ target[w] \in Jobs \cup {NoJob}
    BY <1>16 DEF ClaimRow
  <2>2. /\ token' \in [Jobs -> Claims \cup {NoClaim}]
        /\ started' \in [Tenants -> Claims \cup {0}]
        /\ mine' \in [Workers -> Claims \cup {NoClaim}]
        /\ claimed' \in [Claims -> Jobs \cup {NoJob}]
    BY <1>16, <2>1 DEF ClaimRow
  <2>3. tlock' \in [Tenants -> Workers \cup {NoWorker}]
    BY <1>16 DEF ClaimRow, Unlocked
  <2>4. claims' \in 0..MaxClaims
    BY <1>16, <2>1 DEF ClaimRow
  <2> HIDE DEF c
  <2> QED
    BY <1>16, <2>2, <2>3, <2>4 DEF ClaimRow
<1>17. ASSUME NEW w \in Workers, ClaimMissed(w) PROVE TypeOK'
  BY <1>17 DEF ClaimMissed
<1>18. ASSUME NEW w \in Workers, Spawn(w) PROVE TypeOK'
  BY <1>18 DEF Spawn
<1>19. ASSUME NEW w \in Workers, TerminateChild(w) PROVE TypeOK'
  BY <1>19 DEF TerminateChild, Release
<1>20. ASSUME NEW w \in Workers, Settle(w) PROVE TypeOK'
  BY <1>20 DEF Settle, Owns
<1>21. ASSUME NEW w \in Workers, Finish(w) PROVE TypeOK'
  <2>1. status' \in [Jobs -> Status]
    <3>1. CASE Owns(mine[w], {"running"}) /\ \E s \in FinishStatus(reply[w]) :
                 status' = [status EXCEPT ![claimed[mine[w]]] = s]
      BY <3>1 DEF FinishStatus
    <3>2. CASE status' = [status EXCEPT ![claimed[mine[w]]] = "interrupted"]
      BY <3>2
    <3>3. CASE UNCHANGED status
      BY <3>3
    <3> QED
      BY <1>21, <3>1, <3>2, <3>3 DEF Finish
  <2> QED
    BY <1>21, <2>1 DEF Finish
<1>22. ASSUME NEW w \in Workers, Interrupt(w) PROVE TypeOK'
  BY <1>22 DEF Interrupt, Owns
<1>23. ASSUME NEW w \in Workers, Discard(w) PROVE TypeOK'
  BY <1>23 DEF Discard
<1>24. ASSUME NEW w \in Workers, Renew(w) PROVE TypeOK'
  BY <1>24 DEF Renew, Owns
<1>25. ASSUME NEW w \in Workers, WatchEnds(w) PROVE TypeOK'
  BY <1>25 DEF WatchEnds, PipeContent
<1>26. ASSUME NEW w \in Workers, WriteFails(w) PROVE TypeOK'
  BY <1>26 DEF WriteFails
<1>27. ASSUME NEW c \in Claims, ChildLock(c) PROVE TypeOK'
  BY <1>27 DEF ChildLock, ChildStep
<1>28. ASSUME NEW c \in Claims, ChildBlocked(c) PROVE TypeOK'
  BY <1>28 DEF ChildBlocked, ChildStep
<1>29. ASSUME NEW c \in Claims, ChildBegin(c) PROVE TypeOK'
  BY <1>29 DEF ChildBegin, ChildStep, Owns
<1>30. ASSUME NEW c \in Claims, ChildDisowned(c) PROVE TypeOK'
  BY <1>30 DEF ChildDisowned, ChildStep, Release, Owns
<1>31. ASSUME NEW c \in Claims, ChildReply(c) PROVE TypeOK'
  BY <1>31 DEF ChildReply, ChildStep, Release
<1>32. ASSUME NEW c \in Claims, ChildDies(c) PROVE TypeOK'
  BY <1>32 DEF ChildDies, Release
<1>33. ASSUME NEW r \in Replicas, Crash(r) PROVE TypeOK'
  BY <1>33 DEF Crash
<1>34. ASSUME NEW r \in Replicas, Restart(r) PROVE TypeOK'
  BY <1>34 DEF Restart
<1>35. CASE UNCHANGED vars
  BY <1>35 DEF vars
<1> QED
  BY <1>1, <1>2, <1>3, <1>4, <1>5, <1>6, <1>7, <1>8, <1>9, <1>10, <1>11, <1>12, <1>13,
     <1>14, <1>15, <1>16, <1>17, <1>18, <1>19, <1>20, <1>21, <1>22, <1>23, <1>24,
     <1>25, <1>26, <1>27, <1>28, <1>29, <1>30, <1>31, <1>32, <1>33, <1>34, <1>35
     DEF Next, ClaimStep, SettleStep, ChildSteps

\* Every step keeps rows, tokens and claims in agreement.
LEMMA ClaimsStep == IInv /\ [Next]_vars => ClaimsAgree'
<1> SUFFICES ASSUME IInv, [Next]_vars
             PROVE  ClaimsAgree'
  OBVIOUS
<1> USE ConstantsAssumption DEF IInv, TypeOK, ClaimsAgree, WorkersAgree, Jobs, Claims, NoJob,
     NoClaim, Free, Recovery, Status, Pending, Active,
     Terminal, Live, ChildState, Claiming, Busy, PC, shared, rowVars, childVars, claimVars, taskVars,
     workerVars, history, ghosts
<1>1. ASSUME NEW t \in Tenants, Enqueue(t) PROVE ClaimsAgree'
  BY <1>1 DEF Enqueue
<1>2. ASSUME NEW j \in Jobs, Cancel(j) PROVE ClaimsAgree'
  BY <1>2 DEF Cancel, CancelOutcome
<1>3. ASSUME NEW j \in Jobs, LeaseExpires(j) PROVE ClaimsAgree'
  BY <1>3 DEF LeaseExpires
<1>4. ASSUME NEW j \in Jobs, ConnectionLost(j) PROVE ClaimsAgree'
  BY <1>4 DEF ConnectionLost
<1>5. ASSUME NEW w \in Workers, BeginClaim(w) PROVE ClaimsAgree'
  BY <1>5 DEF BeginClaim, InFlight, StaleRows
<1>6. ASSUME NEW w \in Workers, RecoverLock(w) PROVE ClaimsAgree'
  BY <1>6 DEF RecoverLock
<1>7. ASSUME NEW w \in Workers, RecoverSkip(w) PROVE ClaimsAgree'
  BY <1>7 DEF RecoverSkip
<1>8. ASSUME NEW w \in Workers, RecoverFence(w) PROVE ClaimsAgree'
  BY <1>8 DEF RecoverFence
<1>9. ASSUME NEW w \in Workers, RecoverDone(w) PROVE ClaimsAgree'
  BY <1>9 DEF RecoverDone
<1>10. ASSUME NEW w \in Workers, SelectLocal(w) PROVE ClaimsAgree'
  BY <1>10 DEF SelectLocal, Eligible, RowsOf
<1>11. ASSUME NEW w \in Workers, SelectNone(w) PROVE ClaimsAgree'
  BY <1>11 DEF SelectNone
<1>12. ASSUME NEW w \in Workers, SelectTenants(w) PROVE ClaimsAgree'
  BY <1>12 DEF SelectTenants, Eligible
<1>13. ASSUME NEW w \in Workers, TenantSkip(w) PROVE ClaimsAgree'
  BY <1>13 DEF TenantSkip
<1>14. ASSUME NEW w \in Workers, TenantLock(w) PROVE ClaimsAgree'
  BY <1>14 DEF TenantLock, Oldest, RowsOf
<1>15. ASSUME NEW w \in Workers, TenantsDone(w) PROVE ClaimsAgree'
  BY <1>15 DEF TenantsDone, Unlocked
<1>16. ASSUME NEW w \in Workers, ClaimRow(w) PROVE ClaimsAgree'
  BY <1>16 DEF ClaimRow, Unlocked
<1>17. ASSUME NEW w \in Workers, ClaimMissed(w) PROVE ClaimsAgree'
  BY <1>17 DEF ClaimMissed
<1>18. ASSUME NEW w \in Workers, Spawn(w) PROVE ClaimsAgree'
  BY <1>18 DEF Spawn
<1>19. ASSUME NEW w \in Workers, TerminateChild(w) PROVE ClaimsAgree'
  BY <1>19 DEF TerminateChild, Release
<1>20. ASSUME NEW w \in Workers, Settle(w) PROVE ClaimsAgree'
  BY <1>20 DEF Settle, Owns
<1>21. ASSUME NEW w \in Workers, Finish(w) PROVE ClaimsAgree'
  BY <1>21 DEF Finish, Owns, FinishStatus
<1>22. ASSUME NEW w \in Workers, Interrupt(w) PROVE ClaimsAgree'
  BY <1>22 DEF Interrupt, Owns
<1>23. ASSUME NEW w \in Workers, Discard(w) PROVE ClaimsAgree'
  BY <1>23 DEF Discard
<1>24. ASSUME NEW w \in Workers, Renew(w) PROVE ClaimsAgree'
  BY <1>24 DEF Renew, Owns
<1>25. ASSUME NEW w \in Workers, WatchEnds(w) PROVE ClaimsAgree'
  BY <1>25 DEF WatchEnds, PipeContent
<1>26. ASSUME NEW w \in Workers, WriteFails(w) PROVE ClaimsAgree'
  BY <1>26 DEF WriteFails
<1>27. ASSUME NEW c \in Claims, ChildLock(c) PROVE ClaimsAgree'
  BY <1>27 DEF ChildLock, ChildStep
<1>28. ASSUME NEW c \in Claims, ChildBlocked(c) PROVE ClaimsAgree'
  BY <1>28 DEF ChildBlocked, ChildStep
<1>29. ASSUME NEW c \in Claims, ChildBegin(c) PROVE ClaimsAgree'
  BY <1>29 DEF ChildBegin, ChildStep, Owns
<1>30. ASSUME NEW c \in Claims, ChildDisowned(c) PROVE ClaimsAgree'
  BY <1>30 DEF ChildDisowned, ChildStep, Release, Owns
<1>31. ASSUME NEW c \in Claims, ChildReply(c) PROVE ClaimsAgree'
  BY <1>31 DEF ChildReply, ChildStep, Release
<1>32. ASSUME NEW c \in Claims, ChildDies(c) PROVE ClaimsAgree'
  BY <1>32 DEF ChildDies, Release
<1>33. ASSUME NEW r \in Replicas, Crash(r) PROVE ClaimsAgree'
  BY <1>33 DEF Crash
<1>34. ASSUME NEW r \in Replicas, Restart(r) PROVE ClaimsAgree'
  BY <1>34 DEF Restart
<1>35. CASE UNCHANGED vars
  BY <1>35 DEF vars
<1> QED
  BY <1>1, <1>2, <1>3, <1>4, <1>5, <1>6, <1>7, <1>8, <1>9, <1>10, <1>11, <1>12, <1>13,
     <1>14, <1>15, <1>16, <1>17, <1>18, <1>19, <1>20, <1>21, <1>22, <1>23, <1>24,
     <1>25, <1>26, <1>27, <1>28, <1>29, <1>30, <1>31, <1>32, <1>33, <1>34, <1>35
     DEF Next, ClaimStep, SettleStep, ChildSteps

\* Every step keeps workers and their claims in agreement.
LEMMA WorkersStep == IInv /\ [Next]_vars => WorkersAgree'
<1> SUFFICES ASSUME IInv, [Next]_vars
             PROVE  WorkersAgree'
  OBVIOUS
<1> USE ConstantsAssumption DEF IInv, TypeOK, WorkersAgree, ClaimsAgree, Jobs, Claims, NoJob,
     NoClaim, Free, Recovery, Status, Pending, Active,
     Terminal, Live, ChildState, Claiming, Busy, PC, shared, rowVars, childVars, claimVars, taskVars,
     workerVars, history, ghosts
<1>1. ASSUME NEW t \in Tenants, Enqueue(t) PROVE WorkersAgree'
  BY <1>1 DEF Enqueue
<1>2. ASSUME NEW j \in Jobs, Cancel(j) PROVE WorkersAgree'
  BY <1>2 DEF Cancel, CancelOutcome
<1>3. ASSUME NEW j \in Jobs, LeaseExpires(j) PROVE WorkersAgree'
  BY <1>3 DEF LeaseExpires
<1>4. ASSUME NEW j \in Jobs, ConnectionLost(j) PROVE WorkersAgree'
  BY <1>4 DEF ConnectionLost
<1>5. ASSUME NEW w \in Workers, BeginClaim(w) PROVE WorkersAgree'
  BY <1>5 DEF BeginClaim, InFlight, StaleRows
<1>6. ASSUME NEW w \in Workers, RecoverLock(w) PROVE WorkersAgree'
  BY <1>6 DEF RecoverLock
<1>7. ASSUME NEW w \in Workers, RecoverSkip(w) PROVE WorkersAgree'
  BY <1>7 DEF RecoverSkip
<1>8. ASSUME NEW w \in Workers, RecoverFence(w) PROVE WorkersAgree'
  BY <1>8 DEF RecoverFence
<1>9. ASSUME NEW w \in Workers, RecoverDone(w) PROVE WorkersAgree'
  BY <1>9 DEF RecoverDone
<1>10. ASSUME NEW w \in Workers, SelectLocal(w) PROVE WorkersAgree'
  BY <1>10 DEF SelectLocal, Eligible, RowsOf
<1>11. ASSUME NEW w \in Workers, SelectNone(w) PROVE WorkersAgree'
  BY <1>11 DEF SelectNone
<1>12. ASSUME NEW w \in Workers, SelectTenants(w) PROVE WorkersAgree'
  BY <1>12 DEF SelectTenants, Eligible
<1>13. ASSUME NEW w \in Workers, TenantSkip(w) PROVE WorkersAgree'
  BY <1>13 DEF TenantSkip
<1>14. ASSUME NEW w \in Workers, TenantLock(w) PROVE WorkersAgree'
  <2>1. PICK j \in Jobs : target' = [target EXCEPT ![w] = j]
    BY <1>14 DEF TenantLock
  <2>2. pc' = [pc EXCEPT ![w] = "claim"] /\ UNCHANGED <<mine, claimed>> /\ mine[w] = NoClaim
    BY <1>14 DEF TenantLock
  <2> QED
    BY <2>1, <2>2
<1>15. ASSUME NEW w \in Workers, TenantsDone(w) PROVE WorkersAgree'
  BY <1>15 DEF TenantsDone, Unlocked
<1>16. ASSUME NEW w \in Workers, ClaimRow(w) PROVE WorkersAgree'
  <2> DEFINE c == claims + 1
  <2>1. c \in Claims /\ claimed[c] = NoJob /\ target[w] # NoJob
    BY <1>16 DEF ClaimRow
  <2>2. mine' = [mine EXCEPT ![w] = c] /\ \A v \in Workers : mine[v] # c
    BY <1>16, <2>1 DEF ClaimRow
  <2>3. pc' = [pc EXCEPT ![w] = "spawn"] /\ target' = [target EXCEPT ![w] = NoJob]
    BY <1>16 DEF ClaimRow
  <2>4. claimed' = [claimed EXCEPT ![c] = target[w]]
    BY <1>16 DEF ClaimRow
  <2> HIDE DEF c
  <2> QED
    BY <2>1, <2>2, <2>3, <2>4
<1>17. ASSUME NEW w \in Workers, ClaimMissed(w) PROVE WorkersAgree'
  BY <1>17 DEF ClaimMissed
<1>18. ASSUME NEW w \in Workers, Spawn(w) PROVE WorkersAgree'
  BY <1>18 DEF Spawn
<1>19. ASSUME NEW w \in Workers, TerminateChild(w) PROVE WorkersAgree'
  BY <1>19 DEF TerminateChild, Release
<1>20. ASSUME NEW w \in Workers, Settle(w) PROVE WorkersAgree'
  BY <1>20 DEF Settle, Owns
<1>21. ASSUME NEW w \in Workers, Finish(w) PROVE WorkersAgree'
  BY <1>21 DEF Finish, Owns, FinishStatus
<1>22. ASSUME NEW w \in Workers, Interrupt(w) PROVE WorkersAgree'
  BY <1>22 DEF Interrupt, Owns
<1>23. ASSUME NEW w \in Workers, Discard(w) PROVE WorkersAgree'
  BY <1>23 DEF Discard
<1>24. ASSUME NEW w \in Workers, Renew(w) PROVE WorkersAgree'
  BY <1>24 DEF Renew, Owns
<1>25. ASSUME NEW w \in Workers, WatchEnds(w) PROVE WorkersAgree'
  BY <1>25 DEF WatchEnds, PipeContent
<1>26. ASSUME NEW w \in Workers, WriteFails(w) PROVE WorkersAgree'
  BY <1>26 DEF WriteFails
<1>27. ASSUME NEW c \in Claims, ChildLock(c) PROVE WorkersAgree'
  BY <1>27 DEF ChildLock, ChildStep
<1>28. ASSUME NEW c \in Claims, ChildBlocked(c) PROVE WorkersAgree'
  BY <1>28 DEF ChildBlocked, ChildStep
<1>29. ASSUME NEW c \in Claims, ChildBegin(c) PROVE WorkersAgree'
  BY <1>29 DEF ChildBegin, ChildStep, Owns
<1>30. ASSUME NEW c \in Claims, ChildDisowned(c) PROVE WorkersAgree'
  BY <1>30 DEF ChildDisowned, ChildStep, Release, Owns
<1>31. ASSUME NEW c \in Claims, ChildReply(c) PROVE WorkersAgree'
  BY <1>31 DEF ChildReply, ChildStep, Release
<1>32. ASSUME NEW c \in Claims, ChildDies(c) PROVE WorkersAgree'
  BY <1>32 DEF ChildDies, Release
<1>33. ASSUME NEW r \in Replicas, Crash(r) PROVE WorkersAgree'
  BY <1>33 DEF Crash
<1>34. ASSUME NEW r \in Replicas, Restart(r) PROVE WorkersAgree'
  BY <1>34 DEF Restart
<1>35. CASE UNCHANGED vars
  BY <1>35 DEF vars
<1> QED
  BY <1>1, <1>2, <1>3, <1>4, <1>5, <1>6, <1>7, <1>8, <1>9, <1>10, <1>11, <1>12, <1>13,
     <1>14, <1>15, <1>16, <1>17, <1>18, <1>19, <1>20, <1>21, <1>22, <1>23, <1>24,
     <1>25, <1>26, <1>27, <1>28, <1>29, <1>30, <1>31, <1>32, <1>33, <1>34, <1>35
     DEF Next, ClaimStep, SettleStep, ChildSteps

\* Every step keeps the recorded outcomes true.
LEMMA OutcomesStep == IInv /\ [Next]_vars => OutcomesAgree'
<1> SUFFICES ASSUME IInv, [Next]_vars
             PROVE  OutcomesAgree'
  OBVIOUS
<1> USE ConstantsAssumption DEF IInv, TypeOK, OutcomesAgree, ClaimsAgree, WorkersAgree, Jobs,
     Claims, NoJob, NoClaim, Free, Recovery, Status, Pending, Active,
     Terminal, Live, ChildState, Claiming, Busy, PC, shared, rowVars, childVars, claimVars, taskVars,
     workerVars, history, ghosts
<1>1. ASSUME NEW t \in Tenants, Enqueue(t) PROVE OutcomesAgree'
  BY <1>1 DEF Enqueue
<1>2. ASSUME NEW j \in Jobs, Cancel(j) PROVE OutcomesAgree'
  BY <1>2 DEF Cancel, CancelOutcome
<1>3. ASSUME NEW j \in Jobs, LeaseExpires(j) PROVE OutcomesAgree'
  BY <1>3 DEF LeaseExpires
<1>4. ASSUME NEW j \in Jobs, ConnectionLost(j) PROVE OutcomesAgree'
  BY <1>4 DEF ConnectionLost
<1>5. ASSUME NEW w \in Workers, BeginClaim(w) PROVE OutcomesAgree'
  BY <1>5 DEF BeginClaim, InFlight, StaleRows
<1>6. ASSUME NEW w \in Workers, RecoverLock(w) PROVE OutcomesAgree'
  BY <1>6 DEF RecoverLock
<1>7. ASSUME NEW w \in Workers, RecoverSkip(w) PROVE OutcomesAgree'
  BY <1>7 DEF RecoverSkip
<1>8. ASSUME NEW w \in Workers, RecoverFence(w) PROVE OutcomesAgree'
  BY <1>8 DEF RecoverFence
<1>9. ASSUME NEW w \in Workers, RecoverDone(w) PROVE OutcomesAgree'
  BY <1>9 DEF RecoverDone
<1>10. ASSUME NEW w \in Workers, SelectLocal(w) PROVE OutcomesAgree'
  BY <1>10 DEF SelectLocal, Eligible, RowsOf
<1>11. ASSUME NEW w \in Workers, SelectNone(w) PROVE OutcomesAgree'
  BY <1>11 DEF SelectNone
<1>12. ASSUME NEW w \in Workers, SelectTenants(w) PROVE OutcomesAgree'
  BY <1>12 DEF SelectTenants, Eligible
<1>13. ASSUME NEW w \in Workers, TenantSkip(w) PROVE OutcomesAgree'
  BY <1>13 DEF TenantSkip
<1>14. ASSUME NEW w \in Workers, TenantLock(w) PROVE OutcomesAgree'
  BY <1>14 DEF TenantLock, Oldest, RowsOf
<1>15. ASSUME NEW w \in Workers, TenantsDone(w) PROVE OutcomesAgree'
  BY <1>15 DEF TenantsDone, Unlocked
<1>16. ASSUME NEW w \in Workers, ClaimRow(w) PROVE OutcomesAgree'
  <2> DEFINE c == claims + 1
  <2>1. c \in Claims /\ child[c] = "none"
    BY <1>16 DEF ClaimRow
  <2>2. mine' = [mine EXCEPT ![w] = c] /\ mine[w] = NoClaim
    BY <1>16 DEF ClaimRow
  <2>4. reply[w] # "ok"
    BY <2>2
  <2>3. pc' = [pc EXCEPT ![w] = "spawn"] /\ UNCHANGED <<child, reply, began, completed>>
    BY <1>16 DEF ClaimRow
  <2> HIDE DEF c
  <2> QED
    BY <2>1, <2>2, <2>3, <2>4
<1>17. ASSUME NEW w \in Workers, ClaimMissed(w) PROVE OutcomesAgree'
  BY <1>17 DEF ClaimMissed
<1>18. ASSUME NEW w \in Workers, Spawn(w) PROVE OutcomesAgree'
  BY <1>18 DEF Spawn
<1>19. ASSUME NEW w \in Workers, TerminateChild(w) PROVE OutcomesAgree'
  BY <1>19 DEF TerminateChild, Release
<1>20. ASSUME NEW w \in Workers, Settle(w) PROVE OutcomesAgree'
  BY <1>20 DEF Settle, Owns
<1>21. ASSUME NEW w \in Workers, Finish(w) PROVE OutcomesAgree'
  BY <1>21 DEF Finish, Owns, FinishStatus
<1>22. ASSUME NEW w \in Workers, Interrupt(w) PROVE OutcomesAgree'
  BY <1>22 DEF Interrupt, Owns
<1>23. ASSUME NEW w \in Workers, Discard(w) PROVE OutcomesAgree'
  BY <1>23 DEF Discard
<1>24. ASSUME NEW w \in Workers, Renew(w) PROVE OutcomesAgree'
  BY <1>24 DEF Renew, Owns
<1>25. ASSUME NEW w \in Workers, WatchEnds(w) PROVE OutcomesAgree'
  BY <1>25 DEF WatchEnds, PipeContent
<1>26. ASSUME NEW w \in Workers, WriteFails(w) PROVE OutcomesAgree'
  BY <1>26 DEF WriteFails
<1>27. ASSUME NEW c \in Claims, ChildLock(c) PROVE OutcomesAgree'
  BY <1>27 DEF ChildLock, ChildStep
<1>28. ASSUME NEW c \in Claims, ChildBlocked(c) PROVE OutcomesAgree'
  BY <1>28 DEF ChildBlocked, ChildStep
<1>29. ASSUME NEW c \in Claims, ChildBegin(c) PROVE OutcomesAgree'
  BY <1>29 DEF ChildBegin, ChildStep, Owns
<1>30. ASSUME NEW c \in Claims, ChildDisowned(c) PROVE OutcomesAgree'
  BY <1>30 DEF ChildDisowned, ChildStep, Release, Owns
<1>31. ASSUME NEW c \in Claims, ChildReply(c) PROVE OutcomesAgree'
  <2>1. PICK r \in {"ok", "error"} :
                /\ child[c] = "running" /\ child' = [child EXCEPT ![c] = r]
                /\ completed' = IF r = "ok" THEN completed \cup {c} ELSE completed
    BY <1>31 DEF ChildReply, ChildStep
  <2>2. UNCHANGED <<pc, mine, reply, began>>
    BY <1>31 DEF ChildReply
  <2> QED
    BY <2>1, <2>2
<1>32. ASSUME NEW c \in Claims, ChildDies(c) PROVE OutcomesAgree'
  BY <1>32 DEF ChildDies, Release
<1>33. ASSUME NEW r \in Replicas, Crash(r) PROVE OutcomesAgree'
  BY <1>33 DEF Crash
<1>34. ASSUME NEW r \in Replicas, Restart(r) PROVE OutcomesAgree'
  BY <1>34 DEF Restart
<1>35. CASE UNCHANGED vars
  BY <1>35 DEF vars
<1> QED
  BY <1>1, <1>2, <1>3, <1>4, <1>5, <1>6, <1>7, <1>8, <1>9, <1>10, <1>11, <1>12, <1>13,
     <1>14, <1>15, <1>16, <1>17, <1>18, <1>19, <1>20, <1>21, <1>22, <1>23, <1>24,
     <1>25, <1>26, <1>27, <1>28, <1>29, <1>30, <1>31, <1>32, <1>33, <1>34, <1>35
     DEF Next, ClaimStep, SettleStep, ChildSteps

\* Every step keeps SucceededCompleted.
LEMMA SucceededStep == IInv /\ [Next]_vars => SucceededCompleted'
<1> SUFFICES ASSUME IInv, [Next]_vars
             PROVE  SucceededCompleted'
  OBVIOUS
<1> USE ConstantsAssumption DEF IInv, TypeOK, SucceededCompleted, ClaimsAgree, WorkersAgree,
     OutcomesAgree, Jobs, Claims, NoJob, NoClaim, Free, Recovery, Status, Pending, Active,
     Terminal, Live, ChildState, Claiming, Busy, PC, shared, rowVars, childVars, claimVars, taskVars,
     workerVars, history, ghosts
<1>1. ASSUME NEW t \in Tenants, Enqueue(t) PROVE SucceededCompleted'
  BY <1>1 DEF Enqueue
<1>2. ASSUME NEW j \in Jobs, Cancel(j) PROVE SucceededCompleted'
  BY <1>2 DEF Cancel, CancelOutcome
<1>3. ASSUME NEW j \in Jobs, LeaseExpires(j) PROVE SucceededCompleted'
  BY <1>3 DEF LeaseExpires
<1>4. ASSUME NEW j \in Jobs, ConnectionLost(j) PROVE SucceededCompleted'
  BY <1>4 DEF ConnectionLost
<1>5. ASSUME NEW w \in Workers, BeginClaim(w) PROVE SucceededCompleted'
  BY <1>5 DEF BeginClaim, InFlight, StaleRows
<1>6. ASSUME NEW w \in Workers, RecoverLock(w) PROVE SucceededCompleted'
  BY <1>6 DEF RecoverLock
<1>7. ASSUME NEW w \in Workers, RecoverSkip(w) PROVE SucceededCompleted'
  BY <1>7 DEF RecoverSkip
<1>8. ASSUME NEW w \in Workers, RecoverFence(w) PROVE SucceededCompleted'
  BY <1>8 DEF RecoverFence
<1>9. ASSUME NEW w \in Workers, RecoverDone(w) PROVE SucceededCompleted'
  BY <1>9 DEF RecoverDone
<1>10. ASSUME NEW w \in Workers, SelectLocal(w) PROVE SucceededCompleted'
  BY <1>10 DEF SelectLocal, Eligible, RowsOf
<1>11. ASSUME NEW w \in Workers, SelectNone(w) PROVE SucceededCompleted'
  BY <1>11 DEF SelectNone
<1>12. ASSUME NEW w \in Workers, SelectTenants(w) PROVE SucceededCompleted'
  BY <1>12 DEF SelectTenants, Eligible
<1>13. ASSUME NEW w \in Workers, TenantSkip(w) PROVE SucceededCompleted'
  BY <1>13 DEF TenantSkip
<1>14. ASSUME NEW w \in Workers, TenantLock(w) PROVE SucceededCompleted'
  BY <1>14 DEF TenantLock, Oldest, RowsOf
<1>15. ASSUME NEW w \in Workers, TenantsDone(w) PROVE SucceededCompleted'
  BY <1>15 DEF TenantsDone, Unlocked
<1>16. ASSUME NEW w \in Workers, ClaimRow(w) PROVE SucceededCompleted'
  BY <1>16 DEF ClaimRow, Unlocked
<1>17. ASSUME NEW w \in Workers, ClaimMissed(w) PROVE SucceededCompleted'
  BY <1>17 DEF ClaimMissed
<1>18. ASSUME NEW w \in Workers, Spawn(w) PROVE SucceededCompleted'
  BY <1>18 DEF Spawn
<1>19. ASSUME NEW w \in Workers, TerminateChild(w) PROVE SucceededCompleted'
  BY <1>19 DEF TerminateChild, Release
<1>20. ASSUME NEW w \in Workers, Settle(w) PROVE SucceededCompleted'
  BY <1>20 DEF Settle, Owns
<1>21. ASSUME NEW w \in Workers, Finish(w) PROVE SucceededCompleted'
  BY <1>21 DEF Finish, Owns, FinishStatus
<1>22. ASSUME NEW w \in Workers, Interrupt(w) PROVE SucceededCompleted'
  BY <1>22 DEF Interrupt, Owns
<1>23. ASSUME NEW w \in Workers, Discard(w) PROVE SucceededCompleted'
  BY <1>23 DEF Discard
<1>24. ASSUME NEW w \in Workers, Renew(w) PROVE SucceededCompleted'
  BY <1>24 DEF Renew, Owns
<1>25. ASSUME NEW w \in Workers, WatchEnds(w) PROVE SucceededCompleted'
  BY <1>25 DEF WatchEnds, PipeContent
<1>26. ASSUME NEW w \in Workers, WriteFails(w) PROVE SucceededCompleted'
  BY <1>26 DEF WriteFails
<1>27. ASSUME NEW c \in Claims, ChildLock(c) PROVE SucceededCompleted'
  BY <1>27 DEF ChildLock, ChildStep
<1>28. ASSUME NEW c \in Claims, ChildBlocked(c) PROVE SucceededCompleted'
  BY <1>28 DEF ChildBlocked, ChildStep
<1>29. ASSUME NEW c \in Claims, ChildBegin(c) PROVE SucceededCompleted'
  BY <1>29 DEF ChildBegin, ChildStep, Owns
<1>30. ASSUME NEW c \in Claims, ChildDisowned(c) PROVE SucceededCompleted'
  BY <1>30 DEF ChildDisowned, ChildStep, Release, Owns
<1>31. ASSUME NEW c \in Claims, ChildReply(c) PROVE SucceededCompleted'
  BY <1>31 DEF ChildReply, ChildStep, Release
<1>32. ASSUME NEW c \in Claims, ChildDies(c) PROVE SucceededCompleted'
  BY <1>32 DEF ChildDies, Release
<1>33. ASSUME NEW r \in Replicas, Crash(r) PROVE SucceededCompleted'
  BY <1>33 DEF Crash
<1>34. ASSUME NEW r \in Replicas, Restart(r) PROVE SucceededCompleted'
  BY <1>34 DEF Restart
<1>35. CASE UNCHANGED vars
  BY <1>35 DEF vars
<1> QED
  BY <1>1, <1>2, <1>3, <1>4, <1>5, <1>6, <1>7, <1>8, <1>9, <1>10, <1>11, <1>12, <1>13,
     <1>14, <1>15, <1>16, <1>17, <1>18, <1>19, <1>20, <1>21, <1>22, <1>23, <1>24,
     <1>25, <1>26, <1>27, <1>28, <1>29, <1>30, <1>31, <1>32, <1>33, <1>34, <1>35
     DEF Next, ClaimStep, SettleStep, ChildSteps

\* Without lost connections, every step leaves each lock with its holder.
LEMMA LocksStep == IInv /\ ~ConnectionsFail /\ [Next]_vars => LocksAgree'
<1> SUFFICES ASSUME IInv, ~ConnectionsFail, [Next]_vars
             PROVE  LocksAgree'
  OBVIOUS
<1> USE ConstantsAssumption DEF IInv, TypeOK, LocksAgree, ClaimsAgree, WorkersAgree,
     OutcomesAgree, LiveWriterNotFenced, Owns, Jobs, Claims, NoJob, NoClaim, Free, Recovery,
     Status, Pending, Active,
     Terminal, Live, ChildState, Claiming, Busy, PC, shared, rowVars, childVars, claimVars, taskVars,
     workerVars, history, ghosts
<1>1. ASSUME NEW t \in Tenants, Enqueue(t) PROVE LocksAgree'
  BY <1>1 DEF Enqueue
<1>2. ASSUME NEW j \in Jobs, Cancel(j) PROVE LocksAgree'
  BY <1>2 DEF Cancel, CancelOutcome
<1>3. ASSUME NEW j \in Jobs, LeaseExpires(j) PROVE LocksAgree'
  BY <1>3 DEF LeaseExpires
<1>4. ASSUME NEW j \in Jobs, ConnectionLost(j) PROVE LocksAgree'
  BY <1>4 DEF ConnectionLost
<1>5. ASSUME NEW w \in Workers, BeginClaim(w) PROVE LocksAgree'
  BY <1>5 DEF BeginClaim, InFlight, StaleRows
<1>6. ASSUME NEW w \in Workers, RecoverLock(w) PROVE LocksAgree'
  BY <1>6 DEF RecoverLock
<1>7. ASSUME NEW w \in Workers, RecoverSkip(w) PROVE LocksAgree'
  BY <1>7 DEF RecoverSkip
<1>8. ASSUME NEW w \in Workers, RecoverFence(w) PROVE LocksAgree'
  BY <1>8 DEF RecoverFence
<1>9. ASSUME NEW w \in Workers, RecoverDone(w) PROVE LocksAgree'
  BY <1>9 DEF RecoverDone
<1>10. ASSUME NEW w \in Workers, SelectLocal(w) PROVE LocksAgree'
  BY <1>10 DEF SelectLocal, Eligible, RowsOf
<1>11. ASSUME NEW w \in Workers, SelectNone(w) PROVE LocksAgree'
  BY <1>11 DEF SelectNone
<1>12. ASSUME NEW w \in Workers, SelectTenants(w) PROVE LocksAgree'
  BY <1>12 DEF SelectTenants, Eligible
<1>13. ASSUME NEW w \in Workers, TenantSkip(w) PROVE LocksAgree'
  BY <1>13 DEF TenantSkip
<1>14. ASSUME NEW w \in Workers, TenantLock(w) PROVE LocksAgree'
  BY <1>14 DEF TenantLock, Oldest, RowsOf
<1>15. ASSUME NEW w \in Workers, TenantsDone(w) PROVE LocksAgree'
  BY <1>15 DEF TenantsDone, Unlocked
<1>16. ASSUME NEW w \in Workers, ClaimRow(w) PROVE LocksAgree'
  BY <1>16 DEF ClaimRow, Unlocked
<1>17. ASSUME NEW w \in Workers, ClaimMissed(w) PROVE LocksAgree'
  BY <1>17 DEF ClaimMissed
<1>18. ASSUME NEW w \in Workers, Spawn(w) PROVE LocksAgree'
  BY <1>18 DEF Spawn
<1>19. ASSUME NEW w \in Workers, TerminateChild(w) PROVE LocksAgree'
  BY <1>19 DEF TerminateChild, Release
<1>20. ASSUME NEW w \in Workers, Settle(w) PROVE LocksAgree'
  BY <1>20 DEF Settle, Owns
<1>21. ASSUME NEW w \in Workers, Finish(w) PROVE LocksAgree'
  BY <1>21 DEF Finish, Owns, FinishStatus
<1>22. ASSUME NEW w \in Workers, Interrupt(w) PROVE LocksAgree'
  BY <1>22 DEF Interrupt, Owns
<1>23. ASSUME NEW w \in Workers, Discard(w) PROVE LocksAgree'
  BY <1>23 DEF Discard
<1>24. ASSUME NEW w \in Workers, Renew(w) PROVE LocksAgree'
  BY <1>24 DEF Renew, Owns
<1>25. ASSUME NEW w \in Workers, WatchEnds(w) PROVE LocksAgree'
  BY <1>25 DEF WatchEnds, PipeContent
<1>26. ASSUME NEW w \in Workers, WriteFails(w) PROVE LocksAgree'
  BY <1>26 DEF WriteFails
<1>27. ASSUME NEW c \in Claims, ChildLock(c) PROVE LocksAgree'
  BY <1>27 DEF ChildLock, ChildStep
<1>28. ASSUME NEW c \in Claims, ChildBlocked(c) PROVE LocksAgree'
  BY <1>28 DEF ChildBlocked, ChildStep
<1>29. ASSUME NEW c \in Claims, ChildBegin(c) PROVE LocksAgree'
  BY <1>29 DEF ChildBegin, ChildStep, Owns
<1>30. ASSUME NEW c \in Claims, ChildDisowned(c) PROVE LocksAgree'
  BY <1>30 DEF ChildDisowned, ChildStep, Release, Owns
<1>31. ASSUME NEW c \in Claims, ChildReply(c) PROVE LocksAgree'
  BY <1>31 DEF ChildReply, ChildStep, Release
<1>32. ASSUME NEW c \in Claims, ChildDies(c) PROVE LocksAgree'
  BY <1>32 DEF ChildDies, Release
<1>33. ASSUME NEW r \in Replicas, Crash(r) PROVE LocksAgree'
  BY <1>33 DEF Crash
<1>34. ASSUME NEW r \in Replicas, Restart(r) PROVE LocksAgree'
  BY <1>34 DEF Restart
<1>35. CASE UNCHANGED vars
  BY <1>35 DEF vars
<1> QED
  BY <1>1, <1>2, <1>3, <1>4, <1>5, <1>6, <1>7, <1>8, <1>9, <1>10, <1>11, <1>12, <1>13,
     <1>14, <1>15, <1>16, <1>17, <1>18, <1>19, <1>20, <1>21, <1>22, <1>23, <1>24,
     <1>25, <1>26, <1>27, <1>28, <1>29, <1>30, <1>31, <1>32, <1>33, <1>34, <1>35
     DEF Next, ClaimStep, SettleStep, ChildSteps

\* Without lost connections, no step settles a row that is executing.
LEMMA LiveWriterStep == IInv /\ ~ConnectionsFail /\ [Next]_vars => LiveWriterNotFenced'
<1> SUFFICES ASSUME IInv, ~ConnectionsFail, [Next]_vars
             PROVE  LiveWriterNotFenced'
  OBVIOUS
<1> USE ConstantsAssumption DEF IInv, TypeOK, LiveWriterNotFenced, ClaimsAgree, WorkersAgree,
     OutcomesAgree, LocksAgree, Owns, Jobs, Claims, NoJob, NoClaim, Free, Recovery, Status,
     Pending, Active,
     Terminal, Live, ChildState, Claiming, Busy, PC, shared, rowVars, childVars, claimVars, taskVars,
     workerVars, history, ghosts
<1>1. ASSUME NEW t \in Tenants, Enqueue(t) PROVE LiveWriterNotFenced'
  BY <1>1 DEF Enqueue
<1>2. ASSUME NEW j \in Jobs, Cancel(j) PROVE LiveWriterNotFenced'
  BY <1>2 DEF Cancel, CancelOutcome
<1>3. ASSUME NEW j \in Jobs, LeaseExpires(j) PROVE LiveWriterNotFenced'
  BY <1>3 DEF LeaseExpires
<1>4. ASSUME NEW j \in Jobs, ConnectionLost(j) PROVE LiveWriterNotFenced'
  BY <1>4 DEF ConnectionLost
<1>5. ASSUME NEW w \in Workers, BeginClaim(w) PROVE LiveWriterNotFenced'
  BY <1>5 DEF BeginClaim, InFlight, StaleRows
<1>6. ASSUME NEW w \in Workers, RecoverLock(w) PROVE LiveWriterNotFenced'
  BY <1>6 DEF RecoverLock
<1>7. ASSUME NEW w \in Workers, RecoverSkip(w) PROVE LiveWriterNotFenced'
  BY <1>7 DEF RecoverSkip
<1>8. ASSUME NEW w \in Workers, RecoverFence(w) PROVE LiveWriterNotFenced'
  BY <1>8 DEF RecoverFence
<1>9. ASSUME NEW w \in Workers, RecoverDone(w) PROVE LiveWriterNotFenced'
  BY <1>9 DEF RecoverDone
<1>10. ASSUME NEW w \in Workers, SelectLocal(w) PROVE LiveWriterNotFenced'
  BY <1>10 DEF SelectLocal, Eligible, RowsOf
<1>11. ASSUME NEW w \in Workers, SelectNone(w) PROVE LiveWriterNotFenced'
  BY <1>11 DEF SelectNone
<1>12. ASSUME NEW w \in Workers, SelectTenants(w) PROVE LiveWriterNotFenced'
  BY <1>12 DEF SelectTenants, Eligible
<1>13. ASSUME NEW w \in Workers, TenantSkip(w) PROVE LiveWriterNotFenced'
  BY <1>13 DEF TenantSkip
<1>14. ASSUME NEW w \in Workers, TenantLock(w) PROVE LiveWriterNotFenced'
  BY <1>14 DEF TenantLock, Oldest, RowsOf
<1>15. ASSUME NEW w \in Workers, TenantsDone(w) PROVE LiveWriterNotFenced'
  BY <1>15 DEF TenantsDone, Unlocked
<1>16. ASSUME NEW w \in Workers, ClaimRow(w) PROVE LiveWriterNotFenced'
  BY <1>16 DEF ClaimRow, Unlocked
<1>17. ASSUME NEW w \in Workers, ClaimMissed(w) PROVE LiveWriterNotFenced'
  BY <1>17 DEF ClaimMissed
<1>18. ASSUME NEW w \in Workers, Spawn(w) PROVE LiveWriterNotFenced'
  BY <1>18 DEF Spawn
<1>19. ASSUME NEW w \in Workers, TerminateChild(w) PROVE LiveWriterNotFenced'
  BY <1>19 DEF TerminateChild, Release
<1>20. ASSUME NEW w \in Workers, Settle(w) PROVE LiveWriterNotFenced'
  BY <1>20 DEF Settle, Owns
<1>21. ASSUME NEW w \in Workers, Finish(w) PROVE LiveWriterNotFenced'
  <2>1. ASSUME NEW c \in Claims, child[c] = "running"
        PROVE  claimed[c] \in Jobs /\ claimed[c] # claimed[mine[w]] /\ Owns(c, Active)
    BY <1>21, <2>1 DEF Finish
  <2>2. \A j \in Jobs : j # claimed[mine[w]] => status'[j] = status[j]
    BY <1>21 DEF Finish, FinishStatus
  <2>3. UNCHANGED <<child, claimed, token>>
    BY <1>21 DEF Finish
  <2> SUFFICES ASSUME NEW c \in Claims, child'[c] = "running"
               PROVE  token'[claimed'[c]] = c /\ status'[claimed'[c]] \in Active
    OBVIOUS
  <2>4. claimed[c] \in Jobs /\ claimed[c] # claimed[mine[w]]
    BY <2>1, <2>3
  <2>5. token[claimed[c]] = c /\ status[claimed[c]] \in Active
    BY <2>1, <2>3
  <2>6. status'[claimed[c]] = status[claimed[c]]
    BY <2>2, <2>4
  <2> QED
    BY <2>3, <2>5, <2>6
<1>22. ASSUME NEW w \in Workers, Interrupt(w) PROVE LiveWriterNotFenced'
  BY <1>22 DEF Interrupt, Owns
<1>23. ASSUME NEW w \in Workers, Discard(w) PROVE LiveWriterNotFenced'
  BY <1>23 DEF Discard
<1>24. ASSUME NEW w \in Workers, Renew(w) PROVE LiveWriterNotFenced'
  BY <1>24 DEF Renew, Owns
<1>25. ASSUME NEW w \in Workers, WatchEnds(w) PROVE LiveWriterNotFenced'
  BY <1>25 DEF WatchEnds, PipeContent
<1>26. ASSUME NEW w \in Workers, WriteFails(w) PROVE LiveWriterNotFenced'
  BY <1>26 DEF WriteFails
<1>27. ASSUME NEW c \in Claims, ChildLock(c) PROVE LiveWriterNotFenced'
  BY <1>27 DEF ChildLock, ChildStep
<1>28. ASSUME NEW c \in Claims, ChildBlocked(c) PROVE LiveWriterNotFenced'
  BY <1>28 DEF ChildBlocked, ChildStep
<1>29. ASSUME NEW c \in Claims, ChildBegin(c) PROVE LiveWriterNotFenced'
  BY <1>29 DEF ChildBegin, ChildStep, Owns
<1>30. ASSUME NEW c \in Claims, ChildDisowned(c) PROVE LiveWriterNotFenced'
  BY <1>30 DEF ChildDisowned, ChildStep, Release, Owns
<1>31. ASSUME NEW c \in Claims, ChildReply(c) PROVE LiveWriterNotFenced'
  BY <1>31 DEF ChildReply, ChildStep, Release
<1>32. ASSUME NEW c \in Claims, ChildDies(c) PROVE LiveWriterNotFenced'
  BY <1>32 DEF ChildDies, Release
<1>33. ASSUME NEW r \in Replicas, Crash(r) PROVE LiveWriterNotFenced'
  BY <1>33 DEF Crash
<1>34. ASSUME NEW r \in Replicas, Restart(r) PROVE LiveWriterNotFenced'
  BY <1>34 DEF Restart
<1>35. CASE UNCHANGED vars
  BY <1>35 DEF vars
<1> QED
  BY <1>1, <1>2, <1>3, <1>4, <1>5, <1>6, <1>7, <1>8, <1>9, <1>10, <1>11, <1>12, <1>13,
     <1>14, <1>15, <1>16, <1>17, <1>18, <1>19, <1>20, <1>21, <1>22, <1>23, <1>24,
     <1>25, <1>26, <1>27, <1>28, <1>29, <1>30, <1>31, <1>32, <1>33, <1>34, <1>35
     DEF Next, ClaimStep, SettleStep, ChildSteps

\* In a cluster, every step leaves a tenant at most one active row.
LEMMA TenantsStep == IInv /\ Distributed /\ [Next]_vars => TenantsAgree'
<1> SUFFICES ASSUME IInv, Distributed, [Next]_vars
             PROVE  TenantsAgree'
  OBVIOUS
<1> USE ConstantsAssumption DEF IInv, TypeOK, TenantsAgree, OneActiveJobPerTenant,
     ClaimsAgree, WorkersAgree, Owns, Jobs, Claims, NoJob, NoClaim, Free, Recovery, Status,
     Pending, Active,
     Terminal, Live, ChildState, Claiming, Busy, PC, shared, rowVars, childVars, claimVars, taskVars,
     workerVars, history, ghosts
<1>1. ASSUME NEW t \in Tenants, Enqueue(t) PROVE TenantsAgree'
  BY <1>1 DEF Enqueue
<1>2. ASSUME NEW j \in Jobs, Cancel(j) PROVE TenantsAgree'
  BY <1>2 DEF Cancel, CancelOutcome
<1>3. ASSUME NEW j \in Jobs, LeaseExpires(j) PROVE TenantsAgree'
  BY <1>3 DEF LeaseExpires
<1>4. ASSUME NEW j \in Jobs, ConnectionLost(j) PROVE TenantsAgree'
  BY <1>4 DEF ConnectionLost
<1>5. ASSUME NEW w \in Workers, BeginClaim(w) PROVE TenantsAgree'
  BY <1>5 DEF BeginClaim, InFlight, StaleRows
<1>6. ASSUME NEW w \in Workers, RecoverLock(w) PROVE TenantsAgree'
  BY <1>6 DEF RecoverLock
<1>7. ASSUME NEW w \in Workers, RecoverSkip(w) PROVE TenantsAgree'
  BY <1>7 DEF RecoverSkip
<1>8. ASSUME NEW w \in Workers, RecoverFence(w) PROVE TenantsAgree'
  BY <1>8 DEF RecoverFence
<1>9. ASSUME NEW w \in Workers, RecoverDone(w) PROVE TenantsAgree'
  BY <1>9 DEF RecoverDone
<1>10. ASSUME NEW w \in Workers, SelectLocal(w) PROVE TenantsAgree'
  BY <1>10 DEF SelectLocal
<1>11. ASSUME NEW w \in Workers, SelectNone(w) PROVE TenantsAgree'
  BY <1>11 DEF SelectNone
<1>12. ASSUME NEW w \in Workers, SelectTenants(w) PROVE TenantsAgree'
  BY <1>12 DEF SelectTenants, Eligible
<1>13. ASSUME NEW w \in Workers, TenantSkip(w) PROVE TenantsAgree'
  BY <1>13 DEF TenantSkip
<1>14. ASSUME NEW w \in Workers, TenantLock(w) PROVE TenantsAgree'
  <2>1. PICK t \in Tenants, j \in Jobs :
                /\ tlock[t] \in {NoWorker, w} /\ tlock' = [tlock EXCEPT ![t] = w]
                /\ RowsOf(t, Active) = {} /\ Oldest(t, j)
                /\ target' = [target EXCEPT ![w] = j]
    BY <1>14 DEF TenantLock
  <2>2. tenant[j] = t /\ status[j] = "queued"
    BY <2>1 DEF Oldest, RowsOf
  <2>3. \A k \in Jobs : tenant[k] = t => status[k] \notin Active
    BY <2>1 DEF RowsOf
  <2>4. pc' = [pc EXCEPT ![w] = "claim"] /\ UNCHANGED <<status, tenant>>
    BY <1>14 DEF TenantLock
  <2> QED
    BY <2>1, <2>2, <2>3, <2>4
<1>15. ASSUME NEW w \in Workers, TenantsDone(w) PROVE TenantsAgree'
  BY <1>15 DEF TenantsDone, Unlocked
<1>16. ASSUME NEW w \in Workers, ClaimRow(w) PROVE TenantsAgree'
  BY <1>16 DEF ClaimRow, Unlocked
<1>17. ASSUME NEW w \in Workers, ClaimMissed(w) PROVE TenantsAgree'
  BY <1>17 DEF ClaimMissed
<1>18. ASSUME NEW w \in Workers, Spawn(w) PROVE TenantsAgree'
  BY <1>18 DEF Spawn
<1>19. ASSUME NEW w \in Workers, TerminateChild(w) PROVE TenantsAgree'
  BY <1>19 DEF TerminateChild, Release
<1>20. ASSUME NEW w \in Workers, Settle(w) PROVE TenantsAgree'
  BY <1>20 DEF Settle, Owns
<1>21. ASSUME NEW w \in Workers, Finish(w) PROVE TenantsAgree'
  BY <1>21 DEF Finish, Owns, FinishStatus
<1>22. ASSUME NEW w \in Workers, Interrupt(w) PROVE TenantsAgree'
  BY <1>22 DEF Interrupt, Owns
<1>23. ASSUME NEW w \in Workers, Discard(w) PROVE TenantsAgree'
  BY <1>23 DEF Discard
<1>24. ASSUME NEW w \in Workers, Renew(w) PROVE TenantsAgree'
  BY <1>24 DEF Renew, Owns
<1>25. ASSUME NEW w \in Workers, WatchEnds(w) PROVE TenantsAgree'
  BY <1>25 DEF WatchEnds, PipeContent
<1>26. ASSUME NEW w \in Workers, WriteFails(w) PROVE TenantsAgree'
  BY <1>26 DEF WriteFails
<1>27. ASSUME NEW c \in Claims, ChildLock(c) PROVE TenantsAgree'
  BY <1>27 DEF ChildLock, ChildStep
<1>28. ASSUME NEW c \in Claims, ChildBlocked(c) PROVE TenantsAgree'
  BY <1>28 DEF ChildBlocked, ChildStep
<1>29. ASSUME NEW c \in Claims, ChildBegin(c) PROVE TenantsAgree'
  BY <1>29 DEF ChildBegin, ChildStep, Owns
<1>30. ASSUME NEW c \in Claims, ChildDisowned(c) PROVE TenantsAgree'
  BY <1>30 DEF ChildDisowned, ChildStep, Release, Owns
<1>31. ASSUME NEW c \in Claims, ChildReply(c) PROVE TenantsAgree'
  BY <1>31 DEF ChildReply, ChildStep, Release
<1>32. ASSUME NEW c \in Claims, ChildDies(c) PROVE TenantsAgree'
  BY <1>32 DEF ChildDies, Release
<1>33. ASSUME NEW r \in Replicas, Crash(r) PROVE TenantsAgree'
  BY <1>33 DEF Crash
<1>34. ASSUME NEW r \in Replicas, Restart(r) PROVE TenantsAgree'
  BY <1>34 DEF Restart
<1>35. CASE UNCHANGED vars
  BY <1>35 DEF vars
<1> QED
  BY <1>1, <1>2, <1>3, <1>4, <1>5, <1>6, <1>7, <1>8, <1>9, <1>10, <1>11, <1>12, <1>13,
     <1>14, <1>15, <1>16, <1>17, <1>18, <1>19, <1>20, <1>21, <1>22, <1>23, <1>24,
     <1>25, <1>26, <1>27, <1>28, <1>29, <1>30, <1>31, <1>32, <1>33, <1>34, <1>35
     DEF Next, ClaimStep, SettleStep, ChildSteps

\* No step changes a settled row.
LEMMA FinalStep ==
  IInv /\ [Next]_vars =>
    \A j \in Jobs : status[j] \in Terminal => status'[j] = status[j]
<1> SUFFICES ASSUME IInv, [Next]_vars, NEW k \in Jobs, status[k] \in Terminal
             PROVE  status'[k] = status[k]
  OBVIOUS
<1> USE ConstantsAssumption DEF IInv, TypeOK, ClaimsAgree, Jobs, Claims, NoJob, NoClaim, Free,
     Recovery, Status, Pending, Active,
     Terminal, Live, ChildState, Claiming, Busy, PC, shared, rowVars, childVars, claimVars, taskVars,
     workerVars, history, ghosts
<1>1. ASSUME NEW t \in Tenants, Enqueue(t) PROVE status'[k] = status[k]
  BY <1>1 DEF Enqueue
<1>2. ASSUME NEW j \in Jobs, Cancel(j) PROVE status'[k] = status[k]
  BY <1>2 DEF Cancel, CancelOutcome
<1>3. ASSUME NEW j \in Jobs, LeaseExpires(j) PROVE status'[k] = status[k]
  BY <1>3 DEF LeaseExpires
<1>4. ASSUME NEW j \in Jobs, ConnectionLost(j) PROVE status'[k] = status[k]
  BY <1>4 DEF ConnectionLost
<1>5. ASSUME NEW w \in Workers, BeginClaim(w) PROVE status'[k] = status[k]
  BY <1>5 DEF BeginClaim, InFlight, StaleRows
<1>6. ASSUME NEW w \in Workers, RecoverLock(w) PROVE status'[k] = status[k]
  BY <1>6 DEF RecoverLock
<1>7. ASSUME NEW w \in Workers, RecoverSkip(w) PROVE status'[k] = status[k]
  BY <1>7 DEF RecoverSkip
<1>8. ASSUME NEW w \in Workers, RecoverFence(w) PROVE status'[k] = status[k]
  BY <1>8 DEF RecoverFence
<1>9. ASSUME NEW w \in Workers, RecoverDone(w) PROVE status'[k] = status[k]
  BY <1>9 DEF RecoverDone
<1>10. ASSUME NEW w \in Workers, SelectLocal(w) PROVE status'[k] = status[k]
  BY <1>10 DEF SelectLocal, Eligible, RowsOf
<1>11. ASSUME NEW w \in Workers, SelectNone(w) PROVE status'[k] = status[k]
  BY <1>11 DEF SelectNone
<1>12. ASSUME NEW w \in Workers, SelectTenants(w) PROVE status'[k] = status[k]
  BY <1>12 DEF SelectTenants, Eligible
<1>13. ASSUME NEW w \in Workers, TenantSkip(w) PROVE status'[k] = status[k]
  BY <1>13 DEF TenantSkip
<1>14. ASSUME NEW w \in Workers, TenantLock(w) PROVE status'[k] = status[k]
  BY <1>14 DEF TenantLock, Oldest, RowsOf
<1>15. ASSUME NEW w \in Workers, TenantsDone(w) PROVE status'[k] = status[k]
  BY <1>15 DEF TenantsDone, Unlocked
<1>16. ASSUME NEW w \in Workers, ClaimRow(w) PROVE status'[k] = status[k]
  BY <1>16 DEF ClaimRow, Unlocked
<1>17. ASSUME NEW w \in Workers, ClaimMissed(w) PROVE status'[k] = status[k]
  BY <1>17 DEF ClaimMissed
<1>18. ASSUME NEW w \in Workers, Spawn(w) PROVE status'[k] = status[k]
  BY <1>18 DEF Spawn
<1>19. ASSUME NEW w \in Workers, TerminateChild(w) PROVE status'[k] = status[k]
  BY <1>19 DEF TerminateChild, Release
<1>20. ASSUME NEW w \in Workers, Settle(w) PROVE status'[k] = status[k]
  BY <1>20 DEF Settle, Owns
<1>21. ASSUME NEW w \in Workers, Finish(w) PROVE status'[k] = status[k]
  BY <1>21 DEF Finish, Owns, FinishStatus
<1>22. ASSUME NEW w \in Workers, Interrupt(w) PROVE status'[k] = status[k]
  BY <1>22 DEF Interrupt, Owns
<1>23. ASSUME NEW w \in Workers, Discard(w) PROVE status'[k] = status[k]
  BY <1>23 DEF Discard
<1>24. ASSUME NEW w \in Workers, Renew(w) PROVE status'[k] = status[k]
  BY <1>24 DEF Renew, Owns
<1>25. ASSUME NEW w \in Workers, WatchEnds(w) PROVE status'[k] = status[k]
  BY <1>25 DEF WatchEnds, PipeContent
<1>26. ASSUME NEW w \in Workers, WriteFails(w) PROVE status'[k] = status[k]
  BY <1>26 DEF WriteFails
<1>27. ASSUME NEW c \in Claims, ChildLock(c) PROVE status'[k] = status[k]
  BY <1>27 DEF ChildLock, ChildStep
<1>28. ASSUME NEW c \in Claims, ChildBlocked(c) PROVE status'[k] = status[k]
  BY <1>28 DEF ChildBlocked, ChildStep
<1>29. ASSUME NEW c \in Claims, ChildBegin(c) PROVE status'[k] = status[k]
  BY <1>29 DEF ChildBegin, ChildStep, Owns
<1>30. ASSUME NEW c \in Claims, ChildDisowned(c) PROVE status'[k] = status[k]
  BY <1>30 DEF ChildDisowned, ChildStep, Release, Owns
<1>31. ASSUME NEW c \in Claims, ChildReply(c) PROVE status'[k] = status[k]
  BY <1>31 DEF ChildReply, ChildStep, Release
<1>32. ASSUME NEW c \in Claims, ChildDies(c) PROVE status'[k] = status[k]
  BY <1>32 DEF ChildDies, Release
<1>33. ASSUME NEW r \in Replicas, Crash(r) PROVE status'[k] = status[k]
  BY <1>33 DEF Crash
<1>34. ASSUME NEW r \in Replicas, Restart(r) PROVE status'[k] = status[k]
  BY <1>34 DEF Restart
<1>35. CASE UNCHANGED vars
  BY <1>35 DEF vars
<1> QED
  BY <1>1, <1>2, <1>3, <1>4, <1>5, <1>6, <1>7, <1>8, <1>9, <1>10, <1>11, <1>12, <1>13,
     <1>14, <1>15, <1>16, <1>17, <1>18, <1>19, <1>20, <1>21, <1>22, <1>23, <1>24,
     <1>25, <1>26, <1>27, <1>28, <1>29, <1>30, <1>31, <1>32, <1>33, <1>34, <1>35
     DEF Next, ClaimStep, SettleStep, ChildSteps

--------------------------------------------------------------------------------
(* Theorems *)

\* An empty queue with idle workers satisfies the inductive invariant.
LEMMA InitIInv == Init => IInv
<1> SUFFICES ASSUME Init PROVE IInv
  OBVIOUS
<1> USE ConstantsAssumption DEF Init, Jobs, Claims, NoJob, NoClaim, Free, Active, Busy,
     Claiming
<1>1. TypeOK
  BY DEF TypeOK, Status, ChildState, PC
<1>2. ClaimsAgree /\ WorkersAgree
  BY DEF ClaimsAgree, WorkersAgree
<1>3. OutcomesAgree /\ SucceededCompleted
  BY DEF OutcomesAgree, SucceededCompleted
<1>4. LocksAgree /\ LiveWriterNotFenced
  BY DEF LocksAgree, LiveWriterNotFenced
<1>5. TenantsAgree
  BY DEF TenantsAgree, OneActiveJobPerTenant
<1> QED
  BY <1>1, <1>2, <1>3, <1>4, <1>5 DEF IInv

\* Every step of a client, worker, child, crash or clock keeps the inductive invariant.
LEMMA StepIInv == IInv /\ [Next]_vars => IInv'
<1>1. IInv /\ [Next]_vars /\ ~ConnectionsFail => LocksAgree' /\ LiveWriterNotFenced'
  BY LocksStep, LiveWriterStep
<1>2. IInv /\ [Next]_vars /\ Distributed => TenantsAgree'
  BY TenantsStep
<1> QED
  BY <1>1, <1>2, TypeStep, ClaimsStep, WorkersStep, OutcomesStep, SucceededStep DEF IInv

\* The inductive invariant holds of every reachable state.
THEOREM Invariance == Spec => []IInv
BY InitIInv, StepIInv, PTL DEF Spec

\* Every variable keeps its type.
THEOREM TypeCorrect == Spec => []TypeOK
<1>1. IInv => TypeOK
  BY DEF IInv
<1> QED
  BY <1>1, Invariance, PTL

\* However many workers, crashes, expired leases and lost connections: a job's operation
\* begins to execute at most once.
THEOREM ExecutedAtMostOnce == Spec => []AtMostOneExecution
<1>1. IInv => AtMostOneExecution
  <2> SUFFICES ASSUME IInv, NEW c \in began, NEW d \in began, claimed[c] = claimed[d]
               PROVE  c = d
    BY DEF AtMostOneExecution
  <2>1. c \in Claims /\ d \in Claims
    BY DEF IInv, TypeOK
  <2>2. claimed[c] # NoJob /\ claimed[d] # NoJob
    BY <2>1 DEF IInv, ClaimsAgree
  <2>3. token[claimed[c]] = c /\ token[claimed[d]] = d
    BY <2>1, <2>2 DEF IInv, ClaimsAgree
  <2> QED
    BY <2>3
<1> QED
  BY <1>1, Invariance, PTL

\* While no lock-holding connection is lost, a row is settled only when nothing executes it.
THEOREM WritersAreNotFenced == ~ConnectionsFail => (Spec => []LiveWriterNotFenced)
<1> SUFFICES ASSUME ~ConnectionsFail PROVE Spec => []LiveWriterNotFenced
  OBVIOUS
<1>1. IInv => LiveWriterNotFenced
  BY DEF IInv
<1> QED
  BY <1>1, Invariance, PTL

\* A cancelled row was never claimed.
THEOREM CancellationIsClean == Spec => []CancelledNeverRan
<1>1. IInv => CancelledNeverRan
  BY DEF IInv, TypeOK, ClaimsAgree, CancelledNeverRan, Claims, Jobs, NoJob, NoClaim
<1> QED
  BY <1>1, Invariance, PTL

\* A row reported succeeded was executed, with success, under its own claim.
THEOREM SuccessIsTrue == Spec => []SucceededCompleted
<1>1. IInv => SucceededCompleted
  BY DEF IInv
<1> QED
  BY <1>1, Invariance, PTL

\* In a cluster a tenant never has two active rows.
THEOREM OneActiveRow == Distributed => (Spec => []OneActiveJobPerTenant)
<1> SUFFICES ASSUME Distributed PROVE Spec => []OneActiveJobPerTenant
  OBVIOUS
<1>1. IInv => OneActiveJobPerTenant
  BY DEF IInv, TenantsAgree
<1> QED
  BY <1>1, Invariance, PTL

\* A settled row never changes again.
THEOREM SettlementIsFinal == Spec => SettledIsFinal
<1>1. IInv /\ [Next]_vars =>
        [\A j \in Jobs : status[j] \in Terminal => status'[j] = status[j]]_vars
  BY FinalStep
<1> QED
  BY <1>1, Invariance, PTL DEF Spec, SettledIsFinal

--------------------------------------------------------------------------------
(* The queue implements its contract *)

Executing == {claimed[c] : c \in {d \in Claims : child[d] = "running"}}
Begun == {claimed[c] : c \in began}

\* The initial rows of the queue are the initial state of its contract.
LEMMA InitRefines == Init => Contract!Init
BY ConstantsAssumption DEF Init, Contract!Init, Jobs, Claims

\* Steps that change neither a status, nor what executes, nor what has begun are
\* invisible to the contract.
LEMMA Invisible ==
  ASSUME UNCHANGED <<status, claimed, began>>,
         \A c \in Claims : child'[c] = "running" <=> child[c] = "running"
  PROVE  UNCHANGED Contract!vars
BY DEF Contract!vars

\* A row a worker settles, or recovery fences under its execution lock, is not executing.
LEMMA SettledRowIdle ==
  ASSUME IInv, ~ConnectionsFail, NEW j \in Jobs,
         \/ \E w \in Workers : pc[w] = "fence" /\ target[w] = j
         \/ \E w \in Workers : pc[w] \in {"finish", "interrupt"} /\ claimed[mine[w]] = j
  PROVE  j \notin Executing
<1> SUFFICES ASSUME NEW c \in Claims, child[c] = "running", claimed[c] = j
             PROVE  FALSE
  BY DEF Executing
<1> USE ConstantsAssumption DEF IInv, Jobs, Claims, NoJob, NoClaim, Recovery, Busy
<1>1. token[j] = c /\ lock[j] = c
  BY DEF ClaimsAgree, LocksAgree
<1>2. CASE \E w \in Workers : pc[w] = "fence" /\ target[w] = j
  BY <1>1, <1>2 DEF LocksAgree
<1>3. ASSUME NEW w \in Workers, pc[w] \in {"finish", "interrupt"}, claimed[mine[w]] = j
      PROVE  FALSE
  <2>1. mine[w] \in Claims /\ claimed[mine[w]] # NoJob /\ child[mine[w]] = "exited"
    BY <1>3 DEF TypeOK, WorkersAgree, OutcomesAgree
  <2>2. token[claimed[mine[w]]] = mine[w]
    BY <2>1 DEF ClaimsAgree
  <2> QED
    BY <1>1, <1>3, <2>1, <2>2
<1> QED
  BY <1>2, <1>3

\* The end of a claim's execution is a stop of its job, or invisible.
LEMMA StopRefines ==
  ASSUME IInv, NEW c \in Claims, NEW s \in {"exited", "ok", "error"},
         child' = [child EXCEPT ![c] = s], UNCHANGED <<status, claimed, began>>
  PROVE  Contract!Next \/ UNCHANGED Contract!vars
<1>1. CASE child[c] # "running"
  BY <1>1, Invisible DEF IInv, TypeOK
<1>2. CASE child[c] = "running"
  <2>1. claimed[c] \in Jobs /\ claimed[c] \in Executing
    BY <1>2 DEF IInv, TypeOK, ClaimsAgree, NoJob, Executing
  <2>2. \A d \in Claims : child[d] = "running" /\ claimed[d] = claimed[c] => d = c
    BY <1>2 DEF IInv, ClaimsAgree, NoJob, TypeOK, Jobs
  <2>3. Executing' = Executing \ {claimed[c]}
    BY <1>2, <2>2 DEF Executing, IInv, TypeOK
  <2>4. Contract!Stop(claimed[c])
    BY <2>1, <2>3 DEF Contract!Stop, Executing
  <2> QED
    BY <2>1, <2>4 DEF Contract!Next, Contract!Stop
<1> QED
  BY <1>1, <1>2

\* The start of an execution is the only one of its job, and its row is running.
LEMMA BeginRefines ==
  ASSUME IInv, NEW c \in Claims, ChildBegin(c)
  PROVE  Contract!Next
<1>1. child[c] = "locked" /\ child' = [child EXCEPT ![c] = "running"]
  BY DEF ChildBegin, ChildStep
<1>2. claimed[c] \in Jobs /\ status[claimed[c]] = "running" /\ token[claimed[c]] = c
  BY <1>1 DEF ChildBegin, Owns, IInv, TypeOK, ClaimsAgree, NoJob
<1>3. claimed[c] \notin Begun
  <2> SUFFICES ASSUME NEW d \in began, claimed[d] = claimed[c] PROVE FALSE
    BY DEF Begun
  <2>1. d = c
    BY <1>2 DEF IInv, ClaimsAgree, TypeOK, NoJob, Jobs
  <2> QED
    BY <1>1, <2>1 DEF IInv, OutcomesAgree
<1>4. Begun' = Begun \cup {claimed[c]}
  BY DEF ChildBegin, Begun
<1>5. Executing' = Executing \cup {claimed[c]}
  BY <1>1 DEF ChildBegin, Executing, IInv, TypeOK
<1>6. Contract!Execute(claimed[c])
  BY <1>2, <1>3, <1>4, <1>5 DEF Contract!Execute, ChildBegin, Begun, Executing, shared, rowVars
<1> QED
  BY <1>2, <1>6 DEF Contract!Next, Contract!Execute

\* A row that is not executing may be settled; success requires a completed execution.
LEMMA SettleRefines ==
  ASSUME IInv, NEW j \in Jobs, j \notin Executing, UNCHANGED <<claimed, child, began>>,
         NEW s \in {"interrupted", "failed", "succeeded"},
         status' = [status EXCEPT ![j] = s],
         \/ s = "interrupted" /\ status[j] \in Active
         \/ s = "failed" /\ status[j] = "running"
         \/ s = "succeeded" /\ status[j] = "running" /\ j \in Begun
  PROVE  Contract!Next
<1>1. UNCHANGED <<Executing, Begun>>
  BY DEF Executing, Begun
<1>2. Contract!Settle(j)
  BY <1>1 DEF Contract!Settle, Contract!Moves, Executing, Begun, Active
<1> QED
  BY <1>2 DEF Contract!Next

\* Every step of the queue is a step of its contract, or invisible to it.
LEMMA StepRefines ==
  IInv /\ ~ConnectionsFail /\ [Next]_vars => Contract!Next \/ UNCHANGED Contract!vars
<1> SUFFICES ASSUME IInv, ~ConnectionsFail, [Next]_vars
             PROVE  Contract!Next \/ UNCHANGED Contract!vars
  OBVIOUS
<1> DEFINE Refines == Contract!Next \/ UNCHANGED Contract!vars
<1> USE ConstantsAssumption DEF shared, rowVars, childVars, claimVars, taskVars, workerVars,
     history, ghosts, Jobs, Claims, NoJob, NoClaim
<1>1. ASSUME NEW t \in Tenants, Enqueue(t) PROVE Refines
  <2>1. rows + 1 \in Jobs /\ status[rows + 1] = "absent"
    BY <1>1 DEF Enqueue, IInv, TypeOK, ClaimsAgree
  <2>2. UNCHANGED <<Executing, Begun>>
    BY <1>1 DEF Enqueue, Executing, Begun
  <2>3. Contract!Accept(rows + 1)
    BY <1>1, <2>1, <2>2 DEF Enqueue, Contract!Accept, Contract!Moves, Executing, Begun
  <2> QED
    BY <2>1, <2>3 DEF Contract!Next
<1>2. ASSUME NEW j \in Jobs, Cancel(j) PROVE Refines
  <2>1. UNCHANGED <<Executing, Begun>>
    BY <1>2 DEF Cancel, Executing, Begun
  <2>2. Contract!Cancel(j)
    BY <1>2, <2>1 DEF Cancel, CancelOutcome, Contract!Cancel, Contract!Moves, Executing, Begun
  <2> QED
    BY <2>2 DEF Contract!Next
<1>3. ASSUME NEW w \in Workers, RecoverFence(w) PROVE Refines
  <2>1. target[w] \in Jobs /\ pc[w] = "fence"
    BY <1>3 DEF RecoverFence, IInv, TypeOK, WorkersAgree
  <2>2. target[w] \notin Executing
    BY <2>1, SettledRowIdle
  <2>3. UNCHANGED <<claimed, child, began>>
    BY <1>3 DEF RecoverFence
  <2>4. CASE status[target[w]] \in Active /\ stale[target[w]]
    BY <1>3, <2>1, <2>2, <2>3, <2>4, SettleRefines DEF RecoverFence
  <2>5. CASE ~(status[target[w]] \in Active /\ stale[target[w]])
    <3>1. status' = status
      BY <1>3, <2>1, <2>5 DEF RecoverFence, IInv, TypeOK
    <3> QED
      BY <2>3, <3>1, Invisible
  <2> QED
    BY <2>4, <2>5
<1>4. ASSUME NEW w \in Workers, ClaimRow(w) PROVE Refines
  <2> DEFINE c == claims + 1
  <2>1. c \in Claims /\ child[c] = "none" /\ c \notin began
    BY <1>4 DEF ClaimRow, IInv, TypeOK, ClaimsAgree
  <2>2. target[w] \in Jobs /\ status[target[w]] = "queued"
    BY <1>4 DEF ClaimRow, IInv, TypeOK, WorkersAgree
  <2>3. claimed' = [claimed EXCEPT ![c] = target[w]] /\ UNCHANGED <<child, began>>
    BY <1>4 DEF ClaimRow
  <2>4. status' = [status EXCEPT ![target[w]] = "running"]
    BY <1>4 DEF ClaimRow
  <2>5. claimed \in [Claims -> Jobs \cup {NoJob}] /\ began \subseteq Claims
    BY DEF IInv, TypeOK
  <2> HIDE DEF c
  <2>6. \A d \in Claims : d # c => claimed'[d] = claimed[d]
    BY <2>3, <2>5
  <2>7. Executing' = Executing
    BY <2>1, <2>3, <2>6 DEF Executing
  <2>8. Begun' = Begun
    BY <2>1, <2>3, <2>5, <2>6 DEF Begun
  <2>9. Contract!Claim(target[w])
    BY <2>2, <2>4, <2>7, <2>8 DEF Contract!Claim, Contract!Moves, Executing, Begun
  <2> QED
    BY <2>2, <2>9 DEF Contract!Next
<1>5. ASSUME NEW w \in Workers, TerminateChild(w) PROVE Refines
  <2>1. mine[w] \in Claims
    BY <1>5 DEF TerminateChild, IInv, TypeOK, WorkersAgree, Busy
  <2> QED
    BY <1>5, <2>1, StopRefines DEF TerminateChild
<1>6. ASSUME NEW w \in Workers, Finish(w) PROVE Refines
  <2> DEFINE j == claimed[mine[w]]
  <2>1. pc[w] = "finish" /\ UNCHANGED <<claimed, child, began, mine>>
    BY <1>6 DEF Finish
  <2>2. mine[w] \in Claims /\ j \in Jobs /\ j \notin Executing
    <3>1. mine[w] \in Claims /\ j \in Jobs
      BY <2>1 DEF IInv, TypeOK, WorkersAgree, Busy
    <3> QED
      BY <2>1, <3>1, SettledRowIdle
  <2>3. CASE Owns(mine[w], {"running"})
             /\ \E s \in FinishStatus(reply[w]) : status' = [status EXCEPT ![j] = s]
    <3>1. PICK s \in FinishStatus(reply[w]) : status' = [status EXCEPT ![j] = s]
      BY <2>3
    <3>2. status[j] = "running" /\ s \in {"interrupted", "failed", "succeeded"}
      BY <2>3 DEF Owns, FinishStatus
    <3>3. s = "succeeded" => j \in Begun
      BY <3>1 DEF FinishStatus, Begun, IInv, OutcomesAgree
    <3> QED
      BY <2>1, <2>2, <3>1, <3>2, <3>3, SettleRefines DEF Active
  <2>4. CASE Owns(mine[w], {"cancelling"}) /\ status' = [status EXCEPT ![j] = "interrupted"]
    BY <2>1, <2>2, <2>4, SettleRefines DEF Owns, Active
  <2>5. CASE UNCHANGED status
    BY <2>1, <2>5, Invisible
  <2> QED
    BY <1>6, <2>3, <2>4, <2>5 DEF Finish
<1>7. ASSUME NEW w \in Workers, Interrupt(w) PROVE Refines
  <2> DEFINE j == claimed[mine[w]]
  <2>1. pc[w] = "interrupt" /\ UNCHANGED <<claimed, child, began, mine>>
    BY <1>7 DEF Interrupt
  <2>2. mine[w] \in Claims /\ j \in Jobs
    BY <2>1 DEF IInv, TypeOK, WorkersAgree, Busy
  <2>3. j \notin Executing
    BY <2>1, <2>2, SettledRowIdle
  <2>4. CASE Owns(mine[w], Active)
    BY <1>7, <2>1, <2>2, <2>3, <2>4, SettleRefines DEF Interrupt, Owns
  <2>5. CASE ~Owns(mine[w], Active)
    <3>1. status' = status
      BY <1>7, <2>2, <2>5 DEF Interrupt, IInv, TypeOK
    <3> QED
      BY <2>1, <3>1, Invisible
  <2> QED
    BY <2>4, <2>5
<1>8. ASSUME NEW w \in Workers, Spawn(w) PROVE Refines
  <2>1. mine[w] \in Claims /\ child[mine[w]] = "none"
    BY <1>8 DEF Spawn, IInv, TypeOK, WorkersAgree, OutcomesAgree, Busy
  <2>2. \A c \in Claims : child'[c] = "running" <=> child[c] = "running"
    BY <1>8, <2>1 DEF Spawn, IInv, TypeOK
  <2> QED
    BY <1>8, <2>2, Invisible DEF Spawn
<1>9. ASSUME NEW c \in Claims, ChildBegin(c) PROVE Refines
  BY <1>9, BeginRefines
<1>10. ASSUME NEW c \in Claims, ChildReply(c) PROVE Refines
  <2>1. PICK s \in {"ok", "error"} : child' = [child EXCEPT ![c] = s]
    BY <1>10 DEF ChildReply, ChildStep
  <2> QED
    BY <1>10, <2>1, StopRefines DEF ChildReply
<1>11. ASSUME NEW c \in Claims, ChildDisowned(c) \/ ChildDies(c) PROVE Refines
  BY <1>11, StopRefines DEF ChildDisowned, ChildDies, ChildStep
<1>12. ASSUME NEW c \in Claims, ChildBlocked(c) PROVE Refines
  BY <1>12, StopRefines DEF ChildBlocked, ChildStep
<1>13. ASSUME NEW c \in Claims, ChildLock(c) PROVE Refines
  <2>1. \A d \in Claims : child'[d] = "running" <=> child[d] = "running"
    BY <1>13 DEF ChildLock, ChildStep, IInv, TypeOK
  <2> QED
    BY <1>13, <2>1, Invisible DEF ChildLock
<1>14. CASE UNCHANGED <<status, claimed, child, began>>
  BY <1>14, Invisible
<1>15. ASSUME NEW w \in Workers, ClaimStep(w), ~RecoverFence(w), ~ClaimRow(w)
       PROVE  UNCHANGED <<status, claimed, child, began>>
  BY <1>15 DEF ClaimStep, BeginClaim, RecoverLock, RecoverSkip, RecoverDone, SelectLocal,
     SelectNone, SelectTenants, TenantSkip, TenantLock, TenantsDone, ClaimMissed
<1>16. ASSUME NEW w \in Workers, Settle(w) \/ Discard(w) \/ Renew(w) \/ WatchEnds(w) \/ WriteFails(w)
       PROVE  UNCHANGED <<status, claimed, child, began>>
  BY <1>16 DEF Settle, Discard, Renew, WatchEnds, WriteFails
<1>17. ASSUME NEW j \in Jobs, LeaseExpires(j) \/ ConnectionLost(j)
       PROVE  UNCHANGED <<status, claimed, child, began>>
  BY <1>17 DEF LeaseExpires, ConnectionLost
<1>18. ASSUME NEW r \in Replicas, Crash(r) \/ Restart(r)
       PROVE  UNCHANGED <<status, claimed, child, began>>
  BY <1>18 DEF Crash, Restart
<1>19. UNCHANGED vars => UNCHANGED <<status, claimed, child, began>>
  BY DEF vars
<1>20. Contract!Next \/ UNCHANGED Contract!vars
  BY <1>1, <1>2, <1>3, <1>4, <1>5, <1>6, <1>7, <1>8, <1>9, <1>10, <1>11, <1>12, <1>13, <1>14,
     <1>15, <1>16, <1>17, <1>18, <1>19 DEF Next, SettleStep, ChildSteps
<1> QED
  BY <1>20

\* While no lock-holding connection is lost, the queue with all its workers, leases,
\* locks and crashes implements the contract of a job.
THEOREM QueueImplementsContract == ~ConnectionsFail => (Spec => ImplementsContract)
<1> SUFFICES ASSUME ~ConnectionsFail PROVE Spec => ImplementsContract
  OBVIOUS
<1>1. IInv /\ [Next]_vars => [Contract!Next]_Contract!vars
  BY StepRefines
<1> QED
  BY <1>1, InitRefines, Invariance, PTL DEF Spec, ImplementsContract, Contract!Spec

--------------------------------------------------------------------------------
(* The threads of one replica *)

\* Under _claim_lock, a claimer's snapshot of the busy tenants of its replica stays
\* complete, and what it selects lies outside of it.
ReplicasAgree ==
  /\ \A v, w \in Workers :
       v # w /\ ReplicaOf[v] = ReplicaOf[w] /\ pc[v] \in Claiming => pc[w] \notin Claiming
  /\ \A v, w \in Workers :
       ReplicaOf[v] = ReplicaOf[w] /\ mine[v] # NoClaim /\ pc[w] \in Claiming =>
         tenant[claimed[mine[v]]] \in exclude[w]
  /\ \A w \in Workers :
       pc[w] = "tenants" \/ (Distributed /\ pc[w] = "claim") => heads[w] \cap exclude[w] = {}
  /\ \A w \in Workers : pc[w] = "claim" =>
       status[target[w]] # "absent" /\ tenant[target[w]] \notin exclude[w]
  /\ OneJobPerTenantInReplica

\* The agreement survives a step that leaves alone the claimers, their snapshots and
\* selections, and the tenants of existing rows; a thread may drop its own claim.
LEMMA ReplicasUndisturbed ==
  ASSUME IInv, ReplicasAgree, UNCHANGED <<exclude, heads, target, claimed>>,
         \A j \in Jobs : status[j] # "absent" => status'[j] # "absent" /\ tenant'[j] = tenant[j],
         \A w \in Workers : pc'[w] \in Claiming \/ pc[w] \in Claiming => pc'[w] = pc[w],
         \A w \in Workers : mine'[w] = mine[w] \/ mine'[w] = NoClaim
  PROVE  ReplicasAgree'
<1> USE DEF NoClaim, NoJob, Claims, Jobs, Claiming
<1>1. \A w \in Workers : mine'[w] # NoClaim =>
        mine'[w] = mine[w] /\ tenant'[claimed'[mine'[w]]] = tenant[claimed[mine[w]]]
  <2> SUFFICES ASSUME NEW w \in Workers, mine'[w] # NoClaim
               PROVE  mine'[w] = mine[w] /\ tenant'[claimed'[mine'[w]]] = tenant[claimed[mine[w]]]
    OBVIOUS
  <2>1. mine'[w] = mine[w] /\ mine[w] \in Claims /\ claimed[mine[w]] \in Jobs
    BY DEF IInv, TypeOK, WorkersAgree
  <2>2. token[claimed[mine[w]]] # NoClaim
    BY <2>1 DEF IInv, ClaimsAgree
  <2>3. status[claimed[mine[w]]] # "absent"
    BY <2>1, <2>2 DEF IInv, ClaimsAgree
  <2> QED
    BY <2>1, <2>3
<1>2. \A w \in Workers : pc'[w] = "claim" =>
        status'[target'[w]] # "absent" /\ tenant'[target'[w]] \notin exclude'[w]
  <2> SUFFICES ASSUME NEW w \in Workers, pc'[w] = "claim"
               PROVE  status'[target'[w]] # "absent" /\ tenant'[target'[w]] \notin exclude'[w]
    OBVIOUS
  <2>1. pc[w] = "claim" /\ target[w] \in Jobs
    BY DEF IInv, TypeOK, WorkersAgree
  <2> QED
    BY <2>1 DEF ReplicasAgree
<1>3. \A w \in Workers : pc'[w] \in Claiming => pc[w] = pc'[w]
  OBVIOUS
<1> QED
  BY <1>1, <1>2, <1>3 DEF ReplicasAgree, OneJobPerTenantInReplica

\* A claimer that moves on keeps its snapshot; what it now has selected lies outside of it.
LEMMA ClaimerMoves ==
  ASSUME IInv, ReplicasAgree, NEW w \in Workers, pc[w] \in Claiming,
         UNCHANGED <<tenant, claimed, exclude, mine>>,
         NEW p \in Claiming, pc' = [pc EXCEPT ![w] = p],
         \A j \in Jobs : status[j] # "absent" => status'[j] # "absent",
         \A v \in Workers \ {w} : heads'[v] = heads[v] /\ target'[v] = target[v],
         p = "tenants" \/ (Distributed /\ p = "claim") => heads'[w] \cap exclude[w] = {},
         p = "claim" => status'[target'[w]] # "absent" /\ tenant[target'[w]] \notin exclude[w]
  PROVE  ReplicasAgree'
<1> USE DEF NoClaim, NoJob, Jobs, Claiming
<1>1. \A v \in Workers : pc'[v] \in Claiming <=> pc[v] \in Claiming
  BY DEF IInv, TypeOK
<1>2. \A v \in Workers \ {w} : pc'[v] = pc[v]
  BY DEF IInv, TypeOK
<1>3. pc'[w] = p
  BY DEF IInv, TypeOK
<1>4. \A v \in Workers : pc'[v] = "claim" =>
        status'[target'[v]] # "absent" /\ tenant'[target'[v]] \notin exclude'[v]
  <2> SUFFICES ASSUME NEW v \in Workers, pc'[v] = "claim", v # w
               PROVE  status'[target'[v]] # "absent" /\ tenant'[target'[v]] \notin exclude'[v]
    BY <1>3
  <2>1. pc[v] = "claim" /\ target[v] \in Jobs
    BY <1>2 DEF IInv, TypeOK, WorkersAgree
  <2> QED
    BY <2>1 DEF ReplicasAgree
<1>5. \A v \in Workers : pc'[v] = "tenants" \/ (Distributed /\ pc'[v] = "claim") =>
        heads'[v] \cap exclude'[v] = {}
  BY <1>2, <1>3 DEF ReplicasAgree
<1> QED
  BY <1>1, <1>4, <1>5 DEF ReplicasAgree, OneJobPerTenantInReplica

\* Every step keeps the claimers of a replica apart and their snapshots complete.
LEMMA ReplicasStep == IInv /\ ReplicasAgree /\ [Next]_vars => ReplicasAgree'
<1> SUFFICES ASSUME IInv, ReplicasAgree, [Next]_vars
             PROVE  ReplicasAgree'
  OBVIOUS
<1> USE ConstantsAssumption DEF Jobs, Claims, NoJob, NoClaim, Claiming, Busy, shared, rowVars,
     childVars, claimVars, taskVars, workerVars, history, ghosts
<1> DEFINE Calm ==
       /\ UNCHANGED <<exclude, heads, target, claimed>>
       /\ \A j \in Jobs : status[j] # "absent" => status'[j] # "absent" /\ tenant'[j] = tenant[j]
       /\ \A w \in Workers : pc'[w] \in Claiming \/ pc[w] \in Claiming => pc'[w] = pc[w]
       /\ \A w \in Workers : mine'[w] = mine[w] \/ mine'[w] = NoClaim
<1>0. Calm => ReplicasAgree'
  BY ReplicasUndisturbed
<1>1. ASSUME NEW t \in Tenants, Enqueue(t) PROVE Calm
  BY <1>1 DEF Enqueue, IInv, TypeOK, ClaimsAgree
<1>2. ASSUME NEW j \in Jobs, Cancel(j) PROVE Calm
  BY <1>2 DEF Cancel, CancelOutcome, IInv, TypeOK
<1>3. ASSUME NEW j \in Jobs, LeaseExpires(j) \/ ConnectionLost(j) PROVE Calm
  BY <1>3 DEF LeaseExpires, ConnectionLost
<1>4. ASSUME NEW w \in Workers, SettleStep(w) \/ Renew(w) \/ WatchEnds(w) \/ WriteFails(w) PROVE Calm
  <2>1. CASE Spawn(w)
    BY <2>1 DEF Spawn, IInv, TypeOK
  <2>2. CASE TerminateChild(w)
    BY <2>2 DEF TerminateChild, IInv, TypeOK
  <2>3. CASE Settle(w)
    BY <2>3 DEF Settle, IInv, TypeOK
  <2>4. CASE Finish(w)
    <3>1. \A j \in Jobs : status[j] # "absent" => status'[j] # "absent"
      BY <2>4 DEF Finish, FinishStatus, IInv, TypeOK
    <3> QED
      BY <2>4, <3>1 DEF Finish, IInv, TypeOK
  <2>5. CASE Interrupt(w)
    <3>1. \A j \in Jobs : status[j] # "absent" => status'[j] # "absent"
      BY <2>5 DEF Interrupt, IInv, TypeOK
    <3> QED
      BY <2>5, <3>1 DEF Interrupt, IInv, TypeOK
  <2>6. CASE Discard(w)
    BY <2>6 DEF Discard, IInv, TypeOK
  <2>7. CASE Renew(w)
    BY <2>7 DEF Renew
  <2>8. CASE WatchEnds(w)
    BY <2>8 DEF WatchEnds, IInv, TypeOK
  <2>9. CASE WriteFails(w)
    BY <2>9 DEF WriteFails, IInv, TypeOK
  <2> QED
    BY <1>4, <2>1, <2>2, <2>3, <2>4, <2>5, <2>6, <2>7, <2>8, <2>9 DEF SettleStep
<1>5. ASSUME NEW c \in Claims, ChildSteps(c) \/ ChildDies(c) PROVE Calm
  BY <1>5 DEF ChildSteps, ChildLock, ChildBlocked, ChildBegin, ChildDisowned, ChildReply, ChildDies
<1>6. ASSUME NEW r \in Replicas, Restart(r) PROVE Calm
  BY <1>6 DEF Restart, IInv, TypeOK
<1>7. CASE UNCHANGED vars
  BY <1>0, <1>7 DEF vars
<1>8. ASSUME NEW w \in Workers, BeginClaim(w) PROVE ReplicasAgree'
  <2>1. pc' = [pc EXCEPT ![w] = "recover"] /\ pc[w] = "idle"
    BY <1>8 DEF BeginClaim
  <2>2. exclude' = [exclude EXCEPT ![w] = InFlight(w)]
        /\ UNCHANGED <<tenant, status, claimed, heads, target, mine>>
    BY <1>8 DEF BeginClaim
  <2>3. \A v \in Workers : v # w /\ ReplicaOf[v] = ReplicaOf[w] => pc[v] \notin Claiming
    BY <1>8 DEF BeginClaim, ClaimLockFree, Peers
  <2>4. \A v \in Workers : ReplicaOf[v] = ReplicaOf[w] /\ mine[v] # NoClaim =>
          tenant[claimed[mine[v]]] \in exclude'[w]
    BY <2>2 DEF InFlight, Peers, IInv, TypeOK
  <2>5. \A v \in Workers \ {w} : pc'[v] = pc[v] /\ exclude'[v] = exclude[v]
    BY <2>1, <2>2 DEF IInv, TypeOK
  <2>6. pc'[w] = "recover"
    BY <2>1 DEF IInv, TypeOK
  <2> QED
    BY <2>2, <2>3, <2>4, <2>5, <2>6 DEF ReplicasAgree, OneJobPerTenantInReplica
<1>9. ASSUME NEW w \in Workers, RecoverLock(w) PROVE ReplicasAgree'
  <2>1. PICK j \in Jobs : target' = [target EXCEPT ![w] = j]
    BY <1>9 DEF RecoverLock, IInv, TypeOK
  <2>2. \A v \in Workers \ {w} : heads'[v] = heads[v] /\ target'[v] = target[v]
    BY <1>9, <2>1 DEF RecoverLock, IInv, TypeOK
  <2> QED
    BY <1>9, <2>2, ClaimerMoves DEF RecoverLock
<1>10. ASSUME NEW w \in Workers, RecoverSkip(w) PROVE ReplicasAgree'
  BY <1>0, <1>10 DEF RecoverSkip
<1>11. ASSUME NEW w \in Workers, RecoverFence(w) PROVE ReplicasAgree'
  <2>1. \A v \in Workers \ {w} : heads'[v] = heads[v] /\ target'[v] = target[v]
    BY <1>11 DEF RecoverFence, IInv, TypeOK
  <2>2. \A j \in Jobs : status[j] # "absent" => status'[j] # "absent"
    BY <1>11 DEF RecoverFence, IInv, TypeOK
  <2> QED
    BY <1>11, <2>1, <2>2, ClaimerMoves DEF RecoverFence
<1>12. ASSUME NEW w \in Workers, RecoverDone(w) PROVE ReplicasAgree'
  BY <1>12, ClaimerMoves DEF RecoverDone
<1>13. ASSUME NEW w \in Workers, SelectLocal(w) PROVE ReplicasAgree'
  <2>1. PICK j \in UNION {RowsOf(t, {"queued"}) : t \in Eligible(w)} :
          target' = [target EXCEPT ![w] = j]
    BY <1>13 DEF SelectLocal
  <2>2. j \in Jobs /\ status[j] = "queued" /\ tenant[j] \notin exclude[w]
    BY <2>1 DEF RowsOf, Eligible
  <2>3. target'[w] = j /\ \A v \in Workers \ {w} : heads'[v] = heads[v] /\ target'[v] = target[v]
    BY <1>13, <2>1 DEF SelectLocal, IInv, TypeOK
  <2> QED
    BY <1>13, <2>2, <2>3, ClaimerMoves DEF SelectLocal
<1>14. ASSUME NEW w \in Workers, SelectTenants(w) PROVE ReplicasAgree'
  <2>1. heads'[w] \cap exclude[w] = {}
    BY <1>14 DEF SelectTenants, Eligible, IInv, TypeOK
  <2>2. \A v \in Workers \ {w} : heads'[v] = heads[v] /\ target'[v] = target[v]
    BY <1>14 DEF SelectTenants, IInv, TypeOK
  <2> QED
    BY <1>14, <2>1, <2>2, ClaimerMoves DEF SelectTenants
<1>15. ASSUME NEW w \in Workers, TenantSkip(w) PROVE ReplicasAgree'
  <2>1. PICK t \in heads[w] : heads' = [heads EXCEPT ![w] = @ \ {t}]
    BY <1>15 DEF TenantSkip
  <2>2. pc[w] = "tenants" /\ UNCHANGED <<pc, tenant, status, claimed, exclude, mine, target>>
    BY <1>15 DEF TenantSkip
  <2>3. heads'[w] \cap exclude[w] = {} /\ \A v \in Workers \ {w} : heads'[v] = heads[v]
    BY <2>1, <2>2 DEF ReplicasAgree, IInv, TypeOK
  <2>4. pc' = [pc EXCEPT ![w] = "tenants"]
    BY <2>2 DEF IInv, TypeOK
  <2> QED
    BY <2>2, <2>3, <2>4, ClaimerMoves
<1>16. ASSUME NEW w \in Workers, TenantLock(w) PROVE ReplicasAgree'
  <2>1. PICK t \in heads[w], j \in Jobs :
          /\ Oldest(t, j)
          /\ heads' = [heads EXCEPT ![w] = @ \ {t}]
          /\ target' = [target EXCEPT ![w] = j]
    BY <1>16 DEF TenantLock
  <2>2. pc[w] = "tenants" /\ pc' = [pc EXCEPT ![w] = "claim"]
        /\ UNCHANGED <<tenant, status, claimed, exclude, mine>>
    BY <1>16 DEF TenantLock
  <2>3. status[j] = "queued" /\ tenant[j] \notin exclude[w]
    BY <2>1, <2>2 DEF Oldest, RowsOf, ReplicasAgree
  <2>4. heads'[w] \cap exclude[w] = {} /\ target'[w] = j
        /\ \A v \in Workers \ {w} : heads'[v] = heads[v] /\ target'[v] = target[v]
    BY <2>1, <2>2 DEF ReplicasAgree, IInv, TypeOK
  <2> QED
    BY <2>2, <2>3, <2>4, ClaimerMoves
<1>17. ASSUME NEW w \in Workers, SelectNone(w) \/ TenantsDone(w) PROVE ReplicasAgree'
  <2>1. pc' = [pc EXCEPT ![w] = "idle"] /\ exclude' = [exclude EXCEPT ![w] = {}]
        /\ UNCHANGED <<tenant, status, claimed, heads, target, mine>>
    BY <1>17 DEF SelectNone, TenantsDone
  <2>2. pc'[w] = "idle" /\ \A v \in Workers \ {w} : pc'[v] = pc[v] /\ exclude'[v] = exclude[v]
    BY <2>1 DEF IInv, TypeOK
  <2> QED
    BY <2>1, <2>2 DEF ReplicasAgree, OneJobPerTenantInReplica
<1>18. ASSUME NEW w \in Workers, ClaimMissed(w) PROVE ReplicasAgree'
  <2>1. pc[w] = "claim" /\ UNCHANGED <<tenant, status, claimed, heads, mine>>
    BY <1>18 DEF ClaimMissed
  <2>2. \A v \in Workers \ {w} :
          pc'[v] = pc[v] /\ exclude'[v] = exclude[v] /\ target'[v] = target[v]
    BY <1>18 DEF ClaimMissed, IInv, TypeOK
  <2>3. CASE Distributed
    <3>1. pc' = [pc EXCEPT ![w] = "tenants"] /\ exclude' = exclude
      BY <1>18, <2>3 DEF ClaimMissed, IInv, TypeOK
    <3>2. heads'[w] \cap exclude[w] = {}
      BY <2>1, <2>3 DEF ReplicasAgree
    <3> QED
      BY <2>1, <2>2, <3>1, <3>2, ClaimerMoves
  <2>4. CASE ~Distributed
    <3>1. pc'[w] = "idle"
      BY <1>18, <2>4 DEF ClaimMissed, IInv, TypeOK
    <3> QED
      BY <2>1, <2>2, <3>1 DEF ReplicasAgree, OneJobPerTenantInReplica
  <2> QED
    BY <2>3, <2>4
<1>19. ASSUME NEW w \in Workers, ClaimRow(w) PROVE ReplicasAgree'
  <2> DEFINE c == claims + 1
             Held(v) == tenant[claimed[mine[v]]]
  <2>1. c \in Claims /\ claimed[c] = NoJob /\ pc[w] = "claim" /\ target[w] \in Jobs
        /\ tenant[target[w]] \notin exclude[w] /\ status[target[w]] # "absent"
    BY <1>19 DEF ClaimRow, IInv, TypeOK, ClaimsAgree, WorkersAgree, ReplicasAgree
  <2>2. /\ mine' = [mine EXCEPT ![w] = c]
        /\ claimed' = [claimed EXCEPT ![c] = target[w]]
        /\ status' = [status EXCEPT ![target[w]] = "running"]
        /\ pc' = [pc EXCEPT ![w] = "spawn"]
        /\ exclude' = [exclude EXCEPT ![w] = {}]
        /\ heads' = [heads EXCEPT ![w] = {}]
        /\ target' = [target EXCEPT ![w] = NoJob]
        /\ UNCHANGED tenant
    BY <1>19 DEF ClaimRow
  <2> HIDE DEF c
  <2>3. pc'[w] = "spawn" /\ mine'[w] = c /\ claimed'[c] = target[w]
    BY <2>1, <2>2 DEF IInv, TypeOK
  <2>4. \A v \in Workers \ {w} :
          /\ pc'[v] = pc[v] /\ exclude'[v] = exclude[v] /\ heads'[v] = heads[v]
          /\ target'[v] = target[v] /\ mine'[v] = mine[v]
    BY <2>2 DEF IInv, TypeOK
  <2>5. \A v \in Workers \ {w} : mine[v] # NoClaim => Held(v)' = Held(v)
    <3> SUFFICES ASSUME NEW v \in Workers \ {w}, mine[v] # NoClaim
                 PROVE  Held(v)' = Held(v)
      OBVIOUS
    <3>1. mine[v] \in Claims /\ mine[v] # c
      BY <2>1 DEF IInv, TypeOK, WorkersAgree
    <3> QED
      BY <2>2, <2>4, <3>1 DEF IInv, TypeOK
  <2>6. Held(w)' = tenant[target[w]]
    BY <2>2, <2>3
  <2>7. \A v \in Workers \ {w} : ReplicaOf[v] = ReplicaOf[w] =>
          pc[v] \notin Claiming /\ (mine[v] # NoClaim => Held(v) # tenant[target[w]])
    BY <2>1 DEF ReplicasAgree
  <2>8. \A v \in Workers : pc'[v] = "claim" =>
          status'[target'[v]] # "absent" /\ tenant'[target'[v]] \notin exclude'[v]
    <3> SUFFICES ASSUME NEW v \in Workers \ {w}, pc[v] = "claim"
                 PROVE  status'[target'[v]] # "absent" /\ tenant'[target'[v]] \notin exclude'[v]
      BY <2>3, <2>4
    <3>1. target[v] \in Jobs /\ status[target[v]] # "absent" /\ tenant[target[v]] \notin exclude[v]
      BY DEF IInv, TypeOK, WorkersAgree, ReplicasAgree
    <3>2. status'[target[v]] # "absent"
      BY <2>1, <2>2, <3>1 DEF IInv, TypeOK
    <3> QED
      BY <2>2, <2>4, <3>1, <3>2
  <2>9. \A u, v \in Workers : ReplicaOf[u] = ReplicaOf[v] /\ mine'[u] # NoClaim /\ pc'[v] \in Claiming =>
          tenant'[claimed'[mine'[u]]] \in exclude'[v]
    BY <2>3, <2>4, <2>5, <2>7 DEF ReplicasAgree
  <2>10. OneJobPerTenantInReplica'
    <3> SUFFICES ASSUME NEW u \in Workers, NEW v \in Workers, u # v, ReplicaOf[u] = ReplicaOf[v],
                        mine'[u] # NoClaim, mine'[v] # NoClaim
                 PROVE  Held(u)' # Held(v)'
      BY DEF OneJobPerTenantInReplica
    <3>1. CASE u = w
      BY <2>4, <2>5, <2>6, <2>7, <3>1
    <3>2. CASE v = w
      BY <2>4, <2>5, <2>6, <2>7, <3>2
    <3>3. CASE u # w /\ v # w
      BY <2>4, <2>5, <3>3 DEF ReplicasAgree, OneJobPerTenantInReplica
    <3> QED
      BY <3>1, <3>2, <3>3
  <2>11. \A u, v \in Workers :
           u # v /\ ReplicaOf[u] = ReplicaOf[v] /\ pc'[u] \in Claiming => pc'[v] \notin Claiming
    BY <2>3, <2>4 DEF ReplicasAgree
  <2>12. \A v \in Workers : pc'[v] = "tenants" \/ (Distributed /\ pc'[v] = "claim") =>
           heads'[v] \cap exclude'[v] = {}
    BY <2>3, <2>4 DEF ReplicasAgree
  <2> QED
    BY <2>8, <2>9, <2>10, <2>11, <2>12 DEF ReplicasAgree
<1>20. ASSUME NEW r \in Replicas, Crash(r) PROVE ReplicasAgree'
  <2> DEFINE dead == {w \in Workers : ReplicaOf[w] = r}
  <2>1. UNCHANGED <<tenant, status, claimed>>
    BY <1>20 DEF Crash
  <2>2. \A w \in dead : pc'[w] = "down" /\ mine'[w] = NoClaim
    BY <1>20 DEF Crash
  <2>3. \A w \in Workers \ dead :
          /\ pc'[w] = pc[w] /\ exclude'[w] = exclude[w] /\ heads'[w] = heads[w]
          /\ target'[w] = target[w] /\ mine'[w] = mine[w]
    BY <1>20 DEF Crash
  <2> HIDE DEF dead
  <2> QED
    BY <2>1, <2>2, <2>3 DEF ReplicasAgree, OneJobPerTenantInReplica
<1> HIDE DEF Calm
<1> QED
  BY <1>0, <1>1, <1>2, <1>3, <1>4, <1>5, <1>6, <1>7, <1>8, <1>9, <1>10, <1>11, <1>12, <1>13,
     <1>14, <1>15, <1>16, <1>17, <1>18, <1>19, <1>20 DEF Next, ClaimStep

\* Threads of a replica never work on two jobs of one tenant, whatever the number of
\* threads, and with or without lost connections: the claim lock orders the snapshot of
\* _in_flight before the claim that adds to it.
THEOREM ReplicaJobsDistinct == Spec => []OneJobPerTenantInReplica
<1>1. Init => ReplicasAgree
  BY DEF Init, ReplicasAgree, OneJobPerTenantInReplica, Claiming, NoClaim
<1>2. ReplicasAgree => OneJobPerTenantInReplica
  BY DEF ReplicasAgree
<1> QED
  BY <1>1, <1>2, Invariance, ReplicasStep, PTL DEF Spec

--------------------------------------------------------------------------------
(* Locks and their holders *)

\* The token of a row is that of a claim made on it.
TokensAgree == \A j \in Jobs : token[j] # NoClaim => claimed[token[j]] = j

\* A claim is new to all rows.
LEMMA TokensStep == IInv /\ TokensAgree /\ [Next]_vars => TokensAgree'
<1> SUFFICES ASSUME IInv, TokensAgree, [Next]_vars
             PROVE  TokensAgree'
  OBVIOUS
<1>1. ASSUME UNCHANGED <<token, claimed>> PROVE TokensAgree'
  BY <1>1 DEF TokensAgree
<1>2. ASSUME NEW w \in Workers, ClaimRow(w) PROVE TokensAgree'
  <2> DEFINE c == claims + 1
  <2>1. c \in Claims /\ claimed[c] = NoJob /\ target[w] \in Jobs
    <3>1. c \in Claims /\ ~(c <= claims)
      BY <1>2, ConstantsAssumption DEF ClaimRow, IInv, TypeOK, Claims
    <3>2. pc[w] = "claim" /\ target[w] # NoJob
      BY <1>2 DEF ClaimRow, IInv, WorkersAgree
    <3> QED BY <3>1, <3>2 DEF IInv, TypeOK, ClaimsAgree
  <2>2. token' = [token EXCEPT ![target[w]] = c] /\ claimed' = [claimed EXCEPT ![c] = target[w]]
    BY <1>2 DEF ClaimRow
  <2> HIDE DEF c
  <2>3. \A j \in Jobs : token[j] # c
    BY <2>1 DEF TokensAgree, Jobs, NoJob, Claims, NoClaim
  <2> QED
    BY <2>1, <2>2, <2>3 DEF TokensAgree, IInv, TypeOK
<1>3. ASSUME NEW w \in Workers,
             (ClaimStep(w) /\ ~ClaimRow(w)) \/ SettleStep(w) \/ Renew(w) \/ WatchEnds(w) \/ WriteFails(w)
      PROVE  UNCHANGED <<token, claimed>>
  BY <1>3 DEF ClaimStep, BeginClaim, RecoverLock, RecoverSkip, RecoverFence, RecoverDone,
     SelectLocal, SelectNone, SelectTenants, TenantSkip, TenantLock, TenantsDone, ClaimMissed,
     SettleStep, Spawn, TerminateChild, Settle, Finish, Interrupt, Discard, Renew, WatchEnds, WriteFails,
     shared, rowVars, childVars
<1>4. ASSUME NEW c \in Claims, ChildSteps(c) \/ ChildDies(c) PROVE UNCHANGED <<token, claimed>>
  BY <1>4 DEF ChildSteps, ChildLock, ChildBlocked, ChildBegin, ChildDisowned, ChildReply, ChildDies, rowVars
<1>5. ASSUME NEW r \in Replicas, Crash(r) \/ Restart(r) PROVE UNCHANGED <<token, claimed>>
  BY <1>5 DEF Crash, Restart, shared, rowVars, childVars
<1>6. ASSUME NEW t \in Tenants, Enqueue(t) PROVE UNCHANGED <<token, claimed>>
  BY <1>6 DEF Enqueue, childVars
<1>7. ASSUME NEW j \in Jobs, Cancel(j) \/ LeaseExpires(j) \/ ConnectionLost(j) PROVE UNCHANGED <<token, claimed>>
  BY <1>7 DEF Cancel, LeaseExpires, ConnectionLost, rowVars, childVars
<1>8. UNCHANGED vars => UNCHANGED <<token, claimed>>
  BY DEF vars, shared, rowVars, childVars
<1> QED
  BY <1>1, <1>2, <1>3, <1>4, <1>5, <1>6, <1>7, <1>8 DEF Next

\* Tenants are locked, and walked through, by the distributed claim only.
ClusterLocks ==
  /\ \A w \in Workers : pc[w] = "tenants" => Distributed
  /\ \A t \in Tenants : tlock[t] # NoWorker => Distributed

\* Every step keeps the local claim away from the tenants' locks.
LEMMA ClusterLocksStep == IInv /\ ClusterLocks /\ [Next]_vars => ClusterLocks'
<1> SUFFICES ASSUME IInv, ClusterLocks, [Next]_vars
             PROVE  ClusterLocks'
  OBVIOUS
<1>1. ASSUME UNCHANGED tlock, \A w \in Workers : pc'[w] = "tenants" => pc[w] = "tenants" \/ Distributed
      PROVE  ClusterLocks'
  BY <1>1 DEF ClusterLocks
<1>2. ASSUME NEW w \in Workers, ClaimStep(w) PROVE ClusterLocks'
  <2>1. \A v \in Workers : pc'[v] = "tenants" => pc[v] = "tenants" \/ Distributed
    BY <1>2 DEF IInv, TypeOK, ClaimStep, BeginClaim, RecoverLock, RecoverSkip, RecoverFence, RecoverDone,
       SelectLocal, SelectNone, SelectTenants, TenantSkip, TenantLock, TenantsDone, ClaimRow, ClaimMissed
  <2>2. CASE TenantSkip(w) \/ TenantLock(w)
    BY <2>1, <2>2 DEF TenantSkip, TenantLock, ClusterLocks
  <2>3. CASE TenantsDone(w) \/ ClaimRow(w)
    <3>1. tlock' = Unlocked(w)
      BY <2>3 DEF TenantsDone, ClaimRow
    <3> QED BY <2>1, <3>1 DEF Unlocked, ClusterLocks
  <2> QED
    BY <1>1, <1>2, <2>1, <2>2, <2>3 DEF ClaimStep, BeginClaim, RecoverLock, RecoverSkip, RecoverFence,
       RecoverDone, SelectLocal, SelectNone, SelectTenants, ClaimMissed, shared
<1>3. ASSUME NEW w \in Workers, SettleStep(w) \/ Renew(w) \/ WatchEnds(w) \/ WriteFails(w)
      PROVE  ClusterLocks'
  BY <1>1, <1>3 DEF IInv, TypeOK, SettleStep, Spawn, TerminateChild, Settle, Finish, Interrupt, Discard,
     Renew, WatchEnds, WriteFails, shared, workerVars
<1>4. ASSUME NEW c \in Claims, ChildSteps(c) \/ ChildDies(c) PROVE ClusterLocks'
  BY <1>1, <1>4 DEF ChildSteps, ChildLock, ChildBlocked, ChildBegin, ChildDisowned, ChildReply, ChildDies,
     workerVars
<1>5. ASSUME NEW r \in Replicas, Crash(r) \/ Restart(r) PROVE ClusterLocks'
  <2>1. \A w \in Workers : pc'[w] = "tenants" => pc[w] = "tenants"
    BY <1>5 DEF Crash, Restart
  <2>2. \A t \in Tenants : tlock'[t] # NoWorker => tlock[t] # NoWorker
    BY <1>5 DEF Crash, Restart, shared
  <2> QED BY <2>1, <2>2 DEF ClusterLocks
<1>6. ASSUME NEW t \in Tenants, Enqueue(t) PROVE ClusterLocks'
  BY <1>1, <1>6 DEF Enqueue, workerVars
<1>7. ASSUME NEW j \in Jobs, Cancel(j) \/ LeaseExpires(j) \/ ConnectionLost(j) PROVE ClusterLocks'
  BY <1>1, <1>7 DEF Cancel, LeaseExpires, ConnectionLost, workerVars
<1>8. CASE UNCHANGED vars
  BY <1>1, <1>8 DEF vars, shared, workerVars
<1> QED
  BY <1>2, <1>3, <1>4, <1>5, <1>6, <1>7, <1>8 DEF Next

\* The holders stay when threads that fence keep their target, threads that choose among
\* tenants go on choosing, and a lock a child still holds has its child and its token.
LEMMA HoldersUndisturbed ==
  ASSUME IInv, LocksHaveHolders,
         \A j \in Jobs : \/ lock'[j] = Free
                         \/ /\ lock'[j] = lock[j]
                            /\ lock[j] # Recovery => token'[j] = token[j] /\ child'[token[j]] = child[token[j]],
         \A w \in Workers : pc[w] = "fence" => pc'[w] = "fence" /\ target'[w] = target[w],
         \A t \in Tenants : tlock'[t] # NoWorker =>
                               tlock'[t] = tlock[t] /\ pc'[tlock[t]] \in {"tenants", "claim"}
  PROVE  LocksHaveHolders'
<1>1. ASSUME NEW j \in Jobs, lock'[j] # Free
      PROVE  \/ lock'[j] = token'[j] /\ child'[token'[j]] \in {"locked", "running"}
             \/ lock'[j] = Recovery /\ \E w \in Workers : pc'[w] = "fence" /\ target'[w] = j
  <2>1. lock'[j] = lock[j] /\ token[j] # Recovery
    BY <1>1 DEF IInv, TypeOK, Claims, NoClaim, Recovery
  <2>2. CASE lock[j] = Recovery
    BY <2>1, <2>2 DEF LocksHaveHolders, Free, Recovery
  <2>3. CASE lock[j] # Recovery
    BY <1>1, <2>1, <2>3 DEF LocksHaveHolders
  <2> QED BY <2>2, <2>3
<1> QED BY <1>1 DEF LocksHaveHolders

\* When a child ends, or a thread ends it, its lock goes with it.
LEMMA ReleasedByChild ==
  ASSUME IInv, TokensAgree, LocksHaveHolders, NEW c \in Claims, NEW s,
         child' = [child EXCEPT ![c] = s], Release(c),
         UNCHANGED <<token, tlock, target>>,
         \A w \in Workers : pc[w] \in {"fence", "tenants", "claim"} => pc'[w] = pc[w]
  PROVE  LocksHaveHolders'
<1>1. ASSUME NEW j \in Jobs, lock'[j] # Free
      PROVE  lock'[j] = lock[j] /\ (lock[j] # Recovery => child'[token[j]] = child[token[j]])
  <2>1. lock'[j] = lock[j]
    BY <1>1 DEF Release, IInv, TypeOK
  <2>2. CASE lock[j] # Recovery
    <3>1. lock[j] = token[j] /\ token[j] \in Claims /\ claimed[token[j]] = j
      BY <1>1, <2>1, <2>2 DEF LocksHaveHolders, TokensAgree, IInv, TypeOK, Free, NoClaim
    <3>2. token[j] # c
      BY <1>1, <3>1 DEF Release, IInv, TypeOK
    <3> QED BY <2>1, <3>1, <3>2 DEF IInv, TypeOK
  <2> QED BY <2>1, <2>2
<1>2. \A t \in Tenants : tlock'[t] # NoWorker =>
        tlock'[t] = tlock[t] /\ pc'[tlock[t]] \in {"tenants", "claim"}
  BY DEF LocksHaveHolders, IInv, TypeOK
<1> QED BY <1>1, <1>2, HoldersUndisturbed

\* Every step leaves each lock with a holder, lost connections and crashes included.
LEMMA HoldersStep ==
  IInv /\ TokensAgree /\ ClusterLocks /\ LocksHaveHolders /\ [Next]_vars => LocksHaveHolders'
<1> SUFFICES ASSUME IInv, TokensAgree, ClusterLocks, LocksHaveHolders, [Next]_vars
             PROVE  LocksHaveHolders'
  OBVIOUS
<1> DEFINE Calm ==
       /\ UNCHANGED <<lock, token, child, tlock>>
       /\ \A w \in Workers : pc[w] = "fence" => pc'[w] = "fence" /\ target'[w] = target[w]
       /\ \A w \in Workers : pc[w] \in {"tenants", "claim"} => pc'[w] \in {"tenants", "claim"}
<1>0. Calm => LocksHaveHolders'
  <2> SUFFICES ASSUME Calm PROVE LocksHaveHolders'
    OBVIOUS
  <2>1. \A t \in Tenants : tlock'[t] # NoWorker =>
          tlock'[t] = tlock[t] /\ pc'[tlock[t]] \in {"tenants", "claim"}
    BY DEF LocksHaveHolders, IInv, TypeOK
  <2> QED BY <2>1, HoldersUndisturbed
<1>1. ASSUME NEW w \in Workers,
             BeginClaim(w) \/ RecoverSkip(w) \/ RecoverDone(w) \/ SelectLocal(w) \/ SelectNone(w)
               \/ SelectTenants(w)
      PROVE  LocksHaveHolders'
  <2>1. UNCHANGED <<lock, token, child, tlock>>
    BY <1>1 DEF BeginClaim, RecoverSkip, RecoverDone, SelectLocal, SelectNone, SelectTenants,
       shared, rowVars, childVars
  <2>2. pc[w] \in {"idle", "recover", "select"} /\ \A v \in Workers \ {w} : pc'[v] = pc[v] /\ target'[v] = target[v]
    BY <1>1 DEF BeginClaim, RecoverSkip, RecoverDone, SelectLocal, SelectNone, SelectTenants,
       claimVars, IInv, TypeOK
  <2> QED BY <1>0, <2>1, <2>2
<1>2. ASSUME NEW w \in Workers, RecoverLock(w) PROVE LocksHaveHolders'
  <2>1. PICK j \in Jobs : /\ lock[j] = Free
                          /\ lock' = [lock EXCEPT ![j] = Recovery]
                          /\ target' = [target EXCEPT ![w] = j]
    BY <1>2 DEF RecoverLock, IInv, TypeOK
  <2>2. pc[w] = "recover" /\ pc' = [pc EXCEPT ![w] = "fence"] /\ UNCHANGED <<token, child, tlock>>
    BY <1>2 DEF RecoverLock, rowVars, childVars
  <2>3. lock'[j] = Recovery /\ pc'[w] = "fence" /\ target'[w] = j
    BY <2>1, <2>2 DEF IInv, TypeOK
  <2>4. \A i \in Jobs \ {j} : lock'[i] = lock[i]
    BY <2>1 DEF IInv, TypeOK
  <2>5. \A v \in Workers \ {w} : pc'[v] = pc[v] /\ target'[v] = target[v]
    BY <2>1, <2>2 DEF IInv, TypeOK
  <2>6. \A t \in Tenants : tlock'[t] # NoWorker => pc'[tlock'[t]] \in {"tenants", "claim"}
    BY <2>2, <2>5 DEF LocksHaveHolders, IInv, TypeOK
  <2> QED BY <2>2, <2>3, <2>4, <2>5, <2>6 DEF LocksHaveHolders
<1>3. ASSUME NEW w \in Workers, RecoverFence(w) PROVE LocksHaveHolders'
  <2> DEFINE j == target[w]
  <2>1. /\ pc[w] = "fence" /\ pc' = [pc EXCEPT ![w] = "recover"]
        /\ lock' = [lock EXCEPT ![j] = IF @ = Recovery THEN Free ELSE @]
        /\ target' = [target EXCEPT ![w] = NoJob]
        /\ UNCHANGED <<token, child, tlock>>
    BY <1>3 DEF RecoverFence, childVars
  <2>2. \A v \in Workers \ {w} : pc'[v] = pc[v] /\ target'[v] = target[v]
    BY <2>1 DEF IInv, TypeOK
  <2>3. \A i \in Jobs : lock'[i] = Recovery => lock[i] = Recovery /\ i # j
    BY <2>1 DEF IInv, TypeOK, Free, Recovery
  <2>4. \A i \in Jobs : lock'[i] \in {Free, lock[i]}
    BY <2>1 DEF IInv, TypeOK
  <2>5. \A i \in Jobs : lock'[i] = Recovery => \E v \in Workers : pc'[v] = "fence" /\ target'[v] = i
    <3> SUFFICES ASSUME NEW i \in Jobs, lock'[i] = Recovery
                 PROVE  \E v \in Workers : pc'[v] = "fence" /\ target'[v] = i
      OBVIOUS
    <3>1. token[i] # Recovery /\ lock[i] # Free
      BY <2>3 DEF IInv, TypeOK, Claims, NoClaim, Recovery, Free
    <3>2. PICK v \in Workers : pc[v] = "fence" /\ target[v] = i
      BY <2>3, <3>1 DEF LocksHaveHolders
    <3> QED BY <2>2, <2>3, <3>2
  <2>6. \A t \in Tenants : tlock'[t] # NoWorker => pc'[tlock'[t]] \in {"tenants", "claim"}
    BY <2>1, <2>2 DEF LocksHaveHolders, IInv, TypeOK
  <2>7. \A i \in Jobs : lock'[i] # Free /\ lock'[i] # Recovery =>
          lock'[i] = token'[i] /\ child'[token'[i]] \in {"locked", "running"}
    BY <2>1, <2>4 DEF LocksHaveHolders
  <2> QED BY <2>5, <2>6, <2>7 DEF LocksHaveHolders
<1>4. ASSUME NEW w \in Workers, TenantSkip(w) \/ TenantLock(w) PROVE LocksHaveHolders'
  <2>1. pc[w] = "tenants" /\ pc'[w] \in {"tenants", "claim"} /\ UNCHANGED <<lock, token, child>>
    BY <1>4 DEF TenantSkip, TenantLock, rowVars, childVars, IInv, TypeOK
  <2>2. \A v \in Workers \ {w} : pc'[v] = pc[v] /\ target'[v] = target[v]
    BY <1>4 DEF TenantSkip, TenantLock, IInv, TypeOK
  <2>3. \A t \in Tenants : tlock'[t] \in {tlock[t], w}
    BY <1>4 DEF TenantSkip, TenantLock, IInv, TypeOK
  <2>4. \A t \in Tenants : tlock'[t] # NoWorker => pc'[tlock'[t]] \in {"tenants", "claim"}
    BY <2>1, <2>2, <2>3 DEF LocksHaveHolders, IInv, TypeOK
  <2>5. \A v \in Workers : pc[v] = "fence" => pc'[v] = "fence" /\ target'[v] = target[v]
    BY <2>1, <2>2
  <2> QED BY <2>1, <2>4, <2>5 DEF LocksHaveHolders
<1>5. ASSUME NEW w \in Workers, TenantsDone(w) PROVE LocksHaveHolders'
  <2>1. /\ pc[w] = "tenants" /\ pc' = [pc EXCEPT ![w] = "idle"] /\ tlock' = Unlocked(w)
        /\ UNCHANGED <<lock, token, child, target>>
    BY <1>5 DEF TenantsDone, rowVars, childVars
  <2>2. \A v \in Workers \ {w} : pc'[v] = pc[v]
    BY <2>1 DEF IInv, TypeOK
  <2>3. \A t \in Tenants : tlock'[t] # NoWorker =>
          tlock'[t] = tlock[t] /\ pc'[tlock[t]] \in {"tenants", "claim"}
    BY <2>1, <2>2 DEF Unlocked, LocksHaveHolders, IInv, TypeOK
  <2>4. \A v \in Workers : pc[v] = "fence" => pc'[v] = "fence" /\ target'[v] = target[v]
    BY <2>1, <2>2
  <2> QED BY <2>1, <2>3, <2>4, HoldersUndisturbed
\* The row claimed was queued: no claim's child can hold its lock yet.
<1>6. ASSUME NEW w \in Workers, ClaimRow(w) PROVE LocksHaveHolders'
  <2> DEFINE j == target[w]
  <2>1. /\ pc[w] = "claim" /\ pc' = [pc EXCEPT ![w] = "spawn"] /\ tlock' = Unlocked(w)
        /\ target' = [target EXCEPT ![w] = NoJob]
        /\ token' = [token EXCEPT ![j] = claims + 1]
        /\ status[j] = "queued"
        /\ UNCHANGED <<lock, child>>
    BY <1>6 DEF ClaimRow
  <2>2. \A v \in Workers \ {w} : pc'[v] = pc[v] /\ target'[v] = target[v]
    BY <2>1 DEF IInv, TypeOK
  <2>3. j \in Jobs /\ token[j] = NoClaim
    BY <2>1 DEF IInv, TypeOK, WorkersAgree, ClaimsAgree
  <2>4. \A i \in Jobs \ {j} : token'[i] = token[i]
    BY <2>1 DEF IInv, TypeOK
  <2>5. lock[j] \in {Free, Recovery}
    BY <2>3 DEF LocksHaveHolders, Free, NoClaim
  <2>6. \A t \in Tenants : tlock'[t] # NoWorker =>
          tlock'[t] = tlock[t] /\ pc'[tlock[t]] \in {"tenants", "claim"}
    BY <2>1, <2>2 DEF Unlocked, LocksHaveHolders, IInv, TypeOK
  <2>7. \A v \in Workers : pc[v] = "fence" => pc'[v] = "fence" /\ target'[v] = target[v]
    BY <2>1, <2>2
  <2>8. \A i \in Jobs : \/ lock'[i] = Free
                        \/ /\ lock'[i] = lock[i]
                           /\ lock[i] # Recovery => token'[i] = token[i] /\ child'[token[i]] = child[token[i]]
    BY <2>1, <2>4, <2>5
  <2> QED BY <2>6, <2>7, <2>8, HoldersUndisturbed
\* Only the local claim gives up at once, and it locks no tenant.
<1>7. ASSUME NEW w \in Workers, ClaimMissed(w) PROVE LocksHaveHolders'
  <2>1. /\ pc[w] = "claim" /\ pc' = [pc EXCEPT ![w] = IF Distributed THEN "tenants" ELSE "idle"]
        /\ target' = [target EXCEPT ![w] = NoJob]
        /\ UNCHANGED <<lock, token, child, tlock>>
    BY <1>7 DEF ClaimMissed, shared, rowVars, childVars
  <2>2. \A v \in Workers \ {w} : pc'[v] = pc[v] /\ target'[v] = target[v]
    BY <2>1 DEF IInv, TypeOK
  <2>3. \A v \in Workers : pc[v] = "fence" => pc'[v] = "fence" /\ target'[v] = target[v]
    BY <2>1, <2>2
  <2>4. \A t \in Tenants : tlock'[t] # NoWorker =>
          tlock'[t] = tlock[t] /\ pc'[tlock[t]] \in {"tenants", "claim"}
    <3> SUFFICES ASSUME NEW t \in Tenants, tlock'[t] # NoWorker
                 PROVE  tlock'[t] = tlock[t] /\ pc'[tlock[t]] \in {"tenants", "claim"}
      OBVIOUS
    <3>1. tlock'[t] = tlock[t] /\ Distributed /\ tlock[t] \in Workers
      BY <2>1 DEF ClusterLocks, IInv, TypeOK
    <3>2. pc'[w] = "tenants"
      BY <2>1, <3>1 DEF IInv, TypeOK
    <3> QED BY <2>1, <2>2, <3>1, <3>2 DEF LocksHaveHolders
  <2> QED BY <2>1, <2>3, <2>4, HoldersUndisturbed
\* The child a thread spawns is new, and holds nothing.
<1>8. ASSUME NEW w \in Workers, Spawn(w) PROVE LocksHaveHolders'
  <2>1. /\ pc[w] = "spawn" /\ pc' = [pc EXCEPT ![w] = "watch"]
        /\ child' = [child EXCEPT ![mine[w]] = "spawned"]
        /\ UNCHANGED <<lock, token, tlock, target>>
    BY <1>8 DEF Spawn, rowVars, claimVars
  <2>2. child[mine[w]] = "none" /\ \A c \in Claims \ {mine[w]} : child'[c] = child[c]
    BY <2>1 DEF IInv, TypeOK, OutcomesAgree
  <2>3. \A v \in Workers : pc[v] \in {"fence", "tenants", "claim"} => pc'[v] = pc[v]
    BY <2>1 DEF IInv, TypeOK
  <2>4. \A i \in Jobs : \/ lock'[i] = Free
                        \/ /\ lock'[i] = lock[i]
                           /\ lock[i] # Recovery => token'[i] = token[i] /\ child'[token[i]] = child[token[i]]
    <3> SUFFICES ASSUME NEW i \in Jobs, lock[i] # Free, lock[i] # Recovery
                 PROVE  child'[token[i]] = child[token[i]]
      BY <2>1
    <3>1. token[i] \in Claims /\ child[token[i]] \in {"locked", "running"}
      BY DEF LocksHaveHolders, IInv, TypeOK, Free, NoClaim
    <3> QED BY <2>2, <3>1
  <2>5. \A t \in Tenants : tlock'[t] # NoWorker =>
          tlock'[t] = tlock[t] /\ pc'[tlock[t]] \in {"tenants", "claim"}
    BY <2>1, <2>3 DEF LocksHaveHolders, IInv, TypeOK
  <2> QED BY <2>1, <2>3, <2>4, <2>5, HoldersUndisturbed
<1>9. ASSUME NEW w \in Workers, TerminateChild(w) PROVE LocksHaveHolders'
  <2>1. /\ pc[w] = "terminate" /\ pc' = [pc EXCEPT ![w] = "settle"]
        /\ child' = [child EXCEPT ![mine[w]] = "exited"] /\ Release(mine[w])
        /\ UNCHANGED <<token, tlock, target>>
    BY <1>9 DEF TerminateChild, rowVars, claimVars
  <2>2. mine[w] \in Claims
    BY <2>1 DEF IInv, TypeOK, WorkersAgree, Busy
  <2>3. \A v \in Workers : pc[v] \in {"fence", "tenants", "claim"} => pc'[v] = pc[v]
    BY <2>1 DEF IInv, TypeOK
  <2> QED BY <2>1, <2>2, <2>3, ReleasedByChild
<1>10. ASSUME NEW w \in Workers,
              Settle(w) \/ Finish(w) \/ Interrupt(w) \/ Discard(w) \/ Renew(w) \/ WatchEnds(w) \/ WriteFails(w)
       PROVE  LocksHaveHolders'
  <2>1. UNCHANGED <<lock, token, child, tlock, target>>
    BY <1>10 DEF Settle, Finish, Interrupt, Discard, Renew, WatchEnds, WriteFails, shared, rowVars,
       childVars, workerVars, claimVars
  <2>2. \A v \in Workers : pc[v] \in {"fence", "tenants", "claim"} => pc'[v] = pc[v]
    BY <1>10 DEF Settle, Finish, Interrupt, Discard, Renew, WatchEnds, WriteFails, workerVars, IInv, TypeOK
  <2> QED BY <1>0, <2>1, <2>2
\* A child takes a free lock, of the row that its claim owns.
<1>11. ASSUME NEW c \in Claims, ChildLock(c) PROVE LocksHaveHolders'
  <2> DEFINE j == claimed[c]
  <2>1. /\ child[c] = "spawned" /\ child' = [child EXCEPT ![c] = "locked"]
        /\ lock[j] = Free /\ lock' = [lock EXCEPT ![j] = c]
        /\ UNCHANGED <<token, tlock, pc, target>>
    BY <1>11 DEF ChildLock, ChildStep, rowVars, workerVars, claimVars
  <2>2. j \in Jobs /\ token[j] = c
    BY <2>1 DEF IInv, TypeOK, ClaimsAgree
  <2>3. lock'[j] = token'[j] /\ child'[token'[j]] = "locked"
    BY <2>1, <2>2 DEF IInv, TypeOK
  <2>4. ASSUME NEW i \in Jobs, i # j, lock'[i] # Free
        PROVE  \/ lock'[i] = token'[i] /\ child'[token'[i]] \in {"locked", "running"}
               \/ lock'[i] = Recovery /\ \E w \in Workers : pc'[w] = "fence" /\ target'[w] = i
    <3>1. lock'[i] = lock[i] /\ (token[i] = c => child[token[i]] \notin {"locked", "running"})
      BY <2>1, <2>4 DEF IInv, TypeOK
    <3>2. token[i] \in Claims /\ token[i] # c => child'[token[i]] = child[token[i]]
      BY <2>1 DEF IInv, TypeOK
    <3>3. lock[i] = token[i] => token[i] \in Claims
      BY <2>4, <3>1 DEF IInv, TypeOK, Free, NoClaim
    <3> QED BY <2>1, <2>4, <3>1, <3>2, <3>3 DEF LocksHaveHolders
  <2>5. \A t \in Tenants : tlock'[t] # NoWorker => pc'[tlock'[t]] \in {"tenants", "claim"}
    BY <2>1 DEF LocksHaveHolders
  <2> QED BY <2>3, <2>4, <2>5 DEF LocksHaveHolders
\* The child of a claim without a lock is replaced by one without a lock, or keeps its lock.
<1>12. ASSUME NEW c \in Claims, ChildBlocked(c) \/ ChildBegin(c) PROVE LocksHaveHolders'
  <2>1. PICK s \in {"error", "running"} :
          /\ child' = [child EXCEPT ![c] = s]
          /\ child[c] = "spawned" \/ s = "running"
          /\ UNCHANGED <<lock, token, tlock, pc, target>>
    BY <1>12 DEF ChildBlocked, ChildBegin, ChildStep, rowVars, workerVars, claimVars
  <2>2. ASSUME NEW i \in Jobs, lock'[i] # Free
        PROVE  \/ lock'[i] = token'[i] /\ child'[token'[i]] \in {"locked", "running"}
               \/ lock'[i] = Recovery /\ \E w \in Workers : pc'[w] = "fence" /\ target'[w] = i
    <3>1. lock[i] = token[i] => token[i] \in Claims
      BY <2>1, <2>2 DEF IInv, TypeOK, Free, NoClaim
    <3>2. token[i] \in Claims /\ child[token[i]] \in {"locked", "running"} =>
            child'[token[i]] \in {"locked", "running"}
      BY <2>1 DEF IInv, TypeOK
    <3> QED BY <2>1, <2>2, <3>1, <3>2 DEF LocksHaveHolders
  <2>3. \A t \in Tenants : tlock'[t] # NoWorker => pc'[tlock'[t]] \in {"tenants", "claim"}
    BY <2>1 DEF LocksHaveHolders
  <2> QED BY <2>2, <2>3 DEF LocksHaveHolders
<1>13. ASSUME NEW c \in Claims, ChildDisowned(c) \/ ChildReply(c) \/ ChildDies(c) PROVE LocksHaveHolders'
  <2>1. PICK s \in {"exited", "ok", "error"} : child' = [child EXCEPT ![c] = s]
    BY <1>13 DEF ChildDisowned, ChildReply, ChildDies, ChildStep
  <2>2. Release(c) /\ UNCHANGED <<token, tlock, target, pc>>
    BY <1>13 DEF ChildDisowned, ChildReply, ChildDies, rowVars, workerVars, claimVars
  <2> QED BY <2>1, <2>2, ReleasedByChild
\* A dying replica's threads take the locks they held with them.
<1>14. ASSUME NEW r \in Replicas, Crash(r) PROVE LocksHaveHolders'
  <2> DEFINE dead == {w \in Workers : ReplicaOf[w] = r}
  <2>1. /\ pc' = [w \in Workers |-> IF w \in dead THEN "down" ELSE pc[w]]
        /\ target' = [w \in Workers |-> IF w \in dead THEN NoJob ELSE target[w]]
        /\ lock' = [j \in Jobs |-> IF \E w \in dead : pc[w] = "fence" /\ target[w] = j
                                                     /\ lock[j] = Recovery
                                  THEN Free ELSE lock[j]]
        /\ tlock' = [t \in Tenants |-> IF tlock[t] \in dead THEN NoWorker ELSE tlock[t]]
        /\ UNCHANGED <<token, child>>
    BY <1>14 DEF Crash, rowVars, childVars
  <2> HIDE DEF dead
  <2>2. ASSUME NEW j \in Jobs, lock'[j] # Free
        PROVE  \/ lock'[j] = token'[j] /\ child'[token'[j]] \in {"locked", "running"}
               \/ lock'[j] = Recovery /\ \E w \in Workers : pc'[w] = "fence" /\ target'[w] = j
    <3>1. lock'[j] = lock[j] /\ (lock[j] = Recovery => \A w \in dead : ~(pc[w] = "fence" /\ target[w] = j))
      BY <2>1, <2>2
    <3> QED BY <2>1, <2>2, <3>1 DEF LocksHaveHolders
  <2>3. ASSUME NEW t \in Tenants, tlock'[t] # NoWorker
        PROVE  pc'[tlock'[t]] \in {"tenants", "claim"}
    <3>1. tlock'[t] = tlock[t] /\ tlock[t] \notin dead /\ tlock[t] \in Workers
      BY <2>1, <2>3 DEF IInv, TypeOK
    <3> QED BY <2>1, <2>3, <3>1 DEF LocksHaveHolders
  <2> QED BY <2>2, <2>3 DEF LocksHaveHolders
<1>15. ASSUME NEW r \in Replicas, Restart(r) PROVE LocksHaveHolders'
  <2>1. UNCHANGED <<lock, token, child, tlock, target>>
    BY <1>15 DEF Restart, shared, rowVars, childVars, claimVars
  <2>2. \A v \in Workers : pc[v] \in {"fence", "tenants", "claim"} => pc'[v] = pc[v]
    BY <1>15 DEF Restart
  <2> QED BY <1>0, <2>1, <2>2
<1>16. ASSUME NEW t \in Tenants, Enqueue(t) PROVE LocksHaveHolders'
  <2>1. UNCHANGED <<lock, token, child, tlock, target, pc>>
    BY <1>16 DEF Enqueue, childVars, workerVars, claimVars
  <2> QED BY <1>0, <2>1
<1>17. ASSUME NEW j \in Jobs, Cancel(j) \/ LeaseExpires(j) PROVE LocksHaveHolders'
  <2>1. UNCHANGED <<lock, token, child, tlock, target, pc>>
    BY <1>17 DEF Cancel, LeaseExpires, childVars, workerVars, claimVars
  <2> QED BY <1>0, <2>1
<1>18. ASSUME NEW j \in Jobs, ConnectionLost(j) PROVE LocksHaveHolders'
  <2>1. lock' = [lock EXCEPT ![j] = Free] /\ UNCHANGED <<token, child, tlock, target, pc>>
    BY <1>18 DEF ConnectionLost, rowVars, childVars, workerVars, claimVars
  <2>2. \A i \in Jobs : lock'[i] = Free \/ lock'[i] = lock[i]
    BY <2>1 DEF IInv, TypeOK
  <2>3. \A t \in Tenants : tlock'[t] # NoWorker =>
          tlock'[t] = tlock[t] /\ pc'[tlock[t]] \in {"tenants", "claim"}
    BY <2>1 DEF LocksHaveHolders
  <2> QED BY <2>1, <2>2, <2>3, HoldersUndisturbed
<1>19. CASE UNCHANGED vars
  <2>1. UNCHANGED <<lock, token, child, tlock, target, pc>>
    BY <1>19 DEF vars, shared, rowVars, childVars, workerVars, claimVars
  <2> QED BY <1>0, <2>1
<1> QED
  BY <1>1, <1>2, <1>3, <1>4, <1>5, <1>6, <1>7, <1>8, <1>9, <1>10, <1>11, <1>12, <1>13, <1>14, <1>15,
     <1>16, <1>17, <1>18, <1>19 DEF Next, ClaimStep, SettleStep, ChildSteps

\* No lock outlives its holder, in a cluster and in one process, whatever crashes, is killed
\* or loses its connection: what keeps a row from recovery, or a tenant from being served, is
\* always a process that still runs (process_lock, recover, _claim_distributed).
THEOREM LocksAreHeld == Spec => []LocksHaveHolders
<1>1. Init => TokensAgree
  BY DEF Init, TokensAgree
<1>2. Init => ClusterLocks
  BY DEF Init, ClusterLocks
<1>3. Init => LocksHaveHolders
  BY DEF Init, LocksHaveHolders
<1> QED
  BY <1>1, <1>2, <1>3, Invariance, TokensStep, ClusterLocksStep, HoldersStep, PTL DEF Spec
================================================================================
