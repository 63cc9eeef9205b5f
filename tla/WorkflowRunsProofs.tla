--------------------------- MODULE WorkflowRunsProofs ---------------------------
(***************************************************************************)
(* Safety of workflow approvals for every number of handlers, people, gates,*)
(* runs, versions and crashes.                                              *)
(***************************************************************************)
EXTENDS WorkflowRuns, TLAPS

\* The claim a handler's decision appends.
ClaimOf(h) == IF work[h].decision = "approval" THEN "approval_claimed" ELSE "rejection_claimed"

--------------------------------------------------------------------------------
(* The inductive invariant *)

\* A version is read from those that were saved.
VersionsAreSaved ==
  definition.version <= saves /\ \A h \in Handlers : work[h].base <= saves

\* A handler that decides a run holds the run's execution lock.
DecidersHoldLocks ==
  \A h \in Handlers :
    step[h] \in Deciding => work[h].run \in 1..runs /\ execLock[work[h].run] = h

\* A run id that was not given out has no row and no effect.
FutureRunsAreBlank ==
  \A r \in RunIds : r > runs => row[r] = NoRow /\ executions[r] = 0

\* While a handler decides, the row of its run is its claim, or, when the claim was lost,
\* what the run was before.
ClaimsAreStored ==
  \A h \in Handlers : step[h] \in {"claimed", "executed", "recorded"} =>
    /\ row[work[h].run].status \in {"awaiting_approval", "approval_claimed", "rejection_claimed"}
    /\ work[h].run \notin lostClaims => row[work[h].run].status = ClaimOf(h)

\* What is about to be executed was not executed before, is what the run was paused with,
\* and is approved by somebody else than the one who started it.
ClaimsAreReviewed ==
  \A h \in Handlers : step[h] = "claimed" =>
    /\ work[h].run \notin lostClaims => executions[work[h].run] = 0
    /\ work[h].content = row[work[h].run].content
    /\ Hosted /\ work[h].decision = "approval" => work[h].actor # row[work[h].run].actor

DecisionsAgree ==
  /\ DecidersHoldLocks /\ FutureRunsAreBlank /\ ClaimsAreStored /\ ClaimsAreReviewed
  /\ EffectsRunOnce /\ ReviewedContentRuns

WorkflowInv == WorkflowTypeOK /\ VersionsAreSaved /\ DecisionsAgree

\* The steps that change the row of no decided run.
DecidedRowsStay == \A r \in RunIds : row[r].status \in Decided => row'[r] = row[r]

--------------------------------------------------------------------------------
(* Lemmas *)

\* Appending a row changes at most the row of its run, and a claim that is not stored is
\* counted as lost.
LEMMA AppendStoresOrLoses ==
  ASSUME WorkflowTypeOK, NEW r \in RunIds, NEW new \in Rows, Append(r, new)
  PROVE  /\ row' \in [RunIds -> Rows] /\ torn' \in BOOLEAN /\ lostClaims' \subseteq RunIds
         /\ lostClaims \subseteq lostClaims'
         /\ \A q \in RunIds \ {r} : row'[q] = row[q]
         /\ row'[r] \in {row[r], new}
         /\ new.status \in Claimed /\ r \notin lostClaims' => row'[r] = new
  BY DEF WorkflowTypeOK, Append

\* A handler that decides is about a run that was given out.
LEMMA HandledRunIsARun ==
  ASSUME WorkflowTypeOK, DecidersHoldLocks, NEW h \in Handlers, step[h] \in Deciding
  PROVE  work[h].run \in RunIds /\ work[h].run <= runs
  BY WorkflowConstants DEF WorkflowTypeOK, DecidersHoldLocks, RunIds

\* Two handlers never decide the same run.
LEMMA OneDeciderPerRun ==
  ASSUME DecidersHoldLocks, NEW g \in Handlers, NEW h \in Handlers,
         step[g] \in Deciding, step[h] \in Deciding, work[g].run = work[h].run
  PROVE  g = h
  BY DEF DecidersHoldLocks

\* The rows a handler appends are rows.
LEMMA NewRowIsARow ==
  ASSUME WorkflowTypeOK, NEW h \in Handlers
  PROVE  NewRow(h) \in Rows
  BY DEF WorkflowTypeOK, NewRow, Rows, Works, Actors

\* A row with another status, or another status and decider, is a row.
LEMMA ChangedRowIsARow ==
  ASSUME WorkflowTypeOK, NEW r \in RunIds, NEW s \in RunStatus, NEW a \in Actors
  PROVE  /\ [row[r] EXCEPT !.status = s] \in Rows
         /\ [row[r] EXCEPT !.status = s, !.decider = a] \in Rows
         /\ [row[r] EXCEPT !.status = s].status = s
         /\ [row[r] EXCEPT !.status = s, !.decider = a].status = s
  BY DEF WorkflowTypeOK, Rows

\* The blank row and the work of an idle handler are of their types.
LEMMA NoWorkIsAWork == NoWork \in Works /\ NoRow \in Rows
  BY WorkflowConstants DEF NoWork, NoRow, Works, Rows, Decisions, Actors, RunStatus

--------------------------------------------------------------------------------
(* Types *)

\* Initially the log, the locks and the handlers have their types.
LEMMA WorkflowInitTypes == WorkflowInit => WorkflowTypeOK
<1> SUFFICES ASSUME WorkflowInit PROVE WorkflowTypeOK
  OBVIOUS
<1>1. row \in [RunIds -> Rows] /\ work \in [Handlers -> Works]
  BY NoWorkIsAWork DEF WorkflowInit
<1>2. ranAs \in [RunIds -> [by : Actors, content : 0..MaxSaves]]
  BY WorkflowConstants DEF WorkflowInit, Actors
<1>3. definition \in [version : 0..MaxSaves, content : 0..MaxSaves]
  BY WorkflowConstants DEF WorkflowInit
<1>4. execLock \in [RunIds -> Handlers \cup {NoHandler}] /\ step \in [Handlers -> Steps]
  BY DEF WorkflowInit, Steps
<1>5. /\ runs \in 0..MaxRuns /\ saves \in 0..MaxSaves /\ stops \in 0..MaxStops
      /\ executions \in [RunIds -> Nat]
  BY WorkflowConstants DEF WorkflowInit
<1>6. torn \in BOOLEAN /\ lostClaims \subseteq RunIds
  BY DEF WorkflowInit
<1> QED BY <1>1, <1>2, <1>3, <1>4, <1>5, <1>6 DEF WorkflowTypeOK

\* Every action keeps the types.
LEMMA WorkflowTypesStep ==
  WorkflowTypeOK /\ VersionsAreSaved /\ DecidersHoldLocks /\ [WorkflowNext]_workflowVars
  => WorkflowTypeOK'
<1> SUFFICES ASSUME WorkflowTypeOK, VersionsAreSaved, DecidersHoldLocks, [WorkflowNext]_workflowVars PROVE WorkflowTypeOK'
  OBVIOUS
<1> USE WorkflowConstants
<1>1. ASSUME NEW h \in Handlers, ReadVersions(h) PROVE WorkflowTypeOK'
  <2>1. [NoWork EXCEPT !.base = definition.version] \in Works
    BY NoWorkIsAWork DEF WorkflowTypeOK, Works
  <2> QED BY <1>1, <2>1 DEF WorkflowTypeOK, ReadVersions, Steps
<1>2. ASSUME NEW h \in Handlers, AppendVersion(h) PROVE WorkflowTypeOK'
  <2>1. work[h].base \in 0..MaxSaves /\ work[h].base <= saves
    BY DEF WorkflowTypeOK, VersionsAreSaved, Works
  <2>2. definition' \in [version : 0..MaxSaves, content : 0..MaxSaves]
    <3>1. CASE work[h].base + 1 > definition.version
      <4>1. definition' = [version |-> work[h].base + 1, content |-> saves + 1]
        BY <1>2, <3>1 DEF AppendVersion
      <4>2. work[h].base + 1 \in 0..MaxSaves /\ saves + 1 \in 0..MaxSaves
        BY <1>2, <2>1 DEF WorkflowTypeOK, AppendVersion
      <4> QED BY <4>1, <4>2
    <3>2. CASE ~(work[h].base + 1 > definition.version)
      BY <1>2, <3>2 DEF WorkflowTypeOK, AppendVersion
    <3> QED BY <3>1, <3>2
  <2> QED BY <1>2, <2>2, NoWorkIsAWork DEF WorkflowTypeOK, AppendVersion, Steps
<1>3. ASSUME NEW h \in Handlers, NEW a \in Starters, Execute(h, a) PROVE WorkflowTypeOK'
  <2>1. PICK o \in Outcome(0) :
          work' = [work EXCEPT ![h] = [NoWork EXCEPT !.actor = a, !.status = o.status, !.gate = o.gate,
                                                     !.content = definition.content]]
    BY <1>3 DEF Execute
  <2>2. o.status \in RunStatus /\ o.gate \in 0..Gates
    BY DEF Outcome, RunStatus, Finished
  <2>3. [NoWork EXCEPT !.actor = a, !.status = o.status, !.gate = o.gate,
                       !.content = definition.content] \in Works
    BY <2>2, NoWorkIsAWork DEF WorkflowTypeOK, Works, Starters, Actors
  <2> QED BY <1>3, <2>1, <2>3 DEF WorkflowTypeOK, Execute, Steps
<1>4. ASSUME NEW h \in Handlers, RecordRun(h) PROVE WorkflowTypeOK'
  <2>1. runs + 1 \in RunIds /\ runs' \in 0..MaxRuns
    BY <1>4 DEF WorkflowTypeOK, RecordRun, RunIds
  <2>2. row' \in [RunIds -> Rows] /\ torn' \in BOOLEAN /\ lostClaims' \subseteq RunIds
    BY <1>4, <2>1, NewRowIsARow, AppendStoresOrLoses DEF RecordRun
  <2> QED BY <1>4, <2>1, <2>2, NoWorkIsAWork DEF WorkflowTypeOK, RecordRun, Steps
<1>5. ASSUME NEW h \in Handlers, NEW a \in People, NEW r \in RunIds, NEW d \in Decisions,
             EnterDecision(h, a, r, d)
      PROVE  WorkflowTypeOK'
  <2>1. r \in 0..MaxRuns /\ a \in Actors
    BY DEF Actors, RunIds
  <2>2. [NoWork EXCEPT !.run = r, !.actor = a, !.decision = d] \in Works
    BY <2>1, NoWorkIsAWork DEF Works
  <2> QED BY <1>5, <2>2 DEF WorkflowTypeOK, EnterDecision, Steps
<1>6. ASSUME NEW h \in Handlers, ClaimDecision(h) PROVE WorkflowTypeOK'
  <2> DEFINE r == work[h].run
             new == [row[r] EXCEPT !.status = IF work[h].decision = "approval" THEN "approval_claimed"
                                          ELSE "rejection_claimed", !.decider = work[h].actor]
  <2>1. r \in RunIds
    BY <1>6, HandledRunIsARun DEF Deciding, ClaimDecision
  <2>2. work[h] \in Works /\ work[h].actor \in Actors
    BY DEF WorkflowTypeOK, Works
  <2>3. new \in Rows
    BY <2>1, <2>2, ChangedRowIsARow DEF RunStatus, Claimed, Decided
  <2>4. row' \in [RunIds -> Rows] /\ torn' \in BOOLEAN /\ lostClaims' \subseteq RunIds
    BY <1>6, <2>1, <2>3, AppendStoresOrLoses DEF ClaimDecision
  <2>5. row[r] \in Rows
    BY <2>1 DEF WorkflowTypeOK
  <2>6. work' \in [Handlers -> Works]
    BY <1>6, <2>2, <2>5 DEF WorkflowTypeOK, ClaimDecision, Works, Rows, RunStatus, Decided
  <2> QED BY <1>6, <2>4, <2>6 DEF WorkflowTypeOK, ClaimDecision, Steps
<1>7. ASSUME NEW h \in Handlers, RefuseDecision(h) PROVE WorkflowTypeOK'
  BY <1>7, NoWorkIsAWork DEF WorkflowTypeOK, RefuseDecision, LeaveDecision, Idle, Steps
<1>8. ASSUME NEW h \in Handlers, ExecuteApproved(h) PROVE WorkflowTypeOK'
  <2>1. PICK o \in Outcome(work[h].gate) :
          work' = [work EXCEPT ![h].status = o.status, ![h].gate = o.gate]
    BY <1>8 DEF ExecuteApproved
  <2>2. work[h] \in Works
    BY DEF WorkflowTypeOK
  <2>3. o.status \in RunStatus /\ o.gate \in 0..Gates
    BY <2>2 DEF Outcome, RunStatus, Finished, Works
  <2>4. work' \in [Handlers -> Works]
    BY <2>1, <2>2, <2>3 DEF WorkflowTypeOK, Works
  <2>5. executions' \in [RunIds -> Nat]
    <3>1. \A r \in RunIds : executions[r] + 1 \in Nat
      BY DEF WorkflowTypeOK
    <3> QED BY <1>8, <3>1 DEF WorkflowTypeOK, ExecuteApproved
  <2>6. [by |-> work[h].actor, content |-> work[h].content] \in [by : Actors, content : 0..MaxSaves]
    BY <2>2 DEF Works
  <2>7. ranAs' \in [RunIds -> [by : Actors, content : 0..MaxSaves]]
    BY <1>8, <2>6 DEF WorkflowTypeOK, ExecuteApproved
  <2> QED BY <1>8, <2>4, <2>5, <2>7 DEF WorkflowTypeOK, ExecuteApproved, Steps
<1>9. ASSUME NEW h \in Handlers, RecordContinuation(h) PROVE WorkflowTypeOK'
  <2>1. runs + 1 \in RunIds /\ runs' \in 0..MaxRuns
    BY <1>9 DEF WorkflowTypeOK, RecordContinuation, RunIds
  <2>2. row' \in [RunIds -> Rows] /\ torn' \in BOOLEAN /\ lostClaims' \subseteq RunIds
    BY <1>9, <2>1, NewRowIsARow, AppendStoresOrLoses DEF RecordContinuation
  <2> QED BY <1>9, <2>1, <2>2 DEF WorkflowTypeOK, RecordContinuation, Steps
<1>10. ASSUME NEW h \in Handlers, RecordDecision(h) PROVE WorkflowTypeOK'
  <2> DEFINE r == work[h].run
             new == [row[r] EXCEPT !.status = IF work[h].decision = "approval" THEN "approved" ELSE "rejected", !.decider = work[h].actor]
  <2>1. r \in RunIds
    BY <1>10, HandledRunIsARun DEF Deciding, RecordDecision
  <2>2. work[h] \in Works /\ work[h].actor \in Actors
    BY DEF WorkflowTypeOK, Works
  <2>3. new \in Rows
    BY <2>1, <2>2, ChangedRowIsARow DEF RunStatus, Claimed, Decided
  <2>4. row' \in [RunIds -> Rows] /\ torn' \in BOOLEAN /\ lostClaims' \subseteq RunIds
    BY <1>10, <2>1, <2>3, AppendStoresOrLoses DEF RecordDecision
  <2> QED BY <1>10, <2>4, NoWorkIsAWork DEF WorkflowTypeOK, RecordDecision, LeaveDecision, Idle, Steps
<1>11. ASSUME NEW h \in Handlers, NEW a \in People, NEW r \in RunIds, Reconcile(h, a, r)
       PROVE  WorkflowTypeOK'
  <2>1. [row[r] EXCEPT !.status = "interrupted"] \in Rows
    BY ChangedRowIsARow DEF RunStatus, Decided, Actors
  <2>2. row' \in [RunIds -> Rows] /\ torn' \in BOOLEAN /\ lostClaims' \subseteq RunIds
    BY <1>11, <2>1, AppendStoresOrLoses DEF Reconcile
  <2> QED BY <1>11, <2>2 DEF WorkflowTypeOK, Reconcile
<1>12. ASSUME NEW h \in Handlers, Stop(h) \/ StopMidAppend(h) PROVE WorkflowTypeOK'
  <2>1. execLock' \in [RunIds -> Handlers \cup {NoHandler}]
    BY <1>12 DEF WorkflowTypeOK, Stop, StopMidAppend, DropLocks
  <2>2. step' \in [Handlers -> Steps] /\ work' \in [Handlers -> Works]
    BY <1>12, NoWorkIsAWork DEF WorkflowTypeOK, Stop, StopMidAppend, Idle, Steps
  <2>3. stops' \in 0..MaxStops
    BY <1>12 DEF WorkflowTypeOK, Stop, StopMidAppend
  <2>4. torn' \in BOOLEAN
    BY <1>12 DEF WorkflowTypeOK, Stop, StopMidAppend
  <2>5. UNCHANGED <<runs, row, definition, saves, executions, ranAs, lostClaims>>
    BY <1>12 DEF Stop, StopMidAppend
  <2> QED BY <2>1, <2>2, <2>3, <2>4, <2>5 DEF WorkflowTypeOK
<1>13. CASE UNCHANGED workflowVars
  BY <1>13 DEF WorkflowTypeOK, workflowVars
<1> QED
  BY <1>1, <1>2, <1>3, <1>4, <1>5, <1>6, <1>7, <1>8, <1>9, <1>10, <1>11, <1>12, <1>13
  DEF WorkflowNext, StartRun, RetryRun

--------------------------------------------------------------------------------
(* Steps that append no row and execute nothing *)

\* The facts about rows and effects survive a step of a handler that only moves the handler
\* to a place where it has no claim.
LEMMA QuietStep ==
  ASSUME WorkflowInv, NEW h \in Handlers,
         UNCHANGED <<runs, row, executions, ranAs, lostClaims>>,
         \A g \in Handlers \ {h} : step'[g] = step[g] /\ work'[g] = work[g],
         step'[h] \notin {"claimed", "executed", "recorded"}
  PROVE  /\ FutureRunsAreBlank' /\ ClaimsAreStored' /\ ClaimsAreReviewed'
         /\ EffectsRunOnce' /\ ReviewedContentRuns'
<1>1. FutureRunsAreBlank' /\ EffectsRunOnce' /\ ReviewedContentRuns'
  BY DEF WorkflowInv, DecisionsAgree, FutureRunsAreBlank, EffectsRunOnce, ReviewedContentRuns
<1>2. ASSUME NEW g \in Handlers, step'[g] \in {"claimed", "executed", "recorded"}
      PROVE  g # h /\ step'[g] = step[g] /\ work'[g] = work[g]
  BY <1>2
<1>3. ClaimsAreStored'
  BY <1>2 DEF WorkflowInv, DecisionsAgree, ClaimsAreStored, ClaimOf
<1>4. ClaimsAreReviewed'
  BY <1>2 DEF WorkflowInv, DecisionsAgree, ClaimsAreReviewed
<1> QED BY <1>1, <1>3, <1>4

\* Such a step of a handler that was not deciding keeps the locks of those that are.
LEMMA QuietLocks ==
  ASSUME WorkflowInv, NEW h \in Handlers,
         UNCHANGED <<runs, execLock>>,
         \A g \in Handlers \ {h} : step'[g] = step[g] /\ work'[g] = work[g],
         step'[h] \notin Deciding
  PROVE  DecidersHoldLocks'
  BY DEF WorkflowInv, DecisionsAgree, DecidersHoldLocks

\* A handler that leaves its decision gives up no lock but its own.
LEMMA LeavingLocks ==
  ASSUME WorkflowInv, NEW h \in Handlers, step'[h] = "idle",
         UNCHANGED runs,
         \A g \in Handlers \ {h} : step'[g] = step[g] /\ work'[g] = work[g],
         \A q \in RunIds : execLock[q] # h => execLock'[q] = execLock[q]
  PROVE  DecidersHoldLocks'
<1> SUFFICES ASSUME NEW g \in Handlers, step'[g] \in Deciding
             PROVE  work'[g].run \in 1..runs' /\ execLock'[work'[g].run] = g
  BY DEF DecidersHoldLocks
<1>1. g # h /\ step[g] \in Deciding /\ work'[g] = work[g]
  BY DEF Deciding
<1>2. work[g].run \in RunIds /\ work[g].run \in 1..runs /\ execLock[work[g].run] = g
  BY <1>1, HandledRunIsARun DEF WorkflowInv, DecisionsAgree, DecidersHoldLocks
<1> QED BY <1>1, <1>2

\* Saving, starting, entering and refusing a decision, and stopping, write no claim.
LEMMA QuietSteps ==
  ASSUME WorkflowInv, NEW h \in Handlers,
         \/ ReadVersions(h) \/ AppendVersion(h) \/ RefuseDecision(h) \/ Stop(h) \/ StopMidAppend(h)
         \/ \E a \in Starters : Execute(h, a)
         \/ \E a \in People, r \in RunIds, d \in Decisions : EnterDecision(h, a, r, d)
  PROVE  /\ DecidersHoldLocks' /\ FutureRunsAreBlank' /\ ClaimsAreStored' /\ ClaimsAreReviewed'
         /\ EffectsRunOnce' /\ ReviewedContentRuns'
<1>1. CASE ReadVersions(h) \/ AppendVersion(h) \/ \E a \in Starters : Execute(h, a)
  <2>1. /\ UNCHANGED <<runs, row, executions, ranAs, lostClaims, execLock>>
        /\ \A g \in Handlers \ {h} : step'[g] = step[g] /\ work'[g] = work[g]
        /\ step'[h] \in {"idle", "saving", "ran"}
    BY <1>1 DEF WorkflowInv, DecisionsAgree, WorkflowTypeOK, ReadVersions, AppendVersion, Execute
  <2>2. step'[h] \notin Deciding
    BY <2>1 DEF Deciding
  <2> QED BY <2>1, <2>2, QuietStep, QuietLocks DEF Deciding
<1>2. CASE RefuseDecision(h)
  <2>1. /\ UNCHANGED <<runs, row, executions, ranAs, lostClaims>>
        /\ \A g \in Handlers \ {h} : step'[g] = step[g] /\ work'[g] = work[g]
        /\ step'[h] = "idle"
    BY <1>2 DEF WorkflowInv, DecisionsAgree, WorkflowTypeOK, RefuseDecision, Idle
  <2>2. execLock[work[h].run] = h
    BY <1>2 DEF WorkflowInv, DecisionsAgree, DecidersHoldLocks, Deciding, RefuseDecision
  <2>3. \A q \in RunIds : execLock[q] # h => execLock'[q] = execLock[q]
    BY <1>2, <2>2 DEF WorkflowInv, DecisionsAgree, WorkflowTypeOK, RefuseDecision, LeaveDecision
  <2> QED BY <2>1, <2>3, QuietStep, LeavingLocks
<1>3. CASE Stop(h) \/ StopMidAppend(h)
  <2>1. /\ UNCHANGED <<runs, row, executions, ranAs, lostClaims>>
        /\ \A g \in Handlers \ {h} : step'[g] = step[g] /\ work'[g] = work[g]
        /\ step'[h] = "idle"
    BY <1>3 DEF WorkflowInv, DecisionsAgree, WorkflowTypeOK, Stop, StopMidAppend, Idle
  <2>2. \A q \in RunIds : execLock[q] # h => execLock'[q] = execLock[q]
    BY <1>3 DEF WorkflowInv, DecisionsAgree, WorkflowTypeOK, Stop, StopMidAppend, DropLocks
  <2> QED BY <2>1, <2>2, QuietStep, LeavingLocks
<1>4. ASSUME NEW a \in People, NEW r \in RunIds, NEW d \in Decisions, EnterDecision(h, a, r, d)
      PROVE  /\ DecidersHoldLocks' /\ FutureRunsAreBlank' /\ ClaimsAreStored' /\ ClaimsAreReviewed'
             /\ EffectsRunOnce' /\ ReviewedContentRuns'
  <2>1. /\ UNCHANGED <<runs, row, executions, ranAs, lostClaims>>
        /\ \A g \in Handlers \ {h} : step'[g] = step[g] /\ work'[g] = work[g]
        /\ step'[h] = "locked" /\ work'[h].run = r
    BY <1>4 DEF WorkflowInv, DecisionsAgree, WorkflowTypeOK, EnterDecision, NoWork
  <2>2. execLock'[r] = h /\ r \in 1..runs
    <3>1. r \in 1..runs
      <4>1. r <= runs
        BY <1>4 DEF EnterDecision
      <4> QED BY <4>1, WorkflowConstants DEF WorkflowInv, DecisionsAgree, WorkflowTypeOK, RunIds
    <3> QED BY <1>4, <3>1 DEF WorkflowInv, DecisionsAgree, WorkflowTypeOK, EnterDecision
  <2>3. ASSUME NEW g \in Handlers \ {h}, step[g] \in Deciding
        PROVE  work[g].run \in 1..runs /\ execLock'[work[g].run] = g
    <3>1. /\ work[g].run \in RunIds /\ work[g].run \in 1..runs
          /\ execLock[work[g].run] = g
      BY <2>3, HandledRunIsARun DEF WorkflowInv, DecisionsAgree, DecidersHoldLocks
    <3>2. work[g].run # r
      BY <1>4, <3>1, WorkflowConstants DEF EnterDecision, NoHandler
    <3> QED BY <1>4, <3>1, <3>2 DEF WorkflowInv, DecisionsAgree, WorkflowTypeOK, EnterDecision
  <2>4. DecidersHoldLocks'
    BY <2>1, <2>2, <2>3 DEF DecidersHoldLocks
  <2> QED BY <2>1, <2>4, QuietStep
<1> QED BY <1>1, <1>2, <1>3, <1>4

--------------------------------------------------------------------------------
(* Steps that append a row or execute *)

\* A row under a new run id disturbs no decision: it is written by a handler that leaves, or
\* that keeps its claim.
LEMMA NewRunStep ==
  ASSUME WorkflowInv, NEW h \in Handlers, RecordRun(h) \/ RecordContinuation(h)
  PROVE  /\ DecidersHoldLocks' /\ FutureRunsAreBlank' /\ ClaimsAreStored' /\ ClaimsAreReviewed'
         /\ EffectsRunOnce' /\ ReviewedContentRuns'
         /\ \A q \in RunIds : row[q].status \in Decided => row'[q] = row[q]
<1>1. WorkflowTypeOK /\ runs \in Nat /\ runs + 1 \in RunIds /\ runs' = runs + 1
  <2>1. runs < MaxRuns /\ runs' = runs + 1
    BY DEF RecordRun, RecordContinuation
  <2>2. WorkflowTypeOK
    BY DEF WorkflowInv, DecisionsAgree
  <2>3. runs \in 0..MaxRuns
    BY <2>2 DEF WorkflowTypeOK
  <2> QED BY <2>1, <2>2, <2>3, WorkflowConstants DEF RunIds
<1>2. Append(runs + 1, NewRow(h))
  BY DEF RecordRun, RecordContinuation
<1>3. /\ lostClaims \subseteq lostClaims'
      /\ \A q \in RunIds \ {runs + 1} : row'[q] = row[q]
  BY <1>1, <1>2, NewRowIsARow, AppendStoresOrLoses
<1>4. row[runs + 1] = NoRow /\ executions[runs + 1] = 0
  BY <1>1 DEF WorkflowInv, DecisionsAgree, FutureRunsAreBlank
<1>5. UNCHANGED <<executions, ranAs, execLock>>
  BY DEF RecordRun, RecordContinuation
<1>6. FutureRunsAreBlank'
  BY <1>1, <1>3, <1>5 DEF WorkflowInv, DecisionsAgree, FutureRunsAreBlank, RunIds
<1>7. EffectsRunOnce' /\ ReviewedContentRuns'
  BY <1>3, <1>4, <1>5 DEF WorkflowInv, DecisionsAgree, EffectsRunOnce, ReviewedContentRuns
<1>8. ASSUME NEW g \in Handlers, step'[g] \in Deciding
      PROVE  /\ step[g] \in Deciding /\ work'[g] = work[g]
             /\ \/ step'[g] = step[g]
                \/ step'[g] = "recorded" /\ step[g] \in {"claimed", "executed", "recorded"}
  <2>1. CASE g = h
    BY <1>8, <2>1 DEF WorkflowInv, DecisionsAgree, WorkflowTypeOK, RecordRun, RecordContinuation, Deciding
  <2>2. CASE g # h
    <3>1. step \in [Handlers -> Steps] /\ work \in [Handlers -> Works]
      BY DEF WorkflowInv, DecisionsAgree, WorkflowTypeOK
    <3>2. step'[g] = step[g]
      BY <2>2, <3>1 DEF RecordRun, RecordContinuation
    <3>3. work'[g] = work[g]
      BY <2>2, <3>1 DEF RecordRun, RecordContinuation
    <3> QED BY <1>8, <3>2, <3>3
  <2> QED BY <2>1, <2>2
<1>9. DecidersHoldLocks'
  BY <1>1, <1>5, <1>8 DEF WorkflowInv, DecisionsAgree, DecidersHoldLocks
<1>10. ASSUME NEW g \in Handlers, step[g] \in Deciding
       PROVE  work[g].run \in RunIds /\ row'[work[g].run] = row[work[g].run]
  BY <1>1, <1>3, <1>10, HandledRunIsARun DEF WorkflowInv, DecisionsAgree
<1>11. ClaimsAreStored'
  <2> SUFFICES ASSUME NEW g \in Handlers, step'[g] \in {"claimed", "executed", "recorded"}
               PROVE  /\ row'[work'[g].run].status
                            \in {"awaiting_approval", "approval_claimed", "rejection_claimed"}
                      /\ work'[g].run \notin lostClaims' => row'[work'[g].run].status = ClaimOf(g)'
    BY DEF ClaimsAreStored
  <2>1. step'[g] \in Deciding
    BY DEF Deciding
  <2>2. step[g] \in {"claimed", "executed", "recorded"} /\ work'[g] = work[g]
    BY <1>8, <2>1
  <2>3. row'[work'[g].run] = row[work[g].run] /\ ClaimOf(g)' = ClaimOf(g)
    BY <1>8, <1>10, <2>1, <2>2 DEF ClaimOf
  <2> QED BY <1>3, <2>2, <2>3 DEF WorkflowInv, DecisionsAgree, ClaimsAreStored
<1>12. ClaimsAreReviewed'
  <2> SUFFICES ASSUME NEW g \in Handlers, step'[g] = "claimed"
               PROVE  /\ work'[g].run \notin lostClaims' => executions'[work'[g].run] = 0
                      /\ work'[g].content = row'[work'[g].run].content
                      /\ Hosted /\ work'[g].decision = "approval"
                         => work'[g].actor # row'[work'[g].run].actor
    BY DEF ClaimsAreReviewed
  <2>1. step'[g] \in Deciding
    BY DEF Deciding
  <2>2. step[g] = "claimed" /\ work'[g] = work[g] /\ row'[work[g].run] = row[work[g].run]
    BY <1>8, <1>10, <2>1
  <2> QED BY <1>3, <1>5, <2>2 DEF WorkflowInv, DecisionsAgree, ClaimsAreReviewed
<1>13. \A q \in RunIds : row[q].status \in Decided => row'[q] = row[q]
  BY <1>3, <1>4 DEF NoRow, Decided
<1> QED BY <1>6, <1>7, <1>9, <1>11, <1>12, <1>13

\* A row of the run that a handler decides disturbs no other handler's decision.
LEMMA OthersKeepTheirClaims ==
  ASSUME WorkflowInv, NEW r \in RunIds, NEW g \in Handlers,
         step[g] \in Deciding, work[g].run # r,
         \A q \in RunIds \ {r} : row'[q] = row[q],
         UNCHANGED executions, lostClaims \subseteq lostClaims',
         step'[g] = step[g], work'[g] = work[g]
  PROVE  /\ step'[g] \in {"claimed", "executed", "recorded"} =>
              /\ row'[work'[g].run].status
                   \in {"awaiting_approval", "approval_claimed", "rejection_claimed"}
              /\ work'[g].run \notin lostClaims' => row'[work'[g].run].status = ClaimOf(g)'
         /\ step'[g] = "claimed" =>
              /\ work'[g].run \notin lostClaims' => executions'[work'[g].run] = 0
              /\ work'[g].content = row'[work'[g].run].content
              /\ Hosted /\ work'[g].decision = "approval" => work'[g].actor # row'[work'[g].run].actor
<1>1. work[g].run \in RunIds /\ row'[work'[g].run] = row[work[g].run] /\ ClaimOf(g)' = ClaimOf(g)
  BY HandledRunIsARun DEF WorkflowInv, DecisionsAgree, ClaimOf
<1>2. step[g] \in {"claimed", "executed", "recorded"} =>
        /\ row[work[g].run].status \in {"awaiting_approval", "approval_claimed", "rejection_claimed"}
        /\ work[g].run \notin lostClaims => row[work[g].run].status = ClaimOf(g)
  BY DEF WorkflowInv, DecisionsAgree, ClaimsAreStored
<1>3. step[g] = "claimed" =>
        /\ work[g].run \notin lostClaims => executions[work[g].run] = 0
        /\ work[g].content = row[work[g].run].content
        /\ Hosted /\ work[g].decision = "approval" => work[g].actor # row[work[g].run].actor
  BY DEF WorkflowInv, DecisionsAgree, ClaimsAreReviewed
<1> QED BY <1>1, <1>2, <1>3

\* reconcile_workflow_run interrupts a claim only of a run nobody decides.
LEMMA ReconcileStep ==
  ASSUME WorkflowInv, NEW h \in Handlers, NEW a \in People, NEW r \in RunIds, Reconcile(h, a, r)
  PROVE  /\ DecidersHoldLocks' /\ FutureRunsAreBlank' /\ ClaimsAreStored' /\ ClaimsAreReviewed'
         /\ EffectsRunOnce' /\ ReviewedContentRuns'
         /\ \A q \in RunIds : row[q].status \in Decided => row'[q] = row[q]
<1> DEFINE new == [row[r] EXCEPT !.status = "interrupted"]
<1>1. new \in Rows /\ new.status = "interrupted" /\ new.content = row[r].content /\ new.actor = row[r].actor
  BY ChangedRowIsARow DEF RunStatus, Decided, Actors, WorkflowInv, DecisionsAgree, WorkflowTypeOK, Rows
<1>2. /\ lostClaims \subseteq lostClaims'
      /\ \A q \in RunIds \ {r} : row'[q] = row[q]
      /\ row'[r] \in {row[r], new}
  BY <1>1, AppendStoresOrLoses DEF WorkflowInv, DecisionsAgree, Reconcile
<1>3. UNCHANGED <<runs, execLock, step, work, executions, ranAs>>
  BY DEF Reconcile
<1>4. row[r].status \in Claimed /\ execLock[r] = NoHandler
  BY DEF Reconcile
<1>5. ASSUME NEW g \in Handlers, step[g] \in Deciding PROVE work[g].run # r
  BY <1>4, <1>5, WorkflowConstants DEF WorkflowInv, DecisionsAgree, DecidersHoldLocks, NoHandler
<1>6. DecidersHoldLocks'
  BY <1>3 DEF WorkflowInv, DecisionsAgree, DecidersHoldLocks
<1>7. row[r] # NoRow
  BY <1>4 DEF NoRow, Claimed
<1>8. FutureRunsAreBlank'
  BY <1>2, <1>3, <1>7 DEF WorkflowInv, DecisionsAgree, FutureRunsAreBlank
<1>9. EffectsRunOnce' /\ ReviewedContentRuns'
  <2>1. EffectsRunOnce'
    BY <1>1, <1>2, <1>3 DEF WorkflowInv, DecisionsAgree, EffectsRunOnce
  <2>2. ReviewedContentRuns'
    <3>1. \A q \in RunIds : row'[q].content = row[q].content /\ row'[q].actor = row[q].actor
      BY <1>1, <1>2
    <3> QED BY <1>3, <3>1 DEF WorkflowInv, DecisionsAgree, ReviewedContentRuns
  <2> QED BY <2>1, <2>2
<1>10. ClaimsAreStored' /\ ClaimsAreReviewed'
  BY <1>2, <1>3, <1>5, OthersKeepTheirClaims DEF ClaimsAreStored, ClaimsAreReviewed, Deciding
<1>11. \A q \in RunIds : row[q].status \in Decided => row'[q] = row[q]
  BY <1>2, <1>4 DEF Claimed, Decided
<1> QED BY <1>6, <1>8, <1>9, <1>10, <1>11

\* Claiming a paused run makes its decider the only one, of the content it was shown.
LEMMA ClaimDecisionStep ==
  ASSUME WorkflowInv, NEW h \in Handlers, ClaimDecision(h)
  PROVE  /\ DecidersHoldLocks' /\ FutureRunsAreBlank' /\ ClaimsAreStored' /\ ClaimsAreReviewed'
         /\ EffectsRunOnce' /\ ReviewedContentRuns'
         /\ \A q \in RunIds : row[q].status \in Decided => row'[q] = row[q]
<1> DEFINE r == work[h].run
           new == [row[r] EXCEPT !.status = IF work[h].decision = "approval" THEN "approval_claimed"
                                            ELSE "rejection_claimed", !.decider = work[h].actor]
<1>1. step[h] = "locked" /\ Claimable(h, row[r]) /\ Append(r, new)
  BY DEF ClaimDecision
<1>2. r \in RunIds /\ r <= runs
  BY <1>1, HandledRunIsARun DEF WorkflowInv, DecisionsAgree, Deciding
<1>3. work[h].actor \in Actors /\ row[r] \in Rows
  BY <1>2 DEF WorkflowInv, DecisionsAgree, WorkflowTypeOK, Works
<1>4. /\ new \in Rows /\ new.status = ClaimOf(h) /\ new.status \in Claimed
      /\ new.content = row[r].content /\ new.actor = row[r].actor
  <2>1. ClaimOf(h) \in RunStatus /\ new = [row[r] EXCEPT !.status = ClaimOf(h), !.decider = work[h].actor]
    BY DEF RunStatus, Claimed, ClaimOf
  <2>3. new \in Rows /\ new.status = ClaimOf(h)
    <3>1. WorkflowTypeOK
      BY DEF WorkflowInv, DecisionsAgree
    <3>2. r \in RunIds /\ ClaimOf(h) \in RunStatus /\ work[h].actor \in Actors
      BY <1>2, <1>3, <2>1
    <3> HIDE DEF r
    <3>3. /\ [row[r] EXCEPT !.status = ClaimOf(h), !.decider = work[h].actor] \in Rows
          /\ [row[r] EXCEPT !.status = ClaimOf(h), !.decider = work[h].actor].status = ClaimOf(h)
      BY <3>1, <3>2, ChangedRowIsARow
    <3> QED BY <2>1, <3>3
  <2>2. new.content = row[r].content /\ new.actor = row[r].actor
    BY <1>3 DEF Rows
  <2>4. ClaimOf(h) \in Claimed
    BY DEF Claimed, ClaimOf
  <2> QED BY <2>2, <2>3, <2>4
<1>5. /\ lostClaims \subseteq lostClaims'
      /\ \A q \in RunIds \ {r} : row'[q] = row[q]
      /\ row'[r] \in {row[r], new}
      /\ r \notin lostClaims' => row'[r] = new
  <2> HIDE DEF new, r
  <2> QED BY <1>1, <1>2, <1>4, AppendStoresOrLoses DEF WorkflowInv, DecisionsAgree
<1>6. row[r].status = "awaiting_approval" /\ definition.content = row[r].content
  BY <1>1 DEF Claimable
<1>7. Hosted /\ work[h].decision = "approval" => work[h].actor # row[r].actor
  BY <1>1 DEF Claimable
<1>8. /\ UNCHANGED <<runs, execLock, executions, ranAs>>
      /\ \A g \in Handlers \ {h} : step'[g] = step[g] /\ work'[g] = work[g]
      /\ step'[h] = "claimed"
  BY DEF WorkflowInv, DecisionsAgree, WorkflowTypeOK, ClaimDecision
<1>9. /\ work'[h].run = r /\ work'[h].actor = work[h].actor /\ work'[h].decision = work[h].decision
      /\ work'[h].content = row[r].content
  <2>1. work \in [Handlers -> Works] /\ work[h] \in Works
    BY DEF WorkflowInv, DecisionsAgree, WorkflowTypeOK
  <2> QED BY <1>6, <2>1 DEF ClaimDecision, Works
<1>10. r \notin lostClaims' => executions[r] = 0
  <2>1. executions[r] \in Nat
    BY <1>2 DEF WorkflowInv, DecisionsAgree, WorkflowTypeOK
  <2>2. r \notin lostClaims => executions[r] <= 1 /\ executions[r] # 1
    BY <1>2, <1>6 DEF WorkflowInv, DecisionsAgree, EffectsRunOnce
  <2> QED BY <1>5, <2>1, <2>2
<1>11. DecidersHoldLocks'
  BY <1>1, <1>8, <1>9 DEF WorkflowInv, DecisionsAgree, DecidersHoldLocks, Deciding
<1>12. FutureRunsAreBlank'
  BY <1>2, <1>5, <1>8 DEF WorkflowInv, DecisionsAgree, WorkflowTypeOK, FutureRunsAreBlank, RunIds
<1>13. EffectsRunOnce'
  BY <1>5, <1>8, <1>10 DEF WorkflowInv, DecisionsAgree, EffectsRunOnce
<1>14. ReviewedContentRuns'
  <2>1. \A q \in RunIds : row'[q].content = row[q].content /\ row'[q].actor = row[q].actor
    BY <1>4, <1>5
  <2> QED BY <1>8, <2>1 DEF WorkflowInv, DecisionsAgree, ReviewedContentRuns
<1>15. ASSUME NEW g \in Handlers \ {h}, step[g] \in Deciding PROVE work[g].run # r
  BY <1>1, <1>15, OneDeciderPerRun DEF WorkflowInv, DecisionsAgree, Deciding
<1>16. ClaimsAreStored' /\ ClaimsAreReviewed'
  <2>1. ASSUME NEW g \in Handlers \ {h}, step'[g] \in {"claimed", "executed", "recorded"}
        PROVE  /\ row'[work'[g].run].status
                     \in {"awaiting_approval", "approval_claimed", "rejection_claimed"}
               /\ work'[g].run \notin lostClaims' => row'[work'[g].run].status = ClaimOf(g)'
               /\ step'[g] = "claimed" =>
                    /\ work'[g].run \notin lostClaims' => executions'[work'[g].run] = 0
                    /\ work'[g].content = row'[work'[g].run].content
                    /\ Hosted /\ work'[g].decision = "approval"
                       => work'[g].actor # row'[work'[g].run].actor
    <3>1. step[g] \in Deciding /\ step'[g] = step[g] /\ work'[g] = work[g]
      BY <1>8, <2>1 DEF Deciding
    <3> HIDE DEF r
    <3> QED BY <1>2, <1>5, <1>8, <1>15, <2>1, <3>1, OthersKeepTheirClaims
  <2>2. /\ row'[work'[h].run].status \in {"awaiting_approval", "approval_claimed", "rejection_claimed"}
        /\ work'[h].run \notin lostClaims' => row'[work'[h].run].status = ClaimOf(h)'
    BY <1>4, <1>5, <1>6, <1>9 DEF ClaimOf
  <2>3. /\ work'[h].run \notin lostClaims' => executions'[work'[h].run] = 0
        /\ work'[h].content = row'[work'[h].run].content
        /\ Hosted /\ work'[h].decision = "approval" => work'[h].actor # row'[work'[h].run].actor
    <3>1. row'[r].content = row[r].content /\ row'[r].actor = row[r].actor
      BY <1>4, <1>5
    <3> HIDE DEF new, r
    <3> QED BY <1>7, <1>8, <1>9, <1>10, <3>1
  <2> QED BY <2>1, <2>2, <2>3 DEF ClaimsAreStored, ClaimsAreReviewed
<1>17. \A q \in RunIds : row[q].status \in Decided => row'[q] = row[q]
  BY <1>5, <1>6 DEF Decided
<1> QED BY <1>11, <1>12, <1>13, <1>14, <1>16, <1>17

\* The execution that follows a claim is the first of its run.
LEMMA ExecuteApprovedStep ==
  ASSUME WorkflowInv, NEW h \in Handlers, ExecuteApproved(h)
  PROVE  /\ DecidersHoldLocks' /\ FutureRunsAreBlank' /\ ClaimsAreStored' /\ ClaimsAreReviewed'
         /\ EffectsRunOnce' /\ ReviewedContentRuns'
<1> DEFINE r == work[h].run
<1>1. /\ step[h] = "claimed" /\ work[h].decision = "approval"
      /\ UNCHANGED <<runs, row, execLock, lostClaims>>
      /\ executions' = [executions EXCEPT ![r] = @ + 1]
      /\ ranAs' = [ranAs EXCEPT ![r] = [by |-> work[h].actor, content |-> work[h].content]]
  BY DEF ExecuteApproved
<1>2. r \in RunIds /\ r <= runs
  BY <1>1, HandledRunIsARun DEF WorkflowInv, DecisionsAgree, Deciding
<1>3. /\ \A g \in Handlers \ {h} : step'[g] = step[g] /\ work'[g] = work[g]
      /\ step'[h] = "executed"
      /\ work'[h].run = r /\ work'[h].decision = work[h].decision
  <2>1. work \in [Handlers -> Works] /\ work[h] \in Works /\ step \in [Handlers -> Steps]
    BY DEF WorkflowInv, DecisionsAgree, WorkflowTypeOK
  <2> QED BY <2>1 DEF ExecuteApproved, Works
<1>4. /\ row[r].status \in {"awaiting_approval", "approval_claimed", "rejection_claimed"}
      /\ r \notin lostClaims => row[r].status = "approval_claimed" /\ executions[r] = 0
      /\ work[h].content = row[r].content /\ (Hosted => work[h].actor # row[r].actor)
  BY <1>1 DEF WorkflowInv, DecisionsAgree, ClaimsAreStored, ClaimsAreReviewed, ClaimOf
<1>5. /\ executions'[r] = executions[r] + 1
      /\ \A q \in RunIds \ {r} : executions'[q] = executions[q] /\ ranAs'[q] = ranAs[q]
      /\ ranAs'[r].by = work[h].actor /\ ranAs'[r].content = work[h].content
  BY <1>1, <1>2 DEF WorkflowInv, DecisionsAgree, WorkflowTypeOK
<1>6. ASSUME NEW g \in Handlers \ {h}, step[g] \in Deciding
      PROVE  work[g].run \in RunIds /\ work[g].run # r
  BY <1>1, <1>6, OneDeciderPerRun, HandledRunIsARun DEF WorkflowInv, DecisionsAgree, Deciding
<1>7. DecidersHoldLocks'
  BY <1>1, <1>3 DEF WorkflowInv, DecisionsAgree, DecidersHoldLocks, Deciding
<1>8. FutureRunsAreBlank'
  BY <1>1, <1>2, <1>5 DEF WorkflowInv, DecisionsAgree, WorkflowTypeOK, FutureRunsAreBlank, RunIds
<1>9. EffectsRunOnce'
  BY <1>1, <1>4, <1>5 DEF WorkflowInv, DecisionsAgree, EffectsRunOnce
<1>10. ReviewedContentRuns'
  BY <1>1, <1>4, <1>5 DEF WorkflowInv, DecisionsAgree, ReviewedContentRuns
<1>11. ClaimsAreStored'
  BY <1>1, <1>3, <1>4 DEF WorkflowInv, DecisionsAgree, ClaimsAreStored, ClaimOf
<1>12. ClaimsAreReviewed'
  <2> SUFFICES ASSUME NEW g \in Handlers, step'[g] = "claimed"
               PROVE  /\ work'[g].run \notin lostClaims' => executions'[work'[g].run] = 0
                      /\ work'[g].content = row'[work'[g].run].content
                      /\ Hosted /\ work'[g].decision = "approval"
                         => work'[g].actor # row'[work'[g].run].actor
    BY DEF ClaimsAreReviewed
  <2>1. g # h /\ step[g] = "claimed" /\ work'[g] = work[g]
    BY <1>3
  <2>2. executions'[work[g].run] = executions[work[g].run]
    BY <1>5, <1>6, <2>1 DEF Deciding
  <2> QED BY <1>1, <2>1, <2>2 DEF WorkflowInv, DecisionsAgree, ClaimsAreReviewed
<1> QED BY <1>7, <1>8, <1>9, <1>10, <1>11, <1>12

\* The row that closes a decision is about a run that its handler claimed.
LEMMA RecordDecisionStep ==
  ASSUME WorkflowInv, NEW h \in Handlers, RecordDecision(h)
  PROVE  /\ DecidersHoldLocks' /\ FutureRunsAreBlank' /\ ClaimsAreStored' /\ ClaimsAreReviewed'
         /\ EffectsRunOnce' /\ ReviewedContentRuns'
         /\ \A q \in RunIds : row[q].status \in Decided => row'[q] = row[q]
<1> DEFINE r == work[h].run
           outcome == IF work[h].decision = "approval" THEN "approved" ELSE "rejected"
           new == [row[r] EXCEPT !.status = outcome, !.decider = work[h].actor]
<1>1. step[h] = "recorded" /\ Append(r, new) /\ UNCHANGED <<runs, executions, ranAs>>
  BY DEF RecordDecision
<1>2. r \in RunIds /\ r <= runs
  BY <1>1, HandledRunIsARun DEF WorkflowInv, DecisionsAgree, Deciding
<1>3. work[h].actor \in Actors /\ row[r] \in Rows
  BY <1>2 DEF WorkflowInv, DecisionsAgree, WorkflowTypeOK, Works
<1>4. /\ new \in Rows /\ new.status = outcome
      /\ new.content = row[r].content /\ new.actor = row[r].actor
  <2>3. outcome \in RunStatus
    BY DEF RunStatus, Decided
  <2>1. new \in Rows /\ new.status = outcome
    <3> HIDE DEF outcome, r
    <3> QED BY <1>2, <1>3, <2>3, ChangedRowIsARow DEF WorkflowInv, DecisionsAgree
  <2>2. new.content = row[r].content /\ new.actor = row[r].actor
    BY <1>3 DEF Rows
  <2> QED BY <2>1, <2>2
<1>5. /\ lostClaims \subseteq lostClaims'
      /\ \A q \in RunIds \ {r} : row'[q] = row[q]
      /\ row'[r] \in {row[r], new}
  BY <1>1, <1>2, <1>4, AppendStoresOrLoses DEF WorkflowInv, DecisionsAgree
<1>6. /\ row[r].status \in {"awaiting_approval", "approval_claimed", "rejection_claimed"}
      /\ r \notin lostClaims => row[r].status = ClaimOf(h)
  BY <1>1 DEF WorkflowInv, DecisionsAgree, ClaimsAreStored
<1>7. /\ \A g \in Handlers \ {h} : step'[g] = step[g] /\ work'[g] = work[g]
      /\ step'[h] = "idle"
  BY DEF WorkflowInv, DecisionsAgree, WorkflowTypeOK, RecordDecision, Idle
<1>8. \A q \in RunIds : execLock[q] # h => execLock'[q] = execLock[q]
  <2>1. execLock[r] = h
    BY <1>1 DEF WorkflowInv, DecisionsAgree, DecidersHoldLocks, Deciding
  <2> QED BY <2>1 DEF WorkflowInv, DecisionsAgree, WorkflowTypeOK, RecordDecision, LeaveDecision
<1>9. DecidersHoldLocks'
  BY <1>1, <1>7, <1>8, LeavingLocks
<1>10. FutureRunsAreBlank'
  BY <1>1, <1>2, <1>5 DEF WorkflowInv, DecisionsAgree, WorkflowTypeOK, FutureRunsAreBlank, RunIds
<1>11. EffectsRunOnce'
  BY <1>1, <1>4, <1>5, <1>6 DEF WorkflowInv, DecisionsAgree, EffectsRunOnce, ClaimOf
<1>12. ReviewedContentRuns'
  <2>1. \A q \in RunIds : row'[q].content = row[q].content /\ row'[q].actor = row[q].actor
    BY <1>4, <1>5
  <2> QED BY <1>1, <2>1 DEF WorkflowInv, DecisionsAgree, ReviewedContentRuns
<1>13. ASSUME NEW g \in Handlers, step'[g] \in {"claimed", "executed", "recorded"}
       PROVE  /\ g # h /\ step[g] \in Deciding /\ work[g].run # r
              /\ step'[g] = step[g] /\ work'[g] = work[g]
  BY <1>1, <1>7, <1>13, OneDeciderPerRun DEF WorkflowInv, DecisionsAgree, Deciding
<1>14. ClaimsAreStored' /\ ClaimsAreReviewed'
  <2> HIDE DEF r
  <2> QED BY <1>1, <1>2, <1>5, <1>13, OthersKeepTheirClaims DEF ClaimsAreStored, ClaimsAreReviewed
<1>15. \A q \in RunIds : row[q].status \in Decided => row'[q] = row[q]
  BY <1>5, <1>6 DEF Decided
<1> QED BY <1>9, <1>10, <1>11, <1>12, <1>14, <1>15

--------------------------------------------------------------------------------
(* The invariant *)

\* The current version, and any that a handler has read, has been saved.
LEMMA VersionsStep ==
  WorkflowTypeOK /\ VersionsAreSaved /\ [WorkflowNext]_workflowVars => VersionsAreSaved'
<1> SUFFICES ASSUME WorkflowTypeOK, VersionsAreSaved, [WorkflowNext]_workflowVars
             PROVE  VersionsAreSaved'
  OBVIOUS
<1> USE WorkflowConstants
<1>1. NoWork.base = 0 /\ work \in [Handlers -> Works] /\ saves \in Nat /\ definition.version \in Nat
  BY DEF WorkflowTypeOK, NoWork
<1>2. ASSUME NEW h \in Handlers, ReadVersions(h) PROVE VersionsAreSaved'
  <2>1. [NoWork EXCEPT !.base = definition.version].base = definition.version
    BY DEF NoWork
  <2> QED BY <1>1, <1>2, <2>1 DEF VersionsAreSaved, ReadVersions
<1>3. ASSUME NEW h \in Handlers, AppendVersion(h) PROVE VersionsAreSaved'
  <2>1. work[h].base <= saves /\ work[h].base \in Nat
    BY <1>1 DEF VersionsAreSaved, Works
  <2>2. definition'.version <= saves'
    BY <1>1, <1>3, <2>1 DEF VersionsAreSaved, AppendVersion
  <2>3. \A g \in Handlers : work'[g].base <= saves'
    <3>1. ASSUME NEW g \in Handlers PROVE work[g].base \in Nat /\ work[g].base <= saves
      BY <1>1 DEF VersionsAreSaved, Works
    <3>2. saves' = saves + 1 /\ work' = [work EXCEPT ![h] = NoWork]
      BY <1>3 DEF AppendVersion
    <3> QED BY <1>1, <3>1, <3>2
  <2> QED BY <2>2, <2>3 DEF VersionsAreSaved
<1>4. ASSUME NEW h \in Handlers, NEW a \in Starters, Execute(h, a) PROVE VersionsAreSaved'
  <2>1. UNCHANGED <<definition, saves>>
    BY <1>4 DEF Execute
  <2>2. work'[h].base = 0 /\ \A g \in Handlers \ {h} : work'[g] = work[g]
    BY <1>1, <1>4 DEF Execute, NoWork
  <2> QED BY <1>1, <2>1, <2>2 DEF VersionsAreSaved
<1>5. ASSUME NEW h \in Handlers, NEW a \in People, NEW r \in RunIds, NEW d \in Decisions,
             EnterDecision(h, a, r, d)
      PROVE  VersionsAreSaved'
  <2>1. UNCHANGED <<definition, saves>>
    BY <1>5 DEF EnterDecision
  <2>2. work'[h].base = 0 /\ \A g \in Handlers \ {h} : work'[g] = work[g]
    BY <1>1, <1>5 DEF EnterDecision, NoWork
  <2> QED BY <1>1, <2>1, <2>2 DEF VersionsAreSaved
<1>6. ASSUME NEW h \in Handlers, ClaimDecision(h) \/ ExecuteApproved(h)
      PROVE  VersionsAreSaved'
  <2>1. UNCHANGED <<definition, saves>>
    BY <1>6 DEF ClaimDecision, ExecuteApproved
  <2>2. \A g \in Handlers : work'[g].base = work[g].base
    <3>1. work[h] \in Works
      BY <1>1
    <3>2. CASE ClaimDecision(h)
      BY <1>1, <3>1, <3>2 DEF ClaimDecision, Works
    <3>3. CASE ExecuteApproved(h)
      BY <1>1, <3>1, <3>3 DEF ExecuteApproved, Works
    <3> QED BY <1>6, <3>2, <3>3
  <2> QED BY <2>1, <2>2 DEF VersionsAreSaved
<1>7. ASSUME NEW h \in Handlers,
             RecordRun(h) \/ RefuseDecision(h) \/ RecordDecision(h) \/ Stop(h) \/ StopMidAppend(h)
      PROVE  VersionsAreSaved'
  <2>1. UNCHANGED <<definition, saves>> /\ work' = [work EXCEPT ![h] = NoWork]
    BY <1>7 DEF RecordRun, RefuseDecision, RecordDecision, Stop, StopMidAppend, Idle
  <2> QED BY <1>1, <2>1 DEF VersionsAreSaved
<1>8. ASSUME NEW h \in Handlers,
             RecordContinuation(h) \/ \E a \in People, r \in RunIds : Reconcile(h, a, r)
      PROVE  VersionsAreSaved'
  BY <1>8 DEF VersionsAreSaved, RecordContinuation, Reconcile
<1>9. CASE UNCHANGED workflowVars
  BY <1>9 DEF VersionsAreSaved, workflowVars
<1> QED
  BY <1>2, <1>3, <1>4, <1>5, <1>6, <1>7, <1>8, <1>9 DEF WorkflowNext, StartRun, RetryRun

\* An empty log satisfies the invariant.
LEMMA WorkflowInvInit == WorkflowInit => WorkflowInv
<1> SUFFICES ASSUME WorkflowInit PROVE WorkflowInv
  OBVIOUS
<1>1. WorkflowTypeOK
  BY WorkflowInitTypes
<1>2. VersionsAreSaved
  BY DEF WorkflowInit, VersionsAreSaved, NoWork
<1>3. DecidersHoldLocks /\ ClaimsAreStored /\ ClaimsAreReviewed
  BY DEF WorkflowInit, DecidersHoldLocks, ClaimsAreStored, ClaimsAreReviewed, Deciding
<1>4. FutureRunsAreBlank /\ EffectsRunOnce /\ ReviewedContentRuns
  BY DEF WorkflowInit, FutureRunsAreBlank, EffectsRunOnce, ReviewedContentRuns
<1> QED BY <1>1, <1>2, <1>3, <1>4 DEF WorkflowInv, DecisionsAgree

\* Every step keeps the invariant, and changes the row of no decided run.
LEMMA WorkflowInvStep ==
  WorkflowInv /\ [WorkflowNext]_workflowVars => WorkflowInv' /\ DecidedRowsStay
<1> SUFFICES ASSUME WorkflowInv, [WorkflowNext]_workflowVars
             PROVE  DecisionsAgree' /\ DecidedRowsStay
  BY WorkflowTypesStep, VersionsStep DEF WorkflowInv, DecisionsAgree
<1>1. ASSUME NEW h \in Handlers,
             \/ ReadVersions(h) \/ AppendVersion(h) \/ RefuseDecision(h) \/ Stop(h) \/ StopMidAppend(h)
             \/ \E a \in Starters : Execute(h, a)
             \/ \E a \in People, r \in RunIds, d \in Decisions : EnterDecision(h, a, r, d)
      PROVE  DecisionsAgree' /\ DecidedRowsStay
  <2>1. UNCHANGED row
    BY <1>1 DEF ReadVersions, AppendVersion, RefuseDecision, Stop, StopMidAppend, Execute, EnterDecision
  <2> QED BY <1>1, <2>1, QuietSteps DEF DecisionsAgree, DecidedRowsStay
<1>2. ASSUME NEW h \in Handlers, RecordRun(h) \/ RecordContinuation(h)
      PROVE  DecisionsAgree' /\ DecidedRowsStay
  BY <1>2, NewRunStep DEF DecisionsAgree, DecidedRowsStay
<1>3. ASSUME NEW h \in Handlers, ClaimDecision(h) PROVE DecisionsAgree' /\ DecidedRowsStay
  BY <1>3, ClaimDecisionStep DEF DecisionsAgree, DecidedRowsStay
<1>4. ASSUME NEW h \in Handlers, ExecuteApproved(h) PROVE DecisionsAgree' /\ DecidedRowsStay
  <2>1. UNCHANGED row
    BY <1>4 DEF ExecuteApproved
  <2> QED BY <1>4, <2>1, ExecuteApprovedStep DEF DecisionsAgree, DecidedRowsStay
<1>5. ASSUME NEW h \in Handlers, RecordDecision(h) PROVE DecisionsAgree' /\ DecidedRowsStay
  BY <1>5, RecordDecisionStep DEF DecisionsAgree, DecidedRowsStay
<1>6. ASSUME NEW h \in Handlers, NEW a \in People, NEW r \in RunIds, Reconcile(h, a, r)
      PROVE  DecisionsAgree' /\ DecidedRowsStay
  BY <1>6, ReconcileStep DEF DecisionsAgree, DecidedRowsStay
<1>7. CASE UNCHANGED workflowVars
  <2>1. DecidersHoldLocks' /\ FutureRunsAreBlank'
    BY <1>7 DEF WorkflowInv, DecisionsAgree, workflowVars, DecidersHoldLocks, FutureRunsAreBlank
  <2>2. ClaimsAreStored' /\ ClaimsAreReviewed'
    BY <1>7 DEF WorkflowInv, DecisionsAgree, workflowVars, ClaimsAreStored, ClaimsAreReviewed, ClaimOf
  <2>3. EffectsRunOnce' /\ ReviewedContentRuns'
    BY <1>7 DEF WorkflowInv, DecisionsAgree, workflowVars, EffectsRunOnce, ReviewedContentRuns
  <2>4. DecidedRowsStay
    BY <1>7 DEF workflowVars, DecidedRowsStay
  <2> QED BY <2>1, <2>2, <2>3, <2>4 DEF DecisionsAgree
<1>8. ASSUME NEW h \in Handlers, NEW a \in Starters, StartRun(h, a) \/ \E r \in RunIds : RetryRun(h, a, r)
      PROVE  DecisionsAgree' /\ DecidedRowsStay
  <2>1. \E b \in Starters : Execute(h, b)
    BY <1>8 DEF StartRun, RetryRun
  <2> QED BY <1>1, <2>1
<1>9. ASSUME NEW h \in Handlers, NEW a \in People, NEW r \in RunIds, NEW d \in Decisions,
             EnterDecision(h, a, r, d)
      PROVE  DecisionsAgree' /\ DecidedRowsStay
  <2>1. \E b \in People, q \in RunIds, e \in Decisions : EnterDecision(h, b, q, e)
    BY <1>9
  <2> QED BY <1>1, <2>1
<1>10. ASSUME WorkflowNext PROVE DecisionsAgree' /\ DecidedRowsStay
  <2>1. PICK h \in Handlers :
          \/ ReadVersions(h) \/ AppendVersion(h)
          \/ RecordRun(h)
          \/ ClaimDecision(h) \/ RefuseDecision(h) \/ ExecuteApproved(h)
          \/ RecordContinuation(h) \/ RecordDecision(h)
          \/ Stop(h) \/ StopMidAppend(h)
          \/ \E a \in Starters : StartRun(h, a) \/ \E r \in RunIds : RetryRun(h, a, r)
          \/ \E a \in People, r \in RunIds :
               Reconcile(h, a, r) \/ \E d \in Decisions : EnterDecision(h, a, r, d)
    BY <1>10 DEF WorkflowNext
  <2>2. CASE ReadVersions(h) \/ AppendVersion(h) \/ RefuseDecision(h) \/ Stop(h) \/ StopMidAppend(h)
    BY <1>1, <2>2
  <2>3. CASE RecordRun(h) \/ RecordContinuation(h)
    BY <1>2, <2>3
  <2>4. CASE ClaimDecision(h) \/ ExecuteApproved(h) \/ RecordDecision(h)
    BY <1>3, <1>4, <1>5, <2>4
  <2>5. CASE \E a \in Starters : StartRun(h, a) \/ \E r \in RunIds : RetryRun(h, a, r)
    BY <1>8, <2>5
  <2>6. CASE \E a \in People, r \in RunIds :
               Reconcile(h, a, r) \/ \E d \in Decisions : EnterDecision(h, a, r, d)
    BY <1>6, <1>9, <2>6
  <2> QED BY <2>1, <2>2, <2>3, <2>4, <2>5, <2>6
<1> QED BY <1>7, <1>10

\* The invariant holds in every reachable state.
THEOREM WorkflowInvariant == WorkflowSpec => []WorkflowInv
<1>1. WorkflowInv /\ [WorkflowNext]_workflowVars => WorkflowInv'
  BY WorkflowInvStep
<1> QED BY <1>1, WorkflowInvInit, PTL DEF WorkflowSpec

\* Rows, locks and handlers keep their types.
THEOREM WorkflowTypesHold == WorkflowSpec => []WorkflowTypeOK
<1>1. WorkflowInv => WorkflowTypeOK
  BY DEF WorkflowInv
<1> QED BY <1>1, WorkflowInvariant, PTL

\* What is behind a gate is executed at most once for a paused run, and a run it was executed
\* for does not look undecided or rejected (workflows.py: claims before execution).
THEOREM EffectsRunOnceHolds == WorkflowSpec => []EffectsRunOnce
<1>1. WorkflowInv => EffectsRunOnce
  BY DEF WorkflowInv, DecisionsAgree
<1> QED BY <1>1, WorkflowInvariant, PTL

\* An approval executes what the run was paused with, by an independent reviewer when hosted
\* (workflows.py: _claim_workflow_decision).
THEOREM ReviewedContentRunsHolds == WorkflowSpec => []ReviewedContentRuns
<1>1. WorkflowInv => ReviewedContentRuns
  BY DEF WorkflowInv, DecisionsAgree
<1> QED BY <1>1, WorkflowInvariant, PTL

\* The row of a decided run never changes again.
THEOREM DecisionsAreFinalHolds == WorkflowSpec => DecisionsAreFinal
<1>1. WorkflowInv /\ [WorkflowNext]_workflowVars
      => [\A r \in RunIds : row[r].status \in Decided => row'[r] = row[r]]_workflowVars
  BY WorkflowInvStep DEF DecidedRowsStay
<1> QED BY <1>1, WorkflowInvariant, PTL DEF WorkflowSpec, DecisionsAreFinal

--------------------------------------------------------------------------------
(* The gate of a run *)

\* What a handler is about to append: the result of nodes that ran, or a rejection; and a
\* decision that approves was executed before its run is closed.
HandlerAgrees(h) ==
  /\ step[h] \in {"ran", "executed"} => work[h].status \in Finished \cup {"awaiting_approval"}
  /\ step[h] = "claimed" => work[h].status = "rejected"
  /\ step[h] \in {"executed", "recorded"} /\ work[h].decision = "approval"
     /\ work[h].run \notin lostClaims => executions[work[h].run] = 1

HandlersAgree == \A h \in Handlers : HandlerAgrees(h)

\* A handler keeps its agreement while it stays where it is and nobody executes its run.
LEMMA HandlerRests ==
  ASSUME HandlersAgree, NEW g \in Handlers, step'[g] = step[g], work'[g] = work[g],
         lostClaims \subseteq lostClaims',
         step[g] \in {"executed", "recorded"} => executions'[work[g].run] = executions[work[g].run]
  PROVE  HandlerAgrees(g)'
BY DEF HandlersAgree, HandlerAgrees

\* A handler that returns to the pool, or starts something, has nothing to agree with.
LEMMA HandlerStartsOver ==
  ASSUME NEW h \in Handlers, step'[h] \in {"idle", "saving", "locked"}
  PROVE  HandlerAgrees(h)'
BY DEF HandlerAgrees

\* Every step keeps the handlers in agreement with what they do.
LEMMA HandlersStep == WorkflowInv /\ HandlersAgree /\ [WorkflowNext]_workflowVars => HandlersAgree'
<1> SUFFICES ASSUME WorkflowInv, HandlersAgree, [WorkflowNext]_workflowVars
             PROVE  HandlersAgree'
  OBVIOUS
<1>t. WorkflowTypeOK /\ DecidersHoldLocks
  BY DEF WorkflowInv, DecisionsAgree
<1>s. step \in [Handlers -> Steps] /\ work \in [Handlers -> Works]
  BY <1>t DEF WorkflowTypeOK
<1>l. ASSUME NEW r, NEW new, Append(r, new) PROVE lostClaims \subseteq lostClaims'
  BY <1>l DEF Append
<1>o. \A g \in Nat : \A o \in Outcome(g) : o.status \in Finished \cup {"awaiting_approval"}
  BY DEF Outcome
<1>1. ASSUME NEW h \in Handlers,
             ReadVersions(h) \/ AppendVersion(h) \/ RefuseDecision(h) \/ Stop(h) \/ StopMidAppend(h)
      PROVE  HandlersAgree'
  <2>1. /\ UNCHANGED <<executions, lostClaims>> /\ step'[h] \in {"idle", "saving"}
        /\ \A g \in Handlers \ {h} : step'[g] = step[g] /\ work'[g] = work[g]
    BY <1>1, <1>s DEF ReadVersions, AppendVersion, RefuseDecision, Stop, StopMidAppend, Idle
  <2> QED BY <2>1, HandlerRests, HandlerStartsOver DEF HandlersAgree
<1>2. ASSUME NEW h \in Handlers, NEW a \in Starters, Execute(h, a) PROVE HandlersAgree'
  <2>1. PICK o \in Outcome(0) :
          work' = [work EXCEPT ![h] = [NoWork EXCEPT !.actor = a, !.status = o.status, !.gate = o.gate,
                                                     !.content = definition.content]]
    BY <1>2 DEF Execute
  <2>2. work'[h].status = o.status
    BY <2>1, <1>s DEF NoWork
  <2>3. /\ UNCHANGED <<executions, lostClaims>> /\ step'[h] = "ran"
        /\ \A g \in Handlers \ {h} : step'[g] = step[g] /\ work'[g] = work[g]
    BY <1>2, <2>1, <1>s DEF Execute
  <2>4. HandlerAgrees(h)'
    BY <2>2, <2>3, <1>o DEF HandlerAgrees
  <2> QED BY <2>3, <2>4, HandlerRests DEF HandlersAgree
<1>3. ASSUME NEW h \in Handlers, RecordRun(h) \/ RecordDecision(h) PROVE HandlersAgree'
  <2>1. /\ UNCHANGED executions /\ step'[h] = "idle" /\ lostClaims \subseteq lostClaims'
        /\ \A g \in Handlers \ {h} : step'[g] = step[g] /\ work'[g] = work[g]
    BY <1>3, <1>s, <1>l DEF RecordRun, RecordDecision, Idle
  <2> QED BY <2>1, HandlerRests, HandlerStartsOver DEF HandlersAgree
<1>4. ASSUME NEW h \in Handlers, NEW a \in People, NEW r \in RunIds, NEW d \in Decisions,
             EnterDecision(h, a, r, d)
      PROVE  HandlersAgree'
  <2>1. /\ UNCHANGED <<executions, lostClaims>> /\ step'[h] = "locked"
        /\ \A g \in Handlers \ {h} : step'[g] = step[g] /\ work'[g] = work[g]
    BY <1>4, <1>s DEF EnterDecision
  <2> QED BY <2>1, HandlerRests, HandlerStartsOver DEF HandlersAgree
<1>5. ASSUME NEW h \in Handlers, ClaimDecision(h) PROVE HandlersAgree'
  <2>1. /\ UNCHANGED executions /\ step'[h] = "claimed" /\ lostClaims \subseteq lostClaims'
        /\ \A g \in Handlers \ {h} : step'[g] = step[g] /\ work'[g] = work[g]
    BY <1>5, <1>s, <1>l DEF ClaimDecision
  <2>2. work'[h].status = "rejected"
    <3>1. work[h] \in Works
      BY <1>s
    <3> QED BY <1>5, <1>s, <3>1 DEF ClaimDecision, Works
  <2>3. HandlerAgrees(h)'
    BY <2>1, <2>2 DEF HandlerAgrees
  <2> QED BY <2>1, <2>3, HandlerRests DEF HandlersAgree
<1>6. ASSUME NEW h \in Handlers, ExecuteApproved(h) PROVE HandlersAgree'
  <2> DEFINE r == work[h].run
  <2>1. PICK o \in Outcome(work[h].gate) :
          work' = [work EXCEPT ![h].status = o.status, ![h].gate = o.gate]
    BY <1>6 DEF ExecuteApproved
  <2>2. step[h] = "claimed" /\ r \in RunIds /\ work[h] \in Works
    BY <1>6, <1>t, <1>s, HandledRunIsARun DEF ExecuteApproved, Deciding
  <2>3. work'[h].status = o.status /\ work'[h].run = r
    BY <2>1, <2>2, <1>s DEF Works
  <2>4. o.status \in Finished \cup {"awaiting_approval"}
    BY <2>2, <1>o, WorkflowConstants DEF Works
  <2>5. /\ UNCHANGED lostClaims /\ step'[h] = "executed"
        /\ \A g \in Handlers \ {h} : step'[g] = step[g] /\ work'[g] = work[g]
    BY <1>6, <2>1, <1>s DEF ExecuteApproved
  <2>6. executions'[r] = executions[r] + 1 /\ \A q \in RunIds \ {r} : executions'[q] = executions[q]
    BY <1>6, <2>2, <1>t DEF ExecuteApproved, WorkflowTypeOK
  <2>7. r \notin lostClaims => executions[r] = 0
    BY <2>2 DEF WorkflowInv, DecisionsAgree, ClaimsAreReviewed
  <2>8. HandlerAgrees(h)'
    BY <2>3, <2>4, <2>5, <2>6, <2>7 DEF HandlerAgrees
  <2>9. ASSUME NEW g \in Handlers \ {h}, step[g] \in {"executed", "recorded"}
        PROVE  executions'[work[g].run] = executions[work[g].run]
    <3>1. work[g].run \in RunIds /\ work[g].run # r
      BY <2>2, <2>9, <1>t, OneDeciderPerRun, HandledRunIsARun DEF Deciding
    <3> QED BY <2>6, <3>1
  <2>10. \A g \in Handlers \ {h} : HandlerAgrees(g)'
    BY <2>5, <2>9, HandlerRests
  <2> QED BY <2>8, <2>10 DEF HandlersAgree
<1>7. ASSUME NEW h \in Handlers, RecordContinuation(h) PROVE HandlersAgree'
  <2>1. /\ UNCHANGED <<executions, work>> /\ step'[h] = "recorded" /\ lostClaims \subseteq lostClaims'
        /\ step[h] = "executed" \/ work[h].decision = "rejection"
        /\ \A g \in Handlers \ {h} : step'[g] = step[g] /\ work'[g] = work[g]
    BY <1>7, <1>s, <1>l DEF RecordContinuation
  <2>2. HandlerAgrees(h)'
    BY <2>1 DEF HandlerAgrees, HandlersAgree
  <2> QED BY <2>1, <2>2, HandlerRests DEF HandlersAgree
<1>8. ASSUME NEW h \in Handlers, NEW a \in People, NEW r \in RunIds, Reconcile(h, a, r)
      PROVE  HandlersAgree'
  BY <1>8, <1>l, HandlerRests DEF Reconcile, HandlersAgree
<1>9. CASE UNCHANGED workflowVars
  BY <1>9, HandlerRests DEF workflowVars, HandlersAgree
<1> QED
  BY <1>1, <1>2, <1>3, <1>4, <1>5, <1>6, <1>7, <1>8, <1>9 DEF WorkflowNext, StartRun, RetryRun

\* What the log says of a gate depends on the status of its row alone, unless its claim is lost.
LEMMA VerdictOfStatus ==
  ASSUME NEW r \in RunIds, r \notin lostClaims
  PROVE  /\ row[r].status \in Claimed => RunVerdict(r) = "claimed"
         /\ row[r].status = "approved" => RunVerdict(r) = "accepted"
         /\ row[r].status = "rejected" => RunVerdict(r) = "refused"
         /\ row[r].status = "interrupted" => RunVerdict(r) = "unknown"
         /\ row[r].status \notin Claimed \cup Decided => RunVerdict(r) = "open"
BY DEF RunVerdict, Claimed, Decided

\* The gates stay as they are when statuses and effects do, wherever no claim was lost.
LEMMA GatesRest ==
  ASSUME UNCHANGED lostClaims,
         \A q \in RunIds \ lostClaims : row'[q].status = row[q].status /\ executions'[q] = executions[q]
  PROVE  UNCHANGED RunGate!vars
<1>1. \A q \in RunIds : RunVerdict(q)' = RunVerdict(q)
  BY DEF RunVerdict
<1>2. [q \in RunIds |-> RunVerdict(q)]' = [q \in RunIds |-> RunVerdict(q)]
  BY <1>1
<1>3. [q \in RunIds |-> IF q \in lostClaims THEN 0 ELSE executions[q]]'
      = [q \in RunIds |-> IF q \in lostClaims THEN 0 ELSE executions[q]]
  OBVIOUS
<1> QED BY <1>2, <1>3 DEF RunGate!vars

\* The gate of one run moves to another verdict.
LEMMA GateMoves ==
  ASSUME NEW r \in RunIds \ lostClaims, UNCHANGED lostClaims,
         \A q \in RunIds \ {r} : row'[q].status = row[q].status,
         NEW from, RunVerdict(r) \in from, NEW to, RunVerdict(r)' = to
  PROVE  RunGate!Moves(r, from, to)
<1>1. \A q \in RunIds \ {r} : RunVerdict(q)' = RunVerdict(q)
  BY DEF RunVerdict
<1> QED BY <1>1 DEF RunGate!Moves

\* The effects of the gates stay as they are.
LEMMA EffectsRest ==
  ASSUME UNCHANGED <<lostClaims, executions>>
  PROVE  UNCHANGED [q \in RunIds |-> IF q \in lostClaims THEN 0 ELSE executions[q]]
OBVIOUS

\* The row of a new run leaves its gate open, or is a rejection.
LEMMA NewRowGate ==
  ASSUME WorkflowInv, HandlersAgree, NEW h \in Handlers, RecordRun(h) \/ RecordContinuation(h)
  PROVE  RunGate!Next \/ UNCHANGED RunGate!vars
<1>t. WorkflowTypeOK
  BY DEF WorkflowInv
<1>0. runs + 1 \in RunIds /\ Append(runs + 1, NewRow(h)) /\ UNCHANGED executions
  BY <1>t, WorkflowConstants DEF RecordRun, RecordContinuation, WorkflowTypeOK, RunIds
<1>1. PICK r \in RunIds : r = runs + 1 /\ Append(r, NewRow(h)) /\ UNCHANGED executions
  BY <1>0
<1>2. row[r].status = "absent" /\ executions[r] = 0
  BY <1>t, <1>1 DEF WorkflowInv, DecisionsAgree, FutureRunsAreBlank, NoRow, WorkflowTypeOK
<1>3. NewRow(h).status \in Finished \cup {"awaiting_approval", "rejected"}
  BY DEF RecordRun, RecordContinuation, NewRow, HandlersAgree, HandlerAgrees
<1>4. /\ UNCHANGED lostClaims /\ row'[r] \in {row[r], NewRow(h)}
      /\ \A q \in RunIds \ {r} : row'[q] = row[q]
  BY <1>1, <1>3, <1>t DEF Append, WorkflowTypeOK, Finished, Claimed
<1>5. CASE r \in lostClaims
  BY <1>1, <1>4, <1>5, GatesRest
<1>6. CASE r \notin lostClaims /\ row'[r].status = "rejected"
  <2>1. RunVerdict(r) = "open"
    BY <1>1, <1>2, <1>6, VerdictOfStatus DEF Claimed, Decided
  <2>2. RunVerdict(r)' = "refused"
    BY <1>4, <1>6 DEF RunVerdict, Claimed
  <2>3. RunGate!Moves(r, {"open", "claimed"}, "refused")
    BY <1>1, <1>4, <1>6, <2>1, <2>2, GateMoves
  <2>4. RunGate!Refuse(r)
    BY <1>1, <1>2, <1>4, <2>3, EffectsRest DEF RunGate!Refuse
  <2> QED BY <1>1, <2>4 DEF RunGate!Next
<1>7. CASE r \notin lostClaims /\ row'[r].status # "rejected"
  <2>1. row[r].status \notin Claimed \cup Decided /\ row'[r].status \notin Claimed \cup Decided
    BY <1>2, <1>3, <1>4, <1>7 DEF Finished, Claimed, Decided
  <2>2. RunVerdict(r)' = RunVerdict(r)
    BY <1>4, <2>1 DEF RunVerdict, Claimed, Decided
  <2>3. RunVerdict(r) = "open"
    BY <1>1, <1>7, <2>1, VerdictOfStatus
  <2>4. RunGate!Moves(r, {"open"}, "open")
    BY <1>1, <1>4, <1>7, <2>2, <2>3, GateMoves
  <2>5. UNCHANGED [q \in RunIds |-> RunVerdict(q)]
    BY <1>1, <2>3, <2>4 DEF RunGate!Moves
  <2> QED BY <1>1, <1>4, <2>5, EffectsRest DEF RunGate!vars
<1> QED BY <1>5, <1>6, <1>7

\* A claim closes the gate behind it, or breaks the gate when it is lost.
LEMMA ClaimGate ==
  ASSUME WorkflowInv, NEW h \in Handlers, ClaimDecision(h)
  PROVE  RunGate!Next \/ UNCHANGED RunGate!vars
<1>t. WorkflowTypeOK
  BY DEF WorkflowInv
<1>0. work[h].run \in RunIds
  BY <1>t, HandledRunIsARun DEF WorkflowInv, DecisionsAgree, ClaimDecision, Deciding
<1>p. PICK r \in RunIds : r = work[h].run
  BY <1>0
<1> DEFINE new == [row[r] EXCEPT !.status = ClaimOf(h), !.decider = work[h].actor]
<1>1. row[r] \in Rows /\ row[r].status = "awaiting_approval" /\ UNCHANGED executions
  BY <1>t, <1>p DEF ClaimDecision, Claimable, WorkflowTypeOK
<1>2. Append(r, new)
  BY <1>p DEF ClaimDecision, ClaimOf
<1>3. new.status \in Claimed
  BY <1>1 DEF Rows, ClaimOf, Claimed
<1> HIDE DEF new
<1>4. \A q \in RunIds \ {r} : row'[q] = row[q]
  BY <1>1, <1>2, <1>t DEF Append, WorkflowTypeOK
<1>5. CASE r \in lostClaims
  <2>1. UNCHANGED lostClaims
    BY <1>2, <1>5 DEF Append
  <2> QED BY <1>1, <1>4, <1>5, <2>1, GatesRest
<1>6. CASE r \notin lostClaims /\ ~torn
  <2>1. UNCHANGED lostClaims /\ row'[r].status \in Claimed
    BY <1>1, <1>2, <1>3, <1>6, <1>t DEF Append, WorkflowTypeOK
  <2>2. RunVerdict(r) = "open"
    BY <1>1, <1>6, VerdictOfStatus DEF Claimed, Decided
  <2>3. RunVerdict(r)' = "claimed"
    BY <1>6, <2>1 DEF RunVerdict, Claimed
  <2>4. RunGate!Moves(r, {"open"}, "claimed")
    BY <1>1, <1>4, <1>6, <2>1, <2>2, <2>3, GateMoves
  <2>5. RunGate!Claim(r)
    BY <1>1, <2>1, <2>4, EffectsRest DEF RunGate!Claim
  <2> QED BY <1>1, <2>5 DEF RunGate!Next
<1>7. CASE r \notin lostClaims /\ torn
  <2>1. lostClaims' = lostClaims \cup {r} /\ row' = row
    BY <1>2, <1>3, <1>7 DEF Append
  <2>2. \A q \in RunIds : RunVerdict(q)' = IF q \in {r} THEN "broken" ELSE RunVerdict(q)
    BY <2>1 DEF RunVerdict
  <2>3. [q \in RunIds |-> IF q \in lostClaims THEN 0 ELSE executions[q]]'
        = [q \in RunIds |-> IF q \in {r} THEN 0
             ELSE [p \in RunIds |-> IF p \in lostClaims THEN 0 ELSE executions[p]][q]]
    BY <1>1, <2>1
  <2>4. RunGate!Break({r})
    BY <2>2, <2>3 DEF RunGate!Break
  <2>5. {r} \in SUBSET RunIds
    BY <1>1
  <2> QED BY <2>4, <2>5 DEF RunGate!Next
<1> QED BY <1>5, <1>6, <1>7

\* The nodes behind a gate are the effect of its claim.
LEMMA ExecuteGate ==
  ASSUME WorkflowInv, NEW h \in Handlers, ExecuteApproved(h)
  PROVE  RunGate!Next \/ UNCHANGED RunGate!vars
<1>t. WorkflowTypeOK
  BY DEF WorkflowInv
<1>0. work[h].run \in RunIds
  BY <1>t, HandledRunIsARun DEF WorkflowInv, DecisionsAgree, ExecuteApproved, Deciding
<1>p. PICK r \in RunIds : r = work[h].run
  BY <1>0
<1>1. executions' = [executions EXCEPT ![r] = @ + 1] /\ UNCHANGED <<row, lostClaims>>
  BY <1>p DEF ExecuteApproved
<1>2. r \notin lostClaims => executions[r] = 0 /\ row[r].status \in Claimed
  BY <1>p DEF WorkflowInv, DecisionsAgree, ClaimsAreStored, ClaimsAreReviewed, ClaimOf, ExecuteApproved, Claimed
<1>3. executions'[r] = executions[r] + 1 /\ \A q \in RunIds \ {r} : executions'[q] = executions[q]
  BY <1>1, <1>t DEF WorkflowTypeOK
<1>4. CASE r \in lostClaims
  BY <1>1, <1>3, <1>4, GatesRest
<1>5. CASE r \notin lostClaims
  <2>1. RunVerdict(r) = "claimed"
    BY <1>1, <1>2, <1>5, VerdictOfStatus
  <2>2. UNCHANGED [q \in RunIds |-> RunVerdict(q)]
    <3>1. \A q \in RunIds : RunVerdict(q)' = RunVerdict(q)
      BY <1>1 DEF RunVerdict
    <3> QED BY <3>1
  <2>3. [q \in RunIds |-> IF q \in lostClaims THEN 0 ELSE executions[q]]'
        = [[q \in RunIds |-> IF q \in lostClaims THEN 0 ELSE executions[q]] EXCEPT ![r] = 1]
    <3>1. executions'[r] = 1 /\ lostClaims' = lostClaims
      BY <1>1, <1>2, <1>3, <1>5
    <3>2. \A q \in RunIds \ {r} : executions'[q] = executions[q]
      BY <1>3
    <3> QED BY <1>5, <3>1, <3>2
  <2>4. RunGate!Act(r)
    BY <1>1, <1>2, <1>5, <2>1, <2>2, <2>3 DEF RunGate!Act
  <2> QED BY <1>1, <2>4 DEF RunGate!Next
<1> QED BY <1>4, <1>5

\* The row that closes a decision reports it accepted with its effect, or refused without.
LEMMA RecordDecisionGate ==
  ASSUME WorkflowInv, HandlersAgree, NEW h \in Handlers, RecordDecision(h)
  PROVE  RunGate!Next \/ UNCHANGED RunGate!vars
<1>t. WorkflowTypeOK
  BY DEF WorkflowInv
<1>0. work[h].run \in RunIds
  BY <1>t, HandledRunIsARun DEF WorkflowInv, DecisionsAgree, RecordDecision, Deciding
<1>p. PICK r \in RunIds : r = work[h].run
  BY <1>0
<1> DEFINE outcome == IF work[h].decision = "approval" THEN "approved" ELSE "rejected"
           new == [row[r] EXCEPT !.status = outcome, !.decider = work[h].actor]
<1>1. row[r] \in Rows /\ Append(r, new) /\ UNCHANGED executions
  BY <1>t, <1>p DEF RecordDecision, WorkflowTypeOK
<1>2. new.status = outcome
  BY <1>1 DEF Rows
<1>3. r \notin lostClaims => row[r].status = ClaimOf(h)
  BY <1>p DEF WorkflowInv, DecisionsAgree, ClaimsAreStored, RecordDecision
<1>4. r \notin lostClaims => executions[r] = IF work[h].decision = "approval" THEN 1 ELSE 0
  <2>1. work[h].decision = "approval" /\ r \notin lostClaims => executions[r] = 1
    BY <1>p DEF HandlersAgree, HandlerAgrees, RecordDecision
  <2>2. executions[r] \in Nat
    BY <1>t DEF WorkflowTypeOK
  <2>3. r \notin lostClaims =>
          executions[r] <= 1 /\ (executions[r] = 1 => row[r].status # "rejection_claimed")
    BY DEF WorkflowInv, DecisionsAgree, EffectsRunOnce
  <2>4. work[h].decision # "approval" /\ r \notin lostClaims => executions[r] = 0
    BY <1>3, <2>2, <2>3 DEF ClaimOf
  <2> QED BY <2>1, <2>4
<1> HIDE DEF new
<1>5. UNCHANGED lostClaims /\ \A q \in RunIds \ {r} : row'[q] = row[q]
  BY <1>1, <1>2, <1>t DEF Append, WorkflowTypeOK, Claimed
<1>6. CASE r \in lostClaims \/ row'[r] = row[r]
  BY <1>1, <1>5, <1>6, GatesRest
<1>7. CASE r \notin lostClaims /\ row'[r] # row[r]
  <2>1. row'[r].status = outcome
    BY <1>1, <1>2, <1>7, <1>t DEF Append, WorkflowTypeOK
  <2>2. RunVerdict(r) = "claimed"
    BY <1>1, <1>3, <1>7, VerdictOfStatus DEF ClaimOf, Claimed
  <2>3. CASE work[h].decision = "approval"
    <3>1. RunVerdict(r)' = "accepted"
      BY <1>5, <1>7, <2>1, <2>3 DEF RunVerdict, Claimed
    <3>2. RunGate!Moves(r, {"claimed"}, "accepted")
      BY <1>1, <1>5, <1>7, <2>2, <3>1, GateMoves
    <3>3. [q \in RunIds |-> IF q \in lostClaims THEN 0 ELSE executions[q]]'
          = [[q \in RunIds |-> IF q \in lostClaims THEN 0 ELSE executions[q]] EXCEPT ![r] = 1]
      BY <1>1, <1>4, <1>5, <1>7, <2>3
    <3>4. RunGate!Accept(r)
      BY <1>1, <1>4, <1>7, <2>3, <3>2, <3>3 DEF RunGate!Accept
    <3> QED BY <1>1, <3>4 DEF RunGate!Next
  <2>4. CASE work[h].decision # "approval"
    <3>1. RunVerdict(r)' = "refused"
      BY <1>5, <1>7, <2>1, <2>4 DEF RunVerdict, Claimed
    <3>2. RunGate!Moves(r, {"open", "claimed"}, "refused")
      BY <1>1, <1>5, <1>7, <2>2, <3>1, GateMoves
    <3>3. RunGate!Refuse(r)
      BY <1>1, <1>4, <1>5, <1>7, <2>4, <3>2, EffectsRest DEF RunGate!Refuse
    <3> QED BY <1>1, <3>3 DEF RunGate!Next
  <2> QED BY <2>3, <2>4
<1> QED BY <1>6, <1>7

\* A reconciliation gives a claim up.
LEMMA ReconcileGate ==
  ASSUME WorkflowInv, NEW h \in Handlers, NEW a \in People, NEW r \in RunIds, Reconcile(h, a, r)
  PROVE  RunGate!Next \/ UNCHANGED RunGate!vars
<1> DEFINE new == [row[r] EXCEPT !.status = "interrupted"]
<1>t. WorkflowTypeOK
  BY DEF WorkflowInv
<1>1. row[r] \in Rows /\ row[r].status \in Claimed /\ Append(r, new) /\ UNCHANGED executions
  BY <1>t DEF Reconcile, WorkflowTypeOK
<1>2. new.status = "interrupted"
  BY <1>1 DEF Rows
<1> HIDE DEF new
<1>3. UNCHANGED lostClaims /\ \A q \in RunIds \ {r} : row'[q] = row[q]
  BY <1>1, <1>2, <1>t DEF Append, WorkflowTypeOK, Claimed
<1>4. CASE r \in lostClaims \/ row'[r] = row[r]
  BY <1>1, <1>3, <1>4, GatesRest
<1>5. CASE r \notin lostClaims /\ row'[r] # row[r]
  <2>1. row'[r].status = "interrupted"
    BY <1>1, <1>2, <1>5, <1>t DEF Append, WorkflowTypeOK
  <2>2. RunVerdict(r) = "claimed"
    BY <1>1, <1>5, VerdictOfStatus
  <2>3. RunVerdict(r)' = "unknown"
    BY <1>3, <1>5, <2>1 DEF RunVerdict, Claimed
  <2>4. RunGate!Moves(r, {"claimed"}, "unknown")
    BY <1>3, <1>5, <2>2, <2>3, GateMoves
  <2>5. RunGate!GiveUp(r)
    BY <1>1, <1>3, <2>4, EffectsRest DEF RunGate!GiveUp
  <2> QED BY <2>5 DEF RunGate!Next
<1> QED BY <1>4, <1>5

\* Every step of the workflows is a step of the gates, or none.
LEMMA WorkflowStepIsGateStep ==
  WorkflowInv /\ HandlersAgree /\ [WorkflowNext]_workflowVars => [RunGate!Next]_RunGate!vars
<1> SUFFICES ASSUME WorkflowInv, HandlersAgree, [WorkflowNext]_workflowVars
             PROVE  RunGate!Next \/ UNCHANGED RunGate!vars
  OBVIOUS
<1>1. ASSUME UNCHANGED <<row, executions, lostClaims>> PROVE UNCHANGED RunGate!vars
  BY <1>1, GatesRest
<1>2. ASSUME NEW h \in Handlers,
             ReadVersions(h) \/ AppendVersion(h) \/ RefuseDecision(h) \/ Stop(h) \/ StopMidAppend(h)
      PROVE  UNCHANGED <<row, executions, lostClaims>>
  BY <1>2 DEF ReadVersions, AppendVersion, RefuseDecision, Stop, StopMidAppend
<1>3. ASSUME NEW h \in Handlers,
             \/ \E a \in Starters : StartRun(h, a) \/ \E r \in RunIds : RetryRun(h, a, r)
             \/ \E a \in People, r \in RunIds, d \in Decisions : EnterDecision(h, a, r, d)
      PROVE  UNCHANGED <<row, executions, lostClaims>>
  BY <1>3 DEF StartRun, RetryRun, Execute, EnterDecision
<1>4. UNCHANGED workflowVars => UNCHANGED <<row, executions, lostClaims>>
  BY DEF workflowVars
<1> QED
  BY <1>1, <1>2, <1>3, <1>4, NewRowGate, ClaimGate, ExecuteGate, RecordDecisionGate, ReconcileGate
  DEF WorkflowNext

\* Initially every gate is open and nothing has taken effect.
LEMMA WorkflowInitIsGateInit == WorkflowInit => RunGate!Init /\ HandlersAgree
<1> SUFFICES ASSUME WorkflowInit PROVE RunGate!Init /\ HandlersAgree
  OBVIOUS
<1>1. \A r \in RunIds : RunVerdict(r) = "open"
  BY DEF WorkflowInit, RunVerdict, NoRow, Claimed
<1>2. RunGate!Init
  BY <1>1 DEF WorkflowInit, RunGate!Init
<1>3. HandlersAgree
  BY DEF WorkflowInit, HandlersAgree, HandlerAgrees
<1> QED BY <1>2, <1>3

\* The approvals of workflows.py keep the promise of a gate: for one run the claim, the nodes
\* behind the gate and the verdict come in that order and at most once, through crashes,
\* reconciliations and torn lines; a gate breaks only when its claim joins a torn line.
THEOREM RunsImplementGate == WorkflowSpec => ImplementsRunGate
<1>1. WorkflowInit => WorkflowInv /\ HandlersAgree /\ RunGate!Init
  BY WorkflowInvInit, WorkflowInitIsGateInit
<1>2. WorkflowInv /\ HandlersAgree /\ [WorkflowNext]_workflowVars
      => WorkflowInv' /\ HandlersAgree' /\ [RunGate!Next]_RunGate!vars
  BY WorkflowInvStep, HandlersStep, WorkflowStepIsGateStep
<1> QED BY <1>1, <1>2, PTL DEF WorkflowSpec, ImplementsRunGate, RunGate!Spec
================================================================================
