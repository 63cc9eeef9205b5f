------------------------------ MODULE WorkflowRuns ------------------------------
(***************************************************************************)
(* Runs of a workflow with approval gates (workflows.py): runs pause at a   *)
(* gate, reviewers of several server processes approve, reject or reconcile *)
(* them, and every state of a run is a row appended to workflow_runs.jsonl. *)
(* The last readable row of a run id is its state.                          *)
(*                                                                          *)
(* One workflow; its versions are numbered by the saves that appended them. *)
(* The nodes between two gates are one external effect.  A decision claims  *)
(* its run before it executes anything; the claim is found by whoever comes *)
(* after a crash.  A process may stop half-way through an append: the next  *)
(* row is then written onto the torn line and neither can be read again.    *)
(***************************************************************************)
EXTENDS Integers

CONSTANTS
  Handlers,      \* request threads, each in a server process of its own
  People,        \* authenticated users
  Hosted,        \* in_server_mode(): approvals need an independent reviewer
  Gates,         \* number of gate.approval nodes
  MaxRuns,       \* bound: run ids ever written
  MaxSaves,      \* bound: versions ever saved
  MaxStops       \* bound: handlers that stop before they finish

ASSUME WorkflowConstants ==
  /\ Gates \in Nat /\ MaxRuns \in Nat /\ MaxSaves \in Nat /\ MaxStops \in Nat
  /\ Hosted \in BOOLEAN
  /\ "scheduler" \notin People /\ "console" \notin People /\ "free" \notin Handlers

RunIds == 1..MaxRuns
Actors == People \cup {"scheduler", "console"}
\* run_workflow keeps a user's name only when hosted.
Starters == {"scheduler"} \cup IF Hosted THEN People ELSE {"console"}
NoHandler == "free"

VARIABLES
  runs,        \* run ids given out
  row,         \* the last readable row of each run
  torn,        \* the log ends in an unterminated line
  definition,  \* the row of workflows.jsonl that list_workflows() returns
  saves,       \* versions appended
  execLock,    \* holder of the run's decision execution lock
  step,        \* where each handler is
  work,        \* what it is doing: the run it decides, and the row it will append
  stops,
  executions,  \* history: times the nodes behind a run's gate were executed
  ranAs,       \* history: the approver and the content of the last execution
  lostClaims   \* history: runs a claim of which was appended to a torn line

workflowVars == <<runs, row, torn, definition, saves, execLock, step, work, stops,
                  executions, ranAs, lostClaims>>

Finished == {"ok", "error"}
Claimed == {"approval_claimed", "rejection_claimed"}
Decided == {"approved", "rejected", "interrupted"}
RunStatus == Finished \cup Claimed \cup Decided \cup {"absent", "awaiting_approval"}

\* A row: who started the run, the gate it waits at, and the version and hash it ran.
Rows == [status : RunStatus, actor : Actors, gate : 0..Gates, content : 0..MaxSaves,
         decider : Actors]
NoRow == [status |-> "absent", actor |-> "console", gate |-> 0, content |-> 0,
          decider |-> "console"]

Decisions == {"approval", "rejection"}
Steps == {"idle", "saving", "ran", "locked", "claimed", "executed", "recorded"}
\* The handler holds the execution lock of work[h].run.
Deciding == {"locked", "claimed", "executed", "recorded"}

Works == [run : 0..MaxRuns, actor : Actors, decision : Decisions, status : RunStatus,
          gate : 0..Gates, content : 0..MaxSaves, base : 0..MaxSaves]
NoWork == [run |-> 0, actor |-> "console", decision |-> "approval", status |-> "absent",
           gate |-> 0, content |-> 0, base |-> 0]

WorkflowInit ==
  /\ runs = 0
  /\ row = [r \in RunIds |-> NoRow]
  /\ torn = FALSE
  /\ definition = [version |-> 0, content |-> 0]
  /\ saves = 0
  /\ execLock = [r \in RunIds |-> NoHandler]
  /\ step = [h \in Handlers |-> "idle"]
  /\ work = [h \in Handlers |-> NoWork]
  /\ stops = 0
  /\ executions = [r \in RunIds |-> 0]
  /\ ranAs = [r \in RunIds |-> [by |-> "console", content |-> 0]]
  /\ lostClaims = {}

--------------------------------------------------------------------------------
(* The run log *)

\* _append_run_record: the row joins a torn line and is lost with it.
Append(r, new) ==
  /\ torn' = FALSE
  /\ \/ ~torn /\ row' = [row EXCEPT ![r] = new] /\ UNCHANGED lostClaims
     \/ /\ torn
        /\ lostClaims' = IF new.status \in Claimed THEN lostClaims \cup {r} ELSE lostClaims
        /\ UNCHANGED row

\* Mutant: the walk from a gate does not end at the last one.
OutcomeUnbounded(gate) ==
  [status : Finished, gate : {0}] \cup [status : {"awaiting_approval"}, gate : {gate + 1}]

\* The nodes from one gate to the next run: they finish, or a later gate pauses them.
Outcome(gate) ==
  [status : Finished, gate : {0}] \cup [status : {"awaiting_approval"}, gate : gate + 1 .. Gates]

--------------------------------------------------------------------------------
(* Versions *)

\* save_workflow reads the versions so far ...
ReadVersions(h) ==
  /\ step[h] = "idle" /\ saves < MaxSaves
  /\ step' = [step EXCEPT ![h] = "saving"]
  /\ work' = [work EXCEPT ![h] = [NoWork EXCEPT !.base = definition.version]]
  /\ UNCHANGED <<runs, row, torn, definition, saves, execLock, stops, executions, ranAs, lostClaims>>

\* ... and appends the next one without a lock: of two rows with one version the first is kept.
AppendVersion(h) ==
  /\ step[h] = "saving" /\ saves < MaxSaves
  /\ saves' = saves + 1
  /\ definition' = IF work[h].base + 1 > definition.version
                   THEN [version |-> work[h].base + 1, content |-> saves + 1]
                   ELSE definition
  /\ step' = [step EXCEPT ![h] = "idle"]
  /\ work' = [work EXCEPT ![h] = NoWork]
  /\ UNCHANGED <<runs, row, torn, execLock, stops, executions, ranAs, lostClaims>>

--------------------------------------------------------------------------------
(* Runs *)

\* run_workflow up to its append: the nodes before the first gate have run.
Execute(h, a) ==
  /\ step[h] = "idle" /\ definition.version > 0 /\ runs < MaxRuns
  /\ \E o \in Outcome(0) :
       work' = [work EXCEPT ![h] = [NoWork EXCEPT !.actor = a, !.status = o.status, !.gate = o.gate,
                                                  !.content = definition.content]]
  /\ step' = [step EXCEPT ![h] = "ran"]
  /\ UNCHANGED <<runs, row, torn, definition, saves, execLock, stops, executions, ranAs, lostClaims>>

StartRun(h, a) == Execute(h, a)

\* retry_workflow_run: a fresh run, refused while the outcome of the old one is unknown.
RetryRun(h, a, r) ==
  /\ row[r].status \notin Claimed \cup {"absent", "interrupted"}
  /\ Execute(h, a)

NewRow(h) == [status |-> work[h].status, actor |-> work[h].actor, gate |-> work[h].gate,
              content |-> work[h].content, decider |-> "console"]

\* run_workflow appends its record under a new run id.
RecordRun(h) ==
  /\ step[h] = "ran" /\ runs < MaxRuns
  /\ runs' = runs + 1
  /\ Append(runs + 1, NewRow(h))
  /\ step' = [step EXCEPT ![h] = "idle"]
  /\ work' = [work EXCEPT ![h] = NoWork]
  /\ UNCHANGED <<definition, saves, execLock, stops, executions, ranAs>>

--------------------------------------------------------------------------------
(* Decisions *)

\* _decision_execution_lock: without waiting; a second decision is refused.
EnterDecision(h, a, r, d) ==
  /\ step[h] = "idle" /\ r <= runs /\ execLock[r] = NoHandler
  /\ execLock' = [execLock EXCEPT ![r] = h]
  /\ step' = [step EXCEPT ![h] = "locked"]
  /\ work' = [work EXCEPT ![h] = [NoWork EXCEPT !.run = r, !.actor = a, !.decision = d]]
  /\ UNCHANGED <<runs, row, torn, definition, saves, stops, executions, ranAs, lostClaims>>

LeaveDecision(h) == execLock' = [execLock EXCEPT ![work[h].run] = NoHandler]
Idle(h) ==
  /\ step' = [step EXCEPT ![h] = "idle"]
  /\ work' = [work EXCEPT ![h] = NoWork]

\* Mutant: an approval is claimed whatever became of the workflow meanwhile.
ClaimableAnyVersion(h, prior) ==
  /\ Hosted /\ work[h].decision = "approval" => prior.actor \notin {"console", work[h].actor}
  /\ prior.status = "awaiting_approval"

\* Mutant: an interrupted claim may be claimed again.
ClaimableAgain(h, prior) ==
  /\ Hosted /\ work[h].decision = "approval" => prior.actor \notin {"console", work[h].actor}
  /\ prior.status \in {"awaiting_approval", "approval_claimed"}
  /\ definition.content = prior.content

\* What _claim_workflow_decision asks of the run and of the workflow.
Claimable(h, prior) ==
  /\ Hosted /\ work[h].decision = "approval" => prior.actor \notin {"console", work[h].actor}
  /\ prior.status = "awaiting_approval"
  /\ definition.content = prior.content

\* The claim is durable before anything is executed; lookup and append hold the approvals lock.
ClaimDecision(h) ==
  LET r == work[h].run
      claim == IF work[h].decision = "approval" THEN "approval_claimed" ELSE "rejection_claimed"
  IN /\ step[h] = "locked" /\ Claimable(h, row[r])
     /\ Append(r, [row[r] EXCEPT !.status = claim, !.decider = work[h].actor])
     /\ work' = [work EXCEPT ![h].status = "rejected", ![h].content = definition.content,
                             ![h].gate = row[r].gate]
     /\ step' = [step EXCEPT ![h] = "claimed"]
     /\ UNCHANGED <<runs, definition, saves, execLock, stops, executions, ranAs>>

\* ApprovalConflict.
RefuseDecision(h) ==
  /\ step[h] = "locked" /\ ~Claimable(h, row[work[h].run])
  /\ LeaveDecision(h) /\ Idle(h)
  /\ UNCHANGED <<runs, row, torn, definition, saves, stops, executions, ranAs, lostClaims>>

\* _approve_workflow_run executes the nodes behind the gate, up to the next gate.
ExecuteApproved(h) ==
  LET r == work[h].run
  IN /\ step[h] = "claimed" /\ work[h].decision = "approval"
     /\ \E o \in Outcome(work[h].gate) :
          work' = [work EXCEPT ![h].status = o.status, ![h].gate = o.gate]
     /\ executions' = [executions EXCEPT ![r] = @ + 1]
     /\ ranAs' = [ranAs EXCEPT ![r] = [by |-> work[h].actor, content |-> work[h].content]]
     /\ step' = [step EXCEPT ![h] = "executed"]
     /\ UNCHANGED <<runs, row, torn, definition, saves, execLock, stops, lostClaims>>

\* The continuation, or the rejection, becomes a run of its own.
RecordContinuation(h) ==
  /\ \/ step[h] = "executed"
     \/ step[h] = "claimed" /\ work[h].decision = "rejection"
  /\ runs < MaxRuns
  /\ runs' = runs + 1
  /\ Append(runs + 1, NewRow(h))
  /\ step' = [step EXCEPT ![h] = "recorded"]
  /\ UNCHANGED <<definition, saves, execLock, work, stops, executions, ranAs>>

\* The decided run is closed last, and the lock released.
RecordDecision(h) ==
  LET r == work[h].run
      outcome == IF work[h].decision = "approval" THEN "approved" ELSE "rejected"
  IN /\ step[h] = "recorded"
     /\ Append(r, [row[r] EXCEPT !.status = outcome, !.decider = work[h].actor])
     /\ LeaveDecision(h) /\ Idle(h)
     /\ UNCHANGED <<runs, definition, saves, stops, executions, ranAs>>

\* Mutant: a claim is closed while it may be executing.
ReconcileUnlocked(h, a, r) ==
  /\ step[h] = "idle"
  /\ row[r].status \in Claimed
  /\ a \in People \ {row[r].actor, row[r].decider}
  /\ Append(r, [row[r] EXCEPT !.status = "interrupted"])
  /\ UNCHANGED <<runs, definition, saves, execLock, step, work, stops, executions, ranAs>>

\* reconcile_workflow_run: nobody executes the decision any more; its outcome stays unknown.
Reconcile(h, a, r) ==
  /\ step[h] = "idle" /\ execLock[r] = NoHandler
  /\ row[r].status \in Claimed
  /\ a \in People \ {row[r].actor, row[r].decider}
  /\ Append(r, [row[r] EXCEPT !.status = "interrupted"])
  /\ UNCHANGED <<runs, definition, saves, execLock, step, work, stops, executions, ranAs>>

--------------------------------------------------------------------------------
(* Failures *)

DropLocks(h) == execLock' = [r \in RunIds |-> IF execLock[r] = h THEN NoHandler ELSE execLock[r]]

\* An exception leaves the handler, or its process dies: its locks are released.
Stop(h) ==
  /\ stops < MaxStops /\ step[h] \notin {"idle", "saving"}
  /\ stops' = stops + 1
  /\ DropLocks(h) /\ Idle(h)
  /\ UNCHANGED <<runs, row, torn, definition, saves, executions, ranAs, lostClaims>>

\* It dies inside the write of a row.
StopMidAppend(h) ==
  /\ stops < MaxStops
  /\ \/ step[h] \in {"ran", "executed", "recorded"}
     \/ step[h] = "claimed" /\ work[h].decision = "rejection"
     \/ step[h] = "locked" /\ Claimable(h, row[work[h].run])
  /\ stops' = stops + 1
  /\ torn' = TRUE
  /\ DropLocks(h) /\ Idle(h)
  /\ UNCHANGED <<runs, row, definition, saves, executions, ranAs, lostClaims>>

--------------------------------------------------------------------------------
WorkflowNext ==
  \E h \in Handlers :
    \/ ReadVersions(h) \/ AppendVersion(h)
    \/ RecordRun(h)
    \/ ClaimDecision(h) \/ RefuseDecision(h) \/ ExecuteApproved(h)
    \/ RecordContinuation(h) \/ RecordDecision(h)
    \/ Stop(h) \/ StopMidAppend(h)
    \/ \E a \in Starters : StartRun(h, a) \/ \E r \in RunIds : RetryRun(h, a, r)
    \/ \E a \in People, r \in RunIds :
         Reconcile(h, a, r) \/ \E d \in Decisions : EnterDecision(h, a, r, d)

WorkflowSpec == WorkflowInit /\ [][WorkflowNext]_workflowVars

--------------------------------------------------------------------------------
(* Properties *)

\* Rows, locks and handlers have the shape the code gives them.
WorkflowTypeOK ==
  /\ runs \in 0..MaxRuns /\ row \in [RunIds -> Rows] /\ torn \in BOOLEAN
  /\ definition \in [version : 0..MaxSaves, content : 0..MaxSaves] /\ saves \in 0..MaxSaves
  /\ execLock \in [RunIds -> Handlers \cup {NoHandler}]
  /\ step \in [Handlers -> Steps] /\ work \in [Handlers -> Works]
  /\ stops \in 0..MaxStops /\ executions \in [RunIds -> Nat]
  /\ ranAs \in [RunIds -> [by : Actors, content : 0..MaxSaves]]
  /\ lostClaims \subseteq RunIds

\* The actions behind a gate run once per paused run, whatever stops and whoever
\* decides, unless the claim was appended to a torn line; and a run they were
\* executed for is never left looking undecided or rejected.
EffectsRunOnce ==
  \A r \in RunIds \ lostClaims :
    /\ executions[r] <= 1
    /\ executions[r] = 1 => row[r].status \in {"approval_claimed", "approved", "interrupted"}

\* What an approval executed is what its run was paused with, although versions
\* are saved without a lock; hosted, the approver is not the one who started it.
ReviewedContentRuns ==
  \A r \in RunIds :
    executions[r] > 0 =>
      /\ ranAs[r].content = row[r].content
      /\ Hosted => ranAs[r].by # row[r].actor

\* A decided run is never decided again: a handler that outlives a reconciliation
\* would overwrite it.
DecisionsAreFinal ==
  [][\A r \in RunIds : row[r].status \in Decided => row'[r] = row[r]]_workflowVars

\* What the log says of a run's gate; a run that never reached one is undecided for good.
RunVerdict(r) ==
  IF r \in lostClaims THEN "broken"
  ELSE CASE row[r].status \in Claimed -> "claimed"
         [] row[r].status = "approved" -> "accepted"
         [] row[r].status = "rejected" -> "refused"
         [] row[r].status = "interrupted" -> "unknown"
         [] OTHER -> "open"

RunGate == INSTANCE DecisionGate WITH
  Subjects <- RunIds,
  verdict <- [r \in RunIds |-> RunVerdict(r)],
  effects <- [r \in RunIds |-> IF r \in lostClaims THEN 0 ELSE executions[r]]

\* A workflow's approvals keep the promise of a gate, whatever is torn, stopped, reconciled
\* or saved meanwhile; a run's gate breaks only when its claim joins a torn line.
ImplementsRunGate == RunGate!Spec
================================================================================
