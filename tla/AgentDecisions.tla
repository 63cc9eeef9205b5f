----------------------------- MODULE AgentDecisions -----------------------------
(***************************************************************************)
(* Review of the decisions an agent run proposes (db/agent_runs.py and the  *)
(* approve, reject and reconcile endpoints of server_app.py).               *)
(*                                                                          *)
(* All decisions of a run are one JSON column.  A request loads the row,    *)
(* takes the run's execution lock without waiting, and claims its decision  *)
(* with a compare-and-swap of the whole column; the claim is committed      *)
(* before anything is executed.  Closing an executed decision rewrites the  *)
(* column without a comparison.  Rejecting takes no lock.                   *)
(*                                                                          *)
(* The column's timestamps make every version of it unique, and a decision  *)
(* never returns to an earlier status, so that comparing the statuses is    *)
(* comparing the column.                                                    *)
(***************************************************************************)
EXTENDS Integers

CONSTANTS
  Requests,        \* threads serving the endpoints
  Proposals,       \* the decisions of one completed run
  Transactional,   \* those whose effect is rows of the same database transaction
  LocksFail,       \* TRUE: a PostgreSQL session may drop and its advisory lock with it
  MaxFaults        \* bound: requests that die, locks that are lost

ASSUME AgentConstants ==
  /\ Transactional \subseteq Proposals
  /\ LocksFail \in BOOLEAN /\ MaxFaults \in Nat
  /\ "vacant" \notin Requests /\ "no decision" \notin Proposals

Vacant == "vacant"
NoDecision == "no decision"

VARIABLES
  decided,     \* decisions_json, as committed
  runLock,     \* decision_execution_lock of the run
  stage,       \* where each request is
  seen,        \* the column as the request's session holds it
  index,       \* the decision it is about
  faults,
  effects,     \* history: effects of each decision that outlive their request
  lockLost     \* history: a lock was lost while its holder went on

agentVars == <<decided, runLock, stage, seen, index, faults, effects, lockLost>>

Closed == {"executed", "rejected", "failed", "outcome_unknown"}
DecisionStatus == {"proposed", "executing"} \cup Closed
Endpoints == {"approve", "reject", "reconcile"}
Stages == {"ready", "approving", "claimed", "acted", "reconciling"} \cup Endpoints

\* A request that has loaded nothing.
Nothing == [d \in Proposals |-> "proposed"]

AgentInit ==
  /\ decided = [d \in Proposals |-> "proposed"]
  /\ runLock = Vacant
  /\ stage = [q \in Requests |-> "ready"]
  /\ seen = [q \in Requests |-> Nothing]
  /\ index = [q \in Requests |-> NoDecision]
  /\ faults = 0
  /\ effects = [d \in Proposals |-> 0]
  /\ lockLost = FALSE

--------------------------------------------------------------------------------
(* Requests *)

\* get_agent_run; a closed decision is answered at once.
LoadRun(q, d, e) ==
  /\ stage[q] = "ready"
  /\ e = "approve" => decided[d] \notin {"rejected", "executed"}
  /\ e = "reject" => decided[d] \notin {"rejected", "executed"}
  /\ stage' = [stage EXCEPT ![q] = e]
  /\ seen' = [seen EXCEPT ![q] = decided]
  /\ index' = [index EXCEPT ![q] = d]
  /\ UNCHANGED <<decided, runLock, faults, effects, lockLost>>

Answer(q) ==
  /\ stage' = [stage EXCEPT ![q] = "ready"]
  /\ seen' = [seen EXCEPT ![q] = Nothing]
  /\ index' = [index EXCEPT ![q] = NoDecision]

\* A request gives up the lock only if it still holds it.
Vacate(q) == runLock' = IF runLock = q THEN Vacant ELSE runLock

\* Approval and reconciliation go on under the run's lock, or are refused.
LockRun(q) ==
  /\ stage[q] \in {"approve", "reconcile"} /\ runLock = Vacant
  /\ runLock' = q
  /\ stage' = [stage EXCEPT ![q] = IF stage[q] = "approve" THEN "approving" ELSE "reconciling"]
  /\ UNCHANGED <<decided, seen, index, faults, effects, lockLost>>

LockRefused(q) ==
  /\ stage[q] \in {"approve", "reconcile"} /\ runLock # Vacant
  /\ Answer(q)
  /\ UNCHANGED <<decided, runLock, faults, effects, lockLost>>

\* Mutant: decisions of a run are claimed independently.
ClaimableAlone(q) == seen[q][index[q]] = "proposed"

\* claim_decision: no decision of the run may be executing.
ClaimableBy(q) ==
  /\ seen[q][index[q]] = "proposed"
  /\ \A d \in Proposals : seen[q][d] # "executing"

\* Mutant: the UPDATE names the row and not what was read.
SwapBlind(q, s) == decided' = [seen[q] EXCEPT ![index[q]] = s]

\* UPDATE ... WHERE decisions_json = what this request read.
Swap(q, s) == decided = seen[q] /\ decided' = [decided EXCEPT ![index[q]] = s]

Claim(q) ==
  /\ stage[q] = "approving" /\ ClaimableBy(q) /\ Swap(q, "executing")
  /\ seen' = [seen EXCEPT ![q][index[q]] = "executing"]
  /\ stage' = [stage EXCEPT ![q] = "claimed"]
  /\ UNCHANGED <<runLock, index, faults, effects, lockLost>>

Reject(q) ==
  /\ stage[q] = "reject" /\ ClaimableBy(q) /\ Swap(q, "rejected")
  /\ Answer(q)
  /\ UNCHANGED <<runLock, faults, effects, lockLost>>

\* DecisionConflict, after a rollback.
ClaimRefused(q) ==
  /\ stage[q] \in {"approving", "reject"}
  /\ ~ClaimableBy(q) \/ decided # seen[q]
  /\ Vacate(q) /\ Answer(q)
  /\ UNCHANGED <<decided, faults, effects, lockLost>>

\* _execute_agent_decision: rows join the open transaction, a snapshot is on disk at once.
Act(q) ==
  /\ stage[q] = "claimed"
  /\ effects' = IF index[q] \in Transactional THEN effects ELSE [effects EXCEPT ![index[q]] = @ + 1]
  /\ stage' = [stage EXCEPT ![q] = "acted"]
  /\ UNCHANGED <<decided, runLock, seen, index, faults, lockLost>>

\* mark_decision_executed and the commit: the column is written as this request knows it.
Close(q) ==
  /\ stage[q] = "acted"
  /\ decided' = [seen[q] EXCEPT ![index[q]] = "executed"]
  /\ effects' = IF index[q] \in Transactional THEN [effects EXCEPT ![index[q]] = @ + 1] ELSE effects
  /\ Vacate(q) /\ Answer(q)
  /\ UNCHANGED <<faults, lockLost>>

\* An exception: everything uncommitted is rolled back and the claim closed as failed,
\* unless the row has changed.
FailClaim(q) ==
  /\ stage[q] \in {"claimed", "acted"}
  /\ Swap(q, "failed") \/ (decided # seen[q] /\ UNCHANGED decided)
  /\ Vacate(q) /\ Answer(q)
  /\ UNCHANGED <<faults, effects, lockLost>>

\* Mutant: reconciliation makes the decision available again.
ReconcileReopens(q) ==
  /\ stage[q] = "reconciling" /\ seen[q][index[q]] = "executing" /\ Swap(q, "proposed")
  /\ Vacate(q) /\ Answer(q)
  /\ UNCHANGED <<faults, effects, lockLost>>

\* reconcile_agent_decision: nobody executes; the claim is closed by fail_decision_claim as
\* status "failed" with failure_code "outcome_unknown", which is a status of its own here.
ReconcileClaim(q) ==
  /\ stage[q] = "reconciling" /\ seen[q][index[q]] = "executing" /\ Swap(q, "outcome_unknown")
  /\ Vacate(q) /\ Answer(q)
  /\ UNCHANGED <<faults, effects, lockLost>>

ReconcileRefused(q) ==
  /\ stage[q] = "reconciling"
  /\ seen[q][index[q]] # "executing" \/ decided # seen[q]
  /\ Vacate(q) /\ Answer(q)
  /\ UNCHANGED <<decided, faults, effects, lockLost>>

--------------------------------------------------------------------------------
(* Failures *)

\* The process dies: its transaction is rolled back, its lock is free, its claim stays.
DieServing(q) ==
  /\ faults < MaxFaults /\ stage[q] # "ready"
  /\ faults' = faults + 1
  /\ Vacate(q) /\ Answer(q)
  /\ UNCHANGED <<decided, effects, lockLost>>

\* The session that holds the advisory lock is dropped; its request does not notice.
LoseLock(q) ==
  /\ LocksFail /\ faults < MaxFaults /\ runLock = q
  /\ faults' = faults + 1
  /\ runLock' = Vacant
  /\ lockLost' = TRUE
  /\ UNCHANGED <<decided, stage, seen, index, effects>>

AgentNext ==
  \E q \in Requests :
    \/ \E d \in Proposals, e \in Endpoints : LoadRun(q, d, e)
    \/ LockRun(q) \/ LockRefused(q)
    \/ Claim(q) \/ Reject(q) \/ ClaimRefused(q)
    \/ Act(q) \/ Close(q) \/ FailClaim(q)
    \/ ReconcileClaim(q) \/ ReconcileRefused(q)
    \/ DieServing(q) \/ LoseLock(q)

AgentSpec == AgentInit /\ [][AgentNext]_agentVars

--------------------------------------------------------------------------------
(* Properties *)

\* The row, the lock and the requests have the shape the code gives them.
AgentTypeOK ==
  /\ decided \in [Proposals -> DecisionStatus] /\ runLock \in Requests \cup {Vacant}
  /\ stage \in [Requests -> Stages] /\ seen \in [Requests -> [Proposals -> DecisionStatus]]
  /\ index \in [Requests -> Proposals \cup {NoDecision}] /\ faults \in 0..MaxFaults
  /\ effects \in [Proposals -> Nat] /\ lockLost \in BOOLEAN

\* Concurrent reviewers, exceptions and deaths never execute a decision twice, never leave
\* an effect behind a rejection, and never report an execution that did not happen.
DecisionActsOnce ==
  lockLost \/ \A d \in Proposals :
    /\ effects[d] <= 1
    /\ effects[d] = 1 => decided[d] \notin {"proposed", "rejected"}
    /\ decided[d] = "executed" => effects[d] = 1

\* Decisions share a column that is rewritten without a comparison when one of them ends,
\* and yet no closed decision is ever opened or changed again.
ClosedDecisionStays ==
  [][lockLost' \/ \A d \in Proposals : decided[d] \in Closed => decided'[d] = decided[d]]_agentVars

\* What the column says of a decision, while no lock was lost.
ProposalVerdict(d) ==
  IF lockLost THEN "broken"
  ELSE CASE decided[d] = "proposed" -> "open"
         [] decided[d] = "executing" -> "claimed"
         [] decided[d] = "executed" -> "accepted"
         [] decided[d] = "rejected" -> "refused"
         [] OTHER -> "unknown"

ProposalGate == INSTANCE DecisionGate WITH
  Subjects <- Proposals,
  verdict <- [d \in Proposals |-> ProposalVerdict(d)],
  effects <- [d \in Proposals |-> IF lockLost THEN 0 ELSE effects[d]]

\* The decisions of an agent run keep the promise of a gate although they share a column;
\* all their gates break when a lock is lost under its holder.
ImplementsProposalGate == ProposalGate!Spec
================================================================================
