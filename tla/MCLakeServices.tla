----------------------------- MODULE MCLakeServices -----------------------------
(***************************************************************************)
(* The services around one lake, instantiated for TLC together.  Each of    *)
(* these modules keeps its own tables, files and locks; what one sees of    *)
(* another (a sync of a publication, a tick of what it fires) is inside     *)
(* it.  Their variables are disjoint, so that every behavior of all of them *)
(* projects to a behavior of each: a behavior here moves one of them and    *)
(* leaves the others at rest, which reaches the same states of each and, in *)
(* all, as many as their sum instead of their product.                      *)
(***************************************************************************)
EXTENDS OperationJobs, WorkflowRuns, Scheduler, AgentDecisions, RemediationTasks,
        ConnectorSync, IncrementalAssessment, TLC

CONSTANTS p1, p2, x1, x2, r1

VARIABLE moving   \* the component this behavior is about

\* Two processes, and two of whatever else a component tells apart by name only.
Processes == {p1, p2}
Names == {x1, x2}

\* Two worker threads in one replica.
TwoThreads == [w \in Processes |-> r1]

allVars == <<moving, vars, workflowVars, schedulerVars, agentVars, remediationVars, connectorVars,
             assessmentVars>>

Components == {"jobs", "workflows", "scheduler", "agent", "remediation", "connector", "assessment"}

AllInit ==
  /\ moving \in Components
  /\ Init /\ WorkflowInit /\ SchedulerInit /\ AgentInit /\ RemediationInit /\ ConnectorInit
  /\ AssessmentInit

JobsAtRest == UNCHANGED vars
WorkflowsAtRest == UNCHANGED workflowVars
SchedulerAtRest == UNCHANGED schedulerVars
AgentAtRest == UNCHANGED agentVars
RemediationAtRest == UNCHANGED remediationVars
ConnectorAtRest == UNCHANGED connectorVars
AssessmentAtRest == UNCHANGED assessmentVars

Only(component) ==
  /\ moving = component /\ UNCHANGED moving
  /\ component # "jobs" => JobsAtRest
  /\ component # "workflows" => WorkflowsAtRest
  /\ component # "scheduler" => SchedulerAtRest
  /\ component # "agent" => AgentAtRest
  /\ component # "remediation" => RemediationAtRest
  /\ component # "connector" => ConnectorAtRest
  /\ component # "assessment" => AssessmentAtRest

AllNext ==
  \/ Only("jobs") /\ Next
  \/ Only("workflows") /\ WorkflowNext
  \/ Only("scheduler") /\ SchedulerNext
  \/ Only("agent") /\ AgentNext
  \/ Only("remediation") /\ RemediationNext
  \/ Only("connector") /\ ConnectorNext
  \/ Only("assessment") /\ AssessmentNext

AllSpec == AllInit /\ [][AllNext]_allVars

\* Every table, file, lock and thread has the shape the code gives it: a workflow, for one,
\* pauses only at one of its own gates.
TypesOK ==
  /\ TypeOK /\ WorkflowTypeOK /\ SchedulerTypeOK /\ AgentTypeOK /\ RemediationTypeOK
  /\ ConnectorTypeOK /\ AssessmentTypeOK

\* Both components people decide in keep the promise of a gate.
ImplementsGates == ImplementsRunGate /\ ImplementsProposalGate

Symmetry == Permutations(Processes) \cup Permutations(Names)
================================================================================
