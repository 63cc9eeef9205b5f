--------------------------- MODULE LakeServicesProofs ---------------------------
(***************************************************************************)
(* The services around one lake together: what is proved of each of them    *)
(* alone holds in every behavior of all of them.                            *)
(***************************************************************************)
EXTENDS MCLakeServices, OperationJobsProofs, WorkflowRunsProofs, SchedulerProofs, ReviewProofs,
        IngestionProofs

\* Initially every component is in an initial state of its own.
LEMMA InitProjects ==
  AllInit => /\ Init /\ WorkflowInit /\ SchedulerInit /\ AgentInit /\ RemediationInit
             /\ ConnectorInit /\ AssessmentInit
BY DEF AllInit

\* A step of the services is, for each component, a step of its own or none.
LEMMA StepProjects ==
  [AllNext]_allVars =>
    /\ [Next]_vars /\ [WorkflowNext]_workflowVars /\ [SchedulerNext]_schedulerVars
    /\ [AgentNext]_agentVars /\ [RemediationNext]_remediationVars
    /\ [ConnectorNext]_connectorVars /\ [AssessmentNext]_assessmentVars
<1> SUFFICES ASSUME [AllNext]_allVars
             PROVE  /\ [Next]_vars /\ [WorkflowNext]_workflowVars /\ [SchedulerNext]_schedulerVars
                    /\ [AgentNext]_agentVars /\ [RemediationNext]_remediationVars
                    /\ [ConnectorNext]_connectorVars /\ [AssessmentNext]_assessmentVars
  OBVIOUS
<1> USE DEF Only, JobsAtRest, WorkflowsAtRest, SchedulerAtRest, AgentAtRest, RemediationAtRest,
            ConnectorAtRest, AssessmentAtRest
<1>1. CASE Only("jobs") /\ Next
  BY <1>1
<1>2. CASE Only("workflows") /\ WorkflowNext
  BY <1>2
<1>3. CASE Only("scheduler") /\ SchedulerNext
  BY <1>3
<1>4. CASE Only("agent") /\ AgentNext
  BY <1>4
<1>5. CASE Only("remediation") /\ RemediationNext
  BY <1>5
<1>6. CASE Only("connector") /\ ConnectorNext
  BY <1>6
<1>7. CASE Only("assessment") /\ AssessmentNext
  BY <1>7
<1>8. CASE UNCHANGED allVars
  BY <1>8 DEF allVars
<1> QED BY <1>1, <1>2, <1>3, <1>4, <1>5, <1>6, <1>7, <1>8 DEF AllNext

\* Every behavior of the composition is a behavior of each service, so that whatever is proved
\* of one of them alone holds beside the others, which keep tables, files and locks of their own.
THEOREM ServicesAreIndependent ==
  AllSpec => /\ Spec /\ WorkflowSpec /\ SchedulerSpec /\ AgentSpec /\ RemediationSpec
             /\ ConnectorSpec /\ AssessmentSpec
BY InitProjects, StepProjects, PTL
DEF AllSpec, Spec, WorkflowSpec, SchedulerSpec, AgentSpec, RemediationSpec, ConnectorSpec, AssessmentSpec

\* The tables, files, locks and threads of all services keep their shape.
THEOREM TypesHold == AllSpec => []TypesOK
<1>1. /\ TypeOK /\ WorkflowTypeOK /\ SchedulerTypeOK /\ AgentTypeOK /\ RemediationTypeOK
      /\ ConnectorTypeOK /\ AssessmentTypeOK
      => TypesOK
  BY DEF TypesOK
<1> QED
  BY <1>1, ServicesAreIndependent, TypeCorrect, WorkflowTypesHold, SchedulerTypesHold, AgentTypesHold,
     RemediationTypesHold, ConnectorTypesHold, AssessmentTypesHold, PTL

\* Workflow approvals and the decisions of agent runs keep the promise of a gate side by side.
THEOREM GatesHold == AllSpec => ImplementsGates
BY ServicesAreIndependent, RunsImplementGate, ProposalsImplementGate, PTL DEF ImplementsGates
================================================================================
