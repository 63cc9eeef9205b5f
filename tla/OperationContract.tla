--------------------------- MODULE OperationContract ---------------------------
(***************************************************************************)
(* What the operation queue promises for each accepted job, with no worker, *)
(* lease, lock or process in sight: it is executed at most once, only while *)
(* its row is active, it is settled only when nothing executes it, and a    *)
(* settled row is final.                                                    *)
(***************************************************************************)
CONSTANT Jobs

VARIABLES
  status,     \* status column of each job's row
  executing,  \* jobs whose operation is executing
  begun       \* jobs whose operation ever began to execute

vars == <<status, executing, begun>>

Init ==
  /\ status = [j \in Jobs |-> "absent"]
  /\ executing = {}
  /\ begun = {}

Moves(j, from, to) ==
  /\ status[j] \in from
  /\ status' = [status EXCEPT ![j] = to]
  /\ UNCHANGED <<executing, begun>>

Accept(j) == Moves(j, {"absent"}, "queued")
Claim(j) == Moves(j, {"queued"}, "running")
Cancel(j) == Moves(j, {"queued"}, "cancelled") \/ Moves(j, {"running"}, "cancelling")

Execute(j) ==
  /\ status[j] = "running"
  /\ j \notin begun
  /\ executing' = executing \cup {j}
  /\ begun' = begun \cup {j}
  /\ UNCHANGED status

Stop(j) ==
  /\ j \in executing
  /\ executing' = executing \ {j}
  /\ UNCHANGED <<status, begun>>

\* Success is reported only for a job that was executed; a cancelled execution
\* is never reported as a success or a failure.
Settle(j) ==
  /\ j \notin executing
  /\ \/ Moves(j, {"running", "cancelling"}, "interrupted")
     \/ Moves(j, {"running"}, "failed")
     \/ j \in begun /\ Moves(j, {"running"}, "succeeded")

Next ==
  \E j \in Jobs : Accept(j) \/ Claim(j) \/ Cancel(j) \/ Execute(j) \/ Stop(j) \/ Settle(j)

Spec == Init /\ [][Next]_vars
================================================================================
