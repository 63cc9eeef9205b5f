------------------------------ MODULE DecisionGate ------------------------------
(***************************************************************************)
(* What a gate promises of each subject people decide about, with no lock,  *)
(* log, column or process in sight: it is claimed at most once, it takes    *)
(* effect at most once and only under its claim, it is reported accepted    *)
(* only together with its effect and refused only without, and its verdict  *)
(* is final.  A claim nobody finishes ends as "unknown".  A gate whose      *)
(* claim was lost is broken: nothing more is promised of it, and it is      *)
(* never whole again.                                                       *)
(*                                                                          *)
(* workflows.py and db/agent_runs.py keep this promise in different ways.   *)
(***************************************************************************)
EXTENDS Integers

CONSTANT Subjects

VARIABLES
  verdict,    \* what is recorded of each subject
  effects     \* how often it took effect, while its gate is whole

vars == <<verdict, effects>>

Init ==
  /\ verdict = [s \in Subjects |-> "open"]
  /\ effects = [s \in Subjects |-> 0]

Moves(s, from, to) ==
  /\ verdict[s] \in from
  /\ verdict' = [verdict EXCEPT ![s] = to]

Claim(s) == Moves(s, {"open"}, "claimed") /\ UNCHANGED effects

\* The effect of a claim, on its own ...
Act(s) ==
  /\ verdict[s] = "claimed" /\ effects[s] = 0
  /\ effects' = [effects EXCEPT ![s] = 1]
  /\ UNCHANGED verdict

\* ... or in one transaction with the verdict.
Accept(s) ==
  /\ effects[s] \in {0, 1}
  /\ Moves(s, {"claimed"}, "accepted")
  /\ effects' = [effects EXCEPT ![s] = 1]

Refuse(s) == effects[s] = 0 /\ Moves(s, {"open", "claimed"}, "refused") /\ UNCHANGED effects

GiveUp(s) == Moves(s, {"claimed"}, "unknown") /\ UNCHANGED effects

\* The records of some claims are lost.
Break(lost) ==
  /\ verdict' = [s \in Subjects |-> IF s \in lost THEN "broken" ELSE verdict[s]]
  /\ effects' = [s \in Subjects |-> IF s \in lost THEN 0 ELSE effects[s]]

\* Most steps of what implements a gate leave all gates alone.
Next ==
  \/ UNCHANGED vars
  \/ \E s \in Subjects : Claim(s) \/ Act(s) \/ Accept(s) \/ Refuse(s) \/ GiveUp(s)
  \/ \E lost \in SUBSET Subjects : Break(lost)

Spec == Init /\ [][Next]_vars
================================================================================
