-------------------------- MODULE PublicationRegister --------------------------
(***************************************************************************)
(* What publishing a tenant's lake promises, with no lease, heartbeat or    *)
(* process in sight: a register of immutable revisions.  Each transaction   *)
(* commits at most once, as one step: its domain SQL together with either   *)
(* nothing, or the next revision, which is the latest one plus its changes. *)
(***************************************************************************)
EXTENDS Sequences

CONSTANT Transactions

VARIABLES
  revisions,  \* the lake contents published so far, oldest first
  domain      \* transactions whose domain SQL is committed

vars == <<revisions, domain>>

Latest == IF revisions = <<>> THEN {} ELSE revisions[Len(revisions)]

Init == revisions = <<>> /\ domain = {}

Commit(t) ==
  /\ t \notin domain
  /\ domain' = domain \cup {t}
  /\ \/ UNCHANGED revisions
     \/ revisions' = Append(revisions, Latest \cup {t})

Next == \E t \in Transactions : Commit(t)

Spec == Init /\ [][Next]_vars
================================================================================
