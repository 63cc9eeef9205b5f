---------------------------- MODULE MCOperationJobs ----------------------------
(* Instances of OperationJobs for TLC. *)
EXTENDS OperationJobs, TLC

CONSTANTS w1, w2, r1, r2

\* One worker thread in each of two replicas.
OneThreadEach == (w1 :> r1) @@ (w2 :> r2)
\* A single worker thread.
OneThread == (w1 :> r1)

\* Tenants are interchangeable, and so are the two replicas with their threads.
Symmetry ==
  Permutations(Tenants) \cup {(w1 :> w2) @@ (w2 :> w1) @@ (r1 :> r2) @@ (r2 :> r1)}
================================================================================
