------------------------- MODULE MCEvidenceGenerations -------------------------
(* Instances of EvidenceGenerations for TLC. *)
EXTENDS EvidenceGenerations, TLC

\* Readers are interchangeable.
Symmetry == Permutations(Readers)
================================================================================
