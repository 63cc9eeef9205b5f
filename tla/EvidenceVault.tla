----------------------------- MODULE EvidenceVault -----------------------------
(***************************************************************************)
(* What the evidence generations of a lake promise their readers and        *)
(* auditors: an assessment becomes current at once and whole, is in the     *)
(* lake or in the archive for ever after, and leaves the lake only when the *)
(* archive has it, it is not the current one and no snapshot cites it.      *)
(***************************************************************************)
CONSTANTS Generations, None

VARIABLES
  current,   \* the assessment the lake shows
  inLake,    \* the whole generations of the lake
  archived,  \* the whole generations of the archive
  cited      \* the generations snapshots refer to

vars == <<current, inLake, archived, cited>>

Init == current = None /\ inLake = {} /\ archived = {} /\ cited = {}

Publish(g) ==
  /\ g \notin inLake \cup archived
  /\ current' = g
  /\ inLake' = inLake \cup {g}
  /\ UNCHANGED <<archived, cited>>

Archive(g) ==
  /\ g \in inLake
  /\ archived' = archived \cup {g}
  /\ UNCHANGED <<current, inLake, cited>>

Remove(g) ==
  /\ g \in inLake \cap archived
  /\ g # current /\ g \notin cited
  /\ inLake' = inLake \ {g}
  /\ UNCHANGED <<current, archived, cited>>

Cite(g) ==
  /\ g \in inLake \cup archived
  /\ cited' = cited \cup {g}
  /\ UNCHANGED <<current, inLake, archived>>

\* Most steps of a lake are invisible here.
Next ==
  \/ UNCHANGED vars
  \/ \E g \in Generations : Publish(g) \/ Archive(g) \/ Remove(g) \/ Cite(g)

Spec == Init /\ [][Next]_vars
================================================================================
