---------------------------- MODULE RemediationTasks ----------------------------
(***************************************************************************)
(* A remediation task linked to a control: reviewers resolve it with the    *)
(* verify endpoint, which retests the control in the pinned evidence        *)
(* generation (remediation_verification.py, db/remediation.py), edits set   *)
(* it back, and a newly published failing generation reopens it             *)
(* (pipeline.py).                                                           *)
(*                                                                          *)
(* Of a generation the model keeps the control's verdict in it, and when    *)
(* its oldest evidence was observed.  "pass" stands for all its tests on    *)
(* fresh, complete evidence, "fail" for a failing posture, "unproven" for   *)
(* what lies between.  Reviewers are independent of the task's owners here. *)
(***************************************************************************)
EXTENDS Integers

CONSTANTS
  Reviewers,    \* requests to the verify endpoint
  MaxGens,      \* bound: generations published
  MaxClock      \* bound: the clock

ASSUME RemediationConstants ==
  /\ MaxGens \in Nat /\ MaxClock \in Nat /\ MaxClock >= 1
  /\ "unlocked" \notin Reviewers

Moments == 1..MaxClock
Gens == 1..MaxGens
NoGen == 0
Created == 1        \* created_at of the task
Unheld == "unlocked"
Verdicts == {"pass", "fail", "unproven"}

VARIABLES
  wall,        \* the wall clock
  newest,      \* the active generation (NoGen before the first)
  verdict,     \* the control in each generation
  observed,    \* when its oldest evidence was observed
  publisher,   \* the pipeline: "idle", "flipped" the pointer, "selected" the task
  resolved,    \* status = "resolved"
  updated,     \* updated_at, as committed
  receipts,    \* generations with a verification receipt
  rowLock,     \* the request whose open transaction has written the row
  verify,      \* where each request is
  noted,       \* the updated_at its own note has set
  pin,         \* the generation it reads
  reopened,    \* history: when a resolved task was last set back
  retests,     \* history: the receipts, with the reopening each of them follows
  refusals,    \* history: the retests of a reopened task refused for their evidence's age
  raced        \* history: the task was verified against an older generation while a failing one was reconciled

remediationVars == <<wall, newest, verdict, observed, publisher, resolved, updated, receipts, rowLock,
                     verify, noted, pin, reopened, retests, refusals, raced>>

RemediationInit ==
  /\ wall = Created
  /\ newest = NoGen
  /\ verdict = [g \in Gens |-> "unproven"]
  /\ observed = [g \in Gens |-> 0]
  /\ publisher = "idle"
  /\ resolved = FALSE /\ updated = Created /\ receipts = {}
  /\ rowLock = Unheld
  /\ verify = [v \in Reviewers |-> "idle"]
  /\ noted = [v \in Reviewers |-> 0]
  /\ pin = [v \in Reviewers |-> NoGen]
  /\ reopened = 0 /\ retests = {} /\ refusals = {} /\ raced = FALSE

--------------------------------------------------------------------------------
(* The pipeline *)

\* publish_generation: the active pointer flips to a generation of evidence gathered before.
Flip(outcome, time) ==
  /\ publisher = "idle" /\ newest < MaxGens /\ time <= wall
  /\ newest' = newest + 1
  /\ verdict' = [verdict EXCEPT ![newest + 1] = outcome]
  /\ observed' = [observed EXCEPT ![newest + 1] = time]
  /\ publisher' = "flipped"
  /\ UNCHANGED <<wall, resolved, updated, receipts, rowLock, verify, noted, pin,
                 reopened, retests, refusals, raced>>

\* Mutant: tasks that were verified before are taken for settled.
RegressedUnverified == verdict[newest] = "fail" /\ resolved /\ receipts = {}

\* The tasks reconcile_published_tasks selects.
Regressed == verdict[newest] = "fail" /\ resolved

\* The selection waits for nobody: it sees what is committed.
SelectRegressed ==
  /\ publisher = "flipped"
  /\ publisher' = IF Regressed THEN "selected" ELSE "idle"
  /\ raced' = (verdict[newest] = "fail" /\ \E v \in Reviewers : pin[v] # NoGen /\ pin[v] # newest)
  /\ UNCHANGED <<wall, newest, verdict, observed, resolved, updated, receipts, rowLock, verify, noted, pin,
                 reopened, retests, refusals>>

\* The UPDATE waits for the row.
Reopen ==
  /\ publisher = "selected" /\ rowLock = Unheld
  /\ publisher' = "idle"
  /\ resolved' = FALSE /\ updated' = wall /\ reopened' = wall
  /\ UNCHANGED <<wall, newest, verdict, observed, receipts, rowLock, verify, noted, pin,
                 retests, refusals, raced>>

\* The pipeline dies, or the database refuses it, after the pointer has flipped.
FailReconciliation ==
  /\ publisher # "idle"
  /\ publisher' = "idle"
  /\ raced' = TRUE
  /\ UNCHANGED <<wall, newest, verdict, observed, resolved, updated, receipts, rowLock, verify, noted, pin,
                 reopened, retests, refusals>>

--------------------------------------------------------------------------------
(* Requests *)

\* PATCH: a linked task is edited or set back, never resolved.
Edit(back) ==
  /\ rowLock = Unheld
  /\ updated' = wall
  /\ resolved' = (resolved /\ ~back)
  /\ reopened' = IF resolved /\ back THEN wall ELSE reopened
  /\ UNCHANGED <<wall, newest, verdict, observed, publisher, receipts, rowLock, verify, noted, pin,
                 retests, refusals, raced>>

\* verify_remediation_task: the note is an update_task, which locks the row and sets updated_at.
BeginVerify(v) ==
  /\ verify[v] = "idle" /\ rowLock = Unheld
  /\ rowLock' = v
  /\ noted' = [noted EXCEPT ![v] = wall]
  /\ verify' = [verify EXCEPT ![v] = "noted"]
  /\ UNCHANGED <<wall, newest, verdict, observed, publisher, resolved, updated, receipts, pin,
                 reopened, retests, refusals, raced>>

\* generation_reader pins the active generation.
Pin(v) ==
  /\ verify[v] = "noted" /\ newest # NoGen
  /\ pin' = [pin EXCEPT ![v] = newest]
  /\ verify' = [verify EXCEPT ![v] = "pinned"]
  /\ UNCHANGED <<wall, newest, verdict, observed, publisher, resolved, updated, receipts, rowLock, noted,
                 reopened, retests, refusals, raced>>

\* Mutant: a retest is compared with the task's creation only.
ThresholdCreated(v) == Created

\* A retest asks for evidence newer than the task's last update, its own note included.
Threshold(v) == IF receipts = {} THEN Created ELSE noted[v]

Fresh(v) == Threshold(v) < observed[pin[v]]
Retestable(v) == pin[v] \notin receipts /\ verdict[pin[v]] = "pass"

End(v) ==
  /\ rowLock' = Unheld
  /\ verify' = [verify EXCEPT ![v] = "idle"]
  /\ noted' = [noted EXCEPT ![v] = 0]
  /\ pin' = [pin EXCEPT ![v] = NoGen]

\* verify_task appends a receipt and resolves the task; the endpoint commits.
Resolve(v) ==
  /\ verify[v] = "pinned" /\ Retestable(v) /\ Fresh(v)
  /\ resolved' = TRUE /\ updated' = wall
  /\ receipts' = receipts \cup {pin[v]}
  /\ retests' = retests \cup {[gen |-> pin[v], after |-> reopened]}
  /\ End(v)
  /\ UNCHANGED <<wall, newest, verdict, observed, publisher, reopened, refusals, raced>>

\* It raises: the transaction, its note included, is rolled back.
Refuse(v) ==
  /\ \/ verify[v] = "noted" /\ newest = NoGen
     \/ verify[v] = "pinned" /\ ~(Retestable(v) /\ Fresh(v))
  /\ refusals' = IF verify[v] = "pinned" /\ Retestable(v) /\ ~resolved
                 THEN refusals \cup {[gen |-> pin[v], updated |-> updated]} ELSE refusals
  /\ End(v)
  /\ UNCHANGED <<wall, newest, verdict, observed, publisher, resolved, updated, receipts,
                 reopened, retests, raced>>

\* Partial collection, an unsuccessful latest sync, a missing authority or the end of the
\* request: the transaction is rolled back as well.
Abandon(v) ==
  /\ verify[v] # "idle"
  /\ End(v)
  /\ UNCHANGED <<wall, newest, verdict, observed, publisher, resolved, updated, receipts,
                 reopened, retests, refusals, raced>>

Elapse ==
  /\ wall < MaxClock
  /\ wall' = wall + 1
  /\ UNCHANGED <<newest, verdict, observed, publisher, resolved, updated, receipts, rowLock, verify, noted, pin,
                 reopened, retests, refusals, raced>>

RemediationNext ==
  \/ \E outcome \in Verdicts, time \in Moments : Flip(outcome, time)
  \/ SelectRegressed \/ Reopen \/ FailReconciliation
  \/ \E back \in BOOLEAN : Edit(back)
  \/ \E v \in Reviewers : BeginVerify(v) \/ Pin(v) \/ Resolve(v) \/ Refuse(v) \/ Abandon(v)
  \/ Elapse

RemediationSpec == RemediationInit /\ [][RemediationNext]_remediationVars

--------------------------------------------------------------------------------
(* Properties *)

\* Clock, generations, task and requests have the shape the code gives them.
RemediationTypeOK ==
  /\ wall \in Moments /\ newest \in 0..MaxGens /\ verdict \in [Gens -> Verdicts]
  /\ observed \in [Gens -> 0..MaxClock] /\ publisher \in {"idle", "flipped", "selected"}
  /\ resolved \in BOOLEAN /\ updated \in Moments /\ receipts \subseteq Gens
  /\ rowLock \in Reviewers \cup {Unheld} /\ verify \in [Reviewers -> {"idle", "noted", "pinned"}]
  /\ noted \in [Reviewers -> 0..MaxClock] /\ pin \in [Reviewers -> 0..MaxGens]
  /\ reopened \in 0..MaxClock /\ raced \in BOOLEAN
  /\ retests \subseteq [gen : Gens, after : 0..MaxClock]
  /\ refusals \subseteq [gen : Gens, updated : Moments]

\* A receipt given after a reopening rests on evidence observed after that reopening:
\* publications, edits and other retests in between cannot let older evidence through.
RetestsAreNewer ==
  \A s \in retests : verdict[s.gen] = "pass" /\ observed[s.gen] > s.after

\* Once a failing generation has been reconciled the task is not resolved, unless a
\* verification had pinned an older generation when the reconciliation looked, or the
\* reconciliation did not finish.
RegressionReopens ==
  publisher = "idle" /\ newest # NoGen /\ verdict[newest] = "fail" /\ ~raced => ~resolved

\* docs/GOVERNED_REMEDIATION.md:68-69: a reopened task is retested with a new generation of
\* evidence observed after its latest update.  Such a retest is not refused for its age.
FreshRetestPasses ==
  \A f \in refusals : observed[f.gen] <= f.updated

================================================================================
