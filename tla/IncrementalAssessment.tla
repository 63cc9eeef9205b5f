-------------------------- MODULE IncrementalAssessment --------------------------
(***************************************************************************)
(* Incremental and full evaluation of a raw evidence store (pipeline.py):   *)
(* an incremental run reuses the rows of the active generation, and         *)
(* publishes nothing when neither the raw rows, the catalog nor the         *)
(* freshness of any evidence has changed.                                   *)
(*                                                                          *)
(* A row is the time its evidence was collected, which stands for its       *)
(* content.  Ages are floored to whole minutes; the clock is finer.  The    *)
(* catalog is everything control_map_sha256, tenant_id and                  *)
(* evaluation_dependencies_sha256 stand for.  Publication, its lock and     *)
(* what crashes leave of it are in EvidenceGenerations.                     *)
(***************************************************************************)
EXTENDS FiniteSets, Integers

CONSTANTS
  EventIds,         \* event identities
  Minute,       \* ticks of the clock in a minute
  Slo,          \* freshness_slo_minutes
  Ahead,        \* how far ahead of the clock a collection time may be
  MaxRemoved,   \* removed rows an incremental run accepts
  MaxTicks,     \* bound: the clock
  MaxCatalogs,  \* bound: catalogs
  MaxObserved   \* bound: observations stored

ASSUME AssessmentConstants ==
  /\ Minute \in Nat \ {0} /\ Slo \in Nat \ {0} /\ Ahead \in Nat /\ MaxRemoved \in Nat
  /\ MaxTicks \in Nat \ {0} /\ MaxCatalogs \in Nat \ {0}
  /\ MaxObserved \in Nat

NoEvidence == 0
Ticks == 1..MaxTicks
Collected == NoEvidence .. MaxTicks + Ahead
Store == [EventIds -> Collected]
Empty == [r \in EventIds |-> NoEvidence]
Present(store) == {r \in EventIds : store[r] # NoEvidence}
Forever == 0        \* next_freshness_transition is null

VARIABLES
  tick,      \* the clock
  events,    \* the raw store
  rules,     \* the current catalog
  active,    \* the active generation
  job,       \* the pipeline run that holds the publication lock
  observations  \* observations stored so far

assessmentVars == <<tick, events, rules, active, job, observations>>

Statuses == {"fresh", "stale", "expired", "missing"}

\* _freshness_record
Freshness(collected, now) ==
  LET age == (now - collected) \div Minute
  IN IF collected = NoEvidence \/ collected > now THEN "missing"
     ELSE IF age <= Slo THEN "fresh"
     ELSE IF age <= 2 * Slo THEN "stale" ELSE "expired"

\* Mutant: only the end of freshness is a transition.
TransitionsOfFresh(rows, now) ==
  {rows[r] + Minute * (Slo + 1) : r \in {q \in EventIds : Freshness(rows[q], now) = "fresh"}}

\* The moments _next_freshness_transition takes the first of: a minute after expires_at,
\* and a minute after twice the SLO.
Transitions(rows, now) ==
  {rows[r] + Minute * (Slo + 1) : r \in {q \in EventIds : Freshness(rows[q], now) = "fresh"}}
    \cup {rows[r] + Minute * (2 * Slo + 1) : r \in {q \in EventIds : Freshness(rows[q], now) = "stale"}}

NextTransition(rows, now) ==
  IF Transitions(rows, now) = {} THEN Forever
  ELSE CHOOSE m \in Transitions(rows, now) : \A n \in Transitions(rows, now) : m <= n

\* What _write_generation computes from the rows: postures, tests and the manifest.
Evaluation(rows, index, catalog, now) ==
  [rows |-> rows, index |-> index, catalog |-> catalog, evaluated |-> now,
   status |-> [r \in EventIds |-> Freshness(rows[r], now)], due |-> NextTransition(rows, now)]

NoGeneration == [rows |-> Empty, index |-> Empty, catalog |-> 0, evaluated |-> 0,
                 status |-> [r \in EventIds |-> "missing"], due |-> Forever]
NoPipeline == [phase |-> "none", catalog |-> 0, rows |-> Empty, index |-> Empty]

AssessmentInit ==
  /\ tick = 1
  /\ events = Empty
  /\ rules = 1
  /\ active = NoGeneration
  /\ job = NoPipeline
  /\ observations = 0

--------------------------------------------------------------------------------
(* What changes around the pipeline *)

\* A sync stores an observation; the newest of a row is kept.
Observe(r, ahead) ==
  /\ tick + ahead > events[r] /\ observations < MaxObserved
  /\ events' = [events EXCEPT ![r] = tick + ahead]
  /\ observations' = observations + 1
  /\ UNCHANGED <<tick, rules, active, job>>

\* A snapshot no longer has the row.
Remove(r) ==
  /\ events[r] # NoEvidence
  /\ events' = [events EXCEPT ![r] = NoEvidence]
  /\ UNCHANGED <<tick, rules, active, job, observations>>

ChangeCatalog ==
  /\ rules < MaxCatalogs
  /\ rules' = rules + 1
  /\ UNCHANGED <<tick, events, active, job, observations>>

Advance ==
  /\ tick < MaxTicks
  /\ tick' = tick + 1
  /\ UNCHANGED <<events, rules, active, job, observations>>

--------------------------------------------------------------------------------
(* The pipeline *)

HasGeneration == active.catalog # 0

\* run_pipeline, or run_pipeline_incremental without a usable generation.
BeginFull ==
  /\ job.phase = "none"
  /\ job' = [NoPipeline EXCEPT !.phase = "full"]
  /\ UNCHANGED <<tick, events, rules, active, observations>>

\* run_pipeline_incremental compares the manifest's catalog with the current one.
BeginIncremental ==
  /\ job.phase = "none"
  /\ job' = IF HasGeneration /\ active.catalog = rules
            THEN [NoPipeline EXCEPT !.phase = "delta", !.catalog = rules]
            ELSE [NoPipeline EXCEPT !.phase = "full"]
  /\ UNCHANGED <<tick, events, rules, active, observations>>

ReadAll ==
  /\ job.phase = "full"
  /\ job' = [job EXCEPT !.phase = "rows", !.rows = events, !.index = events]
  /\ UNCHANGED <<tick, events, rules, active, observations>>

\* _compute_raw_delta
Changed == {r \in Present(events) : events[r] # active.index[r]}
Removed == Present(active.index) \ Present(events)

FreshnessDue == active.due # Forever /\ tick >= active.due

\* Nothing changed: the manifest of the active generation answers.
Unchanged ==
  /\ job.phase = "delta"
  /\ Changed = {} /\ Removed = {} /\ ~FreshnessDue
  /\ job' = NoPipeline
  /\ UNCHANGED <<tick, events, rules, active, observations>>

\* Mutant: rows that disappeared from the raw store are kept.
MergeKeepingRemoved ==
  /\ job.phase = "delta"
  /\ Changed # {} \/ Removed # {} \/ FreshnessDue
  /\ Cardinality(Removed) <= MaxRemoved
  /\ job' = [job EXCEPT !.phase = "rows", !.index = events,
               !.rows = [r \in EventIds |-> IF r \in Changed THEN events[r] ELSE active.rows[r]]]
  /\ UNCHANGED <<tick, events, rules, active, observations>>

\* The rows of the generation, without what was removed and with what changed.
Merge ==
  /\ job.phase = "delta"
  /\ Changed # {} \/ Removed # {} \/ FreshnessDue
  /\ Cardinality(Removed) <= MaxRemoved
  /\ job' = [job EXCEPT !.phase = "rows", !.index = events,
               !.rows = [r \in EventIds |-> IF r \in Changed THEN events[r]
                                        ELSE IF r \in Removed THEN NoEvidence ELSE active.rows[r]]]
  /\ UNCHANGED <<tick, events, rules, active, observations>>

\* Too much has disappeared: everything is read again.
FallBack ==
  /\ job.phase = "delta"
  /\ Cardinality(Removed) > MaxRemoved
  /\ job' = [NoPipeline EXCEPT !.phase = "full"]
  /\ UNCHANGED <<tick, events, rules, active, observations>>

\* The catalog is loaded again and the clock read once for the whole generation.
PublishEvaluation ==
  /\ job.phase = "rows"
  /\ active' = Evaluation(job.rows, job.index, rules, tick)
  /\ job' = NoPipeline
  /\ UNCHANGED <<tick, events, rules, observations>>

\* Invalid rows or rules, a failed verification or a crash: the active generation stays.
FailRun ==
  /\ job.phase # "none"
  /\ job' = NoPipeline
  /\ UNCHANGED <<tick, events, rules, active, observations>>

AssessmentNext ==
  \/ \E r \in EventIds : Remove(r) \/ \E ahead \in 0..Ahead : Observe(r, ahead)
  \/ ChangeCatalog \/ Advance
  \/ BeginFull \/ BeginIncremental \/ ReadAll
  \/ Unchanged \/ Merge \/ FallBack
  \/ PublishEvaluation \/ FailRun

AssessmentSpec == AssessmentInit /\ [][AssessmentNext]_assessmentVars

--------------------------------------------------------------------------------
(* Properties *)

Generations == [rows : Store, index : Store, catalog : 0..MaxCatalogs, evaluated : 0..MaxTicks,
                status : [EventIds -> Statuses], due : Nat]
PipelineJobs == [phase : {"none", "full", "delta", "rows"}, catalog : 0..MaxCatalogs, rows : Store, index : Store]

\* The store, the generation and the run have the shape the code gives them.
AssessmentTypeOK ==
  /\ tick \in Ticks /\ events \in Store /\ rules \in 1..MaxCatalogs
  /\ active \in Generations /\ job \in PipelineJobs
  /\ observations \in 0..MaxObserved

\* When a run returns, a full evaluation of the raw rows it read, with the catalog it read
\* and at the moment it judged them, would give the generation that is active: reused rows
\* are complete, and a run that publishes nothing had nothing to change.  Evidence dated
\* after the evaluation that saw it is left out: its coming of age is not a transition.
IncrementalIsFull ==
  [][/\ PublishEvaluation =>
          /\ active'.rows = job.index
          /\ active'.status = [r \in EventIds |-> Freshness(job.index[r], tick)]
     /\ Unchanged =>
          /\ active.catalog = job.catalog /\ active.rows = events
          /\ \A r \in EventIds : events[r] <= active.evaluated =>
                              active.status[r] = Freshness(events[r], tick)]_assessmentVars

================================================================================
