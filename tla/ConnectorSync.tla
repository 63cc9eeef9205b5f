------------------------------ MODULE ConnectorSync ------------------------------
(***************************************************************************)
(* Syncs of one append connector that reads mapped tables                   *)
(* (connector_runner.py, lake_mapping.py, ingestion/watermark.py): the rows *)
(* at and above the connector's watermark are fetched, merged into the raw  *)
(* store, the watermark is advanced, and the pipeline materializes the      *)
(* store.  Syncs of the connector may overlap: the scheduler, the API and   *)
(* the CLI start them independently.                                        *)
(*                                                                          *)
(* A row is named by its table and its event time; rows become readable in  *)
(* the order of their event times (lookback_minutes is for those that do    *)
(* not), and a sync reads all tables at one moment.  Rows are not edited at *)
(* the source.                                                              *)
(***************************************************************************)
EXTENDS FiniteSets, Integers

CONSTANTS
  Syncers,       \* processes that run syncs or evaluations
  Tables,        \* mappings of the connector
  RowLimit,      \* options.max_rows_per_sync
  MaxTimes,      \* bound: event times
  MaxFailures    \* bound: exceptions and deaths

ASSUME ConnectorConstants ==
  /\ RowLimit \in Nat \ {0} /\ MaxTimes \in Nat /\ MaxFailures \in Nat
  /\ "released" \notin Syncers

Events == Tables \X (1..MaxTimes)
NoCursor == 0
Released == "released"

VARIABLES
  latest,      \* event time of the newest row at the source
  source,      \* rows at the source
  raw,         \* rows of raw/connector_events.jsonl
  watermark,   \* the connector's last entry of watermarks.jsonl
  served,      \* rows the active generation was evaluated from
  rawLock,     \* holder of the raw store's flock
  pipeLock,    \* holder of the publication lock
  sync,        \* where each process is
  since,       \* the watermark it read
  fetched,     \* the rows it collected
  view,        \* the rows it has read from the raw store
  materializes,\* it was started with materialize=True
  failures,
  acknowledged \* history: rows of materializing syncs that were recorded as "ok"

connectorVars == <<latest, source, raw, watermark, served, rawLock, pipeLock, sync, since, fetched, view,
                   materializes, failures, acknowledged>>

SyncSteps == {"idle", "started", "collected", "merging", "stored", "advancing", "advanced",
              "evaluating", "published"}

ConnectorInit ==
  /\ latest = 0 /\ source = {} /\ raw = {} /\ watermark = NoCursor /\ served = {}
  /\ rawLock = Released /\ pipeLock = Released
  /\ sync = [k \in Syncers |-> "idle"]
  /\ since = [k \in Syncers |-> NoCursor]
  /\ fetched = [k \in Syncers |-> {}]
  /\ view = [k \in Syncers |-> {}]
  /\ materializes = [k \in Syncers |-> FALSE]
  /\ failures = 0
  /\ acknowledged = {}

--------------------------------------------------------------------------------
(* The source *)

Emit(t) ==
  /\ latest < MaxTimes
  /\ latest' = latest + 1
  /\ source' = source \cup {<<t, latest + 1>>}
  /\ UNCHANGED <<raw, watermark, served, rawLock, pipeLock, sync, since, fetched, view, materializes,
                 failures, acknowledged>>

\* compile_select: ORDER BY observed LIMIT n.
OldestRows(n, rows) == {e \in rows : Cardinality({f \in rows : f[2] < e[2]}) < n}

\* One query per mapping; the lower bound is inclusive.
RowsSince(cursor) ==
  UNION {OldestRows(RowLimit, {e \in source : e[1] = t /\ e[2] >= cursor}) : t \in Tables}

Newest(rows) == CHOOSE n \in {e[2] : e \in rows} : \A e \in rows : e[2] <= n

--------------------------------------------------------------------------------
(* run_connector_sync *)

BeginSync(k, m) ==
  /\ sync[k] = "idle"
  /\ sync' = [sync EXCEPT ![k] = "started"]
  /\ since' = [since EXCEPT ![k] = watermark]
  /\ materializes' = [materializes EXCEPT ![k] = m]
  /\ UNCHANGED <<latest, source, raw, watermark, served, rawLock, pipeLock, fetched, view, failures,
                 acknowledged>>

Collect(k) ==
  /\ sync[k] = "started"
  /\ fetched' = [fetched EXCEPT ![k] = RowsSince(since[k])]
  /\ sync' = [sync EXCEPT ![k] = "collected"]
  /\ UNCHANGED <<latest, source, raw, watermark, served, rawLock, pipeLock, since, view, materializes,
                 failures, acknowledged>>

\* Mutant: the store is read before its lock is taken.
ReadRawUnlocked(k) ==
  /\ sync[k] = "collected"
  /\ rawLock' = k
  /\ view' = [view EXCEPT ![k] = raw]
  /\ sync' = [sync EXCEPT ![k] = "merging"]
  /\ UNCHANGED <<latest, source, raw, watermark, served, pipeLock, since, fetched, materializes, failures,
                 acknowledged>>

\* _upsert_raw_events: under the flock the store is read ...
ReadRaw(k) ==
  /\ sync[k] = "collected" /\ rawLock = Released
  /\ rawLock' = k
  /\ view' = [view EXCEPT ![k] = raw]
  /\ sync' = [sync EXCEPT ![k] = "merging"]
  /\ UNCHANGED <<latest, source, raw, watermark, served, pipeLock, since, fetched, materializes, failures,
                 acknowledged>>

\* ... merged, and replaced at once.
WriteRaw(k) ==
  /\ sync[k] = "merging"
  /\ raw' = view[k] \cup fetched[k]
  /\ rawLock' = Released
  /\ view' = [view EXCEPT ![k] = {}]
  /\ sync' = [sync EXCEPT ![k] = "stored"]
  /\ UNCHANGED <<latest, source, watermark, served, pipeLock, since, fetched, materializes, failures,
                 acknowledged>>

\* _advance_watermark: nothing newer than what is recorded ...
Advances(k) == fetched[k] # {} /\ Newest(fetched[k]) > watermark

\* ... or the comparison is made, without a lock, ...
CompareWatermark(k) ==
  /\ sync[k] = "stored"
  /\ sync' = [sync EXCEPT ![k] = IF Advances(k) THEN "advancing" ELSE "advanced"]
  /\ UNCHANGED <<latest, source, raw, watermark, served, rawLock, pipeLock, since, fetched, view, materializes,
                 failures, acknowledged>>

\* ... and the entry appended: of two overlapping syncs the last one wins.
WriteWatermark(k) ==
  /\ sync[k] = "advancing"
  /\ watermark' = Newest(fetched[k])
  /\ sync' = [sync EXCEPT ![k] = "advanced"]
  /\ UNCHANGED <<latest, source, raw, served, rawLock, pipeLock, since, fetched, view, materializes, failures,
                 acknowledged>>

SyncEnds(k) ==
  /\ sync' = [sync EXCEPT ![k] = "idle"]
  /\ since' = [since EXCEPT ![k] = NoCursor]
  /\ fetched' = [fetched EXCEPT ![k] = {}]
  /\ view' = [view EXCEPT ![k] = {}]
  /\ materializes' = [materializes EXCEPT ![k] = FALSE]

\* A sync that leaves the evaluation to its own schedule records its run here.
RecordCollected(k) ==
  /\ sync[k] = "advanced" /\ ~materializes[k]
  /\ SyncEnds(k)
  /\ UNCHANGED <<latest, source, raw, watermark, served, rawLock, pipeLock, failures, acknowledged>>

\* Mutant: two pipelines may read and publish at the same time.
ReadForPipelineUnlocked(k) ==
  /\ \/ sync[k] = "advanced" /\ materializes[k]
     \/ sync[k] = "idle"
  /\ pipeLock' = k
  /\ view' = [view EXCEPT ![k] = raw]
  /\ sync' = [sync EXCEPT ![k] = "evaluating"]
  /\ UNCHANGED <<latest, source, raw, watermark, served, rawLock, since, fetched, materializes, failures,
                 acknowledged>>

\* normalize_raw_events under the publication lock; run_lake_eval starts here.
ReadForPipeline(k) ==
  /\ \/ sync[k] = "advanced" /\ materializes[k]
     \/ sync[k] = "idle"
  /\ pipeLock = Released
  /\ pipeLock' = k
  /\ view' = [view EXCEPT ![k] = raw]
  /\ sync' = [sync EXCEPT ![k] = "evaluating"]
  /\ UNCHANGED <<latest, source, raw, watermark, served, rawLock, since, fetched, materializes, failures,
                 acknowledged>>

PublishView(k) ==
  /\ sync[k] = "evaluating"
  /\ served' = view[k]
  /\ pipeLock' = Released
  /\ view' = [view EXCEPT ![k] = {}]
  /\ sync' = [sync EXCEPT ![k] = "published"]
  /\ UNCHANGED <<latest, source, raw, watermark, rawLock, since, fetched, materializes, failures, acknowledged>>

\* append_run_event(result="ok"); an evaluation has nothing of its own to record.
RecordServed(k) ==
  /\ sync[k] = "published"
  /\ acknowledged' = acknowledged \cup fetched[k]
  /\ SyncEnds(k)
  /\ UNCHANGED <<latest, source, raw, watermark, served, rawLock, pipeLock, failures>>

\* An exception, recorded as an error run, or the death of the process: what was stored stays.
FailSync(k) ==
  /\ failures < MaxFailures /\ sync[k] # "idle"
  /\ failures' = failures + 1
  /\ rawLock' = IF rawLock = k THEN Released ELSE rawLock
  /\ pipeLock' = IF pipeLock = k THEN Released ELSE pipeLock
  /\ SyncEnds(k)
  /\ UNCHANGED <<latest, source, raw, watermark, served, acknowledged>>

ConnectorNext ==
  \/ \E t \in Tables : Emit(t)
  \/ \E k \in Syncers :
       \/ \E m \in BOOLEAN : BeginSync(k, m)
       \/ Collect(k) \/ ReadRaw(k) \/ WriteRaw(k)
       \/ CompareWatermark(k) \/ WriteWatermark(k)
       \/ RecordCollected(k) \/ ReadForPipeline(k) \/ PublishView(k) \/ RecordServed(k)
       \/ FailSync(k)

ConnectorSpec == ConnectorInit /\ [][ConnectorNext]_connectorVars

--------------------------------------------------------------------------------
(* Properties *)

\* Rows, locks and processes have the shape the code gives them.
ConnectorTypeOK ==
  /\ latest \in 0..MaxTimes /\ source \subseteq Events /\ raw \subseteq Events
  /\ watermark \in 0..MaxTimes /\ served \subseteq Events
  /\ rawLock \in Syncers \cup {Released} /\ pipeLock \in Syncers \cup {Released}
  /\ sync \in [Syncers -> SyncSteps] /\ since \in [Syncers -> 0..MaxTimes]
  /\ fetched \in [Syncers -> SUBSET Events] /\ view \in [Syncers -> SUBSET Events]
  /\ materializes \in [Syncers -> BOOLEAN] /\ failures \in 0..MaxFailures
  /\ acknowledged \subseteq Events

\* No sync will read below the watermark again, so everything there is stored: overlapping
\* syncs that move the watermark without a lock, failures between its two writes and
\* backfills larger than one sync lose no row.
WatermarkCovers ==
  \A e \in source : e[2] < watermark => e \in raw

\* A row that a successful sync has reported stays in the assessment that is served,
\* whatever other syncs and evaluations publish after it.
AcknowledgedIsServed == acknowledged \subseteq served

================================================================================
