----------------------------- MODULE IngestionProofs -----------------------------
(***************************************************************************)
(* Safety of connector syncs, for every number of processes, event times,   *)
(* failures and rows per sync, and of the incremental evaluation of what    *)
(* they store, for every SLO, clock, catalog and history of runs.           *)
(***************************************************************************)
EXTENDS ConnectorSync, IncrementalAssessment, FiniteSetTheorems, WellFoundedInduction, TLAPS

--------------------------------------------------------------------------------
(* Rows *)

\* The rows a query returns are rows of the source.
LEMMA RowsAreAtTheSource ==
  ASSUME NEW cursor
  PROVE  RowsSince(cursor) \subseteq source
  BY DEF RowsSince, OldestRows

\* A query that returns a row returns every older row at and above its lower bound.
LEMMA OldestRowsAreAPrefix ==
  ASSUME NEW n \in Nat, NEW rows, IsFiniteSet(rows), rows \subseteq Events,
         NEW e \in rows, NEW f \in OldestRows(n, rows), e[2] <= f[2]
  PROVE  e \in OldestRows(n, rows)
<1> DEFINE Before(g) == {h \in rows : h[2] < g[2]}
<1>1. f \in rows /\ Cardinality(Before(f)) < n
  BY DEF OldestRows
<1>2. \A h \in rows : h[2] \in Int
  BY DEF Events
<1>3. Before(e) \subseteq Before(f)
  BY <1>1, <1>2
<1>4. IsFiniteSet(Before(f))
  <2>1. Before(f) \subseteq rows
    OBVIOUS
  <2> QED BY <2>1, FS_Subset
<1>5. Cardinality(Before(e)) <= Cardinality(Before(f)) /\ IsFiniteSet(Before(e))
  BY <1>3, <1>4, FS_Subset
<1>6. Cardinality(Before(e)) \in Nat /\ Cardinality(Before(f)) \in Nat
  BY <1>4, <1>5, FS_CardinalityType
<1> HIDE DEF Before
<1>7. Cardinality(Before(e)) < n
  BY <1>1, <1>5, <1>6
<1> QED BY <1>7 DEF OldestRows, Before

\* The newest of some rows exists and is the event time of one of them.
LEMMA NewestExists ==
  ASSUME NEW rows, rows \subseteq Events, rows # {}
  PROVE  /\ Newest(rows) \in 1..MaxTimes
         /\ \A e \in rows : e[2] <= Newest(rows)
         /\ \E e \in rows : e[2] = Newest(rows)
<1> DEFINE S == {e[2] : e \in rows}
           T == {MaxTimes - n : n \in S}
<1>1. S \subseteq 1..MaxTimes /\ S # {} /\ MaxTimes \in Nat
  BY ConnectorConstants DEF Events
<1> HIDE DEF S
<1>2. T \subseteq Nat /\ T # {}
  <2>1. \A n \in S : MaxTimes - n \in Nat
    BY <1>1
  <2> QED BY <1>1, <2>1
<1>3. PICK x \in T : \A y \in T : ~ (<<y, x>> \in OpToRel(<, Nat))
  BY <1>2, NatLessThanWellFounded, WFMin
<1>4. \A y \in T : ~ (y < x)
  BY <1>2, <1>3 DEF OpToRel
<1>5. PICK n \in S : x = MaxTimes - n
  OBVIOUS
<1>6. \A m \in S : m <= n
  <2> SUFFICES ASSUME NEW m \in S PROVE m <= n
    OBVIOUS
  <2>1. MaxTimes - m \in T
    OBVIOUS
  <2>2. ~ (MaxTimes - m < MaxTimes - n)
    BY <1>4, <1>5, <2>1
  <2>3. m \in Int /\ n \in Int /\ MaxTimes \in Int
    BY <1>1
  <2> QED BY <2>2, <2>3
<1>7. \A e \in rows : e[2] <= n
  BY <1>6 DEF S
<1>8. Newest(rows) \in S /\ \A e \in rows : e[2] <= Newest(rows)
  BY <1>7 DEF Newest, S
<1>9. \E e \in rows : e[2] = Newest(rows)
  BY <1>8 DEF S
<1> QED BY <1>1, <1>8, <1>9

--------------------------------------------------------------------------------
(* Types *)

\* A process about to write the watermark has collected a row.
AdvancingHasRows == \A k \in Syncers : sync[k] = "advancing" => fetched[k] # {}

\* Every action keeps the types.
LEMMA ConnectorTypesStep ==
  ConnectorTypeOK /\ AdvancingHasRows /\ [ConnectorNext]_connectorVars => ConnectorTypeOK'
<1> SUFFICES ASSUME ConnectorTypeOK, AdvancingHasRows, [ConnectorNext]_connectorVars
             PROVE ConnectorTypeOK'
  OBVIOUS
<1>1. ASSUME NEW t \in Tables, Emit(t) PROVE ConnectorTypeOK'
  <2>1. latest' \in 0..MaxTimes /\ latest + 1 \in 1..MaxTimes
    BY <1>1, ConnectorConstants DEF ConnectorTypeOK, Emit
  <2>2. source' \subseteq Events
    BY <1>1, <2>1 DEF ConnectorTypeOK, Emit, Events
  <2> QED BY <1>1, <2>1, <2>2 DEF ConnectorTypeOK, Emit
<1>2. ASSUME NEW k \in Syncers, NEW m \in BOOLEAN, BeginSync(k, m) PROVE ConnectorTypeOK'
  BY <1>2 DEF ConnectorTypeOK, BeginSync, SyncSteps
<1>3. ASSUME NEW k \in Syncers, Collect(k) PROVE ConnectorTypeOK'
  <2>1. RowsSince(since[k]) \in SUBSET Events
    BY RowsAreAtTheSource DEF ConnectorTypeOK
  <2> QED BY <1>3, <2>1 DEF ConnectorTypeOK, Collect, SyncSteps
<1>4. ASSUME NEW k \in Syncers, ReadRaw(k) PROVE ConnectorTypeOK'
  BY <1>4 DEF ConnectorTypeOK, ReadRaw, SyncSteps
<1>5. ASSUME NEW k \in Syncers, WriteRaw(k) PROVE ConnectorTypeOK'
  BY <1>5 DEF ConnectorTypeOK, WriteRaw, SyncSteps
<1>6. ASSUME NEW k \in Syncers, CompareWatermark(k) PROVE ConnectorTypeOK'
  BY <1>6 DEF ConnectorTypeOK, CompareWatermark, SyncSteps
<1>7. ASSUME NEW k \in Syncers, WriteWatermark(k) PROVE ConnectorTypeOK'
  <2>0. fetched[k] \subseteq Events /\ fetched[k] # {}
    BY <1>7 DEF ConnectorTypeOK, AdvancingHasRows, WriteWatermark
  <2>1. watermark' \in 0..MaxTimes
    BY <1>7, <2>0, NewestExists, ConnectorConstants DEF ConnectorTypeOK, WriteWatermark
  <2> QED BY <1>7, <2>1 DEF ConnectorTypeOK, WriteWatermark, SyncSteps
<1>8. ASSUME NEW k \in Syncers, SyncEnds(k)
      PROVE  /\ sync' \in [Syncers -> SyncSteps] /\ since' \in [Syncers -> 0..MaxTimes]
             /\ fetched' \in [Syncers -> SUBSET Events] /\ view' \in [Syncers -> SUBSET Events]
             /\ materializes' \in [Syncers -> BOOLEAN]
  BY <1>8, ConnectorConstants DEF ConnectorTypeOK, SyncEnds, SyncSteps, NoCursor
<1>9. ASSUME NEW k \in Syncers, RecordCollected(k) PROVE ConnectorTypeOK'
  BY <1>8, <1>9 DEF ConnectorTypeOK, RecordCollected
<1>10. ASSUME NEW k \in Syncers, ReadForPipeline(k) PROVE ConnectorTypeOK'
  BY <1>10 DEF ConnectorTypeOK, ReadForPipeline, SyncSteps
<1>11. ASSUME NEW k \in Syncers, PublishView(k) PROVE ConnectorTypeOK'
  BY <1>11 DEF ConnectorTypeOK, PublishView, SyncSteps
<1>12. ASSUME NEW k \in Syncers, RecordServed(k) PROVE ConnectorTypeOK'
  <2>1. acknowledged' \subseteq Events
    BY <1>12 DEF ConnectorTypeOK, RecordServed
  <2> QED BY <1>8, <1>12, <2>1 DEF ConnectorTypeOK, RecordServed
<1>13. ASSUME NEW k \in Syncers, FailSync(k) PROVE ConnectorTypeOK'
  <2>1. failures' \in 0..MaxFailures
    BY <1>13, ConnectorConstants DEF ConnectorTypeOK, FailSync
  <2>2. rawLock' \in Syncers \cup {Released} /\ pipeLock' \in Syncers \cup {Released}
    BY <1>13 DEF ConnectorTypeOK, FailSync
  <2> QED BY <1>8, <1>13, <2>1, <2>2 DEF ConnectorTypeOK, FailSync
<1>14. CASE UNCHANGED connectorVars
  BY <1>14 DEF ConnectorTypeOK, connectorVars
<1> QED
  BY <1>1, <1>2, <1>3, <1>4, <1>5, <1>6, <1>7, <1>9, <1>10, <1>11, <1>12, <1>13, <1>14
  DEF ConnectorNext

--------------------------------------------------------------------------------
(* What has been stored, evaluated and reported *)

\* Where the collected rows of each process are.  Every publication serves rows of the
\* store, at least those that were served before it, because whoever evaluates holds the
\* publication lock and whoever merges holds the store's.
RowsRead(k) ==
  /\ sync[k] = "idle" => fetched[k] = {}
  /\ sync[k] = "merging" => rawLock = k /\ view[k] = raw
  /\ sync[k] \in {"stored", "advancing", "advanced"} => fetched[k] \subseteq raw
  /\ sync[k] = "advancing" => fetched[k] # {}
  /\ sync[k] = "evaluating" => /\ pipeLock = k
                              /\ served \subseteq view[k] /\ fetched[k] \subseteq view[k]
                              /\ view[k] \subseteq raw
  /\ sync[k] = "published" => fetched[k] \subseteq served

\* The inductive invariant of AcknowledgedIsServed.
StoreInv ==
  /\ ConnectorTypeOK
  /\ \A k \in Syncers : RowsRead(k)
  /\ acknowledged \subseteq served /\ served \subseteq raw

\* Initially nothing has been read or stored.
LEMMA StoreInvInit == ConnectorInit => StoreInv
<1> SUFFICES ASSUME ConnectorInit PROVE StoreInv
  OBVIOUS
<1>1. ConnectorTypeOK
  BY ConnectorConstants DEF ConnectorInit, ConnectorTypeOK, SyncSteps, NoCursor
<1> QED BY <1>1 DEF ConnectorInit, StoreInv, RowsRead

\* An action that ends the run of k leaves nothing of it.
LEMMA EndedHasNothing ==
  ASSUME ConnectorTypeOK, NEW k \in Syncers, SyncEnds(k)
  PROVE  /\ sync'[k] = "idle" /\ fetched'[k] = {} /\ RowsRead(k)'
         /\ \A j \in Syncers \ {k} :
              sync'[j] = sync[j] /\ fetched'[j] = fetched[j] /\ view'[j] = view[j] /\ since'[j] = since[j]
  BY DEF ConnectorTypeOK, SyncEnds, RowsRead

\* Every action keeps the store, the served rows and the reported rows in agreement.
LEMMA StoreInvStep == StoreInv /\ [ConnectorNext]_connectorVars => StoreInv'
<1> SUFFICES ASSUME StoreInv, [ConnectorNext]_connectorVars PROVE StoreInv'
  OBVIOUS
<1>t. ConnectorTypeOK /\ ConnectorTypeOK'
  BY ConnectorTypesStep DEF StoreInv, RowsRead, AdvancingHasRows
<1> DEFINE Rest == (\A k \in Syncers : RowsRead(k)) /\ acknowledged \subseteq served /\ served \subseteq raw
<1> SUFFICES Rest'
  BY <1>t DEF StoreInv
<1>1. ASSUME NEW t \in Tables, Emit(t) PROVE Rest'
  BY <1>1 DEF StoreInv, RowsRead, Emit
<1>2. ASSUME NEW k \in Syncers, NEW m \in BOOLEAN, BeginSync(k, m) PROVE Rest'
  BY <1>2, <1>t DEF StoreInv, RowsRead, BeginSync, ConnectorTypeOK
<1>3. ASSUME NEW k \in Syncers, Collect(k) PROVE Rest'
  BY <1>3, <1>t DEF StoreInv, RowsRead, Collect, ConnectorTypeOK
<1>4. ASSUME NEW k \in Syncers, ReadRaw(k) PROVE Rest'
  <2>1. \A j \in Syncers : sync[j] # "merging"
    BY <1>4, ConnectorConstants DEF StoreInv, RowsRead, ReadRaw, Released
  <2> QED BY <1>4, <1>t, <2>1 DEF StoreInv, RowsRead, ReadRaw, ConnectorTypeOK
<1>5. ASSUME NEW k \in Syncers, WriteRaw(k) PROVE Rest'
  <2>1. raw' = raw \cup fetched[k]
    BY <1>5 DEF StoreInv, RowsRead, WriteRaw
  <2>2. \A j \in Syncers \ {k} : sync[j] # "merging"
    BY <1>5 DEF StoreInv, RowsRead, WriteRaw
  <2>3. RowsRead(k)'
    BY <1>5, <1>t, <2>1 DEF RowsRead, WriteRaw, ConnectorTypeOK
  <2>4. ASSUME NEW j \in Syncers \ {k} PROVE RowsRead(j)'
    BY <1>5, <1>t, <2>1, <2>2 DEF StoreInv, RowsRead, WriteRaw, ConnectorTypeOK
  <2> QED BY <1>5, <2>1, <2>3, <2>4 DEF StoreInv, WriteRaw
<1>6. ASSUME NEW k \in Syncers, CompareWatermark(k) PROVE Rest'
  BY <1>6, <1>t DEF StoreInv, RowsRead, CompareWatermark, ConnectorTypeOK, Advances
<1>7. ASSUME NEW k \in Syncers, WriteWatermark(k) PROVE Rest'
  BY <1>7, <1>t DEF StoreInv, RowsRead, WriteWatermark, ConnectorTypeOK
<1>9. ASSUME NEW k \in Syncers, RecordCollected(k) PROVE Rest'
  BY <1>9, <1>t, EndedHasNothing DEF StoreInv, RowsRead, RecordCollected
<1>10. ASSUME NEW k \in Syncers, ReadForPipeline(k) PROVE Rest'
  <2>1. RowsRead(k)'
    BY <1>10, <1>t DEF StoreInv, RowsRead, ReadForPipeline, ConnectorTypeOK
  <2>2. \A j \in Syncers \ {k} : sync[j] # "evaluating"
    BY <1>10, ConnectorConstants DEF StoreInv, RowsRead, ReadForPipeline, Released
  <2>3. ASSUME NEW j \in Syncers \ {k} PROVE RowsRead(j)'
    BY <1>10, <1>t, <2>2 DEF StoreInv, RowsRead, ReadForPipeline, ConnectorTypeOK
  <2> QED BY <1>10, <2>1, <2>3 DEF StoreInv, ReadForPipeline
<1>11. ASSUME NEW k \in Syncers, PublishView(k) PROVE Rest'
  <2>1. served \subseteq served' /\ served' \subseteq raw /\ fetched[k] \subseteq served'
    BY <1>11 DEF StoreInv, RowsRead, PublishView
  <2>2. \A j \in Syncers \ {k} : sync[j] # "evaluating"
    BY <1>11 DEF StoreInv, RowsRead, PublishView
  <2>3. RowsRead(k)'
    BY <1>11, <1>t, <2>1 DEF RowsRead, PublishView, ConnectorTypeOK
  <2>4. ASSUME NEW j \in Syncers \ {k} PROVE RowsRead(j)'
    BY <1>11, <1>t, <2>1, <2>2 DEF StoreInv, RowsRead, PublishView, ConnectorTypeOK
  <2> QED BY <1>11, <2>1, <2>3, <2>4 DEF StoreInv, PublishView
<1>12. ASSUME NEW k \in Syncers, RecordServed(k) PROVE Rest'
  <2>1. acknowledged' \subseteq served /\ served \subseteq raw
    BY <1>12 DEF StoreInv, RowsRead, RecordServed
  <2>2. \A j \in Syncers : RowsRead(j)'
    BY <1>12, <1>t, EndedHasNothing DEF StoreInv, RowsRead, RecordServed
  <2> QED BY <1>12, <2>1, <2>2 DEF RecordServed
<1>13. ASSUME NEW k \in Syncers, FailSync(k) PROVE Rest'
  <2>1. \A j \in Syncers \ {k} : (rawLock = j => rawLock' = j) /\ (pipeLock = j => pipeLock' = j)
    BY <1>13 DEF FailSync
  <2>2. \A j \in Syncers : RowsRead(j)'
    BY <1>13, <1>t, <2>1, EndedHasNothing DEF StoreInv, RowsRead, FailSync
  <2> QED BY <1>13, <2>2 DEF StoreInv, FailSync
<1>14. CASE UNCHANGED connectorVars
  BY <1>14 DEF StoreInv, RowsRead, connectorVars
<1> QED
  BY <1>1, <1>2, <1>3, <1>4, <1>5, <1>6, <1>7, <1>9, <1>10, <1>11, <1>12, <1>13, <1>14
  DEF ConnectorNext

\* The agreement of stored, served and reported rows holds in every reachable state.
THEOREM StoreInvariant == ConnectorSpec => []StoreInv
<1>1. ConnectorInit => StoreInv
  BY StoreInvInit
<1>2. StoreInv /\ [ConnectorNext]_connectorVars => StoreInv'
  BY StoreInvStep
<1> QED BY <1>1, <1>2, PTL DEF ConnectorSpec

\* The rows, locks and processes of run_connector_sync keep their types.
THEOREM ConnectorTypesHold == ConnectorSpec => []ConnectorTypeOK
<1>1. StoreInv => ConnectorTypeOK
  BY DEF StoreInv
<1> QED BY <1>1, StoreInvariant, PTL

\* Rows that append_run_event has reported as ingested stay in the served assessment.
THEOREM AcknowledgedIsServedHolds == ConnectorSpec => []AcknowledgedIsServed
<1>1. StoreInv => AcknowledgedIsServed
  BY DEF StoreInv, AcknowledgedIsServed
<1> QED BY <1>1, StoreInvariant, PTL

--------------------------------------------------------------------------------
(* The watermark of a connector with one mapping *)

OneTable == \E t \in Tables : Tables = {t}

\* Every row below n is stored.
CoveredBelow(n) == \A e \in source : e[2] < n => e \in raw

\* What k collected is a prefix of the rows at and above the watermark it read, below which
\* everything is stored: that is why its newest row may become the watermark, whatever
\* other syncs wrote in the meantime.
CollectedPrefix(k) ==
  /\ CoveredBelow(since[k]) /\ since[k] <= latest
  /\ fetched[k] \subseteq source
  /\ \A e \in source, f \in fetched[k] : since[k] <= e[2] /\ e[2] <= f[2] => e \in fetched[k]

\* The inductive invariant of WatermarkCovers.
CursorInv ==
  /\ \A e \in source : e[2] <= latest
  /\ CoveredBelow(watermark) /\ watermark <= latest
  /\ \A k \in Syncers : CollectedPrefix(k)

\* With one mapping, the rows a sync collects are a prefix of those at and above its watermark.
LEMMA OneTableCollectsAPrefix ==
  ASSUME OneTable, ConnectorTypeOK, NEW n \in 0..MaxTimes, NEW e \in source, NEW f \in RowsSince(n),
         n <= e[2], e[2] <= f[2]
  PROVE  e \in RowsSince(n)
<1>1. PICK t \in Tables : Tables = {t}
  BY DEF OneTable
<1> DEFINE rows == {r \in source : r[1] = t /\ r[2] >= n}
<1>2. RowsSince(n) = OldestRows(RowLimit, rows)
  BY <1>1 DEF RowsSince
<1>3. source \subseteq Events /\ rows \subseteq Events
  BY DEF ConnectorTypeOK
<1>4. IsFiniteSet(rows)
  <2>0. 1 \in Int /\ MaxTimes \in Int
    BY ConnectorConstants
  <2>1. IsFiniteSet(Tables) /\ IsFiniteSet(1..MaxTimes)
    <3>1. IsFiniteSet(1..MaxTimes)
      BY <2>0, FS_Interval
    <3>2. IsFiniteSet({t})
      BY FS_Singleton
    <3>3. Tables = {t}
      BY <1>1
    <3> QED BY ONLY <3>1, <3>2, <3>3
  <2>2. IsFiniteSet(Events)
    BY <2>1, FS_Product DEF Events
  <2> QED BY <1>3, <2>2, FS_Subset
<1>5. e \in rows
  <2>1. e[1] = t /\ e[2] \in 1..MaxTimes
    BY <1>1, <1>3 DEF Events
  <2> QED BY <2>1, ConnectorConstants
<1>6. RowLimit \in Nat
  BY ConnectorConstants
<1>7. f \in OldestRows(RowLimit, rows)
  BY <1>2
<1> HIDE DEF rows
<1>8. e \in OldestRows(RowLimit, rows)
  BY <1>3, <1>4, <1>5, <1>6, <1>7, OldestRowsAreAPrefix
<1> QED BY <1>2, <1>8

\* Before the first row everything is covered.
LEMMA CursorInvInit == ConnectorInit => CursorInv
BY DEF ConnectorInit, CursorInv, CollectedPrefix, CoveredBelow, NoCursor

\* With one mapping, every action keeps what is below a watermark in the store.
LEMMA CursorInvStep ==
  OneTable /\ StoreInv /\ CursorInv /\ [ConnectorNext]_connectorVars => CursorInv'
<1> SUFFICES ASSUME OneTable, StoreInv, CursorInv, [ConnectorNext]_connectorVars PROVE CursorInv'
  OBVIOUS
<1>t. ConnectorTypeOK
  BY DEF StoreInv
<1>n. /\ latest \in Int /\ watermark \in Int /\ (\A k \in Syncers : since[k] \in Int)
      /\ (\A e \in Events : e[2] \in Int /\ e[2] >= 1)
  BY <1>t, ConnectorConstants DEF ConnectorTypeOK, Events
\* Steps that leave the source, the watermark and the collected rows alone.
<1>q. ASSUME UNCHANGED <<latest, source, watermark, since, fetched>>, raw \subseteq raw' PROVE CursorInv'
  BY <1>q DEF CursorInv, CollectedPrefix, CoveredBelow
\* Steps that end a run.
<1>e. ASSUME NEW k \in Syncers, SyncEnds(k), UNCHANGED <<latest, source, raw, watermark>> PROVE CursorInv'
  <2>1. since' = [since EXCEPT ![k] = 0] /\ fetched' = [fetched EXCEPT ![k] = {}]
    BY <1>e DEF SyncEnds, NoCursor
  <2>2. CollectedPrefix(k)'
    <3>1. since'[k] = 0 /\ fetched'[k] = {}
      BY <2>1, <1>t DEF ConnectorTypeOK
    <3>2. \A e \in source : ~ (e[2] < 0)
      BY <1>n, <1>t DEF ConnectorTypeOK
    <3>3. 0 <= latest
      BY <1>t, ConnectorConstants DEF ConnectorTypeOK
    <3> QED BY <1>e, <3>1, <3>2, <3>3 DEF CollectedPrefix, CoveredBelow
  <2>3. ASSUME NEW j \in Syncers \ {k} PROVE CollectedPrefix(j)'
    <3>1. since'[j] = since[j] /\ fetched'[j] = fetched[j]
      BY <2>1, <1>t DEF ConnectorTypeOK
    <3> QED BY <1>e, <3>1 DEF CursorInv, CollectedPrefix, CoveredBelow
  <2> QED BY <1>e, <2>2, <2>3 DEF CursorInv, CoveredBelow
<1>1. ASSUME NEW t \in Tables, Emit(t) PROVE CursorInv'
  <2> DEFINE new == <<t, latest + 1>>
  <2>1. /\ latest' = latest + 1 /\ source' = source \cup {new} /\ new[2] = latest + 1
        /\ UNCHANGED <<raw, watermark, since, fetched>>
    BY <1>1 DEF Emit
  <2>2. ASSUME NEW n, n \in Int, n <= latest, CoveredBelow(n) PROVE CoveredBelow(n)' /\ n <= latest'
    <3>1. ~ (new[2] < n)
      BY <2>1, <2>2, <1>n
    <3> HIDE DEF new
    <3> QED BY <2>1, <2>2, <3>1, <1>n DEF CoveredBelow
  <2>3. \A e \in source' : e[2] <= latest'
    <3> SUFFICES ASSUME NEW e \in source' PROVE e[2] <= latest'
      OBVIOUS
    <3>1. CASE e = new
      BY <2>1, <3>1, <1>n
    <3>2. CASE e \in source
      <4>1. e[2] <= latest /\ e[2] \in Int
        BY <3>2, <1>n, <1>t DEF CursorInv, ConnectorTypeOK
      <4> QED BY <2>1, <4>1, <1>n
    <3> QED BY <2>1, <3>1, <3>2
  <2>4. CoveredBelow(watermark)' /\ watermark' <= latest'
    BY <2>1, <2>2, <1>n DEF CursorInv, CoveredBelow
  <2>5. ASSUME NEW k \in Syncers PROVE CollectedPrefix(k)'
    <3>1. CollectedPrefix(k)
      BY DEF CursorInv
    <3>2. CoveredBelow(since[k])' /\ since'[k] <= latest'
      BY <2>1, <2>2, <3>1, <1>n DEF CollectedPrefix, CoveredBelow
    <3>3. \A f \in fetched[k] : f[2] <= latest /\ f[2] \in Int
      BY <3>1, <1>n, <1>t DEF CollectedPrefix, CursorInv, ConnectorTypeOK
    <3>4. \A f \in fetched[k] : ~ (new[2] <= f[2])
      BY <2>1, <3>3, <1>n
    <3> QED BY <2>1, <3>1, <3>2, <3>4 DEF CollectedPrefix, CoveredBelow
  <2> QED BY <2>3, <2>4, <2>5 DEF CursorInv
<1>2. ASSUME NEW k \in Syncers, NEW m \in BOOLEAN, BeginSync(k, m) PROVE CursorInv'
  <2>1. since' = [since EXCEPT ![k] = watermark] /\ UNCHANGED <<latest, source, raw, watermark, fetched>>
    BY <1>2 DEF BeginSync
  <2>2. CollectedPrefix(k)'
    <3>1. since'[k] = watermark /\ fetched[k] = {}
      BY <1>2, <2>1, <1>t DEF ConnectorTypeOK, BeginSync, StoreInv, RowsRead
    <3> QED BY <2>1, <3>1 DEF CursorInv, CollectedPrefix, CoveredBelow
  <2>3. ASSUME NEW j \in Syncers \ {k} PROVE CollectedPrefix(j)'
    <3>1. since'[j] = since[j]
      BY <2>1, <1>t DEF ConnectorTypeOK
    <3> QED BY <2>1, <3>1 DEF CursorInv, CollectedPrefix, CoveredBelow
  <2> QED BY <2>1, <2>2, <2>3 DEF CursorInv, CoveredBelow
<1>3. ASSUME NEW k \in Syncers, Collect(k) PROVE CursorInv'
  <2>1. /\ fetched' = [fetched EXCEPT ![k] = RowsSince(since[k])]
        /\ UNCHANGED <<latest, source, raw, watermark, since>>
    BY <1>3 DEF Collect
  <2>2. CollectedPrefix(k)'
    <3>1. fetched'[k] = RowsSince(since[k]) /\ since[k] \in 0..MaxTimes
      BY <2>1, <1>t DEF ConnectorTypeOK
    <3>2. RowsSince(since[k]) \subseteq source
      BY RowsAreAtTheSource
    <3>3. \A e \in source, f \in RowsSince(since[k]) :
            since[k] <= e[2] /\ e[2] <= f[2] => e \in RowsSince(since[k])
      BY <3>1, <1>t, OneTableCollectsAPrefix
    <3> QED BY <2>1, <3>1, <3>2, <3>3 DEF CursorInv, CollectedPrefix, CoveredBelow
  <2>3. ASSUME NEW j \in Syncers \ {k} PROVE CollectedPrefix(j)'
    <3>1. fetched'[j] = fetched[j]
      BY <2>1, <1>t DEF ConnectorTypeOK
    <3> QED BY <2>1, <3>1 DEF CursorInv, CollectedPrefix, CoveredBelow
  <2> QED BY <2>1, <2>2, <2>3 DEF CursorInv, CoveredBelow
<1>4. ASSUME NEW k \in Syncers, ReadRaw(k) PROVE CursorInv'
  BY <1>4, <1>q DEF ReadRaw
<1>5. ASSUME NEW k \in Syncers, WriteRaw(k) PROVE CursorInv'
  <2>1. raw \subseteq raw'
    BY <1>5 DEF StoreInv, RowsRead, WriteRaw
  <2> QED BY <1>5, <2>1, <1>q DEF WriteRaw
<1>6. ASSUME NEW k \in Syncers, CompareWatermark(k) PROVE CursorInv'
  BY <1>6, <1>q DEF CompareWatermark
<1>7. ASSUME NEW k \in Syncers, WriteWatermark(k) PROVE CursorInv'
  <2>1. fetched[k] \subseteq raw /\ fetched[k] # {} /\ fetched[k] \subseteq Events /\ CollectedPrefix(k)
    BY <1>7, <1>t DEF WriteWatermark, StoreInv, RowsRead, CursorInv, ConnectorTypeOK
  <2>2. PICK f \in fetched[k] : f[2] = Newest(fetched[k])
    BY <2>1, NewestExists
  <2>3. f \in source /\ f[2] <= latest /\ f[2] \in Int
    BY <2>1, <1>n DEF CollectedPrefix, CursorInv
  <2>4. ASSUME NEW e \in source, e[2] < f[2] PROVE e \in raw
    <3>1. e[2] \in Int
      BY <1>n, <1>t DEF ConnectorTypeOK
    <3>2. CASE e[2] < since[k]
      BY <3>2, <2>1 DEF CollectedPrefix, CoveredBelow
    <3>3. CASE since[k] <= e[2]
      <4>1. e[2] <= f[2]
        BY <3>1, <2>3, <2>4
      <4> QED BY <3>3, <4>1, <2>1 DEF CollectedPrefix
    <3> QED BY <3>1, <3>2, <3>3, <1>n
  <2>5. watermark' = f[2] /\ UNCHANGED <<latest, source, raw, since, fetched>>
    BY <1>7, <2>2 DEF WriteWatermark
  <2> QED BY <2>3, <2>4, <2>5 DEF CursorInv, CollectedPrefix, CoveredBelow
<1>9. ASSUME NEW k \in Syncers, RecordCollected(k) PROVE CursorInv'
  BY <1>9, <1>e DEF RecordCollected
<1>10. ASSUME NEW k \in Syncers, ReadForPipeline(k) PROVE CursorInv'
  BY <1>10, <1>q DEF ReadForPipeline
<1>11. ASSUME NEW k \in Syncers, PublishView(k) PROVE CursorInv'
  BY <1>11, <1>q DEF PublishView
<1>12. ASSUME NEW k \in Syncers, RecordServed(k) PROVE CursorInv'
  BY <1>12, <1>e DEF RecordServed
<1>13. ASSUME NEW k \in Syncers, FailSync(k) PROVE CursorInv'
  BY <1>13, <1>e DEF FailSync
<1>14. CASE UNCHANGED connectorVars
  BY <1>14, <1>q DEF connectorVars
<1> QED
  BY <1>1, <1>2, <1>3, <1>4, <1>5, <1>6, <1>7, <1>9, <1>10, <1>11, <1>12, <1>13, <1>14
  DEF ConnectorNext

\* A connector with one mapping never moves its watermark past a row that is not stored, for
\* any row limit and any overlap of syncs; with two, ConnectorSync_backfill.cfg shows a loss.
THEOREM OneTableWatermarkCovers == OneTable /\ ConnectorSpec => []WatermarkCovers
<1>1. ConnectorInit => CursorInv
  BY CursorInvInit
<1>2. OneTable /\ StoreInv /\ CursorInv /\ [ConnectorNext]_connectorVars => CursorInv'
  BY CursorInvStep
<1>3. CursorInv => WatermarkCovers
  BY DEF CursorInv, CoveredBelow, WatermarkCovers
<1>4. CASE OneTable
  <2>1. StoreInv /\ CursorInv /\ [ConnectorNext]_connectorVars => CursorInv'
    BY <1>2, <1>4
  <2>2. ConnectorSpec => []WatermarkCovers
    BY <1>1, <2>1, <1>3, StoreInvariant, PTL DEF ConnectorSpec
  <2> QED BY <2>2
<1> QED BY <1>4

--------------------------------------------------------------------------------
(* Ages and transitions of evidence *)

\* An age in whole minutes is within a bound until one more minute has passed.
LEMMA WholeMinutes ==
  ASSUME NEW seconds \in Nat, NEW bound \in Nat
  PROVE  seconds \div Minute <= bound <=> seconds < Minute * (bound + 1)
  BY AssessmentConstants

\* The bounds of the statuses are numbers, and a moment of change comes after the evidence.
LEMMA TransitionMoments ==
  /\ Slo + 1 \in Nat /\ 2 * Slo \in Nat /\ Minute * (Slo + 1) \in Nat \ {0}
  /\ Minute * (2 * Slo + 1) \in Nat \ {0}
<1>1. \A m, n \in Nat \ {0} : m * n \in Nat \ {0}
  OBVIOUS
<1> QED
  BY <1>1, AssessmentConstants

\* The first of a set of moments exists.
LEMMA FirstMoment ==
  ASSUME NEW M \in SUBSET Nat, M # {}
  PROVE  \E m \in M : \A n \in M : m <= n
<1>1. PICK x \in M : \A y \in M : ~ (<<y, x>> \in OpToRel(<, Nat))
  BY NatLessThanWellFounded, WFMin
<1>2. \A y \in M : ~ (y < x)
  BY <1>1 DEF OpToRel
<1> QED
  BY <1>2

\* Moments at which a status changes are positive numbers.
LEMMA TransitionsAreMoments ==
  ASSUME NEW rows \in Store, NEW now \in Nat
  PROVE  Transitions(rows, now) \subseteq Nat \ {0}
<1>1. \A r \in EventIds : rows[r] \in Nat
  BY AssessmentConstants DEF Store, Collected, NoEvidence
<1> QED
  BY <1>1, TransitionMoments DEF Transitions

\* The next transition is the first of them, or there is none.
LEMMA NextTransitionIsFirst ==
  ASSUME NEW rows \in Store, NEW now \in Nat
  PROVE  /\ NextTransition(rows, now) \in Nat
         /\ \A m \in Transitions(rows, now) :
              NextTransition(rows, now) # Forever /\ NextTransition(rows, now) <= m
<1> DEFINE M == Transitions(rows, now)
<1>1. M \in SUBSET Nat /\ 0 \notin M
  BY TransitionsAreMoments
<1> HIDE DEF M
<1>2. CASE M = {}
  BY <1>2 DEF NextTransition, M, Forever
<1>3. CASE M # {}
  <2>1. \E m \in M : \A n \in M : m <= n
    BY <1>1, <1>3, FirstMoment
  <2>2. NextTransition(rows, now) \in M /\ \A n \in M : NextTransition(rows, now) <= n
    BY <1>3, <2>1 DEF NextTransition, M
  <2> QED
    BY <1>1, <2>2 DEF M, Forever
<1> QED
  BY <1>2, <1>3

\* Until the next transition, evidence that an evaluation saw keeps the status it gave.
LEMMA StatusLasts ==
  ASSUME NEW rows \in Store, NEW then \in Nat, NEW now \in Nat, then <= now,
         NextTransition(rows, then) # Forever => now < NextTransition(rows, then),
         NEW r \in EventIds, rows[r] <= then
  PROVE  Freshness(rows[r], then) = Freshness(rows[r], now)
<1> DEFINE c == rows[r]
           old == then - c
           new == now - c
<1>1. c \in Nat
  BY AssessmentConstants DEF Store, Collected, NoEvidence
<1>2. CASE c = NoEvidence
  BY <1>2 DEF Freshness
<1>3. CASE c # NoEvidence
  <2>1. old \in Nat /\ new \in Nat /\ old <= new
    BY <1>1
  <2>2. \A m \in Transitions(rows, then) : m \in Nat /\ now < m
    BY NextTransitionIsFirst, TransitionsAreMoments
  <2>3. Slo \in Nat /\ 2 * Slo \in Nat /\ Slo <= 2 * Slo
    BY AssessmentConstants
  <2>4. /\ old \div Minute <= Slo <=> old < Minute * (Slo + 1)
        /\ new \div Minute <= Slo <=> new < Minute * (Slo + 1)
        /\ old \div Minute <= 2 * Slo <=> old < Minute * (2 * Slo + 1)
        /\ new \div Minute <= 2 * Slo <=> new < Minute * (2 * Slo + 1)
    BY <2>1, <2>3, WholeMinutes
  <2>5. Minute * (Slo + 1) \in Nat /\ Minute * (2 * Slo + 1) \in Nat
    BY TransitionMoments
  <2>6. Freshness(c, then) = "fresh" => c + Minute * (Slo + 1) \in Transitions(rows, then)
    BY DEF Transitions
  <2>7. Freshness(c, then) = "stale" => c + Minute * (2 * Slo + 1) \in Transitions(rows, then)
    BY DEF Transitions
  <2>8. Freshness(c, then) = IF old \div Minute <= Slo THEN "fresh"
                             ELSE IF old \div Minute <= 2 * Slo THEN "stale" ELSE "expired"
    BY <1>1, <1>3 DEF Freshness
  <2>9. Freshness(c, now) = IF new \div Minute <= Slo THEN "fresh"
                            ELSE IF new \div Minute <= 2 * Slo THEN "stale" ELSE "expired"
    BY <1>1, <1>3 DEF Freshness
  <2>10. new \div Minute <= Slo => old \div Minute <= Slo
    BY <2>1, <2>4, <2>5
  <2>11. new \div Minute <= 2 * Slo => old \div Minute <= 2 * Slo
    BY <2>1, <2>4, <2>5
  <2>12. Freshness(c, then) = "fresh" => new \div Minute <= Slo
    <3> SUFFICES ASSUME Freshness(c, then) = "fresh" PROVE new < Minute * (Slo + 1)
      BY <2>4
    <3>1. now < c + Minute * (Slo + 1)
      BY <2>2, <2>6
    <3> QED
      BY <1>1, <2>5, <3>1
  <2>13. Freshness(c, then) = "stale" => new \div Minute <= 2 * Slo
    <3> SUFFICES ASSUME Freshness(c, then) = "stale" PROVE new < Minute * (2 * Slo + 1)
      BY <2>4
    <3>1. now < c + Minute * (2 * Slo + 1)
      BY <2>2, <2>7
    <3> QED
      BY <1>1, <2>5, <3>1
  <2> HIDE DEF c, old, new
  <2>14. Freshness(c, then) = Freshness(c, now)
    BY <2>8, <2>9, <2>10, <2>11, <2>12, <2>13
  <2> QED
    BY <2>14 DEF c
<1> QED
  BY <1>2, <1>3

--------------------------------------------------------------------------------
(* Incremental and full evaluation *)

\* A generation that was published is the full evaluation of one state of the raw store,
\* at one moment that has passed.
GenerationIsEvaluation ==
  /\ active.rows = active.index /\ active.evaluated <= tick
  /\ HasGeneration =>
       active = Evaluation(active.rows, active.index, active.catalog, active.evaluated)

\* The rows a run is about to publish are those it read; an incremental run relies on
\* a generation of its own catalog.
RunIsComplete ==
  /\ job.phase = "rows" => job.rows = job.index
  /\ job.phase = "delta" => HasGeneration /\ active.catalog = job.catalog

AssessmentInv == AssessmentTypeOK /\ GenerationIsEvaluation /\ RunIsComplete

\* A row that neither changed nor disappeared is the row of the generation.
LEMMA UnchangedRows ==
  ASSUME AssessmentTypeOK, NEW r \in EventIds, r \notin Changed, r \notin Removed
  PROVE  active.index[r] = events[r]
  BY DEF AssessmentTypeOK, Generations, Store, Changed, Removed, Present

\* The statuses are the four of the code.
LEMMA StatusIsKnown ==
  ASSUME NEW c, NEW now
  PROVE  Freshness(c, now) \in Statuses
  BY DEF Freshness, Statuses

\* An evaluation of stored rows is a generation.
LEMMA EvaluationIsGeneration ==
  ASSUME NEW rows \in Store, NEW catalog \in 0..MaxCatalogs, NEW now \in 0..MaxTicks
  PROVE  Evaluation(rows, rows, catalog, now) \in Generations
<1>1. now \in Nat
  BY AssessmentConstants
<1>2. NextTransition(rows, now) \in Nat
  BY <1>1, NextTransitionIsFirst
<1>3. [r \in EventIds |-> Freshness(rows[r], now)] \in [EventIds -> Statuses]
  BY StatusIsKnown
<1> QED
  BY <1>2, <1>3 DEF Evaluation, Generations

\* The store starts empty, with no generation.
LEMMA AssessmentInvInit == AssessmentInit => AssessmentInv
<1> SUFFICES ASSUME AssessmentInit PROVE AssessmentInv
  OBVIOUS
<1>1. Empty \in Store
  BY AssessmentConstants DEF Empty, Store, Collected, NoEvidence
<1>2. NoGeneration \in Generations
  BY <1>1, AssessmentConstants DEF NoGeneration, Generations, Statuses, Forever
<1>3. NoPipeline \in PipelineJobs
  BY <1>1, AssessmentConstants DEF NoPipeline, PipelineJobs
<1>4. AssessmentTypeOK
  BY <1>1, <1>2, <1>3, AssessmentConstants DEF AssessmentInit, AssessmentTypeOK, Ticks
<1>5. GenerationIsEvaluation
  BY DEF AssessmentInit, GenerationIsEvaluation, HasGeneration, NoGeneration
<1>6. RunIsComplete
  BY DEF AssessmentInit, RunIsComplete, NoPipeline
<1> QED
  BY <1>4, <1>5, <1>6 DEF AssessmentInv

\* Every step keeps the generation a full evaluation and the runs complete.
LEMMA AssessmentInvStep == AssessmentInv /\ [AssessmentNext]_assessmentVars => AssessmentInv'
<1> SUFFICES ASSUME AssessmentInv, [AssessmentNext]_assessmentVars PROVE AssessmentInv'
  OBVIOUS
<1>0. /\ AssessmentTypeOK /\ GenerationIsEvaluation /\ RunIsComplete
      /\ MaxTicks \in Nat \ {0} /\ Ahead \in Nat /\ MaxCatalogs \in Nat \ {0} /\ MaxObserved \in Nat
  BY AssessmentConstants DEF AssessmentInv
<1>1. Empty \in Store /\ NoPipeline \in PipelineJobs
  <2>1. Empty \in Store
    BY <1>0 DEF Empty, Store, Collected, NoEvidence
  <2> QED
    BY <1>0, <2>1 DEF NoPipeline, PipelineJobs
<1>2. ASSUME UNCHANGED <<tick, active>>, events' \in Store, rules' \in 1..MaxCatalogs,
             observations' \in 0..MaxObserved, job' \in PipelineJobs, RunIsComplete'
      PROVE  AssessmentInv'
  BY <1>0, <1>2 DEF AssessmentInv, AssessmentTypeOK, GenerationIsEvaluation, HasGeneration
<1>3. ASSUME UNCHANGED <<tick, active, job>>, events' \in Store, rules' \in 1..MaxCatalogs,
             observations' \in 0..MaxObserved
      PROVE  AssessmentInv'
  <2>1. job' \in PipelineJobs /\ RunIsComplete'
    BY <1>0, <1>3 DEF AssessmentTypeOK, RunIsComplete, HasGeneration
  <2> QED
    BY <1>2, <1>3, <2>1
<1>4. ASSUME NEW r \in EventIds, Remove(r) PROVE AssessmentInv'
  <2>1. events' \in Store
    BY <1>0, <1>4 DEF Remove, AssessmentTypeOK, Store, Collected, NoEvidence
  <2> QED
    BY <1>0, <1>3, <1>4, <2>1 DEF Remove, AssessmentTypeOK
<1>5. ASSUME NEW r \in EventIds, NEW ahead \in 0..Ahead, Observe(r, ahead) PROVE AssessmentInv'
  <2>1. tick + ahead \in Collected
    BY <1>0 DEF AssessmentTypeOK, Ticks, Collected, NoEvidence
  <2>2. events' \in Store
    BY <1>0, <1>5, <2>1 DEF Observe, AssessmentTypeOK, Store
  <2>3. observations' \in 0..MaxObserved
    BY <1>0, <1>5 DEF Observe, AssessmentTypeOK
  <2> QED
    BY <1>0, <1>3, <1>5, <2>2, <2>3 DEF Observe, AssessmentTypeOK
<1>6. CASE ChangeCatalog
  BY <1>0, <1>3, <1>6 DEF ChangeCatalog, AssessmentTypeOK
<1>7. CASE Advance
  BY <1>0, <1>7 DEF Advance, AssessmentInv, AssessmentTypeOK, GenerationIsEvaluation, RunIsComplete,
     HasGeneration, Ticks, Generations
<1>8. CASE BeginFull \/ BeginIncremental
  <2>1. UNCHANGED <<tick, active, events, rules, observations>>
    BY <1>8 DEF BeginFull, BeginIncremental
  <2>2. \/ job' = [NoPipeline EXCEPT !.phase = "full"]
        \/ job' = [NoPipeline EXCEPT !.phase = "delta", !.catalog = rules]
           /\ HasGeneration /\ active.catalog = rules
    BY <1>8 DEF BeginFull, BeginIncremental
  <2>3. rules \in 0..MaxCatalogs
    BY <1>0 DEF AssessmentTypeOK
  <2>4. job' \in PipelineJobs /\ RunIsComplete'
    <3>1. CASE job' = [NoPipeline EXCEPT !.phase = "full"]
      BY <1>1, <3>1 DEF NoPipeline, PipelineJobs, RunIsComplete
    <3>2. CASE /\ job' = [NoPipeline EXCEPT !.phase = "delta", !.catalog = rules]
               /\ HasGeneration /\ active.catalog = rules
      <4>1. job' \in PipelineJobs
        BY <1>1, <2>3, <3>2 DEF NoPipeline, PipelineJobs
      <4>2. job'.phase = "delta" /\ job'.catalog = rules
        BY <3>2 DEF NoPipeline
      <4> QED
        BY <2>1, <3>2, <4>1, <4>2 DEF RunIsComplete, HasGeneration
    <3> QED
      BY <2>2, <3>1, <3>2
  <2> QED
    BY <1>0, <1>2, <2>1, <2>4 DEF AssessmentTypeOK
<1>9. CASE ReadAll
  <2>1. job' \in PipelineJobs /\ RunIsComplete'
    BY <1>0, <1>9 DEF ReadAll, AssessmentTypeOK, PipelineJobs, RunIsComplete
  <2> QED
    BY <1>0, <1>2, <1>9, <2>1 DEF ReadAll, AssessmentTypeOK
<1>10. CASE Unchanged \/ FailRun
  <2>1. job' = NoPipeline /\ UNCHANGED <<tick, active, events, rules, observations>>
    BY <1>10 DEF Unchanged, FailRun
  <2>2. RunIsComplete'
    BY <2>1 DEF NoPipeline, RunIsComplete
  <2> QED
    BY <1>0, <1>1, <1>2, <2>1, <2>2 DEF AssessmentTypeOK
<1>11. CASE FallBack
  <2>1. job' = [NoPipeline EXCEPT !.phase = "full"]
        /\ UNCHANGED <<tick, active, events, rules, observations>>
    BY <1>11 DEF FallBack
  <2>2. job' \in PipelineJobs /\ RunIsComplete'
    BY <1>1, <2>1 DEF NoPipeline, PipelineJobs, RunIsComplete
  <2> QED
    BY <1>0, <1>2, <2>1, <2>2 DEF AssessmentTypeOK
<1>12. CASE Merge
  <2> DEFINE merged == [r \in EventIds |-> IF r \in Changed THEN events[r]
                                           ELSE IF r \in Removed THEN NoEvidence ELSE active.rows[r]]
  <2>1. job' = [job EXCEPT !.phase = "rows", !.index = events, !.rows = merged]
        /\ UNCHANGED <<tick, active, events, rules, observations>>
    BY <1>12 DEF Merge
  <2>2. merged = events
    <3> SUFFICES ASSUME NEW r \in EventIds PROVE merged[r] = events[r]
      BY <1>0 DEF AssessmentTypeOK, Store
    <3>1. CASE r \in Changed
      BY <3>1
    <3>2. CASE r \in Removed
      BY <3>2 DEF Removed, Changed, Present
    <3>3. CASE r \notin Changed /\ r \notin Removed
      BY <1>0, <3>3, UnchangedRows DEF GenerationIsEvaluation
    <3> QED
      BY <3>1, <3>2, <3>3
  <2>3. job' \in PipelineJobs /\ RunIsComplete'
    BY <1>0, <2>1, <2>2 DEF AssessmentTypeOK, PipelineJobs, RunIsComplete
  <2> QED
    BY <1>0, <1>2, <2>1, <2>3 DEF AssessmentTypeOK
<1>13. CASE PublishEvaluation
  <2>1. active' = Evaluation(job.rows, job.index, rules, tick) /\ job' = NoPipeline
        /\ UNCHANGED <<tick, events, rules, observations>>
    BY <1>13 DEF PublishEvaluation
  <2>2. job.rows = job.index /\ job.rows \in Store
    BY <1>0, <1>13 DEF PublishEvaluation, RunIsComplete, AssessmentTypeOK, PipelineJobs
  <2>3. rules \in 0..MaxCatalogs /\ tick \in 0..MaxTicks
    BY <1>0 DEF AssessmentTypeOK, Ticks
  <2>4. active' \in Generations
    BY <2>1, <2>2, <2>3, EvaluationIsGeneration
  <2>5. GenerationIsEvaluation'
    BY <2>1, <2>2, <2>3 DEF GenerationIsEvaluation, Evaluation
  <2>6. RunIsComplete'
    BY <2>1 DEF NoPipeline, RunIsComplete
  <2> QED
    BY <1>0, <1>1, <2>1, <2>4, <2>5, <2>6 DEF AssessmentInv, AssessmentTypeOK
<1>14. CASE UNCHANGED assessmentVars
  BY <1>0, <1>3, <1>14 DEF assessmentVars, AssessmentTypeOK
<1> QED
  BY <1>4, <1>5, <1>6, <1>7, <1>8, <1>9, <1>10, <1>11, <1>12, <1>13, <1>14 DEF AssessmentNext

\* The active generation is always the full evaluation of one state of the raw store,
\* whatever was merged, skipped, failed or read again to get there.
THEOREM AssessmentInvariant == AssessmentSpec => []AssessmentInv
  BY AssessmentInvInit, AssessmentInvStep, PTL DEF AssessmentSpec

\* The store, the generation and the run keep their shape.
THEOREM AssessmentTypesHold == AssessmentSpec => []AssessmentTypeOK
<1>1. AssessmentInv => AssessmentTypeOK
  BY DEF AssessmentInv
<1> QED
  BY <1>1, AssessmentInvariant, PTL

\* A run that publishes, publishes the evaluation of the rows it read.
LEMMA PublishedIsFull ==
  ASSUME AssessmentInv, PublishEvaluation
  PROVE  /\ active'.rows = job.index
         /\ active'.status = [r \in EventIds |-> Freshness(job.index[r], tick)]
  BY DEF AssessmentInv, RunIsComplete, PublishEvaluation, Evaluation

\* A run that publishes nothing had nothing to change.
LEMMA UnchangedIsFull ==
  ASSUME AssessmentInv, Unchanged
  PROVE  /\ active.catalog = job.catalog /\ active.rows = events
         /\ \A r \in EventIds : events[r] <= active.evaluated =>
                                  active.status[r] = Freshness(events[r], tick)
<1>1. AssessmentTypeOK /\ GenerationIsEvaluation /\ RunIsComplete
  BY DEF AssessmentInv
<1>2. job.phase = "delta" /\ Changed = {} /\ Removed = {} /\ ~FreshnessDue
  BY DEF Unchanged
<1>3. HasGeneration /\ active.catalog = job.catalog
  BY <1>1, <1>2 DEF RunIsComplete
<1>4. active.rows = events
  <2>1. active.rows \in Store /\ events \in Store
    BY <1>1 DEF AssessmentTypeOK, Generations
  <2>2. \A r \in EventIds : active.rows[r] = events[r]
    BY <1>1, <1>2, UnchangedRows DEF GenerationIsEvaluation
  <2> QED
    BY <2>1, <2>2 DEF Store
<1>5. active = Evaluation(active.rows, active.index, active.catalog, active.evaluated)
  BY <1>1, <1>3 DEF GenerationIsEvaluation
<1>6. /\ active.due = NextTransition(active.rows, active.evaluated)
      /\ active.status = [r \in EventIds |-> Freshness(active.rows[r], active.evaluated)]
  BY <1>5 DEF Evaluation
<1>7. events \in Store /\ active.evaluated \in Nat /\ tick \in Nat /\ active.evaluated <= tick
  BY <1>1, AssessmentConstants DEF AssessmentTypeOK, Generations, Ticks, GenerationIsEvaluation
<1>8. NextTransition(events, active.evaluated) # Forever =>
        tick < NextTransition(events, active.evaluated)
  <2>1. NextTransition(events, active.evaluated) \in Nat
    BY <1>7, NextTransitionIsFirst
  <2> QED
    BY <1>2, <1>4, <1>6, <1>7, <2>1 DEF FreshnessDue
<1>9. \A r \in EventIds : events[r] <= active.evaluated =>
        Freshness(events[r], active.evaluated) = Freshness(events[r], tick)
  BY <1>7, <1>8, StatusLasts
<1> QED
  BY <1>3, <1>4, <1>6, <1>9

\* Reuse is invisible: whenever a run returns, the active generation is what a full
\* evaluation would give, for every SLO, resolution of the clock, store and history of runs.
THEOREM IncrementalIsFullHolds == AssessmentSpec => IncrementalIsFull
<1>1. AssessmentInv /\ [AssessmentNext]_assessmentVars =>
        [/\ PublishEvaluation =>
              /\ active'.rows = job.index
              /\ active'.status = [r \in EventIds |-> Freshness(job.index[r], tick)]
         /\ Unchanged =>
              /\ active.catalog = job.catalog /\ active.rows = events
              /\ \A r \in EventIds : events[r] <= active.evaluated =>
                                  active.status[r] = Freshness(events[r], tick)]_assessmentVars
  BY PublishedIsFull, UnchangedIsFull
<1> QED
  BY <1>1, AssessmentInvariant, PTL DEF AssessmentSpec, IncrementalIsFull
================================================================================
