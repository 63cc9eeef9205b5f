----------------------------- MODULE SchedulerProofs -----------------------------
(***************************************************************************)
(* Safety of scheduler.py's ticks and of repair-history for every number of *)
(* processes, targets and deaths and every interval.                        *)
(***************************************************************************)
EXTENDS Scheduler, TLAPS

\* Target x may fire at t: neither its last firing nor the last repair is within an interval.
Slot(x, t) ==
  /\ lastFire[x] = Never \/ t >= lastFire[x] + Period
  /\ repairedAt = Never \/ t >= repairedAt + Period

\* Where the lock's holder is.  A tick goes through targets that had a slot when it read the
\* state, and still have one because nobody else fires or repairs; what it fires it has
\* recorded, or the record destroyed the file's readability for good.
PassOf(k) ==
  /\ phase[k] # "idle" => flock = k
  /\ phase[k] \in {"tick", "attempted"} => \A x \in due[k] : Slot(x, moment[k])
  /\ phase[k] = "fired" => \A x \in due[k] \ {firing[k]} : Slot(x, moment[k])
  /\ phase[k] \in {"attempted", "fired"} => firing[k] \in due[k]
  /\ phase[k] = "attempted" => attempts[firing[k]] >= moment[k] \/ tail = "corrupt"
  /\ phase[k] = "repair" => tail # "corrupt"
  /\ phase[k] \in {"rewritten", "deferring"} => tail = "whole"
  /\ phase[k] = "deferring" => /\ repairedAt <= moment[k]
                               /\ \A x \in Targets \ due[k] : attempts[x] >= repairedAt

\* A readable file knows every firing; without the marker every target is deferred.
FileKnows ==
  /\ \A x \in Targets : attempts[x] >= lastFire[x] \/ tail = "corrupt"
  /\ marker \/ \A x \in Targets : attempts[x] >= repairedAt
  /\ repairedAt <= clock

\* The inductive invariant of FiresOncePerInterval.
SchedulerInv == SchedulerTypeOK /\ (\A k \in Tickers : PassOf(k)) /\ FileKnows

--------------------------------------------------------------------------------
(* Lemmas *)

\* Moments are numbers up to MaxTime.
LEMMA MomentsAreNumbers ==
  Times \cup {Never} = 0..MaxTime /\ MaxTime \in Nat /\ Period \in Nat /\ Period > 0
BY SchedulerConstants DEF Times, Never

\* append_jsonl loses no readable attempt, and what it writes is read or makes the file corrupt.
LEMMA AppendKeeps ==
  ASSUME SchedulerTypeOK, NEW x \in Targets, NEW t \in 0..MaxTime, AppendAttempt(x, t)
  PROVE  /\ attempts' \in [Targets -> Times \cup {Never}] /\ tail' \in Tails
         /\ \A y \in Targets : attempts'[y] >= attempts[y]
         /\ attempts'[x] >= t \/ tail' = "corrupt"
         /\ (tail = "whole" => tail' = "whole" /\ attempts'[x] >= t)
         /\ (tail = "corrupt" => tail' = "corrupt")
<1>1. attempts \in [Targets -> 0..MaxTime] /\ tail \in Tails
  BY MomentsAreNumbers DEF SchedulerTypeOK
<1>2. CASE tail = "whole" /\ attempts' = [attempts EXCEPT ![x] = Later(@, t)] /\ UNCHANGED tail
  BY <1>1, <1>2, MomentsAreNumbers DEF Later
<1>3. CASE tail # "whole" /\ tail' = "corrupt" /\ UNCHANGED attempts
  BY <1>1, <1>3, MomentsAreNumbers DEF Tails
<1> QED BY <1>2, <1>3 DEF AppendAttempt

\* Neither does a writer that dies inside it.
LEMMA TearKeeps ==
  ASSUME SchedulerTypeOK, NEW x \in Targets, NEW t \in 0..MaxTime, TearAttempt(x, t)
  PROVE  /\ attempts' \in [Targets -> Times \cup {Never}] /\ tail' \in Tails
         /\ \A y \in Targets : attempts'[y] >= attempts[y]
         /\ (tail = "corrupt" => tail' = "corrupt")
<1>1. attempts \in [Targets -> 0..MaxTime] /\ tail \in Tails
  BY MomentsAreNumbers DEF SchedulerTypeOK
<1>2. CASE tail' = (IF tail = "corrupt" THEN "corrupt" ELSE "torn") /\ UNCHANGED attempts
  BY <1>1, <1>2, MomentsAreNumbers DEF Tails
<1>3. CASE tail = "whole" /\ tail' = "bare" /\ attempts' = [attempts EXCEPT ![x] = Later(@, t)]
  BY <1>1, <1>3, MomentsAreNumbers DEF Later, Tails
<1> QED BY <1>2, <1>3 DEF TearAttempt

\* Whoever ticks or repairs, or takes the free lock, is alone.
LEMMA OthersAreIdle ==
  ASSUME SchedulerInv, NEW k \in Tickers, phase[k] # "idle" \/ flock = Nobody
  PROVE  \A j \in Tickers \ {k} : phase[j] = "idle"
BY SchedulerConstants DEF SchedulerInv, PassOf, Nobody

\* A pass that ends leaves every process idle.
LEMMA EndedPass ==
  ASSUME SchedulerInv, NEW k \in Tickers, phase[k] # "idle", EndPass(k)
  PROVE  /\ \A j \in Tickers : PassOf(j)'
         /\ flock' \in Tickers \cup {Nobody} /\ phase' \in [Tickers -> Phases]
         /\ moment' \in [Tickers -> Times \cup {Never}]
         /\ due' \in [Tickers -> SUBSET Targets] /\ firing' \in [Tickers -> Targets \cup {NoTarget}]
<1>1. \A j \in Tickers : phase'[j] = "idle"
  BY OthersAreIdle DEF SchedulerInv, SchedulerTypeOK, EndPass
<1>2. \A j \in Tickers : PassOf(j)'
  BY <1>1 DEF PassOf
<1> QED BY <1>2 DEF SchedulerInv, SchedulerTypeOK, EndPass, Phases

\* The scheduler starts with an empty history.
LEMMA SchedulerInvInit == SchedulerInit => SchedulerInv
<1> SUFFICES ASSUME SchedulerInit PROVE SchedulerInv
  OBVIOUS
<1>1. 0 \in 0..MaxDeaths /\ 1 \in Times /\ 0 \in Nat
  BY SchedulerConstants DEF Times
<1>2. SchedulerTypeOK
  <2>1. /\ clock = 1 /\ attempts = [x \in Targets |-> Never] /\ tail = "whole" /\ marker = FALSE
        /\ flock = Nobody /\ phase = [k \in Tickers |-> "idle"]
        /\ moment = [k \in Tickers |-> Never] /\ due = [k \in Tickers |-> {}]
        /\ firing = [k \in Tickers |-> NoTarget] /\ deaths = 0
        /\ fires = [x \in Targets |-> 0] /\ lastFire = [x \in Targets |-> Never] /\ repairedAt = Never
    BY DEF SchedulerInit
  <2> QED BY <1>1, <2>1 DEF SchedulerTypeOK, Phases, Tails
<1>3. ASSUME NEW k \in Tickers PROVE PassOf(k)
  BY DEF SchedulerInit, PassOf
<1>4. FileKnows
  BY DEF SchedulerInit, FileKnows, Never
<1> QED BY <1>2, <1>3, <1>4 DEF SchedulerInv

--------------------------------------------------------------------------------
(* Steps *)

\* Every action keeps the types, the passes and what the file knows.
LEMMA SchedulerInvStep == SchedulerInv /\ [SchedulerNext]_schedulerVars => SchedulerInv'
<1> SUFFICES ASSUME SchedulerInv, [SchedulerNext]_schedulerVars PROVE SchedulerInv'
  OBVIOUS
<1>t. SchedulerTypeOK /\ FileKnows /\ \A k \in Tickers : PassOf(k)
  BY DEF SchedulerInv
<1>n. /\ clock \in 1..MaxTime /\ repairedAt \in 0..MaxTime /\ MaxTime \in Nat /\ Period \in Nat
      /\ \A x \in Targets : attempts[x] \in 0..MaxTime /\ lastFire[x] \in 0..MaxTime
      /\ \A k \in Tickers : moment[k] \in 0..MaxTime
  BY <1>t, MomentsAreNumbers DEF SchedulerTypeOK, Times
<1>1. CASE Pass
  <2>1. clock' \in Times /\ repairedAt <= clock'
    BY <1>1, <1>n, <1>t DEF Pass, Times, FileKnows
  <2>2. ASSUME NEW k \in Tickers PROVE PassOf(k)'
    BY <1>1, <1>t DEF Pass, PassOf, Slot
  <2> QED BY <1>1, <2>1, <2>2, <1>t DEF Pass, SchedulerInv, SchedulerTypeOK, FileKnows
<1>2. ASSUME NEW k \in Tickers, BeginTick(k) PROVE SchedulerInv'
  <2>1. \A j \in Tickers \ {k} : phase[j] = "idle"
    BY <1>2, OthersAreIdle DEF BeginTick
  <2>2. ASSUME NEW x \in DueAt(clock) PROVE Slot(x, clock)
    <3>1. attempts[x] >= lastFire[x] /\ attempts[x] >= repairedAt /\ x \in Targets
      BY <1>2, <1>t DEF BeginTick, FileKnows, Readable, DueAt
    <3>2. attempts[x] = 0 \/ clock >= attempts[x] + Period
      BY DEF DueAt, Never
    <3> QED BY <3>1, <3>2, <1>n DEF Slot, Never
  <2>3. \A j \in Tickers \ {k} : PassOf(j)'
    BY <1>2, <2>1, <1>t DEF BeginTick, PassOf, SchedulerTypeOK
  <2>4. PassOf(k)'
    BY <1>2, <2>2, <1>t DEF BeginTick, PassOf, SchedulerTypeOK, Slot
  <2>5. SchedulerTypeOK'
    BY <1>2, <1>t DEF BeginTick, SchedulerTypeOK, Phases, DueAt
  <2> QED BY <1>2, <2>3, <2>4, <2>5, <1>t DEF SchedulerInv, FileKnows, BeginTick
<1>3. ASSUME NEW k \in Tickers, NEW x \in Targets, RecordAttempt(k, x) PROVE SchedulerInv'
  <2>1. \A j \in Tickers \ {k} : phase[j] = "idle"
    BY <1>3, OthersAreIdle DEF RecordAttempt
  <2>2. AppendAttempt(x, moment[k]) /\ x \in due[k]
    BY <1>3 DEF RecordAttempt
  <2>3. /\ attempts' \in [Targets -> Times \cup {Never}] /\ tail' \in Tails
        /\ \A y \in Targets : attempts'[y] >= attempts[y]
        /\ attempts'[x] >= moment[k] \/ tail' = "corrupt"
        /\ (tail = "corrupt" => tail' = "corrupt")
    BY <2>2, <1>t, <1>n, AppendKeeps
  <2>4. \A j \in Tickers \ {k} : PassOf(j)'
    BY <1>3, <2>1, <1>t DEF RecordAttempt, PassOf, SchedulerTypeOK
  <2>5. PassOf(k)'
    BY <1>3, <2>2, <2>3, <1>t DEF RecordAttempt, PassOf, SchedulerTypeOK, Slot
  <2>6. SchedulerTypeOK'
    BY <1>3, <2>3, <1>t DEF RecordAttempt, SchedulerTypeOK, Phases
  <2>7. FileKnows'
    BY <1>3, <2>3, <1>t, <1>n, MomentsAreNumbers DEF RecordAttempt, FileKnows
  <2> QED BY <2>4, <2>5, <2>6, <2>7 DEF SchedulerInv
<1>4. ASSUME NEW k \in Tickers, Fire(k) PROVE SchedulerInv'
  <2> DEFINE x == firing[k]
  <2>1. \A j \in Tickers \ {k} : phase[j] = "idle"
    BY <1>4, OthersAreIdle DEF Fire
  <2>2. x \in due[k] /\ x \in Targets /\ (attempts[x] >= moment[k] \/ tail = "corrupt")
    BY <1>4, <1>t DEF Fire, PassOf, SchedulerTypeOK
  <2>3. \A j \in Tickers \ {k} : PassOf(j)'
    BY <1>4, <2>1, <1>t DEF Fire, PassOf, SchedulerTypeOK
  <2>4. PassOf(k)'
    <3>1. \A y \in due[k] \ {x} : lastFire'[y] = lastFire[y]
      BY <1>4, <1>t DEF Fire, SchedulerTypeOK
    <3> QED BY <1>4, <2>2, <3>1, <1>t DEF Fire, PassOf, SchedulerTypeOK, Slot
  <2>5. SchedulerTypeOK'
    BY <1>4, <2>2, <1>t DEF Fire, SchedulerTypeOK, Phases
  <2>6. FileKnows'
    BY <1>4, <2>2, <1>t DEF Fire, FileKnows, SchedulerTypeOK
  <2> QED BY <2>3, <2>4, <2>5, <2>6 DEF SchedulerInv
<1>5. ASSUME NEW k \in Tickers, RecordOutcome(k) PROVE SchedulerInv'
  <2>1. \A j \in Tickers \ {k} : phase[j] = "idle"
    BY <1>5, OthersAreIdle DEF RecordOutcome
  <2>2. firing[k] \in Targets
    BY <1>5, <1>t DEF RecordOutcome, PassOf, SchedulerTypeOK
  <2>3. /\ attempts' \in [Targets -> Times \cup {Never}] /\ tail' \in Tails
        /\ \A y \in Targets : attempts'[y] >= attempts[y]
        /\ (tail = "corrupt" => tail' = "corrupt")
    BY <1>5, <2>2, <1>t, <1>n, AppendKeeps DEF RecordOutcome
  <2>4. \A j \in Tickers \ {k} : PassOf(j)'
    BY <1>5, <2>1, <1>t DEF RecordOutcome, PassOf, SchedulerTypeOK
  <2>5. PassOf(k)'
    BY <1>5, <1>t DEF RecordOutcome, PassOf, SchedulerTypeOK, Slot
  <2>6. SchedulerTypeOK'
    BY <1>5, <2>3, <1>t DEF RecordOutcome, SchedulerTypeOK, Phases
  <2>7. FileKnows'
    BY <1>5, <2>3, <1>t, <1>n, MomentsAreNumbers DEF RecordOutcome, FileKnows
  <2> QED BY <2>4, <2>5, <2>6, <2>7 DEF SchedulerInv
<1>6. ASSUME NEW k \in Tickers, EndTick(k) PROVE SchedulerInv'
  <2>1. phase[k] # "idle" /\ EndPass(k)
    BY <1>6 DEF EndTick
  <2> QED BY <1>6, <2>1, <1>t, EndedPass DEF EndTick, SchedulerInv, SchedulerTypeOK, FileKnows
<1>7. ASSUME NEW k \in Tickers, BeginRepair(k) PROVE SchedulerInv'
  <2>1. \A j \in Tickers \ {k} : phase[j] = "idle"
    BY <1>7, OthersAreIdle DEF BeginRepair
  <2>2. \A j \in Tickers \ {k} : PassOf(j)'
    BY <1>7, <2>1, <1>t DEF BeginRepair, PassOf, SchedulerTypeOK
  <2>3. PassOf(k)'
    BY <1>7, <1>t DEF BeginRepair, PassOf, SchedulerTypeOK
  <2>4. SchedulerTypeOK'
    BY <1>7, <1>t DEF BeginRepair, SchedulerTypeOK, Phases
  <2>5. FileKnows'
    BY <1>7, <1>t, <1>n DEF BeginRepair, FileKnows
  <2> QED BY <2>2, <2>3, <2>4, <2>5 DEF SchedulerInv
<1>8. ASSUME NEW k \in Tickers, Rewrite(k) PROVE SchedulerInv'
  <2>1. (\A j \in Tickers \ {k} : phase[j] = "idle") /\ tail # "corrupt"
    BY <1>8, <1>t, OthersAreIdle DEF Rewrite, PassOf
  <2>2. \A j \in Tickers \ {k} : PassOf(j)'
    BY <1>8, <2>1, <1>t DEF Rewrite, PassOf, SchedulerTypeOK
  <2>3. PassOf(k)'
    BY <1>8, <1>t DEF Rewrite, PassOf, SchedulerTypeOK
  <2>4. SchedulerTypeOK'
    BY <1>8, <1>t DEF Rewrite, SchedulerTypeOK, Phases, Tails
  <2>5. FileKnows'
    BY <1>8, <2>1, <1>t DEF Rewrite, FileKnows
  <2> QED BY <2>2, <2>3, <2>4, <2>5 DEF SchedulerInv
<1>9. ASSUME NEW k \in Tickers, BeginDeferral(k) PROVE SchedulerInv'
  <2>1. \A j \in Tickers \ {k} : phase[j] = "idle"
    BY <1>9, OthersAreIdle DEF BeginDeferral
  <2>2. \A j \in Tickers \ {k} : PassOf(j)'
    BY <1>9, <2>1, <1>t DEF BeginDeferral, PassOf, SchedulerTypeOK
  <2>3. PassOf(k)'
    BY <1>9, <1>t DEF BeginDeferral, PassOf, SchedulerTypeOK, FileKnows
  <2>4. SchedulerTypeOK'
    BY <1>9, <1>t DEF BeginDeferral, SchedulerTypeOK, Phases
  <2>5. FileKnows'
    BY <1>9, <1>t DEF BeginDeferral, FileKnows
  <2> QED BY <2>2, <2>3, <2>4, <2>5 DEF SchedulerInv
<1>10. ASSUME NEW k \in Tickers, NEW x \in Targets, Defer(k, x) PROVE SchedulerInv'
  <2>1. (\A j \in Tickers \ {k} : phase[j] = "idle") /\ tail = "whole"
    BY <1>10, <1>t, OthersAreIdle DEF Defer, PassOf
  <2>2. /\ attempts' \in [Targets -> Times \cup {Never}] /\ tail' = "whole" /\ attempts'[x] >= moment[k]
        /\ \A y \in Targets : attempts'[y] >= attempts[y]
    BY <1>10, <2>1, <1>t, <1>n, AppendKeeps DEF Defer
  <2>3. \A j \in Tickers \ {k} : PassOf(j)'
    BY <1>10, <2>1, <1>t DEF Defer, PassOf, SchedulerTypeOK
  <2>4. PassOf(k)'
    <3>1. /\ phase'[k] = "deferring" /\ due'[k] = due[k] \ {x} /\ repairedAt' = repairedAt
          /\ moment'[k] = moment[k] /\ flock' = k
      BY <1>10, <1>t DEF Defer, PassOf, SchedulerTypeOK
    <3>2. repairedAt <= moment[k] /\ \A y \in Targets \ due[k] : attempts[y] >= repairedAt
      BY <1>10, <1>t DEF Defer, PassOf
    <3>3. ASSUME NEW y \in Targets \ due'[k] PROVE attempts'[y] >= repairedAt
      <4>1. attempts'[y] \in 0..MaxTime /\ attempts[y] \in 0..MaxTime
        BY <2>2, <1>n, MomentsAreNumbers
      <4>2. CASE y = x
        BY <4>1, <4>2, <2>2, <3>2, <1>n
      <4>3. CASE y # x
        BY <4>1, <4>3, <2>2, <3>1, <3>2, <1>n
      <4> QED BY <4>2, <4>3
    <3> QED BY <2>2, <3>1, <3>2, <3>3 DEF PassOf
  <2>5. SchedulerTypeOK'
    BY <1>10, <2>2, <1>t DEF Defer, SchedulerTypeOK, Tails
  <2>6. FileKnows'
    BY <1>10, <2>1, <2>2, <1>t, <1>n, MomentsAreNumbers DEF Defer, FileKnows
  <2> QED BY <2>3, <2>4, <2>5, <2>6 DEF SchedulerInv
<1>11. ASSUME NEW k \in Tickers, EndRepair(k) PROVE SchedulerInv'
  <2>1. phase[k] # "idle" /\ EndPass(k) /\ \A x \in Targets : attempts[x] >= repairedAt
    BY <1>11, <1>t DEF EndRepair, PassOf
  <2> QED BY <1>11, <2>1, <1>t, EndedPass DEF EndRepair, SchedulerInv, SchedulerTypeOK, FileKnows
<1>12. ASSUME NEW k \in Tickers, Die(k) PROVE SchedulerInv'
  <2>1. phase[k] # "idle" /\ EndPass(k)
    BY <1>12 DEF Die
  <2>2. deaths' \in 0..MaxDeaths
    BY <1>12, <1>t, SchedulerConstants DEF Die, SchedulerTypeOK
  <2> QED BY <1>12, <2>1, <2>2, <1>t, EndedPass DEF Die, SchedulerInv, SchedulerTypeOK, FileKnows
<1>13. ASSUME NEW k \in Tickers, DieMidAppend(k) PROVE SchedulerInv'
  <2>1. phase[k] # "idle" /\ EndPass(k)
    BY <1>13 DEF DieMidAppend
  <2>2. deaths' \in 0..MaxDeaths
    BY <1>13, <1>t, SchedulerConstants DEF DieMidAppend, SchedulerTypeOK
  <2>3. PICK x \in Targets : TearAttempt(x, moment[k])
    BY <1>13, <1>t DEF DieMidAppend, PassOf, SchedulerTypeOK
  <2>4. /\ attempts' \in [Targets -> Times \cup {Never}] /\ tail' \in Tails
        /\ \A y \in Targets : attempts'[y] >= attempts[y]
        /\ (tail = "corrupt" => tail' = "corrupt")
    BY <2>3, <1>t, <1>n, TearKeeps
  <2>5. FileKnows'
    BY <1>13, <2>4, <1>t, <1>n, MomentsAreNumbers DEF DieMidAppend, FileKnows
  <2> QED BY <1>13, <2>1, <2>2, <2>4, <2>5, <1>t, EndedPass DEF DieMidAppend, SchedulerInv, SchedulerTypeOK
<1>14. CASE UNCHANGED schedulerVars
  BY <1>14, <1>t DEF schedulerVars, SchedulerInv, SchedulerTypeOK, PassOf, Slot, FileKnows
<1> QED
  BY <1>1, <1>2, <1>3, <1>4, <1>5, <1>6, <1>7, <1>8, <1>9, <1>10, <1>11, <1>12, <1>13, <1>14
  DEF SchedulerNext

\* A target that a step fires had a slot.
LEMMA FiringHasASlot ==
  ASSUME SchedulerInv, [SchedulerNext]_schedulerVars, NEW x \in Targets, fires'[x] # fires[x]
  PROVE  /\ lastFire[x] = Never \/ lastFire'[x] >= lastFire[x] + Period
         /\ repairedAt = Never \/ lastFire'[x] >= repairedAt + Period
<1>1. PICK k \in Tickers : Fire(k)
  BY DEF SchedulerNext, schedulerVars, Pass, BeginTick, RecordOutcome, EndTick, BeginRepair, Rewrite,
         BeginDeferral, EndRepair, Die, DieMidAppend, RecordAttempt, Defer
<1>2. x = firing[k]
  BY <1>1 DEF Fire, SchedulerInv, SchedulerTypeOK
<1>3. x \in due[k] /\ Slot(x, moment[k])
  BY <1>1, <1>2 DEF Fire, SchedulerInv, PassOf
<1>4. lastFire'[x] = moment[k]
  BY <1>1, <1>2 DEF Fire, SchedulerInv, SchedulerTypeOK
<1> QED BY <1>3, <1>4 DEF Slot

--------------------------------------------------------------------------------
(* Theorems *)

\* The lock, the state file, the marker and the passes agree in every reachable state.
THEOREM SchedulerInvariant == SchedulerSpec => []SchedulerInv
<1> QED BY SchedulerInvInit, SchedulerInvStep, PTL DEF SchedulerSpec

\* The state file, the lock and the processes of scheduler.py keep their types.
THEOREM SchedulerTypesHold == SchedulerSpec => []SchedulerTypeOK
<1>1. SchedulerInv => SchedulerTypeOK
  BY DEF SchedulerInv
<1> QED BY <1>1, SchedulerInvariant, PTL

\* tick fires a target once per interval, and repair_history lets nothing be repeated:
\* whatever processes overlap, wherever they die and however often.
THEOREM FiresOncePerIntervalHolds == SchedulerSpec => FiresOncePerInterval
<1>1. SchedulerInv /\ [SchedulerNext]_schedulerVars =>
        [\A x \in Targets :
           fires'[x] # fires[x] =>
             /\ lastFire[x] = Never \/ lastFire'[x] >= lastFire[x] + Period
             /\ repairedAt = Never \/ lastFire'[x] >= repairedAt + Period]_schedulerVars
  BY FiringHasASlot
<1> QED BY <1>1, SchedulerInvariant, PTL DEF SchedulerSpec, FiresOncePerInterval

================================================================================
