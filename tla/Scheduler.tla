-------------------------------- MODULE Scheduler --------------------------------
(***************************************************************************)
(* The cron scheduler of one lake on local files (scheduler.py): ticks of   *)
(* several processes attempt every due target, the attempts are rows of     *)
(* scheduler_state.jsonl, and repair-history recovers a torn last row.      *)
(*                                                                          *)
(* attempts[x] is the latest readable last_fired_at of target x (0: none).  *)
(* What a crash leaves of a row being appended decides how the file reads:  *)
(*   "whole"    every row ends in a newline;                                *)
(*   "torn"     the last row cannot be parsed: reads raise;                 *)
(*   "bare"     only its newline is missing: it reads, but the next append  *)
(*              joins its line;                                             *)
(*   "corrupt"  an unreadable row that ends in a newline: reads raise and   *)
(*              repair-history refuses.                                     *)
(* The cluster's record of attempts is in TenantPublication.                *)
(***************************************************************************)
EXTENDS Integers

CONSTANTS
  Tickers,    \* processes: the daemon, a CronJob, a tick through the API, the operator
  Targets,    \* scheduled workflows, connectors, the lake evaluation, retention
  Period,     \* the interval of the schedules
  MaxTime,    \* bound: the clock
  MaxDeaths   \* bound: processes that die

ASSUME SchedulerConstants ==
  /\ Period \in Nat \ {0} /\ MaxTime \in Nat \ {0} /\ MaxDeaths \in Nat
  /\ "nobody" \notin Tickers /\ "none" \notin Targets

Never == 0
Times == 1..MaxTime
Nobody == "nobody"
NoTarget == "none"

VARIABLES
  clock,
  attempts,   \* what _read_state would return
  tail,       \* how scheduler_state.jsonl ends
  marker,     \* scheduler_recovery_pending.json exists
  flock,      \* holder of .scheduler.lock
  phase,      \* where each process is
  moment,     \* the tick's or the repair's moment
  due,        \* targets the tick or the repair has still to go through
  firing,     \* the target whose attempt is recorded and not yet closed
  deaths,
  fires,      \* history: firings of each target
  lastFire,   \* history: the moment of the last one
  repairedAt  \* history: when the last repair that found work began

schedulerVars == <<clock, attempts, tail, marker, flock, phase, moment, due, firing, deaths,
                   fires, lastFire, repairedAt>>

Tails == {"whole", "torn", "bare", "corrupt"}
Phases == {"idle", "tick", "attempted", "fired", "repair", "rewritten", "deferring"}

SchedulerInit ==
  /\ clock = 1
  /\ attempts = [x \in Targets |-> Never]
  /\ tail = "whole" /\ marker = FALSE /\ flock = Nobody
  /\ phase = [k \in Tickers |-> "idle"]
  /\ moment = [k \in Tickers |-> Never]
  /\ due = [k \in Tickers |-> {}]
  /\ firing = [k \in Tickers |-> NoTarget]
  /\ deaths = 0
  /\ fires = [x \in Targets |-> 0]
  /\ lastFire = [x \in Targets |-> Never]
  /\ repairedAt = Never

--------------------------------------------------------------------------------
(* The state file *)

Readable == tail \in {"whole", "bare"}
Later(s, t) == IF s > t THEN s ELSE t

\* append_jsonl: a row written onto a bare tail destroys it and itself.
AppendAttempt(x, t) ==
  \/ /\ tail = "whole"
     /\ attempts' = [attempts EXCEPT ![x] = Later(@, t)]
     /\ UNCHANGED tail
  \/ /\ tail # "whole"
     /\ tail' = "corrupt"
     /\ UNCHANGED attempts

\* The writer dies inside append_jsonl: part of the row, or all but its newline, is left.
\* (A bare row is torn with it; nothing reads the attempts before all are deferred.)
TearAttempt(x, t) ==
  \/ /\ tail' = IF tail = "corrupt" THEN "corrupt" ELSE "torn"
     /\ UNCHANGED attempts
  \/ /\ tail = "whole"
     /\ tail' = "bare"
     /\ attempts' = [attempts EXCEPT ![x] = Later(@, t)]

--------------------------------------------------------------------------------
(* Ticks *)

Mine(k) == flock = k
DueAt(t) == {x \in Targets : attempts[x] = Never \/ t >= attempts[x] + Period}

\* tick: no lock, no tick; a pending recovery or an unreadable file raises.
BeginTick(k) ==
  /\ phase[k] = "idle" /\ flock = Nobody
  /\ ~marker /\ Readable
  /\ flock' = k
  /\ phase' = [phase EXCEPT ![k] = "tick"]
  /\ moment' = [moment EXCEPT ![k] = clock]
  /\ due' = [due EXCEPT ![k] = DueAt(clock)]
  /\ UNCHANGED <<clock, attempts, tail, marker, firing, deaths, fires, lastFire, repairedAt>>

\* Mutant: the attempt is recorded after the action only.
AttemptUnrecorded(k, x) ==
  /\ phase[k] = "tick" /\ x \in due[k]
  /\ phase' = [phase EXCEPT ![k] = "attempted"]
  /\ firing' = [firing EXCEPT ![k] = x]
  /\ UNCHANGED <<clock, attempts, tail, marker, flock, moment, due, deaths, fires, lastFire, repairedAt>>

\* _write_state(result="started") before anything runs.
RecordAttempt(k, x) ==
  /\ phase[k] = "tick" /\ x \in due[k]
  /\ AppendAttempt(x, moment[k])
  /\ phase' = [phase EXCEPT ![k] = "attempted"]
  /\ firing' = [firing EXCEPT ![k] = x]
  /\ UNCHANGED <<clock, marker, flock, moment, due, deaths, fires, lastFire, repairedAt>>

\* run_workflow, run_connector_sync, run_lake_eval or run_retention begins.
Fire(k) ==
  /\ phase[k] = "attempted"
  /\ fires' = [fires EXCEPT ![firing[k]] = @ + 1]
  /\ lastFire' = [lastFire EXCEPT ![firing[k]] = moment[k]]
  /\ phase' = [phase EXCEPT ![k] = "fired"]
  /\ UNCHANGED <<clock, attempts, tail, marker, flock, moment, due, firing, deaths, repairedAt>>

\* Its outcome, an exception's included, is one more row with the same moment.
RecordOutcome(k) ==
  /\ phase[k] = "fired"
  /\ AppendAttempt(firing[k], moment[k])
  /\ phase' = [phase EXCEPT ![k] = "tick"]
  /\ due' = [due EXCEPT ![k] = @ \ {firing[k]}]
  /\ firing' = [firing EXCEPT ![k] = NoTarget]
  /\ UNCHANGED <<clock, marker, flock, moment, deaths, fires, lastFire, repairedAt>>

EndPass(k) ==
  /\ flock' = Nobody
  /\ phase' = [phase EXCEPT ![k] = "idle"]
  /\ moment' = [moment EXCEPT ![k] = Never]
  /\ due' = [due EXCEPT ![k] = {}]
  /\ firing' = [firing EXCEPT ![k] = NoTarget]

EndTick(k) ==
  /\ phase[k] = "tick" /\ due[k] = {}
  /\ EndPass(k)
  /\ UNCHANGED <<clock, attempts, tail, marker, deaths, fires, lastFire, repairedAt>>

--------------------------------------------------------------------------------
(* repair-history *)

\* It waits for the lock, refuses a newline-terminated corrupt row, and does nothing
\* when there is nothing to do; otherwise the marker blocks every tick from here on.
BeginRepair(k) ==
  /\ phase[k] = "idle" /\ flock = Nobody
  /\ tail # "corrupt" /\ (tail # "whole" \/ marker)
  /\ flock' = k
  /\ marker' = TRUE
  /\ phase' = [phase EXCEPT ![k] = "repair"]
  /\ repairedAt' = clock
  /\ UNCHANGED <<clock, attempts, tail, moment, due, firing, deaths, fires, lastFire>>

\* The torn row is archived and the readable rows rewritten.
Rewrite(k) ==
  /\ phase[k] = "repair"
  /\ tail' = "whole"
  /\ phase' = [phase EXCEPT ![k] = "rewritten"]
  /\ UNCHANGED <<clock, attempts, marker, flock, moment, due, firing, deaths, fires, lastFire, repairedAt>>

\* Mutant: the marker is removed before the targets are deferred.
BeginDeferralUnmarked(k) ==
  /\ phase[k] = "rewritten"
  /\ moment' = [moment EXCEPT ![k] = clock]
  /\ due' = [due EXCEPT ![k] = Targets]
  /\ marker' = FALSE
  /\ phase' = [phase EXCEPT ![k] = "deferring"]
  /\ UNCHANGED <<clock, attempts, tail, flock, firing, deaths, fires, lastFire, repairedAt>>

BeginDeferral(k) ==
  /\ phase[k] = "rewritten"
  /\ moment' = [moment EXCEPT ![k] = clock]
  /\ due' = [due EXCEPT ![k] = Targets]
  /\ phase' = [phase EXCEPT ![k] = "deferring"]
  /\ UNCHANGED <<clock, attempts, tail, marker, flock, firing, deaths, fires, lastFire, repairedAt>>

\* Every target, whatever its last attempt, waits a full interval from now.
Defer(k, x) ==
  /\ phase[k] = "deferring" /\ x \in due[k]
  /\ AppendAttempt(x, moment[k])
  /\ due' = [due EXCEPT ![k] = @ \ {x}]
  /\ UNCHANGED <<clock, marker, flock, phase, moment, firing, deaths, fires, lastFire, repairedAt>>

EndRepair(k) ==
  /\ phase[k] = "deferring" /\ due[k] = {}
  /\ marker' = FALSE
  /\ EndPass(k)
  /\ UNCHANGED <<clock, attempts, tail, deaths, fires, lastFire, repairedAt>>

--------------------------------------------------------------------------------
(* Failures and time *)

Die(k) ==
  /\ deaths < MaxDeaths /\ phase[k] # "idle"
  /\ deaths' = deaths + 1
  /\ EndPass(k)
  /\ UNCHANGED <<clock, attempts, tail, marker, fires, lastFire, repairedAt>>

\* The process dies inside an append to the state file.
DieMidAppend(k) ==
  /\ deaths < MaxDeaths
  /\ \/ phase[k] = "tick" /\ \E x \in due[k] : TearAttempt(x, moment[k])
     \/ phase[k] = "fired" /\ TearAttempt(firing[k], moment[k])
     \/ phase[k] = "deferring" /\ \E x \in due[k] : TearAttempt(x, moment[k])
  /\ deaths' = deaths + 1
  /\ EndPass(k)
  /\ UNCHANGED <<clock, marker, fires, lastFire, repairedAt>>

Pass ==
  /\ clock < MaxTime
  /\ clock' = clock + 1
  /\ UNCHANGED <<attempts, tail, marker, flock, phase, moment, due, firing, deaths,
                 fires, lastFire, repairedAt>>

SchedulerNext ==
  \/ Pass
  \/ \E k \in Tickers :
       \/ BeginTick(k) \/ Fire(k) \/ RecordOutcome(k) \/ EndTick(k)
       \/ BeginRepair(k) \/ Rewrite(k) \/ BeginDeferral(k) \/ EndRepair(k)
       \/ Die(k) \/ DieMidAppend(k)
       \/ \E x \in Targets : RecordAttempt(k, x) \/ Defer(k, x)

SchedulerSpec == SchedulerInit /\ [][SchedulerNext]_schedulerVars

--------------------------------------------------------------------------------
(* Properties *)

\* The state file, the lock and the processes have the shape the code gives them.
SchedulerTypeOK ==
  /\ clock \in Times /\ attempts \in [Targets -> Times \cup {Never}]
  /\ tail \in Tails /\ marker \in BOOLEAN /\ flock \in Tickers \cup {Nobody}
  /\ phase \in [Tickers -> Phases] /\ moment \in [Tickers -> Times \cup {Never}]
  /\ due \in [Tickers -> SUBSET Targets] /\ firing \in [Tickers -> Targets \cup {NoTarget}]
  /\ deaths \in 0..MaxDeaths /\ fires \in [Targets -> Nat]
  /\ lastFire \in [Targets -> Times \cup {Never}] /\ repairedAt \in Times \cup {Never}

\* However ticks overlap and whatever dies, a target fires at most once in an interval, and
\* not within an interval of the start of a repair: neither a torn record of its attempt nor
\* an interrupted repair lets it be repeated.
FiresOncePerInterval ==
  [][\A x \in Targets :
       fires'[x] # fires[x] =>
         /\ lastFire[x] = Never \/ lastFire'[x] >= lastFire[x] + Period
         /\ repairedAt = Never \/ lastFire'[x] >= repairedAt + Period]_schedulerVars

================================================================================
