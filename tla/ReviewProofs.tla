------------------------------ MODULE ReviewProofs ------------------------------
(***************************************************************************)
(* Safety of what people decide and verify through the API: the decisions   *)
(* an agent run proposes, for every number of requests, decisions and       *)
(* faults, as long as no session loses its lock; and remediation tasks, for *)
(* every number of requests, generations and moments.                       *)
(***************************************************************************)
EXTENDS AgentDecisions, RemediationTasks, TLAPS

--------------------------------------------------------------------------------
(* The decisions of an agent run *)

Holding == {"approving", "claimed", "acted", "reconciling"}

\* A request past the lock holds it, and knows the whole column while its claim is open.
RequestAgrees(q) ==
  /\ stage[q] \in Holding => runLock = q
  /\ stage[q] \in {"claimed", "acted"} => decided = seen[q] /\ decided[index[q]] = "executing"
  /\ stage[q] = "claimed" => effects[index[q]] = 0
  /\ stage[q] = "acted" => effects[index[q]] = IF index[q] \in Transactional THEN 0 ELSE 1

\* What a decision's status says of its effects.
DecisionAgrees(d) ==
  /\ effects[d] \in {0, 1}
  /\ effects[d] = 1 => decided[d] \notin {"proposed", "rejected"}
  /\ decided[d] = "executed" => effects[d] = 1

RequestsAgree == \A q \in Requests : RequestAgrees(q)
ProposalsAgree == \A d \in Proposals : DecisionAgrees(d)

\* A request at work is about a decision of the run.
IndexesAreDecisions == \A q \in Requests : stage[q] # "ready" => index[q] \in Proposals

\* The inductive invariant of both properties.
AgentInv ==
  /\ AgentTypeOK /\ IndexesAreDecisions
  /\ lockLost \/ (RequestsAgree /\ ProposalsAgree)

--------------------------------------------------------------------------------
(* Types *)

\* Initially every decision is proposed and no request is at work.
LEMMA AgentInvInit == AgentInit => AgentInv
<1> SUFFICES ASSUME AgentInit PROVE AgentInv
  OBVIOUS
<1>1. 0 \in 0..MaxFaults
  <2>1. MaxFaults \in Nat
    BY AgentConstants
  <2> QED BY ONLY <2>1
<1>2. AgentTypeOK
  <2>1. /\ decided = [d \in Proposals |-> "proposed"] /\ runLock = Vacant
        /\ stage = [q \in Requests |-> "ready"] /\ index = [q \in Requests |-> NoDecision]
        /\ seen = [q \in Requests |-> [d \in Proposals |-> "proposed"]]
        /\ faults = 0 /\ effects = [d \in Proposals |-> 0] /\ lockLost = FALSE
    BY DEF AgentInit, Nothing
  <2>2. lockLost \in BOOLEAN
    BY <2>1
  <2>3. effects \in [Proposals -> Nat]
    BY <2>1
  <2> QED BY <1>1, <2>1, <2>2, <2>3 DEF AgentTypeOK, DecisionStatus, Stages
<1>3. IndexesAreDecisions /\ RequestsAgree /\ ProposalsAgree
  BY DEF AgentInit, IndexesAreDecisions, RequestsAgree, ProposalsAgree, RequestAgrees, DecisionAgrees, Holding
<1> QED BY <1>2, <1>3 DEF AgentInv

\* A request that answers goes back to the pool.
LEMMA AnswerKeeps ==
  ASSUME AgentTypeOK, NEW q \in Requests, Answer(q)
  PROVE  /\ stage' \in [Requests -> Stages] /\ seen' \in [Requests -> [Proposals -> DecisionStatus]]
         /\ index' \in [Requests -> Proposals \cup {NoDecision}]
         /\ stage'[q] = "ready"
         /\ \A r \in Requests \ {q} : stage'[r] = stage[r] /\ seen'[r] = seen[r] /\ index'[r] = index[r]
BY DEF AgentTypeOK, Answer, Nothing, DecisionStatus, Stages

\* Giving up the lock touches nobody else's.
LEMMA VacateKeeps ==
  ASSUME AgentTypeOK, NEW q \in Requests, Vacate(q)
  PROVE  /\ runLock' \in Requests \cup {Vacant}
         /\ \A r \in Requests \ {q} : runLock = r => runLock' = r
BY DEF AgentTypeOK, Vacate

\* Every action keeps the types.
LEMMA AgentTypesStep ==
  AgentTypeOK /\ IndexesAreDecisions /\ [AgentNext]_agentVars => AgentTypeOK' /\ IndexesAreDecisions'
<1> SUFFICES ASSUME AgentTypeOK, IndexesAreDecisions, [AgentNext]_agentVars
             PROVE  AgentTypeOK' /\ IndexesAreDecisions'
  OBVIOUS
<1> DEFINE Goal == AgentTypeOK' /\ IndexesAreDecisions'
<1>m. MaxFaults \in Nat
  BY AgentConstants
<1>s. ASSUME NEW q \in Requests, NEW s \in DecisionStatus, stage[q] # "ready", Swap(q, s)
      PROVE decided' \in [Proposals -> DecisionStatus]
  BY <1>s DEF AgentTypeOK, Swap
<1>a. ASSUME NEW q \in Requests, Answer(q) PROVE IndexesAreDecisions'
  BY <1>a, AnswerKeeps DEF IndexesAreDecisions
<1>1. ASSUME NEW q \in Requests, NEW d \in Proposals, NEW e \in Endpoints, LoadRun(q, d, e) PROVE Goal
  BY <1>1 DEF AgentTypeOK, IndexesAreDecisions, LoadRun, Stages
<1>2. ASSUME NEW q \in Requests, LockRun(q) PROVE Goal
  BY <1>2 DEF AgentTypeOK, IndexesAreDecisions, LockRun, Stages
<1>3. ASSUME NEW q \in Requests, LockRefused(q) PROVE Goal
  BY <1>3, <1>a, AnswerKeeps DEF AgentTypeOK, LockRefused
<1>4. ASSUME NEW q \in Requests, Claim(q) PROVE Goal
  <2>1. decided' \in [Proposals -> DecisionStatus] /\ index[q] \in Proposals
    BY <1>4, <1>s DEF Claim, DecisionStatus, IndexesAreDecisions
  <2>2. seen' \in [Requests -> [Proposals -> DecisionStatus]]
    BY <1>4, <2>1 DEF Claim, AgentTypeOK, DecisionStatus
  <2> QED BY <1>4, <2>1, <2>2 DEF AgentTypeOK, IndexesAreDecisions, Claim, Stages
<1>5. ASSUME NEW q \in Requests, Reject(q) PROVE Goal
  <2>1. decided' \in [Proposals -> DecisionStatus]
    BY <1>5, <1>s DEF Reject, DecisionStatus, Closed
  <2> QED BY <1>5, <2>1, <1>a, AnswerKeeps DEF AgentTypeOK, Reject
<1>6. ASSUME NEW q \in Requests, ClaimRefused(q) PROVE Goal
  BY <1>6, <1>a, AnswerKeeps, VacateKeeps DEF AgentTypeOK, ClaimRefused
<1>7. ASSUME NEW q \in Requests, Act(q) PROVE Goal
  BY <1>7 DEF AgentTypeOK, IndexesAreDecisions, Act, Stages
<1>8. ASSUME NEW q \in Requests, Close(q) PROVE Goal
  <2>1. decided' \in [Proposals -> DecisionStatus] /\ effects' \in [Proposals -> Nat]
    BY <1>8 DEF AgentTypeOK, IndexesAreDecisions, Close, DecisionStatus, Closed
  <2> QED BY <1>8, <2>1, <1>a, AnswerKeeps, VacateKeeps DEF AgentTypeOK, Close
<1>9. ASSUME NEW q \in Requests, FailClaim(q) PROVE Goal
  <2>1. decided' \in [Proposals -> DecisionStatus]
    BY <1>9, <1>s DEF FailClaim, AgentTypeOK, DecisionStatus, Closed
  <2> QED BY <1>9, <2>1, <1>a, AnswerKeeps, VacateKeeps DEF AgentTypeOK, FailClaim
<1>10. ASSUME NEW q \in Requests, ReconcileClaim(q) PROVE Goal
  <2>1. decided' \in [Proposals -> DecisionStatus]
    BY <1>10, <1>s DEF ReconcileClaim, DecisionStatus, Closed
  <2> QED BY <1>10, <2>1, <1>a, AnswerKeeps, VacateKeeps DEF AgentTypeOK, ReconcileClaim
<1>11. ASSUME NEW q \in Requests, ReconcileRefused(q) PROVE Goal
  BY <1>11, <1>a, AnswerKeeps, VacateKeeps DEF AgentTypeOK, ReconcileRefused
<1>12. ASSUME NEW q \in Requests, DieServing(q) PROVE Goal
  <2>1. faults' \in 0..MaxFaults
    BY <1>12, <1>m DEF AgentTypeOK, DieServing
  <2> QED BY <1>12, <2>1, <1>a, AnswerKeeps, VacateKeeps DEF AgentTypeOK, DieServing
<1>13. ASSUME NEW q \in Requests, LoseLock(q) PROVE Goal
  <2>1. faults' \in 0..MaxFaults
    BY <1>13, <1>m DEF AgentTypeOK, LoseLock
  <2> QED BY <1>13, <2>1 DEF AgentTypeOK, IndexesAreDecisions, LoseLock
<1>14. CASE UNCHANGED agentVars
  BY <1>14 DEF AgentTypeOK, IndexesAreDecisions, agentVars
<1> QED
  BY <1>1, <1>2, <1>3, <1>4, <1>5, <1>6, <1>7, <1>8, <1>9, <1>10, <1>11, <1>12, <1>13, <1>14
  DEF AgentNext

--------------------------------------------------------------------------------
(* Steps *)

\* While no lock is lost, a request that ends disturbs no other request.
LEMMA OthersAgree ==
  ASSUME AgentTypeOK, RequestsAgree, NEW q \in Requests, Answer(q), Vacate(q),
         \A r \in Requests \ {q} : stage[r] \in {"claimed", "acted"} =>
           decided' = decided /\ effects'[index[r]] = effects[index[r]]
  PROVE  RequestsAgree'
<1>1. RequestAgrees(q)'
  BY AnswerKeeps DEF RequestAgrees, Holding
<1>2. ASSUME NEW r \in Requests \ {q} PROVE RequestAgrees(r)'
  <2>1. stage'[r] = stage[r] /\ seen'[r] = seen[r] /\ index'[r] = index[r] /\ (runLock = r => runLock' = r)
    BY AnswerKeeps, VacateKeeps
  <2>2. RequestAgrees(r)
    BY DEF RequestsAgree
  <2>3. CASE stage[r] \in {"claimed", "acted"}
    <3>1. decided' = decided /\ effects'[index[r]] = effects[index[r]]
      BY <2>3
    <3> QED BY <2>1, <2>2, <3>1 DEF RequestAgrees
  <2>4. CASE stage[r] \notin {"claimed", "acted"}
    BY <2>1, <2>2, <2>4 DEF RequestAgrees
  <2> QED BY <2>3, <2>4
<1> QED BY <1>1, <1>2 DEF RequestsAgree

\* While a claim is open, nobody but its owner can write the column: whoever compares and
\* swaps needs a column without a claim, or the lock.
LEMMA ClaimIsExclusive ==
  ASSUME AgentInv, ~lockLost, NEW q \in Requests, NEW r \in Requests \ {q},
         stage[r] \in {"claimed", "acted"}
  PROVE  /\ stage[q] \notin Holding
         /\ ~ (ClaimableBy(q) /\ decided = seen[q])
<1>1. RequestAgrees(q) /\ RequestAgrees(r) /\ index[r] \in Proposals
  BY DEF AgentInv, RequestsAgree, IndexesAreDecisions
<1>2. runLock = r /\ decided[index[r]] = "executing"
  BY <1>1 DEF RequestAgrees, Holding
<1> QED BY <1>1, <1>2 DEF RequestAgrees, ClaimableBy

\* While no lock is lost, every action keeps the requests and the decisions in agreement.
LEMMA AgreementStep ==
  ASSUME AgentInv, [AgentNext]_agentVars, ~lockLost'
  PROVE  RequestsAgree' /\ ProposalsAgree'
<1>t. AgentTypeOK /\ IndexesAreDecisions /\ AgentTypeOK'
  BY AgentTypesStep DEF AgentInv
<1>l. ~lockLost
  BY DEF AgentNext, agentVars, LoadRun, LockRun, LockRefused, Claim, Reject, ClaimRefused, Act, Close, FailClaim,
         ReconcileClaim, ReconcileRefused, DieServing, LoseLock
<1>i. RequestsAgree /\ ProposalsAgree
  BY <1>l DEF AgentInv
<1> DEFINE Goal == RequestsAgree' /\ ProposalsAgree'
<1>d. ASSUME UNCHANGED <<decided, effects>> PROVE ProposalsAgree'
  BY <1>d, <1>i DEF ProposalsAgree, DecisionAgrees
<1>e. ASSUME NEW q \in Requests, Answer(q), Vacate(q), UNCHANGED <<decided, effects>> PROVE Goal
  BY <1>e, <1>d, <1>t, <1>i, OthersAgree
\* The column changes at one decision, whose effects the change agrees with.
<1>w. ASSUME NEW d \in Proposals, NEW s \in DecisionStatus, decided' = [decided EXCEPT ![d] = s],
             \A c \in Proposals \ {d} : effects'[c] = effects[c], effects'[d] \in {0, 1},
             effects'[d] = 1 => s \notin {"proposed", "rejected"}, s = "executed" => effects'[d] = 1
      PROVE ProposalsAgree'
  <2>1. ASSUME NEW c \in Proposals PROVE DecisionAgrees(c)'
    <3>1. CASE c = d
      <4>1. decided'[d] = s
        BY <1>w, <1>t DEF AgentTypeOK
      <4> QED BY <1>w, <3>1, <4>1 DEF DecisionAgrees
    <3>2. CASE c # d
      <4>1. decided'[c] = decided[c] /\ effects'[c] = effects[c]
        BY <1>w, <1>t, <3>2 DEF AgentTypeOK
      <4> QED BY <4>1, <1>i DEF ProposalsAgree, DecisionAgrees
    <3> QED BY <3>1, <3>2
  <2> QED BY <2>1 DEF ProposalsAgree
<1>1. ASSUME NEW q \in Requests, NEW d \in Proposals, NEW e \in Endpoints, LoadRun(q, d, e) PROVE Goal
  BY <1>1, <1>d, <1>t, <1>i DEF LoadRun, RequestsAgree, RequestAgrees, AgentTypeOK, Endpoints, Holding
<1>2. ASSUME NEW q \in Requests, LockRun(q) PROVE Goal
  <2>1. \A r \in Requests : stage[r] \notin Holding
    BY <1>2, <1>i, AgentConstants DEF LockRun, RequestsAgree, RequestAgrees, Vacant
  <2> QED BY <1>2, <2>1, <1>d, <1>t, <1>i DEF LockRun, RequestsAgree, RequestAgrees, AgentTypeOK, Holding
<1>3. ASSUME NEW q \in Requests, LockRefused(q) PROVE Goal
  <2>1. stage'[q] = "ready"
        /\ \A r \in Requests \ {q} : stage'[r] = stage[r] /\ seen'[r] = seen[r] /\ index'[r] = index[r]
    BY <1>3, <1>t, AnswerKeeps DEF LockRefused
  <2>2. ASSUME NEW r \in Requests PROVE RequestAgrees(r)'
    BY <1>3, <2>1, <1>i DEF LockRefused, RequestsAgree, RequestAgrees, Holding
  <2> QED BY <1>3, <2>2, <1>d DEF LockRefused, RequestsAgree
<1>4. ASSUME NEW q \in Requests, Claim(q) PROVE Goal
  <2>1. /\ index[q] \in Proposals /\ runLock = q /\ seen[q][index[q]] = "proposed" /\ decided = seen[q]
        /\ decided' = [decided EXCEPT ![index[q]] = "executing"]
    BY <1>4, <1>t, <1>i DEF Claim, ClaimableBy, Swap, IndexesAreDecisions, RequestsAgree, RequestAgrees, Holding
  <2>2. effects[index[q]] = 0
    BY <2>1, <1>i DEF ProposalsAgree, DecisionAgrees
  <2>3. /\ stage'[q] = "claimed" /\ seen'[q] = [seen[q] EXCEPT ![index[q]] = "executing"]
        /\ index' = index /\ effects' = effects /\ runLock' = runLock
        /\ \A r \in Requests \ {q} : stage'[r] = stage[r]
    BY <1>4, <1>t DEF Claim, AgentTypeOK
  <2>4. decided'[index[q]] = "executing" /\ decided' = seen'[q]
    BY <2>1, <2>3, <1>t DEF AgentTypeOK
  <2>5. RequestAgrees(q)'
    BY <2>1, <2>2, <2>3, <2>4 DEF RequestAgrees
  <2>6. \A r \in Requests \ {q} : stage[r] \notin Holding
    BY <2>1, <1>i DEF RequestsAgree, RequestAgrees
  <2>7. \A r \in Requests \ {q} : RequestAgrees(r)'
    BY <2>3, <2>6 DEF RequestAgrees, Holding
  <2>8. ProposalsAgree'
    BY <2>1, <2>2, <2>3, <1>w DEF DecisionStatus
  <2> QED BY <2>5, <2>7, <2>8 DEF RequestsAgree
<1>5. ASSUME NEW q \in Requests, Reject(q) PROVE Goal
  <2>1. /\ index[q] \in Proposals /\ ClaimableBy(q) /\ decided = seen[q] /\ decided[index[q]] = "proposed"
        /\ decided' = [decided EXCEPT ![index[q]] = "rejected"] /\ effects' = effects
    BY <1>5, <1>t DEF Reject, ClaimableBy, Swap, IndexesAreDecisions
  <2>2. \A r \in Requests \ {q} : stage[r] \notin {"claimed", "acted"}
    BY <2>1, <1>l, ClaimIsExclusive
  <2>3. /\ stage'[q] = "ready" /\ runLock' = runLock
        /\ \A r \in Requests \ {q} : stage'[r] = stage[r] /\ index'[r] = index[r]
    BY <1>5, <1>t, AnswerKeeps DEF Reject
  <2>4. ASSUME NEW r \in Requests PROVE RequestAgrees(r)'
    BY <2>2, <2>3, <1>i DEF RequestsAgree, RequestAgrees, Holding
  <2>5. effects[index[q]] = 0
    BY <2>1, <1>i DEF ProposalsAgree, DecisionAgrees
  <2>6. effects'[index[q]] = 0 /\ \A c \in Proposals \ {index[q]} : effects'[c] = effects[c]
    BY <2>1, <2>5
  <2>7. "rejected" \in DecisionStatus
    BY DEF DecisionStatus, Closed
  <2>8. ProposalsAgree'
    BY <2>1, <2>6, <2>7, <1>w
  <2> QED BY <2>4, <2>8 DEF RequestsAgree
<1>6. ASSUME NEW q \in Requests, ClaimRefused(q) PROVE Goal
  BY <1>6, <1>e DEF ClaimRefused
<1>7. ASSUME NEW q \in Requests, Act(q) PROVE Goal
  <2> DEFINE d == index[q]
  <2>1. /\ d \in Proposals /\ decided = seen[q] /\ decided[d] = "executing" /\ effects[d] = 0 /\ runLock = q
    BY <1>7, <1>t, <1>i DEF Act, IndexesAreDecisions, RequestsAgree, RequestAgrees, Holding
  <2>2. /\ stage'[q] = "acted" /\ UNCHANGED <<decided, runLock, seen, index>>
        /\ \A r \in Requests \ {q} : stage'[r] = stage[r]
    BY <1>7, <1>t DEF Act, AgentTypeOK
  <2>3. /\ effects'[d] = (IF d \in Transactional THEN 0 ELSE 1)
        /\ \A c \in Proposals \ {d} : effects'[c] = effects[c]
    BY <1>7, <2>1, <1>t DEF Act, AgentTypeOK
  <2>4. \A r \in Requests \ {q} : stage[r] \notin Holding
    BY <2>1, <1>i DEF RequestsAgree, RequestAgrees
  <2>5. RequestAgrees(q)' /\ \A r \in Requests \ {q} : RequestAgrees(r)'
    BY <2>1, <2>2, <2>3, <2>4 DEF RequestAgrees, Holding
  <2>6. ASSUME NEW c \in Proposals PROVE DecisionAgrees(c)'
    BY <2>1, <2>2, <2>3, <1>i DEF ProposalsAgree, DecisionAgrees
  <2> QED BY <2>5, <2>6 DEF RequestsAgree, ProposalsAgree
<1>8. ASSUME NEW q \in Requests, Close(q) PROVE Goal
  <2> DEFINE d == index[q]
  <2>1. /\ d \in Proposals /\ decided = seen[q] /\ effects[d] = (IF d \in Transactional THEN 0 ELSE 1)
        /\ decided' = [decided EXCEPT ![d] = "executed"] /\ runLock = q
    BY <1>8, <1>t, <1>i DEF Close, IndexesAreDecisions, RequestsAgree, RequestAgrees, Holding
  <2>2. effects'[d] = 1 /\ \A c \in Proposals \ {d} : effects'[c] = effects[c]
    BY <1>8, <2>1, <1>t DEF Close, AgentTypeOK
  <2>3. \A r \in Requests \ {q} : stage[r] \notin {"claimed", "acted"}
    BY <2>1, <1>i DEF RequestsAgree, RequestAgrees, Holding
  <2>4. RequestsAgree'
    BY <1>8, <2>3, <1>t, <1>i, OthersAgree DEF Close
  <2>5. ProposalsAgree'
    <3> HIDE DEF d
    <3> QED BY <2>1, <2>2, <1>w DEF DecisionStatus, Closed
  <2> QED BY <2>4, <2>5
<1>9. ASSUME NEW q \in Requests, FailClaim(q) PROVE Goal
  <2>1. /\ index[q] \in Proposals /\ decided = seen[q] /\ decided[index[q]] = "executing" /\ runLock = q
    BY <1>9, <1>t, <1>i DEF FailClaim, IndexesAreDecisions, RequestsAgree, RequestAgrees, Holding
  <2>2. decided' = [decided EXCEPT ![index[q]] = "failed"] /\ effects' = effects
    BY <1>9, <2>1 DEF FailClaim, Swap
  <2>3. \A r \in Requests \ {q} : stage[r] \notin {"claimed", "acted"}
    BY <2>1, <1>i DEF RequestsAgree, RequestAgrees, Holding
  <2>4. RequestsAgree'
    BY <1>9, <2>3, <1>t, <1>i, OthersAgree DEF FailClaim
  <2>5. effects[index[q]] \in {0, 1}
    BY <2>1, <1>i DEF ProposalsAgree, DecisionAgrees
  <2>6. ProposalsAgree'
    BY <2>1, <2>2, <2>5, <1>w DEF DecisionStatus, Closed
  <2> QED BY <2>4, <2>6
<1>10. ASSUME NEW q \in Requests, ReconcileClaim(q) PROVE Goal
  <2>1. /\ index[q] \in Proposals /\ runLock = q
        /\ decided' = [decided EXCEPT ![index[q]] = "outcome_unknown"] /\ effects' = effects
    BY <1>10, <1>t, <1>i DEF ReconcileClaim, Swap, IndexesAreDecisions, RequestsAgree, RequestAgrees, Holding
  <2>2. \A r \in Requests \ {q} : stage[r] \notin {"claimed", "acted"}
    BY <2>1, <1>i DEF RequestsAgree, RequestAgrees, Holding
  <2>3. RequestsAgree'
    BY <1>10, <2>2, <1>t, <1>i, OthersAgree DEF ReconcileClaim
  <2>4. effects[index[q]] \in {0, 1}
    BY <2>1, <1>i DEF ProposalsAgree, DecisionAgrees
  <2>5. ProposalsAgree'
    BY <2>1, <2>4, <1>w DEF DecisionStatus, Closed
  <2> QED BY <2>3, <2>5
<1>11. ASSUME NEW q \in Requests, ReconcileRefused(q) PROVE Goal
  BY <1>11, <1>e DEF ReconcileRefused
<1>12. ASSUME NEW q \in Requests, DieServing(q) PROVE Goal
  BY <1>12, <1>e DEF DieServing
<1>13. ASSUME NEW q \in Requests, LoseLock(q) PROVE Goal
  BY <1>13 DEF LoseLock
<1>14. CASE UNCHANGED agentVars
  BY <1>14, <1>i DEF RequestsAgree, ProposalsAgree, RequestAgrees, DecisionAgrees, agentVars
<1> QED
  BY <1>1, <1>2, <1>3, <1>4, <1>5, <1>6, <1>7, <1>8, <1>9, <1>10, <1>11, <1>12, <1>13, <1>14
  DEF AgentNext

\* While no lock is lost, no action changes a decision that is closed.
LEMMA ClosedStaysStep ==
  ASSUME AgentInv, AgentNext, ~lockLost', NEW d \in Proposals, decided[d] \in Closed
  PROVE  decided'[d] = decided[d]
<1>t. AgentTypeOK /\ IndexesAreDecisions
  BY DEF AgentInv
<1>l. ~lockLost
  BY DEF AgentNext, LoadRun, LockRun, LockRefused, Claim, Reject, ClaimRefused, Act, Close, FailClaim,
         ReconcileClaim, ReconcileRefused, DieServing, LoseLock
<1>i. RequestsAgree
  BY <1>l DEF AgentInv
<1>w. ASSUME NEW c \in Proposals, NEW s, decided[c] \in {"proposed", "executing"},
             decided' = [decided EXCEPT ![c] = s]
      PROVE decided'[d] = decided[d]
  <2>1. d # c
    BY <1>w DEF Closed
  <2> QED BY <1>w, <2>1, <1>t DEF AgentTypeOK
<1>1. ASSUME NEW q \in Requests, Claim(q) \/ Reject(q) PROVE decided'[d] = decided[d]
  <2>1. index[q] \in Proposals /\ decided[index[q]] = "proposed"
    BY <1>1, <1>t DEF Claim, Reject, ClaimableBy, Swap, IndexesAreDecisions
  <2>2. \/ decided' = [decided EXCEPT ![index[q]] = "executing"]
        \/ decided' = [decided EXCEPT ![index[q]] = "rejected"]
    BY <1>1 DEF Claim, Reject, Swap
  <2> QED BY <2>1, <2>2, <1>w
<1>2. ASSUME NEW q \in Requests, Close(q) \/ FailClaim(q) PROVE decided'[d] = decided[d]
  <2>1. index[q] \in Proposals /\ decided = seen[q] /\ decided[index[q]] = "executing"
    BY <1>2, <1>t, <1>i DEF Close, FailClaim, IndexesAreDecisions, RequestsAgree, RequestAgrees
  <2>2. \/ decided' = [decided EXCEPT ![index[q]] = "executed"]
        \/ decided' = [decided EXCEPT ![index[q]] = "failed"]
    BY <1>2, <2>1 DEF Close, FailClaim, Swap
  <2> QED BY <2>1, <2>2, <1>w
<1>3. ASSUME NEW q \in Requests, ReconcileClaim(q) PROVE decided'[d] = decided[d]
  <2>1. index[q] \in Proposals
    BY <1>3, <1>t DEF ReconcileClaim, IndexesAreDecisions
  <2>2. decided = seen[q] /\ seen[q][index[q]] = "executing"
    BY <1>3 DEF ReconcileClaim, Swap
  <2>3. decided[index[q]] \in {"proposed", "executing"}
    BY <2>2
  <2>4. decided' = [decided EXCEPT ![index[q]] = "outcome_unknown"]
    BY <1>3 DEF ReconcileClaim, Swap
  <2>5. d # index[q]
    BY <2>3 DEF Closed
  <2> QED BY <2>4, <2>5, <1>t DEF AgentTypeOK
<1>4. CASE UNCHANGED decided
  BY <1>4
<1> QED
  BY <1>1, <1>2, <1>3, <1>4 DEF AgentNext, LoadRun, LockRun, LockRefused, ClaimRefused, Act, ReconcileRefused,
     DieServing, LoseLock

--------------------------------------------------------------------------------
(* Theorems *)

\* The column, the lock and the requests agree in every reachable state.
THEOREM AgentInvariant == AgentSpec => []AgentInv
<1>1. AgentInit => AgentInv
  BY AgentInvInit
<1>2. AgentInv /\ [AgentNext]_agentVars => AgentInv'
  <2> SUFFICES ASSUME AgentInv, [AgentNext]_agentVars PROVE AgentInv'
    OBVIOUS
  <2>1. AgentTypeOK' /\ IndexesAreDecisions'
    BY AgentTypesStep DEF AgentInv
  <2>2. ~lockLost' => RequestsAgree' /\ ProposalsAgree'
    BY AgreementStep
  <2> QED BY <2>1, <2>2 DEF AgentInv
<1> QED BY <1>1, <1>2, PTL DEF AgentSpec

\* The row, the lock and the requests of db/agent_runs.py keep their types.
THEOREM AgentTypesHold == AgentSpec => []AgentTypeOK
<1>1. AgentInv => AgentTypeOK
  BY DEF AgentInv
<1> QED BY <1>1, AgentInvariant, PTL

\* claim_decision, fail_decision_claim and the endpoints execute a decision at most once and
\* report what happened, for any number of requests, exceptions and deaths.
THEOREM DecisionActsOnceHolds == AgentSpec => []DecisionActsOnce
<1>1. AgentInv => DecisionActsOnce
  BY DEF AgentInv, ProposalsAgree, DecisionAgrees, DecisionActsOnce
<1> QED BY <1>1, AgentInvariant, PTL

\* No request opens or changes a decision that is closed, although mark_decision_executed
\* rewrites the whole column.
THEOREM ClosedDecisionStaysHolds == AgentSpec => ClosedDecisionStays
<1>1. AgentInv /\ [AgentNext]_agentVars =>
        [lockLost' \/ \A d \in Proposals : decided[d] \in Closed => decided'[d] = decided[d]]_agentVars
  BY ClosedStaysStep
<1> QED BY <1>1, AgentInvariant, PTL DEF AgentSpec, ClosedDecisionStays

--------------------------------------------------------------------------------
(* The gates of an agent run's decisions *)

\* While no lock is lost, the gate of one decision moves with its status.
LEMMA ProposalMoves ==
  ASSUME AgentTypeOK, ~lockLost, ~lockLost', NEW d \in Proposals, NEW s,
         decided' = [decided EXCEPT ![d] = s],
         NEW from, ProposalVerdict(d) \in from, NEW to, ProposalVerdict(d)' = to
  PROVE  ProposalGate!Moves(d, from, to)
<1>1. \A c \in Proposals \ {d} : decided'[c] = decided[c]
  BY DEF AgentTypeOK
<1>2. \A c \in Proposals \ {d} : ProposalVerdict(c)' = ProposalVerdict(c)
  BY <1>1 DEF ProposalVerdict
<1> QED BY <1>2 DEF ProposalGate!Moves

\* A loss of the lock breaks all gates, and nothing moves them after that.
LEMMA LostLockBreaksGates ==
  ASSUME AgentTypeOK, lockLost', lockLost => lockLost'
  PROVE  ProposalGate!Break(Proposals)
<1>1. \A d \in Proposals : ProposalVerdict(d)' = "broken"
  BY DEF ProposalVerdict
<1>2. [d \in Proposals |-> IF lockLost THEN 0 ELSE effects[d]]' = [d \in Proposals |-> 0]
  OBVIOUS
<1> QED BY <1>1, <1>2 DEF ProposalGate!Break

\* Every step of the requests is a step of the gates, or none.
LEMMA AgentStepIsGateStep == AgentInv /\ [AgentNext]_agentVars => [ProposalGate!Next]_ProposalGate!vars
<1> SUFFICES ASSUME AgentInv, [AgentNext]_agentVars
             PROVE  ProposalGate!Next \/ UNCHANGED ProposalGate!vars
  OBVIOUS
<1> DEFINE Refines == ProposalGate!Next \/ UNCHANGED ProposalGate!vars
<1>t. AgentTypeOK /\ IndexesAreDecisions
  BY DEF AgentInv
<1>l. lockLost => lockLost'
  BY DEF AgentNext, agentVars, LoadRun, LockRun, LockRefused, Claim, Reject, ClaimRefused, Act, Close, FailClaim,
         ReconcileClaim, ReconcileRefused, DieServing, LoseLock
<1>1. CASE lockLost'
  <2>1. Proposals \in SUBSET Proposals
    OBVIOUS
  <2> QED BY <1>1, <1>t, <1>l, <2>1, LostLockBreaksGates DEF ProposalGate!Next
<1>2. ASSUME ~lockLost' PROVE Refines
  <2>l. ~lockLost /\ RequestsAgree /\ ProposalsAgree
    BY <1>2, <1>l DEF AgentInv
  <2>r. ASSUME UNCHANGED <<decided, effects>> PROVE Refines
    <3>1. \A d \in Proposals : ProposalVerdict(d)' = ProposalVerdict(d)
      BY <1>2, <2>l, <2>r DEF ProposalVerdict
    <3>2. [d \in Proposals |-> ProposalVerdict(d)]' = [d \in Proposals |-> ProposalVerdict(d)]
      BY <3>1
    <3>3. UNCHANGED [d \in Proposals |-> IF lockLost THEN 0 ELSE effects[d]]
      BY <1>2, <2>l, <2>r
    <3> QED BY <3>2, <3>3 DEF ProposalGate!vars
  <2>e. ASSUME UNCHANGED effects
        PROVE  UNCHANGED [d \in Proposals |-> IF lockLost THEN 0 ELSE effects[d]]
    BY <1>2, <2>e, <2>l
  <2>1. ASSUME NEW q \in Requests, Claim(q) PROVE Refines
    <3>1. PICK d \in Proposals : d = index[q]
      BY <2>1, <1>t DEF Claim, IndexesAreDecisions
    <3>2. decided[d] = "proposed" /\ decided' = [decided EXCEPT ![d] = "executing"] /\ UNCHANGED effects
      BY <2>1, <3>1 DEF Claim, ClaimableBy, Swap
    <3>3. decided'[d] = "executing"
      BY <3>2, <1>t DEF AgentTypeOK
    <3>4. ProposalVerdict(d) = "open" /\ ProposalVerdict(d)' = "claimed"
      BY <1>2, <2>l, <3>2, <3>3 DEF ProposalVerdict
    <3>5. ProposalGate!Moves(d, {"open"}, "claimed")
      BY <1>2, <1>t, <2>l, <3>2, <3>4, ProposalMoves
    <3>6. ProposalGate!Claim(d)
      BY <3>2, <3>5, <2>e DEF ProposalGate!Claim
    <3> QED BY <3>6 DEF ProposalGate!Next
  <2>2. ASSUME NEW q \in Requests, Reject(q) PROVE Refines
    <3>1. PICK d \in Proposals : d = index[q]
      BY <2>2, <1>t DEF Reject, IndexesAreDecisions
    <3>2. decided[d] = "proposed" /\ decided' = [decided EXCEPT ![d] = "rejected"] /\ UNCHANGED effects
      BY <2>2, <3>1 DEF Reject, ClaimableBy, Swap
    <3>3. decided'[d] = "rejected" /\ effects[d] = 0
      BY <3>2, <1>t, <2>l DEF AgentTypeOK, ProposalsAgree, DecisionAgrees
    <3>4. ProposalVerdict(d) = "open" /\ ProposalVerdict(d)' = "refused"
      BY <1>2, <2>l, <3>2, <3>3 DEF ProposalVerdict
    <3>5. ProposalGate!Moves(d, {"open", "claimed"}, "refused")
      BY <1>2, <1>t, <2>l, <3>2, <3>4, ProposalMoves
    <3>6. ProposalGate!Refuse(d)
      BY <2>l, <3>2, <3>3, <3>5, <2>e DEF ProposalGate!Refuse
    <3> QED BY <3>6 DEF ProposalGate!Next
  <2>3. ASSUME NEW q \in Requests, Act(q) PROVE Refines
    <3>1. PICK d \in Proposals : d = index[q]
      BY <2>3, <1>t DEF Act, IndexesAreDecisions
    <3>2. CASE d \in Transactional
      BY <2>3, <2>r, <3>1, <3>2 DEF Act
    <3>3. CASE d \notin Transactional
      <4>1. /\ decided[d] = "executing" /\ effects[d] = 0 /\ UNCHANGED decided
            /\ effects' = [effects EXCEPT ![d] = @ + 1]
        BY <2>3, <2>l, <3>1, <3>3 DEF Act, RequestsAgree, RequestAgrees
      <4>2. effects'[d] = 1 /\ \A c \in Proposals \ {d} : effects'[c] = effects[c]
        BY <4>1, <1>t DEF AgentTypeOK
      <4>3. ProposalVerdict(d) = "claimed" /\ \A c \in Proposals : ProposalVerdict(c)' = ProposalVerdict(c)
        BY <1>2, <2>l, <4>1 DEF ProposalVerdict
      <4>4. UNCHANGED [c \in Proposals |-> ProposalVerdict(c)]
        BY <4>3
      <4>5. [c \in Proposals |-> IF lockLost THEN 0 ELSE effects[c]]'
            = [[c \in Proposals |-> IF lockLost THEN 0 ELSE effects[c]] EXCEPT ![d] = 1]
        BY <1>2, <2>l, <4>2
      <4>6. ProposalGate!Act(d)
        BY <2>l, <4>1, <4>3, <4>4, <4>5 DEF ProposalGate!Act
      <4> QED BY <4>6 DEF ProposalGate!Next
    <3> QED BY <3>2, <3>3
  <2>4. ASSUME NEW q \in Requests, Close(q) PROVE Refines
    <3>1. PICK d \in Proposals : d = index[q]
      BY <2>4, <1>t DEF Close, IndexesAreDecisions
    <3>2. /\ decided[d] = "executing" /\ decided' = [decided EXCEPT ![d] = "executed"]
          /\ effects[d] = IF d \in Transactional THEN 0 ELSE 1
          /\ effects' = IF d \in Transactional THEN [effects EXCEPT ![d] = @ + 1] ELSE effects
      BY <2>4, <2>l, <3>1 DEF Close, RequestsAgree, RequestAgrees
    <3>3. decided'[d] = "executed" /\ effects'[d] = 1 /\ \A c \in Proposals \ {d} : effects'[c] = effects[c]
      BY <3>2, <1>t DEF AgentTypeOK
    <3>4. ProposalVerdict(d) = "claimed" /\ ProposalVerdict(d)' = "accepted"
      BY <1>2, <2>l, <3>2, <3>3 DEF ProposalVerdict
    <3>5. ProposalGate!Moves(d, {"claimed"}, "accepted")
      BY <1>2, <1>t, <2>l, <3>2, <3>4, ProposalMoves
    <3>6. [c \in Proposals |-> IF lockLost THEN 0 ELSE effects[c]]'
          = [[c \in Proposals |-> IF lockLost THEN 0 ELSE effects[c]] EXCEPT ![d] = 1]
      BY <1>2, <2>l, <3>3
    <3>7. effects[d] \in {0, 1}
      BY <3>2
    <3>8. ProposalGate!Accept(d)
      BY <2>l, <3>5, <3>6, <3>7 DEF ProposalGate!Accept
    <3> QED BY <3>8 DEF ProposalGate!Next
  <2>5. ASSUME NEW q \in Requests, FailClaim(q) \/ ReconcileClaim(q) PROVE Refines
    <3>1. PICK d \in Proposals : d = index[q]
      BY <2>5, <1>t DEF FailClaim, ReconcileClaim, IndexesAreDecisions
    <3>2. PICK s \in {"failed", "outcome_unknown"} :
            decided[d] = "executing" /\ decided' = [decided EXCEPT ![d] = s] /\ UNCHANGED effects
      BY <2>5, <2>l, <3>1 DEF FailClaim, ReconcileClaim, Swap, RequestsAgree, RequestAgrees
    <3>3. decided'[d] = s
      BY <3>2, <1>t DEF AgentTypeOK
    <3>4. ProposalVerdict(d) = "claimed" /\ ProposalVerdict(d)' = "unknown"
      BY <1>2, <2>l, <3>2, <3>3 DEF ProposalVerdict
    <3>5. ProposalGate!Moves(d, {"claimed"}, "unknown")
      BY <1>2, <1>t, <2>l, <3>2, <3>4, ProposalMoves
    <3>6. ProposalGate!GiveUp(d)
      BY <3>2, <3>5, <2>e DEF ProposalGate!GiveUp
    <3> QED BY <3>6 DEF ProposalGate!Next
  <2>6. ASSUME NEW q \in Requests,
               \/ \E d \in Proposals, e \in Endpoints : LoadRun(q, d, e)
               \/ LockRun(q) \/ LockRefused(q) \/ ClaimRefused(q) \/ ReconcileRefused(q)
               \/ DieServing(q) \/ LoseLock(q)
        PROVE  Refines
    BY <2>6, <2>r DEF LoadRun, LockRun, LockRefused, ClaimRefused, ReconcileRefused, DieServing, LoseLock
  <2>7. CASE UNCHANGED agentVars
    BY <2>7, <2>r DEF agentVars
  <2> QED BY <2>1, <2>2, <2>3, <2>4, <2>5, <2>6, <2>7 DEF AgentNext
<1> QED BY <1>1, <1>2

\* The decisions of an agent run keep the promise of a gate: claim_decision, the effect and the
\* closing of each come in that order and at most once, for any number of requests that share
\* the column; all gates break when a lock is lost under its holder.
THEOREM ProposalsImplementGate == AgentSpec => ImplementsProposalGate
<1>1. AgentInit => ProposalGate!Init
  <2> SUFFICES ASSUME AgentInit PROVE ProposalGate!Init
    OBVIOUS
  <2>1. \A d \in Proposals : ProposalVerdict(d) = "open"
    BY DEF AgentInit, ProposalVerdict
  <2> QED BY <2>1 DEF AgentInit, ProposalGate!Init
<1>2. AgentInv /\ [AgentNext]_agentVars => [ProposalGate!Next]_ProposalGate!vars
  BY AgentStepIsGateStep
<1> QED
  BY <1>1, <1>2, AgentInvariant, PTL DEF AgentSpec, ImplementsProposalGate, ProposalGate!Spec

--------------------------------------------------------------------------------
(* Remediation tasks *)

\* A request at work holds the task's row since before its note, so that no reopening can be
\* newer than the note; what it has pinned has been published.
RequestHolds(v) ==
  /\ verify[v] # "idle" => rowLock = v /\ noted[v] >= reopened
  /\ verify[v] = "pinned" => pin[v] \in 1..newest
  /\ verify[v] # "pinned" => pin[v] = NoGen

\* Only a task that has a receipt was ever resolved, and so reopened.
ReceiptsFirst == receipts = {} => reopened = 0 /\ ~resolved /\ publisher # "selected"

\* Receipts rest on published generations, which never change.
RetestsStand ==
  \A s \in retests : s.gen \in 1..newest /\ verdict[s.gen] = "pass" /\ observed[s.gen] > s.after

\* Nobody can resolve the task after a failing generation has been reconciled without a race:
\* whoever is at work has pinned that generation.
NobodyBehind ==
  publisher # "flipped" /\ newest # NoGen /\ verdict[newest] = "fail" /\ ~raced =>
    \A v \in Reviewers : pin[v] \in {NoGen, newest}

\* The inductive invariant of RetestsAreNewer and RegressionReopens.
RemediationInv ==
  /\ RemediationTypeOK /\ reopened <= wall
  /\ \A v \in Reviewers : RequestHolds(v)
  /\ ReceiptsFirst /\ RetestsStand
  /\ NobodyBehind /\ RegressionReopens

--------------------------------------------------------------------------------
(* Steps *)

\* Clocks and generations are numbers.
LEMMA BoundsAreNumbers == MaxGens \in Nat /\ MaxClock \in Nat /\ MaxClock >= 1
BY RemediationConstants

\* Initially nothing is published, resolved or requested.
LEMMA RemediationInvInit == RemediationInit => RemediationInv
<1> SUFFICES ASSUME RemediationInit PROVE RemediationInv
  OBVIOUS
<1>1. RemediationTypeOK
  <2>1. 1 \in Moments /\ 0 \in 0..MaxClock /\ 0 \in 0..MaxGens
    BY BoundsAreNumbers DEF Moments
  <2>2. /\ wall = 1 /\ newest = 0 /\ verdict = [g \in Gens |-> "unproven"] /\ observed = [g \in Gens |-> 0]
        /\ publisher = "idle" /\ updated = 1 /\ receipts = {} /\ rowLock = Unheld
        /\ verify = [v \in Reviewers |-> "idle"] /\ noted = [v \in Reviewers |-> 0]
        /\ pin = [v \in Reviewers |-> 0] /\ reopened = 0 /\ retests = {} /\ refusals = {}
    BY DEF RemediationInit, Created, NoGen
  <2>3. resolved \in BOOLEAN /\ raced \in BOOLEAN
    BY DEF RemediationInit
  <2>4. verdict \in [Gens -> Verdicts]
    BY <2>2 DEF Verdicts
  <2> QED BY <2>1, <2>2, <2>3, <2>4 DEF RemediationTypeOK
<1>2. reopened <= wall
  BY DEF RemediationInit, Created
<1>3. \A v \in Reviewers : RequestHolds(v)
  BY DEF RemediationInit, RequestHolds
<1>4. ReceiptsFirst /\ RetestsStand
  BY DEF RemediationInit, ReceiptsFirst, RetestsStand
<1>5. NobodyBehind /\ RegressionReopens
  BY DEF RemediationInit, NobodyBehind, RegressionReopens
<1> QED BY <1>1, <1>2, <1>3, <1>4, <1>5 DEF RemediationInv

\* Whoever holds the row is the only one at work, and nobody is while the row is free.
LEMMA OneAtWork ==
  ASSUME RemediationInv, NEW v \in Reviewers, rowLock = v \/ rowLock = Unheld
  PROVE  \A r \in Reviewers \ {v} : verify[r] = "idle"
<1>1. Unheld \notin Reviewers
  BY RemediationConstants DEF Unheld
<1> QED BY <1>1 DEF RemediationInv, RequestHolds

\* A request that ends leaves nobody at work.
LEMMA EndedLeavesNobody ==
  ASSUME RemediationInv, NEW v \in Reviewers, verify[v] # "idle", End(v)
  PROVE  /\ rowLock' \in Reviewers \cup {Unheld} /\ verify' \in [Reviewers -> {"idle", "noted", "pinned"}]
         /\ noted' \in [Reviewers -> 0..MaxClock] /\ pin' \in [Reviewers -> 0..MaxGens]
         /\ \A r \in Reviewers : RequestHolds(r)'
         /\ \A r \in Reviewers : pin'[r] = NoGen
<1>1. rowLock = v
  BY DEF RemediationInv, RequestHolds
<1>2. \A r \in Reviewers \ {v} : verify[r] = "idle" /\ pin[r] = NoGen
  BY <1>1, OneAtWork DEF RemediationInv, RequestHolds
<1>3. \A r \in Reviewers : verify'[r] = "idle" /\ pin'[r] = NoGen
  BY <1>2 DEF RemediationInv, RemediationTypeOK, End
<1>4. \A r \in Reviewers : RequestHolds(r)'
  BY <1>3 DEF RequestHolds
<1>5. 0 \in 0..MaxClock /\ 0 \in 0..MaxGens
  BY BoundsAreNumbers
<1> QED BY <1>3, <1>4, <1>5 DEF RemediationInv, RemediationTypeOK, End, NoGen

\* Every action keeps the invariant.
LEMMA RemediationInvStep == RemediationInv /\ [RemediationNext]_remediationVars => RemediationInv'
<1> SUFFICES ASSUME RemediationInv, [RemediationNext]_remediationVars PROVE RemediationInv'
  OBVIOUS
<1>t. /\ RemediationTypeOK /\ reopened <= wall /\ (\A v \in Reviewers : RequestHolds(v))
      /\ ReceiptsFirst /\ RetestsStand /\ NobodyBehind /\ RegressionReopens
  BY DEF RemediationInv
<1>n. /\ wall \in 1..MaxClock /\ newest \in 0..MaxGens /\ reopened \in 0..MaxClock
      /\ MaxClock \in Nat /\ MaxGens \in Nat
      /\ \A v \in Reviewers : noted[v] \in 0..MaxClock /\ pin[v] \in 0..MaxGens
  BY <1>t, BoundsAreNumbers DEF RemediationTypeOK, Moments
<1>1. ASSUME NEW outcome \in Verdicts, NEW time \in Moments, Flip(outcome, time) PROVE RemediationInv'
  <2>1. newest' = newest + 1 /\ newest + 1 \in Gens /\ time \in 0..MaxClock
    BY <1>1, <1>n DEF Flip, Gens, Moments
  <2>2. RemediationTypeOK'
    <3>1. newest' \in 0..MaxGens
      BY <2>1, <1>n DEF Gens
    <3>2. verdict' \in [Gens -> Verdicts]
      BY <1>1, <1>t DEF Flip, RemediationTypeOK
    <3>3. observed' \in [Gens -> 0..MaxClock]
      BY <1>1, <2>1, <1>t DEF Flip, RemediationTypeOK
    <3> QED BY <1>1, <3>1, <3>2, <3>3, <1>t DEF Flip, RemediationTypeOK
  <2>3. ASSUME NEW g \in 1..newest
        PROVE  g \in 1..newest' /\ g \in Gens /\ verdict'[g] = verdict[g] /\ observed'[g] = observed[g]
    <3>1. g # newest + 1 /\ g \in Gens /\ g \in 1..newest'
      BY <2>1, <1>n DEF Gens
    <3> QED BY <1>1, <3>1, <1>t DEF Flip, RemediationTypeOK
  <2>4. RetestsStand'
    BY <1>1, <2>3, <1>t DEF Flip, RetestsStand
  <2>5. ASSUME NEW v \in Reviewers PROVE RequestHolds(v)'
    BY <1>1, <2>3, <1>t DEF Flip, RequestHolds
  <2>6. NobodyBehind' /\ RegressionReopens' /\ ReceiptsFirst'
    BY <1>1, <1>t DEF Flip, NobodyBehind, RegressionReopens, ReceiptsFirst
  <2> QED BY <1>1, <2>2, <2>4, <2>5, <2>6, <1>t DEF Flip, RemediationInv
<1>2. CASE SelectRegressed
  <2>1. RemediationTypeOK'
    <3>1. publisher' \in {"idle", "flipped", "selected"}
      BY <1>2 DEF SelectRegressed
    <3>2. raced' \in BOOLEAN
      BY <1>2 DEF SelectRegressed
    <3> QED BY <1>2, <3>1, <3>2, <1>t DEF SelectRegressed, RemediationTypeOK
  <2>2. RetestsStand' /\ \A v \in Reviewers : RequestHolds(v)'
    BY <1>2, <1>t DEF SelectRegressed, RetestsStand, RequestHolds
  <2>3. ReceiptsFirst'
    BY <1>2, <1>t DEF SelectRegressed, Regressed, ReceiptsFirst
  <2>4. NobodyBehind'
    BY <1>2 DEF SelectRegressed, NobodyBehind
  <2>5. RegressionReopens'
    BY <1>2 DEF SelectRegressed, Regressed, RegressionReopens
  <2> QED BY <1>2, <2>1, <2>2, <2>3, <2>4, <2>5, <1>t DEF SelectRegressed, RemediationInv
<1>3. CASE Reopen
  <2>1. \A v \in Reviewers : verify[v] = "idle"
    BY <1>3, <1>t, RemediationConstants DEF Reopen, RequestHolds, Unheld
  <2>2. RemediationTypeOK' /\ reopened' <= wall'
    <3>1. reopened' \in 0..MaxClock /\ updated' \in Moments /\ reopened' <= wall'
      BY <1>3, <1>n DEF Reopen, Moments
    <3>2. resolved' \in BOOLEAN
      BY <1>3 DEF Reopen
    <3> QED BY <1>3, <3>1, <3>2, <1>t DEF Reopen, RemediationTypeOK
  <2>3. RetestsStand' /\ ReceiptsFirst'
    BY <1>3, <1>t DEF Reopen, RetestsStand, ReceiptsFirst
  <2>4. ASSUME NEW v \in Reviewers PROVE RequestHolds(v)'
    BY <1>3, <2>1, <1>t DEF Reopen, RequestHolds
  <2>5. NobodyBehind' /\ RegressionReopens'
    BY <1>3, <1>t DEF Reopen, NobodyBehind, RegressionReopens
  <2> QED BY <2>2, <2>3, <2>4, <2>5 DEF RemediationInv
<1>4. CASE FailReconciliation
  <2>1. RemediationTypeOK'
    BY <1>4, <1>t DEF FailReconciliation, RemediationTypeOK
  <2>2. RetestsStand' /\ ReceiptsFirst' /\ \A v \in Reviewers : RequestHolds(v)'
    BY <1>4, <1>t DEF FailReconciliation, RetestsStand, ReceiptsFirst, RequestHolds
  <2>3. NobodyBehind' /\ RegressionReopens'
    BY <1>4 DEF FailReconciliation, NobodyBehind, RegressionReopens
  <2> QED BY <1>4, <2>1, <2>2, <2>3, <1>t DEF FailReconciliation, RemediationInv
<1>5. ASSUME NEW back \in BOOLEAN, Edit(back) PROVE RemediationInv'
  <2>1. \A v \in Reviewers : verify[v] = "idle"
    BY <1>5, <1>t, RemediationConstants DEF Edit, RequestHolds, Unheld
  <2>2. reopened' \in 0..MaxClock /\ reopened' <= wall' /\ updated' \in Moments
    BY <1>5, <1>t, <1>n DEF Edit, Moments
  <2>3. resolved' \in BOOLEAN /\ (resolved' => resolved)
    BY <1>5, <1>t DEF Edit, RemediationTypeOK
  <2>4. RemediationTypeOK'
    BY <1>5, <2>2, <2>3, <1>t DEF Edit, RemediationTypeOK
  <2>5. RetestsStand' /\ ReceiptsFirst'
    BY <1>5, <2>3, <1>t DEF Edit, RetestsStand, ReceiptsFirst
  <2>6. ASSUME NEW v \in Reviewers PROVE RequestHolds(v)'
    BY <1>5, <2>1, <1>t DEF Edit, RequestHolds
  <2>7. NobodyBehind' /\ RegressionReopens'
    BY <1>5, <2>3, <1>t DEF Edit, NobodyBehind, RegressionReopens
  <2> QED BY <2>2, <2>4, <2>5, <2>6, <2>7 DEF RemediationInv
<1>6. ASSUME NEW v \in Reviewers, BeginVerify(v) PROVE RemediationInv'
  <2>1. RemediationTypeOK'
    BY <1>6, <1>t, <1>n DEF BeginVerify, RemediationTypeOK
  <2>2. /\ verify'[v] = "noted" /\ noted'[v] = wall /\ pin' = pin /\ pin[v] = NoGen
        /\ \A r \in Reviewers \ {v} : verify'[r] = "idle" /\ pin[r] = NoGen
    BY <1>6, <1>t, OneAtWork DEF BeginVerify, RemediationTypeOK, RequestHolds
  <2>3. \A r \in Reviewers : RequestHolds(r)'
    BY <1>6, <2>2, <1>t, <1>n DEF BeginVerify, RequestHolds
  <2>4. RetestsStand' /\ ReceiptsFirst' /\ NobodyBehind' /\ RegressionReopens'
    BY <1>6, <1>t DEF BeginVerify, RetestsStand, ReceiptsFirst, NobodyBehind, RegressionReopens
  <2> QED BY <1>6, <2>1, <2>3, <2>4, <1>t DEF BeginVerify, RemediationInv
<1>7. ASSUME NEW v \in Reviewers, Pin(v) PROVE RemediationInv'
  <2>1. RemediationTypeOK'
    BY <1>7, <1>t, <1>n DEF Pin, RemediationTypeOK
  <2>2. newest \in 1..newest
    BY <1>7, <1>n DEF Pin, NoGen
  <2>3. /\ verify'[v] = "pinned" /\ pin'[v] = newest
        /\ \A r \in Reviewers \ {v} : verify'[r] = verify[r] /\ pin'[r] = pin[r]
    BY <1>7, <1>t DEF Pin, RemediationTypeOK
  <2>4. \A r \in Reviewers : RequestHolds(r)'
    BY <1>7, <2>2, <2>3, <1>t DEF Pin, RequestHolds
  <2>5. RetestsStand' /\ ReceiptsFirst' /\ RegressionReopens'
    BY <1>7, <1>t DEF Pin, RetestsStand, ReceiptsFirst, RegressionReopens
  <2>6. NobodyBehind'
    BY <1>7, <2>3, <1>t DEF Pin, NobodyBehind
  <2> QED BY <1>7, <2>1, <2>4, <2>5, <2>6, <1>t DEF Pin, RemediationInv
<1>8. ASSUME NEW v \in Reviewers, Resolve(v) PROVE RemediationInv'
  <2>1. /\ verify[v] = "pinned" /\ pin[v] \in 1..newest /\ verdict[pin[v]] = "pass" /\ rowLock = v /\ End(v)
        /\ noted[v] >= reopened
    BY <1>8, <1>t DEF Resolve, Retestable, RequestHolds
  <2>2. pin[v] \in Gens /\ observed[pin[v]] \in 0..MaxClock
    BY <2>1, <1>n, <1>t DEF Gens, RemediationTypeOK
  <2>3. reopened <= Threshold(v) /\ Threshold(v) \in 0..MaxClock
    BY <2>1, <1>t, <1>n, BoundsAreNumbers DEF Threshold, Created, ReceiptsFirst
  <2>4. observed[pin[v]] > reopened
    BY <1>8, <2>2, <2>3, <1>n DEF Resolve, Fresh
  <2> DEFINE receipt == [gen |-> pin[v], after |-> reopened]
  <2>5. receipt \in [gen : Gens, after : 0..MaxClock] /\ receipt.gen = pin[v] /\ receipt.after = reopened
    BY <2>2, <1>n
  <2>6. retests' = retests \cup {receipt} /\ receipts' = receipts \cup {pin[v]} /\ resolved' = TRUE
    BY <1>8 DEF Resolve
  <2>7. RemediationTypeOK'
    <3>1. resolved' \in BOOLEAN /\ retests' \subseteq [gen : Gens, after : 0..MaxClock]
      BY <2>5, <2>6, <1>t DEF RemediationTypeOK
    <3>2. receipts' \subseteq Gens /\ updated' \in Moments
      BY <1>8, <2>2, <2>6, <1>t DEF Resolve, RemediationTypeOK
    <3> QED BY <1>8, <2>1, <3>1, <3>2, <1>t, EndedLeavesNobody DEF Resolve, RemediationTypeOK
  <2>8. RetestsStand'
    <3> HIDE DEF receipt
    <3> QED BY <1>8, <2>1, <2>4, <2>5, <2>6, <1>t DEF Resolve, RetestsStand
  <2>9. (\A r \in Reviewers : RequestHolds(r)') /\ NobodyBehind'
    BY <2>1, EndedLeavesNobody DEF NobodyBehind
  <2>10. ReceiptsFirst'
    BY <2>6 DEF ReceiptsFirst
  <2>11. RegressionReopens'
    <3> SUFFICES ASSUME publisher = "idle", newest # NoGen, verdict[newest] = "fail", ~raced PROVE FALSE
      BY <1>8 DEF Resolve, RegressionReopens
    <3>1. pin[v] \in {NoGen, newest}
      BY <1>t DEF NobodyBehind
    <3> QED BY <3>1, <2>1, <1>n DEF NoGen
  <2> QED BY <1>8, <2>7, <2>8, <2>9, <2>10, <2>11, <1>t DEF Resolve, RemediationInv
<1>9. ASSUME NEW v \in Reviewers, Refuse(v) PROVE RemediationInv'
  <2>1. verify[v] # "idle" /\ End(v)
    BY <1>9 DEF Refuse
  <2>2. refusals' \subseteq [gen : Gens, updated : Moments]
    <3>1. verify[v] = "pinned" => pin[v] \in Gens
      BY <1>t, <1>n DEF RequestHolds, Gens
    <3> QED BY <1>9, <3>1, <1>t DEF Refuse, RemediationTypeOK
  <2>3. RemediationTypeOK'
    BY <1>9, <2>1, <2>2, <1>t, EndedLeavesNobody DEF Refuse, RemediationTypeOK
  <2>4. (\A r \in Reviewers : RequestHolds(r)') /\ NobodyBehind'
    BY <2>1, EndedLeavesNobody DEF NobodyBehind
  <2>5. RetestsStand' /\ ReceiptsFirst' /\ RegressionReopens'
    BY <1>9, <1>t DEF Refuse, RetestsStand, ReceiptsFirst, RegressionReopens
  <2> QED BY <1>9, <2>3, <2>4, <2>5, <1>t DEF Refuse, RemediationInv
<1>10. CASE Elapse
  <2>1. wall' \in Moments /\ reopened' <= wall'
    BY <1>10, <1>n, <1>t DEF Elapse, Moments
  <2>2. RemediationTypeOK'
    BY <1>10, <2>1, <1>t DEF Elapse, RemediationTypeOK
  <2>3. \A r \in Reviewers : RequestHolds(r)'
    BY <1>10, <1>t DEF Elapse, RequestHolds
  <2>4. RetestsStand' /\ ReceiptsFirst' /\ NobodyBehind' /\ RegressionReopens'
    BY <1>10, <1>t DEF Elapse, RetestsStand, ReceiptsFirst, NobodyBehind, RegressionReopens
  <2> QED BY <2>1, <2>2, <2>3, <2>4 DEF RemediationInv
<1>11. ASSUME NEW v \in Reviewers, Abandon(v) PROVE RemediationInv'
  <2>1. verify[v] # "idle" /\ End(v)
    BY <1>11 DEF Abandon
  <2>2. RemediationTypeOK'
    BY <1>11, <2>1, <1>t, EndedLeavesNobody DEF Abandon, RemediationTypeOK
  <2>3. (\A r \in Reviewers : RequestHolds(r)') /\ NobodyBehind'
    BY <2>1, EndedLeavesNobody DEF NobodyBehind
  <2>4. RetestsStand' /\ ReceiptsFirst' /\ RegressionReopens'
    BY <1>11, <1>t DEF Abandon, RetestsStand, ReceiptsFirst, RegressionReopens
  <2> QED BY <1>11, <2>2, <2>3, <2>4, <1>t DEF Abandon, RemediationInv
<1>12. CASE UNCHANGED remediationVars
  BY <1>12, <1>t DEF remediationVars, RemediationInv, RemediationTypeOK, RequestHolds, ReceiptsFirst, RetestsStand,
                     NobodyBehind, RegressionReopens
<1> QED
  BY <1>1, <1>2, <1>3, <1>4, <1>5, <1>6, <1>7, <1>8, <1>9, <1>10, <1>11, <1>12 DEF RemediationNext

--------------------------------------------------------------------------------
(* Theorems *)

\* Row, requests, receipts and generations agree in every reachable state.
THEOREM RemediationInvariant == RemediationSpec => []RemediationInv
<1> QED BY RemediationInvInit, RemediationInvStep, PTL DEF RemediationSpec

\* The clock, generations, task and requests keep their types.
THEOREM RemediationTypesHold == RemediationSpec => []RemediationTypeOK
<1>1. RemediationInv => RemediationTypeOK
  BY DEF RemediationInv
<1> QED BY <1>1, RemediationInvariant, PTL

\* Every receipt verify_task gives after a reopening rests on evidence observed after it.
THEOREM RetestsAreNewerHolds == RemediationSpec => []RetestsAreNewer
<1>1. RemediationInv => RetestsAreNewer
  BY DEF RemediationInv, RetestsStand, RetestsAreNewer
<1> QED BY <1>1, RemediationInvariant, PTL

\* Once reconcile_published_tasks has gone through a failing generation, the task is not
\* resolved, but for the two races the property names.
THEOREM RegressionReopensHolds == RemediationSpec => []RegressionReopens
<1>1. RemediationInv => RegressionReopens
  BY DEF RemediationInv
<1> QED BY <1>1, RemediationInvariant, PTL
================================================================================
