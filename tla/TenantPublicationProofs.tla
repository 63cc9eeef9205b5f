------------------------ MODULE TenantPublicationProofs ------------------------
(***************************************************************************)
(* Safety of publication for every number of writers, publishers, leases    *)
(* and clock moments.                                                       *)
(***************************************************************************)
EXTENDS TenantPublication, TLAPS

\* The content of a version; version 0 is the empty lake.
Content(v) == IF v = 0 THEN {} ELSE revisions[v]

\* Runs of the schedule target that happened, or whose attempt is recorded and will.
Attempts == fired \cup {<<moment[w], lease[w]>> : w \in {v \in Writers : pc[v] = "recorded"}}

--------------------------------------------------------------------------------
(* The inductive invariant, by the part of the state it constrains *)

\* A lease was granted to one writer only; the owner is the last one granted.
LeasesAgree ==
  /\ owner \in {NoLease, fence}
  /\ owner = NoLease => ~live
  /\ \A w \in Writers : lease[w] <= fence
  /\ \A w \in Writers : lease[w] # NoLease <=> pc[w] # "idle"
  /\ \A v, w \in Writers : lease[v] = lease[w] /\ lease[v] # NoLease => v = w
  /\ \A w \in Writers : pc[w] \in Active => lease[w] \notin domain
  /\ \A f \in Fences : f \in domain => f <= fence

\* A private copy is the revision it was made from, with its own transaction's changes.
CopiesAgree ==
  /\ \A w \in Writers : pc[w] \notin {"idle", "acquired", "release"} => base[w] # NotRead
  /\ \A p \in Writers \cup Publishers : base[p] # NotRead => base[p] <= Version
  /\ \A w \in Writers : base[w] # NotRead =>
       local[w] \in {Content(base[w]), Content(base[w]) \cup {lease[w]}}
  /\ \A p \in Publishers : base[p] # NotRead => local[p] = Content(base[p]) \cup {p}
  /\ \A p \in Publishers : p \in domain => base[p] # NotRead /\ base[p] < Version

\* Revisions grow, and hold only committed transactions.
HistoryAgrees ==
  /\ NoLostUpdate
  /\ \A i \in 1..Version : revisions[i] \subseteq domain

\* Attempts are ordered by lease and moment; the current owner's is due after them all.
AttemptsAgree ==
  /\ \A a \in Attempts : a[1] <= lastFired /\ a[2] <= fence
  /\ \A a, b \in Attempts : a # b => a[2] # b[2] /\ (a[2] < b[2] => a[1] < b[1])
  /\ \A w \in Writers : pc[w] \in {"acquired", "body", "due"} =>
                          \A a \in Attempts : a[2] # lease[w]
  /\ \A w \in Writers : pc[w] = "due" /\ lease[w] = fence => moment[w] > lastFired
  /\ \A w \in Writers : pc[w] \in {"due", "recorded"} => moment[w] \in 1..MaxMoment
  /\ \A w \in Writers : pc[w] = "recorded" => <<moment[w], lease[w]>> \notin fired

IInv == TypeOK /\ LeasesAgree /\ CopiesAgree /\ HistoryAgrees /\ AttemptsAgree


--------------------------------------------------------------------------------
(* Steps *)

\* The head's manifest is the content of its version.
LEMMA ManifestIsLatest ==
  ASSUME TypeOK
  PROVE  Version \in Nat /\ Manifest = Content(Version) /\ Manifest \subseteq Transactions
BY DEF TypeOK, Manifest, Content, Version

\* Writers and publishers are different actors.
LEMMA ActorsDiffer == Writers \cap Publishers = {}
BY ConstantsAssumption

\* A publication adds a revision of the right type.
LEMMA RevisionsType ==
  ASSUME revisions \in Seq(SUBSET Transactions), NEW c \in SUBSET Transactions,
         revisions' = Append(revisions, c)
  PROVE  revisions' \in Seq(SUBSET Transactions)
OBVIOUS

\* A revision on top of the latest one only adds what was just committed.
LEMMA NextRevision ==
  ASSUME TypeOK, HistoryAgrees, NEW t \in Transactions, NEW c,
         c \in {Content(Len(revisions)), Content(Len(revisions)) \cup {t}},
         revisions' = Append(revisions, c), domain' = domain \cup {t}
  PROVE  HistoryAgrees'
<1>1. revisions \in Seq(SUBSET Transactions) /\ Len(revisions) \in Nat
  BY DEF TypeOK
<1>2. Len(revisions') = Len(revisions) + 1 /\ revisions'[Len(revisions) + 1] = c
  BY <1>1
<1>3. \A i \in 1..Len(revisions) : revisions'[i] = revisions[i]
  BY <1>1
<1>4. \A i \in 1..Len(revisions) : revisions[i] \subseteq domain
  BY DEF HistoryAgrees, Version
<1>5. c \subseteq domain \cup {t}
  BY <1>1, <1>4 DEF Content
<1>6. \A i \in 1..Len(revisions) : revisions[i] \subseteq c
  BY <1>1 DEF Content, HistoryAgrees, NoLostUpdate
<1>7. \A i, j \in 1..Len(revisions) : i < j => revisions[i] \subseteq revisions[j]
  BY DEF HistoryAgrees, NoLostUpdate
<1>8. NoLostUpdate'
  <2> SUFFICES ASSUME NEW i \in 1..Len(revisions'), NEW j \in 1..Len(revisions'), i < j
               PROVE  revisions'[i] \subseteq revisions'[j]
    BY DEF NoLostUpdate
  <2> QED
    BY <1>1, <1>2, <1>3, <1>6, <1>7
<1> QED
  BY <1>1, <1>2, <1>3, <1>4, <1>5, <1>8 DEF HistoryAgrees, Version


\* Every step keeps the types.
LEMMA TypeStep == IInv /\ [Next]_vars => TypeOK'
<1> SUFFICES ASSUME IInv, [Next]_vars
             PROVE  TypeOK'
  OBVIOUS
<1> USE ConstantsAssumption DEF IInv, TypeOK, PC, Active, Fences, Transactions, NoLease,
     NotRead, Version, head, writerVars, LeasesAgree, CopiesAgree
<1>1. ASSUME NEW w \in Writers, Acquire(w) PROVE TypeOK'
  BY <1>1 DEF Acquire, Goto
<1>2. ASSUME NEW w \in Writers, ReadHead(w) PROVE TypeOK'
  BY <1>2, ManifestIsLatest DEF ReadHead, Goto
<1>3. ASSUME NEW w \in Writers, EndBody(w) PROVE TypeOK'
  <2>1. lease[w] \in Transactions /\ local \in [Writers \cup Publishers -> SUBSET Transactions]
    BY <1>3 DEF EndBody, Goto
  <2>2. local' = local \/ local' = [local EXCEPT ![w] = @ \cup {lease[w]}]
    BY <1>3 DEF EndBody
  <2>3. local' \in [Writers \cup Publishers -> SUBSET Transactions]
    BY <2>1, <2>2
  <2>4. pc' \in [Writers -> PC]
    BY <1>3 DEF EndBody, Goto
  <2> QED
    BY <1>3, <2>3, <2>4 DEF EndBody
<1>4. ASSUME NEW w \in Writers, Commit(w) PROVE TypeOK'
  <2>1. lease[w] \in Transactions /\ local[w] \in SUBSET Transactions
    BY <1>4 DEF Commit, Goto
  <2>2. revisions' \in Seq(SUBSET Transactions)
    <3>1. revisions' = revisions \/ revisions' = Append(revisions, local[w])
      BY <1>4 DEF Commit
    <3>2. revisions \in Seq(SUBSET Transactions)
      OBVIOUS
    <3> QED
      BY <2>1, <3>1, <3>2, RevisionsType
  <2>3. domain' \subseteq Transactions /\ pc' \in [Writers -> PC]
    BY <1>4, <2>1 DEF Commit, Goto
  <2> QED
    BY <1>4, <2>2, <2>3 DEF Commit
<1>5. ASSUME NEW w \in Writers, Release(w) PROVE TypeOK'
  BY <1>5 DEF Release, Goto, Forget
<1>6. ASSUME NEW w \in Writers, RecordAttempt(w) PROVE TypeOK'
  BY <1>6 DEF RecordAttempt, Goto, Owns, Later
<1>7. ASSUME NEW w \in Writers, Fire(w) PROVE TypeOK'
  <2>1. moment[w] \in 1..MaxMoment /\ lease[w] \in Fences
    BY <1>7 DEF Fire, Goto, AttemptsAgree
  <2>2. fired' \subseteq (1..MaxMoment) \X Fences
    BY <1>7, <2>1 DEF Fire
  <2>3. pc' \in [Writers -> PC]
    BY <1>7 DEF Fire, Goto
  <2> QED
    BY <1>7, <2>2, <2>3 DEF Fire
<1>8. ASSUME NEW w \in Writers, Abort(w) PROVE TypeOK'
  BY <1>8 DEF Abort, Goto
<1>9. ASSUME NEW w \in Writers, Vanish(w) PROVE TypeOK'
  BY <1>9 DEF Vanish, Goto, Forget
<1>10. ASSUME NEW w \in Writers, HeartbeatLost(w) PROVE TypeOK'
  BY <1>10 DEF HeartbeatLost
<1>11. ASSUME NEW w \in Writers, ReadSchedule(w) PROVE TypeOK'
  BY <1>11 DEF ReadSchedule, Goto, Due
<1>12. CASE LeaseExpires
  BY <1>12 DEF LeaseExpires
<1>13. ASSUME NEW p \in Publishers, OptimisticRead(p) PROVE TypeOK'
  BY <1>13, ManifestIsLatest DEF OptimisticRead
<1>14. ASSUME NEW p \in Publishers, OptimisticPublish(p) PROVE TypeOK'
  <2>1. p \in Transactions /\ local[p] \in SUBSET Transactions
    OBVIOUS
  <2>2. revisions' \in Seq(SUBSET Transactions)
    <3>1. revisions' = Append(revisions, local[p]) /\ revisions \in Seq(SUBSET Transactions)
      BY <1>14 DEF OptimisticPublish
    <3> QED
      BY <2>1, <3>1
  <2> QED
    BY <1>14, <2>1, <2>2 DEF OptimisticPublish
<1>15. CASE UNCHANGED vars
  BY <1>15 DEF vars
<1> QED
  BY <1>1, <1>2, <1>3, <1>4, <1>5, <1>6, <1>7, <1>8, <1>9, <1>10, <1>11, <1>12, <1>13,
     <1>14, <1>15
     DEF Next, WriterStep

\* Every step leaves a lease with the writer it was granted to.
LEMMA LeasesStep == IInv /\ [Next]_vars => LeasesAgree'
<1> SUFFICES ASSUME IInv, [Next]_vars
             PROVE  LeasesAgree'
  OBVIOUS
<1> USE ConstantsAssumption DEF IInv, TypeOK, PC, Active, Fences, Transactions, NoLease,
     NotRead, Version, head, writerVars, LeasesAgree, CopiesAgree
<1>1. ASSUME NEW w \in Writers, Acquire(w) PROVE LeasesAgree'
  BY <1>1 DEF Acquire, Goto
<1>2. ASSUME NEW w \in Writers, ReadHead(w) PROVE LeasesAgree'
  BY <1>2 DEF ReadHead, Goto
<1>3. ASSUME NEW w \in Writers, EndBody(w) PROVE LeasesAgree'
  BY <1>3 DEF EndBody, Goto
<1>4. ASSUME NEW w \in Writers, Commit(w) PROVE LeasesAgree'
  BY <1>4 DEF Commit, Goto, Owns
<1>5. ASSUME NEW w \in Writers, Release(w) PROVE LeasesAgree'
  <2>1. lease' = [lease EXCEPT ![w] = NoLease] /\ pc' = [pc EXCEPT ![w] = "idle"]
    BY <1>5 DEF Release, Goto, Forget
  <2>2. owner' \in {NoLease, owner} /\ (owner' = NoLease => ~live')
    BY <1>5 DEF Release
  <2>3. UNCHANGED <<fence, domain>>
    BY <1>5 DEF Release
  <2> QED
    BY <2>1, <2>2, <2>3
<1>6. ASSUME NEW w \in Writers, RecordAttempt(w) PROVE LeasesAgree'
  BY <1>6 DEF RecordAttempt, Goto, Owns, Later
<1>7. ASSUME NEW w \in Writers, Fire(w) PROVE LeasesAgree'
  BY <1>7 DEF Fire, Goto
<1>8. ASSUME NEW w \in Writers, Abort(w) PROVE LeasesAgree'
  BY <1>8 DEF Abort, Goto
<1>9. ASSUME NEW w \in Writers, Vanish(w) PROVE LeasesAgree'
  BY <1>9 DEF Vanish, Goto, Forget
<1>10. ASSUME NEW w \in Writers, HeartbeatLost(w) PROVE LeasesAgree'
  BY <1>10 DEF HeartbeatLost
<1>11. ASSUME NEW w \in Writers, ReadSchedule(w) PROVE LeasesAgree'
  BY <1>11 DEF ReadSchedule, Goto, Due
<1>12. CASE LeaseExpires
  BY <1>12 DEF LeaseExpires
<1>13. ASSUME NEW p \in Publishers, OptimisticRead(p) PROVE LeasesAgree'
  BY <1>13 DEF OptimisticRead
<1>14. ASSUME NEW p \in Publishers, OptimisticPublish(p) PROVE LeasesAgree'
  BY <1>14 DEF OptimisticPublish
<1>15. CASE UNCHANGED vars
  BY <1>15 DEF vars
<1> QED
  BY <1>1, <1>2, <1>3, <1>4, <1>5, <1>6, <1>7, <1>8, <1>9, <1>10, <1>11, <1>12, <1>13,
     <1>14, <1>15
     DEF Next, WriterStep

\* Every step keeps private copies based on the revision they were read from.
LEMMA CopiesStep == IInv /\ [Next]_vars => CopiesAgree'
<1> SUFFICES ASSUME IInv, [Next]_vars
             PROVE  CopiesAgree'
  OBVIOUS
<1> USE ConstantsAssumption DEF IInv, TypeOK, PC, Active, Fences, Transactions, NoLease,
     NotRead, Version, head, writerVars, LeasesAgree, CopiesAgree, Content
<1>1. ASSUME NEW w \in Writers, Acquire(w) PROVE CopiesAgree'
  BY <1>1 DEF Acquire, Goto
<1>2. ASSUME NEW w \in Writers, ReadHead(w) PROVE CopiesAgree'
  <2>1. pc' = [pc EXCEPT ![w] = "body"] /\ base' = [base EXCEPT ![w] = Len(revisions)]
    BY <1>2 DEF ReadHead, Goto
  <2>2. local' = [local EXCEPT ![w] = Manifest] /\ UNCHANGED <<revisions, lease, domain>>
    BY <1>2 DEF ReadHead
  <2>3. Len(revisions) \in Nat /\ Manifest = Content(Len(revisions))
    BY ManifestIsLatest, ActorsDiffer
  <2>4. \A v : Content(v)' = Content(v)
    BY <2>2
  <2>5. w \notin Publishers
    BY ActorsDiffer
  <2>6. \A q \in (Writers \cup Publishers) \ {w} : local'[q] = local[q] /\ base'[q] = base[q]
    BY <2>1, <2>2
  <2>7. base'[w] = Len(revisions) /\ local'[w] = Content(Len(revisions)) /\ pc'[w] = "body"
    BY <2>1, <2>2, <2>3
  <2>8. \A v \in Writers \ {w} : pc'[v] = pc[v] /\ lease'[v] = lease[v]
    BY <2>1, <2>2
  <2>a. \A q \in Writers \cup Publishers : base[q] # NotRead => base[q] <= Len(revisions)
    OBVIOUS
  <2>b. \A v \in Writers : pc[v] \notin {"idle", "acquired", "release"} => base[v] # NotRead
    OBVIOUS
  <2>c. /\ \A q \in Publishers : base[q] # NotRead => local[q] = Content(base[q]) \cup {q}
        /\ \A q \in Publishers : q \in domain => base[q] # NotRead /\ base[q] < Len(revisions)
    OBVIOUS
  <2>9. \A v \in Writers : base'[v] # NotRead =>
          local'[v] \in {Content(base'[v]), Content(base'[v]) \cup {lease'[v]}}
    BY <2>6, <2>7, <2>8
  <2>10. \A q \in Publishers : base'[q] = base[q] /\ local'[q] = local[q]
    BY <2>5, <2>6
  <2> HIDE DEF IInv, TypeOK, LeasesAgree, CopiesAgree
  <2>11. \A q \in Writers \cup Publishers : base'[q] # NotRead => base'[q] <= Len(revisions)
    BY <2>3, <2>6, <2>7, <2>a
  <2>12. \A v \in Writers : pc'[v] \notin {"idle", "acquired", "release"} => base'[v] # NotRead
    BY <2>3, <2>6, <2>7, <2>8, <2>b
  <2> QED
    BY <2>2, <2>4, <2>9, <2>10, <2>11, <2>12, <2>c DEF CopiesAgree
<1>3. ASSUME NEW w \in Writers, EndBody(w) PROVE CopiesAgree'
  <2>1. pc' = [pc EXCEPT ![w] = "commit"] /\ pc[w] \in {"body", "ran"}
    BY <1>3 DEF EndBody, Goto
  <2>2. UNCHANGED <<revisions, lease, base, domain>>
    BY <1>3 DEF EndBody
  <2>3. local' = [local EXCEPT ![w] = @ \cup {lease[w]}] \/ local' = local
    BY <1>3 DEF EndBody
  <2>4. \A v : Content(v)' = Content(v)
    BY <2>2
  <2>5. local'[w] \in {Content(base[w]), Content(base[w]) \cup {lease[w]}}
    <3>1. local[w] \in {Content(base[w]), Content(base[w]) \cup {lease[w]}}
      BY <2>1
    <3>2. local'[w] \in {local[w], local[w] \cup {lease[w]}}
      BY <2>3
    <3> QED
      BY <3>1, <3>2
  <2>6. \A q \in (Writers \cup Publishers) \ {w} : local'[q] = local[q]
    BY <2>3
  <2>7. w \notin Publishers
    BY ActorsDiffer
  <2>8. \A v \in Writers : base'[v] # NotRead =>
          local'[v] \in {Content(base[v]), Content(base[v]) \cup {lease[v]}}
    BY <2>2, <2>5, <2>6
  <2>9. \A q \in Publishers : base'[q] # NotRead => local'[q] = Content(base[q]) \cup {q}
    BY <2>2, <2>6, <2>7
  <2> QED
    BY <2>1, <2>2, <2>4, <2>8, <2>9
<1>4. ASSUME NEW w \in Writers, Commit(w) PROVE CopiesAgree'
  BY <1>4 DEF Commit, Goto, Owns
<1>5. ASSUME NEW w \in Writers, Release(w) PROVE CopiesAgree'
  <2>1. pc' = [pc EXCEPT ![w] = "idle"] /\ lease' = [lease EXCEPT ![w] = NoLease]
    BY <1>5 DEF Release, Goto, Forget
  <2>2. base' = [base EXCEPT ![w] = NotRead] /\ local' = [local EXCEPT ![w] = {}]
    BY <1>5 DEF Release, Forget
  <2>3. UNCHANGED <<revisions, domain>>
    BY <1>5 DEF Release, head
  <2>4. \A v : Content(v)' = Content(v)
    BY <2>3
  <2>5. w \notin Publishers
    BY ActorsDiffer
  <2>6. \A q \in (Writers \cup Publishers) \ {w} : local'[q] = local[q] /\ base'[q] = base[q]
    BY <2>2
  <2>7. base'[w] = NotRead /\ pc'[w] = "idle"
    BY <2>1, <2>2
  <2>8. \A v \in Writers \ {w} : pc'[v] = pc[v] /\ lease'[v] = lease[v]
    BY <2>1
  <2>9. \A v \in Writers : base'[v] # NotRead =>
          local'[v] \in {Content(base[v]), Content(base[v]) \cup {lease[v]}}
            /\ base'[v] = base[v] /\ lease'[v] = lease[v]
    BY <2>6, <2>7, <2>8
  <2>10. \A p \in Publishers : base'[p] = base[p] /\ local'[p] = local[p]
    BY <2>5, <2>6
  <2>11. /\ \A v \in Writers : pc'[v] \notin {"idle", "acquired", "release"} => base'[v] # NotRead
         /\ \A p \in Writers \cup Publishers : base'[p] # NotRead => base'[p] <= Version
    BY <2>6, <2>7, <2>8
  <2> QED
    BY <2>3, <2>4, <2>9, <2>10, <2>11
<1>6. ASSUME NEW w \in Writers, RecordAttempt(w) PROVE CopiesAgree'
  BY <1>6 DEF RecordAttempt, Goto, Owns, Later
<1>7. ASSUME NEW w \in Writers, Fire(w) PROVE CopiesAgree'
  BY <1>7 DEF Fire, Goto
<1>8. ASSUME NEW w \in Writers, Abort(w) PROVE CopiesAgree'
  BY <1>8 DEF Abort, Goto
<1>9. ASSUME NEW w \in Writers, Vanish(w) PROVE CopiesAgree'
  <2>1. pc' = [pc EXCEPT ![w] = "idle"] /\ lease' = [lease EXCEPT ![w] = NoLease]
    BY <1>9 DEF Vanish, Goto, Forget
  <2>2. base' = [base EXCEPT ![w] = NotRead] /\ local' = [local EXCEPT ![w] = {}]
    BY <1>9 DEF Vanish, Forget
  <2>3. UNCHANGED <<revisions, domain>>
    BY <1>9 DEF Vanish, head
  <2>4. \A v : Content(v)' = Content(v)
    BY <2>3
  <2>5. w \notin Publishers
    BY ActorsDiffer
  <2>6. \A q \in (Writers \cup Publishers) \ {w} : local'[q] = local[q] /\ base'[q] = base[q]
    BY <2>2
  <2>7. base'[w] = NotRead /\ pc'[w] = "idle"
    BY <2>1, <2>2
  <2>8. \A v \in Writers \ {w} : pc'[v] = pc[v] /\ lease'[v] = lease[v]
    BY <2>1
  <2>9. \A v \in Writers : base'[v] # NotRead =>
          local'[v] \in {Content(base[v]), Content(base[v]) \cup {lease[v]}}
            /\ base'[v] = base[v] /\ lease'[v] = lease[v]
    BY <2>6, <2>7, <2>8
  <2>10. \A p \in Publishers : base'[p] = base[p] /\ local'[p] = local[p]
    BY <2>5, <2>6
  <2>11. /\ \A v \in Writers : pc'[v] \notin {"idle", "acquired", "release"} => base'[v] # NotRead
         /\ \A p \in Writers \cup Publishers : base'[p] # NotRead => base'[p] <= Version
    BY <2>6, <2>7, <2>8
  <2> QED
    BY <2>3, <2>4, <2>9, <2>10, <2>11
<1>10. ASSUME NEW w \in Writers, HeartbeatLost(w) PROVE CopiesAgree'
  BY <1>10 DEF HeartbeatLost
<1>11. ASSUME NEW w \in Writers, ReadSchedule(w) PROVE CopiesAgree'
  BY <1>11 DEF ReadSchedule, Goto, Due
<1>12. CASE LeaseExpires
  BY <1>12 DEF LeaseExpires
<1>13. ASSUME NEW p \in Publishers, OptimisticRead(p) PROVE CopiesAgree'
  <2>1. base' = [base EXCEPT ![p] = Len(revisions)]
    BY <1>13 DEF OptimisticRead
  <2>2. local' = [local EXCEPT ![p] = Content(Len(revisions)) \cup {p}]
    BY <1>13, ManifestIsLatest DEF OptimisticRead
  <2>3. UNCHANGED <<revisions, lease, domain, pc>> /\ base[p] = NotRead
    BY <1>13 DEF OptimisticRead
  <2>4. Len(revisions) \in Nat /\ p \notin Writers
    BY ManifestIsLatest, ActorsDiffer
  <2>5. \A v : Content(v)' = Content(v)
    BY <2>3
  <2> QED
    BY <2>1, <2>2, <2>3, <2>4, <2>5
<1>14. ASSUME NEW p \in Publishers, OptimisticPublish(p) PROVE CopiesAgree'
  <2>1. base[p] = Len(revisions) /\ revisions' = Append(revisions, local[p])
    BY <1>14 DEF OptimisticPublish
  <2>2. domain' = domain \cup {p} /\ UNCHANGED writerVars
    BY <1>14 DEF OptimisticPublish
  <2>3. Len(revisions) \in Nat /\ Len(revisions') = Len(revisions) + 1
    BY <2>1
  <2>4. \A v \in 0..Len(revisions) : Content(v)' = Content(v)
    BY <2>1
  <2>5. \A q \in Writers \cup Publishers : base[q] # NotRead => base[q] \in 0..Len(revisions)
    BY <2>3
  <2>6. /\ \A w \in Writers : pc[w] \notin {"idle", "acquired", "release"} => base[w] # NotRead
        /\ \A w \in Writers : base[w] # NotRead =>
             local[w] \in {Content(base[w]), Content(base[w]) \cup {lease[w]}}
        /\ \A q \in Publishers : base[q] # NotRead => local[q] = Content(base[q]) \cup {q}
        /\ \A q \in Publishers : q \in domain => base[q] # NotRead /\ base[q] < Len(revisions)
    OBVIOUS
  <2>7. base[p] # NotRead
    BY <1>14 DEF OptimisticPublish
  <2> HIDE DEF IInv, TypeOK, LeasesAgree, CopiesAgree
  <2>8. \A q \in Publishers : q \in domain' => base[q] # NotRead /\ base[q] < Len(revisions')
    BY <2>1, <2>2, <2>3, <2>5, <2>6, <2>7
  <2>9. \A w \in Writers : base[w] # NotRead =>
          local[w] \in {Content(base[w])', Content(base[w])' \cup {lease[w]}}
    BY <2>2, <2>4, <2>5, <2>6
  <2>10. \A q \in Publishers : base[q] # NotRead => local[q] = Content(base[q])' \cup {q}
    BY <2>2, <2>4, <2>5, <2>6
  <2>11. \A q \in Writers \cup Publishers : base[q] # NotRead => base[q] <= Len(revisions')
    BY <2>3, <2>5
  <2> QED
    BY <2>2, <2>6, <2>8, <2>9, <2>10, <2>11 DEF CopiesAgree
<1>15. CASE UNCHANGED vars
  BY <1>15 DEF vars
<1> QED
  BY <1>1, <1>2, <1>3, <1>4, <1>5, <1>6, <1>7, <1>8, <1>9, <1>10, <1>11, <1>12, <1>13,
     <1>14, <1>15
     DEF Next, WriterStep

\* Every step only adds to what is published.
LEMMA HistoryStep == IInv /\ [Next]_vars => HistoryAgrees'
<1> SUFFICES ASSUME IInv, [Next]_vars
             PROVE  HistoryAgrees'
  OBVIOUS
<1> USE ConstantsAssumption DEF IInv, TypeOK, PC, Active, Fences, Transactions, NoLease,
     NotRead, Version, head, writerVars, LeasesAgree, CopiesAgree, HistoryAgrees, NoLostUpdate, Content
<1>1. ASSUME NEW w \in Writers, Acquire(w) PROVE HistoryAgrees'
  BY <1>1 DEF Acquire, Goto
<1>2. ASSUME NEW w \in Writers, ReadHead(w) PROVE HistoryAgrees'
  BY <1>2 DEF ReadHead, Goto
<1>3. ASSUME NEW w \in Writers, EndBody(w) PROVE HistoryAgrees'
  BY <1>3 DEF EndBody, Goto
<1>4. ASSUME NEW w \in Writers, Commit(w) PROVE HistoryAgrees'
  <2>1. local[w] \in {Content(base[w]), Content(base[w]) \cup {lease[w]}}
    BY <1>4 DEF Commit, Goto
  <2>2. base[w] = Len(revisions) /\ domain' = domain \cup {lease[w]}
    BY <1>4 DEF Commit
  <2>3. revisions' = revisions \/ revisions' = Append(revisions, local[w])
    BY <1>4 DEF Commit
  <2>4. CASE revisions' = revisions
    BY <2>2, <2>4
  <2>5. CASE revisions' = Append(revisions, local[w])
    BY <2>1, <2>2, <2>5, NextRevision
  <2> QED
    BY <2>3, <2>4, <2>5
<1>5. ASSUME NEW w \in Writers, Release(w) PROVE HistoryAgrees'
  BY <1>5 DEF Release, Goto, Forget
<1>6. ASSUME NEW w \in Writers, RecordAttempt(w) PROVE HistoryAgrees'
  BY <1>6 DEF RecordAttempt, Goto, Owns, Later
<1>7. ASSUME NEW w \in Writers, Fire(w) PROVE HistoryAgrees'
  BY <1>7 DEF Fire, Goto
<1>8. ASSUME NEW w \in Writers, Abort(w) PROVE HistoryAgrees'
  BY <1>8 DEF Abort, Goto
<1>9. ASSUME NEW w \in Writers, Vanish(w) PROVE HistoryAgrees'
  BY <1>9 DEF Vanish, Goto, Forget
<1>10. ASSUME NEW w \in Writers, HeartbeatLost(w) PROVE HistoryAgrees'
  BY <1>10 DEF HeartbeatLost
<1>11. ASSUME NEW w \in Writers, ReadSchedule(w) PROVE HistoryAgrees'
  BY <1>11 DEF ReadSchedule, Goto, Due
<1>12. CASE LeaseExpires
  BY <1>12 DEF LeaseExpires
<1>13. ASSUME NEW p \in Publishers, OptimisticRead(p) PROVE HistoryAgrees'
  BY <1>13 DEF OptimisticRead
<1>14. ASSUME NEW p \in Publishers, OptimisticPublish(p) PROVE HistoryAgrees'
  <2>1. local[p] = Content(base[p]) \cup {p} /\ p \in Transactions
    BY <1>14 DEF OptimisticPublish
  <2>2. base[p] = Len(revisions) /\ domain' = domain \cup {p}
    BY <1>14 DEF OptimisticPublish
  <2>3. revisions' = Append(revisions, local[p])
    BY <1>14 DEF OptimisticPublish
  <2> QED
    BY <2>1, <2>2, <2>3, NextRevision
<1>15. CASE UNCHANGED vars
  BY <1>15 DEF vars
<1> QED
  BY <1>1, <1>2, <1>3, <1>4, <1>5, <1>6, <1>7, <1>8, <1>9, <1>10, <1>11, <1>12, <1>13,
     <1>14, <1>15
     DEF Next, WriterStep

\* What the attempts say holds after a step that adds none and moves no writer closer
\* to one with another lease or moment.
LEMMA SameAttempts ==
  ASSUME AttemptsAgree, Attempts \subseteq Nat \X Nat, lastFired \in Nat,
         fence \in Nat, fence' \in Nat, fence' >= fence,
         UNCHANGED <<fired, lastFired>>,
         \A v \in Writers : lease[v] \in Nat /\ lease[v] <= fence,
         \A v \in Writers : pc'[v] \in {"due", "recorded"} =>
           pc'[v] = pc[v] /\ moment'[v] = moment[v] /\ lease'[v] = lease[v],
         \A v \in Writers : pc'[v] \in {"acquired", "body"} =>
           \/ pc[v] \in {"acquired", "body"} /\ lease'[v] = lease[v]
           \/ lease'[v] \in Nat /\ lease'[v] > fence
  PROVE  AttemptsAgree'
<1>1. Attempts' \subseteq Attempts
  BY DEF Attempts
<1>2. \A a \in Attempts : a[1] <= lastFired /\ a[2] <= fence
  BY DEF AttemptsAgree
<1>3. \A a \in Attempts' : a[1] <= lastFired' /\ a[2] <= fence'
  <2> SUFFICES ASSUME NEW a \in Attempts' PROVE a[1] <= lastFired' /\ a[2] <= fence'
    OBVIOUS
  <2>1. a[1] <= lastFired /\ a[2] <= fence /\ a[2] \in Nat
    BY <1>1, <1>2
  <2> QED
    BY <2>1
<1>4. \A a, b \in Attempts' : a # b => a[2] # b[2] /\ (a[2] < b[2] => a[1] < b[1])
  BY <1>1 DEF AttemptsAgree
<1>5. \A v \in Writers : pc'[v] \in {"acquired", "body", "due"} =>
        \A a \in Attempts' : a[2] # lease'[v]
  BY <1>1, <1>2 DEF AttemptsAgree
<1>6. \A v \in Writers : pc'[v] = "due" /\ lease'[v] = fence' => moment'[v] > lastFired'
  BY DEF AttemptsAgree
<1>7. \A v \in Writers : pc'[v] \in {"due", "recorded"} => moment'[v] \in 1..MaxMoment
  BY DEF AttemptsAgree
<1>8. \A v \in Writers : pc'[v] = "recorded" => <<moment'[v], lease'[v]>> \notin fired'
  BY DEF AttemptsAgree
<1> QED
  BY <1>3, <1>4, <1>5, <1>6, <1>7, <1>8 DEF AttemptsAgree


\* An attempt is a moment and a lease.
LEMMA AttemptsType ==
  ASSUME TypeOK, AttemptsAgree
  PROVE  Attempts \subseteq Nat \X Nat
<1>1. fired \subseteq Nat \X Nat
  BY ConstantsAssumption DEF TypeOK, Fences
<1>2. \A w \in Writers : lease[w] \in Nat /\ moment[w] \in Nat
  BY ConstantsAssumption DEF TypeOK
<1> QED
  BY <1>1, <1>2 DEF Attempts

\* Every step keeps the attempts of successive leases in order.
LEMMA AttemptsStep == IInv /\ [Next]_vars => AttemptsAgree'
<1> SUFFICES ASSUME IInv, [Next]_vars
             PROVE  AttemptsAgree'
  OBVIOUS
<1>a. /\ fence \in Nat /\ lastFired \in Nat
      /\ pc \in [Writers -> PC] /\ lease \in [Writers -> Nat] /\ moment \in [Writers -> Nat]
      /\ \A w \in Writers : moment[w] <= MaxMoment
  BY ConstantsAssumption DEF IInv, TypeOK
<1>b. Attempts \subseteq Nat \X Nat
  BY AttemptsType DEF IInv
<1>c. AttemptsAgree
  BY DEF IInv
<1>d. /\ \A v \in Writers : lease[v] <= fence
      /\ \A u, v \in Writers : lease[u] = lease[v] /\ pc[u] # "idle" => u = v
  BY DEF IInv, LeasesAgree
<1>1. ASSUME NEW w \in Writers, Acquire(w) PROVE AttemptsAgree'
  <2>1. UNCHANGED <<fired, lastFired>> /\ fence' \in Nat /\ fence' >= fence
    BY <1>1, <1>a DEF Acquire, Goto
  <2>2. \A v \in Writers : pc'[v] \in {"due", "recorded"} =>
          pc'[v] = pc[v] /\ moment'[v] = moment[v] /\ lease'[v] = lease[v]
    BY <1>1, <1>a DEF Acquire, Goto
  <2>3. \A v \in Writers : pc'[v] \in {"acquired", "body"} =>
          \/ pc[v] \in {"acquired", "body"} /\ lease'[v] = lease[v]
          \/ lease'[v] \in Nat /\ lease'[v] > fence
    BY <1>1, <1>a DEF Acquire, Goto
  <2> QED
    BY <1>a, <1>b, <1>c, <1>d, <2>1, <2>2, <2>3, SameAttempts
<1>2. ASSUME NEW w \in Writers, ReadHead(w) PROVE AttemptsAgree'
  <2>1. UNCHANGED <<fired, lastFired>> /\ fence' \in Nat /\ fence' >= fence
    BY <1>2, <1>a DEF ReadHead, Goto, head
  <2>2. \A v \in Writers : pc'[v] \in {"due", "recorded"} =>
          pc'[v] = pc[v] /\ moment'[v] = moment[v] /\ lease'[v] = lease[v]
    BY <1>2, <1>a DEF ReadHead, Goto, head
  <2>3. \A v \in Writers : pc'[v] \in {"acquired", "body"} =>
          \/ pc[v] \in {"acquired", "body"} /\ lease'[v] = lease[v]
          \/ lease'[v] \in Nat /\ lease'[v] > fence
    BY <1>2, <1>a DEF ReadHead, Goto, head
  <2> QED
    BY <1>a, <1>b, <1>c, <1>d, <2>1, <2>2, <2>3, SameAttempts
<1>3. ASSUME NEW w \in Writers, EndBody(w) PROVE AttemptsAgree'
  <2>1. UNCHANGED <<fired, lastFired>> /\ fence' \in Nat /\ fence' >= fence
    BY <1>3, <1>a DEF EndBody, Goto, head
  <2>2. \A v \in Writers : pc'[v] \in {"due", "recorded"} =>
          pc'[v] = pc[v] /\ moment'[v] = moment[v] /\ lease'[v] = lease[v]
    BY <1>3, <1>a DEF EndBody, Goto, head
  <2>3. \A v \in Writers : pc'[v] \in {"acquired", "body"} =>
          \/ pc[v] \in {"acquired", "body"} /\ lease'[v] = lease[v]
          \/ lease'[v] \in Nat /\ lease'[v] > fence
    BY <1>3, <1>a DEF EndBody, Goto, head
  <2> QED
    BY <1>a, <1>b, <1>c, <1>d, <2>1, <2>2, <2>3, SameAttempts
<1>4. ASSUME NEW w \in Writers, Commit(w) PROVE AttemptsAgree'
  <2>1. UNCHANGED <<fired, lastFired>> /\ fence' \in Nat /\ fence' >= fence
    BY <1>4, <1>a DEF Commit, Goto
  <2>2. \A v \in Writers : pc'[v] \in {"due", "recorded"} =>
          pc'[v] = pc[v] /\ moment'[v] = moment[v] /\ lease'[v] = lease[v]
    BY <1>4, <1>a DEF Commit, Goto
  <2>3. \A v \in Writers : pc'[v] \in {"acquired", "body"} =>
          \/ pc[v] \in {"acquired", "body"} /\ lease'[v] = lease[v]
          \/ lease'[v] \in Nat /\ lease'[v] > fence
    BY <1>4, <1>a DEF Commit, Goto
  <2> QED
    BY <1>a, <1>b, <1>c, <1>d, <2>1, <2>2, <2>3, SameAttempts
<1>5. ASSUME NEW w \in Writers, Release(w) PROVE AttemptsAgree'
  <2>1. UNCHANGED <<fired, lastFired>> /\ fence' \in Nat /\ fence' >= fence
    BY <1>5, <1>a DEF Release, Goto, Forget
  <2>2. \A v \in Writers : pc'[v] \in {"due", "recorded"} =>
          pc'[v] = pc[v] /\ moment'[v] = moment[v] /\ lease'[v] = lease[v]
    BY <1>5, <1>a DEF Release, Goto, Forget
  <2>3. \A v \in Writers : pc'[v] \in {"acquired", "body"} =>
          \/ pc[v] \in {"acquired", "body"} /\ lease'[v] = lease[v]
          \/ lease'[v] \in Nat /\ lease'[v] > fence
    BY <1>5, <1>a DEF Release, Goto, Forget
  <2> QED
    BY <1>a, <1>b, <1>c, <1>d, <2>1, <2>2, <2>3, SameAttempts
<1>6. ASSUME NEW w \in Writers, Abort(w) PROVE AttemptsAgree'
  <2>1. UNCHANGED <<fired, lastFired>> /\ fence' \in Nat /\ fence' >= fence
    BY <1>6, <1>a DEF Abort, Goto, head
  <2>2. \A v \in Writers : pc'[v] \in {"due", "recorded"} =>
          pc'[v] = pc[v] /\ moment'[v] = moment[v] /\ lease'[v] = lease[v]
    BY <1>6, <1>a DEF Abort, Goto, head
  <2>3. \A v \in Writers : pc'[v] \in {"acquired", "body"} =>
          \/ pc[v] \in {"acquired", "body"} /\ lease'[v] = lease[v]
          \/ lease'[v] \in Nat /\ lease'[v] > fence
    BY <1>6, <1>a DEF Abort, Goto, head
  <2> QED
    BY <1>a, <1>b, <1>c, <1>d, <2>1, <2>2, <2>3, SameAttempts
<1>7. ASSUME NEW w \in Writers, Vanish(w) PROVE AttemptsAgree'
  <2>1. UNCHANGED <<fired, lastFired>> /\ fence' \in Nat /\ fence' >= fence
    BY <1>7, <1>a DEF Vanish, Goto, Forget, head
  <2>2. \A v \in Writers : pc'[v] \in {"due", "recorded"} =>
          pc'[v] = pc[v] /\ moment'[v] = moment[v] /\ lease'[v] = lease[v]
    BY <1>7, <1>a DEF Vanish, Goto, Forget, head
  <2>3. \A v \in Writers : pc'[v] \in {"acquired", "body"} =>
          \/ pc[v] \in {"acquired", "body"} /\ lease'[v] = lease[v]
          \/ lease'[v] \in Nat /\ lease'[v] > fence
    BY <1>7, <1>a DEF Vanish, Goto, Forget, head
  <2> QED
    BY <1>a, <1>b, <1>c, <1>d, <2>1, <2>2, <2>3, SameAttempts
<1>8. ASSUME NEW w \in Writers, HeartbeatLost(w) PROVE AttemptsAgree'
  <2>1. UNCHANGED <<fired, lastFired>> /\ fence' \in Nat /\ fence' >= fence
    BY <1>8, <1>a DEF HeartbeatLost, head
  <2>2. \A v \in Writers : pc'[v] \in {"due", "recorded"} =>
          pc'[v] = pc[v] /\ moment'[v] = moment[v] /\ lease'[v] = lease[v]
    BY <1>8, <1>a DEF HeartbeatLost, head
  <2>3. \A v \in Writers : pc'[v] \in {"acquired", "body"} =>
          \/ pc[v] \in {"acquired", "body"} /\ lease'[v] = lease[v]
          \/ lease'[v] \in Nat /\ lease'[v] > fence
    BY <1>8, <1>a DEF HeartbeatLost, head
  <2> QED
    BY <1>a, <1>b, <1>c, <1>d, <2>1, <2>2, <2>3, SameAttempts
<1>9. ASSUME NEW p \in Publishers, OptimisticRead(p) PROVE AttemptsAgree'
  <2>1. UNCHANGED <<fired, lastFired, fence, pc, moment, lease>>
    BY <1>9 DEF OptimisticRead, head
  <2> QED
    BY <1>a, <1>b, <1>c, <1>d, <2>1, SameAttempts
<1>10. ASSUME NEW p \in Publishers, OptimisticPublish(p) PROVE AttemptsAgree'
  <2>1. UNCHANGED <<fired, lastFired, fence, pc, moment, lease>>
    BY <1>10 DEF OptimisticPublish, writerVars
  <2> QED
    BY <1>a, <1>b, <1>c, <1>d, <2>1, SameAttempts
<1>11. CASE LeaseExpires
  <2>1. UNCHANGED <<fired, lastFired, fence, pc, moment, lease>>
    BY <1>11 DEF LeaseExpires, writerVars
  <2> QED
    BY <1>a, <1>b, <1>c, <1>d, <2>1, SameAttempts
<1>12. CASE UNCHANGED vars
  <2>1. UNCHANGED <<fired, lastFired, fence, pc, moment, lease>>
    BY <1>12 DEF vars, writerVars, head
  <2> QED
    BY <1>a, <1>b, <1>c, <1>d, <2>1, SameAttempts
<1>13. ASSUME NEW w \in Writers, ReadSchedule(w) PROVE AttemptsAgree'
  <2>1. PICK m \in 1..MaxMoment :
          /\ moment' = [moment EXCEPT ![w] = m]
          /\ pc[w] = "body" /\ pc' = [pc EXCEPT ![w] = IF Due(m) THEN "due" ELSE "ran"]
    BY <1>13 DEF ReadSchedule, Goto
  <2>2. UNCHANGED <<fired, lastFired, fence, lease>>
    BY <1>13 DEF ReadSchedule, head
  <2>3. \A v \in Writers \ {w} : pc'[v] = pc[v] /\ moment'[v] = moment[v]
    BY <1>a, <2>1
  <2>4. pc'[w] \in {"due", "ran"} /\ moment'[w] = m /\ (pc'[w] = "due" => m > lastFired)
    BY <1>a, <2>1, ConstantsAssumption DEF Due
  <2>5. Attempts' = Attempts
    BY <2>1, <2>2, <2>3, <2>4 DEF Attempts
  <2>6. \A v \in Writers : pc'[v] \in {"acquired", "body", "due"} =>
          \A a \in Attempts : a[2] # lease[v]
    BY <1>c, <2>1, <2>3 DEF AttemptsAgree
  <2>7. \A v \in Writers : pc'[v] = "due" /\ lease[v] = fence => moment'[v] > lastFired
    BY <1>c, <2>3, <2>4 DEF AttemptsAgree
  <2>8. \A v \in Writers : pc'[v] \in {"due", "recorded"} => moment'[v] \in 1..MaxMoment
    BY <1>c, <2>3, <2>4 DEF AttemptsAgree
  <2>9. \A v \in Writers : pc'[v] = "recorded" => <<moment'[v], lease[v]>> \notin fired
    BY <1>c, <2>3, <2>4 DEF AttemptsAgree
  <2> QED
    BY <1>c, <2>2, <2>5, <2>6, <2>7, <2>8, <2>9 DEF AttemptsAgree
<1>14. ASSUME NEW w \in Writers, Fire(w) PROVE AttemptsAgree'
  <2>1. pc[w] = "recorded" /\ pc' = [pc EXCEPT ![w] = "fired"]
    BY <1>14 DEF Fire, Goto
  <2>2. fired' = fired \cup {<<moment[w], lease[w]>>} /\ UNCHANGED <<lastFired, fence, moment, lease>>
    BY <1>14 DEF Fire, head
  <2>3. \A v \in Writers \ {w} : pc'[v] = pc[v]
    BY <1>a, <2>1
  <2>4. pc'[w] = "fired"
    BY <1>a, <2>1
  <2>5. Attempts' = Attempts
    BY <2>1, <2>2, <2>3, <2>4 DEF Attempts
  <2>6. \A v \in Writers : pc'[v] = "recorded" => <<moment[v], lease[v]>> \notin fired'
    BY <1>c, <1>d, <2>1, <2>2, <2>3, <2>4 DEF AttemptsAgree
  <2>7. \A v \in Writers : pc'[v] \in {"acquired", "body", "due", "recorded"} => pc'[v] = pc[v]
    BY <2>3, <2>4
  <2> QED
    BY <1>c, <2>2, <2>5, <2>6, <2>7 DEF AttemptsAgree
<1>15. ASSUME NEW w \in Writers, RecordAttempt(w) PROVE AttemptsAgree'
  <2>1. UNCHANGED <<fired, fence, moment, lease>>
    BY <1>15 DEF RecordAttempt, head
  <2>2. /\ lastFired' \in Nat /\ lastFired' >= lastFired /\ lastFired' >= moment[w]
        /\ lease[w] = fence
    BY <1>15, <1>a DEF RecordAttempt, Later, Owns
  <2>3. \A v \in Writers \ {w} : pc'[v] = pc[v]
    BY <1>15, <1>a DEF RecordAttempt, Goto
  <2>4. \A v \in Writers \ {w} : lease[v] # fence \/ pc[v] = "idle"
    BY <1>d, <2>2
  <2>5. \A v \in Writers : pc'[v] \in {"acquired", "body", "due"} =>
          v # w /\ pc'[v] = pc[v] /\ lease[v] # fence
    BY <1>15, <1>a, <2>3, <2>4 DEF RecordAttempt, Goto
  <2>6. CASE pc[w] = "fired"
    <3>1. pc'[w] = "ran"
      BY <1>15, <1>a, <2>6 DEF RecordAttempt, Goto
    <3>2. Attempts' = Attempts
      BY <2>1, <2>3, <2>6, <3>1 DEF Attempts
    <3>3. \A a \in Attempts : a[1] <= lastFired' /\ a[2] <= fence
      BY <1>a, <1>b, <1>c, <2>2 DEF AttemptsAgree
    <3>4. \A v \in Writers : pc'[v] \in {"due", "recorded"} => pc'[v] = pc[v]
      BY <2>3, <3>1
    <3> QED
      BY <1>c, <2>1, <2>5, <3>2, <3>3, <3>4 DEF AttemptsAgree
  <2>7. CASE pc[w] = "due"
    <3>1. pc'[w] = "recorded"
      BY <1>15, <1>a, <2>7 DEF RecordAttempt, Goto
    <3>2. Attempts' = Attempts \cup {<<moment[w], lease[w]>>}
      BY <2>1, <2>3, <2>7, <3>1 DEF Attempts
    <3>3. moment[w] > lastFired /\ moment[w] \in Nat /\ lease[w] \in Nat
      BY <1>a, <1>c, <2>2, <2>7 DEF AttemptsAgree
    <3>4. \A a \in Attempts : a[1] < moment[w] /\ a[2] < lease[w]
      <4> SUFFICES ASSUME NEW a \in Attempts PROVE a[1] < moment[w] /\ a[2] < lease[w]
        OBVIOUS
      <4>1. a[1] \in Nat /\ a[2] \in Nat
        BY <1>b
      <4>2. a[1] <= lastFired /\ a[2] <= fence /\ a[2] # lease[w]
        BY <1>c, <2>7 DEF AttemptsAgree
      <4> QED
        BY <1>a, <2>2, <3>3, <4>1, <4>2
    <3>5. <<moment[w], lease[w]>> \notin Attempts
      BY <3>3, <3>4
    <3>6. \A a \in Attempts' : a[1] <= lastFired' /\ a[2] <= fence
      <4>1. \A a \in Attempts : a[1] <= lastFired' /\ a[2] <= fence
        BY <1>a, <1>b, <1>c, <2>2 DEF AttemptsAgree
      <4> QED
        BY <2>2, <3>2, <3>3, <1>a, <4>1
    <3>7. \A a, b \in Attempts' : a # b => a[2] # b[2] /\ (a[2] < b[2] => a[1] < b[1])
      <4>1. \A a, b \in Attempts : a # b => a[2] # b[2] /\ (a[2] < b[2] => a[1] < b[1])
        BY <1>c DEF AttemptsAgree
      <4>2. \A a \in Attempts : a[1] \in Nat /\ a[2] \in Nat
        BY <1>b
      <4> DEFINE n == <<moment[w], lease[w]>>
      <4>3. n[1] = moment[w] /\ n[2] = lease[w]
        OBVIOUS
      <4> QED
        BY <3>2, <3>3, <3>4, <4>1, <4>2, <4>3
    <3>8. \A v \in Writers : pc'[v] = "recorded" => <<moment[v], lease[v]>> \notin fired
      BY <1>c, <2>3, <3>1, <3>5 DEF AttemptsAgree, Attempts
    <3>9. \A v \in Writers : pc'[v] \in {"acquired", "body", "due"} =>
            \A a \in Attempts' : a[2] # lease[v]
      BY <1>c, <2>2, <2>5, <3>2 DEF AttemptsAgree
    <3>10. \A v \in Writers : pc'[v] \in {"due", "recorded"} => moment[v] \in 1..MaxMoment
      BY <1>c, <2>3, <2>7, <3>1 DEF AttemptsAgree
    <3> QED
      BY <2>1, <2>5, <3>6, <3>7, <3>8, <3>9, <3>10 DEF AttemptsAgree
  <2> QED
    BY <1>15, <2>6, <2>7 DEF RecordAttempt, Goto
<1> QED
  BY <1>1, <1>2, <1>3, <1>4, <1>5, <1>6, <1>7, <1>8, <1>9, <1>10, <1>11, <1>12, <1>13, <1>14, <1>15
     DEF Next, WriterStep


--------------------------------------------------------------------------------
(* The invariant *)

\* No lease, attempt or revision exists at first.
LEMMA InitIInv == Init => IInv
<1> SUFFICES ASSUME Init PROVE IInv
  OBVIOUS
<1> USE ConstantsAssumption DEF Init, NoLease, NotRead
<1>1. TypeOK
  <2>1. revisions \in Seq(SUBSET Transactions)
    OBVIOUS
  <2>2. /\ owner \in 0..MaxFence /\ fence \in 0..MaxFence
        /\ lastFired \in 0..MaxMoment /\ domain = {} /\ fired = {}
    OBVIOUS
  <2>3. pc \in [Writers -> PC] /\ lost \in [Writers -> BOOLEAN]
    BY DEF PC
  <2>4. lease \in [Writers -> 0..MaxFence] /\ moment \in [Writers -> 0..MaxMoment]
    OBVIOUS
  <2>5. /\ base \in [Writers \cup Publishers -> Nat \cup {NotRead}]
        /\ local \in [Writers \cup Publishers -> SUBSET Transactions]
    OBVIOUS
  <2>6. live \in BOOLEAN
    BY Zenon
  <2> QED
    BY <2>1, <2>2, <2>3, <2>4, <2>5, <2>6 DEF TypeOK
<1>2. LeasesAgree
  BY DEF LeasesAgree, Active, Fences
<1>3. CopiesAgree
  <2>1. \A p \in Writers \cup Publishers : base[p] = NotRead
    OBVIOUS
  <2>2. \A w \in Writers : pc[w] = "idle"
    OBVIOUS
  <2>3. domain = {}
    OBVIOUS
  <2> QED
    BY <2>1, <2>2, <2>3 DEF CopiesAgree
<1>4. HistoryAgrees
  BY DEF HistoryAgrees, NoLostUpdate, Version
<1>5. AttemptsAgree
  <2>1. Attempts = {}
    BY DEF Attempts
  <2> QED
    BY <2>1 DEF AttemptsAgree
<1> QED
  BY <1>1, <1>2, <1>3, <1>4, <1>5 DEF IInv

\* The invariant of the whole system.
LEMMA Invariance == Spec => []IInv
<1>1. IInv /\ [Next]_vars => IInv'
  BY TypeStep, LeasesStep, CopiesStep, HistoryStep, AttemptsStep DEF IInv
<1> QED
  BY InitIInv, <1>1, PTL DEF Spec

\* Types, for every number of writers, publishers, leases and moments.
THEOREM TypeCorrect == Spec => []TypeOK
<1>1. IInv => TypeOK
  BY DEF IInv
<1> QED
  BY Invariance, <1>1, PTL

\* However writers, lease-less publishers, expiries and crashes interleave, a revision
\* never drops what an earlier one published.
THEOREM NothingIsLost == Spec => []NoLostUpdate
<1>1. IInv => NoLostUpdate
  BY DEF IInv, HistoryAgrees
<1> QED
  BY Invariance, <1>1, PTL

\* What the head shows has its domain SQL committed.
THEOREM CommittedWhenPublished == Spec => []PublishedIsCommitted
<1>1. IInv => PublishedIsCommitted
  BY DEF IInv, HistoryAgrees, PublishedIsCommitted, Manifest, Version, TypeOK
<1> QED
  BY Invariance, <1>1, PTL

\* No attempt at a schedule target is repeated, whatever happened to its transaction.
THEOREM AttemptsAreNotRepeated == Spec => []AttemptsNotRepeated
<1>1. IInv => AttemptsNotRepeated
  BY DEF IInv, AttemptsAgree, Attempts, AttemptsNotRepeated
<1> QED
  BY Invariance, <1>1, PTL

--------------------------------------------------------------------------------
(* Fencing *)

\* A step commits at most one transaction: the current lease's, or a publisher's.
LEMMA CommitsAreFenced ==
  ASSUME IInv, [Next]_vars
  PROVE  domain' = domain \/ (\E t \in {fence} \cup Publishers : domain' = domain \cup {t})
<1>1. ASSUME NEW w \in Writers, Commit(w) PROVE domain' = domain \cup {fence}
  BY <1>1 DEF Commit, Owns
<1>2. ASSUME NEW p \in Publishers, OptimisticPublish(p) PROVE domain' = domain \cup {p}
  BY <1>2 DEF OptimisticPublish
<1>3. ASSUME NEW w \in Writers,
             \/ Acquire(w) \/ ReadHead(w) \/ EndBody(w) \/ Release(w) \/ RecordAttempt(w)
             \/ Fire(w) \/ Abort(w) \/ Vanish(w) \/ HeartbeatLost(w) \/ ReadSchedule(w)
      PROVE  domain' = domain
  BY <1>3 DEF Acquire, ReadHead, EndBody, Release, RecordAttempt, Fire, Abort, Vanish,
              HeartbeatLost, ReadSchedule
<1>4. ASSUME NEW p \in Publishers, OptimisticRead(p) PROVE domain' = domain
  BY <1>4 DEF OptimisticRead
<1>5. CASE LeaseExpires \/ UNCHANGED vars
  BY <1>5 DEF LeaseExpires, vars
<1> QED
  BY <1>1, <1>2, <1>3, <1>4, <1>5 DEF Next, WriterStep

\* Once another writer has acquired the tenant, the leases before it never commit.
THEOREM SupersededAreFenced == Spec => SupersededNeverCommits
<1>1. ASSUME IInv, [Next]_vars
      PROVE  \A f \in Fences : f < fence /\ f \notin domain => f \notin domain'
  <2> SUFFICES ASSUME NEW f \in Fences, f < fence, f \notin domain, f \in domain'
               PROVE  FALSE
    OBVIOUS
  <2>1. PICK t \in {fence} \cup Publishers : domain' = domain \cup {t}
    BY <1>1, CommitsAreFenced
  <2>2. t # f
    <3>1. f \in Nat /\ f # fence
      BY ConstantsAssumption DEF Fences, IInv, TypeOK
    <3> QED
      BY <3>1, ConstantsAssumption
  <2> QED
    BY <2>1, <2>2
<1>2. ASSUME IInv, [Next]_vars
      PROVE  [\A f \in Fences : f < fence /\ f \notin domain => f \notin domain']_vars
  BY <1>1, <1>2
<1> QED
  BY Invariance, <1>2, PTL DEF Spec, SupersededNeverCommits

--------------------------------------------------------------------------------
(* The register *)

\* A writer's commit is the register's commit of its lease.
LEMMA CommitIsRegistered ==
  ASSUME IInv, NEW w \in Writers, Commit(w)
  PROVE  Register!Commit(lease[w])
<1>1. lease[w] \notin domain /\ domain' = domain \cup {lease[w]}
  BY DEF IInv, LeasesAgree, Commit, Goto, Active, PC
<1>2. base[w] = Len(revisions) /\ Len(revisions) \in Nat
  BY DEF IInv, TypeOK, Commit, Version
<1>3. local[w] \in {Content(base[w]), Content(base[w]) \cup {lease[w]}}
  BY <1>2 DEF IInv, CopiesAgree, NotRead
<1>4. Content(base[w]) = Register!Latest
  BY <1>2 DEF Content, Register!Latest, IInv, TypeOK
<1>5. lease[w] \in local[w] => local[w] = Register!Latest \cup {lease[w]}
  BY <1>3, <1>4
<1>6. revisions' = IF lease[w] \in local[w] THEN Append(revisions, local[w]) ELSE revisions
  BY DEF Commit
<1> QED
  BY <1>1, <1>5, <1>6 DEF Register!Commit

\* A lease-less publisher's commit is the register's commit of its transaction.
LEMMA OptimisticIsRegistered ==
  ASSUME IInv, NEW p \in Publishers, OptimisticPublish(p)
  PROVE  Register!Commit(p)
<1>1. base[p] = Len(revisions) /\ Len(revisions) \in Nat /\ base[p] # NotRead
  BY DEF IInv, TypeOK, OptimisticPublish, Version
<1>2. p \notin domain /\ domain' = domain \cup {p}
  BY <1>1 DEF IInv, CopiesAgree, OptimisticPublish, Version
<1>3. local[p] = Content(base[p]) \cup {p}
  BY <1>1 DEF IInv, CopiesAgree
<1>4. Content(base[p]) = Register!Latest
  BY <1>1 DEF Content, Register!Latest, IInv, TypeOK
<1>5. revisions' = Append(revisions, local[p])
  BY DEF OptimisticPublish
<1> QED
  BY <1>2, <1>3, <1>4, <1>5 DEF Register!Commit

\* Every other step leaves the register alone.
LEMMA StepIsRegistered ==
  ASSUME IInv, [Next]_vars
  PROVE  [Register!Next]_(Register!vars)
<1>1. ASSUME NEW w \in Writers, Commit(w) PROVE Register!Next
  <2>1. lease[w] \in Transactions
    BY <1>1, ConstantsAssumption
       DEF IInv, TypeOK, LeasesAgree, Commit, Goto, Transactions, Fences, NoLease
  <2> QED
    BY <1>1, <2>1, CommitIsRegistered DEF Register!Next
<1>2. ASSUME NEW p \in Publishers, OptimisticPublish(p) PROVE Register!Next
  BY <1>2, OptimisticIsRegistered DEF Register!Next, Transactions
<1>3. ASSUME NEW w \in Writers,
             \/ Acquire(w) \/ ReadHead(w) \/ EndBody(w) \/ Release(w) \/ RecordAttempt(w)
             \/ Fire(w) \/ Abort(w) \/ Vanish(w) \/ HeartbeatLost(w) \/ ReadSchedule(w)
      PROVE  UNCHANGED <<revisions, domain>>
  BY <1>3 DEF Acquire, ReadHead, EndBody, Release, RecordAttempt, Fire, Abort, Vanish,
              HeartbeatLost, ReadSchedule, head
<1>4. ASSUME NEW p \in Publishers, OptimisticRead(p) PROVE UNCHANGED <<revisions, domain>>
  BY <1>4 DEF OptimisticRead, head
<1>5. CASE LeaseExpires \/ UNCHANGED vars
  BY <1>5 DEF LeaseExpires, vars, head, Register!vars
<1> QED
  BY <1>1, <1>2, <1>3, <1>4, <1>5 DEF Next, WriterStep, Register!vars

\* Writers, expiries, crashes and lease-less publishers together implement the register:
\* a transaction is visible as one step, on top of everything published before, or never.
THEOREM PublicationImplementsRegister == Spec => ImplementsRegister
<1>1. Init => Register!Init
  BY DEF Init, Register!Init
<1>2. IInv /\ [Next]_vars => [Register!Next]_(Register!vars)
  BY StepIsRegistered
<1> QED
  BY Invariance, <1>1, <1>2, PTL DEF Spec, ImplementsRegister, Register!Spec
================================================================================
