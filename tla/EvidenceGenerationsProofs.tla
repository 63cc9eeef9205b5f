----------------------- MODULE EvidenceGenerationsProofs -----------------------
(***************************************************************************)
(* Safety of the evidence generations for every number of readers and of    *)
(* generations, every number of generations kept, and lakes with or without *)
(* artifacts of their own.                                                  *)
(***************************************************************************)
EXTENDS EvidenceGenerations, TLAPS

(* The inductive invariant, by the part of the state it constrains *)

\* What the publisher holds: only its candidate and, over a legacy lake, a baseline.
PublisherAgrees ==
  /\ pubPc = "idle" => made = {}
  /\ pubPc # "idle" => cand \in made /\ cand \notin baselines
  /\ pubPc # "switched" => cand \notin published
  /\ pubPc \notin {"idle", "switched"} => copy[cand] = "none"
  /\ pubPc \in {"sealed", "copying", "based", "switched"} => dir[cand] = "sealed"
  /\ pubPc = "switched" => active = cand
  /\ pubPc = "copying" => active = None /\ made \ {cand} # {}
  /\ made \ {cand} \subseteq baselines
  /\ \A g \in made : dir[g] # "none"
  /\ \A g \in Generations : dir[g] = "none" => copy[g] = "none" /\ g \notin published \cup baselines

\* The pointer shows a published, sealed generation; published evidence is available.
PointerAgrees ==
  /\ ActiveIsSealed
  /\ active # None => active \in published
  /\ PublishedIsAvailable

\* The archiver works alone, on a generation that is old, unread and uncited.
ArchiverAgrees ==
  /\ pubPc # "idle" => archPc = "idle"
  /\ LakeShared => ~LakeLocked
  /\ archPc = "idle" => todo = {}
  /\ path # None <=> archPc \in {"checking", "copying", "copied", "removing"}
  /\ active \notin todo
  /\ path # None => path # active /\ ReadersOf(path) = {}
  /\ archPc \in {"copying", "copied"} => dir[path] = "sealed"
  /\ archPc = "removing" => dir[path] = "partial"
  /\ archPc \in {"copied", "removing"} => copy[path] = "whole"
  /\ archPc \in {"copying", "copied", "removing"} => path \notin ledgered

\* Readers hold what was published, or the lake's lock; one of them holds the chain.
ReadersAgree ==
  /\ \A r \in Readers : readerPc[r] \in {"open", "wait", "verified"} => gen[r] # None
  /\ \A r \in Readers : gen[r] # None => gen[r] \in published
  /\ \A r \in Readers : Holding(r) /\ gen[r] = None => shares[r] /\ active = None
  /\ \A r \in Readers : readerPc[r] = "frozen" => gen[r] \in orphans /\ journal = {} /\ ~recovering
  /\ \A r, q \in Readers : readerPc[r] = "frozen" /\ readerPc[q] = "frozen" => r = q
  /\ ledgered \subseteq published \cup {None}

IInv == TypeOK /\ PublisherAgrees /\ PointerAgrees /\ ArchiverAgrees /\ ReadersAgree

--------------------------------------------------------------------------------
(* Steps *)

\* A reader's step keeps the types: it leaves the publisher, the archiver and the store alone.
LEMMA ReaderTypeStep ==
  ASSUME TypeOK, ReadersAgree, NEW r \in Readers, ReaderStep(r) \/ UseOfPin(r)
  PROVE  TypeOK'
<1> USE DEF ReaderStep, UseOfPin, ReadPointer, Share, Open, Pin, WriteSnapshot, LedgerSnapshot,
     Verify, CommitRecord, Unpin, Turn, Released
<1>1. /\ readerPc \in [Readers -> ReaderPC]
      /\ gen \in [Readers -> Generations \cup {None}]
      /\ shares \in [Readers -> BOOLEAN]
      /\ active \in Generations \cup {None}
  BY DEF TypeOK
<1>2. UNCHANGED othersThanReaders
  BY DEF othersThanReaders
<1>3. \E to \in ReaderPC : readerPc' = [readerPc EXCEPT ![r] = to]
  BY <1>1 DEF ReaderPC
<1>4. gen' \in {gen, [gen EXCEPT ![r] = active], [gen EXCEPT ![r] = None]}
  BY DEF othersThanReaders
<1>5. shares' \in {shares, [shares EXCEPT ![r] = TRUE], [shares EXCEPT ![r] = FALSE]}
  OBVIOUS
<1>6. /\ ledgered' \in {ledgered, ledgered \cup {gen[r]}}
      /\ orphans' \in {orphans, {gen[r]}, orphans \ {gen[r]}}
      /\ UNCHANGED <<journal, recovering>>
  BY DEF snapshotVars
<1>7. records' \in {records, records \cup {gen[r]}} /\ (records' = records \/ gen[r] # None)
  BY <1>1 DEF ReadersAgree
<1> HIDE DEF ReaderStep, UseOfPin
<1>8. readerPc' \in [Readers -> ReaderPC]
  BY <1>1, <1>3
<1>9. gen' \in [Readers -> Generations \cup {None}] /\ shares' \in [Readers -> BOOLEAN]
  BY <1>1, <1>4, <1>5
<1>10. /\ ledgered' \subseteq Generations \cup {None}
       /\ orphans' \subseteq Generations \cup {None}
       /\ journal' \subseteq Generations \cup {None}
       /\ recovering' \in BOOLEAN
       /\ records' \subseteq Generations
  BY <1>1, <1>6, <1>7 DEF TypeOK
<1> QED
  BY <1>2, <1>8, <1>9, <1>10
     DEF TypeOK, othersThanReaders, publisherVars, archiverVars, storeVars, times, pointerVars

\* Every step keeps the types.
LEMMA TypeStep == IInv /\ [Next]_vars => TypeOK'
<1> SUFFICES ASSUME IInv, [Next]_vars
             PROVE  TypeOK'
  OBVIOUS
<1> USE ConstantsAssumption DEF IInv, TypeOK,
     Generations, None, PublisherPC, ArchiverPC, ReaderPC,
     publisherVars, archiverVars, readerVars,
     snapshotVars, times, storeVars, pointerVars, othersThanReaders, othersThanArchiver
<1>1. CASE BeginPublication
  <2>1. PICK g \in Generations : NewGeneration(g) /\ cand' = g /\ made' = {g}
    BY <1>1 DEF BeginPublication
  <2>2. clock' \in Nat /\ mtime' \in [Generations -> 0..clock']
    BY <2>1 DEF NewGeneration, Touch
  <2>3. dir' = [dir EXCEPT ![g] = "staged"]
    BY <2>1 DEF NewGeneration
  <2> QED
    BY <1>1, <2>1, <2>2, <2>3 DEF BeginPublication
<1>2. CASE Seal
  BY <1>2 DEF Seal
<1>3. CASE CopyBaseline
  <2>1. PICK g \in Generations : /\ NewGeneration(g) /\ made' = made \cup {g}
                                 /\ baselines' = baselines \cup {g}
    BY <1>3 DEF CopyBaseline
  <2>2. clock' \in Nat /\ mtime' \in [Generations -> 0..clock']
    BY <2>1 DEF NewGeneration, Touch
  <2>3. dir' = [dir EXCEPT ![g] = "staged"]
    BY <2>1 DEF NewGeneration
  <2>4. /\ pubPc' = "copying"
        /\ UNCHANGED <<copy, legacy, active, published, cand, archiverVars, readerVars,
                      snapshotVars, records>>
    BY <1>3 DEF CopyBaseline
  <2> QED
    BY <2>1, <2>2, <2>3, <2>4
<1>4. CASE InstallBaseline
  <2> DEFINE b == CHOOSE x \in made : x # cand
  <2>1. b \in made /\ b # cand
    BY <1>4 DEF InstallBaseline, PublisherAgrees
  <2>2. /\ dir' = [dir EXCEPT ![b] = "sealed"] /\ active' = b
        /\ published' = published \cup {b} /\ pubPc = "copying" /\ pubPc' = "based"
        /\ UNCHANGED <<copy, times, legacy, baselines, cand, made, archiverVars, readerVars,
                      snapshotVars, records>>
    BY <1>4 DEF InstallBaseline
  <2> HIDE DEF b
  <2> QED
    <3>1. dir' \in [Generations -> {"none", "staged", "sealed", "partial", "gone"}]
      BY <2>2
    <3>2. b \in Generations
      BY <2>1
    <3>3. active' \in Generations \cup {None} /\ published' \subseteq Generations
      BY <2>2, <3>2
    <3> QED
      BY <2>2, <3>1, <3>3
<1>5. CASE SwitchPointer
  BY <1>5 DEF SwitchPointer, PublisherAgrees
<1>6. CASE EndPublication
  BY <1>6 DEF EndPublication, Unlocked
<1>7. CASE FailPublication
  BY <1>7 DEF FailPublication, Unlocked
<1>8. CASE CrashPublication
  BY <1>8 DEF CrashPublication, Unlocked
<1>9. ASSUME NEW r \in Readers, ReaderStep(r) \/ UseOfPin(r) PROVE TypeOK'
  BY <1>9, ReaderTypeStep
<1>10. CASE BeginArchival
  BY <1>10 DEF BeginArchival, Paths
<1>11. CASE LockGeneration
  BY <1>11 DEF LockGeneration, ReadersOf, Holding
<1>12. CASE CheckGeneration
  <2>1. archPc' \in ArchiverPC /\ todo' \subseteq Generations /\ path' \in Generations \cup {None}
    BY <1>12 DEF CheckGeneration, Continue, Stop
  <2>2. copy' \in {copy, [copy EXCEPT ![path] = "partial"]}
    BY <1>12 DEF CheckGeneration
  <2>3. UNCHANGED <<dir, times, othersThanArchiver>>
    BY <1>12 DEF CheckGeneration
  <2> QED
    BY <2>1, <2>2, <2>3
<1>13. CASE FinishCopy
  BY <1>13 DEF FinishCopy, Step
<1>14. CASE BeginRemoval
  BY <1>14 DEF BeginRemoval, Step
<1>15. CASE FinishRemoval
  BY <1>15 DEF FinishRemoval, Continue
<1>16. CASE EndArchival
  BY <1>16 DEF EndArchival, Stop
<1>17. CASE InterruptArchival
  <2>1. archPc = "removing" => path \in Generations
    BY DEF ArchiverAgrees
  <2>2. UNCHANGED times \/ (clock' = clock + 1 /\ mtime' = [mtime EXCEPT ![path] = clock + 1])
    BY <1>17 DEF InterruptArchival, Touch
  <2>3. UNCHANGED times \/ archPc = "removing"
    BY <1>17 DEF InterruptArchival
  <2>4. clock' \in Nat /\ mtime' \in [Generations -> 0..clock']
    BY <2>1, <2>2, <2>3
  <2> QED
    BY <1>17, <2>4 DEF InterruptArchival, Stop
<1>18. CASE BeginRecovery
  BY <1>18 DEF BeginRecovery
<1>19. CASE Quarantine
  BY <1>19 DEF Quarantine
<1>20. CASE EndRecovery
  BY <1>20 DEF EndRecovery
<1>21. CASE CrashRecovery
  BY <1>21 DEF CrashRecovery
<1>22. CASE UNCHANGED vars
  BY <1>22 DEF vars
<1> QED
  BY <1>1, <1>2, <1>3, <1>4, <1>5, <1>6, <1>7, <1>8, <1>9, <1>10, <1>11, <1>12, <1>13, <1>14, <1>15, <1>16, <1>17,
     <1>18, <1>19, <1>20, <1>21, <1>22
     DEF Next, PublisherStep, ArchiverStep, RecoveryStep

\* Every step keeps what the publisher holds.
LEMMA PublisherStepLemma == IInv /\ [Next]_vars => PublisherAgrees'
<1> SUFFICES ASSUME IInv, [Next]_vars
             PROVE  PublisherAgrees'
  OBVIOUS
<1> USE ConstantsAssumption DEF IInv, TypeOK,
     Generations, None, PublisherPC, ArchiverPC, ReaderPC,
     publisherVars, archiverVars, readerVars,
     snapshotVars, times, storeVars, pointerVars, othersThanReaders, othersThanArchiver,
     LakeLocked, LakeShared, ReadersOf, Holding, Exists, Examining, ChainFree,
     PublisherAgrees, ArchiverAgrees
<1>1. CASE BeginPublication
  BY <1>1 DEF BeginPublication, NewGeneration, Touch
<1>2. CASE Seal
  BY <1>2 DEF Seal
<1>3. CASE CopyBaseline
  BY <1>3 DEF CopyBaseline, NewGeneration, Touch
<1>4. CASE InstallBaseline
  <2> DEFINE b == CHOOSE x \in made : x # cand
  <2>1. b \in made /\ b # cand
    BY <1>4 DEF InstallBaseline, PublisherAgrees
  <2>2. /\ dir' = [dir EXCEPT ![b] = "sealed"] /\ active' = b
        /\ published' = published \cup {b} /\ pubPc = "copying" /\ pubPc' = "based"
        /\ UNCHANGED <<copy, times, legacy, baselines, cand, made, archiverVars, readerVars,
                      snapshotVars, records>>
    BY <1>4 DEF InstallBaseline
  <2> HIDE DEF b
  <2> QED
    BY <2>1, <2>2
<1>5. CASE SwitchPointer
  BY <1>5 DEF SwitchPointer
<1>6. CASE EndPublication
  BY <1>6 DEF EndPublication, Unlocked
<1>7. CASE FailPublication
  BY <1>7 DEF FailPublication, Unlocked
<1>8. CASE CrashPublication
  BY <1>8 DEF CrashPublication, Unlocked
<1>9. ASSUME NEW r \in Readers, ReadPointer(r) PROVE PublisherAgrees'
  BY <1>9 DEF ReadPointer, Turn
<1>10. ASSUME NEW r \in Readers, Share(r) PROVE PublisherAgrees'
  BY <1>10 DEF Share, Turn
<1>11. ASSUME NEW r \in Readers, Open(r) PROVE PublisherAgrees'
  BY <1>11 DEF Open, Turn
<1>12. ASSUME NEW r \in Readers, Pin(r) PROVE PublisherAgrees'
  BY <1>12 DEF Pin, Turn
<1>13. ASSUME NEW r \in Readers, WriteSnapshot(r) PROVE PublisherAgrees'
  BY <1>13 DEF WriteSnapshot, Turn
<1>14. ASSUME NEW r \in Readers, LedgerSnapshot(r) PROVE PublisherAgrees'
  BY <1>14 DEF LedgerSnapshot, Turn
<1>15. ASSUME NEW r \in Readers, Verify(r) PROVE PublisherAgrees'
  BY <1>15 DEF Verify, Turn
<1>16. ASSUME NEW r \in Readers, CommitRecord(r) PROVE PublisherAgrees'
  BY <1>16 DEF CommitRecord, Released
<1>17. ASSUME NEW r \in Readers, Unpin(r) PROVE PublisherAgrees'
  BY <1>17 DEF Unpin, Released
<1>18. CASE BeginArchival
  BY <1>18 DEF BeginArchival, Paths
<1>19. CASE LockGeneration
  BY <1>19 DEF LockGeneration, ReadersOf, Holding
<1>20. CASE CheckGeneration
  BY <1>20 DEF CheckGeneration, Continue, Stop, References
<1>21. CASE FinishCopy
  BY <1>21 DEF FinishCopy, Step
<1>22. CASE BeginRemoval
  BY <1>22 DEF BeginRemoval, Step, ArchiverAgrees
<1>23. CASE FinishRemoval
  BY <1>23 DEF FinishRemoval, Continue, ArchiverAgrees
<1>24. CASE EndArchival
  BY <1>24 DEF EndArchival, Stop
<1>25. CASE InterruptArchival
  BY <1>25 DEF InterruptArchival, Stop, Touch
<1>26. CASE BeginRecovery
  BY <1>26 DEF BeginRecovery
<1>27. CASE Quarantine
  BY <1>27 DEF Quarantine
<1>28. CASE EndRecovery
  BY <1>28 DEF EndRecovery
<1>29. CASE CrashRecovery
  BY <1>29 DEF CrashRecovery
<1>30. CASE UNCHANGED vars
  BY <1>30 DEF vars
<1> QED
  BY <1>1, <1>2, <1>3, <1>4, <1>5, <1>6, <1>7, <1>8, <1>9, <1>10, <1>11, <1>12, <1>13,
     <1>14, <1>15, <1>16, <1>17, <1>18, <1>19, <1>20, <1>21, <1>22, <1>23, <1>24, <1>25,
     <1>26, <1>27, <1>28, <1>29, <1>30
     DEF Next, PublisherStep, ReaderStep, UseOfPin, ArchiverStep, RecoveryStep

\* Every step keeps the pointer on whole evidence, and all of it available.
LEMMA PointerStep == IInv /\ [Next]_vars => PointerAgrees'
<1> SUFFICES ASSUME IInv, [Next]_vars
             PROVE  PointerAgrees'
  OBVIOUS
<1> USE ConstantsAssumption DEF IInv, TypeOK,
     Generations, None, PublisherPC, ArchiverPC, ReaderPC,
     publisherVars, archiverVars, readerVars,
     snapshotVars, times, storeVars, pointerVars, othersThanReaders, othersThanArchiver,
     LakeLocked, LakeShared, ReadersOf, Holding, Exists, Examining, ChainFree,
     PublisherAgrees, PointerAgrees, ArchiverAgrees, ActiveIsSealed, PublishedIsAvailable, Available
<1>1. CASE BeginPublication
  BY <1>1 DEF BeginPublication, NewGeneration, Touch
<1>2. CASE Seal
  BY <1>2 DEF Seal
<1>3. CASE CopyBaseline
  BY <1>3 DEF CopyBaseline, NewGeneration, Touch
<1>4. CASE InstallBaseline
  <2> DEFINE b == CHOOSE x \in made : x # cand
  <2>1. b \in made /\ b # cand
    BY <1>4 DEF InstallBaseline, PublisherAgrees
  <2>2. /\ dir' = [dir EXCEPT ![b] = "sealed"] /\ active' = b
        /\ published' = published \cup {b} /\ pubPc = "copying" /\ pubPc' = "based"
        /\ UNCHANGED <<copy, times, legacy, baselines, cand, made, archiverVars, readerVars,
                      snapshotVars, records>>
    BY <1>4 DEF InstallBaseline
  <2> HIDE DEF b
  <2> QED
    BY <2>1, <2>2 DEF PublisherAgrees
<1>5. CASE SwitchPointer
  BY <1>5 DEF SwitchPointer
<1>6. CASE EndPublication
  BY <1>6 DEF EndPublication, Unlocked
<1>7. CASE FailPublication
  BY <1>7 DEF FailPublication, Unlocked
<1>8. CASE CrashPublication
  BY <1>8 DEF CrashPublication, Unlocked
<1>9. ASSUME NEW r \in Readers, ReadPointer(r) PROVE PointerAgrees'
  BY <1>9 DEF ReadPointer, Turn
<1>10. ASSUME NEW r \in Readers, Share(r) PROVE PointerAgrees'
  BY <1>10 DEF Share, Turn
<1>11. ASSUME NEW r \in Readers, Open(r) PROVE PointerAgrees'
  BY <1>11 DEF Open, Turn
<1>12. ASSUME NEW r \in Readers, Pin(r) PROVE PointerAgrees'
  BY <1>12 DEF Pin, Turn
<1>13. ASSUME NEW r \in Readers, WriteSnapshot(r) PROVE PointerAgrees'
  BY <1>13 DEF WriteSnapshot, Turn
<1>14. ASSUME NEW r \in Readers, LedgerSnapshot(r) PROVE PointerAgrees'
  BY <1>14 DEF LedgerSnapshot, Turn
<1>15. ASSUME NEW r \in Readers, Verify(r) PROVE PointerAgrees'
  BY <1>15 DEF Verify, Turn
<1>16. ASSUME NEW r \in Readers, CommitRecord(r) PROVE PointerAgrees'
  BY <1>16 DEF CommitRecord, Released
<1>17. ASSUME NEW r \in Readers, Unpin(r) PROVE PointerAgrees'
  BY <1>17 DEF Unpin, Released
<1>18. CASE BeginArchival
  BY <1>18 DEF BeginArchival, Paths
<1>19. CASE LockGeneration
  BY <1>19 DEF LockGeneration, ReadersOf, Holding
<1>20. CASE CheckGeneration
  BY <1>20 DEF CheckGeneration, Continue, Stop, References
<1>21. CASE FinishCopy
  BY <1>21 DEF FinishCopy, Step
<1>22. CASE BeginRemoval
  BY <1>22 DEF BeginRemoval, Step
<1>23. CASE FinishRemoval
  BY <1>23 DEF FinishRemoval, Continue
<1>24. CASE EndArchival
  BY <1>24 DEF EndArchival, Stop
<1>25. CASE InterruptArchival
  BY <1>25 DEF InterruptArchival, Stop, Touch
<1>26. CASE BeginRecovery
  BY <1>26 DEF BeginRecovery
<1>27. CASE Quarantine
  BY <1>27 DEF Quarantine
<1>28. CASE EndRecovery
  BY <1>28 DEF EndRecovery
<1>29. CASE CrashRecovery
  BY <1>29 DEF CrashRecovery
<1>30. CASE UNCHANGED vars
  BY <1>30 DEF vars
<1> QED
  BY <1>1, <1>2, <1>3, <1>4, <1>5, <1>6, <1>7, <1>8, <1>9, <1>10, <1>11, <1>12, <1>13,
     <1>14, <1>15, <1>16, <1>17, <1>18, <1>19, <1>20, <1>21, <1>22, <1>23, <1>24, <1>25,
     <1>26, <1>27, <1>28, <1>29, <1>30
     DEF Next, PublisherStep, ReaderStep, UseOfPin, ArchiverStep, RecoveryStep

\* Every step leaves the archiver alone with an old, unread and uncited generation.
LEMMA ArchiverStepLemma == IInv /\ [Next]_vars => ArchiverAgrees'
<1> SUFFICES ASSUME IInv, [Next]_vars
             PROVE  ArchiverAgrees'
  OBVIOUS
<1> USE ConstantsAssumption DEF IInv, TypeOK,
     Generations, None, PublisherPC, ArchiverPC, ReaderPC,
     publisherVars, archiverVars, readerVars,
     snapshotVars, times, storeVars, pointerVars, othersThanReaders, othersThanArchiver,
     LakeLocked, LakeShared, ReadersOf, Holding, Exists, Examining, ChainFree,
     ArchiverAgrees, PointerAgrees, ReadersAgree
<1>1. CASE BeginPublication
  BY <1>1 DEF BeginPublication, NewGeneration, Touch
<1>2. CASE Seal
  BY <1>2 DEF Seal
<1>3. CASE CopyBaseline
  BY <1>3 DEF CopyBaseline, NewGeneration, Touch
<1>4. CASE InstallBaseline
  <2> DEFINE b == CHOOSE x \in made : x # cand
  <2>1. b \in made /\ b # cand
    BY <1>4 DEF InstallBaseline, PublisherAgrees
  <2>2. /\ dir' = [dir EXCEPT ![b] = "sealed"] /\ active' = b
        /\ published' = published \cup {b} /\ pubPc = "copying" /\ pubPc' = "based"
        /\ UNCHANGED <<copy, times, legacy, baselines, cand, made, archiverVars, readerVars,
                      snapshotVars, records>>
    BY <1>4 DEF InstallBaseline
  <2> HIDE DEF b
  <2> QED
    BY <2>1, <2>2
<1>5. CASE SwitchPointer
  BY <1>5 DEF SwitchPointer
<1>6. CASE EndPublication
  BY <1>6 DEF EndPublication, Unlocked
<1>7. CASE FailPublication
  BY <1>7 DEF FailPublication, Unlocked
<1>8. CASE CrashPublication
  BY <1>8 DEF CrashPublication, Unlocked
<1>9. ASSUME NEW r \in Readers, ReadPointer(r) PROVE ArchiverAgrees'
  BY <1>9 DEF ReadPointer, Turn
<1>10. ASSUME NEW r \in Readers, Share(r) PROVE ArchiverAgrees'
  BY <1>10 DEF Share, Turn
<1>11. ASSUME NEW r \in Readers, Open(r) PROVE ArchiverAgrees'
  BY <1>11 DEF Open, Turn
<1>12. ASSUME NEW r \in Readers, Pin(r) PROVE ArchiverAgrees'
  BY <1>12 DEF Pin, Turn
<1>13. ASSUME NEW r \in Readers, WriteSnapshot(r) PROVE ArchiverAgrees'
  BY <1>13 DEF WriteSnapshot, Turn
<1>14. ASSUME NEW r \in Readers, LedgerSnapshot(r) PROVE ArchiverAgrees'
  BY <1>14 DEF LedgerSnapshot, Turn
<1>15. ASSUME NEW r \in Readers, Verify(r) PROVE ArchiverAgrees'
  BY <1>15 DEF Verify, Turn
<1>16. ASSUME NEW r \in Readers, CommitRecord(r) PROVE ArchiverAgrees'
  BY <1>16 DEF CommitRecord, Released
<1>17. ASSUME NEW r \in Readers, Unpin(r) PROVE ArchiverAgrees'
  BY <1>17 DEF Unpin, Released
<1>18. CASE BeginArchival
  BY <1>18 DEF BeginArchival, Paths
<1>19. CASE LockGeneration
  BY <1>19 DEF LockGeneration, ReadersOf, Holding
<1>20. CASE CheckGeneration
  BY <1>20 DEF CheckGeneration, Continue, Stop, References
<1>21. CASE FinishCopy
  BY <1>21 DEF FinishCopy, Step
<1>22. CASE BeginRemoval
  BY <1>22 DEF BeginRemoval, Step
<1>23. CASE FinishRemoval
  BY <1>23 DEF FinishRemoval, Continue
<1>24. CASE EndArchival
  BY <1>24 DEF EndArchival, Stop
<1>25. CASE InterruptArchival
  BY <1>25 DEF InterruptArchival, Stop, Touch
<1>26. CASE BeginRecovery
  BY <1>26 DEF BeginRecovery
<1>27. CASE Quarantine
  BY <1>27 DEF Quarantine
<1>28. CASE EndRecovery
  BY <1>28 DEF EndRecovery
<1>29. CASE CrashRecovery
  BY <1>29 DEF CrashRecovery
<1>30. CASE UNCHANGED vars
  BY <1>30 DEF vars
<1> QED
  BY <1>1, <1>2, <1>3, <1>4, <1>5, <1>6, <1>7, <1>8, <1>9, <1>10, <1>11, <1>12, <1>13,
     <1>14, <1>15, <1>16, <1>17, <1>18, <1>19, <1>20, <1>21, <1>22, <1>23, <1>24, <1>25,
     <1>26, <1>27, <1>28, <1>29, <1>30
     DEF Next, PublisherStep, ReaderStep, UseOfPin, ArchiverStep, RecoveryStep

\* Every step keeps readers on what was published.
LEMMA ReadersStep == IInv /\ [Next]_vars => ReadersAgree'
<1> SUFFICES ASSUME IInv, [Next]_vars
             PROVE  ReadersAgree'
  OBVIOUS
<1> USE ConstantsAssumption DEF IInv, TypeOK,
     Generations, None, PublisherPC, ArchiverPC, ReaderPC,
     publisherVars, archiverVars, readerVars,
     snapshotVars, times, storeVars, pointerVars, othersThanReaders, othersThanArchiver,
     LakeLocked, LakeShared, ReadersOf, Holding, Exists, Examining, ChainFree,
     ArchiverAgrees, PointerAgrees, ReadersAgree
<1>1. CASE BeginPublication
  BY <1>1 DEF BeginPublication, NewGeneration, Touch
<1>2. CASE Seal
  BY <1>2 DEF Seal
<1>3. CASE CopyBaseline
  BY <1>3 DEF CopyBaseline, NewGeneration, Touch
<1>4. CASE InstallBaseline
  <2> DEFINE b == CHOOSE x \in made : x # cand
  <2>1. b \in made /\ b # cand
    BY <1>4 DEF InstallBaseline, PublisherAgrees
  <2>2. /\ dir' = [dir EXCEPT ![b] = "sealed"] /\ active' = b
        /\ published' = published \cup {b} /\ pubPc = "copying" /\ pubPc' = "based"
        /\ UNCHANGED <<copy, times, legacy, baselines, cand, made, archiverVars, readerVars,
                      snapshotVars, records>>
    BY <1>4 DEF InstallBaseline
  <2> HIDE DEF b
  <2> QED
    BY <2>1, <2>2
<1>5. CASE SwitchPointer
  BY <1>5 DEF SwitchPointer
<1>6. CASE EndPublication
  BY <1>6 DEF EndPublication, Unlocked
<1>7. CASE FailPublication
  BY <1>7 DEF FailPublication, Unlocked
<1>8. CASE CrashPublication
  BY <1>8 DEF CrashPublication, Unlocked
<1>9. ASSUME NEW r \in Readers, ReadPointer(r) PROVE ReadersAgree'
  BY <1>9 DEF ReadPointer, Turn
<1>10. ASSUME NEW r \in Readers, Share(r) PROVE ReadersAgree'
  BY <1>10 DEF Share, Turn
<1>11. ASSUME NEW r \in Readers, Open(r) PROVE ReadersAgree'
  BY <1>11 DEF Open, Turn
<1>12. ASSUME NEW r \in Readers, Pin(r) PROVE ReadersAgree'
  <2>1. /\ readerPc[r] = "wait"
        /\ readerPc' = [readerPc EXCEPT ![r] = "pinned"] \/ readerPc' = [readerPc EXCEPT ![r] = "idle"]
        /\ UNCHANGED <<gen, orphans, journal, recovering, published, active, ledgered>>
    BY <1>12 DEF Pin, Turn
  <2>2. shares' = shares \/ shares' = [shares EXCEPT ![r] = FALSE]
    BY <1>12 DEF Pin
  <2>3. gen'[r] # None /\ readerPc'[r] \in {"pinned", "idle"}
    BY <2>1
  <2>4. \A q \in Readers \ {r} : readerPc'[q] = readerPc[q] /\ shares'[q] = shares[q]
    BY <2>1, <2>2
  <2> QED
    BY <2>1, <2>3, <2>4
<1>13. ASSUME NEW r \in Readers, WriteSnapshot(r) PROVE ReadersAgree'
  BY <1>13 DEF WriteSnapshot, Turn
<1>14. ASSUME NEW r \in Readers, LedgerSnapshot(r) PROVE ReadersAgree'
  <2>1. /\ readerPc[r] = "frozen" /\ readerPc' = [readerPc EXCEPT ![r] = "pinned"]
        /\ orphans' = orphans \ {gen[r]} /\ ledgered' = ledgered \cup {gen[r]}
        /\ UNCHANGED <<gen, shares, journal, recovering, published, active>>
    BY <1>14 DEF LedgerSnapshot, Turn
  <2>2. \A q \in Readers : readerPc'[q] = IF q = r THEN "pinned" ELSE readerPc[q]
    BY <2>1
  <2>3. \A q \in Readers : readerPc'[q] # "frozen"
    BY <2>1, <2>2
  <2>4. ledgered' \subseteq published' \cup {None}
    <3>1. ledgered \subseteq published \cup {None}
      OBVIOUS
    <3>2. gen[r] \in published \cup {None}
      OBVIOUS
    <3> HIDE DEF IInv, TypeOK, ReadersAgree, PointerAgrees, ArchiverAgrees
    <3> QED
      BY <2>1, <3>1, <3>2
  <2>5. \A q \in Readers : Holding(q)' => Holding(q)
    BY <2>1, <2>2
  <2>6. \A q \in Readers : readerPc'[q] \in {"open", "wait", "verified"} => readerPc[q] = readerPc'[q]
    BY <2>2
  <2>7. \A q \in Readers : Holding(q)' /\ gen'[q] = None => shares'[q] /\ active' = None
    BY <2>1, <2>5
  <2> QED
    BY <2>1, <2>3, <2>4, <2>6, <2>7
<1>15. ASSUME NEW r \in Readers, Verify(r) PROVE ReadersAgree'
  BY <1>15 DEF Verify, Turn
<1>16. ASSUME NEW r \in Readers, CommitRecord(r) PROVE ReadersAgree'
  BY <1>16 DEF CommitRecord, Released
<1>17. ASSUME NEW r \in Readers, Unpin(r) PROVE ReadersAgree'
  BY <1>17 DEF Unpin, Released
<1>18. CASE BeginArchival
  BY <1>18 DEF BeginArchival, Paths
<1>19. CASE LockGeneration
  BY <1>19 DEF LockGeneration, ReadersOf, Holding
<1>20. CASE CheckGeneration
  BY <1>20 DEF CheckGeneration, Continue, Stop, References
<1>21. CASE FinishCopy
  BY <1>21 DEF FinishCopy, Step
<1>22. CASE BeginRemoval
  BY <1>22 DEF BeginRemoval, Step
<1>23. CASE FinishRemoval
  BY <1>23 DEF FinishRemoval, Continue
<1>24. CASE EndArchival
  BY <1>24 DEF EndArchival, Stop
<1>25. CASE InterruptArchival
  BY <1>25 DEF InterruptArchival, Stop, Touch
<1>26. CASE BeginRecovery
  BY <1>26 DEF BeginRecovery
<1>27. CASE Quarantine
  BY <1>27 DEF Quarantine
<1>28. CASE EndRecovery
  BY <1>28 DEF EndRecovery
<1>29. CASE CrashRecovery
  BY <1>29 DEF CrashRecovery
<1>30. CASE UNCHANGED vars
  BY <1>30 DEF vars
<1> QED
  BY <1>1, <1>2, <1>3, <1>4, <1>5, <1>6, <1>7, <1>8, <1>9, <1>10, <1>11, <1>12, <1>13,
     <1>14, <1>15, <1>16, <1>17, <1>18, <1>19, <1>20, <1>21, <1>22, <1>23, <1>24, <1>25,
     <1>26, <1>27, <1>28, <1>29, <1>30
     DEF Next, PublisherStep, ReaderStep, UseOfPin, ArchiverStep, RecoveryStep


\* The initial states.
LEMMA InitInv == Init => IInv
<1> SUFFICES ASSUME Init PROVE IInv
  OBVIOUS
<1>1. TypeOK
  <2>1. legacy \in BOOLEAN
    BY ConstantsAssumption, Zenon DEF Init
  <2>2. mtime \in [Generations -> 0..clock] /\ clock \in Nat
    BY DEF Init
  <2> QED
    BY <2>1, <2>2 DEF Init, TypeOK, None, PublisherPC, ArchiverPC, ReaderPC
<1>2. PublisherAgrees /\ PointerAgrees
  BY DEF Init, PublisherAgrees, PointerAgrees, ActiveIsSealed, PublishedIsAvailable, Generations
<1>3. ArchiverAgrees
  BY DEF Init, ArchiverAgrees, LakeShared
<1>4. ReadersAgree
  BY DEF Init, ReadersAgree, Holding
<1> QED
  BY <1>1, <1>2, <1>3, <1>4 DEF IInv

\* Every step keeps the invariant.
LEMMA StepInv == IInv /\ [Next]_vars => IInv'
BY TypeStep, PublisherStepLemma, PointerStep, ArchiverStepLemma, ReadersStep DEF IInv

\* The invariant holds in every reachable state.
THEOREM Invariance == Spec => []IInv
<1>1. Init => IInv
  BY InitInv
<1>2. IInv /\ [Next]_vars => IInv'
  BY StepInv
<1> QED
  BY <1>1, <1>2, PTL DEF Spec

--------------------------------------------------------------------------------
(* The safety properties *)

\* Every variable keeps its kind of value.
THEOREM TypeCorrect == Spec => []TypeOK
<1>1. IInv => TypeOK
  BY DEF IInv
<1> QED
  BY <1>1, Invariance, PTL

\* The pointer only ever shows a sealed generation.
THEOREM PointerIsSealed == Spec => []ActiveIsSealed
<1>1. IInv => ActiveIsSealed
  BY DEF IInv, PointerAgrees
<1> QED
  BY <1>1, Invariance, PTL

\* Published evidence stays whole in the lake or in the archive.
THEOREM EvidenceIsKept == Spec => []PublishedIsAvailable
<1>1. IInv => PublishedIsAvailable
  BY DEF IInv, PointerAgrees
<1> QED
  BY <1>1, Invariance, PTL

\* A reader of the lake's own artifacts never reads beside a publication.
THEOREM LegacyReadersAreAlone == Spec => []LegacyReaderIsAlone
<1>1. IInv => LegacyReaderIsAlone
  BY DEF IInv, ReadersAgree, ArchiverAgrees, LegacyReaderIsAlone, LakeShared, LakeLocked
<1> QED
  BY <1>1, Invariance, PTL

\* A snapshot's file is in its place, in no journal, when its ledger entry is written.
THEOREM SnapshotsAreNotTakenAway == Spec => []FrozenIsInPlace
<1>1. IInv => FrozenIsInPlace
  BY DEF IInv, ReadersAgree, FrozenIsInPlace
<1> QED
  BY <1>1, Invariance, PTL

\* A sealed, published generation is left alone by every step, except that retention may
\* begin to remove one that nobody reads and no snapshot cites, after copying it.
LEMMA WhatLeaves ==
  ASSUME IInv, [Next]_vars,
         NEW g \in published \ baselines, dir[g] = "sealed", dir'[g] # "sealed"
  PROVE  /\ BeginRemoval /\ g = path /\ g # active
         /\ ReadersOf(g) = {} /\ g \notin ledgered /\ copy[g] = "whole"
<1> USE ConstantsAssumption DEF IInv, TypeOK, Generations, None
<1>1. g \in Generations
  OBVIOUS
<1>2. CASE BeginPublication \/ Seal \/ CopyBaseline
  BY <1>1, <1>2 DEF BeginPublication, Seal, CopyBaseline, NewGeneration, PublisherAgrees
<1>3. CASE InstallBaseline
  BY <1>1, <1>3 DEF InstallBaseline
<1>4. CASE SwitchPointer \/ EndPublication \/ CrashPublication
  BY <1>4 DEF SwitchPointer, EndPublication, CrashPublication, storeVars
<1>5. CASE FailPublication
  <2>1. g \notin made \ {active}
    BY <1>5 DEF FailPublication, PublisherAgrees
  <2> QED
    BY <1>1, <1>5, <2>1 DEF FailPublication
<1>6. ASSUME NEW r \in Readers, ReaderStep(r) \/ UseOfPin(r) PROVE FALSE
  BY <1>6 DEF ReaderStep, UseOfPin, ReadPointer, Share, Open, Pin, WriteSnapshot, LedgerSnapshot,
              Verify, CommitRecord, Unpin, othersThanReaders, storeVars
<1>7. CASE BeginArchival \/ LockGeneration \/ CheckGeneration \/ FinishCopy \/ EndArchival
           \/ InterruptArchival
  BY <1>7 DEF BeginArchival, LockGeneration, CheckGeneration, FinishCopy, EndArchival,
              InterruptArchival, storeVars
<1>8. CASE BeginRemoval
  BY <1>1, <1>8 DEF BeginRemoval, Step, ArchiverAgrees
<1>9. CASE FinishRemoval
  BY <1>1, <1>9 DEF FinishRemoval, ArchiverAgrees
<1>10. CASE BeginRecovery \/ RecoveryStep \/ CrashRecovery
  BY <1>10 DEF BeginRecovery, RecoveryStep, Quarantine, EndRecovery, CrashRecovery,
               othersThanReaders, storeVars
<1>11. CASE UNCHANGED vars
  BY <1>11 DEF vars, storeVars
<1> QED
  BY <1>2, <1>3, <1>4, <1>5, <1>6, <1>7, <1>8, <1>9, <1>10, <1>11
     DEF Next, PublisherStep, ArchiverStep

\* Retention never removes the inputs of a snapshot that the ledger lists.
THEOREM SnapshotInputsAreKept == Spec => SnapshotInputsStay
<1>1. IInv /\ [Next]_vars =>
        \A g \in ledgered \ (baselines \cup {None}) : dir[g] = "sealed" => dir'[g] = "sealed"
  <2> SUFFICES ASSUME IInv, [Next]_vars, NEW g \in ledgered \ (baselines \cup {None}),
                      dir[g] = "sealed", dir'[g] # "sealed"
               PROVE  FALSE
    OBVIOUS
  <2>1. g \in published \ baselines
    BY DEF IInv, ReadersAgree
  <2> QED
    BY <2>1, WhatLeaves
<1>2. SnapshotInputsStay <=>
        [][\A g \in ledgered \ (baselines \cup {None}) : dir[g] = "sealed" => dir'[g] = "sealed"]_vars
  BY DEF SnapshotInputsStay
<1> QED
  BY <1>1, <1>2, Invariance, PTL DEF Spec

\* While a reader holds a whole generation, it stays whole.
THEOREM PinnedGenerationsStay == Spec => PinnedStaysWhole
<1> DEFINE Kept ==
      \A r \in Readers :
        Holding(r) /\ Holding(r)' /\ gen[r] \notin baselines \cup {None} /\ dir[gen[r]] = "sealed"
          => dir'[gen[r]] = "sealed"
<1>1. IInv /\ [Next]_vars => Kept
  <2> SUFFICES ASSUME IInv, [Next]_vars, NEW r \in Readers, Holding(r),
                      gen[r] \notin baselines \cup {None},
                      dir[gen[r]] = "sealed", dir'[gen[r]] # "sealed"
               PROVE  FALSE
    OBVIOUS
  <2>1. gen[r] \in published \ baselines
    BY DEF IInv, ReadersAgree
  <2>2. r \in ReadersOf(gen[r])
    BY DEF ReadersOf
  <2> QED
    BY <2>1, <2>2, WhatLeaves
<1>2. PinnedStaysWhole <=> [][Kept]_vars
  BY DEF PinnedStaysWhole
<1> HIDE DEF Kept
<1> QED
  BY <1>1, <1>2, Invariance, PTL DEF Spec

--------------------------------------------------------------------------------
(* The lake implements EvidenceVault *)

\* A step that leaves the pointer, the ledger and the published generations as they are
\* does nothing in the vault.
LEMMA QuietStep ==
  ASSUME UNCHANGED <<active, published, baselines, ledgered>>,
         \A g \in published \ baselines :
           /\ dir'[g] = "sealed" <=> dir[g] = "sealed"
           /\ copy'[g] = "whole" <=> copy[g] = "whole"
  PROVE  UNCHANGED Vault!vars
BY DEF Vault!vars

\* The first publication's migration is not seen in the vault.
LEMMA MigrationIsQuiet ==
  ASSUME IInv, CopyBaseline \/ InstallBaseline
  PROVE  UNCHANGED Vault!vars
<1> USE ConstantsAssumption DEF IInv, TypeOK, Generations, None
<1>1. CASE CopyBaseline
  <2>1. PICK g \in Generations : dir[g] = "none" /\ dir' = [dir EXCEPT ![g] = "staged"]
                                 /\ baselines' = baselines \cup {g}
    BY <1>1 DEF CopyBaseline, NewGeneration
  <2>2. g \notin published /\ g # active
    BY <2>1 DEF PublisherAgrees, PointerAgrees
  <2>3. UNCHANGED <<active, published, ledgered, copy>>
    BY <1>1 DEF CopyBaseline, snapshotVars
  <2>4. ledgered \subseteq published \cup {None}
    BY DEF ReadersAgree
  <2>5. published' \ baselines' = published \ baselines
    BY <2>1, <2>2, <2>3
  <2>6. \A h \in published : dir'[h] = dir[h]
    BY <2>1, <2>2
  <2>7. ledgered' \ (baselines' \cup {None}) = ledgered \ (baselines \cup {None})
    BY <2>1, <2>2, <2>3, <2>4
  <2>8. active' \in baselines' <=> active \in baselines
    BY <2>1, <2>2, <2>3
  <2>9. {h \in published' \ baselines' : dir'[h] = "sealed"}
          = {h \in published \ baselines : dir[h] = "sealed"}
    BY <2>5, <2>6
  <2>10. {h \in published' \ baselines' : copy'[h] = "whole"}
           = {h \in published \ baselines : copy[h] = "whole"}
    BY <2>3, <2>5
  <2>11. (IF active' \in baselines' THEN None ELSE active')
           = (IF active \in baselines THEN None ELSE active)
    BY <2>3, <2>8
  <2> QED
    BY <2>7, <2>9, <2>10, <2>11 DEF Vault!vars
<1>2. CASE InstallBaseline
  <2> DEFINE b == CHOOSE x \in made : x # cand
  <2>1. b \in made /\ b # cand
    BY <1>2 DEF InstallBaseline, PublisherAgrees
  <2>2. b \in baselines
    BY <2>1 DEF PublisherAgrees
  <2>3. /\ dir' = [dir EXCEPT ![b] = "sealed"] /\ active' = b
        /\ published' = published \cup {b} /\ pubPc = "copying"
        /\ UNCHANGED <<copy, baselines, ledgered>>
    BY <1>2 DEF InstallBaseline, snapshotVars
  <2>4. active = None
    BY <2>3 DEF PublisherAgrees
  <2> HIDE DEF b
  <2>5. published' \ baselines' = published \ baselines
    BY <2>2, <2>3
  <2>6. \A h \in published \ baselines : dir'[h] = dir[h]
    BY <2>2, <2>3
  <2>7. (IF active' \in baselines' THEN None ELSE active')
          = (IF active \in baselines THEN None ELSE active)
    BY <2>2, <2>3, <2>4
  <2> QED
    BY <2>3, <2>5, <2>6, <2>7 DEF Vault!vars
<1> QED
  BY <1>1, <1>2

\* The pointer's switch publishes the candidate.
LEMMA SwitchIsPublication ==
  ASSUME IInv, SwitchPointer
  PROVE  cand \in Generations /\ Vault!Publish(cand)
<1> USE ConstantsAssumption DEF IInv, TypeOK, Generations, None
<1>1. /\ cand \in made /\ cand \notin baselines /\ cand \notin published
      /\ dir[cand] = "sealed" /\ copy[cand] = "none"
  BY DEF SwitchPointer, PublisherAgrees
<1>2. /\ active' = cand /\ published' = published \cup {cand}
      /\ UNCHANGED <<dir, copy, baselines, ledgered>>
  BY DEF SwitchPointer, storeVars, snapshotVars
<1>3. active' \notin baselines' /\ published' \ baselines' = (published \ baselines) \cup {cand}
  BY <1>1, <1>2
<1> QED
  BY <1>1, <1>2, <1>3 DEF Vault!Publish

\* A ledger entry cites its generation, a copy archives it, a removal removes it.
LEMMA CiteArchiveRemove ==
  ASSUME IInv,
         (\E r \in Readers : LedgerSnapshot(r)) \/ FinishCopy \/ BeginRemoval
  PROVE  [Vault!Next]_(Vault!vars)
<1> USE ConstantsAssumption DEF IInv, TypeOK, Generations, None
<1>1. ASSUME NEW r \in Readers, LedgerSnapshot(r) PROVE [Vault!Next]_(Vault!vars)
  <2>1. /\ ledgered' = ledgered \cup {gen[r]}
        /\ UNCHANGED <<active, published, baselines, dir, copy>>
    BY <1>1 DEF LedgerSnapshot, othersThanReaders, storeVars, pointerVars
  <2>2. gen[r] \in published \cup {None}
    BY DEF ReadersAgree
  <2>3. CASE gen[r] \in baselines \cup {None}
    BY <2>1, <2>3 DEF Vault!vars
  <2>4. CASE gen[r] \notin baselines \cup {None}
    <3>1. gen[r] \in Generations /\ Available(gen[r])
      BY <2>2, <2>4 DEF PointerAgrees, PublishedIsAvailable
    <3>2. Vault!Cite(gen[r])
      BY <2>1, <2>2, <2>4, <3>1 DEF Vault!Cite, Available
    <3> QED
      BY <3>1, <3>2 DEF Vault!Next
  <2> QED
    BY <2>3, <2>4
<1>2. CASE FinishCopy
  <2>1. /\ path \in Generations /\ dir[path] = "sealed"
        /\ copy' = [copy EXCEPT ![path] = "whole"]
        /\ UNCHANGED <<active, published, baselines, dir, ledgered>>
    BY <1>2 DEF FinishCopy, Step, ArchiverAgrees, othersThanArchiver, pointerVars, snapshotVars
  <2>2. CASE path \in published \ baselines
    <3>1. path \in Generations /\ Vault!Archive(path)
      BY <2>1, <2>2 DEF Vault!Archive
    <3> HIDE DEF IInv, TypeOK, Generations
    <3> QED
      BY <3>1 DEF Vault!Next, Vault!Archive
  <2>3. CASE path \notin published \ baselines
    BY <2>1, <2>3 DEF Vault!vars
  <2> QED
    BY <2>2, <2>3
<1>3. CASE BeginRemoval
  <2>1. /\ path \in Generations /\ dir[path] = "sealed" /\ copy[path] = "whole"
        /\ path \notin ledgered /\ path # active
        /\ dir' = [dir EXCEPT ![path] = "partial"]
        /\ UNCHANGED <<active, published, baselines, copy, ledgered>>
    BY <1>3 DEF BeginRemoval, Step, ArchiverAgrees, othersThanArchiver, pointerVars, snapshotVars
  <2>2. CASE path \in published \ baselines
    <3>1. path \in Generations /\ Vault!Remove(path)
      BY <2>1, <2>2 DEF Vault!Remove
    <3> HIDE DEF IInv, TypeOK, Generations
    <3> QED
      BY <3>1 DEF Vault!Next, Vault!Remove
  <2>3. CASE path \notin published \ baselines
    BY <2>1, <2>3 DEF Vault!vars
  <2> QED
    BY <2>2, <2>3
<1> QED
  BY <1>1, <1>2, <1>3

\* Every other step is quiet.
LEMMA StepIsVaulted ==
  ASSUME IInv, [Next]_vars
  PROVE  [Vault!Next]_(Vault!vars)
<1> USE ConstantsAssumption DEF IInv, TypeOK, Generations, None
<1>1. CASE BeginPublication \/ Seal \/ EndPublication \/ CrashPublication \/ FailPublication
  <2>1. UNCHANGED <<active, published, baselines, ledgered, copy>>
    BY <1>1 DEF BeginPublication, Seal, EndPublication, CrashPublication, FailPublication,
                storeVars, pointerVars, snapshotVars
  <2>2. ASSUME NEW g \in published \ baselines PROVE dir'[g] = "sealed" <=> dir[g] = "sealed"
    <3>1. CASE BeginPublication \/ Seal
      BY <3>1, <2>2 DEF BeginPublication, Seal, NewGeneration, PublisherAgrees
    <3>2. CASE EndPublication \/ CrashPublication
      BY <3>2 DEF EndPublication, CrashPublication, storeVars
    <3>3. CASE FailPublication
      <4>1. g \notin made \ {active}
        BY <2>2, <3>3 DEF FailPublication, PublisherAgrees
      <4> QED
        BY <2>2, <3>3, <4>1 DEF FailPublication
    <3> QED
      BY <1>1, <3>1, <3>2, <3>3
  <2> QED
    BY <2>1, <2>2, QuietStep
<1>2. CASE CopyBaseline \/ InstallBaseline
  BY <1>2, MigrationIsQuiet
<1>3. CASE SwitchPointer
  <2>1. cand \in Generations /\ Vault!Publish(cand)
    BY <1>3, SwitchIsPublication
  <2> HIDE DEF IInv, TypeOK, Generations
  <2> QED
    BY <2>1 DEF Vault!Next, Vault!Publish
<1>4. ASSUME NEW r \in Readers,
             \/ ReadPointer(r) \/ Share(r) \/ Open(r) \/ Pin(r) \/ WriteSnapshot(r)
             \/ Verify(r) \/ CommitRecord(r) \/ Unpin(r)
      PROVE  UNCHANGED Vault!vars
  <2>1. UNCHANGED <<active, published, baselines, ledgered, dir, copy>>
    BY <1>4 DEF ReadPointer, Share, Open, Pin, WriteSnapshot, Verify, CommitRecord, Unpin,
                othersThanReaders, storeVars, pointerVars, snapshotVars
  <2> QED
    BY <2>1, QuietStep
<1>5. CASE \/ BeginArchival \/ LockGeneration \/ CheckGeneration \/ FinishRemoval
           \/ EndArchival \/ InterruptArchival
  <2>1. UNCHANGED <<active, published, baselines, ledgered>>
    BY <1>5 DEF BeginArchival, LockGeneration, CheckGeneration, FinishRemoval, EndArchival,
                InterruptArchival, othersThanArchiver, pointerVars, snapshotVars
  <2>2. \A g \in Generations : dir'[g] = "sealed" <=> dir[g] = "sealed"
    <3>1. CASE FinishRemoval
      BY <3>1 DEF FinishRemoval, ArchiverAgrees
    <3>2. CASE \/ BeginArchival \/ LockGeneration \/ CheckGeneration \/ EndArchival
               \/ InterruptArchival
      BY <3>2 DEF BeginArchival, LockGeneration, CheckGeneration, EndArchival,
                  InterruptArchival, storeVars
    <3> QED
      BY <1>5, <3>1, <3>2
  <2>3. \A g \in Generations : copy'[g] = "whole" <=> copy[g] = "whole"
    <3>1. CASE CheckGeneration
      BY <3>1 DEF CheckGeneration, Continue, Stop
    <3>2. CASE \/ BeginArchival \/ LockGeneration \/ FinishRemoval \/ EndArchival
               \/ InterruptArchival
      BY <3>2 DEF BeginArchival, LockGeneration, FinishRemoval, EndArchival,
                  InterruptArchival, storeVars
    <3> QED
      BY <1>5, <3>1, <3>2
  <2> QED
    BY <2>1, <2>2, <2>3, QuietStep
<1>6. CASE BeginRecovery \/ Quarantine \/ EndRecovery \/ CrashRecovery \/ UNCHANGED vars
  <2>1. UNCHANGED <<active, published, baselines, ledgered, dir, copy>>
    BY <1>6 DEF BeginRecovery, Quarantine, EndRecovery, CrashRecovery, vars,
                othersThanReaders, storeVars, pointerVars, snapshotVars
  <2> QED
    BY <2>1, QuietStep
<1> QED
  BY <1>1, <1>2, <1>3, <1>4, <1>5, <1>6, CiteArchiveRemove
     DEF Next, PublisherStep, ReaderStep, UseOfPin, ArchiverStep, RecoveryStep

\* The lake behaves as a vault of evidence: an assessment becomes current at once and
\* whole, and leaves the lake only when archived, uncited and no longer current.
THEOREM LakeImplementsVault == Spec => ImplementsVault
<1>1. Init => Vault!Init
  BY DEF Init, Vault!Init
<1>2. IInv /\ [Next]_vars => [Vault!Next]_(Vault!vars)
  BY StepIsVaulted
<1> QED
  BY Invariance, <1>1, <1>2, PTL DEF Spec, ImplementsVault, Vault!Spec

--------------------------------------------------------------------------------
(* What a legacy lake's migration retains *)

\* Nothing is removed once the pointer shows the candidate: the publication that switched it
\* ends, or its process stops, without its cleanup taking the baseline away.
NothingRemovedAfterSwitch == pubPc = "switched" => UNCHANGED dir

\* A copy of the lake's own artifacts is kept, and until the switch the publisher has made
\* its candidate, the baseline it installs, and nothing else.
MigrationAgrees ==
  /\ LegacyIsRetained
  /\ pubPc \in {"staged", "sealed"} => made = {cand}
  /\ pubPc = "copying" => \E b \in Generations : made = {cand, b}
  /\ pubPc = "based" => active # None /\ made \subseteq {cand, active}

\* What is available stays so when directories and copies only get better, and when a
\* directory is taken away once its copy is whole.
LEMMA RetainedUndisturbed ==
  ASSUME MigrationAgrees,
         UNCHANGED <<legacy, active, publisherVars>>, baselines \subseteq baselines',
         \A g \in baselines : Available(g) => Available(g)'
  PROVE  MigrationAgrees'
<1>1. LegacyIsRetained'
  BY DEF MigrationAgrees, LegacyIsRetained
<1> QED
  BY <1>1 DEF MigrationAgrees, publisherVars

\* A publication keeps the baseline it installs, except by a cleanup after the switch.
LEMMA PublicationRetains ==
  ASSUME IInv, MigrationAgrees, NothingRemovedAfterSwitch,
         PublisherStep \/ FailPublication \/ CrashPublication
  PROVE  MigrationAgrees'
<1> USE DEF IInv, TypeOK, PublisherAgrees, MigrationAgrees, storeVars, pointerVars
<1>1. CASE BeginPublication
  <2>1. PICK g \in Generations : /\ dir[g] = "none" /\ dir' = [dir EXCEPT ![g] = "staged"]
                                 /\ cand' = g /\ made' = {g}
    BY <1>1 DEF BeginPublication, NewGeneration
  <2>2. pubPc' = "staged" /\ UNCHANGED <<copy, legacy, active, baselines>>
    BY <1>1 DEF BeginPublication
  <2>3. LegacyIsRetained'
    BY <2>1, <2>2 DEF LegacyIsRetained, Available
  <2> QED
    BY <2>1, <2>2, <2>3
<1>2. CASE Seal
  <2>1. /\ pubPc = "staged" /\ pubPc' = "sealed" /\ dir' = [dir EXCEPT ![cand] = "sealed"]
        /\ UNCHANGED <<copy, cand, made, legacy, active, baselines>>
    BY <1>2 DEF Seal
  <2>2. LegacyIsRetained'
    BY <2>1 DEF LegacyIsRetained, Available
  <2> QED
    BY <2>1, <2>2
<1>3. CASE CopyBaseline
  <2>1. PICK g \in Generations : made' = made \cup {g}
    BY <1>3 DEF CopyBaseline
  <2>2. /\ pubPc = "sealed" /\ pubPc' = "copying" /\ active = None
        /\ UNCHANGED <<legacy, active, cand>>
    BY <1>3 DEF CopyBaseline
  <2> QED
    BY <2>1, <2>2 DEF LegacyIsRetained
<1>4. CASE InstallBaseline
  <2> DEFINE b == CHOOSE x \in made : x # cand
  <2>1. b \in made /\ b # cand
    BY <1>4 DEF InstallBaseline
  <2>2. /\ dir' = [dir EXCEPT ![b] = "sealed"] /\ active' = b
        /\ pubPc = "copying" /\ pubPc' = "based"
        /\ UNCHANGED <<legacy, baselines, cand, made>>
    BY <1>4 DEF InstallBaseline
  <2> HIDE DEF b
  <2>3. b \in baselines /\ b \in Generations /\ dir'[b] = "sealed"
    BY <2>1, <2>2
  <2>4. LegacyIsRetained'
    BY <2>2, <2>3 DEF LegacyIsRetained, Available
  <2> QED
    BY <2>1, <2>2, <2>3, <2>4 DEF Generations, None
<1>5. CASE SwitchPointer
  <2>1. /\ pubPc' = "switched" /\ UNCHANGED <<dir, copy, legacy, baselines>>
        /\ legacy => active # None
    BY <1>5 DEF SwitchPointer
  <2> QED
    BY <2>1 DEF LegacyIsRetained, Available
<1>6. CASE EndPublication \/ CrashPublication
  BY <1>6 DEF EndPublication, CrashPublication, Unlocked, LegacyIsRetained, Available
<1>7. CASE FailPublication
  <2>1. /\ pubPc # "idle" /\ pubPc' = "idle"
        /\ \A g \in Generations \ (made \ {active}) : dir'[g] = dir[g]
        /\ UNCHANGED <<copy, legacy, active, baselines>>
    BY <1>7 DEF FailPublication, Unlocked
  <2>2. ASSUME active # None, NEW g \in baselines PROVE dir'[g] = dir[g]
    BY <2>1, <2>2 DEF NothingRemovedAfterSwitch, PublisherPC
  <2>3. LegacyIsRetained'
    BY <2>1, <2>2 DEF LegacyIsRetained, Available
  <2> QED
    BY <2>1, <2>3
<1> QED
  BY <1>1, <1>2, <1>3, <1>4, <1>5, <1>6, <1>7 DEF PublisherStep

\* Nobody but the publisher can take the baseline: the archiver removes what has a whole copy.
LEMMA MigrationStep ==
  IInv /\ MigrationAgrees /\ [Next /\ NothingRemovedAfterSwitch]_vars => MigrationAgrees'
<1> SUFFICES ASSUME IInv, MigrationAgrees, [Next /\ NothingRemovedAfterSwitch]_vars
             PROVE  MigrationAgrees'
  OBVIOUS
<1>1. ASSUME NEW r \in Readers, ReaderStep(r) \/ UseOfPin(r) PROVE MigrationAgrees'
  <2>1. UNCHANGED <<dir, copy, legacy, active, baselines, publisherVars>>
    BY <1>1 DEF ReaderStep, UseOfPin, ReadPointer, Share, Open, Pin, WriteSnapshot, LedgerSnapshot,
                Verify, CommitRecord, Unpin, othersThanReaders, storeVars, pointerVars
  <2> QED
    BY <2>1, RetainedUndisturbed DEF Available
<1>2. CASE BeginArchival \/ ArchiverStep \/ InterruptArchival
  <2>1. UNCHANGED <<legacy, active, baselines, publisherVars>>
    BY <1>2 DEF BeginArchival, ArchiverStep, LockGeneration, CheckGeneration, FinishCopy, BeginRemoval,
                FinishRemoval, EndArchival, InterruptArchival, othersThanArchiver, pointerVars
  <2>2. ASSUME NEW g \in Generations, Available(g) PROVE Available(g)'
    <3>1. CASE CheckGeneration
      BY <2>2, <3>1 DEF CheckGeneration, Available, IInv, TypeOK
    <3>2. CASE FinishCopy
      BY <2>2, <3>2 DEF FinishCopy, Step, Available, IInv, TypeOK
    <3>3. CASE BeginRemoval \/ FinishRemoval
      <4>1. copy[path] = "whole" /\ copy' = copy /\ \A h \in Generations \ {path} : dir'[h] = dir[h]
        BY <3>3 DEF BeginRemoval, FinishRemoval, Step, Continue, IInv, TypeOK, ArchiverAgrees
      <4> QED
        BY <2>2, <4>1 DEF Available
    <3>4. CASE UNCHANGED <<dir, copy>>
      BY <2>2, <3>4 DEF Available
    <3> QED
      BY <1>2, <3>1, <3>2, <3>3, <3>4 DEF BeginArchival, ArchiverStep, LockGeneration, EndArchival,
         InterruptArchival, storeVars
  <2> QED
    BY <2>1, <2>2, RetainedUndisturbed DEF IInv, TypeOK
<1>3. CASE BeginRecovery \/ RecoveryStep \/ CrashRecovery \/ UNCHANGED vars
  <2>1. UNCHANGED <<dir, copy, legacy, active, baselines, publisherVars>>
    BY <1>3 DEF BeginRecovery, RecoveryStep, Quarantine, EndRecovery, CrashRecovery, vars,
                othersThanReaders, storeVars, pointerVars
  <2> QED
    BY <2>1, RetainedUndisturbed DEF Available
<1> QED
  BY <1>1, <1>2, <1>3, PublicationRetains DEF Next

\* A legacy lake's artifacts are retained whenever no directory is removed after the pointer
\* was switched.  The removal that refutes LegacyIsRetained (serialized_publication's cleanup
\* when _switch_pointer's fsync or reconcile_published_tasks raises) is thus the only one that
\* can: crashes, earlier failures, later publications and archival cannot.
THEOREM OnlyLateCleanupLosesLegacy ==
  Spec /\ [][NothingRemovedAfterSwitch]_vars => []LegacyIsRetained
<1>1. Init => MigrationAgrees
  BY DEF Init, MigrationAgrees, LegacyIsRetained
<1>2. IInv /\ MigrationAgrees /\ [Next]_vars /\ [NothingRemovedAfterSwitch]_vars => MigrationAgrees'
  BY MigrationStep
<1>3. MigrationAgrees => LegacyIsRetained
  BY DEF MigrationAgrees
<1> QED
  BY <1>1, <1>2, <1>3, Invariance, PTL DEF Spec

================================================================================
