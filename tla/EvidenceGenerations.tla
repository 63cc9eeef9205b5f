-------------------------- MODULE EvidenceGenerations --------------------------
(***************************************************************************)
(* The evidence generations of one local lake (generations.py,              *)
(* generation_retention.py, snapshot_recovery.py and the writers of         *)
(* snapshots and receipts): a publisher stages, seals and installs whole    *)
(* generations behind one pointer, readers pin what the pointer shows,      *)
(* retention moves old generations to an archive, snapshots and receipts    *)
(* refer to the generation they were made from.  Any process may stop       *)
(* between two steps; the operating system then frees its locks.            *)
(*                                                                          *)
(* Locks: flock(lake) is exclusive for the publisher and the archiver,      *)
(* shared for readers of a lake that has no generation; flock(generation)   *)
(* is shared for its readers, exclusive for the archiver; chain_lock is     *)
(* exclusive for snapshot writers and for snapshot recovery.                *)
(* Generations are named by the order in which they are created.            *)
(***************************************************************************)
EXTENDS Integers, FiniteSets

CONSTANTS
  Readers,         \* threads that read the lake
  MaxGenerations,  \* bound: generation directories ever created
  KeepLatest,      \* --keep-latest
  LegacyLake       \* whether the lake may start with artifacts of its own

ASSUME ConstantsAssumption ==
  /\ MaxGenerations \in Nat
  /\ KeepLatest \in Nat \ {0}
  /\ LegacyLake \in SUBSET BOOLEAN

Generations == 1..MaxGenerations
None == 0  \* no pointer; as a reader's generation, the lake's own artifacts

VARIABLES
  legacy,      \* the lake had artifacts of its own before its first generation
  dir,         \* the directory of each generation
  copy,        \* its copy in the archive
  mtime,       \* the modification time of its directory ...
  clock,       \* ... and the last such time given
  active,      \* .active-generation
  published,   \* history: the generations the pointer ever showed
  baselines,   \* history: the generations made from the lake's own artifacts
  pubPc, cand, made,       \* publisher: step, candidate, directories it made
  archPc, todo, path,      \* archiver: step, directories to examine, the current one
  readerPc, gen, shares,   \* reader: step, generation, holds flock(lake) shared
  ledgered,    \* generations that snapshots in the ledger refer to
  orphans,     \* generations of snapshot files the ledger does not list
  journal,     \* the files pending.json lists, {} when there is none
  recovering,  \* reconcile-snapshots is running
  records      \* generations of committed receipts and workpapers

publisherVars == <<pubPc, cand, made>>
archiverVars == <<archPc, todo, path>>
readerVars == <<readerPc, gen, shares>>
snapshotVars == <<ledgered, orphans, journal, recovering>>
times == <<mtime, clock>>
storeVars == <<dir, copy, times>>
pointerVars == <<legacy, active, published, baselines>>
vars == <<publisherVars, archiverVars, readerVars, snapshotVars, storeVars, pointerVars, records>>

PublisherPC == {"idle", "staged", "sealed", "copying", "based", "switched"}
ArchiverPC == {"idle", "next", "checking", "copying", "copied", "removing"}
ReaderPC == {"idle", "unpublished", "open", "wait", "pinned", "frozen", "verified"}

Init ==
  /\ legacy \in LegacyLake
  /\ dir = [g \in Generations |-> "none"]
  /\ copy = [g \in Generations |-> "none"]
  /\ mtime = [g \in Generations |-> 0]
  /\ clock = 0
  /\ active = None
  /\ published = {} /\ baselines = {}
  /\ pubPc = "idle" /\ cand = None /\ made = {}
  /\ archPc = "idle" /\ todo = {} /\ path = None
  /\ readerPc = [r \in Readers |-> "idle"]
  /\ gen = [r \in Readers |-> None]
  /\ shares = [r \in Readers |-> FALSE]
  /\ ledgered = {} /\ orphans = {} /\ journal = {}
  /\ recovering = FALSE
  /\ records = {}

(* Who holds which lock *)
LakeLocked == pubPc # "idle" \/ archPc # "idle"
LakeShared == \E r \in Readers : shares[r]
Holding(r) == readerPc[r] \in {"pinned", "frozen"}
ReadersOf(g) == {r \in Readers : Holding(r) /\ gen[r] = g}
Examining(g) == path = g
ChainFree == ~recovering /\ \A r \in Readers : readerPc[r] # "frozen"

Pinning(r) ==
  \/ readerPc[r] \in {"unpublished", "open", "wait"}
  \/ readerPc[r] = "idle" /\ gen[r] # None  \* it starts the loop again

Exists(g) == dir[g] \in {"staged", "sealed", "partial"}

--------------------------------------------------------------------------------
(* The publisher: serialized_publication around run_pipeline *)

\* Mutant: a time ahead of the clock that orders the directories.
TouchAhead(g) ==
  /\ UNCHANGED clock
  /\ mtime' = [mtime EXCEPT ![g] = clock + 1]

Touch(g) ==
  /\ clock' = clock + 1
  /\ mtime' = [mtime EXCEPT ![g] = clock + 1]

\* generations.new_generation: a directory nobody has used
NewGeneration(g) ==
  /\ dir[g] = "none"
  /\ \A h \in Generations : h < g => dir[h] # "none"
  /\ dir' = [dir EXCEPT ![g] = "staged"]
  /\ Touch(g)

BeginPublication ==
  /\ ~LakeLocked /\ ~LakeShared
  /\ \E g \in Generations :
       /\ NewGeneration(g) /\ cand' = g /\ made' = {g}
       /\ legacy /\ active = None => g < MaxGenerations  \* bound: the baseline's
  /\ pubPc' = "staged"
  /\ UNCHANGED <<copy, pointerVars, archiverVars, readerVars, snapshotVars, records>>

Seal ==
  /\ pubPc = "staged"
  /\ pubPc' = "sealed"
  /\ dir' = [dir EXCEPT ![cand] = "sealed"]
  /\ UNCHANGED <<copy, times, cand, made, pointerVars, archiverVars, readerVars, snapshotVars,
                 records>>

\* publish_generation, first publication over a lake with artifacts of its own
CopyBaseline ==
  /\ pubPc = "sealed" /\ active = None /\ legacy
  /\ \E g \in Generations :
       /\ NewGeneration(g)
       /\ made' = made \cup {g}
       /\ baselines' = baselines \cup {g}
  /\ pubPc' = "copying"
  /\ UNCHANGED <<copy, legacy, active, published, cand, archiverVars, readerVars, snapshotVars,
                 records>>

\* seal_generation(baseline), _switch_pointer(baseline), compatibility links
InstallBaseline ==
  /\ pubPc = "copying"
  /\ LET g == CHOOSE b \in made : b # cand IN
       /\ dir' = [dir EXCEPT ![g] = "sealed"]
       /\ active' = g
       /\ published' = published \cup {g}
  /\ pubPc' = "based"
  /\ UNCHANGED <<copy, times, legacy, baselines, cand, made, archiverVars, readerVars,
                 snapshotVars, records>>

\* Mutant: the pointer is switched before the candidate is sealed.
SwitchUnsealed ==
  /\ pubPc \in {"staged", "sealed"} /\ (active # None \/ ~legacy)
  /\ active' = cand
  /\ published' = published \cup {cand}
  /\ pubPc' = "switched"
  /\ UNCHANGED <<storeVars, legacy, baselines, cand, made, archiverVars, readerVars,
                 snapshotVars, records>>

SwitchPointer ==
  /\ \/ pubPc = "sealed" /\ (active # None \/ ~legacy)
     \/ pubPc = "based"
  /\ active' = cand
  /\ published' = published \cup {cand}
  /\ pubPc' = "switched"
  /\ UNCHANGED <<storeVars, legacy, baselines, cand, made, archiverVars, readerVars,
                 snapshotVars, records>>

Unlocked == pubPc' = "idle" /\ cand' = None /\ made' = {}

\* after reconcile_published_tasks
EndPublication ==
  /\ pubPc = "switched"
  /\ Unlocked
  /\ UNCHANGED <<storeVars, pointerVars, archiverVars, readerVars, snapshotVars, records>>

\* Mutant: the cleanup also removes the directory the pointer was switched to.
CleanUpAll ==
  /\ pubPc # "idle"
  /\ dir' = [g \in Generations |-> IF g \in made THEN "gone" ELSE dir[g]]
  /\ Unlocked
  /\ UNCHANGED <<copy, times, pointerVars, archiverVars, readerVars, snapshotVars, records>>

\* serialized_publication: the exception handler; rmtree itself may fail midway
FailPublication ==
  /\ pubPc # "idle"
  /\ LET doomed == made \ {active} IN
       \E left \in SUBSET doomed :
         /\ dir' = [g \in Generations |->
                      IF g \in left THEN "partial" ELSE IF g \in doomed THEN "gone" ELSE dir[g]]
  /\ Unlocked
  /\ UNCHANGED <<copy, times, pointerVars, archiverVars, readerVars, snapshotVars, records>>

\* The process stops: what it made stays as it is.
CrashPublication ==
  /\ pubPc # "idle"
  /\ Unlocked
  /\ UNCHANGED <<storeVars, pointerVars, archiverVars, readerVars, snapshotVars, records>>

--------------------------------------------------------------------------------
(* Readers: pin_generation, and what they do with the pin *)

Turn(r, from, to) == readerPc[r] = from /\ readerPc' = [readerPc EXCEPT ![r] = to]
othersThanReaders == <<publisherVars, archiverVars, storeVars, pointerVars>>

ReadPointer(r) ==
  /\ \/ active = None /\ Turn(r, "idle", "unpublished")
     \/ active # None /\ Turn(r, "idle", "open")
  /\ gen' = [gen EXCEPT ![r] = active]
  /\ UNCHANGED <<shares, othersThanReaders, snapshotVars, records>>

\* Mutant: the pointer is not read again under the shared lock.
ShareStale(r) ==
  /\ ~LakeLocked
  /\ Turn(r, "unpublished", "pinned")
  /\ shares' = [shares EXCEPT ![r] = TRUE]
  /\ UNCHANGED <<gen, othersThanReaders, snapshotVars, records>>

\* flock(lake, LOCK_SH), then the pointer is read again under the lock
Share(r) ==
  /\ ~LakeLocked
  /\ \/ active = None /\ Turn(r, "unpublished", "pinned")
     \/ active # None /\ Turn(r, "unpublished", "open")
  /\ gen' = [gen EXCEPT ![r] = active]
  /\ shares' = [shares EXCEPT ![r] = TRUE]
  /\ UNCHANGED <<othersThanReaders, snapshotVars, records>>

\* os.open(generation); a directory that is gone starts the loop again
Open(r) ==
  /\ \/ Turn(r, "open", "wait") /\ Exists(gen[r])
     \/ Turn(r, "open", "idle") /\ ~Exists(gen[r])
  /\ UNCHANGED <<gen, shares, othersThanReaders, snapshotVars, records>>

\* Mutant: a directory that is gone when its lock is granted is not given up.
PinOnce(r) ==
  /\ ~Examining(gen[r])
  /\ Turn(r, "wait", "pinned") /\ Exists(gen[r])
  /\ shares' = [shares EXCEPT ![r] = FALSE]
  /\ UNCHANGED <<gen, othersThanReaders, snapshotVars, records>>

\* flock(generation, LOCK_SH), then is_dir()
Pin(r) ==
  /\ ~Examining(gen[r])
  /\ \/ /\ Turn(r, "wait", "pinned") /\ Exists(gen[r])
        /\ shares' = [shares EXCEPT ![r] = FALSE]
     \/ Turn(r, "wait", "idle") /\ ~Exists(gen[r]) /\ UNCHANGED shares
  /\ UNCHANGED <<gen, othersThanReaders, snapshotVars, records>>

Released(r) ==
  /\ readerPc' = [readerPc EXCEPT ![r] = "idle"]
  /\ gen' = [gen EXCEPT ![r] = None]
  /\ shares' = [shares EXCEPT ![r] = FALSE]

\* The read ends, or its process stops.
Unpin(r) ==
  /\ readerPc[r] # "idle" \/ gen[r] # None
  /\ Released(r)
  /\ UNCHANGED <<othersThanReaders, snapshotVars, records>>

\* write_assessment_snapshot up to write_json
WriteSnapshot(r) ==
  /\ Turn(r, "pinned", "frozen")
  /\ ChainFree /\ journal = {} /\ orphans = {}
  /\ orphans' = {gen[r]}
  /\ UNCHANGED <<gen, shares, ledgered, journal, recovering, othersThanReaders, records>>

\* ... and append_jsonl to the ledger
LedgerSnapshot(r) ==
  /\ Turn(r, "frozen", "pinned")
  /\ orphans' = orphans \ {gen[r]}
  /\ ledgered' = ledgered \cup {gen[r]}
  /\ UNCHANGED <<gen, shares, journal, recovering, othersThanReaders, records>>

\* verify_task (or a workpaper) read an intact generation and returned: the pin
\* is released, the receipt is in a transaction that is still open.
Verify(r) ==
  /\ gen[r] # None /\ dir[gen[r]] = "sealed"
  /\ Turn(r, "pinned", "verified")
  /\ UNCHANGED <<gen, shares, othersThanReaders, snapshotVars, records>>

\* session.commit() in the endpoint
CommitRecord(r) ==
  /\ readerPc[r] = "verified"
  /\ records' = records \cup {gen[r]}
  /\ Released(r)
  /\ UNCHANGED <<othersThanReaders, snapshotVars>>

--------------------------------------------------------------------------------
(* The archiver: archive_generations with --archive-to *)

References == ledgered \cup records

\* paths[:keep_latest], newest first
Paths == {g \in Generations : Exists(g)}
Latest == {g \in Paths : Cardinality({h \in Paths : mtime[h] > mtime[g]}) < KeepLatest}

\* publication_lock, retained_generations, the paths before the cutoff.
\* Which directories are older than the cutoff depends on time alone.
BeginArchival ==
  /\ ~LakeLocked /\ ~LakeShared
  /\ ChainFree /\ orphans = {}
  /\ \E cutoff \in 1..clock :
       todo' = {g \in Paths : mtime[g] <= cutoff} \ (References \cup Latest \cup {active})
  /\ todo' # {}
  /\ archPc' = "next"
  /\ UNCHANGED <<path, publisherVars, readerVars, snapshotVars, storeVars, pointerVars, records>>

othersThanArchiver == <<publisherVars, readerVars, snapshotVars, pointerVars, records>>
Step(from, to) == archPc = from /\ archPc' = to
Continue == archPc' = "next" /\ path' = None /\ UNCHANGED todo
Stop == archPc' = "idle" /\ todo' = {} /\ path' = None

\* Mutant: retention does not ask for the generation's lock.
LockNothing ==
  /\ archPc = "next"
  /\ \E g \in todo : todo' = todo \ {g} /\ path' = g
  /\ archPc' = "checking"
  /\ UNCHANGED <<storeVars, othersThanArchiver>>

\* Mutant: retention waits for a busy generation's readers.
LockBlocking ==
  /\ archPc = "next"
  /\ \E g \in todo :
       /\ \A h \in todo : mtime[h] <= mtime[g]
       /\ ReadersOf(g) = {}
       /\ todo' = todo \ {g} /\ path' = g
  /\ archPc' = "checking"
  /\ UNCHANGED <<storeVars, othersThanArchiver>>

\* flock(generation, LOCK_EX | LOCK_NB), newest first; a busy one is left for
\* another day
LockGeneration ==
  /\ archPc = "next"
  /\ \E g \in todo :
       /\ \A h \in todo : mtime[h] <= mtime[g]
       /\ todo' = todo \ {g}
       /\ \/ ReadersOf(g) # {} /\ UNCHANGED <<archPc, path>>
          \/ ReadersOf(g) = {} /\ archPc' = "checking" /\ path' = g
  /\ UNCHANGED <<storeVars, othersThanArchiver>>

\* Mutant: the references read before the lock are taken for current.
CheckStaleReferences ==
  /\ archPc = "checking"
  /\ \/ dir[path] # "sealed" /\ Stop /\ UNCHANGED copy
     \/ dir[path] = "sealed" /\ archPc' = "copying" /\ UNCHANGED <<todo, path, copy>>
  /\ UNCHANGED <<dir, times, othersThanArchiver>>

\* Mutant: an existing copy is taken for a verified one.
CheckUnverifiedCopy ==
  /\ archPc = "checking"
  /\ ChainFree /\ orphans = {} /\ path \notin References /\ dir[path] = "sealed"
  /\ \/ copy[path] # "none" /\ archPc' = "copied" /\ UNCHANGED copy
     \/ /\ copy[path] = "none" /\ archPc' = "copying"
        /\ copy' = [copy EXCEPT ![path] = "partial"]
  /\ UNCHANGED <<todo, path, dir, times, othersThanArchiver>>

\* retained_generations again, verify_generation, and the copy already there:
\* the run goes on with the next path, raises, or has this one to archive
CheckGeneration ==
  /\ archPc = "checking"
  /\ ChainFree
  /\ \/ orphans = {} /\ path \in References /\ Continue /\ UNCHANGED copy
     \/ /\ \/ orphans # {}
           \/ path \notin References /\ (dir[path] # "sealed" \/ copy[path] = "partial")
        /\ Stop /\ UNCHANGED copy
     \/ /\ orphans = {} /\ path \notin References /\ dir[path] = "sealed"
        /\ UNCHANGED <<todo, path>>
        /\ \/ copy[path] = "whole" /\ archPc' = "copied" /\ UNCHANGED copy
           \/ /\ copy[path] = "none" /\ archPc' = "copying"
              /\ copy' = [copy EXCEPT ![path] = "partial"]
  /\ UNCHANGED <<dir, times, othersThanArchiver>>

\* copytree and verify_generation(destination), flushed
FinishCopy ==
  /\ Step("copying", "copied")
  /\ copy' = [copy EXCEPT ![path] = "whole"]
  /\ UNCHANGED <<todo, path, dir, times, othersThanArchiver>>

\* shutil.rmtree(path) begins ...
BeginRemoval ==
  /\ Step("copied", "removing")
  /\ dir' = [dir EXCEPT ![path] = "partial"]
  /\ UNCHANGED <<todo, path, copy, times, othersThanArchiver>>

\* ... and ends
FinishRemoval ==
  /\ archPc = "removing"
  /\ Continue
  /\ dir' = [dir EXCEPT ![path] = "gone"]
  /\ UNCHANGED <<copy, times, othersThanArchiver>>

EndArchival ==
  /\ archPc = "next" /\ todo = {}
  /\ Stop
  /\ UNCHANGED <<storeVars, othersThanArchiver>>

\* The process stops, or a file operation fails.  What rmtree had removed by
\* then may have made the directory the most recently modified one.
InterruptArchival ==
  /\ archPc # "idle"
  /\ \/ UNCHANGED times
     \/ archPc = "removing" /\ Touch(path)
  /\ Stop
  /\ UNCHANGED <<dir, copy, othersThanArchiver>>

--------------------------------------------------------------------------------
(* The operator's reconcile-snapshots --apply *)

\* Mutant: recovery does not wait for the writer that holds the chain.
BeginRecoveryUnlocked ==
  /\ ~recovering
  /\ journal # {} \/ orphans # {}
  /\ journal' = IF journal = {} THEN orphans ELSE journal
  /\ recovering' = TRUE
  /\ UNCHANGED <<ledgered, orphans, othersThanReaders, readerVars, records>>

\* The intent journal: files no ledger entry lists, or those of an earlier run
BeginRecovery ==
  /\ ChainFree
  /\ journal # {} \/ orphans # {}
  /\ journal' = IF journal = {} THEN orphans ELSE journal
  /\ recovering' = TRUE
  /\ UNCHANGED <<ledgered, orphans, othersThanReaders, readerVars, records>>

Quarantine ==
  /\ recovering
  /\ \E file \in journal \cap orphans : orphans' = orphans \ {file}
  /\ UNCHANGED <<ledgered, journal, recovering, othersThanReaders, readerVars, records>>

\* the archive's manifest, then pending.json is unlinked
EndRecovery ==
  /\ recovering /\ journal \cap orphans = {}
  /\ journal' = {}
  /\ recovering' = FALSE
  /\ UNCHANGED <<ledgered, orphans, othersThanReaders, readerVars, records>>

CrashRecovery ==
  /\ recovering
  /\ recovering' = FALSE
  /\ UNCHANGED <<ledgered, orphans, journal, othersThanReaders, readerVars, records>>

--------------------------------------------------------------------------------
PublisherStep ==
  \/ BeginPublication \/ Seal \/ CopyBaseline \/ InstallBaseline
  \/ SwitchPointer \/ EndPublication

ReaderStep(r) == ReadPointer(r) \/ Share(r) \/ Open(r) \/ Pin(r)

UseOfPin(r) == WriteSnapshot(r) \/ LedgerSnapshot(r) \/ Verify(r) \/ CommitRecord(r) \/ Unpin(r)

ArchiverStep ==
  \/ LockGeneration \/ CheckGeneration \/ FinishCopy \/ BeginRemoval
  \/ FinishRemoval \/ EndArchival

RecoveryStep == Quarantine \/ EndRecovery

Next ==
  \/ PublisherStep \/ FailPublication \/ CrashPublication
  \/ \E r \in Readers : ReaderStep(r) \/ UseOfPin(r)
  \/ BeginArchival \/ ArchiverStep \/ InterruptArchival
  \/ BeginRecovery \/ RecoveryStep \/ CrashRecovery

Spec == Init /\ [][Next]_vars

\* A started publication, archival or recovery goes on unless its process stops;
\* whoever is blocked on a lock gets it in the end, if it is released again and again.
Fairness ==
  /\ WF_vars(PublisherStep /\ pubPc # "idle")
  /\ WF_vars(ArchiverStep) /\ SF_vars(CheckGeneration)
  /\ WF_vars(RecoveryStep)
  /\ \A r \in Readers :
       /\ WF_vars(ReaderStep(r) /\ Pinning(r))
       /\ SF_vars(Share(r))
       /\ SF_vars(Pin(r))
       /\ WF_vars(LedgerSnapshot(r) \/ CommitRecord(r))

FairSpec == Spec /\ Fairness

--------------------------------------------------------------------------------
(* Properties *)

\* Every variable keeps its kind of value (the state of the modules named above).
TypeOK ==
  /\ legacy \in BOOLEAN
  /\ dir \in [Generations -> {"none", "staged", "sealed", "partial", "gone"}]
  /\ copy \in [Generations -> {"none", "partial", "whole"}]
  /\ mtime \in [Generations -> 0..clock]
  /\ clock \in Nat
  /\ active \in Generations \cup {None}
  /\ published \subseteq Generations
  /\ baselines \subseteq Generations
  /\ pubPc \in PublisherPC
  /\ cand \in Generations \cup {None}
  /\ made \subseteq Generations
  /\ archPc \in ArchiverPC
  /\ todo \subseteq Generations
  /\ path \in Generations \cup {None}
  /\ readerPc \in [Readers -> ReaderPC]
  /\ gen \in [Readers -> Generations \cup {None}]
  /\ shares \in [Readers -> BOOLEAN]
  /\ ledgered \subseteq Generations \cup {None}
  /\ orphans \subseteq Generations \cup {None}
  /\ journal \subseteq Generations \cup {None}
  /\ recovering \in BOOLEAN
  /\ records \subseteq Generations

\* The pointer only ever shows a sealed generation, whatever failed, crashed or was
\* archived (publish_generation, the cleanup of serialized_publication, retention).
ActiveIsSealed == active # None => dir[active] = "sealed"

\* A generation is whole in the lake, or its verified copy is in the archive.
Available(g) == dir[g] = "sealed" \/ copy[g] = "whole"

\* Evidence that was ever published stays available, in the lake or in the archive,
\* across interrupted archivals, failed publications and resumed copies.
PublishedIsAvailable == \A g \in published \ baselines : Available(g)

\* While a reader holds a whole generation, retention does not take a file of it
\* ("active readers ... are protected", docs/OPERATIONS_CONTRACTS.md).
PinnedStaysWhole ==
  [][\A r \in Readers :
       Holding(r) /\ Holding(r)' /\ gen[r] \notin baselines \cup {None} /\ dir[gen[r]] = "sealed"
         => dir'[gen[r]] = "sealed"]_vars

\* Retention never removes the inputs of a snapshot the ledger lists, though snapshots
\* are taken while it runs ("retained snapshots ... are protected").
SnapshotInputsStay ==
  [][\A g \in ledgered \ (baselines \cup {None}) : dir[g] = "sealed" => dir'[g] = "sealed"]_vars

\* A reader of the lake's own artifacts never reads beside a publication: none is
\* running and none has been, so that it sees no mix of two assessments.
LegacyReaderIsAlone ==
  \A r \in Readers : Holding(r) /\ gen[r] = None => active = None /\ pubPc = "idle"

\* Recovery takes no snapshot out of its writer's hands: the file is still there, in no
\* journal, when its ledger entry is written (chain_lock around both).
FrozenIsInPlace ==
  \A r \in Readers : readerPc[r] = "frozen" => gen[r] \in orphans /\ journal = {}

\* A reader that wants a generation pins one or gives up, though retention may take the
\* ones it tries first (the retry loop of pin_generation).
ReadersArePinned == \A r \in Readers : Pinning(r) ~> ~Pinning(r)

\* Publication and archival give the lake's lock back (no flock waits for another in a
\* circle; retention waits for the snapshot chain while it holds the lake).
LakeIsUnlocked == LakeLocked ~> ~LakeLocked

\* The lake behaves as a vault of evidence.  What was migrated from a legacy lake's own
\* artifacts is not in the vault (see LegacyIsRetained).
Vault == INSTANCE EvidenceVault WITH
  current <- IF active \in baselines THEN None ELSE active,
  inLake <- {g \in published \ baselines : dir[g] = "sealed"},
  archived <- {g \in published \ baselines : copy[g] = "whole"},
  cited <- ledgered \ (baselines \cup {None})
ImplementsVault == Vault!Spec

\* "Existing local lakes are migrated by retaining a copy of their previous artifacts"
\* (docs/ASSESSMENT_GENERATIONS.md): once the pointer hides them, a copy is kept.
LegacyIsRetained == legacy /\ active # None => \E g \in baselines : Available(g)

\* "An interrupted archival resumes when the archived copy is complete"
\* (docs/OPERATIONS_CONTRACTS.md), instead of stopping the run at that generation.
ArchivalResumes ==
  archPc = "checking" /\ copy[path] = "whole" /\ path \notin References /\ orphans = {} /\ ChainFree
    => ENABLED (CheckGeneration /\ archPc' = "copied")
================================================================================
