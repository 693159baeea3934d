------------------------------ MODULE BackupRun ------------------------------
(***************************************************************************)
(* Runs of the backup producer (runBackupOnce in backup/runner.ts) against *)
(* the create-only object storage (backup/localFakeStorage.ts), and the    *)
(* migration runner, with which they share the migration barrier.          *)
(*                                                                         *)
(* An await is a pair of steps: the effect in the database or the storage, *)
(* and the run going on.  In between a signal, the snapshot timer or a     *)
(* lost connection may abort the run, and an operation of the storage may  *)
(* still be under way when the run has given up.                           *)
(***************************************************************************)
EXTENDS Integers, FiniteSets

CONSTANTS
    Runs, Migrator, Nobody,
    MaxMigrations,    \* bound of the ledger
    MaxFaults         \* bound: signals, timeouts, lost sessions, failures

BackupAssumption ==
    /\ Migrator \notin Runs /\ Nobody \notin Runs \cup {Migrator}
    /\ MaxMigrations \in Nat /\ MaxFaults \in Nat

VARIABLES
    ledger,      \* how many migrations are applied
    mutex,       \* session that holds BACKUP_ADVISORY_LOCK
    barrier,     \* session that holds MIGRATION_ADVISORY_LOCK
    session,     \* the connection of a run; "known": lost, and the client knows
    stage,
    aborted,     \* the abort signal of a run
    discard,     \* discardClient
    snapshot,    \* the ledger a run has read in its snapshot
    dump,        \* pg_dump: none, running, exact, or mixed (a migration came in)
    inflight,    \* operation of the storage not settled for the run yet
    archive, manifest,   \* objects: none, partial, linked, stored, corrupt
    result,
    faults

database == <<ledger, mutex, barrier, session>>
storage  == <<inflight, archive, manifest>>
vars == <<ledger, mutex, barrier, session, stage, aborted, discard, snapshot, dump,
          inflight, archive, manifest, result, faults>>

Stages  == {"idle", "connected", "locked", "barred", "snapshot", "creating", "dumping",
            "dumped", "committed", "released", "finalizing", "verifying", "publishing",
            "checking", "cleanup", "ended"}
Objects == {"none", "partial", "linked", "stored", "corrupt"}
Results == {"none", "complete", "skipped_overlapping", "blocked_by_migration",
            "preflight_rejected", "incomplete"}

TypeOK ==
    /\ ledger \in 0..MaxMigrations
    /\ mutex \in Runs \cup {Nobody} /\ barrier \in Runs \cup {Migrator, Nobody}
    /\ session \in [Runs -> {"none", "open", "lost", "known", "closed", "pooled"}]
    /\ stage \in [Runs -> Stages]
    /\ aborted \in [Runs -> BOOLEAN] /\ discard \in [Runs -> BOOLEAN]
    /\ snapshot \in [Runs -> 0..MaxMigrations]
    /\ dump \in [Runs -> {"none", "running", "exact", "mixed"}]
    /\ inflight \in [Runs -> {"none", "create", "finalize", "publish"}]
    /\ archive \in [Runs -> Objects] /\ manifest \in [Runs -> Objects]
    /\ result \in [Runs -> Results] /\ faults \in 0..MaxFaults
    /\ \A r \in Runs : session[r] \notin {"open", "pooled"} => mutex # r /\ barrier # r

Init ==
    /\ ledger = 0 /\ mutex = Nobody /\ barrier = Nobody
    /\ session = [r \in Runs |-> "none"] /\ stage = [r \in Runs |-> "idle"]
    /\ aborted = [r \in Runs |-> FALSE] /\ discard = [r \in Runs |-> FALSE]
    /\ snapshot = [r \in Runs |-> 0] /\ dump = [r \in Runs |-> "none"]
    /\ inflight = [r \in Runs |-> "none"]
    /\ archive = [r \in Runs |-> "none"] /\ manifest = [r \in Runs |-> "none"]
    /\ result = [r \in Runs |-> "none"] /\ faults = 0

Goes(r, place) == stage' = [stage EXCEPT ![r] = place]
At(r, from, to) == stage[r] = from /\ Goes(r, to)
Fault == faults < MaxFaults /\ faults' = faults + 1

Freed(lock, r) == IF lock = r THEN Nobody ELSE lock

-----------------------------------------------------------------------------
(* The session: locks, snapshot, dump, commit.                             *)

\* A tool or the password file is not what it must be.
preflightTools(r) ==
    /\ At(r, "idle", "ended") /\ Fault
    /\ result' = [result EXCEPT ![r] = "preflight_rejected"]
    /\ UNCHANGED <<database, aborted, discard, snapshot, dump, storage>>

connect(r) ==
    /\ At(r, "idle", "connected")
    /\ session' = [session EXCEPT ![r] = "open"]
    /\ UNCHANGED <<ledger, mutex, barrier, aborted, discard, snapshot, dump, storage, result, faults>>

\* BackupOutcome: nothing was begun that needs an abort.
Outcome(r, state) ==
    /\ result' = [result EXCEPT ![r] = state]
    /\ Goes(r, "cleanup")

tryBackupLock(r) ==
    /\ stage[r] = "connected" /\ session[r] = "open"
    /\ \/ mutex = Nobody /\ mutex' = r /\ Goes(r, "locked") /\ UNCHANGED result
       \/ mutex # Nobody /\ Outcome(r, "skipped_overlapping") /\ UNCHANGED mutex
    /\ UNCHANGED <<ledger, barrier, session, aborted, discard, snapshot, dump, storage, faults>>

tryMigrationBarrier(r) ==
    /\ stage[r] = "locked" /\ session[r] = "open"
    /\ \/ barrier = Nobody /\ barrier' = r /\ Goes(r, "barred") /\ UNCHANGED result
       \/ barrier # Nobody /\ Outcome(r, "blocked_by_migration") /\ UNCHANGED barrier
    /\ UNCHANGED <<ledger, mutex, session, aborted, discard, snapshot, dump, storage, faults>>

\* BEGIN REPEATABLE READ, pg_export_snapshot, and the ledger of that snapshot.
openSnapshot(r) ==
    /\ At(r, "barred", "snapshot") /\ session[r] = "open"
    /\ snapshot' = [snapshot EXCEPT ![r] = ledger]
    /\ UNCHANGED <<database, aborted, discard, dump, storage, result, faults>>

createUpload(r) ==
    /\ At(r, "snapshot", "creating") /\ session[r] = "open" /\ ~aborted[r]
    /\ inflight' = [inflight EXCEPT ![r] = "create"]
    /\ UNCHANGED <<database, aborted, discard, snapshot, dump, archive, manifest, result, faults>>

\* createImmutableObject has settled; pg_dump and age are spawned.
spawnDump(r) ==
    /\ At(r, "creating", "dumping") /\ ~aborted[r]
    /\ inflight[r] = "none" /\ archive[r] = "partial"
    /\ dump' = [dump EXCEPT ![r] = "running"]
    /\ UNCHANGED <<database, aborted, discard, snapshot, storage, result, faults>>

\* pg_dump exits with 0 on a session of its own.
dumpFinished(r) ==
    /\ At(r, "dumping", "dumped")
    /\ dump[r] # "none" /\ dump' = [dump EXCEPT ![r] = IF @ = "running" THEN "exact" ELSE @]
    /\ UNCHANGED <<database, aborted, discard, snapshot, storage, result, faults>>

\* A query of the client succeeds only if its session, and so its locks, live.
Alive(r) == session[r] = "open"

commitSnapshot(r) ==
    /\ At(r, "dumped", "committed") /\ Alive(r)
    /\ UNCHANGED <<database, aborted, discard, snapshot, dump, storage, result, faults>>

\* An error: the run is incomplete, or rejected by the check of the server, and
\* its signal aborts what is under way.
Gives(r) ==
    /\ \E state \in {"incomplete"} \cup (IF stage[r] = "barred" THEN {"preflight_rejected"} ELSE {}) :
          result' = [result EXCEPT ![r] = state]
    /\ aborted' = [aborted EXCEPT ![r] = TRUE]
    /\ Goes(r, "cleanup")

releaseBarrier(r) ==
    /\ stage[r] = "committed"
    /\ \/ /\ Alive(r)
          /\ barrier' = Nobody /\ Goes(r, "released")
          /\ UNCHANGED <<aborted, discard, result, faults>>
       \/ /\ IF session[r] # "open" THEN UNCHANGED faults ELSE Fault
          /\ discard' = [discard EXCEPT ![r] = TRUE] /\ Gives(r) /\ UNCHANGED barrier
    /\ UNCHANGED <<ledger, mutex, session, snapshot, dump, storage>>

-----------------------------------------------------------------------------
(* The upload, its verification and the manifest.                          *)

finalizeArchive(r) ==
    /\ At(r, "released", "finalizing") /\ ~aborted[r]
    /\ inflight' = [inflight EXCEPT ![r] = "finalize"]
    /\ UNCHANGED <<database, aborted, discard, snapshot, dump, archive, manifest, result, faults>>

archiveFinalized(r) ==
    /\ At(r, "finalizing", "verifying") /\ ~aborted[r] /\ inflight[r] = "none"
    /\ UNCHANGED <<database, aborted, discard, snapshot, dump, storage, result, faults>>

\* verifyExactObject: version, size and digest are those that were sent.
Intact(object) == object = "stored"

verifyArchive(r) ==
    /\ At(r, "verifying", "publishing") /\ ~aborted[r]
    /\ Intact(archive[r])
    /\ inflight' = [inflight EXCEPT ![r] = "publish"]
    /\ UNCHANGED <<database, aborted, discard, snapshot, dump, archive, manifest, result, faults>>

manifestPublished(r) ==
    /\ At(r, "publishing", "checking") /\ ~aborted[r] /\ inflight[r] = "none"
    /\ UNCHANGED <<database, aborted, discard, snapshot, dump, storage, result, faults>>

verifyManifest(r) ==
    /\ At(r, "checking", "cleanup") /\ ~aborted[r]
    /\ Intact(manifest[r])
    /\ result' = [result EXCEPT ![r] = "complete"]
    /\ UNCHANGED <<database, aborted, discard, snapshot, dump, storage, faults>>

\* Any other error: of a query, a child, the storage, or a check that fails.
Mismatch(r) ==
    \/ stage[r] = "verifying" /\ ~Intact(archive[r])
    \/ stage[r] = "checking" /\ ~Intact(manifest[r])

fail(r) ==
    /\ stage[r] \notin {"idle", "committed", "cleanup", "ended"}
    /\ IF aborted[r] \/ Mismatch(r) \/ session[r] # "open" THEN UNCHANGED faults ELSE Fault
    /\ Gives(r)
    /\ UNCHANGED <<database, discard, snapshot, dump, storage>>

-----------------------------------------------------------------------------
(* The storage.                                                            *)

Stored == {"stored", "corrupt"}

\* A late upload is aborted at once.
Created(r) == IF aborted[r] THEN "none" ELSE "partial"

storageCreates(r) ==
    /\ inflight[r] = "create"
    /\ archive' = [archive EXCEPT ![r] = Created(r)]
    /\ inflight' = [inflight EXCEPT ![r] = "none"]
    /\ UNCHANGED <<database, stage, aborted, discard, snapshot, dump, manifest, result, faults>>

\* link(partialPath, finalPath): it fails if the upload has been aborted.
storageLinks(r) ==
    /\ \/ inflight[r] = "finalize" /\ archive[r] = "partial"
          /\ archive' = [archive EXCEPT ![r] = "linked"] /\ UNCHANGED manifest
       \/ inflight[r] = "publish" /\ manifest[r] = "none" /\ ~aborted[r]
          /\ manifest' = [manifest EXCEPT ![r] = "linked"] /\ UNCHANGED archive
    /\ UNCHANGED <<database, stage, aborted, discard, snapshot, dump, inflight, result, faults>>

\* Mutant of MayFinalize.
MayFinalizeLate(r) == TRUE

\* throwIfAborted right before finalized = true.
MayFinalize(r) == ~aborted[r]

\* What is stored may not be what was sent.
storageFinalizes(r) ==
    /\ MayFinalize(r)
    /\ \/ /\ inflight[r] = "finalize" /\ archive[r] = "linked"
          /\ \/ archive' = [archive EXCEPT ![r] = "stored"] /\ UNCHANGED faults
             \/ archive' = [archive EXCEPT ![r] = "corrupt"] /\ Fault
          /\ UNCHANGED manifest
       \/ /\ inflight[r] = "publish" /\ manifest[r] = "linked"
          /\ \/ manifest' = [manifest EXCEPT ![r] = "stored"] /\ UNCHANGED faults
             \/ manifest' = [manifest EXCEPT ![r] = "corrupt"] /\ Fault
          /\ UNCHANGED archive
    /\ inflight' = [inflight EXCEPT ![r] = "none"]
    /\ UNCHANGED <<database, stage, aborted, discard, snapshot, dump, result>>

\* The operation throws after an abort, and takes back what it linked.
storageUndoes(r) ==
    /\ aborted[r] /\ inflight[r] \in {"finalize", "publish"}
    /\ archive' = [archive EXCEPT ![r] = IF inflight[r] = "finalize" /\ @ = "linked" THEN "none" ELSE @]
    /\ manifest' = [manifest EXCEPT ![r] = IF inflight[r] = "publish" /\ @ = "linked" THEN "none" ELSE @]
    /\ inflight' = [inflight EXCEPT ![r] = "none"]
    /\ UNCHANGED <<database, stage, aborted, discard, snapshot, dump, result, faults>>

-----------------------------------------------------------------------------
(* finally.                                                                *)

\* abort removes what is not finalized.
AbortedObject(object) == IF object \in Stored THEN object ELSE "none"

\* client.release(error): an uncertain session is not returned to the pool.
Closes(r, failed) == discard[r] \/ session[r] = "known" \/ failed

\* Children are terminated; ROLLBACK, then the barrier, then the backup lock.
\* After a first failure the rest is left to the end of the session.
\* A result that was complete becomes incomplete if the cleanup failed; a
\* session known to be lost needs none.
cleanup(r) ==
    /\ At(r, "cleanup", "ended")
    /\ dump' = [dump EXCEPT ![r] = IF @ = "running" THEN "none" ELSE @]
    /\ \E done \in {"nothing", "barrier", "all"} :
          LET skipped == discard[r] \/ session[r] = "known"
              failed  == discard[r] \/ (~skipped /\ done # "all")
              closes  == Closes(r, failed)
          IN  /\ session[r] # "open" \/ discard[r] => done = "nothing"
              /\ IF skipped \/ ~failed \/ session[r] = "lost" THEN UNCHANGED faults ELSE Fault
              /\ session' = [session EXCEPT ![r] = IF closes THEN "closed" ELSE "pooled"]
              /\ barrier' = IF closes \/ done # "nothing" THEN Freed(barrier, r) ELSE barrier
              /\ mutex' = IF closes \/ done = "all" THEN Freed(mutex, r) ELSE mutex
              /\ result' = [result EXCEPT ![r] =
                               IF @ = "complete" /\ failed THEN "incomplete" ELSE @]
    /\ archive' = [archive EXCEPT ![r] = IF result[r] = "complete" THEN @ ELSE AbortedObject(@)]
    /\ UNCHANGED <<ledger, aborted, discard, snapshot, inflight, manifest>>

-----------------------------------------------------------------------------
(* The environment.                                                        *)

\* SIGTERM, or the snapshot timer.
abortRun(r) ==
    /\ stage[r] \notin {"idle", "ended"} /\ ~aborted[r] /\ Fault
    /\ aborted' = [aborted EXCEPT ![r] = TRUE]
    /\ UNCHANGED <<database, stage, discard, snapshot, dump, storage, result>>

\* PostgreSQL ends the session, with its locks; the client learns of it later.
loseSession(r) ==
    /\ session[r] = "open" /\ Fault
    /\ session' = [session EXCEPT ![r] = "lost"]
    /\ mutex' = Freed(mutex, r) /\ barrier' = Freed(barrier, r)
    /\ UNCHANGED <<ledger, stage, aborted, discard, snapshot, dump, storage, result>>

onClientError(r) ==
    /\ session[r] = "lost" /\ stage[r] # "ended"
    /\ aborted' = [aborted EXCEPT ![r] = TRUE]
    /\ session' = [session EXCEPT ![r] = "known"]
    /\ UNCHANGED <<ledger, mutex, barrier, stage, discard, snapshot, dump, storage, result, faults>>

\* withMigrationLock, and the migrations under it.
migratorLocks ==
    /\ barrier = Nobody /\ ledger < MaxMigrations /\ barrier' = Migrator
    /\ UNCHANGED <<ledger, mutex, session, stage, aborted, discard, snapshot, dump, storage, result, faults>>

migrate ==
    /\ barrier = Migrator
    /\ \/ /\ ledger < MaxMigrations /\ ledger' = ledger + 1 /\ UNCHANGED barrier
          /\ dump' = [r \in Runs |-> IF dump[r] = "running" THEN "mixed" ELSE dump[r]]
       \/ barrier' = Nobody /\ UNCHANGED <<ledger, dump>>
    /\ UNCHANGED <<mutex, session, stage, aborted, discard, snapshot, storage, result, faults>>

Step(r) ==
    \/ tryBackupLock(r) \/ tryMigrationBarrier(r) \/ openSnapshot(r) \/ createUpload(r)
    \/ spawnDump(r) \/ dumpFinished(r) \/ commitSnapshot(r) \/ releaseBarrier(r)
    \/ finalizeArchive(r) \/ archiveFinalized(r) \/ verifyArchive(r) \/ manifestPublished(r)
    \/ verifyManifest(r) \/ fail(r) \/ cleanup(r) \/ onClientError(r)

StorageStep(r) == storageCreates(r) \/ storageLinks(r) \/ storageFinalizes(r) \/ storageUndoes(r)

Next ==
    \/ migratorLocks \/ migrate
    \/ \E r \in Runs : preflightTools(r) \/ connect(r) \/ Step(r) \/ StorageStep(r) \/ abortRun(r) \/ loseSession(r)

Spec == Init /\ [][Next]_vars

\* Queries, children and the storage answer; no failure is owed.
FairSpec ==
    Spec /\ \A r \in Runs : /\ WF_vars(Step(r) /\ UNCHANGED faults)
                            /\ WF_vars(StorageStep(r) /\ UNCHANGED faults)

-----------------------------------------------------------------------------
(* Properties.                                                             *)

\* A manifest is the commit mark of a backup: its archive is in the storage,
\* intact, and stays there, whatever is cleaned up afterwards.
ManifestSound == \A r \in Runs : manifest[r] \in {"linked"} \cup Stored => archive[r] = "stored"

\* No migration came between the snapshot whose ledger the manifest names and
\* the end of the dump, also when the session that held the barrier was lost.
ArchiveMatchesLedger == \A r \in Runs : manifest[r] \in Stored => dump[r] = "exact"

\* A run that says it is complete has a verified manifest.
CompleteTruthful == \A r \in Runs : result[r] = "complete" => manifest[r] = "stored"

\* A run that is over holds no lock, not even through a pooled connection.
NoLockLeaks == \A r \in Runs : stage[r] = "ended" => mutex # r /\ barrier # r

\* Nothing is published after the run was aborted.
NoLateManifest ==
    [][\A r \in Runs : manifest'[r] \in Stored /\ manifest[r] \notin Stored => ~aborted[r]]_vars

\* When a run and its last storage operation are over, no partial object is left.
NoPartialLeft ==
    \A r \in Runs : stage[r] = "ended" /\ inflight[r] = "none"
        => archive[r] \in {"none"} \cup Stored /\ manifest[r] \in {"none"} \cup Stored

\* Every run ends, and the migrator gets its barrier back.
RunsEnd == \A r \in Runs : stage[r] = "connected" ~> stage[r] = "ended"

=============================================================================
