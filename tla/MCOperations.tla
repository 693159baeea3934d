---------------------------- MODULE MCOperations -----------------------------
(* The operator's side of the system for TLC: a release and the renewal of    *)
(* the certificate, migrations, the backup and its schedule, retention,       *)
(* monitoring and the restore drill. They share no state but what each models *)
(* of the others, so a behaviour follows one part, chosen at its start.       *)
EXTENDS ReleaseDeploy, Integers, FiniteSets

CONSTANTS Parts, Package, Commands, MaxRuns, BackupRuns, Migrator, Nobody, MaxMigrations,
          BackupMaxFaults, Processes, SlotLength, BACKUP_RETRY_DELAY_MS,
          BACKUP_MAX_ATTEMPTS_PER_SLOT, MAX_SCHEDULER_JOURNAL_BYTES, FsyncKeepsEntry,
          PowerMayFail, SchedulerMaxFaults, SchedulerMaxTime, RetentionRuns, RetainedRow,
          RowTable, RowStamp, Batch, Completed, Year, ChunkSize, MaxChunks,
          RetentionMaxTime, RetentionMaxFaults, WarnAfter, CriticalAfter, PollEvery, Flags,
          Never, NoLimit, MonitorMaxTime, RestoreMaxFaults

\* What gives Package, RetainedRow and the thresholds their values in the runs.
CONSTANTS l1, l2, a1, s1, SessionEnd

VARIABLES part, kind, utf8, migrationSchema, migrationLedger, clean, tableLock,
          migrationLock, migrationPc, migrationRelease, mode, known, cause, runs,
          backupLedger, mutex, barrier, backupSession, stage, backupAborted, discard,
          snapshot, dump, inflight, archive, manifest, result, backupFaults, schedulerNow,
          file, torn, durable, entry, schedulerLock, schedulerPc, schedulerJob, executed,
          schedulerFaults, retentionNow, rows, retentionLock, retentionPc, retentionSession,
          started, table, chunk, counted, deletedBy, state, record, retentionFaults,
          monitorNow, at, class, target, flags, changed, polled, events, drill, restorePc,
          restoreAborted, admin, dirty, untrusted, database, creating, cutCreate, mayExist,
          content, granted, child, runtimePool, adminPool, pgpass, confirmed, outcome,
          restoreFaults

migrationVars == <<kind, utf8, migrationSchema, migrationLedger, clean, tableLock,
                   migrationLock, migrationPc, migrationRelease, mode, known, cause, runs>>
backupVars == <<backupLedger, mutex, barrier, backupSession, stage, backupAborted, discard,
                snapshot, dump, inflight, archive, manifest, result, backupFaults>>
schedulerVars == <<schedulerNow, file, torn, durable, entry, schedulerLock, schedulerPc,
                   schedulerJob, executed, schedulerFaults>>
retentionVars == <<retentionNow, rows, retentionLock, retentionPc, retentionSession,
                   started, table, chunk, counted, deletedBy, state, record, retentionFaults>>
monitorVars == <<monitorNow, at, class, target, flags, changed, polled, events>>
restoreVars == <<drill, restorePc, restoreAborted, admin, dirty, untrusted, database,
                 creating, cutCreate, mayExist, content, granted, child, runtimePool,
                 adminPool, pgpass, confirmed, outcome, restoreFaults>>

\* Two releases of a chain, one whose 0002 was edited, and one with a gap.
Mig(v, s) == [version |-> v, checksum |-> s]
FourPackages ==
    [old    |-> <<Mig(1, 1), Mig(2, 1)>>,
     new    |-> <<Mig(1, 1), Mig(2, 1), Mig(3, 1)>>,
     edited |-> <<Mig(1, 1), Mig(2, 2), Mig(3, 2)>>,
     gap    |-> <<Mig(1, 1), Mig(3, 1)>>]

\* Two old log rows, an audit event and a session that expire during the run; an
\* import completed at the start.
FourRows == {l1, l2, a1, s1}
FourTables == [x \in FourRows |-> CASE x \in {l1, l2} -> "logs" [] x = a1 -> "audit" [] x = s1 -> "sessions"]
FourStamps == [x \in FourRows |-> CASE x = l1 -> -2 [] x = l2 -> -1 [] x = a1 -> -1 [] x = s1 -> SessionEnd]
CompletedAtStart == [b \in Batch |-> 0]

\* The order of the real thresholds; those of a backup (18h, 24h) are further
\* apart than an hourly poll.
RealWarn     == [backup |-> 2, drill |-> 2, backlog |-> 1, retention |-> 3]
RealCritical == [backup |-> 4, drill |-> 3, backlog |-> 3, retention |-> NoLimit]

Migration == INSTANCE Migrations WITH
    Releases <- DOMAIN Package, schema <- migrationSchema, ledger <- migrationLedger,
    lock <- migrationLock, pc <- migrationPc, release <- migrationRelease
Backup == INSTANCE BackupRun WITH
    Runs <- BackupRuns, MaxFaults <- BackupMaxFaults, ledger <- backupLedger,
    session <- backupSession, aborted <- backupAborted, faults <- backupFaults
Scheduler == INSTANCE BackupScheduler WITH
    MaxFaults <- SchedulerMaxFaults, MaxTime <- SchedulerMaxTime, now <- schedulerNow,
    lock <- schedulerLock, pc <- schedulerPc, job <- schedulerJob, faults <- schedulerFaults
Purge == INSTANCE Retention WITH
    Runs <- RetentionRuns, Row <- RetainedRow, Table <- RowTable, Stamp <- RowStamp,
    MaxTime <- RetentionMaxTime, MaxFaults <- RetentionMaxFaults, now <- retentionNow,
    lock <- retentionLock, pc <- retentionPc, session <- retentionSession,
    faults <- retentionFaults
Monitor == INSTANCE Monitoring WITH
    Warn <- WarnAfter, Critical <- CriticalAfter, MaxTime <- MonitorMaxTime,
    now <- monitorNow
Restore == INSTANCE ControlledRestore WITH
    MaxFaults <- RestoreMaxFaults, pc <- restorePc, aborted <- restoreAborted,
    faults <- restoreFaults

ASSUME PartsAssumption ==
    /\ Migration!PackageAssumption
    /\ Backup!BackupAssumption
    /\ Scheduler!SchedulerAssumption
    /\ Purge!RetentionAssumption
    /\ Monitor!MonitoringAssumption
    /\ Restore!RestoreAssumption

-----------------------------------------------------------------------------
(* One of the parts runs, the others stay as they are at their start.       *)

PartsInit ==
    /\ part \in Parts
    /\ Init
    /\ Migration!Init
    /\ Backup!Init
    /\ Scheduler!Init
    /\ Purge!Init
    /\ Monitor!Init
    /\ Restore!Init
    /\ part \notin {"release"} => pointer = 0
    /\ part \notin {"migrations"} => kind = "empty" /\ utf8 = TRUE /\ clean = TRUE

PartsNext ==
    \/ part = "release" /\ Next
       /\ UNCHANGED <<part, migrationVars, backupVars, schedulerVars, retentionVars,
                        monitorVars, restoreVars>>
    \/ part = "migrations" /\ Migration!Next
       /\ UNCHANGED <<part, vars, backupVars, schedulerVars, retentionVars, monitorVars,
                        restoreVars>>
    \/ part = "backup" /\ Backup!Next
       /\ UNCHANGED <<part, vars, migrationVars, schedulerVars, retentionVars, monitorVars,
                        restoreVars>>
    \/ part = "scheduler" /\ Scheduler!Next
       /\ UNCHANGED <<part, vars, migrationVars, backupVars, retentionVars, monitorVars,
                        restoreVars>>
    \/ part = "retention" /\ Purge!Next
       /\ UNCHANGED <<part, vars, migrationVars, backupVars, schedulerVars, monitorVars,
                        restoreVars>>
    \/ part = "monitoring" /\ Monitor!Next
       /\ UNCHANGED <<part, vars, migrationVars, backupVars, schedulerVars, retentionVars,
                        restoreVars>>
    \/ part = "restore" /\ Restore!Next
       /\ UNCHANGED <<part, vars, migrationVars, backupVars, schedulerVars, retentionVars,
                        monitorVars>>

partsVars == <<part, vars, migrationVars, backupVars, schedulerVars, retentionVars,
               monitorVars, restoreVars>>

PartsSpec == PartsInit /\ [][PartsNext]_partsVars

\* The fairness of each part's FairSpec, for the part that runs.
PartsFairSpec ==
    /\ PartsSpec
    /\ WF_vars(part = "release" /\ Renew)
    /\ \A c \in Commits : WF_vars(part = "release" /\ Job(c))
    /\ \A c \in Commands : WF_migrationVars(part = "migrations" /\ Migration!command(c))
    /\ \A c \in Commands :
           SF_migrationVars(part = "migrations" /\ Migration!withMigrationLock(c))
    /\ \A r \in BackupRuns :
           WF_backupVars(part = "backup" /\ Backup!Step(r) /\ UNCHANGED backupFaults)
    /\ \A r \in BackupRuns :
           WF_backupVars(part = "backup" /\ Backup!StorageStep(r) /\ UNCHANGED backupFaults)
    /\ \A p \in Processes : WF_schedulerVars(part = "scheduler" /\ Scheduler!Step(p))
    /\ \A r \in RetentionRuns :
           WF_retentionVars(part = "retention" /\ Purge!Step(r) /\ UNCHANGED retentionFaults)
    /\ \A r \in RetentionRuns : WF_retentionVars(part = "retention" /\ Purge!connect(r))
    /\ WF_restoreVars(part = "restore" /\ Restore!Step /\ UNCHANGED restoreFaults)

-----------------------------------------------------------------------------
(* What the runs check of the parts.                                       *)

\* Between jobs nothing runs but what current-release records, unless a rollout
\* was killed or its rollback failed; tls/current names a whole pair, and the
\* edge serves the installed one unless the pointer moved alone; the marker only
\* moves to newer commits, and only releases that fit the schema are started
\* (deploy-release.sh, release-runtime.sh).
ReleaseSound ==
    /\ [](part = "release" =>
             /\ TypeOK
             /\ RunsRecorded
             /\ PointerWhole
             /\ ServedUnlessCut)
    /\ MarkerForward
    /\ CompatibleStarts

\* Through crashes between any two steps and commands of several releases the
\* ledger says exactly what the schema is, a server starts only on the schema
\* of its release, only a recognised database is adopted, and commands that run
\* together do not make each other fail (migrate.ts, migrationPreflight.ts).
MigrationsSound ==
    part = "migrations" =>
        /\ Migration!TypeOK
        /\ Migration!LedgerTruthful
        /\ Migration!ServerFits
        /\ Migration!OnlyRecognized
        /\ Migration!NoInterference

\* A manifest stands only beside an intact archive, dumped while the ledger it
\* names was that of the database; a run that says it is complete has one; a
\* run that is over holds no lock, not even through the pool, and leaves no
\* partial object; and nothing is published after an abort (backup/runner.ts).
BackupSound ==
    /\ [](part = "backup" =>
             /\ Backup!TypeOK
             /\ Backup!ManifestSound
             /\ Backup!ArchiveMatchesLedger
             /\ Backup!CompleteTruthful
             /\ Backup!NoLockLeaks
             /\ Backup!NoPartialLeft)
    /\ Backup!NoLateManifest

\* Through crashes, torn records and power losses a slot is executed at most as
\* often as allowed, a retry keeps its distance, every finish belongs to an
\* attempt that was started, nothing follows a complete backup of the slot, and
\* the journal stays readable (scheduler.ts, fileSchedulerJournal.ts).
SchedulerSound ==
    part = "scheduler" =>
        /\ Scheduler!TypeOK
        /\ Scheduler!ExecutionsBounded
        /\ Scheduler!RetryPaced
        /\ Scheduler!FinishesMatch
        /\ Scheduler!CompleteIsLast
        /\ Scheduler!JournalReadable

\* A run deletes only what is expired by then; it counts what it deleted, no
\* less unless it says incomplete, and says complete only if nothing that was
\* expired at its start is left; no lock returns to the pool, and a record that
\* has its name is whole, also after a power loss (retention.ts,
\* fileEvidence.ts).
RetentionSound ==
    /\ [](part = "retention" =>
             /\ Purge!TypeOK
             /\ Purge!CountsTruthful
             /\ Purge!CompleteMeansClean
             /\ Purge!NoLockLeaks
             /\ Purge!RecordWhole)
    /\ Purge!OnlyExpired

\* No drill but one of the target class quiets the drill alarm, an alarm stays
\* until what it is about changes, and with polls as close as the thresholds
\* what is critical was warned of before (monitoring.ts).
MonitoringSound ==
    /\ [](part = "monitoring" =>
             /\ Monitor!TypeOK
             /\ Monitor!DrillQuietByTarget)
    /\ Monitor!AlarmsStay
    /\ Monitor!CriticalWasWarned

\* A receipt is given only for a restored and verified database; sessions
\* return to the pool as they were; a discarded target is gone and unused,
\* unless its creation was cut off; and a drill leaves nothing and tells the
\* truth (controlledRestore.ts, recoveryDrill.ts).
RestoreSound ==
    part = "restore" =>
        /\ Restore!TypeOK
        /\ Restore!ReceiptSound
        /\ Restore!CleanSessions
        /\ Restore!DiscardedUnlessCut
        /\ Restore!DrillLeavesNothing
        /\ Restore!DrillTruthful

\* A migration command, a backup run and a recovery drill each come to their
\* end, whatever fails or is cut off (migrate.ts, backup/runner.ts,
\* recoveryDrill.ts).
CommandsEnd ==
    /\ (part = "migrations") => Migration!CommandEnds
    /\ (part = "backup") => Backup!RunsEnd
    /\ (part = "restore") => Restore!DrillEnds

\* The newest commit is deployed in the end, an abandoned backup attempt is
\* settled by a later poll, and what has expired is deleted by some later run
\* (deploy-release.sh, scheduler.ts, retention.ts).
UpkeepHappens ==
    /\ (part = "release") => LatestDeployed
    /\ (part = "scheduler") => Scheduler!AttemptsSettled
    /\ (part = "retention") => Purge!ExpiredGoes

=============================================================================
