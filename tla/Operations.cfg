SPECIFICATION PartsSpec
CONSTANTS
    Parts = {"release", "migrations", "backup", "scheduler", "retention", "monitoring", "restore"}
    None = None Nobody = Nobody
    \* release
    MaxCommit = 3 MigratesAt = 3 MaxCerts = 2 MaxRenewals = 2 MaxFaults = 2 MaxKills = 1
    \* migrations
    Package <- FourPackages Commands = {c1, c2} MaxRuns = 4
    \* backup
    BackupRuns = {r1, r2} Migrator = Migrator MaxMigrations = 1 BackupMaxFaults = 2
    \* scheduler
    Processes = {p1, p2} SlotLength = 3 BACKUP_RETRY_DELAY_MS = 1 BACKUP_MAX_ATTEMPTS_PER_SLOT = 2
    MAX_SCHEDULER_JOURNAL_BYTES = 6 FsyncKeepsEntry = TRUE PowerMayFail = TRUE SchedulerMaxFaults = 2 SchedulerMaxTime = 4
    \* retention
    RetainedRow <- FourRows RowTable <- FourTables RowStamp <- FourStamps Completed <- CompletedAtStart
    l1 = l1 l2 = l2 a1 = a1 s1 = s1 SessionEnd = 0 RetentionRuns = {q1, q2} Batch = {b1}
    Year = 1 ChunkSize = 1 MaxChunks = 1 RetentionMaxTime = 2 RetentionMaxFaults = 2
    \* monitoring
    WarnAfter <- RealWarn CriticalAfter <- RealCritical PollEvery = 1 Flags = {"retention_failed"} Never = Never NoLimit = NoLimit MonitorMaxTime = 4
    \* restore
    RestoreMaxFaults = 3
INVARIANTS
    MigrationsSound
    SchedulerSound
    
PROPERTIES
    ReleaseSound
    BackupSound
    RetentionSound
    MonitoringSound
CHECK_DEADLOCK FALSE
