SPECIFICATION PartsFairSpec
CONSTANTS
    Parts = {"release", "migrations", "backup", "scheduler", "retention", "restore"}
    None = None Nobody = Nobody
    \* release
    MaxCommit = 3 MigratesAt = 4 MaxCerts = 2 MaxRenewals = 2 MaxFaults = 0 MaxKills = 0
    \* migrations
    Package <- FourPackages Commands = {c1, c2} MaxRuns = 2
    \* backup
    BackupRuns = {r1} Migrator = Migrator MaxMigrations = 1 BackupMaxFaults = 2
    \* scheduler
    Processes = {p1} SlotLength = 3 BACKUP_RETRY_DELAY_MS = 1 BACKUP_MAX_ATTEMPTS_PER_SLOT = 2
    MAX_SCHEDULER_JOURNAL_BYTES = 12 FsyncKeepsEntry = TRUE PowerMayFail = FALSE SchedulerMaxFaults = 2 SchedulerMaxTime = 4
    \* retention
    RetainedRow <- FourRows RowTable <- FourTables RowStamp <- FourStamps Completed <- CompletedAtStart
    l1 = l1 l2 = l2 a1 = a1 s1 = s1 SessionEnd = 1 RetentionRuns = {q1} Batch = {b1}
    Year = 1 ChunkSize = 1 MaxChunks = 1 RetentionMaxTime = 2 RetentionMaxFaults = 1
    \* monitoring: see Operations.cfg
    WarnAfter <- RealWarn CriticalAfter <- RealCritical PollEvery = 1 Flags = {} Never = Never NoLimit = NoLimit MonitorMaxTime = 0
    \* restore
    RestoreMaxFaults = 3
PROPERTIES
    CommandsEnd
    UpkeepHappens
CHECK_DEADLOCK FALSE
