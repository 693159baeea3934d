SPECIFICATION Spec
CONSTANTS None = None  MaxCommit = 2  MigratesAt = 2  MaxCerts = 2  MaxRenewals = 2  MaxFaults = 0  MaxKills = 1
INVARIANTS ServedIsInstalled
CHECK_DEADLOCK FALSE
