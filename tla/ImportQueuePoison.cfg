SPECIFICATION FairSpec
CONSTANTS
    Workers = {w1}
    Nobody = Nobody
    Batches = {b1}
    NoBatch = NoBatch
    Keys = {k1}
    Kinds = {"good", "long"}
    NRows = 1
    ROWS_PER_QUERY = 1
    MaxFaults = 0
    MaxEdits = 0
PROPERTY
    QueueDrains
CHECK_DEADLOCK FALSE
