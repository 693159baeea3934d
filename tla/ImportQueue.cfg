SPECIFICATION Spec
CONSTANTS
    Workers = {w1, w2}
    Nobody = Nobody
    Batches = {b1}
    NoBatch = NoBatch
    Keys = {k1, k2}
    Kinds = {"good", "bad", "long"}
    NRows = 2
    ROWS_PER_QUERY = 2
    MaxFaults = 1
    MaxEdits = 1
SYMMETRY Symmetry
INVARIANTS
    ImportSound
PROPERTIES
    OnlyRefusedRowsFail
    ImplementsImports
CHECK_DEADLOCK FALSE
