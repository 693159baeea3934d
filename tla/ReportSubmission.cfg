SPECIFICATION Spec
CONSTANTS
    Requests = {r1, r2, r3}
    Attempts = {a1, a2}
    Tokens = {t1, t2}
    Points = {p1}
    NoPoint = NoPoint
    NoToken = NoToken
    Free = Free
    NoReceipt = NoReceipt
    TokenTTL = 4
    ReceiptTTL = 2
    Window = 2
    MaxTicks = 4
SYMMETRY Symmetry
INVARIANTS
    SubmissionSound
PROPERTIES
    RetryNotRefused
    ImplementsLedger
CHECK_DEADLOCK FALSE
