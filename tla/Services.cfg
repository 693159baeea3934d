SPECIFICATION PartsSpec
CONSTANTS
    Parts = {"limiter", "admission", "address", "sessions", "tab", "accounts", "export", "import"}
    None = None Nobody = Nobody NoToken = NoToken
    \* limiter
    Clients = {a, b, c} burst = 2 Refill = 3 maxKeys = 2 idleTtl = 6 Second = 2 MaxTime = 7
    \* admission
    Callers = {d1, d2, d3} AdmissionKeys = {k1, k2} maxPending = 1 maxActive = 2 queueExpiry = 2 timeout = 2
    minStartInterval = 1 dailyBudget = 2 Day = 3 AdmissionMaxTime = 4 NoTimer = NoTimer
    \* address
    Coords = {p1, p2, p3} Geocoders = {g1, g2} Reporters = {r1, r2} Outside = {p3}
    AddressMaxEdits = 2 AddressMaxRuns = 1
    \* sessions, tab
    Tabs = {t1, t2} OneTab = {o} Gone = gone MaxSessions = 3 MaxLogins = 2
    \* accounts
    Operators = {o1, o2} AccountRequests = {q1} Names = {n1, n2} AccountMaxRuns = 2
    \* export
    Exports = {e1} Conns = {c1} Ids = {1, 2, 3} Numbers = {1, 2, 3, 4} ChunkRows = 2
    Filters = {"inactive", "all", "unknown"} MaxChanges = 2 MaxExpired = 1
    \* import
    Workers = {w1, w2} Batches = {b1, b2} NoBatch = NoBatch ImportKeys = {k} Kinds = {"good"} NRows = 1
    ROWS_PER_QUERY = 1 ImportMaxFaults = 1 ImportMaxEdits = 0
    \* submission and codes: see ServicesLiveness.cfg
    SubmissionRequests = {s1} Attempts = {a1} SubmissionTokens = {u1} Points = {i1} NoPoint = NoPoint
    Free = Free NoReceipt = NoReceipt TokenTTL = 1 ReceiptTTL = 1 Window = 1 MaxTicks = 0
    Intents = {j1} Emails = {m1} Ips = {h1} CodesRequests = {x1} CodesTokens = {y1} NoRow = NoRow TTL = 1
    Cooldown = 1 Hour = 1 RateRetention = 1 MaxSends = 1 MaxAttempts = 1 CountCap = 1 CodesMaxTime = 0
INVARIANTS
    LimiterSound
    SessionsSound
    AccountsSound
    ExportSound
    SingleProcessing
PROPERTIES
    RetryHonest
    AdmissionSound
    
CHECK_DEADLOCK FALSE
