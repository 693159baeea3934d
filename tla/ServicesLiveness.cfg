SPECIFICATION PartsFairSpec
CONSTANTS
    Parts = {"admission", "tab", "export", "submission", "import", "codes"}
    None = None Nobody = Nobody NoToken = NoToken
    \* admission
    Callers = {d1, d2} AdmissionKeys = {k1, k2} maxPending = 1 maxActive = 1 queueExpiry = 2 timeout = 1
    minStartInterval = 1 dailyBudget = 2 Day = 3 AdmissionMaxTime = 4 NoTimer = NoTimer
    \* tab
    Tabs = {t1} OneTab = {o} Gone = gone MaxSessions = 1 MaxLogins = 1
    \* accounts: see Services.cfg
    Operators = {o1, o2} AccountRequests = {q1} Names = {n1, n2} AccountMaxRuns = 1
    \* export
    Exports = {e1, e2} Conns = {c1} Ids = {1, 2} Numbers = {1, 2} ChunkRows = 2
    Filters = {"all"} MaxChanges = 0 MaxExpired = 2
    \* submission
    SubmissionRequests = {s1, s2} Attempts = {a1, a2} SubmissionTokens = {u1} Points = {i1} NoPoint = NoPoint
    Free = Free NoReceipt = NoReceipt TokenTTL = 2 ReceiptTTL = 1 Window = 1 MaxTicks = 0
    \* import
    Workers = {w1} Batches = {b1, b2} NoBatch = NoBatch ImportKeys = {k} Kinds = {"good", "bad"} NRows = 1
    ROWS_PER_QUERY = 1 ImportMaxFaults = 1 ImportMaxEdits = 0
    \* codes
    Intents = {j1} Emails = {m1} Ips = {h1} CodesRequests = {x1, x2} CodesTokens = {y1} NoRow = NoRow TTL = 1
    Cooldown = 1 Hour = 1 RateRetention = 9 MaxSends = 2 MaxAttempts = 1 CountCap = 3 CodesMaxTime = 3
    \* limiter and address: see Services.cfg
    Clients = {a} burst = 1 Refill = 1 maxKeys = 1 idleTtl = 1 Second = 1 MaxTime = 0
    Coords = {p1} Geocoders = {g1} Reporters = {r1} Outside = {} AddressMaxEdits = 0 AddressMaxRuns = 0
PROPERTIES
    RequestsEnd
    AllAnswered
    QueueDrains
    ExpiredEventuallyDeleted
CHECK_DEADLOCK FALSE
