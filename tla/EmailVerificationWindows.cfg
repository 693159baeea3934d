SPECIFICATION Spec
CONSTANTS
    Intents = {i1, i2}
    Emails = {e1, e2}
    Ips = {p1}
    Requests = {r1, r2, r3, r4}
    Tokens = {}
    NoToken = NoToken
    NoRow = NoRow
    TTL = 2
    Cooldown = 1
    Hour = 2
    RateRetention = 3
    MaxSends = 2
    MaxAttempts = 2
    RateMax <- MCRateMax
    SendEmailMax = 2
    SendIpMax = 3
    VerifyEmailMax = 0
    VerifyIpMax = 0
    CountCap = 4
    MaxTime = 6
SYMMETRY Symmetry
INVARIANTS
    SendWindowBounded
CHECK_DEADLOCK FALSE
