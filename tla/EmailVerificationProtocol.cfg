SPECIFICATION Spec
CONSTANTS
    Intents = {i1}
    Emails = {e1}
    Ips = {p1}
    Requests = {r1, r2, r3}
    Tokens = {t1, t2}
    NoToken = NoToken
    NoRow = NoRow
    TTL = 2
    Cooldown = 1
    Hour = 2
    RateRetention = 9
    MaxSends = 2
    MaxAttempts = 2
    RateMax <- MCRateMax
    SendEmailMax = 3
    SendIpMax = 3
    VerifyEmailMax = 3
    VerifyIpMax = 3
    CountCap = 4
    MaxTime = 5
SYMMETRY Symmetry
INVARIANTS
    ChecksSound
    DeliveriesPaced
    SingleUse
    GrantHonoured
    SentCodeUsable
