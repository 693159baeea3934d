SPECIFICATION PartsSpec
CONSTANTS
    Parts = {"map", "autofill", "verification", "draft", "plain", "files", "import"}
    None = None
    \* map
    MapPoints = {p1} Places = {c1} Positions = {d1} Manual = Manual TilesEnabled = TRUE RecenterAllowed = TRUE
    MaxChoices = 2 MaxRetries = 0
    \* autofill
    AutofillPoints = {p1, p2} Elsewhere = Elsewhere Blank = Blank MaxTargets = 3 MaxEdits = 2 MaxOther = 1
    \* verification
    Emails = {e1, e2} VerificationMaxCalls = 3 MaxReloads = 1
    \* draft, plain
    Values = {v1, v2} Invalid = {v2} Addresses = {a1, a2} TTL = 2 MaxTime = 3 DraftMaxCalls = 2 MaxTokens = 1
    DraftMaxFaults = 2 PlainMaxTime = 4 PlainMaxCalls = 3 PlainMaxFaults = 2
    \* files
    Files = {f1, f2} MaxDrafts = 2 MaxSelects = 2 FilesMaxFaults = 2 MaxSwitches = 0
    \* import
    MaxUploads = 2 MaxTurns = 1 MaxConfirms = 1 MaxBack = 1 MaxLost = 1 MaxTicks = 1
INVARIANTS
    VerificationSound
    
PROPERTIES
    MapSound
    AutofillSound
    
    
CHECK_DEADLOCK FALSE
