----------------------------- MODULE MCServices ------------------------------
(* The services of the backend for TLC: the limiter and the queue of address  *)
(* suggestions, the addresses of light points, the sessions and accounts of   *)
(* administrators, the export, and, for what larger runs do not ask, the      *)
(* submission of reports, the import queue and the clean-up of email          *)
(* verification. A behaviour follows one part, chosen at its start.           *)
EXTENDS AddressIpLimiter, Integers, Sequences, FiniteSets

CONSTANTS Parts, OneTab, MaxLogins, Tabs, MaxSessions, Gone, Callers, AdmissionKeys,
          maxPending, maxActive, queueExpiry, timeout, minStartInterval, dailyBudget, Day,
          AdmissionMaxTime, NoTimer, Coords, Geocoders, Reporters, Outside, AddressMaxEdits,
          AddressMaxRuns, None, Operators, AccountRequests, Names, AccountMaxRuns, Nobody,
          Exports, Conns, Ids, Numbers, ChunkRows, Filters, MaxChanges, MaxExpired,
          SubmissionRequests, Attempts, SubmissionTokens, Points, NoToken, NoPoint, Free,
          NoReceipt, TokenTTL, ReceiptTTL, Window, MaxTicks, Workers, Batches, NoBatch,
          ImportKeys, Kinds, NRows, ROWS_PER_QUERY, ImportMaxFaults, ImportMaxEdits,
          Intents, Emails, Ips, CodesRequests, CodesTokens, NoRow, TTL, Cooldown, Hour,
          RateRetention, MaxSends, MaxAttempts, CountCap, CodesMaxTime

VARIABLES part, admissionNow, queue, entry, expiresAt, timeoutAt, subscribers,
          admissionHeld, admissionActive, nextStartAt, spacingTimer, budgetDate, budgetUsed,
          pumping, admissionAnswer, lastStart, startsToday, exists, coord, address,
          geocoded, audited, addressEdits, geo, runsLeft, rep, session, sessionActive,
          cookie, access, admin, call, rotation, logout, logins, doubles, parted, excused,
          sessionFaults, admins, origin, logged, accountPc, name, accountLock,
          accountAnswer, runs, inventory, ex, conn, client, during, bounds, submissionNow,
          history, receipts, spent, submissionPoints, submissionLock, submissionPc, inp,
          draft, batch, rows, importPoints, audits, leader, importPc, job, left, importHeld,
          blamed, importFaults, importEdits, codesNow, ch, rate, codesPc, code, grants,
          consumptions

admissionVars == <<admissionNow, queue, entry, expiresAt, timeoutAt, subscribers,
                   admissionHeld, admissionActive, nextStartAt, spacingTimer, budgetDate,
                   budgetUsed, pumping, admissionAnswer, lastStart, startsToday>>
addressVars == <<exists, coord, address, geocoded, audited, addressEdits, geo, runsLeft, rep>>
sessionVars == <<session, sessionActive, cookie, access, admin, call, rotation, logout,
                 logins, doubles, parted, excused, sessionFaults>>
accountVars == <<admins, origin, logged, accountPc, name, accountLock, accountAnswer, runs>>
exportVars == <<inventory, ex, conn, client, during, bounds>>
submissionVars == <<submissionNow, history, receipts, spent, submissionPoints,
                    submissionLock, submissionPc, inp, draft>>
importVars == <<batch, rows, importPoints, audits, leader, importPc, job, left, importHeld,
                blamed, importFaults, importEdits>>
codesVars == <<codesNow, ch, rate, codesPc, code, grants, consumptions>>

CodeRateMax == [s \in {"send_email", "send_ip", "verify_email", "verify_ip"} |->
                   IF s \in {"send_email", "send_ip"} THEN 2 ELSE 1]

Admission == INSTANCE AddressAdmission WITH
    Keys <- AdmissionKeys, MaxTime <- AdmissionMaxTime, now <- admissionNow,
    held <- admissionHeld, active <- admissionActive, answer <- admissionAnswer
Address == INSTANCE LightPointAddress WITH
    MaxEdits <- AddressMaxEdits, MaxRuns <- AddressMaxRuns, edits <- addressEdits
\* The sessions and the queue are taken with their proofs, so that their invariants
\* are facts about the parts here.  One tab with calls side by side, and statements
\* that fail.
Tab == INSTANCE AuthSessionsProofs WITH
    Tabs <- OneTab, Slots <- {1, 2}, MaxSessions <- 2, MaxFaults <- 1,
    active <- sessionActive, faults <- sessionFaults
\* Two tabs of one browser.
Sessions == INSTANCE AuthSessionsProofs WITH
    Slots <- {1}, MaxLogins <- 1, MaxFaults <- 0, active <- sessionActive,
    faults <- sessionFaults
Accounts == INSTANCE AdminAccounts WITH
    Requests <- AccountRequests, MaxRuns <- AccountMaxRuns, pc <- accountPc,
    lock <- accountLock, answer <- accountAnswer
Export == INSTANCE InventoryExport
Submission == INSTANCE ReportSubmission WITH
    Requests <- SubmissionRequests, Tokens <- SubmissionTokens, now <- submissionNow,
    points <- submissionPoints, lock <- submissionLock, pc <- submissionPc
Queue == INSTANCE ImportQueueProofs WITH
    Keys <- ImportKeys, MaxFaults <- ImportMaxFaults, MaxEdits <- ImportMaxEdits,
    points <- importPoints, pc <- importPc, held <- importHeld, faults <- importFaults,
    edits <- importEdits
Codes == INSTANCE EmailVerification WITH
    Requests <- CodesRequests, Tokens <- CodesTokens, RateMax <- CodeRateMax,
    MaxTime <- CodesMaxTime, now <- codesNow, pc <- codesPc

ASSUME PartsAssumption ==
    /\ Admission!AdmissionAssumption
    /\ Address!AddressAssumption
    /\ Tab!SessionsAssumption
    /\ Sessions!SessionsAssumption
    /\ Accounts!AccountsAssumption
    /\ Export!ExportAssumption
    /\ Queue!Assumption

-----------------------------------------------------------------------------
(* One of the parts runs, the others stay as they are at their start.       *)

PartsInit ==
    /\ part \in Parts
    /\ Init
    /\ Admission!Init
    /\ Address!Init
    /\ IF part = "sessions" THEN Sessions!Init ELSE Tab!Init
    /\ Accounts!Init
    /\ Export!Init
    /\ Submission!Init
    /\ Queue!Init
    /\ Codes!Init
    /\ part \notin {"address"} => coord = (CHOOSE c \in Coords : TRUE) /\ address = None
    /\ part \notin {"accounts"} => name = [p \in Accounts!Procs |-> CHOOSE n \in Names : TRUE]
    /\ part \notin {"submission"} => inp = [r \in SubmissionRequests |-> CHOOSE i \in Submission!Input : TRUE]
    /\ part \notin {"import"} => importPoints = [k \in ImportKeys |-> "none"]

PartsNext ==
    \/ part = "limiter" /\ Next
       /\ UNCHANGED <<part, admissionVars, addressVars, sessionVars, accountVars,
                        exportVars, submissionVars, importVars, codesVars>>
    \/ part = "admission" /\ Admission!Next
       /\ UNCHANGED <<part, vars, addressVars, sessionVars, accountVars, exportVars,
                        submissionVars, importVars, codesVars>>
    \/ part = "address" /\ Address!Next
       /\ UNCHANGED <<part, vars, admissionVars, sessionVars, accountVars, exportVars,
                        submissionVars, importVars, codesVars>>
    \/ part = "tab" /\ Tab!Next
       /\ UNCHANGED <<part, vars, admissionVars, addressVars, accountVars, exportVars,
                        submissionVars, importVars, codesVars>>
    \/ part = "sessions" /\ Sessions!Next
       /\ UNCHANGED <<part, vars, admissionVars, addressVars, accountVars, exportVars,
                        submissionVars, importVars, codesVars>>
    \/ part = "accounts" /\ Accounts!Next
       /\ UNCHANGED <<part, vars, admissionVars, addressVars, sessionVars, exportVars,
                        submissionVars, importVars, codesVars>>
    \/ part = "export" /\ Export!Next
       /\ UNCHANGED <<part, vars, admissionVars, addressVars, sessionVars, accountVars,
                        submissionVars, importVars, codesVars>>
    \/ part = "submission" /\ Submission!Next
       /\ UNCHANGED <<part, vars, admissionVars, addressVars, sessionVars, accountVars,
                        exportVars, importVars, codesVars>>
    \/ part = "import" /\ Queue!Next
       /\ UNCHANGED <<part, vars, admissionVars, addressVars, sessionVars, accountVars,
                        exportVars, submissionVars, codesVars>>
    \/ part = "codes" /\ Codes!Next
       /\ UNCHANGED <<part, vars, admissionVars, addressVars, sessionVars, accountVars,
                        exportVars, submissionVars, importVars>>

partsVars == <<part, vars, admissionVars, addressVars, sessionVars, accountVars, exportVars,
               submissionVars, importVars, codesVars>>

PartsSpec == PartsInit /\ [][PartsNext]_partsVars

\* The fairness of each part's FairSpec, for the part that runs.
PartsFairSpec ==
    /\ PartsSpec
    /\ WF_admissionVars(part = "admission" /\ Admission!pump)
    /\ WF_admissionVars(part = "admission" /\ Admission!Tick)
    /\ WF_admissionVars(part = "admission" /\ Admission!spacingElapsed)
    /\ \A k \in AdmissionKeys :
           WF_admissionVars(part = "admission" /\ Admission!expireQueued(k))
    /\ \A k \in AdmissionKeys : WF_admissionVars(part = "admission" /\ Admission!timedOut(k))
    /\ \A t \in OneTab : WF_sessionVars(part = "tab" /\ Tab!refreshed(t))
    /\ \A c \in Tab!Calls : WF_sessionVars(part = "tab" /\ Tab!answered(c))
    /\ \A r \in Tab!Rotators :
           WF_sessionVars(part = "tab" /\ (Tab!serve(r) \/ (Tab!Fresh = {} /\ Tab!statementFails(r))))
    /\ \A e \in Exports : WF_exportVars(part = "export" /\ Export!Server(e))
    /\ \A e \in Exports : WF_exportVars(part = "export" /\ Export!Drains(e))
    /\ \A e \in Exports : WF_exportVars(part = "export" /\ Export!Client(e))
    /\ \A r \in SubmissionRequests :
           WF_submissionVars(part = "submission" /\ Submission!Statement(r))
    /\ \A w \in Workers : WF_importVars(part = "import" /\ Queue!Step(w))
    /\ \A b \in Batches : WF_importVars(part = "import" /\ Queue!deadlinePasses(b))
    /\ WF_codesVars(part = "codes" /\ Codes!cleanupExpired)

-----------------------------------------------------------------------------
(* What the runs check of the parts.                                       *)

\* Whoever waits is subscribed to exactly one entry that is queued or running,
\* and no entry is there for nobody; an entry that could be started is never
\* left without a wake-up; and the provider is called no more often than agreed
\* and never for an entry that has expired
\* (reportAddressSuggestion.service.ts).
AdmissionSound ==
    /\ [](part = "admission" =>
             /\ Admission!TypeOK
             /\ Admission!NobodyForgotten
             /\ Admission!WakeUpPending)
    /\ Admission!ProviderSpared

\* An address that was geocoded belongs to where the point is now, the audit
\* trail's last values are those of the row, no system write destroys an edit
\* it had not seen, and a report only fills an address that was missing
\* (lightPoints.service.ts, lightPointAddressRepository.ts).
AddressSound ==
    /\ [](part = "address" =>
             /\ Address!TypeOK
             /\ Address!GeocodedIsHere
             /\ Address!AuditReplays)
    /\ Address!NoLostEdit
    /\ Address!ReportsOnlyFill

\* The sessions of two tabs, and of one with calls side by side and statements
\* that fail: rotation trades a session for a session unless one is rotated
\* twice, after a logout that met no rotation nothing the browser holds or is sent
\* can be rotated, and a tab that is alone is refused no rotation as long as nobody
\* logged out or stayed away too long (auth.service.ts, adminApi.ts).
SessionsSound ==
    /\ part = "sessions" => Sessions!SessionsSound
    /\ part = "tab" => Tab!SessionsSound

\* However many terminals run the bootstrap, and however often after a lost
\* answer, it creates one administrator and creates it first; who is there is
\* logged, and who was answered is there (bootstrapAdmin.service.ts,
\* admin.service.ts).
AccountsSound ==
    part = "accounts" =>
        /\ Accounts!TypeOK
        /\ Accounts!OneFirst
        /\ Accounts!LoggedAndAnswered

\* A saved file is one state of the inventory during the export, whole and in
\* order, and a connection back in the pool has no open transaction, however
\* its export ended (streetLightsExport.service.ts).
ExportSound ==
    part = "export" =>
        /\ Export!TypeOK
        /\ Export!FileComplete
        /\ Export!CleanPool

\* Two workers that both believe they lead never have two batches in processing
\* (importQueueWorker.service.ts).
SingleProcessing == part = "import" => Queue!SingleProcessing

\* Every caller of the address service is answered, also if the provider never
\* is; every call of a tab ends; and the connection of an export returns to the
\* pool, also when its client goes away.
RequestsEnd ==
    /\ (part = "admission") => Admission!EveryoneAnswered
    /\ (part = "tab") => Tab!CallsEnd
    /\ (part = "export") => Export!Released

\* A submitted report is answered: no order of its locks leaves requests
\* waiting for each other (faultReportHistory.service.ts).
AllAnswered == (part = "submission") => Submission!AllAnswered

\* A confirmed batch is finished if rows are refused only with codes
\* safeFailure knows (importQueueWorker.service.ts).
QueueDrains == (part = "import") => Queue!QueueDrains

\* A dead challenge does not stay in the table (emailVerificationStore.ts).
ExpiredEventuallyDeleted == (part = "codes") => Codes!ExpiredEventuallyDeleted

=============================================================================
