--------------------------- MODULE OperationsProofs ---------------------------
(***************************************************************************)
(* The operator's side of the system, for any number of runs, migrations   *)
(* and failures: what MCOperations checks of it on small instances.        *)
(***************************************************************************)
EXTENDS MCOperations, Sequences, SequenceTheorems, FiniteSetTheorems, TLAPS

-----------------------------------------------------------------------------
(* The controlled restore and the recovery drill.                          *)

BeforeTarget == {"none", "connecting", "creating"}
OnTarget     == {"restoring", "streaming", "granting", "validating", "ending", "checking", "finishing"}
Cleaning     == {"cleanPools", "cleanConnect", "cleanDrop", "cleanFiles"}

RestoreTypes ==
    /\ drill \in {"idle", "backedUp", "lost", "restored", "matched", "mismatched",
                  "complete", "failed", "cleanup_failed"}
    /\ restorePc \in BeforeTarget \cup OnTarget \cup Cleaning \cup {"ended"}
    /\ admin \in {"none", "open", "pooled", "closed"} /\ child \in {"none", "running", "gone"}
    /\ restoreAborted \in BOOLEAN /\ dirty \in BOOLEAN /\ untrusted \in BOOLEAN /\ database \in BOOLEAN
    /\ creating \in BOOLEAN /\ cutCreate \in BOOLEAN /\ mayExist \in BOOLEAN /\ granted \in BOOLEAN
    /\ pgpass \in BOOLEAN /\ confirmed \in BOOLEAN
    /\ content \in {"none", "partial", "exact", "other", "broken"}
    /\ runtimePool \in {"none", "open", "lingering"} /\ adminPool \in {"none", "open", "lingering"}
    /\ outcome \in {"none", "receipt", "preflight_failed", "discarded", "unconfirmed"}
    /\ restoreFaults \in 0..RestoreMaxFaults

\* The administrator's session is used as long as it is trusted, and goes back to
\* the pool only as it came.
SessionOK ==
    /\ dirty => untrusted
    /\ restorePc \in BeforeTarget \cup OnTarget => ~untrusted
    /\ restorePc \in {"creating"} \cup OnTarget => admin = "open"
    /\ admin = "pooled" => restorePc = "ended" /\ ~untrusted

\* What the server has of the target, and what the restore knows of it.
TargetOK ==
    /\ creating => cutCreate
    /\ ~mayExist => ~database /\ ~cutCreate /\ content = "none"
    /\ restorePc \in BeforeTarget => ~mayExist
    /\ restorePc \in OnTarget => database /\ mayExist /\ ~creating /\ ~cutCreate

\* How far the restore is with the target.
ProgressOK ==
    /\ restorePc \in BeforeTarget => child = "none" /\ runtimePool = "none" /\ adminPool = "none" /\ ~pgpass
    /\ restorePc \in {"granting", "validating", "ending", "checking", "finishing"} => child = "gone"
    /\ restorePc \in {"ending", "checking", "finishing"} => granted /\ content \in {"exact", "other"}
    /\ restorePc = "finishing" => runtimePool = "none" /\ adminPool = "none"
    /\ restorePc \in BeforeTarget \cup OnTarget => confirmed

\* The cleanup is confirmed only when nobody uses the target and it is gone.
CleanupOK ==
    /\ restorePc = "cleanFiles" /\ mayExist /\ confirmed =>
          ~Restore!TargetSessions /\ (database => cutCreate)
    /\ outcome = "none" <=> restorePc # "ended"
    /\ outcome = "unconfirmed" <=> restorePc = "ended" /\ ~confirmed
    /\ outcome = "preflight_failed" => ~mayExist
    /\ outcome = "discarded" => ~Restore!TargetSessions /\ ~pgpass /\ (database => cutCreate)
    /\ outcome = "receipt" => /\ granted /\ content \in {"exact", "other"}
                              /\ ~Restore!TargetSessions /\ ~pgpass /\ ~creating /\ ~cutCreate

\* The drill has a receipt exactly for the database it disposes of.
DrillOK ==
    /\ drill \in {"idle", "backedUp"} => restorePc = "none"
    /\ drill \in {"matched", "mismatched", "complete", "cleanup_failed"} => outcome = "receipt"
    /\ drill = "failed" => restorePc \in {"none", "ended"}
    /\ drill \in {"matched", "complete"} => content = "exact"
    /\ outcome = "receipt" /\ drill = "lost" => database
    /\ outcome = "receipt" /\ drill \in {"complete", "failed"} => ~database

RestoreInv == RestoreTypes /\ SessionOK /\ TargetOK /\ ProgressOK /\ CleanupOK /\ DrillOK

LEMMA RestoreInit == Restore!Init => RestoreInv
<1> SUFFICES ASSUME Restore!Init PROVE RestoreInv
  OBVIOUS
<1> USE DEF Restore!Init, BeforeTarget, OnTarget, Cleaning
<1>1. restoreFaults \in 0..RestoreMaxFaults
  BY PartsAssumption DEF Restore!RestoreAssumption
<1>2. RestoreTypes
  BY <1>1 DEF RestoreTypes
<1>3. SessionOK /\ TargetOK /\ ProgressOK
  BY DEF SessionOK, TargetOK, ProgressOK
<1>4. CleanupOK /\ DrillOK
  BY DEF CleanupOK, DrillOK, Restore!TargetSessions
<1>5. QED
  BY <1>2, <1>3, <1>4 DEF RestoreInv

\* A query of the administrator's session is done or not to be trusted.
LEMMA QueryKinds ==
    ASSUME RestoreTypes, SessionOK, Restore!QueryDone \/ Restore!QueryUntrusts
    PROVE  untrusted' \in BOOLEAN /\ dirty' \in BOOLEAN /\ (dirty' => untrusted') /\ UNCHANGED admin
<1>1. CASE Restore!QueryDone
  BY <1>1 DEF Restore!QueryDone, Restore!session, RestoreTypes, SessionOK
<1>2. CASE Restore!QueryUntrusts
  BY <1>2, Zenon DEF Restore!QueryUntrusts
<1>3. QED
  BY <1>1, <1>2

LEMMA RestoreAdvances ==
    ASSUME RestoreInv,
           \/ Restore!preflight \/ Restore!connectAdmin \/ Restore!createDatabase \/ Restore!spawnChildren
           \/ Restore!childrenEnd \/ Restore!terminateChildren \/ Restore!applyGrants \/ Restore!validate
           \/ Restore!endPools \/ Restore!verifyTargetExists \/ Restore!return \/ Restore!fail
    PROVE  RestoreInv'
<1> USE PartsAssumption DEF Restore!RestoreAssumption, Restore!session, Restore!target, Restore!clients,
        Restore!ends, Restore!Fails, Restore!At, Restore!Fault, Restore!FaultUnlessAborted,
        Restore!QueryDone, Restore!QueryUntrusts, Restore!TargetSessions,
        RestoreInv, RestoreTypes, SessionOK, TargetOK, ProgressOK, CleanupOK, DrillOK,
        BeforeTarget, OnTarget, Cleaning
<1>1. CASE Restore!preflight
  BY <1>1 DEF Restore!preflight
<1>2. CASE Restore!connectAdmin
  <2>1. restoreFaults' \in 0..RestoreMaxFaults
    BY <1>2 DEF Restore!connectAdmin
  <2>2. /\ UNCHANGED <<drill, restoreAborted, database, creating, cutCreate, mayExist, content, granted>>
        /\ UNCHANGED <<child, runtimePool, adminPool, pgpass, confirmed, outcome>>
        /\ restorePc = "connecting" /\ restorePc' \in {"creating", "cleanPools"}
    BY <1>2 DEF Restore!connectAdmin
  <2>3. /\ untrusted' \in BOOLEAN /\ dirty' \in BOOLEAN /\ (dirty' => untrusted')
        /\ admin' \in {admin, "open"} /\ (restorePc' = "creating" => admin' = "open" /\ UNCHANGED untrusted)
    BY <1>2 DEF Restore!connectAdmin
  <2>4. ~untrusted /\ admin # "pooled"
    BY <2>2
  <2>5. QED
    BY <2>1, <2>2, <2>3, <2>4
<1>3. CASE Restore!createDatabase
  <2>1. restoreFaults' \in 0..RestoreMaxFaults
    BY <1>3 DEF Restore!createDatabase
  <2>2. /\ UNCHANGED <<drill, restoreAborted, content, granted, child, runtimePool, confirmed, outcome, admin>>
        /\ restorePc = "creating" /\ mayExist' = TRUE
    BY <1>3 DEF Restore!createDatabase
  <2>3. CASE restorePc' = "restoring"
    <3>1. /\ UNCHANGED <<creating, cutCreate, dirty, untrusted>>
          /\ database' = TRUE /\ pgpass' = TRUE /\ adminPool' = "open"
      BY <1>3, <2>3, Zenon DEF Restore!createDatabase
    <3>2. database' \in BOOLEAN /\ pgpass' \in BOOLEAN /\ mayExist' \in BOOLEAN /\ mayExist' /\ database'
      BY <2>2, <3>1, Zenon
    <3>3. RestoreTypes' /\ SessionOK'
      BY <2>1, <2>2, <2>3, <3>1, <3>2
    <3>4. ~creating /\ ~cutCreate
      BY <2>2
    <3>5. TargetOK' /\ ProgressOK'
      BY <2>2, <2>3, <3>1, <3>2, <3>4
    <3>6. CleanupOK' /\ DrillOK'
      BY <2>2, <2>3, <3>1, <3>2
    <3>7. QED
      BY <3>3, <3>5, <3>6
  <2>4. CASE restorePc' = "cleanPools"
    <3>1. UNCHANGED <<pgpass, adminPool>>
      BY <1>3, <2>4 DEF Restore!createDatabase
    <3>2. /\ Restore!QueryDone \/ Restore!QueryUntrusts
          /\ \/ UNCHANGED <<database, creating, cutCreate>>
             \/ database' = TRUE /\ UNCHANGED <<creating, cutCreate>>
             \/ creating' = TRUE /\ cutCreate' = TRUE /\ UNCHANGED database
      BY <1>3, <2>4, Zenon DEF Restore!createDatabase
    <3>3. database' \in BOOLEAN /\ creating' \in BOOLEAN /\ cutCreate' \in BOOLEAN /\ (creating' => cutCreate')
      <4>1. CASE UNCHANGED <<database, creating, cutCreate>>
        BY <4>1
      <4>2. CASE database' = TRUE /\ UNCHANGED <<creating, cutCreate>>
        BY <4>2
      <4>3. CASE creating' = TRUE /\ cutCreate' = TRUE /\ UNCHANGED database
        BY <4>3
      <4>4. QED
        BY <3>2, <4>1, <4>2, <4>3
    <3>4. QED
      BY <2>1, <2>2, <2>4, <3>1, <3>2, <3>3, QueryKinds
  <2>5. QED
    BY <1>3, <2>3, <2>4 DEF Restore!createDatabase
<1>4. CASE Restore!spawnChildren
  BY <1>4 DEF Restore!spawnChildren
<1>5. CASE Restore!childrenEnd
  BY <1>5 DEF Restore!childrenEnd
<1>6. CASE Restore!terminateChildren
  BY <1>6 DEF Restore!terminateChildren
<1>7. CASE Restore!applyGrants
  BY <1>7 DEF Restore!applyGrants
<1>8. CASE Restore!validate
  BY <1>8 DEF Restore!validate, Restore!Valid
<1>9. CASE Restore!endPools
  BY <1>9 DEF Restore!endPools
<1>10. CASE Restore!verifyTargetExists
  BY <1>10 DEF Restore!verifyTargetExists, Restore!Drained
<1>11. CASE Restore!return
  BY <1>11 DEF Restore!return
<1>12. CASE Restore!fail
  <2>1. restoreFaults' \in 0..RestoreMaxFaults
    BY <1>12 DEF Restore!fail, Restore!Valid
  <2>2. /\ UNCHANGED <<drill, restoreAborted, database, creating, cutCreate, mayExist, content, granted>>
        /\ UNCHANGED <<pgpass, confirmed, outcome, child, admin>>
        /\ restorePc \in OnTarget /\ restorePc' = "cleanPools"
    BY <1>12 DEF Restore!fail
  <2>3. Restore!QueryDone \/ Restore!QueryUntrusts
    BY <1>12, Zenon DEF Restore!fail
  <2>4. runtimePool' \in {"none", "open", "lingering"} /\ adminPool' \in {"none", "open", "lingering"}
    BY <1>12 DEF Restore!fail
  <2>5. untrusted' \in BOOLEAN /\ dirty' \in BOOLEAN /\ (dirty' => untrusted')
    BY <2>3, QueryKinds
  <2>6. QED
    BY <2>1, <2>2, <2>4, <2>5
<1>13. QED
  BY <1>1, <1>2, <1>3, <1>4, <1>5, <1>6, <1>7, <1>8, <1>9, <1>10, <1>11, <1>12

LEMMA RestoreCleansUp ==
    ASSUME RestoreInv,
           \/ Restore!cleanPools \/ Restore!cleanConnect \/ Restore!dropTarget \/ Restore!cleanFiles
           \/ Restore!abort \/ Restore!createCompletes \/ Restore!lingerersLeave
    PROVE  RestoreInv'
<1> USE PartsAssumption DEF Restore!RestoreAssumption, Restore!session, Restore!target, Restore!clients,
        Restore!ends, Restore!Fails, Restore!At, Restore!Fault, Restore!FaultUnlessAborted,
        Restore!TargetSessions,
        RestoreInv, RestoreTypes, SessionOK, TargetOK, ProgressOK, CleanupOK, DrillOK,
        BeforeTarget, OnTarget, Cleaning
<1>1. CASE Restore!cleanPools
  <2>1. /\ UNCHANGED <<drill, restoreAborted, admin, dirty, untrusted, child, pgpass, outcome>>
        /\ UNCHANGED <<database, creating, cutCreate, mayExist, content, granted>>
        /\ restorePc = "cleanPools" /\ restorePc' = "cleanConnect"
    BY <1>1 DEF Restore!cleanPools
  <2>2. restoreFaults' \in 0..RestoreMaxFaults
    BY <1>1 DEF Restore!cleanPools
  <2>3. confirmed' = confirmed \/ confirmed' = FALSE
    BY <1>1, Zenon DEF Restore!cleanPools
  <2>4. confirmed' \in BOOLEAN
    BY <2>3, Zenon
  <2>5. runtimePool' \in {"none", "open", "lingering"} /\ adminPool' \in {"none", "open", "lingering"}
    BY <1>1 DEF Restore!cleanPools
  <2>6. QED
    BY <2>1, <2>2, <2>4, <2>5
<1>2. CASE Restore!cleanConnect
  <2>1. /\ UNCHANGED <<drill, restoreAborted, child, runtimePool, adminPool, pgpass, outcome>>
        /\ UNCHANGED <<database, creating, cutCreate, mayExist, content, granted>>
        /\ restorePc = "cleanConnect"
    BY <1>2 DEF Restore!cleanConnect
  <2>2. restoreFaults' \in 0..RestoreMaxFaults
    BY <1>2 DEF Restore!cleanConnect
  <2>3. \/ UNCHANGED <<dirty, untrusted>>
        \/ dirty' = FALSE /\ untrusted' = FALSE
    BY <1>2, Zenon DEF Restore!cleanConnect
  <2>4. dirty' \in BOOLEAN /\ untrusted' \in BOOLEAN /\ (dirty' => untrusted')
    <3>1. CASE UNCHANGED <<dirty, untrusted>>
      BY <3>1
    <3>2. CASE dirty' = FALSE /\ untrusted' = FALSE
      BY <3>2, Zenon
    <3>3. QED
      BY <2>3, <3>1, <3>2
  <2>5. /\ restorePc' \in {"cleanDrop", "cleanFiles"} /\ admin' \in {admin, "closed", "open"}
        /\ UNCHANGED confirmed \/ confirmed' = FALSE
        /\ restorePc' = "cleanFiles" => ~mayExist \/ confirmed' = FALSE
    BY <1>2, Zenon DEF Restore!cleanConnect
  <2>6. confirmed' \in BOOLEAN /\ (restorePc' = "cleanFiles" /\ mayExist => ~confirmed')
    BY <2>5, Zenon
  <2>7. QED
    BY <2>1, <2>2, <2>4, <2>5, <2>6
<1>3. CASE Restore!dropTarget
  <2>1. /\ UNCHANGED <<drill, restoreAborted, child, runtimePool, adminPool, pgpass, outcome>>
        /\ UNCHANGED <<creating, cutCreate, mayExist, content, granted>>
        /\ restorePc = "cleanDrop" /\ restorePc' = "cleanFiles"
    BY <1>3 DEF Restore!dropTarget
  <2>2. restoreFaults' \in 0..RestoreMaxFaults
    BY <1>3 DEF Restore!dropTarget
  <2>3. Restore!QueryDone \/ Restore!QueryUntrusts
    BY <1>3, Zenon DEF Restore!dropTarget, Restore!QueryDone
  <2>4. untrusted' \in BOOLEAN /\ dirty' \in BOOLEAN /\ (dirty' => untrusted') /\ UNCHANGED admin
    BY <2>3, QueryKinds
  <2>5. \/ ~mayExist /\ UNCHANGED <<database, confirmed>>
        \/ ~Restore!TargetSessions /\ database' = FALSE /\ UNCHANGED confirmed
        \/ mayExist /\ confirmed' = FALSE /\ database' \in {database, database /\ Restore!TargetSessions}
    BY <1>3 DEF Restore!dropTarget, Restore!Drained
  <2>6. /\ database' \in BOOLEAN /\ confirmed' \in BOOLEAN /\ (database' => database)
        /\ mayExist /\ confirmed' => ~Restore!TargetSessions /\ ~database'
    <3>1. CASE ~mayExist /\ UNCHANGED <<database, confirmed>>
      BY <3>1
    <3>2. CASE ~Restore!TargetSessions /\ database' = FALSE /\ UNCHANGED confirmed
      BY <3>2
    <3>3. CASE mayExist /\ confirmed' = FALSE /\ database' \in {database, database /\ Restore!TargetSessions}
      <4> HIDE DEF Restore!TargetSessions
      <4>1. database' = database \/ database' = FALSE
        BY <3>3
      <4>2. QED
        BY <3>3, <4>1
    <3>4. QED
      BY <2>5, <3>1, <3>2, <3>3
  <2>7. QED
    BY <2>1, <2>2, <2>4, <2>6
<1>4. CASE Restore!cleanFiles
  <2>1. /\ UNCHANGED <<drill, restoreAborted, dirty, untrusted, child, runtimePool, adminPool>>
        /\ UNCHANGED <<database, creating, cutCreate, mayExist, content, granted>>
        /\ restorePc = "cleanFiles" /\ restorePc' = "ended"
    BY <1>4 DEF Restore!cleanFiles
  <2>2. restoreFaults' \in 0..RestoreMaxFaults
    BY <1>4 DEF Restore!cleanFiles
  <2>3. \/ pgpass' = FALSE /\ UNCHANGED confirmed
        \/ confirmed' = FALSE /\ UNCHANGED pgpass
    BY <1>4, Zenon DEF Restore!cleanFiles
  <2>4. pgpass' \in BOOLEAN /\ confirmed' \in BOOLEAN /\ (confirmed' => confirmed /\ ~pgpass')
    <3>1. pgpass \in BOOLEAN /\ confirmed \in BOOLEAN
      OBVIOUS
    <3>2. CASE pgpass' = FALSE /\ UNCHANGED confirmed
      BY <3>1, <3>2
    <3>3. CASE confirmed' = FALSE /\ UNCHANGED pgpass
      BY <3>1, <3>3
    <3>4. QED
      BY <2>3, <3>2, <3>3
  <2>5. outcome' = IF ~confirmed' THEN "unconfirmed" ELSE IF mayExist THEN "discarded" ELSE "preflight_failed"
    BY <1>4 DEF Restore!cleanFiles
  <2>6. admin' \in {admin, "closed", "pooled"} /\ (admin' = "pooled" => admin = "pooled" \/ ~untrusted)
    BY <1>4, <2>4 DEF Restore!cleanFiles, Restore!ReleaseAs
  <2>7. RestoreTypes' /\ SessionOK' /\ TargetOK' /\ ProgressOK'
    BY <2>1, <2>2, <2>4, <2>5, <2>6
  <2>8. CleanupOK' /\ DrillOK'
    BY <2>1, <2>4, <2>5
  <2>9. QED
    BY <2>7, <2>8
<1>5. CASE Restore!abort
  BY <1>5 DEF Restore!abort
<1>6. CASE Restore!createCompletes
  <2>1. /\ UNCHANGED <<drill, restorePc, restoreAborted, admin, dirty, untrusted, child, runtimePool, adminPool>>
        /\ UNCHANGED <<cutCreate, mayExist, content, granted, pgpass, confirmed, outcome, restoreFaults>>
        /\ creating /\ creating' = FALSE /\ database' \in BOOLEAN
    BY <1>6 DEF Restore!createCompletes
  <2>2. cutCreate /\ mayExist /\ outcome # "receipt" /\ restorePc \notin OnTarget
    BY <2>1
  <2>3. creating' \in BOOLEAN /\ ~creating'
    BY <2>1, Zenon
  <2>4. RestoreTypes'
    BY <2>1, <2>3
  <2>5. SessionOK' /\ TargetOK' /\ ProgressOK'
    BY <2>1, <2>2, <2>3
  <2>6. CleanupOK' /\ DrillOK'
    BY <2>1, <2>2
  <2>7. QED
    BY <2>4, <2>5, <2>6
<1>7. CASE Restore!lingerersLeave
  BY <1>7 DEF Restore!lingerersLeave
<1>8. QED
  BY <1>1, <1>2, <1>3, <1>4, <1>5, <1>6, <1>7

LEMMA DrillAdvances ==
    ASSUME RestoreInv, Restore!backUpAndLose \/ Restore!restoreAnswered \/ Restore!disposeRestoredDatabase
    PROVE  RestoreInv'
<1> USE PartsAssumption DEF Restore!RestoreAssumption, Restore!session, Restore!target, Restore!clients,
        Restore!ends, Restore!Fault, Restore!TargetSessions,
        RestoreInv, RestoreTypes, SessionOK, TargetOK, ProgressOK, CleanupOK, DrillOK,
        BeforeTarget, OnTarget, Cleaning
<1>1. CASE Restore!backUpAndLose
  BY <1>1 DEF Restore!backUpAndLose, Restore!DrillGoes
<1>2. CASE Restore!restoreAnswered
  BY <1>2 DEF Restore!restoreAnswered, Restore!Matches
<1>3. CASE Restore!disposeRestoredDatabase
  BY <1>3 DEF Restore!disposeRestoredDatabase, Restore!Disposes
<1>4. QED
  BY <1>1, <1>2, <1>3

LEMMA RestoreNext == RestoreInv /\ [PartsNext]_partsVars => RestoreInv'
<1> SUFFICES ASSUME RestoreInv, [PartsNext]_partsVars PROVE RestoreInv'
  OBVIOUS
<1>1. CASE part = "restore" /\ Restore!Next
  BY <1>1, RestoreAdvances, RestoreCleansUp, DrillAdvances DEF Restore!Next, Restore!Step
<1>2. CASE UNCHANGED restoreVars
  <2>1. /\ UNCHANGED <<drill, restorePc, restoreAborted, admin, dirty, untrusted, database, creating, cutCreate>>
        /\ UNCHANGED <<mayExist, content, granted, child, runtimePool, adminPool, pgpass, confirmed, outcome>>
        /\ UNCHANGED restoreFaults
    BY <1>2 DEF restoreVars
  <2>2. RestoreTypes' /\ SessionOK' /\ TargetOK' /\ ProgressOK'
    BY <2>1 DEF RestoreInv, RestoreTypes, SessionOK, TargetOK, ProgressOK
  <2>3. CleanupOK' /\ DrillOK'
    BY <2>1 DEF RestoreInv, CleanupOK, DrillOK, Restore!TargetSessions
  <2>4. QED
    BY <2>2, <2>3 DEF RestoreInv
<1>3. QED
  BY <1>1, <1>2 DEF PartsNext, partsVars

\* Whatever fails, is cut off or ends late, for any number of failures: a receipt
\* is given only for a restored, granted and vacated database; no session with
\* changed timeouts returns to the pool; a target said to be discarded is gone
\* unless its creation was cut off; and a recovery drill leaves no database and
\* says complete only of the backup it made (controlledRestore.ts,
\* recoveryDrill.ts).
THEOREM RestoreIsSound == PartsSpec => []RestoreSound
<1>1. PartsInit => RestoreInv
  BY RestoreInit DEF PartsInit
<1>2. RestoreInv => RestoreSound
  <2> SUFFICES ASSUME RestoreInv PROVE RestoreSound
    OBVIOUS
  <2>1. Restore!TypeOK
    BY DEF RestoreInv, RestoreTypes, TargetOK, CleanupOK, Restore!TypeOK, BeforeTarget, OnTarget, Cleaning
  <2>2. Restore!ReceiptSound /\ Restore!CleanSessions
    BY DEF RestoreInv, SessionOK, CleanupOK, DrillOK, Restore!ReceiptSound, Restore!CleanSessions
  <2>3. Restore!DiscardedUnlessCut
    BY DEF RestoreInv, CleanupOK, Restore!DiscardedUnlessCut
  <2>4. Restore!DrillLeavesNothing
    BY DEF RestoreInv, RestoreTypes, TargetOK, CleanupOK, DrillOK, Restore!DrillLeavesNothing, BeforeTarget
  <2>5. Restore!DrillTruthful
    BY DEF RestoreInv, DrillOK, Restore!DrillTruthful
  <2>6. QED
    BY <2>1, <2>2, <2>3, <2>4, <2>5 DEF RestoreSound
<1>3. QED
  BY <1>1, <1>2, RestoreNext, PTL DEF PartsSpec

-----------------------------------------------------------------------------
(* Backup runs and the migration runner.                                   *)

BackupTypes ==
    /\ backupLedger \in 0..MaxMigrations
    /\ mutex \in BackupRuns \cup {Nobody} /\ barrier \in BackupRuns \cup {Migrator, Nobody}
    /\ backupSession \in [BackupRuns -> {"none", "open", "lost", "known", "closed", "pooled"}]
    /\ stage \in [BackupRuns -> Backup!Stages]
    /\ backupAborted \in [BackupRuns -> BOOLEAN] /\ discard \in [BackupRuns -> BOOLEAN]
    /\ snapshot \in [BackupRuns -> 0..MaxMigrations]
    /\ dump \in [BackupRuns -> {"none", "running", "exact", "mixed"}]
    /\ inflight \in [BackupRuns -> {"none", "create", "finalize", "publish"}]
    /\ archive \in [BackupRuns -> Backup!Objects] /\ manifest \in [BackupRuns -> Backup!Objects]
    /\ result \in [BackupRuns -> Backup!Results] /\ backupFaults \in 0..BackupMaxFaults

Barred == {"barred", "snapshot", "creating", "dumping", "dumped", "committed"}

\* A run holds locks through its session only; while that lives, and from the
\* barrier to the end of the dump, it holds the barrier.
LocksOK(r) ==
    /\ stage[r] = "idle" => backupSession[r] = "none"
    /\ stage[r] \notin {"idle", "ended"} => backupSession[r] \in {"open", "lost", "known"}
    /\ stage[r] = "ended" => backupSession[r] \in {"none", "closed", "pooled"}
    /\ backupSession[r] # "open" => mutex # r /\ barrier # r
    /\ stage[r] \in Barred /\ backupSession[r] = "open" => barrier = r

\* A migration can come into a dump only when the session, and with it the barrier,
\* was lost; such a dump is not committed.
DumpOK(r) ==
    /\ stage[r] \in {"idle", "connected", "locked", "barred", "snapshot", "creating"} => dump[r] = "none"
    /\ stage[r] \in {"dumping", "dumped"} => dump[r] # "none"
    /\ stage[r] \in {"dumped", "committed", "released", "finalizing", "verifying", "publishing", "checking"}
          => dump[r] # "running"
    /\ dump[r] = "running" /\ backupSession[r] = "open" => barrier = r
    /\ dump[r] = "mixed" /\ stage[r] \notin {"cleanup", "ended"} => backupSession[r] # "open"
    /\ stage[r] \in {"committed", "released", "finalizing", "verifying", "publishing", "checking"} => dump[r] = "exact"

\* An object is linked and stored in order: the manifest after the archive.
ObjectsOK(r) ==
    /\ stage[r] \in {"idle", "connected", "locked", "barred", "snapshot"}
          => inflight[r] = "none" /\ archive[r] = "none" /\ manifest[r] = "none"
    /\ stage[r] \in {"dumping", "dumped", "committed", "released", "verifying", "checking"} => inflight[r] = "none"
    /\ stage[r] \in {"creating", "dumping", "dumped", "committed", "released", "finalizing", "verifying"}
          => inflight[r] # "publish" /\ manifest[r] = "none"
    /\ inflight[r] # "none" => stage[r] \in {"creating", "finalizing", "publishing"} \/ backupAborted[r]
    /\ inflight[r] \in {"create", "finalize"} => manifest[r] = "none"
    /\ inflight[r] = "publish" \/ manifest[r] # "none" => archive[r] = "stored" /\ dump[r] = "exact"
    /\ manifest[r] # "partial" /\ (manifest[r] = "linked" => inflight[r] = "publish")
    /\ result[r] = "complete" => manifest[r] = "stored"
    /\ stage[r] = "ended" => archive[r] \notin {"partial", "linked"}

BackupInv ==
    /\ BackupTypes
    /\ \A r \in BackupRuns : LocksOK(r) /\ DumpOK(r) /\ ObjectsOK(r)

LEMMA BackupInit == Backup!Init => BackupInv
<1> SUFFICES ASSUME Backup!Init PROVE BackupInv
  OBVIOUS
<1>1. backupFaults \in 0..BackupMaxFaults /\ backupLedger \in 0..MaxMigrations /\ snapshot \in [BackupRuns -> 0..MaxMigrations]
  BY PartsAssumption DEF Backup!Init, Backup!BackupAssumption
<1>2. backupAborted \in [BackupRuns -> BOOLEAN] /\ discard \in [BackupRuns -> BOOLEAN]
  BY Zenon DEF Backup!Init
<1>3. BackupTypes
  BY <1>1, <1>2 DEF Backup!Init, BackupTypes, Backup!Stages, Backup!Objects, Backup!Results
<1>4. ASSUME NEW r \in BackupRuns PROVE LocksOK(r) /\ DumpOK(r) /\ ObjectsOK(r)
  BY PartsAssumption DEF Backup!Init, Backup!BackupAssumption, LocksOK, DumpOK, ObjectsOK, Barred
<1>5. QED
  BY <1>3, <1>4 DEF BackupInv

\* Of run q nothing changes but, perhaps, who else holds a lock.
Kept(q) ==
    /\ backupSession'[q] = backupSession[q] /\ stage'[q] = stage[q] /\ backupAborted'[q] = backupAborted[q]
    /\ dump'[q] = dump[q] /\ inflight'[q] = inflight[q]
    /\ archive'[q] = archive[q] /\ manifest'[q] = manifest[q] /\ result'[q] = result[q]
    /\ mutex' = q => mutex = q
    /\ barrier' = q <=> barrier = q

LEMMA BackupKept ==
    ASSUME NEW q \in BackupRuns, LocksOK(q) /\ DumpOK(q) /\ ObjectsOK(q), Kept(q)
    PROVE  LocksOK(q)' /\ DumpOK(q)' /\ ObjectsOK(q)'
<1>1. LocksOK(q)'
  BY DEF LocksOK, Kept
<1>2. DumpOK(q)'
  BY DEF DumpOK, Kept
<1>3. ObjectsOK(q)'
  BY DEF ObjectsOK, Kept
<1>4. QED
  BY <1>1, <1>2, <1>3

LEMMA BackupStep ==
    ASSUME BackupInv, BackupTypes', NEW r \in BackupRuns, \A q \in BackupRuns \ {r} : Kept(q),
           LocksOK(r)' /\ DumpOK(r)' /\ ObjectsOK(r)'
    PROVE  BackupInv'
<1>1. ASSUME NEW q \in BackupRuns \ {r} PROVE LocksOK(q)' /\ DumpOK(q)' /\ ObjectsOK(q)'
  BY <1>1, BackupKept DEF BackupInv
<1>2. QED
  BY <1>1 DEF BackupInv

\* The run's own steps up to the dump.
LEMMA BackupDumps ==
    ASSUME BackupInv, NEW r \in BackupRuns,
           \/ Backup!connect(r) \/ Backup!tryBackupLock(r) \/ Backup!tryMigrationBarrier(r)
           \/ Backup!openSnapshot(r) \/ Backup!createUpload(r) \/ Backup!spawnDump(r)
           \/ Backup!dumpFinished(r) \/ Backup!commitSnapshot(r)
    PROVE  BackupInv'
<1> USE PartsAssumption DEF Backup!BackupAssumption, Backup!database, Backup!storage, Backup!At, Backup!Goes, Backup!Outcome
<1>1. BackupTypes'
  BY DEF BackupInv, BackupTypes, Backup!Stages, Backup!Objects, Backup!Results,
     Backup!connect, Backup!tryBackupLock, Backup!tryMigrationBarrier, Backup!openSnapshot,
     Backup!createUpload, Backup!spawnDump, Backup!dumpFinished, Backup!commitSnapshot
<1>2. \A q \in BackupRuns \ {r} : Kept(q)
  BY DEF BackupInv, BackupTypes, Kept,
     Backup!connect, Backup!tryBackupLock, Backup!tryMigrationBarrier, Backup!openSnapshot,
     Backup!createUpload, Backup!spawnDump, Backup!dumpFinished, Backup!commitSnapshot
<1>3. LocksOK(r)' /\ DumpOK(r)' /\ ObjectsOK(r)'
  <2> USE DEF BackupInv, BackupTypes, LocksOK, DumpOK, ObjectsOK, Barred
  <2>1. CASE Backup!connect(r)
    BY <2>1 DEF Backup!connect
  <2>2. CASE Backup!tryBackupLock(r)
    BY <2>2 DEF Backup!tryBackupLock
  <2>3. CASE Backup!tryMigrationBarrier(r)
    BY <2>3 DEF Backup!tryMigrationBarrier
  <2>4. CASE Backup!openSnapshot(r)
    BY <2>4 DEF Backup!openSnapshot
  <2>5. CASE Backup!createUpload(r)
    BY <2>5 DEF Backup!createUpload
  <2>6. CASE Backup!spawnDump(r)
    BY <2>6 DEF Backup!spawnDump
  <2>7. CASE Backup!dumpFinished(r)
    BY <2>7 DEF Backup!dumpFinished
  <2>8. CASE Backup!commitSnapshot(r)
    BY <2>8 DEF Backup!commitSnapshot, Backup!Alive
  <2>9. QED
    BY <2>1, <2>2, <2>3, <2>4, <2>5, <2>6, <2>7, <2>8
<1>4. QED
  BY <1>1, <1>2, <1>3, BackupStep

\* ... and from there to the manifest, or to the failure of a stage.
LEMMA BackupPublishes ==
    ASSUME BackupInv, NEW r \in BackupRuns,
           \/ Backup!preflightTools(r) \/ Backup!releaseBarrier(r) \/ Backup!finalizeArchive(r)
           \/ Backup!archiveFinalized(r) \/ Backup!verifyArchive(r) \/ Backup!manifestPublished(r)
           \/ Backup!verifyManifest(r) \/ Backup!fail(r)
    PROVE  BackupInv'
<1> USE PartsAssumption DEF Backup!BackupAssumption, Backup!database, Backup!storage, Backup!At, Backup!Goes,
        Backup!Fault, Backup!Gives, Backup!Alive, Backup!Intact
<1>1. BackupTypes'
  <2> USE DEF BackupInv, BackupTypes, Backup!Stages, Backup!Objects, Backup!Results
  <2>1. CASE Backup!preflightTools(r)
    BY <2>1 DEF Backup!preflightTools
  <2>2. CASE Backup!releaseBarrier(r)
    <3>1. UNCHANGED <<backupLedger, mutex, backupSession, snapshot, dump, inflight, archive, manifest>>
      BY <2>2 DEF Backup!releaseBarrier
    <3>2. barrier' \in {barrier, Nobody} /\ backupFaults' \in 0..BackupMaxFaults
      BY <2>2 DEF Backup!releaseBarrier
    <3>3. stage' \in [BackupRuns -> Backup!Stages] /\ result' \in [BackupRuns -> Backup!Results]
      BY <2>2 DEF Backup!releaseBarrier
    <3>4. \/ UNCHANGED <<backupAborted, discard>>
          \/ /\ backupAborted' = [backupAborted EXCEPT ![r] = TRUE]
             /\ discard' = [discard EXCEPT ![r] = TRUE]
      BY <2>2, Zenon DEF Backup!releaseBarrier
    <3>5. backupAborted' \in [BackupRuns -> BOOLEAN] /\ discard' \in [BackupRuns -> BOOLEAN]
      BY <3>4
    <3>6. QED
      BY <3>1, <3>2, <3>3, <3>5
  <2>3. CASE Backup!finalizeArchive(r) \/ Backup!archiveFinalized(r) \/ Backup!verifyArchive(r)
    BY <2>3 DEF Backup!finalizeArchive, Backup!archiveFinalized, Backup!verifyArchive
  <2>4. CASE Backup!manifestPublished(r) \/ Backup!verifyManifest(r)
    BY <2>4 DEF Backup!manifestPublished, Backup!verifyManifest
  <2>5. CASE Backup!fail(r)
    BY <2>5 DEF Backup!fail, Backup!Mismatch
  <2>6. QED
    BY <2>1, <2>2, <2>3, <2>4, <2>5
<1>2. \A q \in BackupRuns \ {r} : Kept(q)
  <2> USE DEF BackupInv, BackupTypes, Kept
  <2>1. CASE Backup!preflightTools(r) \/ Backup!finalizeArchive(r) \/ Backup!archiveFinalized(r) \/ Backup!verifyArchive(r)
    BY <2>1 DEF Backup!preflightTools, Backup!finalizeArchive, Backup!archiveFinalized, Backup!verifyArchive
  <2>2. CASE Backup!releaseBarrier(r)
    BY <2>2 DEF Backup!releaseBarrier, LocksOK, Barred
  <2>3. CASE Backup!manifestPublished(r) \/ Backup!verifyManifest(r) \/ Backup!fail(r)
    BY <2>3 DEF Backup!manifestPublished, Backup!verifyManifest, Backup!fail
  <2>4. QED
    BY <2>1, <2>2, <2>3
<1>3. LocksOK(r)' /\ DumpOK(r)' /\ ObjectsOK(r)'
  <2> USE DEF BackupInv, BackupTypes, LocksOK, DumpOK, ObjectsOK, Barred
  <2>1. CASE Backup!preflightTools(r)
    BY <2>1 DEF Backup!preflightTools
  <2>2. CASE Backup!releaseBarrier(r)
    BY <2>2 DEF Backup!releaseBarrier
  <2>3. CASE Backup!finalizeArchive(r)
    BY <2>3 DEF Backup!finalizeArchive
  <2>4. CASE Backup!archiveFinalized(r)
    BY <2>4 DEF Backup!archiveFinalized
  <2>5. CASE Backup!verifyArchive(r)
    BY <2>5 DEF Backup!verifyArchive
  <2>6. CASE Backup!manifestPublished(r)
    BY <2>6 DEF Backup!manifestPublished
  <2>7. CASE Backup!verifyManifest(r)
    BY <2>7 DEF Backup!verifyManifest
  <2>8. CASE Backup!fail(r)
    BY <2>8 DEF Backup!fail
  <2>9. QED
    BY <2>1, <2>2, <2>3, <2>4, <2>5, <2>6, <2>7, <2>8
<1>4. QED
  BY <1>1, <1>2, <1>3, BackupStep

LEMMA StorageAnswers ==
    ASSUME BackupInv, NEW r \in BackupRuns,
           Backup!storageCreates(r) \/ Backup!storageLinks(r) \/ Backup!storageFinalizes(r) \/ Backup!storageUndoes(r)
    PROVE  BackupInv'
<1> USE PartsAssumption DEF Backup!BackupAssumption, Backup!database, Backup!Fault, Backup!Created, Backup!MayFinalize
<1>1. BackupTypes'
  BY DEF BackupInv, BackupTypes, Backup!Objects, Backup!storageCreates, Backup!storageLinks,
     Backup!storageFinalizes, Backup!storageUndoes
<1>2. \A q \in BackupRuns \ {r} : Kept(q)
  BY DEF BackupInv, BackupTypes, Kept, Backup!storageCreates, Backup!storageLinks,
     Backup!storageFinalizes, Backup!storageUndoes
<1>3. LocksOK(r)' /\ DumpOK(r)' /\ ObjectsOK(r)'
  <2> USE DEF BackupInv, BackupTypes, LocksOK, DumpOK, ObjectsOK, Barred
  <2>1. CASE Backup!storageCreates(r)
    BY <2>1 DEF Backup!storageCreates
  <2>2. CASE Backup!storageLinks(r)
    BY <2>2 DEF Backup!storageLinks
  <2>3. CASE Backup!storageFinalizes(r)
    BY <2>3 DEF Backup!storageFinalizes
  <2>4. CASE Backup!storageUndoes(r)
    BY <2>4 DEF Backup!storageUndoes
  <2>5. QED
    BY <2>1, <2>2, <2>3, <2>4
<1>4. QED
  BY <1>1, <1>2, <1>3, BackupStep

LEMMA BackupInterrupted ==
    ASSUME BackupInv, NEW r \in BackupRuns,
           Backup!abortRun(r) \/ Backup!loseSession(r) \/ Backup!onClientError(r)
    PROVE  BackupInv'
<1> USE PartsAssumption DEF Backup!BackupAssumption, Backup!database, Backup!storage, Backup!Fault, Backup!Freed
<1>1. BackupTypes'
  <2>1. CASE Backup!abortRun(r)
    BY <2>1 DEF BackupInv, BackupTypes, Backup!abortRun
  <2>2. CASE Backup!loseSession(r)
    BY <2>2 DEF BackupInv, BackupTypes, Backup!loseSession
  <2>3. CASE Backup!onClientError(r)
    BY <2>3 DEF BackupInv, BackupTypes, Backup!onClientError
  <2>4. QED
    BY <2>1, <2>2, <2>3
<1>2. \A q \in BackupRuns \ {r} : Kept(q)
  BY DEF BackupInv, BackupTypes, Kept, Backup!abortRun, Backup!loseSession, Backup!onClientError
<1>3. LocksOK(r)' /\ DumpOK(r)' /\ ObjectsOK(r)'
  <2> USE DEF BackupInv, BackupTypes, LocksOK, DumpOK, ObjectsOK, Barred
  <2>1. CASE Backup!abortRun(r)
    BY <2>1 DEF Backup!abortRun
  <2>2. CASE Backup!loseSession(r)
    BY <2>2 DEF Backup!loseSession
  <2>3. CASE Backup!onClientError(r)
    BY <2>3 DEF Backup!onClientError
  <2>4. QED
    BY <2>1, <2>2, <2>3
<1>4. QED
  BY <1>1, <1>2, <1>3, BackupStep

\* However the cleanup ends, the locks are released or the session is closed.
LEMMA BackupCleansUp ==
    ASSUME BackupInv, NEW r \in BackupRuns, Backup!cleanup(r)
    PROVE  BackupInv'
<1> USE PartsAssumption DEF Backup!BackupAssumption, Backup!At, Backup!Goes, Backup!Fault, Backup!Freed,
        Backup!AbortedObject, Backup!Stored
<1>1. /\ UNCHANGED <<backupLedger, backupAborted, discard, snapshot, inflight, manifest>>
      /\ stage[r] = "cleanup" /\ stage' = [stage EXCEPT ![r] = "ended"]
      /\ dump' = [dump EXCEPT ![r] = IF @ = "running" THEN "none" ELSE @]
      /\ archive' = [archive EXCEPT ![r] = IF result[r] = "complete" THEN @ ELSE Backup!AbortedObject(@)]
  BY DEF Backup!cleanup
<1>2. /\ backupFaults' = backupFaults \/ Backup!Fault
      /\ backupSession' \in {[backupSession EXCEPT ![r] = "closed"], [backupSession EXCEPT ![r] = "pooled"]}
      /\ mutex' = Backup!Freed(mutex, r) /\ barrier' = Backup!Freed(barrier, r)
      /\ result' \in {[result EXCEPT ![r] = result[r]], [result EXCEPT ![r] = "incomplete"]}
  <2>1. PICK done \in {"nothing", "barrier", "all"} :
          LET skipped == discard[r] \/ backupSession[r] = "known"
              failed  == discard[r] \/ (~skipped /\ done # "all")
              closes  == Backup!Closes(r, failed)
          IN  /\ backupSession[r] # "open" \/ discard[r] => done = "nothing"
              /\ IF skipped \/ ~failed \/ backupSession[r] = "lost" THEN UNCHANGED backupFaults ELSE Backup!Fault
              /\ backupSession' = [backupSession EXCEPT ![r] = IF closes THEN "closed" ELSE "pooled"]
              /\ barrier' = IF closes \/ done # "nothing" THEN Backup!Freed(barrier, r) ELSE barrier
              /\ mutex' = IF closes \/ done = "all" THEN Backup!Freed(mutex, r) ELSE mutex
              /\ result' = [result EXCEPT ![r] = IF @ = "complete" /\ failed THEN "incomplete" ELSE @]
    BY DEF Backup!cleanup
  <2>2. discard[r] \in BOOLEAN
    BY DEF BackupInv, BackupTypes
  <2>3. QED
    BY <2>1, <2>2 DEF Backup!Closes
<1>3. BackupTypes'
  <2>1. backupFaults' \in 0..BackupMaxFaults
    BY <1>2 DEF BackupInv, BackupTypes
  <2>2. stage' \in [BackupRuns -> Backup!Stages] /\ result' \in [BackupRuns -> Backup!Results]
    BY <1>1, <1>2 DEF BackupInv, BackupTypes, Backup!Stages, Backup!Results
  <2>3. QED
    BY <1>1, <1>2, <2>1, <2>2 DEF BackupInv, BackupTypes, Backup!Objects
<1>4. \A q \in BackupRuns \ {r} : Kept(q)
  BY <1>1, <1>2 DEF BackupInv, BackupTypes, Kept
<1>5. LocksOK(r)' /\ DumpOK(r)' /\ ObjectsOK(r)'
  <2> USE DEF BackupInv, BackupTypes, Barred
  <2>1. LocksOK(r)'
    BY <1>1, <1>2 DEF LocksOK
  <2>2. DumpOK(r)'
    BY <1>1, <1>2 DEF DumpOK, LocksOK
  <2>3. ObjectsOK(r)'
    BY <1>1, <1>2 DEF ObjectsOK, Backup!Objects
  <2>4. QED
    BY <2>1, <2>2, <2>3
<1>6. QED
  BY <1>3, <1>4, <1>5, BackupStep

\* A migration meets only dumps whose run has lost its session.
LEMMA MigratorMoves ==
    ASSUME BackupInv, Backup!migratorLocks \/ Backup!migrate
    PROVE  BackupInv'
<1> USE PartsAssumption DEF Backup!BackupAssumption, Backup!storage
<1>1. BackupTypes'
  BY DEF BackupInv, BackupTypes, Backup!migratorLocks, Backup!migrate
<1>2. ASSUME NEW r \in BackupRuns PROVE LocksOK(r)' /\ DumpOK(r)' /\ ObjectsOK(r)'
  <2>1. CASE Backup!migratorLocks
    <3>1. Kept(r)
      BY <2>1 DEF Backup!migratorLocks, Kept
    <3>2. QED
      BY <3>1, BackupKept DEF BackupInv
  <2>2. CASE Backup!migrate
    <3>1. barrier = Migrator /\ barrier' \in {Migrator, Nobody} /\ dump'[r] \in {dump[r], IF dump[r] = "running" THEN "mixed" ELSE dump[r]}
      BY <2>2 DEF Backup!migrate, BackupInv, BackupTypes
    <3>2. UNCHANGED <<mutex, backupSession, stage, backupAborted, inflight, archive, manifest, result>>
      BY <2>2 DEF Backup!migrate
    <3>3. LocksOK(r)'
      BY <3>1, <3>2 DEF BackupInv, LocksOK
    <3>4. DumpOK(r)'
      BY <3>1, <3>2 DEF BackupInv, DumpOK
    <3>5. ObjectsOK(r)'
      BY <3>1, <3>2 DEF BackupInv, ObjectsOK
    <3>6. QED
      BY <3>3, <3>4, <3>5
  <2>3. QED
    BY <2>1, <2>2
<1>3. QED
  BY <1>1, <1>2 DEF BackupInv

LEMMA BackupNext == BackupInv /\ [PartsNext]_partsVars => BackupInv'
<1> SUFFICES ASSUME BackupInv, [PartsNext]_partsVars PROVE BackupInv'
  OBVIOUS
<1>1. CASE Backup!Next
  BY <1>1, BackupDumps, BackupPublishes, StorageAnswers, BackupInterrupted, BackupCleansUp, MigratorMoves
     DEF Backup!Next, Backup!Step, Backup!StorageStep
<1>2. CASE UNCHANGED backupVars
  <2>1. BackupTypes'
    BY <1>2 DEF backupVars, BackupInv, BackupTypes
  <2>2. \A r \in BackupRuns : Kept(r)
    BY <1>2 DEF backupVars, Kept
  <2>3. QED
    BY <2>1, <2>2, BackupKept DEF BackupInv
<1>3. QED
  BY <1>1, <1>2 DEF PartsNext, partsVars

\* The manifest is stored by the storage only, which looks at the signal first.
LEMMA StoredUnaborted ==
    ASSUME BackupInv, [PartsNext]_partsVars, NEW r \in BackupRuns,
           manifest'[r] \in Backup!Stored, manifest[r] \notin Backup!Stored
    PROVE  ~backupAborted[r]
<1>1. ~UNCHANGED manifest
  OBVIOUS
<1>2. Backup!Next
  BY <1>1 DEF PartsNext, partsVars, backupVars
<1>3. ~(Backup!migratorLocks \/ Backup!migrate)
  BY <1>1 DEF Backup!migratorLocks, Backup!migrate, Backup!storage
<1>4. ASSUME NEW q \in BackupRuns PROVE ~Backup!Step(q)
  BY <1>1 DEF Backup!Step, Backup!storage, Backup!tryBackupLock, Backup!tryMigrationBarrier, Backup!openSnapshot,
     Backup!createUpload, Backup!spawnDump, Backup!dumpFinished, Backup!commitSnapshot, Backup!releaseBarrier,
     Backup!finalizeArchive, Backup!archiveFinalized, Backup!verifyArchive, Backup!manifestPublished,
     Backup!verifyManifest, Backup!fail, Backup!cleanup, Backup!onClientError
<1>5. ASSUME NEW q \in BackupRuns PROVE ~(Backup!preflightTools(q) \/ Backup!connect(q) \/ Backup!abortRun(q) \/ Backup!loseSession(q))
  BY <1>1 DEF Backup!storage, Backup!preflightTools, Backup!connect, Backup!abortRun, Backup!loseSession
<1>6. PICK q \in BackupRuns : Backup!StorageStep(q)
  BY <1>2, <1>3, <1>4, <1>5 DEF Backup!Next
<1>7. CASE Backup!storageFinalizes(q)
  <2>1. q = r
    BY <1>7 DEF Backup!storageFinalizes, BackupInv, BackupTypes
  <2>2. QED
    BY <1>7, <2>1 DEF Backup!storageFinalizes, Backup!MayFinalize
<1>8. CASE Backup!storageCreates(q)
  BY <1>1, <1>8 DEF Backup!storageCreates
<1>9. CASE Backup!storageLinks(q) \/ Backup!storageUndoes(q)
  BY <1>9 DEF Backup!storageLinks, Backup!storageUndoes, Backup!Stored, BackupInv, BackupTypes
<1>10. QED
  BY <1>6, <1>7, <1>8, <1>9 DEF Backup!StorageStep

\* For any number of runs, migrations and faults: a manifest stands only beside an
\* intact archive dumped under the ledger it names, although the barrier may be lost
\* with the session; a run that says it is complete has one; a run that is over holds
\* no lock and leaves no partial object; nothing is published after an abort
\* (backup/runner.ts, localFakeStorage.ts).
THEOREM BackupIsSound == PartsSpec => BackupSound
<1>1. PartsInit => BackupInv
  BY BackupInit DEF PartsInit
<1>2. BackupInv => (part = "backup" =>
             /\ Backup!TypeOK
             /\ Backup!ManifestSound
             /\ Backup!ArchiveMatchesLedger
             /\ Backup!CompleteTruthful
             /\ Backup!NoLockLeaks
             /\ Backup!NoPartialLeft)
  <2> SUFFICES ASSUME BackupInv
      PROVE  /\ Backup!TypeOK /\ Backup!ManifestSound /\ Backup!ArchiveMatchesLedger
             /\ Backup!CompleteTruthful /\ Backup!NoLockLeaks /\ Backup!NoPartialLeft
    OBVIOUS
  <2>1. Backup!TypeOK
    <3>1. \A r \in BackupRuns : backupSession[r] \notin {"open", "pooled"} => mutex # r /\ barrier # r
      BY DEF BackupInv, LocksOK
    <3>2. QED
      BY <3>1 DEF BackupInv, BackupTypes, Backup!TypeOK
  <2>2. Backup!ManifestSound /\ Backup!ArchiveMatchesLedger
    BY DEF BackupInv, ObjectsOK, Backup!ManifestSound, Backup!ArchiveMatchesLedger, Backup!Stored
  <2>3. Backup!CompleteTruthful
    BY DEF BackupInv, ObjectsOK, Backup!CompleteTruthful
  <2>4. Backup!NoLockLeaks
    BY DEF BackupInv, LocksOK, Backup!NoLockLeaks
  <2>5. Backup!NoPartialLeft
    BY DEF BackupInv, BackupTypes, ObjectsOK, Backup!NoPartialLeft, Backup!Stored, Backup!Objects
  <2>6. QED
    BY <2>1, <2>2, <2>3, <2>4, <2>5
<1>3. BackupInv /\ [PartsNext]_partsVars
         => [\A r \in BackupRuns : manifest'[r] \in Backup!Stored /\ manifest[r] \notin Backup!Stored => ~backupAborted[r]]_(Backup!vars)
  BY StoredUnaborted
<1>4. PartsSpec => []BackupInv
  BY <1>1, BackupNext, PTL DEF PartsSpec
<1>5. PartsSpec => Backup!NoLateManifest
  BY <1>3, <1>4, PTL DEF PartsSpec, Backup!NoLateManifest
<1>6. QED
  BY <1>2, <1>4, <1>5, PTL DEF BackupSound

-----------------------------------------------------------------------------
(* Monitoring.                                                             *)

\* What a poll at time t says of signal s, with the evidence of now.
AgeAt(s, t) ==
    IF CriticalAfter[s] # NoLimit /\ (t - at[s] > CriticalAfter[s] \/ (s = "backup" /\ t - at[s] = CriticalAfter[s]))
    THEN "critical" ELSE IF t - at[s] > WarnAfter[s] THEN "warning" ELSE "none"
SaysAt(s, t) ==
    IF s = "drill" /\ class # "target_class" THEN "unknown"
    ELSE IF at[s] = Never THEN IF s = "backup" THEN "critical" ELSE "none"
    ELSE AgeAt(s, t)

MonitorTypes ==
    /\ monitorNow \in 0..MonitorMaxTime /\ at \in [Monitor!Aged -> (0..MonitorMaxTime) \cup {Never}]
    /\ class \in {"none", "target_class", "synthetic_ci"} /\ target \in (0..MonitorMaxTime) \cup {Never}
    /\ flags \subseteq Flags /\ changed \subseteq Monitor!Aged /\ polled \in 0..MonitorMaxTime
    /\ events \in [Monitor!Aged \cup Flags -> Monitor!Severity]
    /\ at["drill"] = Never <=> class = "none"

\* What was said last is what the same evidence says, for the signals without new
\* evidence; the last backup is no older than the one that was judged; the drill that
\* counts is the last one if that was of the target class.
MonitorInv ==
    /\ MonitorTypes
    /\ polled <= monitorNow /\ monitorNow <= polled + PollEvery
    /\ polled > 0 => \A s \in Monitor!Aged \ changed : events[s] = SaysAt(s, polled)
    /\ polled > 0 /\ (at["backup"] = Never \/ polled - at["backup"] > WarnAfter["backup"])
          => events["backup"] \in {"warning", "critical"}
    /\ class = "target_class" => target = at["drill"]
    /\ polled > 0 /\ events["drill"] = "none" => target # Never /\ polled - target <= WarnAfter["drill"]

LEMMA MonitorInit == Monitor!Init => MonitorInv
<1> USE PartsAssumption DEF Monitor!MonitoringAssumption, Monitor!Aged, Monitor!Severity
<1> SUFFICES ASSUME Monitor!Init PROVE MonitorInv
  OBVIOUS
<1>1. MonitorTypes
  BY DEF Monitor!Init, MonitorTypes
<1>2. QED
  BY <1>1 DEF Monitor!Init, MonitorInv

\* A poll says what the evidence says at its time.
LEMMA PollSays ==
    ASSUME NEW s \in Monitor!Aged
    PROVE  Monitor!evaluateMonitoring[s] = SaysAt(s, monitorNow) /\ SaysAt(s, monitorNow) \in Monitor!Severity
<1>1. Monitor!evaluateMonitoring[s] = Monitor!evaluateAge(s)
  BY DEF Monitor!evaluateMonitoring
<1>2. Monitor!evaluateAge(s) = SaysAt(s, monitorNow)
  BY DEF Monitor!evaluateAge, Monitor!Unverified, Monitor!AgeSeverity, Monitor!OverCritical, Monitor!Age, SaysAt, AgeAt
<1>3. SaysAt(s, monitorNow) \in Monitor!Severity
  BY DEF SaysAt, AgeAt, Monitor!Severity
<1>4. QED
  BY <1>1, <1>2, <1>3

\* With the same evidence a later poll does not say less.
LEMMA SaysGrows ==
    ASSUME NEW s \in Monitor!Aged, NEW t \in Int, NEW u \in Int, t <= u, MonitorTypes
    PROVE  Monitor!Rank[SaysAt(s, u)] >= Monitor!Rank[SaysAt(s, t)]
BY PartsAssumption DEF SaysAt, AgeAt, Monitor!Rank, MonitorTypes, Monitor!MonitoringAssumption, Monitor!Aged

\* What a poll leaves behind.
LEMMA PollKept == MonitorInv /\ Monitor!monitorOnce => MonitorInv'
<1> SUFFICES ASSUME MonitorInv, Monitor!monitorOnce PROVE MonitorInv'
  OBVIOUS
<1> USE PartsAssumption DEF Monitor!MonitoringAssumption
<1>0. /\ monitorNow \in 0..MonitorMaxTime /\ at \in [Monitor!Aged -> (0..MonitorMaxTime) \cup {Never}]
      /\ polled' = monitorNow /\ monitorNow' = monitorNow /\ at' = at /\ class' = class
      /\ target' = target /\ flags' = flags /\ changed' = {} /\ events' = Monitor!evaluateMonitoring
  BY DEF MonitorInv, MonitorTypes, Monitor!monitorOnce, Monitor!evidence
<1>1. \A s \in Monitor!Aged : events'[s] = SaysAt(s, monitorNow)
  BY <1>0, PollSays
<1>2. events' \in [Monitor!Aged \cup Flags -> Monitor!Severity]
  <2>1. \A s \in Monitor!Aged \cup Flags : Monitor!evaluateMonitoring[s] \in Monitor!Severity
    BY PollSays DEF Monitor!evaluateMonitoring, Monitor!Severity
  <2>2. QED
    BY <2>1, <1>0 DEF Monitor!evaluateMonitoring
<1>3. MonitorTypes'
  BY <1>0, <1>2 DEF MonitorInv, MonitorTypes
<1>4. \A s \in Monitor!Aged : SaysAt(s, polled)' = SaysAt(s, monitorNow)
  BY <1>0 DEF SaysAt, AgeAt
<1>5. (polled > 0 => \A s \in Monitor!Aged \ changed : events[s] = SaysAt(s, polled))'
  BY <1>0, <1>1, <1>4
<1>6. at["backup"] = Never \/ monitorNow - at["backup"] > WarnAfter["backup"] => events'["backup"] \in {"warning", "critical"}
  BY <1>0, <1>1 DEF SaysAt, AgeAt, Monitor!Aged
<1>7. events'["drill"] = "none" => target # Never /\ monitorNow - target <= WarnAfter["drill"]
  <2> SUFFICES ASSUME events'["drill"] = "none" PROVE target # Never /\ monitorNow - target <= WarnAfter["drill"]
    OBVIOUS
  <2>1. SaysAt("drill", monitorNow) = "none"
    BY <1>1 DEF Monitor!Aged
  <2>2. class = "target_class" /\ target = at["drill"] /\ at["drill"] # Never
    BY <2>1 DEF SaysAt, MonitorInv, MonitorTypes
  <2>3. AgeAt("drill", monitorNow) = "none"
    BY <2>1, <2>2 DEF SaysAt
  <2>4. QED
    BY <2>2, <2>3, <1>0 DEF AgeAt, Monitor!Aged
<1>8. QED
  BY <1>0, <1>3, <1>5, <1>6, <1>7 DEF MonitorInv

LEMMA MonitorNext == MonitorInv /\ [PartsNext]_partsVars => MonitorInv'
<1> SUFFICES ASSUME MonitorInv, [PartsNext]_partsVars PROVE MonitorInv'
  OBVIOUS
<1>0. ASSUME UNCHANGED monitorVars PROVE MonitorInv'
  BY <1>0 DEF MonitorInv, MonitorTypes, SaysAt, AgeAt, monitorVars
<1>1. CASE Monitor!Tick
  BY <1>1, PartsAssumption DEF Monitor!Tick, Monitor!evidence, MonitorInv, MonitorTypes, SaysAt, AgeAt, Monitor!MonitoringAssumption
<1>2. CASE Monitor!monitorOnce
  BY <1>2, PollKept
<1>3. CASE Monitor!backupVerified
  <2>1. PICK t \in 0..monitorNow : /\ at["backup"] = Never \/ at["backup"] < t
                                   /\ at' = [at EXCEPT !["backup"] = t] /\ changed' = changed \cup {"backup"}
    BY <1>3 DEF Monitor!backupVerified, Monitor!Observed
  <2>2. UNCHANGED <<monitorNow, class, target, flags, polled, events>>
    BY <1>3 DEF Monitor!backupVerified
  <2>3. MonitorTypes'
    <3>1. t \in 0..MonitorMaxTime /\ t # Never /\ at' \in [Monitor!Aged -> (0..MonitorMaxTime) \cup {Never}] /\ at'["drill"] = at["drill"]
      BY <2>1, PartsAssumption DEF MonitorInv, MonitorTypes, Monitor!Aged, Monitor!MonitoringAssumption
    <3>2. QED
      BY <2>1, <2>2, <3>1 DEF MonitorInv, MonitorTypes, Monitor!Aged
  <2>4. \A s \in Monitor!Aged \ changed' : s \in Monitor!Aged \ changed /\ SaysAt(s, polled)' = SaysAt(s, polled)
    BY <2>1, <2>2 DEF MonitorInv, MonitorTypes, SaysAt, AgeAt
  <2>5. (polled > 0 => \A s \in Monitor!Aged \ changed : events[s] = SaysAt(s, polled))'
    BY <2>2, <2>4 DEF MonitorInv
  <2>6. QED
    BY <2>1, <2>2, <2>3, <2>5, PartsAssumption DEF MonitorInv, MonitorTypes, Monitor!Aged, Monitor!MonitoringAssumption
<1>4. CASE Monitor!drillEnds
  <2>1. /\ at' = [at EXCEPT !["drill"] = monitorNow] /\ changed' = changed \cup {"drill"}
        /\ (class' = "target_class" /\ target' = monitorNow) \/ (class' = "synthetic_ci" /\ target' = target)
        /\ UNCHANGED <<monitorNow, flags, polled, events>>
    BY <1>4 DEF Monitor!drillEnds, Monitor!Observed
  <2>2. MonitorTypes'
    BY <2>1, PartsAssumption DEF MonitorInv, MonitorTypes, Monitor!Aged, Monitor!MonitoringAssumption
  <2>3. \A s \in Monitor!Aged \ changed' : s \in Monitor!Aged \ changed /\ SaysAt(s, polled)' = SaysAt(s, polled)
    BY <2>1 DEF MonitorInv, MonitorTypes, SaysAt, AgeAt
  <2>4. (polled > 0 => \A s \in Monitor!Aged \ changed : events[s] = SaysAt(s, polled))'
    BY <2>1, <2>3 DEF MonitorInv
  <2>5. QED
    BY <2>1, <2>2, <2>4, PartsAssumption DEF MonitorInv, MonitorTypes, Monitor!Aged, Monitor!MonitoringAssumption
<1>5. CASE Monitor!retentionEnds
  <2>1. /\ at' \in [Monitor!Aged -> (0..MonitorMaxTime) \cup {Never}]
        /\ at'["backup"] = at["backup"] /\ at'["drill"] = at["drill"]
        /\ changed' = changed \cup {"retention", "backlog"} /\ flags' = flags \ {"retention_failed"}
        /\ UNCHANGED <<monitorNow, class, target, polled, events>>
    BY <1>5 DEF Monitor!retentionEnds, MonitorInv, MonitorTypes, Monitor!Aged
  <2>2. MonitorTypes'
    BY <2>1 DEF MonitorInv, MonitorTypes, Monitor!Aged
  <2>3. \A s \in Monitor!Aged \ changed' : s \in Monitor!Aged \ changed /\ SaysAt(s, polled)' = SaysAt(s, polled)
    BY <2>1 DEF SaysAt, AgeAt, Monitor!Aged
  <2>4. (polled > 0 => \A s \in Monitor!Aged \ changed : events[s] = SaysAt(s, polled))'
    BY <2>1, <2>3 DEF MonitorInv
  <2>5. QED
    BY <2>1, <2>2, <2>4 DEF MonitorInv
<1>6. CASE Monitor!failureRecorded
  BY <1>6 DEF Monitor!failureRecorded, MonitorInv, MonitorTypes, SaysAt, AgeAt
<1>7. QED
  BY <1>0, <1>1, <1>2, <1>3, <1>4, <1>5, <1>6 DEF PartsNext, partsVars, Monitor!Next, monitorVars

\* Only a poll emits events.
LEMMA PollsEmit == [PartsNext]_partsVars => UNCHANGED events \/ Monitor!monitorOnce
BY DEF PartsNext, partsVars, monitorVars, Monitor!Next, Monitor!Tick, Monitor!backupVerified, Monitor!drillEnds,
       Monitor!retentionEnds, Monitor!failureRecorded

\* For any thresholds and polling period: only a drill of the target class quiets the
\* drill alarm, an alarm stays until what it is about changes, and, if a poll fits
\* between the thresholds of a backup, none becomes critical before it was warned of
\* (monitoring.ts).
THEOREM MonitoringIsSound == PartsSpec => MonitoringSound
<1>1. PartsInit => MonitorInv
  BY MonitorInit DEF PartsInit
<1>2. MonitorInv => (part = "monitoring" => Monitor!TypeOK /\ Monitor!DrillQuietByTarget)
  BY DEF MonitorInv, MonitorTypes, Monitor!TypeOK, Monitor!DrillQuietByTarget
<1>3. MonitorInv /\ [PartsNext]_partsVars
         => [\A s \in Monitor!Aged : polled > 0 /\ s \notin changed
                => Monitor!Rank[events'[s]] >= Monitor!Rank[events[s]]]_events
  <2> SUFFICES ASSUME MonitorInv, Monitor!monitorOnce, NEW s \in Monitor!Aged, polled > 0, s \notin changed
      PROVE  Monitor!Rank[events'[s]] >= Monitor!Rank[events[s]]
    BY PollsEmit
  <2>1. events'[s] = SaysAt(s, monitorNow) /\ events[s] = SaysAt(s, polled)
    BY PollSays DEF MonitorInv, Monitor!monitorOnce
  <2>2. polled \in Int /\ monitorNow \in Int /\ polled <= monitorNow /\ MonitorTypes
    BY PartsAssumption DEF MonitorInv, MonitorTypes, Monitor!MonitoringAssumption
  <2>3. QED
    BY <2>1, <2>2, SaysGrows
<1>4. MonitorInv /\ [PartsNext]_partsVars
         => [Monitor!PollsBetweenThresholds /\ polled > 0 /\ events'["backup"] = "critical"
                => events["backup"] \in {"warning", "critical"}]_events
  <2> SUFFICES ASSUME MonitorInv, Monitor!monitorOnce, Monitor!PollsBetweenThresholds, polled > 0,
                      events'["backup"] = "critical"
      PROVE  events["backup"] \in {"warning", "critical"}
    BY PollsEmit
  <2>1. SaysAt("backup", monitorNow) = "critical"
    BY PollSays DEF Monitor!monitorOnce, Monitor!Aged
  <2>2. at["backup"] = Never \/ polled - at["backup"] > WarnAfter["backup"]
    BY <2>1, PartsAssumption DEF SaysAt, AgeAt, MonitorInv, MonitorTypes, Monitor!Aged, Monitor!MonitoringAssumption,
           Monitor!PollsBetweenThresholds
  <2>3. QED
    BY <2>2 DEF MonitorInv
<1>5. PartsSpec => []MonitorInv
  BY <1>1, MonitorNext, PTL DEF PartsSpec
<1>6. PartsSpec => Monitor!AlarmsStay
  BY <1>3, <1>5, PTL DEF PartsSpec, Monitor!AlarmsStay
<1>7. PartsSpec => Monitor!CriticalWasWarned
  BY <1>4, <1>5, PTL DEF PartsSpec, Monitor!CriticalWasWarned
<1>8. QED
  BY <1>2, <1>5, <1>6, <1>7, PTL DEF MonitoringSound

-----------------------------------------------------------------------------
(* Retention.                                                              *)

RetentionTypes ==
    /\ retentionNow \in 0..RetentionMaxTime /\ rows \subseteq RetainedRow /\ retentionLock \in RetentionRuns \cup {Nobody}
    /\ retentionPc \in [RetentionRuns -> {"idle", "locking", "deleting", "inspecting", "unlocking", "recording",
                                          "returned", "failed"}]
    /\ retentionSession \in [RetentionRuns -> {"none", "open", "lost", "pooled", "closed"}]
    /\ started \in [RetentionRuns -> 0..RetentionMaxTime]
    /\ table \in [RetentionRuns -> 1..4] /\ chunk \in [RetentionRuns -> 0..MaxChunks - 1]
    /\ counted \in [RetentionRuns -> Nat] /\ deletedBy \in [RetentionRuns -> SUBSET RetainedRow]
    /\ state \in [RetentionRuns -> {"none", "complete", "success_with_backlog", "skipped_overlapping", "incomplete"}]
    /\ record \in [RetentionRuns -> {"none", "pending", "synced", "linked", "durable", "torn"}]
    /\ retentionFaults \in 0..RetentionMaxFaults

\* The lock is held by an open session that has not given it up; what the run deleted
\* was expired at its instant, is gone and stays gone, and is what it counted unless
\* an answer was lost; what it calls complete was clean, and stays it for that instant.
RunOK(r) ==
    /\ retentionLock = r => retentionSession[r] = "open" /\ retentionPc[r] \in {"deleting", "inspecting", "unlocking"}
    /\ started[r] <= retentionNow
    /\ retentionPc[r] = "locking" => deletedBy[r] = {}
    /\ retentionPc[r] \in {"locking", "deleting", "inspecting"} => state[r] = "complete"
    /\ \A x \in deletedBy[r] : x \notin rows /\ Purge!Expired(x, started[r])
    /\ counted[r] <= Cardinality(deletedBy[r])
    /\ state[r] # "incomplete" => counted[r] = Cardinality(deletedBy[r])
    /\ state[r] = "complete" /\ retentionPc[r] \in {"unlocking", "recording", "returned"}
          => /\ \A x \in rows : ~Purge!Expired(x, started[r])
             /\ ~Purge!ImportBacklog(r)
    /\ record[r] # "torn"

RetentionInv == RetentionTypes /\ \A r \in RetentionRuns : RunOK(r)

\* The module's copies of the operators on finite sets.
LEMMA RetentionSets ==
    /\ \A S : Purge!Cardinality(S) = Cardinality(S)
    /\ \A S : Purge!IsFiniteSet(S) = IsFiniteSet(S)
BY DEF Purge!Cardinality, Cardinality, Purge!IsFiniteSet, IsFiniteSet

\* What is expired lies before the instant, and stays expired.
LEMMA ExpiredStays ==
    ASSUME NEW x \in RetainedRow, NEW t \in Int, NEW u \in Int, t <= u, Purge!Expired(x, t)
    PROVE  RowStamp[x] \in Int /\ RowStamp[x] < t /\ Purge!Expired(x, u)
<1>1. RowStamp[x] \in Int /\ Year \in Nat
  BY PartsAssumption DEF Purge!RetentionAssumption
<1>2. QED
  BY <1>1 DEF Purge!Expired, Purge!Cutoff

LEMMA RetentionInit == Purge!Init => RetentionInv
<1> SUFFICES ASSUME Purge!Init PROVE RetentionInv
  OBVIOUS
<1> USE PartsAssumption DEF Purge!RetentionAssumption, Purge!Init
<1>1. RetentionTypes
  BY DEF RetentionTypes
<1>2. ASSUME NEW r \in RetentionRuns PROVE RunOK(r)
  BY FS_EmptySet, <1>2 DEF RunOK
<1>3. QED
  BY <1>1, <1>2 DEF RetentionInv

\* A run that does nothing stays as it was when others delete and time passes.
LEMMA RunKept ==
    ASSUME RetentionTypes, NEW q \in RetentionRuns, RunOK(q), rows' \subseteq rows, retentionNow' = retentionNow,
           retentionLock' = q => retentionLock = q,
           UNCHANGED <<retentionPc[q], retentionSession[q], started[q], table[q], chunk[q], counted[q], deletedBy[q],
                       state[q]>>,
           record'[q] # "torn"
    PROVE  RunOK(q)'
BY DEF RunOK, Purge!Expired, Purge!ImportBacklog, Purge!Cutoff

\* A chunk is of expired rows that no run has deleted, and it is counted whole.
LEMMA ChunkDeleted ==
    ASSUME RetentionInv, NEW r \in RetentionRuns, NEW c \in Purge!ChunkOf(r)
    PROVE  /\ c \subseteq rows /\ \A x \in c : Purge!Expired(x, started[r])
           /\ Cardinality(c) \in Nat /\ Cardinality(deletedBy[r]) \in Nat
           /\ Cardinality(deletedBy[r] \cup c) = Cardinality(deletedBy[r]) + Cardinality(c)
<1>1. c \subseteq Purge!Candidates(r)
  BY DEF Purge!ChunkOf, Purge!kSubset
<1>2. c \subseteq rows /\ \A x \in c : Purge!Expired(x, started[r])
  BY <1>1 DEF Purge!Candidates
<1>3. IsFiniteSet(RetainedRow)
  BY PartsAssumption, RetentionSets DEF Purge!RetentionAssumption
<1>4. IsFiniteSet(c) /\ IsFiniteSet(deletedBy[r])
  BY <1>2, <1>3, FS_Subset DEF RetentionInv, RetentionTypes
<1>5. deletedBy[r] \cap c = {}
  BY <1>2 DEF RetentionInv, RunOK
<1>6. Cardinality(c) \in Nat /\ Cardinality(deletedBy[r]) \in Nat /\ Cardinality(deletedBy[r] \cap c) = 0
  BY <1>4, <1>5, FS_CardinalityType, FS_EmptySet
<1>7. Cardinality(deletedBy[r] \cup c) = Cardinality(deletedBy[r]) + Cardinality(c) - Cardinality(deletedBy[r] \cap c)
  BY <1>4, FS_Union
<1>8. QED
  BY <1>2, <1>6, <1>7

\* A run that takes a step, and leaves the others as they are.
LEMMA RunAlone ==
    ASSUME RetentionInv, RetentionTypes', NEW r \in RetentionRuns, RunOK(r)', rows' \subseteq rows,
           retentionNow' = retentionNow, retentionLock' \in {retentionLock, r, Nobody},
           \A q \in RetentionRuns \ {r} :
              UNCHANGED <<retentionPc[q], retentionSession[q], started[q], table[q], chunk[q], counted[q], deletedBy[q],
                          state[q], record[q]>>
    PROVE  RetentionInv'
<1>1. ASSUME NEW q \in RetentionRuns PROVE RunOK(q)'
  <2>1. CASE q = r
    BY <2>1
  <2>2. CASE q # r
    <3>1. RunOK(q) /\ RetentionTypes /\ record'[q] # "torn" /\ (retentionLock' = q => retentionLock = q)
      BY <2>2, PartsAssumption DEF RetentionInv, RunOK, Purge!RetentionAssumption
    <3>2. QED
      BY <2>2, <3>1, RunKept
  <2>3. QED
    BY <2>1, <2>2
<1>2. QED
  BY <1>1 DEF RetentionInv

\* The run connects, takes the lock or not, ends its deletions, looks at what is left.
LEMMA RunAdvances ==
    ASSUME RetentionInv, NEW r \in RetentionRuns,
           Purge!connect(r) \/ Purge!tryLock(r) \/ Purge!endDeleting(r) \/ Purge!inspectBacklog(r)
    PROVE  RetentionInv'
<1> USE PartsAssumption DEF Purge!RetentionAssumption, Purge!Goes, Purge!At, Purge!Alive
<1>0. RetentionTypes /\ RunOK(r)
  BY DEF RetentionInv
<1>1. CASE Purge!connect(r)
  <2>1. RetentionTypes'
    BY <1>0, <1>1 DEF Purge!connect, RetentionTypes
  <2>2. RunOK(r)'
    BY <1>0, <1>1, FS_EmptySet DEF Purge!connect, RetentionTypes, RunOK
  <2>3. QED
    BY <1>0, <1>1, <2>1, <2>2, RunAlone DEF Purge!connect, RetentionTypes
<1>2. CASE Purge!tryLock(r)
  <2>1. RetentionTypes'
    BY <1>0, <1>2 DEF Purge!tryLock, RetentionTypes
  <2>2. RunOK(r)'
    BY <1>0, <1>2 DEF Purge!tryLock, RetentionTypes, RunOK
  <2>3. QED
    BY <1>0, <1>2, <2>1, <2>2, RunAlone DEF Purge!tryLock, RetentionTypes
<1>3. CASE Purge!endDeleting(r)
  <2>1. RetentionTypes'
    BY <1>0, <1>3 DEF Purge!endDeleting, RetentionTypes
  <2>2. RunOK(r)'
    BY <1>0, <1>3 DEF Purge!endDeleting, RetentionTypes, RunOK, Purge!Expired, Purge!Cutoff
  <2>3. QED
    BY <1>0, <1>3, <2>1, <2>2, RunAlone DEF Purge!endDeleting, RetentionTypes
<1>4. CASE Purge!inspectBacklog(r)
  <2>1. RetentionTypes'
    BY <1>0, <1>4 DEF Purge!inspectBacklog, RetentionTypes
  <2>2. state'[r] = "complete" => ~Purge!ImportBacklog(r)' /\ \A x \in rows' : ~Purge!Expired(x, started[r])'
    BY <1>0, <1>4 DEF Purge!inspectBacklog, Purge!ApprovedBacklog, Purge!ImportBacklog, Purge!Expired, Purge!Cutoff,
                      RetentionTypes
  <2>3. RunOK(r)'
    BY <1>0, <1>4, <2>2 DEF Purge!inspectBacklog, RetentionTypes, RunOK, Purge!Expired, Purge!Cutoff
  <2>4. QED
    BY <1>0, <1>4, <2>1, <2>3, RunAlone DEF Purge!inspectBacklog, RetentionTypes
<1>5. QED
  BY <1>1, <1>2, <1>3, <1>4

\* The run deletes a chunk, answered or not.
LEMMA RunDeletes ==
    ASSUME RetentionInv, NEW r \in RetentionRuns, Purge!deleteChunk(r) \/ Purge!commitUnanswered(r)
    PROVE  RetentionInv'
<1> USE PartsAssumption DEF Purge!RetentionAssumption, Purge!Goes, Purge!At, Purge!Alive
<1>0. RetentionTypes /\ RunOK(r)
  BY DEF RetentionInv
<1>1. CASE Purge!deleteChunk(r)
  <2>1. PICK c \in Purge!ChunkOf(r) :
           /\ rows' = rows \ c /\ deletedBy' = [deletedBy EXCEPT ![r] = @ \cup c]
           /\ counted' = [counted EXCEPT ![r] = counted[r] + Cardinality(c)]
           /\ table' = [table EXCEPT ![r] = Purge!NextPlace(r, Cardinality(c))[1]]
           /\ chunk' = [chunk EXCEPT ![r] = Purge!NextPlace(r, Cardinality(c))[2]]
    BY <1>1, RetentionSets DEF Purge!deleteChunk, Purge!Counts
  <2>2. /\ c \subseteq rows /\ \A x \in c : Purge!Expired(x, started[r])
        /\ Cardinality(c) \in Nat /\ Cardinality(deletedBy[r]) \in Nat
        /\ Cardinality(deletedBy[r] \cup c) = Cardinality(deletedBy[r]) + Cardinality(c)
    BY ChunkDeleted
  <2>3. /\ retentionPc[r] = "deleting" /\ table[r] <= 3
        /\ UNCHANGED <<retentionNow, retentionLock, retentionPc, retentionSession, started, state, record,
                       retentionFaults>>
    BY <1>1 DEF Purge!deleteChunk
  <2>4. table'[r] \in 1..4 /\ chunk'[r] \in 0..MaxChunks - 1
    <3>1. table[r] \in 1..3 /\ chunk[r] \in 0..MaxChunks - 1 /\ MaxChunks \in Nat \ {0}
      BY <1>0, <2>3 DEF RetentionTypes
    <3>2. \/ Purge!NextPlace(r, Cardinality(c)) = <<table[r] + 1, 0>>
          \/ Purge!NextPlace(r, Cardinality(c)) = <<table[r], chunk[r] + 1>> /\ chunk[r] + 1 # MaxChunks
      BY DEF Purge!NextPlace
    <3>3. table'[r] = Purge!NextPlace(r, Cardinality(c))[1] /\ chunk'[r] = Purge!NextPlace(r, Cardinality(c))[2]
      BY <1>0, <2>1 DEF RetentionTypes
    <3>4. QED
      BY <3>1, <3>2, <3>3
  <2>5. counted'[r] = counted[r] + Cardinality(c) /\ deletedBy'[r] = deletedBy[r] \cup c /\ deletedBy'[r] \subseteq RetainedRow
    BY <1>0, <2>1, <2>2 DEF RetentionTypes
  <2>6. RetentionTypes'
    <3>1. counted' \in [RetentionRuns -> Nat]
      BY <1>0, <2>1, <2>2 DEF RetentionTypes
    <3>2. deletedBy' \in [RetentionRuns -> SUBSET RetainedRow]
      BY <1>0, <2>1, <2>2 DEF RetentionTypes
    <3>3. table' \in [RetentionRuns -> 1..4] /\ chunk' \in [RetentionRuns -> 0..MaxChunks - 1]
      BY <1>0, <2>1, <2>4 DEF RetentionTypes
    <3>4. rows' \subseteq RetainedRow
      BY <1>0, <2>1 DEF RetentionTypes
    <3>5. QED
      BY <1>0, <2>3, <3>1, <3>2, <3>3, <3>4 DEF RetentionTypes
  <2>7. RunOK(r)'
    <3>1. \A x \in deletedBy'[r] : x \notin rows' /\ Purge!Expired(x, started[r])'
      BY <1>0, <2>1, <2>2, <2>3, <2>5 DEF RunOK, Purge!Expired, Purge!Cutoff
    <3>2. state'[r] = "complete" /\ counted'[r] = Cardinality(deletedBy'[r]) /\ counted'[r] \in Nat
      BY <1>0, <2>2, <2>3, <2>5 DEF RunOK, RetentionTypes
    <3>3. QED
      BY <1>0, <2>3, <3>1, <3>2 DEF RunOK
  <2>8. QED
    BY <1>0, <2>1, <2>3, <2>6, <2>7, RunAlone DEF RetentionTypes
<1>2. CASE Purge!commitUnanswered(r)
  <2>1. PICK c \in Purge!ChunkOf(r) : rows' = rows \ c /\ deletedBy' = [deletedBy EXCEPT ![r] = @ \cup c]
    BY <1>2 DEF Purge!commitUnanswered
  <2>2. /\ c \subseteq rows /\ \A x \in c : Purge!Expired(x, started[r])
        /\ Cardinality(c) \in Nat /\ Cardinality(deletedBy[r]) \in Nat
        /\ Cardinality(deletedBy[r] \cup c) = Cardinality(deletedBy[r]) + Cardinality(c)
    BY ChunkDeleted
  <2>3. /\ retentionPc' = [retentionPc EXCEPT ![r] = "unlocking"]
        /\ retentionFaults < RetentionMaxFaults /\ retentionFaults' = retentionFaults + 1
        /\ retentionSession' = [retentionSession EXCEPT ![r] = "lost"]
        /\ retentionLock' = (IF retentionLock = r THEN Nobody ELSE retentionLock)
        /\ state' = [state EXCEPT ![r] = "incomplete"]
        /\ UNCHANGED <<retentionNow, started, table, chunk, counted, record>>
    BY <1>2 DEF Purge!commitUnanswered, Purge!Fault
  <2>4. deletedBy'[r] = deletedBy[r] \cup c /\ rows' \subseteq RetainedRow
    BY <1>0, <2>1 DEF RetentionTypes
  <2>5. RetentionTypes'
    <3>1. deletedBy' \in [RetentionRuns -> SUBSET RetainedRow]
      BY <1>0, <2>1, <2>2 DEF RetentionTypes
    <3>2. retentionLock' \in RetentionRuns \cup {Nobody} /\ retentionFaults' \in 0..RetentionMaxFaults
      BY <1>0, <2>3 DEF RetentionTypes
    <3>3. QED
      BY <1>0, <2>3, <2>4, <3>1, <3>2 DEF RetentionTypes
  <2>6. RunOK(r)'
    <3>1. \A x \in deletedBy'[r] : x \notin rows' /\ Purge!Expired(x, started[r])'
      BY <1>0, <2>1, <2>2, <2>3, <2>4 DEF RunOK, Purge!Expired, Purge!Cutoff
    <3>2. retentionLock' # r /\ retentionPc'[r] = "unlocking" /\ state'[r] = "incomplete"
      BY <1>0, <2>3 DEF RetentionTypes
    <3>3. counted'[r] <= Cardinality(deletedBy'[r])
      BY <1>0, <2>2, <2>3, <2>4 DEF RunOK, RetentionTypes
    <3>4. QED
      BY <1>0, <2>3, <3>1, <3>2, <3>3 DEF RunOK
  <2>7. QED
    BY <1>0, <2>1, <2>3, <2>5, <2>6, RunAlone DEF RetentionTypes
<1>3. QED
  BY <1>1, <1>2

\* The run fails, loses its session, gives up the lock, and leaves its record.
LEMMA RunEnds ==
    ASSUME RetentionInv, NEW r \in RetentionRuns,
           Purge!fail(r) \/ Purge!loseSession(r) \/ Purge!unlock(r) \/ Purge!persist(r) \/ Purge!return(r)
              \/ Purge!persistFails(r)
    PROVE  RetentionInv'
<1> USE PartsAssumption DEF Purge!RetentionAssumption, Purge!Goes, Purge!At, Purge!Alive, Purge!Fault, Purge!run
<1>0. RetentionTypes /\ RunOK(r)
  BY DEF RetentionInv
<1>1. CASE Purge!fail(r)
  <2>1. RetentionTypes'
    BY <1>0, <1>1 DEF Purge!fail, RetentionTypes
  <2>2. RunOK(r)'
    BY <1>0, <1>1 DEF Purge!fail, RetentionTypes, RunOK, Purge!Expired, Purge!Cutoff
  <2>3. QED
    BY <1>0, <1>1, <2>1, <2>2, RunAlone DEF Purge!fail, RetentionTypes
<1>2. CASE Purge!loseSession(r)
  <2>1. RetentionTypes'
    BY <1>0, <1>2 DEF Purge!loseSession, RetentionTypes
  <2>2. RunOK(r)'
    BY <1>0, <1>2 DEF Purge!loseSession, RetentionTypes, RunOK, Purge!Expired, Purge!Cutoff, Purge!ImportBacklog
  <2>3. QED
    BY <1>0, <1>2, <2>1, <2>2, RunAlone DEF Purge!loseSession, RetentionTypes
<1>3. CASE Purge!unlock(r)
  <2>1. RetentionTypes'
    BY <1>0, <1>3 DEF Purge!unlock, Purge!Released, RetentionTypes
  <2>2. RunOK(r)'
    BY <1>0, <1>3 DEF Purge!unlock, Purge!Released, RetentionTypes, RunOK, Purge!Expired, Purge!Cutoff,
                      Purge!ImportBacklog
  <2>3. QED
    BY <1>0, <1>3, <2>1, <2>2, RunAlone DEF Purge!unlock, Purge!Released, RetentionTypes
<1>4. CASE Purge!persist(r)
  <2>1. RetentionTypes' /\ record'[r] # "torn"
    BY <1>0, <1>4 DEF Purge!persist, Purge!NextRecord, RetentionTypes
  <2>2. RunOK(r)'
    BY <1>0, <1>4, <2>1 DEF Purge!persist, RetentionTypes, RunOK, Purge!Expired, Purge!Cutoff, Purge!ImportBacklog
  <2>3. QED
    BY <1>0, <1>4, <2>1, <2>2, RunAlone DEF Purge!persist, RetentionTypes
<1>5. CASE Purge!return(r)
  <2>1. RetentionTypes'
    BY <1>0, <1>5 DEF Purge!return, RetentionTypes
  <2>2. RunOK(r)'
    BY <1>0, <1>5 DEF Purge!return, RetentionTypes, RunOK, Purge!Expired, Purge!Cutoff, Purge!ImportBacklog
  <2>3. QED
    BY <1>0, <1>5, <2>1, <2>2, RunAlone DEF Purge!return, RetentionTypes
<1>6. CASE Purge!persistFails(r)
  <2>1. RetentionTypes'
    BY <1>0, <1>6 DEF Purge!persistFails, RetentionTypes
  <2>2. RunOK(r)'
    BY <1>0, <1>6 DEF Purge!persistFails, RetentionTypes, RunOK, Purge!Expired, Purge!Cutoff
  <2>3. QED
    BY <1>0, <1>6, <2>1, <2>2, RunAlone DEF Purge!persistFails, RetentionTypes
<1>7. QED
  BY <1>1, <1>2, <1>3, <1>4, <1>5, <1>6

\* Time and a power loss, which are not of one run.
LEMMA RunsInterrupted ==
    ASSUME RetentionInv, Purge!Tick \/ Purge!powerLoss
    PROVE  RetentionInv'
<1> USE PartsAssumption DEF Purge!RetentionAssumption, Purge!Fault, Purge!run
<1>0. RetentionTypes
  BY DEF RetentionInv
<1>1. CASE Purge!Tick
  <2>1. /\ retentionNow < RetentionMaxTime /\ retentionNow' = retentionNow + 1
        /\ rows' = rows \cup {x \in RetainedRow : RowStamp[x] = retentionNow + 1 /\ RowTable[x] # "sessions"}
        /\ UNCHANGED <<retentionLock, retentionPc, retentionSession, started, table, chunk, counted, deletedBy, state,
                       record, retentionFaults>>
    BY <1>1 DEF Purge!Tick
  <2>2. RetentionTypes'
    BY <1>0, <2>1 DEF RetentionTypes
  <2>3. ASSUME NEW r \in RetentionRuns PROVE RunOK(r)'
    <3>1. RunOK(r) /\ started[r] \in Int /\ retentionNow \in Int /\ started[r] <= retentionNow
      BY <1>0 DEF RetentionInv, RetentionTypes, RunOK
    <3>2. ASSUME NEW x \in rows', x \notin rows PROVE ~Purge!Expired(x, started[r])
      <4>1. x \in RetainedRow /\ RowStamp[x] = retentionNow + 1
        BY <2>1, <3>2
      <4>2. QED
        BY <3>1, <4>1, ExpiredStays
    <3>3. \A x \in RetainedRow : Purge!Expired(x, started[r])' = Purge!Expired(x, started[r])
      BY <2>1 DEF Purge!Expired, Purge!Cutoff
    <3>4. Purge!ImportBacklog(r)' = Purge!ImportBacklog(r)
      BY <2>1 DEF Purge!ImportBacklog, Purge!Cutoff
    <3>5. deletedBy[r] \subseteq RetainedRow /\ rows' \subseteq RetainedRow
      BY <1>0, <2>2 DEF RetentionTypes
    <3>6. \A x \in deletedBy[r] : x \notin rows'
      BY <3>1, <3>2 DEF RunOK
    <3>7. QED
      BY <2>1, <3>1, <3>2, <3>3, <3>4, <3>5, <3>6 DEF RunOK
  <2>4. QED
    BY <2>2, <2>3 DEF RetentionInv
<1>2. CASE Purge!powerLoss
  <2>1. /\ retentionFaults < RetentionMaxFaults /\ retentionFaults' = retentionFaults + 1
        /\ retentionPc' = [r \in RetentionRuns |->
              IF retentionPc[r] \in {"idle", "returned"} THEN retentionPc[r] ELSE "failed"]
        /\ retentionSession' = [r \in RetentionRuns |-> "closed"] /\ retentionLock' = Nobody
        /\ record' \in [RetentionRuns -> {"none", "linked", "durable", "torn"}]
        /\ UNCHANGED <<retentionNow, rows, started, table, chunk, counted, deletedBy, state>>
    BY <1>2 DEF Purge!powerLoss
  <2>2. RetentionTypes'
    BY <1>0, <2>1 DEF RetentionTypes
  <2>3. ASSUME NEW r \in RetentionRuns PROVE RunOK(r)'
    <3>1. record'[r] # "torn"
      <4>1. "synced" \in DOMAIN Purge!NextRecord
        BY DEF Purge!NextRecord
      <4>2. QED
        BY <1>2, <4>1 DEF Purge!powerLoss
    <3>2. retentionLock' # r /\ retentionPc'[r] \in {"idle", "returned", "failed"}
             /\ (retentionPc'[r] = "returned" => retentionPc[r] = "returned")
      BY <1>0, <2>1 DEF RetentionTypes
    <3>3. QED
      BY <2>1, <3>1, <3>2 DEF RetentionInv, RunOK, Purge!Expired, Purge!Cutoff, Purge!ImportBacklog
  <2>4. QED
    BY <2>2, <2>3 DEF RetentionInv
<1>3. QED
  BY <1>1, <1>2

LEMMA RetentionNext == RetentionInv /\ [PartsNext]_partsVars => RetentionInv'
<1> SUFFICES ASSUME RetentionInv, [PartsNext]_partsVars PROVE RetentionInv'
  OBVIOUS
<1>1. ASSUME UNCHANGED retentionVars PROVE RetentionInv'
  BY <1>1 DEF RetentionInv, RetentionTypes, RunOK, Purge!Expired, Purge!Cutoff, Purge!ImportBacklog, retentionVars
<1>2. ASSUME Purge!Next PROVE RetentionInv'
  BY <1>2, RunAdvances, RunDeletes, RunEnds, RunsInterrupted DEF Purge!Next, Purge!Step
<1>3. QED
  BY <1>1, <1>2 DEF PartsNext, partsVars, retentionVars

\* Rows go only in a chunk, and a chunk is of rows that were expired before.
LEMMA DeletedExpired ==
    RetentionInv /\ [PartsNext]_partsVars => \A x \in rows \ rows' : Purge!Expired(x, retentionNow)
<1> SUFFICES ASSUME RetentionInv, [PartsNext]_partsVars, NEW x \in rows, x \notin rows'
    PROVE  Purge!Expired(x, retentionNow)
  OBVIOUS
<1>1. PICK r \in RetentionRuns : Purge!deleteChunk(r) \/ Purge!commitUnanswered(r)
  BY DEF PartsNext, partsVars, retentionVars, Purge!Next, Purge!Step, Purge!Tick, Purge!powerLoss, Purge!connect,
         Purge!tryLock, Purge!endDeleting, Purge!inspectBacklog, Purge!fail, Purge!unlock, Purge!persist, Purge!return,
         Purge!persistFails, Purge!loseSession
<1>2. PICK c \in Purge!ChunkOf(r) : rows' = rows \ c
  BY <1>1 DEF Purge!deleteChunk, Purge!commitUnanswered
<1>3. Purge!Expired(x, started[r])
  BY <1>2, ChunkDeleted
<1>4. x \in RetainedRow /\ started[r] \in Int /\ retentionNow \in Int /\ started[r] <= retentionNow
  BY PartsAssumption DEF RetentionInv, RetentionTypes, RunOK, Purge!RetentionAssumption
<1>5. QED
  BY <1>3, <1>4, ExpiredStays

\* For any runs, times and failures: a run deletes only what is expired when it does,
\* counts what it deleted and no less unless it says incomplete, says complete only if
\* nothing is left that was expired at its start, also later on; a session that went
\* back to the pool holds no lock; and a record that has its name is whole, also after
\* a power loss (retention.ts, fileEvidence.ts).
THEOREM RetentionIsSound == PartsSpec => RetentionSound
<1>1. PartsInit => RetentionInv
  BY RetentionInit DEF PartsInit
<1>2. RetentionInv => (part = "retention" =>
             /\ Purge!TypeOK
             /\ Purge!CountsTruthful
             /\ Purge!CompleteMeansClean
             /\ Purge!NoLockLeaks
             /\ Purge!RecordWhole)
  <2> SUFFICES ASSUME RetentionInv
      PROVE  Purge!TypeOK /\ Purge!CountsTruthful /\ Purge!CompleteMeansClean /\ Purge!NoLockLeaks /\ Purge!RecordWhole
    OBVIOUS
  <2>1. Purge!TypeOK
    <3>1. ASSUME NEW r \in RetentionRuns PROVE counted[r] \in 0..Purge!Cardinality(RetainedRow)
      <4>1. IsFiniteSet(RetainedRow)
        BY PartsAssumption, RetentionSets DEF Purge!RetentionAssumption
      <4>2. /\ Cardinality(deletedBy[r]) <= Cardinality(RetainedRow)
            /\ Cardinality(deletedBy[r]) \in Nat /\ Cardinality(RetainedRow) \in Nat
        BY <4>1, FS_Subset, FS_CardinalityType DEF RetentionInv, RetentionTypes
      <4>3. counted[r] \in Nat /\ counted[r] <= Cardinality(deletedBy[r])
        BY DEF RetentionInv, RetentionTypes, RunOK
      <4>4. QED
        BY <4>2, <4>3, RetentionSets
    <3>2. counted \in [RetentionRuns -> 0..Purge!Cardinality(RetainedRow)]
      BY <3>1 DEF RetentionInv, RetentionTypes
    <3>3. QED
      BY <3>2 DEF RetentionInv, RetentionTypes, Purge!TypeOK
  <2>2. Purge!CountsTruthful
    BY RetentionSets DEF RetentionInv, RunOK, Purge!CountsTruthful
  <2>3. Purge!CompleteMeansClean
    <3>1. ASSUME NEW r \in RetentionRuns, ~Purge!ImportBacklog(r), NEW b \in Batch
          PROVE  Completed[b] >= Purge!Cutoff(started[r])
      BY <3>1, PartsAssumption DEF Purge!ImportBacklog, Purge!Cutoff, Purge!RetentionAssumption, RetentionInv, RetentionTypes
    <3>2. QED
      BY <3>1 DEF RetentionInv, RunOK, Purge!CompleteMeansClean
  <2>4. Purge!NoLockLeaks
    BY DEF RetentionInv, RunOK, Purge!NoLockLeaks
  <2>5. Purge!RecordWhole
    BY DEF RetentionInv, RunOK, Purge!RecordWhole
  <2>6. QED
    BY <2>1, <2>2, <2>3, <2>4, <2>5
<1>3. RetentionInv /\ [PartsNext]_partsVars => [\A x \in rows \ rows' : Purge!Expired(x, retentionNow)]_(Purge!vars)
  BY DeletedExpired
<1>4. PartsSpec => []RetentionInv
  BY <1>1, RetentionNext, PTL DEF PartsSpec
<1>5. PartsSpec => Purge!OnlyExpired
  BY <1>3, <1>4, PTL DEF PartsSpec, Purge!OnlyExpired
<1>6. QED
  BY <1>2, <1>4, <1>5, PTL DEF RetentionSound

-----------------------------------------------------------------------------
(* Releases and certificates.                                              *)

Early    == {"none", "entry", "lock"}
Prepared == {"preflight", "build", "check", "bootstrap", "reverify", "apps"}
Phases   == Early \cup Critical \cup {"done"}
Renewing == {"idle", "lego", "install", "publish", "point", "restart", "restore", "again"}

ReleaseTypes ==
    /\ master \in Commits /\ marker \in 0..master /\ apps \in 0..master /\ edge \in 0..master
    /\ lock \in Commits \cup {None, Renewal} /\ schema \in {1, 2} /\ disturbed \subseteq {"rollout", "pointer"}
    /\ job \in [Commits -> [phase : Phases, prev : 0..MaxCommit, fits : BOOLEAN]]
    /\ renew \in [phase : Renewing, old : Nat]
    /\ issued \in Nat \ {0} /\ pointer \in 0..issued /\ served \in 0..issued /\ (edge = 0 <=> served = 0)

\* How far a job is: what it found is still so, because it holds the lock; its release
\* runs nowhere before the rollout has reached it, and was checked against the schema.
JobOK(c) ==
    /\ job[c].phase \in Critical <=> lock = c
    /\ c > master => job[c].phase = "none"
    /\ job[c].phase \in Early \cup Prepared \cup {"edge"} => edge # c /\ marker # c
    /\ job[c].phase \in Critical \ {"preflight"} => job[c].prev = marker /\ marker <= c
    /\ job[c].phase \in {"bootstrap", "reverify"} \cup Rollout
          => SchemaOf(c) = schema /\ (job[c].fits = TRUE => SchemaOf(job[c].prev) = schema)
    /\ job[c].phase \in {"reverify"} \cup Rollout => pointer # 0
    /\ job[c].phase \in {"edge", "mark"} => apps = c
    /\ job[c].phase = "mark" => edge = c /\ served = pointer
    /\ job[c].phase \in {"rollbackApps", "rollbackEdge"} => job[c].prev # 0 /\ job[c].fits = TRUE
    /\ job[c].phase = "rollbackEdge" => apps = job[c].prev

\* Before and after a rollout the recorded release runs, or nothing.
RunsOK ==
    "rollout" \notin disturbed /\ (\A c \in Commits : job[c].phase \notin Rollout \ {"apps"})
        => apps \in {0, marker} /\ edge \in {0, marker}

SaysInstalled == told \in {"installed", "already installed"}

\* How far the renewal is; the pair of the lineage, once the pointer names it, is what
\* the edge serves, but between the move of the pointer and the restart.
RenewalOK ==
    /\ renew.phase # "idle" <=> lock = Renewal
    /\ pointer # 0 => pointer \in whole
    /\ pointer = 0 => edge = 0
    /\ renew.phase \in {"publish", "point", "restart", "restore"}
          => renew.old \in whole /\ renew.old # 0 /\ renew.old < issued /\ pointer # 0
    /\ renew.phase \in {"publish", "point"} => pointer = renew.old
    /\ renew.phase \in {"restart", "restore"} => pointer = issued
    /\ renew.phase \in {"restart", "restore", "again"} => marker # 0 /\ pointer # 0
    /\ renew.phase = "again" => pointer # issued
    /\ lock # None => told = None
    /\ SaysInstalled => pointer = issued
    /\ disturbed = {} /\ edge # 0 /\ pointer = issued /\ renew.phase \notin {"restart", "restore"} => served = pointer

ReleaseInv == ReleaseTypes /\ (\A c \in Commits : JobOK(c)) /\ RunsOK /\ RenewalOK

LEMMA ReleaseInit == Init => ReleaseInv
<1> SUFFICES ASSUME Init PROVE ReleaseInv
  OBVIOUS
<1> USE ReleaseAssumption DEF Init, Commits, Renewal, Early, Prepared, Phases, Renewing, Critical, Rollout
<1>1. ReleaseTypes
  BY DEF ReleaseTypes
<1>2. ASSUME NEW c \in Commits PROVE JobOK(c)
  BY DEF JobOK
<1>3. RunsOK
  BY DEF RunsOK
<1>4. RenewalOK
  <2>1. renew.phase = "idle" /\ lock # Renewal /\ lock = None
    OBVIOUS
  <2>2. pointer # 0 => pointer \in whole
    OBVIOUS
  <2>3. ~SaysInstalled
    BY ToldAssumption DEF SaysInstalled
  <2>4. QED
    BY <2>1, <2>2, <2>3 DEF RenewalOK
<1>5. QED
  BY <1>1, <1>2, <1>3, <1>4 DEF ReleaseInv

\* What the change of a job's phase does, and does not.
LEMMA JobMoved ==
    ASSUME ReleaseTypes, NEW c \in Commits, NEW phase \in Phases, job' = [job EXCEPT ![c].phase = phase]
    PROVE  /\ job' \in [Commits -> [phase : Phases, prev : 0..MaxCommit, fits : BOOLEAN]]
           /\ job'[c].phase = phase /\ job'[c].prev = job[c].prev /\ job'[c].fits = job[c].fits
           /\ \A d \in Commits \ {c} : job'[d] = job[d]
BY DEF ReleaseTypes

\* A job that does not hold the lock stays as it is when another moves on.
LEMMA JobKept ==
    ASSUME NEW d \in Commits, JobOK(d), job'[d] = job[d], lock # d, lock' # d, master' = master,
           job[d].phase \in Early => edge' # d /\ marker' # d
    PROVE  JobOK(d)'
BY DEF JobOK, Critical, Rollout, Prepared

\* A step of the job that holds the lock, or that takes it.
LEMMA JobAlone ==
    ASSUME ReleaseInv, NEW c \in Commits, lock \in {c, None}, lock' \in {c, None}, master' = master,
           edge' \in {edge, 0, c, marker}, marker' \in {marker, c}, \A d \in Commits \ {c} : job'[d] = job[d],
           ReleaseTypes', JobOK(c)', RunsOK', RenewalOK'
    PROVE  ReleaseInv'
<1>1. ASSUME NEW d \in Commits, d # c PROVE JobOK(d)'
  <2>1. JobOK(d) /\ lock # d /\ lock' # d /\ d # 0
    BY <1>1, ReleaseAssumption DEF ReleaseInv, Commits
  <2>2. job[d].phase \in Early => edge' # d /\ marker' # d
    BY <1>1, <2>1 DEF JobOK
  <2>3. QED
    BY <1>1, <2>1, <2>2, JobKept
<1>2. QED
  BY <1>1 DEF ReleaseInv

\* A job that only waits, or gives up.
LEMMA JobWaits ==
    ASSUME ReleaseInv, NEW c \in Commits, entrypoint(c) \/ lockTimeout(c)
    PROVE  ReleaseInv'
<1> DEFINE p == job'[c].phase
<1>1. /\ job[c].phase \in {"entry", "lock"} /\ p \in {"lock", "done"}
      /\ job' = [job EXCEPT ![c].phase = p]
      /\ UNCHANGED <<master, lock, release, schema, tls, told, disturbed>>
  BY DEF entrypoint, lockTimeout, At, Go, ReleaseInv, ReleaseTypes
<1>2. p \in Phases
  BY <1>1 DEF Phases, Early
<1> HIDE DEF p
<1>3. /\ job' \in [Commits -> [phase : Phases, prev : 0..MaxCommit, fits : BOOLEAN]]
      /\ job'[c].phase = p /\ \A d \in Commits \ {c} : job'[d] = job[d]
  BY <1>1, <1>2, JobMoved DEF ReleaseInv
<1>4. ReleaseTypes'
  BY <1>1, <1>3 DEF ReleaseInv, ReleaseTypes, release, tls
<1>5. ASSUME NEW d \in Commits PROVE JobOK(d)'
  <2>1. CASE d = c
    BY <1>1, <1>3, <2>1 DEF ReleaseInv, JobOK, Early, Prepared, Critical, Rollout, release, tls, SchemaOf
  <2>2. CASE d # c
    BY <1>1, <1>3, <2>2 DEF ReleaseInv, JobOK, release, tls, SchemaOf
  <2>3. QED
    BY <2>1, <2>2
<1>6. RunsOK'
  BY <1>1, <1>3 DEF ReleaseInv, RunsOK, release, tls, Rollout
<1>7. RenewalOK'
  BY <1>1 DEF ReleaseInv, RenewalOK, release, tls, SaysInstalled
<1>8. QED
  BY <1>4, <1>5, <1>6, <1>7 DEF ReleaseInv

\* A job takes the lock, looks, builds and checks; nothing that runs is touched.
LEMMA JobPrepares ==
    ASSUME ReleaseInv, NEW c \in Commits,
           plfr_acquire_release_lock(c) \/ preflight(c) \/ build(c) \/ reverify(c) \/ refused(c) \/ startRollback(c)
    PROVE  ReleaseInv'
<1> USE ReleaseAssumption DEF At, Go, End, Commits, release, tls
<1>0. /\ ReleaseTypes /\ JobOK(c) /\ RunsOK /\ RenewalOK /\ c \in Int /\ c # 0 /\ c # None /\ Renewal = 0
      /\ job[c].prev \in 0..MaxCommit /\ marker \in 0..master /\ master \in Commits
  BY DEF ReleaseInv, ReleaseTypes, Renewal
<1> DEFINE p == job'[c].phase
<1>1. /\ job'[c].phase = p /\ p \in Phases /\ job' \in [Commits -> [phase : Phases, prev : 0..MaxCommit, fits : BOOLEAN]]
      /\ job'[c].fits = job[c].fits /\ \A d \in Commits \ {c} : job'[d] = job[d]
      /\ job'[c].prev = IF p = "build" THEN marker ELSE job[c].prev
  <2>1. CASE preflight(c)
    <3>1. job' = [job EXCEPT ![c].phase = "build", ![c].prev = marker] \/ job' = [job EXCEPT ![c].phase = "done"]
      BY <2>1 DEF preflight
    <3>2. marker \in 0..MaxCommit
      BY <1>0
    <3>3. CASE job' = [job EXCEPT ![c].phase = "build", ![c].prev = marker]
      <4>1. "build" \in Phases
        BY DEF Phases, Critical
      <4>2. QED
        BY <1>0, <3>2, <3>3, <4>1 DEF ReleaseTypes
    <3>4. CASE job' = [job EXCEPT ![c].phase = "done"]
      <4>1. "done" \in Phases
        BY DEF Phases
      <4>2. /\ job' \in [Commits -> [phase : Phases, prev : 0..MaxCommit, fits : BOOLEAN]]
            /\ job'[c].phase = "done" /\ job'[c].prev = job[c].prev /\ job'[c].fits = job[c].fits
            /\ \A d \in Commits \ {c} : job'[d] = job[d]
        BY <1>0, <3>4, <4>1, JobMoved
      <4>3. QED
        BY <4>1, <4>2
    <3>5. QED
      BY <3>1, <3>3, <3>4
  <2>2. CASE ~preflight(c)
    <3>1. PICK q \in {"preflight", "check", "apps", "done", "rollbackApps"} : job' = [job EXCEPT ![c].phase = q]
      BY <2>2 DEF plfr_acquire_release_lock, build, reverify, refused, startRollback
    <3>2. q \in Phases /\ q # "build"
      BY <3>1 DEF Phases, Critical, Rollout
    <3>3. QED
      BY <1>0, <3>1, <3>2, JobMoved
  <2>3. QED
    BY <2>1, <2>2
<1>2. /\ UNCHANGED <<master, marker, apps, edge, schema, issued, whole, pointer, served, renew, disturbed>>
      /\ told' \in {told, None}
  BY DEF plfr_acquire_release_lock, preflight, build, reverify, refused, startRollback
<1>3. \/ lock = None /\ lock' = c /\ job[c].phase = "lock" /\ p = "preflight" /\ told' = None
      \/ /\ lock = c /\ lock' = None /\ p = "done" /\ told' = told
         /\ job[c].phase \in Critical \ Rollout
      \/ /\ lock = c /\ lock' = c /\ told' = told
         /\ \/ job[c].phase = "preflight" /\ p = "build" /\ master = c
            \/ job[c].phase = "build" /\ p = "check"
            \/ job[c].phase = "reverify" /\ p = "apps"
            \/ job[c].phase = "failed" /\ p = "rollbackApps" /\ mayRollBack(c)
  <2> USE <1>0 DEF ReleaseTypes, JobOK
  <2>1. CASE plfr_acquire_release_lock(c)
    BY <2>1 DEF plfr_acquire_release_lock
  <2>2. CASE preflight(c)
    BY <2>2 DEF preflight, verify_github_release, Critical, Rollout
  <2>3. CASE build(c)
    BY <2>3 DEF build, Critical, Rollout
  <2>4. CASE reverify(c)
    BY <2>4 DEF reverify, Critical, Rollout
  <2>5. CASE refused(c)
    BY <2>5 DEF refused, Critical, Rollout
  <2>6. CASE startRollback(c)
    BY <2>6 DEF startRollback, Critical, Rollout
  <2>7. QED
    BY <2>1, <2>2, <2>3, <2>4, <2>5, <2>6
<1> HIDE DEF p
<1>4. ReleaseTypes'
  BY <1>0, <1>1, <1>2, <1>3 DEF ReleaseTypes
<1>5. JobOK(c)'
  <2>1. mayRollBack(c) => job[c].prev # 0 /\ job[c].fits = TRUE
    <3>1. job[c].fits \in BOOLEAN
      BY <1>0 DEF ReleaseTypes
    <3>2. QED
      BY <3>1 DEF mayRollBack
  <2>2. QED
    BY <1>0, <1>1, <1>2, <1>3, <2>1, SMTT(30) DEF JobOK, Early, Prepared, Critical, Rollout, SchemaOf
<1>6. RunsOK'
  <2>1. ASSUME NEW d \in Commits, \A e \in Commits : job'[e].phase \notin Rollout \ {"apps"}
        PROVE  job[d].phase \notin Rollout \ {"apps"}
    <3>1. CASE d = c
      BY <1>1, <1>3, <2>1, <3>1 DEF Critical, Rollout
    <3>2. CASE d # c
      BY <1>1, <2>1, <3>2
    <3>3. QED
      BY <3>1, <3>2
  <2>2. QED
    BY <1>0, <1>2, <2>1 DEF RunsOK
<1>7. RenewalOK'
  <2>1. lock # Renewal /\ lock' # Renewal /\ renew.phase = "idle"
    <3>1. c # Renewal /\ None # Renewal
      BY DEF Renewal
    <3>2. lock # Renewal /\ lock' # Renewal
      BY <1>3, <3>1
    <3>3. QED
      BY <1>0, <3>2 DEF RenewalOK
  <2>2. SaysInstalled' => SaysInstalled
    BY <1>2, ToldAssumption DEF SaysInstalled
  <2>3. lock' # None => told' = None
    BY <1>0, <1>3 DEF RenewalOK
  <2>4. QED
    BY <1>0, <1>2, <2>1, <2>2, <2>3 DEF RenewalOK
<1>8. lock \in {c, None} /\ lock' \in {c, None}
  BY <1>3
<1>9. QED
  BY <1>0, <1>1, <1>2, <1>4, <1>5, <1>6, <1>7, <1>8, JobAlone

\* What a step of a rollout or of a rollback has to see to.
LEMMA RolloutStep ==
    ASSUME ReleaseInv, NEW c \in Commits, job[c].phase \in Rollout,
           NEW q \in {"edge", "mark", "failed", "rollbackEdge", "done"}, job' = [job EXCEPT ![c].phase = q],
           lock' = IF q = "done" THEN None ELSE c,
           UNCHANGED <<master, schema, issued, whole, pointer, renew, told>>,
           apps' \in {apps, 0, c, marker}, edge' \in {edge, 0, c, marker}, marker' \in {marker, c},
           served' \in {served, 0, pointer}, edge' = 0 <=> served' = 0, disturbed' \subseteq {"rollout", "pointer"},
           disturbed' = {} /\ edge' # 0 /\ pointer = issued => served' = pointer,
           q = "done" /\ "rollout" \notin disturbed' => apps' \in {0, marker'} /\ edge' \in {0, marker'},
           marker' # marker => q = "done",
           q \in {"edge", "mark"} => apps' = c,
           q = "edge" => edge' # c /\ marker' # c,
           q = "mark" => edge' = c /\ served' = pointer,
           q = "rollbackEdge" => job[c].prev # 0 /\ job[c].fits = TRUE /\ apps' = job[c].prev
    PROVE  ReleaseInv'
<1>0. /\ ReleaseTypes /\ JobOK(c) /\ RunsOK /\ RenewalOK /\ c \in 1..MaxCommit /\ MaxCommit \in Nat
      /\ c # None /\ None # Renewal /\ c # Renewal /\ Renewal = 0
  BY ReleaseAssumption DEF ReleaseInv, Commits, Renewal
<1>1. /\ lock = c /\ renew.phase = "idle" /\ told = None /\ c <= master /\ pointer # 0 /\ job[c].prev = marker
      /\ marker <= c
  <2>1. lock = c
    BY <1>0 DEF JobOK, Critical
  <2>2. renew.phase = "idle" /\ told = None
    BY <1>0, <2>1 DEF RenewalOK
  <2>3. ~(c > master)
    BY <1>0 DEF JobOK, Rollout
  <2>4. pointer # 0 /\ job[c].prev = marker /\ marker <= c
    BY <1>0 DEF JobOK, Critical, Rollout
  <2>5. QED
    BY <1>0, <2>1, <2>2, <2>3, <2>4 DEF ReleaseTypes, Commits
<1>2. /\ job' \in [Commits -> [phase : Phases, prev : 0..MaxCommit, fits : BOOLEAN]]
      /\ job'[c].phase = q /\ job'[c].prev = job[c].prev /\ job'[c].fits = job[c].fits
      /\ \A d \in Commits \ {c} : job'[d] = job[d]
  <2>1. q \in Phases
    BY DEF Phases, Critical, Rollout
  <2>2. QED
    BY <1>0, <2>1, JobMoved
<1>3. lock' \in {c, None} /\ lock' # Renewal
  BY <1>0
<1>4. ReleaseTypes'
  <2>1. marker' \in 0..master /\ apps' \in 0..master /\ edge' \in 0..master
    BY <1>0, <1>1 DEF ReleaseTypes, Commits
  <2>2. served' \in 0..issued
    BY <1>0 DEF ReleaseTypes
  <2>3. QED
    BY <1>0, <1>2, <1>3, <2>1, <2>2 DEF ReleaseTypes
<1>5. JobOK(c)'
  <2>1. SchemaOf(c)' = schema' /\ (job'[c].fits = TRUE => SchemaOf(job[c].prev) = schema')
    BY <1>0, <1>2 DEF JobOK, SchemaOf
  <2>2. q \in Critical <=> lock' = c
    BY <1>0 DEF Critical, Rollout
  <2>3. SchemaOf(job[c].prev)' = SchemaOf(job[c].prev)
    BY <1>2 DEF SchemaOf
  <2>4. q # "done" => marker' = marker
    OBVIOUS
  <2>5. QED
    BY <1>0, <1>1, <1>2, <2>1, <2>2, <2>3, <2>4 DEF JobOK, Early, Prepared, Critical, Rollout
<1>6. RunsOK'
  <2>1. CASE q = "done"
    BY <2>1 DEF RunsOK
  <2>2. CASE q # "done"
    <3>1. job'[c].phase \in Rollout \ {"apps"}
      BY <1>2, <2>2 DEF Rollout
    <3>2. QED
      BY <3>1 DEF RunsOK
  <2>3. QED
    BY <2>1, <2>2
<1>7. RenewalOK'
  <2>1. ~SaysInstalled' /\ (lock' # None => told' = None)
    BY <1>1, ToldAssumption DEF SaysInstalled
  <2>2. renew'.phase = "idle" /\ pointer' # 0 /\ pointer' \in whole'
    BY <1>0, <1>1 DEF RenewalOK
  <2>3. QED
    BY <1>3, <2>1, <2>2 DEF RenewalOK
<1>8. QED
  BY <1>1, <1>2, <1>3, <1>4, <1>5, <1>6, <1>7, JobAlone

\* The rollout of the applications and of the edge, the marker, and the way back.
LEMMA JobRollsOut ==
    ASSUME ReleaseInv, NEW c \in Commits,
           rolloutApps(c) \/ rolloutEdge(c) \/ publishMarker(c) \/ stopServices(c) \/ rollbackApps(c) \/ rollbackEdge(c)
    PROVE  ReleaseInv'
<1> USE DEF At, Go, End
<1>0. /\ ReleaseTypes /\ JobOK(c) /\ RunsOK /\ RenewalOK /\ c # 0 /\ job[c].phase \in Rollout
      /\ disturbed \subseteq {"rollout", "pointer"} /\ (edge = 0 <=> served = 0)
  BY DEF ReleaseInv, Commits, ReleaseTypes, Rollout, rolloutApps, rolloutEdge, publishMarker, stopServices, rollbackApps,
         rollbackEdge
<1>1. /\ lock = c /\ renew.phase = "idle" /\ pointer # 0 /\ job[c].prev = marker
      /\ (disturbed = {} /\ edge # 0 /\ pointer = issued => served = pointer)
  <2>1. lock = c /\ c # Renewal
    BY <1>0 DEF JobOK, Critical, Renewal
  <2>2. renew.phase = "idle"
    BY <1>0, <2>1 DEF RenewalOK
  <2>3. pointer # 0 /\ job[c].prev = marker
    BY <1>0 DEF JobOK, Critical, Rollout
  <2>4. QED
    BY <1>0, <2>1, <2>2, <2>3 DEF RenewalOK
<1>2. CASE rolloutApps(c)
  <2>1. PICK q \in {"edge", "failed"} :
           /\ job' = [job EXCEPT ![c].phase = q] /\ lock' = c /\ apps' \in {apps, 0, c} /\ (q = "edge" => apps' = c)
           /\ UNCHANGED <<edge, served, master, marker, built, schema, issued, whole, pointer, renew, told, disturbed>>
    BY <1>1, <1>2 DEF rolloutApps, UpApps, UpAppsFails
  <2>2. edge # c /\ marker # c
    BY <1>0, <1>2 DEF rolloutApps, JobOK, Prepared
  <2>3. QED
    BY <1>0, <1>1, <2>1, <2>2, RolloutStep
<1>3. CASE rolloutEdge(c)
  <2>1. apps = c /\ edge # c
    BY <1>0, <1>3 DEF rolloutEdge, JobOK
  <2>2. PICK q \in {"mark", "failed"} :
           /\ job' = [job EXCEPT ![c].phase = q] /\ lock' = c /\ apps' = apps
           /\ \/ edge' = c /\ served' = pointer
              \/ q = "failed" /\ edge' = edge /\ served' = served
              \/ q = "failed" /\ edge' = 0 /\ served' = 0
           /\ UNCHANGED <<master, marker, built, schema, issued, whole, pointer, renew, told, disturbed>>
    BY <1>1, <1>3, <2>1 DEF rolloutEdge, UpEdge, UpEdgeFails
  <2>3. QED
    BY <1>0, <1>1, <2>1, <2>2, RolloutStep
<1>4. CASE publishMarker(c)
  <2>1. apps = c /\ edge = c /\ served = pointer
    BY <1>0, <1>4 DEF publishMarker, JobOK
  <2>2. PICK q \in {"done", "failed"} :
           /\ job' = [job EXCEPT ![c].phase = q] /\ lock' = (IF q = "done" THEN None ELSE c)
           /\ \/ q = "done" /\ marker' = c /\ disturbed' = {}
              \/ q = "failed" /\ marker' = marker /\ disturbed' = disturbed
           /\ UNCHANGED <<master, built, apps, edge, schema, issued, whole, pointer, served, renew, told>>
    BY <1>1, <1>4 DEF publishMarker, tls
  <2>3. QED
    BY <1>0, <1>1, <2>1, <2>2, RolloutStep
<1>5. CASE stopServices(c)
  <2>1. /\ job' = [job EXCEPT ![c].phase = "done"] /\ lock' = None
        /\ \/ apps' = 0 /\ edge' = 0 /\ served' = 0 /\ disturbed' = disturbed
           \/ disturbed' = disturbed \cup {"rollout"} /\ apps' = apps /\ edge' = edge /\ served' = served
        /\ UNCHANGED <<master, marker, built, schema, issued, whole, pointer, renew, told>>
    BY <1>5 DEF stopServices
  <2>2. QED
    BY <1>0, <1>1, <2>1, RolloutStep
<1>6. CASE rollbackApps(c)
  <2>1. job[c].prev # 0 /\ job[c].fits = TRUE
    BY <1>0, <1>6 DEF rollbackApps, JobOK
  <2>2. PICK q \in {"rollbackEdge", "done"} :
           /\ job' = [job EXCEPT ![c].phase = q] /\ lock' = (IF q = "done" THEN None ELSE c)
           /\ \/ q = "rollbackEdge" /\ apps' = marker /\ disturbed' = disturbed
              \/ q = "done" /\ apps' \in {apps, 0, marker} /\ disturbed' = disturbed \cup {"rollout"}
           /\ UNCHANGED <<edge, served, master, marker, built, schema, issued, whole, pointer, renew, told>>
    BY <1>1, <1>6 DEF rollbackApps, UpApps, UpAppsFails
  <2>3. QED
    BY <1>0, <1>1, <2>1, <2>2, RolloutStep
<1>7. CASE rollbackEdge(c)
  <2>1. marker # 0 /\ apps = marker
    BY <1>0, <1>1, <1>7 DEF rollbackEdge, JobOK
  <2>2. /\ job' = [job EXCEPT ![c].phase = "done"] /\ lock' = None /\ apps' = apps
        /\ \/ edge' = marker /\ served' = (IF edge = marker THEN served ELSE pointer) /\ disturbed' = disturbed
           \/ /\ disturbed' = disturbed \cup {"rollout"}
              /\ \/ edge' = edge /\ served' = served
                 \/ edge' = 0 /\ served' = 0
                 \/ edge' = marker /\ served' = (IF edge = marker THEN served ELSE pointer)
        /\ UNCHANGED <<master, marker, built, schema, issued, whole, pointer, renew, told>>
    BY <1>1, <1>7 DEF rollbackEdge, UpEdge, UpEdgeFails
  <2>3. /\ edge' = 0 <=> served' = 0
        /\ disturbed' = {} /\ edge' # 0 /\ pointer = issued => served' = pointer
        /\ served' \in {served, 0, pointer} /\ edge' \in {edge, 0, marker}
    BY <1>0, <1>1, <2>1, <2>2
  <2>4. QED
    BY <1>0, <1>1, <2>1, <2>2, <2>3, RolloutStep
<1>8. QED
  BY <1>2, <1>3, <1>4, <1>5, <1>6, <1>7

\* The releases are checked against the schema, and the layout of the pairs is made.
LEMMA JobChecks ==
    ASSUME ReleaseInv, NEW c \in Commits, migrationCheck(c) \/ bootstrapTls(c)
    PROVE  ReleaseInv'
<1> USE DEF At, Go, End
<1>0. /\ ReleaseTypes /\ JobOK(c) /\ RunsOK /\ RenewalOK /\ c # None /\ None # Renewal /\ c # Renewal
      /\ job[c] \in [phase : Phases, prev : 0..MaxCommit, fits : BOOLEAN]
  BY ReleaseAssumption DEF ReleaseInv, Commits, Renewal, ReleaseTypes
<1>1. job[c].phase \in {"check", "bootstrap"} /\ lock = c
  BY <1>0 DEF migrationCheck, bootstrapTls, JobOK, Critical
<1>2. renew.phase = "idle" /\ told = None
  BY <1>0, <1>1 DEF RenewalOK
<1> DEFINE q == job'[c].phase
<1>3. /\ job' \in [Commits -> [phase : Phases, prev : 0..MaxCommit, fits : BOOLEAN]]
      /\ job'[c].phase = q /\ q \in {"bootstrap", "reverify", "done"} /\ job'[c].prev = job[c].prev
      /\ \A d \in Commits \ {c} : job'[d] = job[d]
      /\ lock' = (IF q = "done" THEN None ELSE c)
      /\ UNCHANGED <<master, marker, built, apps, edge, schema, issued, served, renew, told, disturbed>>
  <2>1. CASE bootstrapTls(c)
    <3>1. job' = [job EXCEPT ![c].phase = "reverify"] /\ lock' = c /\ "reverify" \in Phases
      BY <1>1, <2>1 DEF bootstrapTls, Phases, Critical
    <3>2. UNCHANGED <<master, marker, built, apps, edge, schema, issued, served, renew, told, disturbed>>
      BY <2>1 DEF bootstrapTls, release
    <3>3. QED
      BY <1>0, <3>1, <3>2, JobMoved
  <2>2. CASE migrationCheck(c)
    <3>1. UNCHANGED <<master, marker, built, apps, edge, schema, issued, served, renew, told, disturbed>>
      BY <2>2 DEF migrationCheck, release, tls
    <3>2. CASE SchemaOf(c) # schema
      <4>1. job' = [job EXCEPT ![c].phase = "done"] /\ lock' = None /\ "done" \in Phases
        BY <2>2, <3>2 DEF migrationCheck, Phases
      <4>2. QED
        BY <1>0, <3>1, <4>1, JobMoved
    <3>3. CASE SchemaOf(c) = schema
      <4>1. PICK b \in BOOLEAN : job' = [job EXCEPT ![c].phase = "bootstrap", ![c].fits = b]
        BY <2>2, <3>3 DEF migrationCheck
      <4>2. lock' = c /\ "bootstrap" \in Phases
        BY <1>1, <2>2, <3>3 DEF migrationCheck, Phases, Critical
      <4>3. QED
        BY <1>0, <3>1, <4>1, <4>2 DEF ReleaseTypes
    <3>4. QED
      BY <3>2, <3>3
  <2>3. QED
    BY <2>1, <2>2
<1>4. /\ pointer' \in {pointer, 1} /\ (pointer' # pointer => pointer = 0) /\ whole \subseteq whole'
      /\ (pointer' # 0 => pointer' \in whole') /\ (q = "reverify" => pointer' # 0)
  <2>1. CASE bootstrapTls(c)
    <3>1. \/ pointer = 0 /\ pointer' = 1 /\ whole' = whole \cup {1}
          \/ pointer # 0 /\ pointer' = pointer /\ whole' = whole
      BY <2>1 DEF bootstrapTls
    <3>2. pointer # 0 => pointer \in whole
      BY <1>0 DEF RenewalOK
    <3>3. QED
      BY <3>1, <3>2
  <2>2. CASE migrationCheck(c)
    <3>1. pointer' = pointer /\ whole' = whole
      BY <2>2 DEF migrationCheck, tls
    <3>2. q # "reverify"
      <4>1. CASE SchemaOf(c) # schema
        BY <1>0, <2>2, <4>1 DEF migrationCheck, ReleaseTypes
      <4>2. CASE SchemaOf(c) = schema
        BY <1>0, <2>2, <4>2 DEF migrationCheck, ReleaseTypes
      <4>3. QED
        BY <4>1, <4>2
    <3>3. QED
      BY <1>0, <3>1, <3>2 DEF RenewalOK
  <2>3. QED
    BY <2>1, <2>2
<1>5. q # "done" => SchemaOf(c) = schema /\ (job'[c].fits = TRUE => SchemaOf(job[c].prev) = schema)
  <2>1. CASE bootstrapTls(c)
    <3>1. job'[c].fits = job[c].fits /\ job[c].phase = "bootstrap"
      BY <1>0, <2>1 DEF bootstrapTls, ReleaseTypes
    <3>2. QED
      BY <1>0, <3>1 DEF JobOK
  <2>2. CASE migrationCheck(c)
    <3>1. CASE SchemaOf(c) # schema
      BY <1>0, <2>2, <3>1 DEF migrationCheck, ReleaseTypes
    <3>2. CASE SchemaOf(c) = schema
      <4>1. job'[c].fits = (job[c].prev # 0 /\ SchemaOf(job[c].prev) = schema)
        BY <1>0, <2>2, <3>2 DEF migrationCheck, ReleaseTypes
      <4>2. QED
        BY <3>2, <4>1
    <3>3. QED
      BY <3>1, <3>2
  <2>3. QED
    BY <2>1, <2>2
<1> HIDE DEF q
<1>6. ReleaseTypes'
  <2>1. pointer' \in 0..issued
    BY <1>0, <1>4 DEF ReleaseTypes
  <2>2. lock' \in Commits \cup {None, Renewal}
    BY <1>3
  <2>3. QED
    BY <1>0, <1>3, <2>1, <2>2 DEF ReleaseTypes
<1>7. JobOK(c)'
  <2>1. SchemaOf(c)' = SchemaOf(c) /\ SchemaOf(job[c].prev)' = SchemaOf(job[c].prev)
    BY <1>3 DEF SchemaOf
  <2>2. q \in Critical <=> lock' = c
    BY <1>0, <1>3 DEF Critical, Rollout
  <2>3. (job[c].phase \in Critical \ {"preflight"}) /\ job[c].phase \in Prepared /\ job[c].phase # "none"
    BY <1>1 DEF Critical, Prepared
  <2>4. QED
    BY <1>0, <1>3, <1>4, <1>5, <2>1, <2>2, <2>3 DEF JobOK, Early, Prepared, Critical, Rollout
<1>8. RunsOK'
  <2>1. \A d \in Commits : job'[d].phase \notin Rollout \ {"apps"} => job[d].phase \notin Rollout \ {"apps"}
    BY <1>1, <1>3 DEF Rollout
  <2>2. QED
    BY <1>0, <1>3, <2>1 DEF RunsOK
<1>9. RenewalOK'
  <2>1. ~SaysInstalled' /\ (lock' # None => told' = None)
    BY <1>2, <1>3, ToldAssumption DEF SaysInstalled
  <2>a. lock' # Renewal
    BY <1>0, <1>3
  <2>2. pointer' # pointer => edge' = 0
    BY <1>0, <1>3, <1>4 DEF RenewalOK
  <2>3. QED
    BY <1>0, <1>2, <1>3, <1>4, <2>1, <2>a, <2>2 DEF RenewalOK
<1>10. lock' \in {c, None}
  BY <1>3
<1>11. QED
  BY <1>1, <1>3, <1>6, <1>7, <1>8, <1>9, <1>10, JobAlone

\* A push, and the operator's migration between jobs.
LEMMA BranchMoves ==
    ASSUME ReleaseInv, push \/ migrate
    PROVE  ReleaseInv'
<1>0. ReleaseTypes /\ (\A c \in Commits : JobOK(c)) /\ RunsOK /\ RenewalOK /\ MaxCommit \in Nat \ {0} /\ None \notin Int
  BY ReleaseAssumption DEF ReleaseInv
<1>1. CASE push
  <2>1. /\ master + 1 \in Commits /\ master' = master + 1 /\ job' = [job EXCEPT ![master + 1].phase = "entry"]
        /\ UNCHANGED <<lock, marker, built, apps, edge, schema, issued, whole, pointer, served, renew, told, disturbed>>
    BY <1>0, <1>1 DEF push, ReleaseTypes, Commits, release, tls
  <2>2. /\ job' \in [Commits -> [phase : Phases, prev : 0..MaxCommit, fits : BOOLEAN]]
        /\ job'[master + 1].phase = "entry" /\ \A d \in Commits \ {master + 1} : job'[d] = job[d]
    <3>1. "entry" \in Phases
      BY DEF Phases, Early
    <3>2. QED
      BY <1>0, <2>1, <3>1, JobMoved
  <2>3. job[master + 1].phase = "none"
    BY <1>0, <2>1 DEF JobOK, ReleaseTypes, Commits
  <2>4. ReleaseTypes'
    BY <1>0, <2>1, <2>2, SMTT(30) DEF ReleaseTypes, Commits
  <2>5. ASSUME NEW d \in Commits PROVE JobOK(d)'
    <3>1. CASE d = master + 1
      <4>1. lock # d /\ edge # d /\ marker # d
        BY <1>0, <2>3, <3>1 DEF JobOK, Early, Critical, Rollout
      <4>2. job'[d].phase = "entry" /\ lock' # d /\ edge' # d /\ marker' # d /\ ~(d > master')
        BY <1>0, <2>1, <2>2, <3>1, <4>1 DEF ReleaseTypes, Commits
      <4>3. QED
        BY <4>2 DEF JobOK, Critical, Rollout
    <3>2. CASE d # master + 1
      BY <1>0, <2>1, <2>2, <3>2 DEF JobOK, ReleaseTypes, Commits, SchemaOf
    <3>3. QED
      BY <3>1, <3>2
  <2>6. RunsOK'
    BY <1>0, <2>1, <2>2, <2>3 DEF RunsOK, Rollout
  <2>7. RenewalOK'
    BY <1>0, <2>1 DEF RenewalOK, SaysInstalled
  <2>8. QED
    BY <2>4, <2>5, <2>6, <2>7 DEF ReleaseInv
<1>2. CASE migrate
  <2>1. /\ lock = None /\ schema' = 2
        /\ UNCHANGED <<master, lock, job, marker, built, apps, edge, issued, whole, pointer, served, renew, told, disturbed>>
    BY <1>2 DEF migrate, release, tls
  <2>2. ASSUME NEW d \in Commits PROVE JobOK(d)'
    BY <1>0, <2>1 DEF JobOK, Commits, Critical, Rollout
  <2>3. QED
    BY <1>0, <2>1, <2>2 DEF ReleaseInv, ReleaseTypes, RunsOK, RenewalOK, SaysInstalled
<1>3. QED
  BY <1>1, <1>2

\* A step that touches no job, and no release but by a restart of the recorded edge.
LEMMA JobsKept ==
    ASSUME ReleaseInv, \A c \in Commits : lock # c /\ lock' # c, UNCHANGED <<master, job, marker>>,
           edge' \in {edge, 0, marker}, NEW d \in Commits
    PROVE  JobOK(d)'
<1>1. JobOK(d) /\ d # 0 /\ job'[d] = job[d]
  BY DEF ReleaseInv, Commits
<1>2. job[d].phase \in Early => edge' # d /\ marker' # d
  BY <1>1 DEF JobOK
<1>3. QED
  BY <1>1, <1>2, JobKept

\* What a step of the renewal has to see to.
LEMMA RenewalStep ==
    ASSUME ReleaseInv, NEW ph \in Renewing, NEW o \in Nat, renew' = [phase |-> ph, old |-> o],
           lock \in {None, Renewal}, lock' = IF ph = "idle" THEN None ELSE Renewal,
           UNCHANGED <<master, job, marker, apps, schema>>,
           edge' \in {edge, 0, marker}, edge' = 0 <=> served' = 0, served' \in {served, 0, pointer},
           issued' \in {issued, issued + 1}, pointer' \in 0..issued',
           disturbed' \in {disturbed, disturbed \cup {"pointer"}},
           pointer' # 0 => pointer' \in whole', pointer' = 0 => edge' = 0,
           ph \in {"publish", "point", "restart", "restore"} => o \in whole' /\ o # 0 /\ o < issued' /\ pointer' # 0,
           ph \in {"publish", "point"} => pointer' = o,
           ph \in {"restart", "restore"} => pointer' = issued',
           ph \in {"restart", "restore", "again"} => marker # 0 /\ pointer' # 0,
           ph = "again" => pointer' # issued',
           ph # "idle" => told' = None,
           SaysInstalled' => pointer' = issued',
           disturbed' = {} /\ edge' # 0 /\ pointer' = issued' /\ ph \notin {"restart", "restore"} => served' = pointer'
    PROVE  ReleaseInv'
<1>0. /\ ReleaseTypes /\ RunsOK /\ RenewalOK /\ None # Renewal /\ \A c \in Commits : c # None /\ c # Renewal
  BY ReleaseAssumption DEF ReleaseInv, Commits, Renewal
<1>1. renew'.phase = ph /\ renew'.old = o /\ renew' \in [phase : Renewing, old : Nat]
  OBVIOUS
<1>2. lock' \in {None, Renewal} /\ (lock' = Renewal <=> ph # "idle") /\ (lock' # None <=> ph # "idle")
  BY <1>0
<1>3. ReleaseTypes'
  <2>1. edge' \in 0..master /\ served' \in 0..issued' /\ issued' \in Nat \ {0}
    BY <1>0 DEF ReleaseTypes, Commits
  <2>2. disturbed' \subseteq {"rollout", "pointer"}
    BY <1>0 DEF ReleaseTypes
  <2>3. QED
    BY <1>0, <1>1, <1>2, <2>1, <2>2 DEF ReleaseTypes
<1>4. \A d \in Commits : JobOK(d)'
  <2>1. \A c \in Commits : lock # c /\ lock' # c
    BY <1>0, <1>2
  <2>2. QED
    BY <2>1, JobsKept
<1>5. RunsOK'
  <2>1. "rollout" \notin disturbed' => "rollout" \notin disturbed
    OBVIOUS
  <2>2. QED
    BY <1>0, <2>1 DEF RunsOK
<1>6. RenewalOK'
  BY <1>1, <1>2 DEF RenewalOK
<1>7. QED
  BY <1>3, <1>4, <1>5, <1>6 DEF ReleaseInv

\* What is known where the renewal stands.
LEMMA RenewalFacts ==
    ASSUME ReleaseInv, renew.phase # "idle"
    PROVE  /\ lock = Renewal /\ told = None /\ ~SaysInstalled /\ renew \in [phase : Renewing, old : Nat]
           /\ pointer \in 0..issued /\ served \in 0..issued /\ issued \in Nat \ {0} /\ (edge = 0 <=> served = 0)
           /\ (pointer # 0 => pointer \in whole) /\ (pointer = 0 => edge = 0)
           /\ (edge # 0 /\ disturbed = {} => marker # 0)
<1>1. lock = Renewal /\ None # Renewal
  BY ReleaseAssumption DEF ReleaseInv, RenewalOK, Renewal
<1>2. told = None
  BY <1>1 DEF ReleaseInv, RenewalOK
<1>3. ~SaysInstalled
  BY <1>2, ToldAssumption DEF SaysInstalled
<1>4. edge # 0 /\ disturbed = {} => marker # 0
  <2>1. \A c \in Commits : lock # c
    BY <1>1 DEF Commits, Renewal
  <2>2. \A c \in Commits : job[c].phase \notin Rollout \ {"apps"}
    BY <2>1 DEF ReleaseInv, JobOK, Critical
  <2>3. QED
    BY <2>2 DEF ReleaseInv, RunsOK
<1>5. QED
  BY <1>1, <1>2, <1>3, <1>4 DEF ReleaseInv, ReleaseTypes, RenewalOK

\* The renewal, up to the move of the pointer.
LEMMA RenewalPrepares ==
    ASSUME ReleaseInv, startRenewal \/ lego \/ install \/ publish \/ renewalFails
    PROVE  ReleaseInv'
<1> USE DEF Step, Finish
<1>1. CASE startRenewal
  <2>1. /\ renew.phase = "idle" /\ lock = None /\ lock' = Renewal /\ renew' = [renew EXCEPT !.phase = "lego"]
        /\ UNCHANGED <<master, job, marker, apps, edge, schema, issued, whole, pointer, served, disturbed>>
    BY <1>1 DEF startRenewal, release
  <2>2. told' = None /\ ~SaysInstalled'
    BY <1>1, ToldAssumption DEF startRenewal, SaysInstalled
  <2>3. renew.old \in Nat /\ renew' = [phase |-> "lego", old |-> renew.old] /\ "lego" \in Renewing
    BY <2>1 DEF ReleaseInv, ReleaseTypes, Renewing
  <2>4. /\ pointer \in 0..issued /\ (edge = 0 <=> served = 0)
    BY DEF ReleaseInv, ReleaseTypes
  <2>5. /\ pointer # 0 => pointer \in whole
        /\ pointer = 0 => edge = 0
        /\ disturbed = {} /\ edge # 0 /\ pointer = issued => served = pointer
    BY <2>1 DEF ReleaseInv, RenewalOK
  <2>6. QED
    BY <2>1, <2>2, <2>3, <2>4, <2>5, RenewalStep
<1>2. CASE lego
  <2>1. /\ renew.phase = "lego" /\ renew' = [renew EXCEPT !.phase = "install"] /\ lock' = lock /\ issued' \in {issued, issued + 1}
        /\ UNCHANGED <<master, job, marker, apps, edge, schema, whole, pointer, served, disturbed>>
    BY <1>2 DEF lego, release
  <2>2. told' = told /\ SaysInstalled' = SaysInstalled
    BY <1>2 DEF lego, SaysInstalled
  <2>3. /\ lock = Renewal /\ told = None /\ ~SaysInstalled /\ renew \in [phase : Renewing, old : Nat]
        /\ pointer \in 0..issued /\ served \in 0..issued /\ issued \in Nat \ {0} /\ (edge = 0 <=> served = 0)
        /\ (pointer # 0 => pointer \in whole) /\ (pointer = 0 => edge = 0)
    BY <2>1, RenewalFacts
  <2>4. renew.old \in Nat /\ renew' = [phase |-> "install", old |-> renew.old] /\ "install" \in Renewing
    BY <2>1, <2>3 DEF Renewing
  <2>5. disturbed' = {} /\ edge' # 0 /\ pointer' = issued' => served' = pointer'
    <3>1. disturbed = {} /\ edge # 0 /\ pointer = issued => served = pointer
      BY <2>1 DEF ReleaseInv, RenewalOK
    <3>2. pointer' = issued' => pointer = issued
      BY <2>1, <2>3
    <3>3. QED
      BY <2>1, <3>1, <3>2
  <2>6. pointer' \in 0..issued'
    BY <2>1, <2>3
  <2>7. QED
    BY <2>1, <2>2, <2>3, <2>4, <2>5, <2>6, RenewalStep
<1>3. CASE install
  <2>1. /\ renew.phase = "install" /\ pointer' = (IF pointer = 0 THEN 1 ELSE pointer) /\ whole' = whole \cup {pointer'}
        /\ UNCHANGED <<master, job, marker, apps, edge, schema, issued, served, disturbed>>
    BY <1>3 DEF install, release
  <2>2. /\ lock = Renewal /\ told = None /\ ~SaysInstalled /\ renew \in [phase : Renewing, old : Nat]
        /\ pointer \in 0..issued /\ issued \in Nat \ {0} /\ (edge = 0 <=> served = 0) /\ (pointer = 0 => edge = 0)
    BY <2>1, RenewalFacts
  <2>3. pointer' \in 1..issued /\ pointer' \in whole' /\ (pointer' # pointer => edge = 0)
    BY <2>1, <2>2
  <2>4. disturbed' = {} /\ edge' # 0 /\ pointer' = issued' => served' = pointer'
    BY <2>1, <2>3 DEF ReleaseInv, RenewalOK
  <2>5. \/ renew' = [renew EXCEPT !.phase = "idle"] /\ lock' = None
        \/ renew' = [phase |-> "publish", old |-> pointer'] /\ lock' = lock /\ pointer' # issued
    BY <1>3 DEF install
  <2>6. CASE renew' = [renew EXCEPT !.phase = "idle"] /\ lock' = None
    <3>1. renew.old \in Nat /\ renew' = [phase |-> "idle", old |-> renew.old] /\ "idle" \in Renewing
      BY <2>2, <2>6 DEF Renewing
    <3>2. SaysInstalled' => pointer' = issued'
      <4>1. renew' # [phase |-> "publish", old |-> pointer']
        BY <3>1
      <4>2. told' = told \/ pointer' = issued
        BY <1>3, <4>1 DEF install
      <4>3. QED
        BY <2>1, <2>2, <4>2 DEF SaysInstalled
    <3>3. QED
      BY <2>1, <2>2, <2>3, <2>4, <2>6, <3>1, <3>2, RenewalStep
  <2>7. CASE renew' = [phase |-> "publish", old |-> pointer'] /\ lock' = lock /\ pointer' # issued
    <3>1. told' = told /\ SaysInstalled' = SaysInstalled
      <4>1. pointer' # issued /\ renew' # [renew EXCEPT !.phase = "idle"]
        BY <2>2, <2>7
      <4>2. told' = told
        BY <1>3, <4>1 DEF install
      <4>3. QED
        BY <4>2 DEF SaysInstalled
    <3>2. pointer' \in Nat /\ "publish" \in Renewing /\ pointer' # 0 /\ pointer' < issued
      BY <2>2, <2>3, <2>7 DEF Renewing
    <3>3. QED
      BY <2>1, <2>2, <2>3, <2>4, <2>7, <3>1, <3>2, RenewalStep
  <2>8. QED
    BY <2>5, <2>6, <2>7
<1>4. CASE publish
  <2>1. /\ renew.phase = "publish" /\ renew' = [renew EXCEPT !.phase = "point"] /\ whole' = whole \cup {issued} /\ lock' = lock
        /\ UNCHANGED <<master, job, marker, apps, edge, schema, issued, pointer, served, disturbed>>
    BY <1>4 DEF publish, release
  <2>2. told' = told /\ SaysInstalled' = SaysInstalled
    BY <1>4 DEF publish, SaysInstalled
  <2>3. /\ lock = Renewal /\ told = None /\ ~SaysInstalled /\ renew \in [phase : Renewing, old : Nat]
        /\ pointer \in 0..issued /\ issued \in Nat \ {0} /\ (edge = 0 <=> served = 0)
        /\ (pointer # 0 => pointer \in whole) /\ (pointer = 0 => edge = 0)
    BY <2>1, RenewalFacts
  <2>4. renew.old \in whole /\ renew.old # 0 /\ renew.old < issued /\ pointer = renew.old
    BY <2>1 DEF ReleaseInv, RenewalOK
  <2>5. renew.old \in Nat /\ renew' = [phase |-> "point", old |-> renew.old] /\ "point" \in Renewing
    BY <2>1, <2>3 DEF Renewing
  <2>6. QED
    BY <2>1, <2>2, <2>3, <2>4, <2>5, RenewalStep
<1>5. CASE renewalFails
  <2>1. /\ renew.phase \in {"lego", "install", "publish", "point"} /\ renew' = [renew EXCEPT !.phase = "idle"] /\ lock' = None
        /\ UNCHANGED <<master, job, marker, apps, edge, schema, issued, whole, pointer, served, disturbed>>
    BY <1>5 DEF renewalFails, release
  <2>2. SaysInstalled' = SaysInstalled
    BY <1>5 DEF renewalFails, SaysInstalled
  <2>3. /\ lock = Renewal /\ ~SaysInstalled /\ renew \in [phase : Renewing, old : Nat]
        /\ pointer \in 0..issued /\ issued \in Nat \ {0} /\ (edge = 0 <=> served = 0)
        /\ (pointer # 0 => pointer \in whole) /\ (pointer = 0 => edge = 0)
    BY <2>1, RenewalFacts
  <2>4. disturbed = {} /\ edge # 0 /\ pointer = issued => served = pointer
    BY <2>1 DEF ReleaseInv, RenewalOK
  <2>5. renew.old \in Nat /\ renew' = [phase |-> "idle", old |-> renew.old] /\ "idle" \in Renewing
    BY <2>1, <2>3 DEF Renewing
  <2>6. QED
    BY <2>1, <2>2, <2>3, <2>4, <2>5, RenewalStep
<1>6. QED
  BY <1>1, <1>2, <1>3, <1>4, <1>5

\* The pointer moves, the edge is restarted, and on a failure both go back.
LEMMA RenewalMoves ==
    ASSUME ReleaseInv, point \/ restart \/ restore \/ again
    PROVE  ReleaseInv'
<1> USE DEF Step, Finish
<1>1. /\ renew.phase \in {"point", "restart", "restore", "again"}
      /\ UNCHANGED <<master, job, marker, apps, schema, issued>>
  BY DEF point, restart, restore, again, release
<1>2. /\ lock = Renewal /\ told = None /\ ~SaysInstalled /\ renew \in [phase : Renewing, old : Nat]
      /\ pointer \in 0..issued /\ issued \in Nat \ {0} /\ (edge = 0 <=> served = 0)
      /\ (pointer # 0 => pointer \in whole) /\ (pointer = 0 => edge = 0)
      /\ (edge # 0 /\ disturbed = {} => marker # 0)
  BY <1>1, RenewalFacts
<1>3. renew.old \in Nat /\ \A ph \in Renewing : [renew EXCEPT !.phase = ph] = [phase |-> ph, old |-> renew.old]
  BY <1>2
<1>4. {"idle", "restart", "restore", "again"} \subseteq Renewing
  BY DEF Renewing
<1>5. CASE point
  <2>1. /\ renew.phase = "point" /\ pointer' = issued /\ whole' = whole \cup {issued} /\ UNCHANGED <<edge, served, disturbed>>
    BY <1>5 DEF point, release
  <2>2. renew.old \in whole /\ renew.old # 0 /\ renew.old < issued
    BY <2>1 DEF ReleaseInv, RenewalOK
  <2>3. CASE marker = 0
    <3>1. renew' = [renew EXCEPT !.phase = "idle"] /\ lock' = None
      BY <1>5, <2>3 DEF point
    <3>2. renew' = [phase |-> "idle", old |-> renew.old]
      BY <1>3, <1>4, <3>1
    <3>3. QED
      BY <1>1, <1>2, <1>3, <1>4, <2>1, <2>3, <3>1, <3>2, RenewalStep
  <2>4. CASE marker # 0
    <3>1. renew' = [renew EXCEPT !.phase = "restart"] /\ lock' = lock /\ told' = told
      BY <1>5, <2>4 DEF point
    <3>2. renew' = [phase |-> "restart", old |-> renew.old]
      BY <1>3, <1>4, <3>1
    <3>3. SaysInstalled' = SaysInstalled
      BY <3>1 DEF SaysInstalled
    <3>4. QED
      BY <1>1, <1>2, <1>3, <1>4, <2>1, <2>2, <2>4, <3>1, <3>2, <3>3, RenewalStep
  <2>5. QED
    BY <2>3, <2>4
<1>6. CASE restart
  <2>1. /\ renew.phase = "restart" /\ UNCHANGED <<whole, pointer, disturbed>>
        /\ \/ edge' = marker /\ served' = pointer
           \/ edge' = 0 /\ served' = 0
           \/ edge' = edge /\ served' = served
    BY <1>6 DEF restart, plfr_restart_current_edge, RestartFails, Recreated
  <2>2. /\ renew.old \in whole /\ renew.old # 0 /\ renew.old < issued /\ pointer = issued /\ marker # 0 /\ pointer # 0
    BY <2>1 DEF ReleaseInv, RenewalOK
  <2>3. /\ edge' \in {edge, 0, marker} /\ served' \in {served, 0, pointer} /\ (edge' = 0 <=> served' = 0)
    BY <1>2, <2>1, <2>2
  <2>4. CASE renew' = [renew EXCEPT !.phase = "idle"] /\ lock' = None /\ edge' = marker /\ served' = pointer
    <3>1. renew' = [phase |-> "idle", old |-> renew.old]
      BY <1>3, <1>4, <2>4
    <3>2. QED
      BY <1>1, <1>2, <1>3, <1>4, <2>1, <2>2, <2>3, <2>4, <3>1, RenewalStep
  <2>5. CASE renew' = [renew EXCEPT !.phase = "restore"] /\ lock' = lock /\ told' = told
    <3>1. renew' = [phase |-> "restore", old |-> renew.old]
      BY <1>3, <1>4, <2>5
    <3>2. SaysInstalled' = SaysInstalled
      BY <2>5 DEF SaysInstalled
    <3>3. QED
      BY <1>1, <1>2, <1>3, <1>4, <2>1, <2>2, <2>3, <2>5, <3>1, <3>2, RenewalStep
  <2>6. QED
    BY <1>6, <2>4, <2>5 DEF restart, plfr_restart_current_edge, Recreated
<1>7. CASE restore
  <2>1. renew.phase = "restore" /\ UNCHANGED <<whole, edge, served, told>>
    BY <1>7 DEF restore, release
  <2>2. renew.old \in whole /\ renew.old # 0 /\ renew.old < issued /\ pointer = issued /\ marker # 0 /\ pointer # 0
    BY <2>1 DEF ReleaseInv, RenewalOK
  <2>3. SaysInstalled' = SaysInstalled
    BY <2>1 DEF SaysInstalled
  <2>4. CASE pointer' = renew.old /\ renew' = [renew EXCEPT !.phase = "again"] /\ lock' = lock /\ disturbed' = disturbed
    <3>1. renew' = [phase |-> "again", old |-> renew.old]
      BY <1>3, <1>4, <2>4
    <3>2. QED
      BY <1>1, <1>2, <1>3, <1>4, <2>1, <2>2, <2>3, <2>4, <3>1, RenewalStep
  <2>5. CASE /\ renew' = [renew EXCEPT !.phase = "idle"] /\ lock' = None /\ disturbed' = disturbed \cup {"pointer"}
             /\ pointer' = pointer
    <3>1. renew' = [phase |-> "idle", old |-> renew.old] /\ disturbed' # {}
      BY <1>3, <1>4, <2>5
    <3>2. QED
      BY <1>1, <1>2, <1>3, <1>4, <2>1, <2>2, <2>3, <2>5, <3>1, RenewalStep
  <2>6. QED
    BY <1>7, <2>4, <2>5 DEF restore
<1>8. CASE again
  <2>1. /\ renew.phase = "again" /\ UNCHANGED <<whole, pointer, told, disturbed>>
        /\ renew' = [renew EXCEPT !.phase = "idle"] /\ lock' = None
        /\ \/ edge' = marker /\ served' = pointer
           \/ edge' = 0 /\ served' = 0
           \/ edge' = edge /\ served' = served
    BY <1>8 DEF again, plfr_restart_current_edge, RestartFails, Recreated
  <2>2. marker # 0 /\ pointer # 0 /\ pointer # issued
    BY <2>1 DEF ReleaseInv, RenewalOK
  <2>3. edge' \in {edge, 0, marker} /\ served' \in {served, 0, pointer} /\ (edge' = 0 <=> served' = 0)
    BY <1>2, <2>1, <2>2
  <2>4. SaysInstalled' = SaysInstalled
    BY <2>1 DEF SaysInstalled
  <2>5. renew' = [phase |-> "idle", old |-> renew.old]
    BY <1>3, <1>4, <2>1
  <2>6. QED
    BY <1>1, <1>2, <1>3, <1>4, <2>1, <2>2, <2>3, <2>4, <2>5, RenewalStep
<1>9. QED
  BY <1>5, <1>6, <1>7, <1>8

\* Whoever holds the lock is killed.
LEMMA HolderKilled ==
    ASSUME ReleaseInv, kill
    PROVE  ReleaseInv'
<1>0. /\ lock # None /\ lock' = None
      /\ UNCHANGED <<master, marker, apps, edge, schema, issued, whole, pointer, served, told>>
  BY DEF kill, release
<1>1. CASE lock = Renewal
  <2>1. /\ renew' = [renew EXCEPT !.phase = "idle"] /\ UNCHANGED job
        /\ disturbed' = disturbed \cup (IF renew.phase \in {"restart", "restore"} THEN {"pointer"} ELSE {})
    BY <1>1 DEF kill
  <2>2. renew.phase # "idle"
    BY <1>1 DEF ReleaseInv, RenewalOK
  <2>3. /\ lock = Renewal /\ told = None /\ ~SaysInstalled /\ renew \in [phase : Renewing, old : Nat]
        /\ pointer \in 0..issued /\ issued \in Nat \ {0} /\ (edge = 0 <=> served = 0)
        /\ (pointer # 0 => pointer \in whole) /\ (pointer = 0 => edge = 0)
    BY <2>2, RenewalFacts
  <2>4. renew.old \in Nat /\ renew' = [phase |-> "idle", old |-> renew.old] /\ "idle" \in Renewing
    BY <2>1, <2>3 DEF Renewing
  <2>5. disturbed' \in {disturbed, disturbed \cup {"pointer"}} /\ (disturbed' = {} => renew.phase \notin {"restart", "restore"} /\ disturbed = {})
    BY <2>1
  <2>6. disturbed' = {} /\ edge # 0 /\ pointer = issued => served = pointer
    BY <2>5 DEF ReleaseInv, RenewalOK
  <2>7. SaysInstalled' = SaysInstalled
    BY <1>0 DEF SaysInstalled
  <2>8. QED
    BY <1>0, <2>1, <2>3, <2>4, <2>5, <2>6, <2>7, RenewalStep
<1>2. CASE lock # Renewal
  <2>0. /\ ReleaseTypes /\ JobOK(lock) /\ RunsOK /\ RenewalOK /\ lock \in Commits /\ None # Renewal /\ lock \in 1..MaxCommit
    BY <1>0, <1>2, ReleaseAssumption DEF ReleaseInv, ReleaseTypes, Renewal, Commits
  <2>1. /\ job' = [job EXCEPT ![lock].phase = "done"] /\ UNCHANGED renew
        /\ disturbed' = disturbed \cup (IF job[lock].phase \in Rollout THEN {"rollout"} ELSE {})
    BY <1>2 DEF kill
  <2>2. /\ job' \in [Commits -> [phase : Phases, prev : 0..MaxCommit, fits : BOOLEAN]]
        /\ job'[lock].phase = "done" /\ \A d \in Commits \ {lock} : job'[d] = job[d]
    <3>1. "done" \in Phases
      BY DEF Phases
    <3>2. QED
      BY <2>0, <2>1, <3>1, JobMoved
  <2>3. renew.phase = "idle" /\ SaysInstalled' = SaysInstalled
    BY <1>0, <1>2, <2>0 DEF RenewalOK, SaysInstalled
  <2>4. disturbed' \subseteq {"rollout", "pointer"} /\ (disturbed' = {} => disturbed = {})
        /\ ("rollout" \notin disturbed' => "rollout" \notin disturbed /\ job[lock].phase \notin Rollout)
    BY <2>0, <2>1 DEF ReleaseTypes
  <2>5. ReleaseTypes'
    BY <1>0, <2>0, <2>1, <2>2, <2>4 DEF ReleaseTypes
  <2>6. JobOK(lock)
    BY <2>0
  <2>7. ASSUME NEW d \in Commits PROVE JobOK(d)'
    <3>1. CASE d = lock
      <4>1. ~(d > master')
        BY <1>0, <2>0, <3>1 DEF JobOK, Critical, Rollout
      <4>2. job'[d].phase = "done" /\ lock' # d
        BY <1>0, <2>2, <3>1, ReleaseAssumption DEF Commits
      <4>3. QED
        BY <4>1, <4>2 DEF JobOK, Early, Prepared, Critical, Rollout
    <3>2. CASE d # lock
      <4>1. JobOK(d) /\ lock' # d /\ job'[d] = job[d]
        BY <1>0, <2>2, <3>2, ReleaseAssumption DEF ReleaseInv, Commits
      <4>2. job[d].phase \in Early => edge' # d /\ marker' # d
        BY <1>0, <4>1 DEF JobOK
      <4>3. QED
        BY <1>0, <3>2, <4>1, <4>2, JobKept
    <3>3. QED
      BY <3>1, <3>2
  <2>8. RunsOK'
    <3>1. ASSUME "rollout" \notin disturbed' PROVE \A c \in Commits : job[c].phase \notin Rollout
      BY <2>0, <2>4, <3>1 DEF ReleaseInv, JobOK, Critical
    <3>2. QED
      BY <1>0, <2>0, <2>4, <3>1 DEF RunsOK
  <2>9. RenewalOK'
    BY <1>0, <2>0, <2>1, <2>3, <2>4 DEF RenewalOK
  <2>10. QED
    BY <2>5, <2>7, <2>8, <2>9 DEF ReleaseInv
<1>3. QED
  BY <1>1, <1>2

LEMMA ReleaseNext == ReleaseInv /\ [PartsNext]_partsVars => ReleaseInv'
<1> SUFFICES ASSUME ReleaseInv, [PartsNext]_partsVars PROVE ReleaseInv'
  OBVIOUS
<1>1. CASE Next
  BY <1>1, JobWaits, JobPrepares, JobChecks, JobRollsOut, BranchMoves, RenewalPrepares, RenewalMoves, HolderKilled
     DEF Next, Job, Renew
<1>2. CASE UNCHANGED vars
  <2>1. UNCHANGED <<master, job, lock, marker, apps, edge, schema, renew, issued, whole, pointer, served, told, disturbed>>
    BY <1>2 DEF vars, release, tls
  <2>2. ReleaseTypes'
    BY <2>1 DEF ReleaseInv, ReleaseTypes
  <2>3. ASSUME NEW c \in Commits PROVE JobOK(c)'
    BY <2>1, JobOK(c) DEF ReleaseInv, JobOK
  <2>4. RunsOK'
    BY <2>1 DEF ReleaseInv, RunsOK
  <2>5. RenewalOK'
    BY <2>1 DEF ReleaseInv, RenewalOK, SaysInstalled
  <2>6. QED
    BY <2>2, <2>3, <2>4, <2>5 DEF ReleaseInv
<1>3. QED
  BY <1>1, <1>2 DEF PartsNext, partsVars

\* The steps in which applications are started, and in which the marker moves.
LEMMA StartsAndMarks ==
    [Next]_vars =>
        /\ \/ apps' \in {0, apps}
           \/ \E c \in Commits : rolloutApps(c) /\ apps' = c
           \/ \E c \in Commits : rollbackApps(c) /\ apps' = job[c].prev
        /\ marker' = marker \/ \E c \in Commits : publishMarker(c) /\ marker' = c
<1> SUFFICES ASSUME [Next]_vars
    PROVE  /\ \/ apps' \in {0, apps}
              \/ \E c \in Commits : rolloutApps(c) /\ apps' = c
              \/ \E c \in Commits : rollbackApps(c) /\ apps' = job[c].prev
           /\ marker' = marker \/ \E c \in Commits : publishMarker(c) /\ marker' = c
  OBVIOUS
<1>1. CASE UNCHANGED vars
  BY <1>1 DEF vars, release
<1>2. ASSUME NEW c \in Commits, rolloutApps(c) PROVE apps' \in {0, apps, c} /\ marker' = marker
  BY <1>2 DEF rolloutApps, UpApps, UpAppsFails
<1>3. ASSUME NEW c \in Commits, rollbackApps(c) PROVE apps' \in {0, apps, job[c].prev} /\ marker' = marker
  BY <1>3 DEF rollbackApps, UpApps, UpAppsFails
<1>4. ASSUME NEW c \in Commits, publishMarker(c) PROVE apps' = apps /\ marker' \in {marker, c}
  BY <1>4 DEF publishMarker
<1>5. ASSUME NEW c \in Commits, rolloutEdge(c) \/ stopServices(c) \/ rollbackEdge(c)
      PROVE  apps' \in {0, apps} /\ marker' = marker
  BY <1>5 DEF rolloutEdge, stopServices, rollbackEdge, UpEdge, UpEdgeFails
<1>6. ASSUME NEW c \in Commits,
             entrypoint(c) \/ plfr_acquire_release_lock(c) \/ lockTimeout(c) \/ preflight(c) \/ build(c) \/ migrationCheck(c)
                \/ bootstrapTls(c) \/ reverify(c) \/ refused(c) \/ startRollback(c)
      PROVE  apps' = apps /\ marker' = marker
  BY <1>6 DEF entrypoint, plfr_acquire_release_lock, lockTimeout, preflight, build, migrationCheck, bootstrapTls, reverify,
              refused, startRollback, release
<1>7. ASSUME push \/ migrate \/ startRenewal \/ Renew \/ kill PROVE apps' = apps /\ marker' = marker
  BY <1>7 DEF push, migrate, startRenewal, Renew, lego, install, publish, point, restart, restore, again, renewalFails, kill,
              release
<1>8. QED
  BY <1>1, <1>2, <1>3, <1>4, <1>5, <1>6, <1>7 DEF Next, Job

\* For any number of commits, renewals, faults and kills: between jobs nothing runs but
\* what current-release records, unless a rollout was cut short or its rollback given
\* up; tls/current names a whole pair at every moment, and what a renewal calls
\* installed is what the edge serves, unless the pointer moved alone; the marker only
\* moves to newer commits; and no applications are started that do not fit the schema
\* (deploy-release.sh, release-runtime.sh).
THEOREM ReleaseIsSound == PartsSpec => ReleaseSound
<1>1. PartsInit => ReleaseInv
  BY ReleaseInit DEF PartsInit
<1>2. ReleaseInv => (part = "release" => TypeOK /\ RunsRecorded /\ PointerWhole /\ ServedUnlessCut)
  <2> SUFFICES ASSUME ReleaseInv PROVE TypeOK /\ RunsRecorded /\ PointerWhole /\ ServedUnlessCut
    OBVIOUS
  <2>1. TypeOK
    BY DEF ReleaseInv, ReleaseTypes, JobOK, RenewalOK, TypeOK
  <2>2. RunsRecorded
    <3>1. ASSUME lock = None PROVE \A c \in Commits : job[c].phase \notin Rollout
      BY <3>1, ReleaseAssumption DEF ReleaseInv, JobOK, Critical, Commits
    <3>2. QED
      BY <3>1 DEF ReleaseInv, RunsOK, RunsRecorded
  <2>3. PointerWhole
    BY DEF ReleaseInv, RenewalOK, PointerWhole
  <2>4. ServedUnlessCut
    <3>1. SUFFICES ASSUME "pointer" \notin disturbed, "rollout" \notin disturbed, SaysInstalled, edge # 0
                   PROVE  served = pointer
      BY DEF ServedUnlessCut, ServedIsInstalled, SaysInstalled
    <3>2. pointer = issued /\ renew.phase = "idle"
      BY <3>1, RenewalFacts DEF ReleaseInv, RenewalOK
    <3>3. disturbed = {}
      BY <3>1 DEF ReleaseInv, ReleaseTypes
    <3>4. QED
      BY <3>1, <3>2, <3>3 DEF ReleaseInv, RenewalOK
  <2>5. QED
    BY <2>1, <2>2, <2>3, <2>4
<1>3. [PartsNext]_partsVars => [Next]_vars
  BY DEF PartsNext, partsVars
<1>4. ReleaseInv /\ [PartsNext]_partsVars => [marker' >= marker]_marker
  <2> SUFFICES ASSUME ReleaseInv, [Next]_vars PROVE marker' = marker \/ marker' >= marker
    BY <1>3
  <2>1. CASE marker' = marker
    BY <2>1
  <2>2. ASSUME NEW c \in Commits, publishMarker(c), marker' = c PROVE marker' >= marker
    BY <2>2 DEF ReleaseInv, ReleaseTypes, JobOK, publishMarker, At, Critical, Rollout, Commits
  <2>3. QED
    BY <2>1, <2>2, StartsAndMarks
<1>5. ReleaseInv /\ [PartsNext]_partsVars => [apps' \notin {0, apps} => SchemaOf(apps') = schema]_vars
  <2> SUFFICES ASSUME ReleaseInv, [Next]_vars, apps' \notin {0, apps} PROVE SchemaOf(apps') = schema
    BY <1>3
  <2>1. ASSUME NEW c \in Commits, rolloutApps(c), apps' = c PROVE SchemaOf(apps') = schema
    BY <2>1 DEF ReleaseInv, JobOK, rolloutApps, At, Rollout
  <2>2. ASSUME NEW c \in Commits, rollbackApps(c), apps' = job[c].prev PROVE SchemaOf(apps') = schema
    BY <2>2 DEF ReleaseInv, JobOK, rollbackApps, At, Rollout
  <2>3. QED
    BY <2>1, <2>2, StartsAndMarks
<1>6. PartsSpec => []ReleaseInv
  BY <1>1, ReleaseNext, PTL DEF PartsSpec
<1>7. PartsSpec => MarkerForward
  BY <1>4, <1>6, PTL DEF PartsSpec, MarkerForward
<1>8. PartsSpec => CompatibleStarts
  BY <1>5, <1>6, PTL DEF PartsSpec, CompatibleStarts
<1>9. QED
  BY <1>2, <1>6, <1>7, <1>8, PTL DEF ReleaseSound

-----------------------------------------------------------------------------
(* Migrations.                                                             *)

MigrationStates == {"off", "waiting", "run", "adopt", "adopted", "read", "next", "applying"}
Entries == Seq(Migration!Migration)

\* The baseline, and a beginning of a release's chain.
Baseline == Package[CHOOSE r \in DOMAIN Package : TRUE][1]
Chain(s, r) == Len(s) <= Len(Package[r]) /\ \A i \in 1..Len(s) : s[i] = Package[r][i]

HasLedger == migrationLedger # None
Interfered(c) == cause[c] = "duplicate"

MigrationTypes ==
    /\ kind \in {"empty", "legacy", "unknown"} /\ utf8 \in BOOLEAN /\ clean \in BOOLEAN
    /\ migrationSchema \in Entries /\ migrationLedger \in Entries \cup {None}
    /\ migrationLock \in Commands \cup {None} /\ tableLock \in Commands \cup {None}
    /\ migrationPc \in [Commands -> MigrationStates] /\ mode \in [Commands -> {"run", "adopt"}]
    /\ migrationRelease \in [Commands -> DOMAIN Package \cup {None}] /\ known \in [Commands -> Entries]
    /\ cause = [c \in Commands |-> cause[c]]

\* With a ledger the schema is what it says, the beginning of a chain; without one the
\* schema is what it was at the start. From 0002 on the data is clean.
DbOK ==
    /\ kind = "empty" => clean = TRUE
    /\ ~HasLedger => migrationSchema = IF kind = "legacy" THEN <<Baseline>> ELSE <<>>
    /\ HasLedger => /\ migrationLedger = migrationSchema /\ kind # "unknown" /\ utf8 = TRUE
                    /\ kind = "legacy" => migrationLedger # <<>>
                    /\ \E r \in DOMAIN Package : Migration!loadMigrations(r) /\ Chain(migrationLedger, r)
    /\ Len(migrationSchema) >= 2 => clean = TRUE
    /\ tableLock # None => migrationLock = tableLock

\* A command under the lock knows the ledger, which its release continues; while it
\* applies 0002 nobody writes light_points.
CommandOK(c) ==
    /\ migrationPc[c] \notin {"off", "waiting"} => migrationLock = c
    /\ migrationPc[c] # "off" => migrationRelease[c] \in DOMAIN Package /\ Migration!loadMigrations(migrationRelease[c])
    /\ migrationPc[c] = "adopted" => ~HasLedger /\ kind = "legacy" /\ utf8 = TRUE
    /\ migrationPc[c] \in {"read", "next", "applying"} => HasLedger
    /\ migrationPc[c] \in {"next", "applying"} =>
          known[c] = migrationLedger /\ Chain(migrationLedger, migrationRelease[c])
    /\ migrationPc[c] = "applying" =>
          /\ Len(migrationLedger) < Len(Package[migrationRelease[c]])
          /\ Len(migrationLedger) = 1 => tableLock = c /\ clean = TRUE
    /\ ~Interfered(c)

MigrationInv == MigrationTypes /\ DbOK /\ \A c \in Commands : CommandOK(c)

\* What the packages are made of; the proofs use nothing else of them.
LEMMA Packages ==
    /\ DOMAIN Package # {}
    /\ \A r \in DOMAIN Package : /\ Package[r] \in Entries /\ Len(Package[r]) \in Nat /\ Len(Package[r]) > 0
                                 /\ Package[r][1] = Baseline
    /\ \A m \in Migration!Migration : m.version \in Nat
    /\ Baseline \in Migration!Migration
    /\ \A s \in Entries : s # None
<1>1. \A r \in DOMAIN Package : Package[r] \in Seq([version : Nat, checksum : Nat]) /\ Package[r] # <<>>
  BY PartsAssumption DEF Migration!PackageAssumption
<1>2. Migration!Migration \subseteq [version : Nat, checksum : Nat]
  <2> SUFFICES ASSUME NEW r \in DOMAIN Package, NEW i \in DOMAIN Package[r]
               PROVE  Package[r][i] \in [version : Nat, checksum : Nat]
    BY DEF Migration!Migration, Migration!ToSet
  <2>1. Package[r] \in Seq([version : Nat, checksum : Nat])
    BY <1>1
  <2>2. i \in 1..Len(Package[r])
    BY <2>1, LenProperties
  <2>3. QED
    BY <2>1, <2>2, ElementOfSeq
<1>3. ASSUME NEW r \in DOMAIN Package PROVE Package[r] \in Entries /\ Len(Package[r]) \in Nat /\ Len(Package[r]) > 0
  <2>1. Len(Package[r]) \in Nat /\ Len(Package[r]) > 0 /\ DOMAIN Package[r] = 1..Len(Package[r])
    BY <1>1, EmptySeq, LenProperties
  <2>2. \A i \in 1..Len(Package[r]) : Package[r][i] \in Migration!Migration
    BY <2>1 DEF Migration!Migration, Migration!ToSet
  <2>3. Package[r] = [i \in 1..Len(Package[r]) |-> Package[r][i]]
    BY <1>1
  <2>4. Package[r] \in Entries
    BY <2>1, <2>2, <2>3, IsASeq DEF Entries
  <2>5. QED
    BY <2>1, <2>4
<1>4. DOMAIN Package # {} /\ \A r, q \in DOMAIN Package : Package[r][1] = Package[q][1]
  BY PartsAssumption DEF Migration!PackageAssumption
<1>5. \A r \in DOMAIN Package : Package[r][1] = Baseline
  BY <1>4 DEF Baseline
<1>6. Baseline \in Migration!Migration
  <2>1. PICK r \in DOMAIN Package : TRUE
    BY <1>4
  <2>2. Package[r][1] \in Migration!Migration
    BY <1>3, ElementOfSeq DEF Entries
  <2>3. QED
    BY <2>2, <1>5
<1>7. \A m \in Migration!Migration : m.version \in Nat
  BY <1>2
<1>8. \A s \in Entries : s # None
  <2>1. Entries \subseteq Seq([version : Nat, checksum : Nat])
    BY <1>2, SeqMonotonic DEF Entries
  <2>2. QED
    BY <2>1, PartsAssumption DEF Migration!PackageAssumption
<1>9. QED
  BY <1>3, <1>4, <1>5, <1>6, <1>7, <1>8

\* If every entry of a chain is packaged by another release, it is a beginning of
\* that release's chain too.
LEMMA MatchesIsChain ==
    ASSUME NEW s \in Entries, NEW r \in DOMAIN Package, NEW q \in DOMAIN Package,
           Migration!loadMigrations(r), Migration!loadMigrations(q), Chain(s, r),
           \A i \in 1..Len(s) : \E j \in 1..Len(Package[q]) : Package[q][j] = s[i]
    PROVE  Chain(s, q)
<1>1. Len(s) \in Nat /\ Len(Package[q]) \in Nat /\ Len(Package[r]) \in Nat
  BY Packages, LenProperties DEF Entries
<1>2. \A i \in 1..Len(s) : i \in 1..Len(Package[q]) /\ Package[q][i] = s[i]
  <2> SUFFICES ASSUME NEW i \in 1..Len(s) PROVE i \in 1..Len(Package[q]) /\ Package[q][i] = s[i]
    OBVIOUS
  <2>1. PICK j \in 1..Len(Package[q]) : Package[q][j] = s[i]
    OBVIOUS
  <2>2. i \in 1..Len(Package[r]) /\ s[i] = Package[r][i]
    BY <1>1 DEF Chain
  <2>3. Package[r][i].version = i /\ Package[q][j].version = j
    BY <2>2 DEF Migration!loadMigrations
  <2>4. QED
    BY <2>1, <2>2, <2>3
<1>3. Len(s) <= Len(Package[q])
  <2>1. CASE Len(s) = 0
    BY <1>1, <2>1
  <2>2. CASE Len(s) > 0
    <3>1. Len(s) \in 1..Len(s)
      BY <1>1, <2>2
    <3>2. QED
      BY <1>1, <1>2, <3>1
  <2>3. QED
    BY <1>1, <2>1, <2>2
<1>4. QED
  BY <1>2, <1>3 DEF Chain

\* What remains after a beginning of the chain is the rest of it.
LEMMA FollowingIsNext ==
    ASSUME NEW c \in Commands, NEW q \in DOMAIN Package, migrationRelease[c] = q,
           Migration!loadMigrations(q), known[c] \in Entries, Chain(known[c], q)
    PROVE  /\ Migration!Remaining(c) = {} <=> Len(known[c]) = Len(Package[q])
           /\ Migration!Remaining(c) # {} => /\ Len(known[c]) < Len(Package[q])
                                             /\ Migration!Following(c) = Len(known[c]) + 1
<1> DEFINE n == Len(known[c])  m == Len(Package[q])
<1>1. n \in Nat /\ m \in Nat /\ n <= m
  BY Packages, LenProperties DEF Entries, Chain
<1>2. \A k \in 1..n : known[c][k].version = k
  BY <1>1 DEF Chain, Migration!loadMigrations
<1>3. Migration!Remaining(c) = {i \in 1..m : \A k \in 1..n : known[c][k].version # i}
  BY DEF Migration!Remaining
<1> HIDE DEF n, m
<1>4. Migration!Remaining(c) = (n + 1)..m
  BY <1>1, <1>2, <1>3
<1>5. Migration!Remaining(c) = {} <=> n = m
  BY <1>1, <1>4, SMTT(30)
<1>6. ASSUME Migration!Remaining(c) # {} PROVE n < m /\ Migration!Following(c) = n + 1
  <2>1. n < m
    BY <1>1, <1>5, <1>6
  <2>2. n + 1 \in Migration!Remaining(c) /\ \A j \in Migration!Remaining(c) : n + 1 <= j
    BY <1>1, <1>4, <2>1
  <2>3. ASSUME NEW i \in Migration!Remaining(c), \A j \in Migration!Remaining(c) : i <= j PROVE i = n + 1
    <3>1. i \in Int /\ n + 1 <= i
      BY <1>1, <1>4, <2>3
    <3>2. i <= n + 1
      BY <2>2, <2>3
    <3>3. QED
      BY <1>1, <3>1, <3>2
  <2>4. QED
    BY <2>1, <2>2, <2>3 DEF Migration!Following
<1>7. QED
  BY <1>5, <1>6 DEF n, m

LEMMA MigrationStart == Migration!Init => MigrationInv
<1> SUFFICES ASSUME Migration!Init PROVE MigrationInv
  OBVIOUS
<1>1. ~HasLedger
  BY DEF Migration!Init, HasLedger
<1>2. migrationSchema = (IF kind = "legacy" THEN <<Baseline>> ELSE <<>>)
  BY DEF Migration!Init, Baseline
<1>3. migrationSchema \in Entries /\ Len(migrationSchema) < 2
  <2>1. CASE kind = "legacy"
    BY <1>2, <2>1, Packages DEF Entries
  <2>2. CASE kind # "legacy"
    BY <1>2, <2>2 DEF Entries
  <2>3. QED
    BY <2>1, <2>2
<1>4. \A c \in Commands : ~Interfered(c)
  BY PartsAssumption, Zenon DEF Migration!Init, Interfered, Migration!PackageAssumption
<1>5. /\ kind \in {"empty", "legacy", "unknown"} /\ utf8 \in BOOLEAN /\ clean \in BOOLEAN
      /\ kind = "empty" => clean = TRUE
      /\ migrationLedger = None /\ migrationLock = None /\ tableLock = None
  BY DEF Migration!Init
<1>6. /\ migrationPc = [c \in Commands |-> "off"] /\ mode = [c \in Commands |-> "run"]
      /\ known = [c \in Commands |-> <<>>]
  BY DEF Migration!Init
<1>7. migrationRelease \in [Commands -> DOMAIN Package \cup {None}] /\ cause = [c \in Commands |-> cause[c]]
  BY DEF Migration!Init
<1>8. MigrationTypes
  <2>1. migrationPc \in [Commands -> MigrationStates] /\ mode \in [Commands -> {"run", "adopt"}]
    BY <1>6 DEF MigrationStates
  <2>2. known \in [Commands -> Entries]
    BY <1>6 DEF Entries
  <2>3. QED
    BY <1>3, <1>5, <1>7, <2>1, <2>2 DEF MigrationTypes
<1>9. DbOK
  <2>1. ~(Len(migrationSchema) >= 2)
    BY <1>3, LenProperties DEF Entries
  <2>2. QED
    BY <1>1, <1>2, <1>5, <2>1 DEF DbOK
<1>10. \A c \in Commands : CommandOK(c)
  BY <1>4, <1>6 DEF CommandOK
<1>11. QED
  BY <1>8, <1>9, <1>10 DEF MigrationInv

\* A command without the lock is not affected by what another does.
LEMMA CommandKept ==
    ASSUME NEW d, CommandOK(d), UNCHANGED <<migrationPc[d], migrationRelease[d], known[d], cause[d]>>,
           migrationLock = d => UNCHANGED <<kind, utf8, clean, migrationLedger, migrationLock, tableLock>>
    PROVE  CommandOK(d)'
<1>1. ~Interfered(d)'
  BY DEF CommandOK, Interfered
<1>2. CASE migrationLock = d
  <2>1. HasLedger' = HasLedger
    BY <1>2 DEF HasLedger
  <2>2. Chain(migrationLedger, migrationRelease[d])' <=> Chain(migrationLedger, migrationRelease[d])
    BY <1>2 DEF Chain
  <2>3. QED
    BY <1>1, <1>2, <2>1, <2>2 DEF CommandOK, Migration!loadMigrations
<1>3. CASE migrationLock # d
  BY <1>1, <1>3 DEF CommandOK, Migration!loadMigrations
<1>4. QED
  BY <1>2, <1>3

LEMMA MigrationStep ==
    ASSUME MigrationInv, NEW c \in Commands, MigrationTypes', DbOK', CommandOK(c)',
           \A d \in Commands \ {c} : UNCHANGED <<migrationPc[d], migrationRelease[d], known[d], cause[d]>>,
           migrationLock \in Commands \ {c} =>
               UNCHANGED <<kind, utf8, clean, migrationLedger, migrationLock, tableLock>>
    PROVE  MigrationInv'
<1>1. ASSUME NEW d \in Commands, d # c PROVE CommandOK(d)'
  <2>1. CommandOK(d)
    BY DEF MigrationInv
  <2>2. QED
    BY <1>1, <2>1, CommandKept
<1>2. QED
  BY <1>1 DEF MigrationInv

\* What a command changes of itself is its own place, release, mode, knowledge and cause.
LEMMA DbKept ==
    ASSUME DbOK, UNCHANGED <<kind, utf8, clean, migrationSchema, migrationLedger>>,
           tableLock' # None => migrationLock' = tableLock'
    PROVE  DbOK'
<1>1. HasLedger' = HasLedger
  BY DEF HasLedger
<1>2. \A r : Chain(migrationLedger, r)' <=> Chain(migrationLedger, r)
  BY DEF Chain
<1>3. QED
  BY <1>1, <1>2 DEF DbOK, Migration!loadMigrations

\* A command ends at any point of it and its locks go with its session.
LEMMA CommandStops ==
    ASSUME MigrationInv, NEW c \in Commands, NEW why, why # "duplicate", Migration!End(c, why),
           UNCHANGED <<kind, utf8, clean, migrationSchema, migrationLedger, migrationRelease, mode, known>>
    PROVE  MigrationInv'
<1>1. /\ migrationPc' = [migrationPc EXCEPT ![c] = "off"] /\ cause' = [cause EXCEPT ![c] = why]
      /\ migrationLock' = (IF migrationLock = c THEN None ELSE migrationLock)
      /\ tableLock' = (IF tableLock = c THEN None ELSE tableLock)
  BY DEF Migration!End, Migration!To
<1>2. MigrationTypes /\ DbOK /\ CommandOK(c)
  BY DEF MigrationInv
<1>3. MigrationTypes'
  <2>1. migrationPc' \in [Commands -> MigrationStates]
    BY <1>1, <1>2 DEF MigrationTypes, MigrationStates
  <2>2. cause' = [d \in Commands |-> cause'[d]]
    BY <1>1, <1>2 DEF MigrationTypes
  <2>3. QED
    BY <1>1, <1>2, <2>1, <2>2 DEF MigrationTypes
<1>4. DbOK'
  <2>1. tableLock' # None => migrationLock' = tableLock'
    BY <1>1, <1>2 DEF DbOK
  <2>2. QED
    BY <1>2, <2>1, DbKept
<1>5. CommandOK(c)'
  <2>1. migrationPc'[c] = "off"
    BY <1>1, <1>2 DEF MigrationTypes
  <2>2. ~Interfered(c)'
    BY <1>1, <1>2 DEF MigrationTypes, Interfered
  <2>3. QED
    BY <2>1, <2>2 DEF CommandOK
<1>6. \A d \in Commands \ {c} : UNCHANGED <<migrationPc[d], migrationRelease[d], known[d], cause[d]>>
  BY <1>1, <1>2 DEF MigrationTypes
<1>7. migrationLock \in Commands \ {c} =>
          UNCHANGED <<kind, utf8, clean, migrationLedger, migrationLock, tableLock>>
  <2> SUFFICES ASSUME migrationLock \in Commands, migrationLock # c
               PROVE  UNCHANGED <<kind, utf8, clean, migrationLedger, migrationLock, tableLock>>
    OBVIOUS
  <2>1. tableLock = c => c = None
    BY <1>2 DEF DbOK
  <2>2. c # None
    BY PartsAssumption DEF Migration!PackageAssumption
  <2>3. QED
    BY <1>1, <2>1, <2>2
<1>8. QED
  BY <1>3, <1>4, <1>5, <1>6, <1>7, MigrationStep

\* A command that has, or gets, the lock goes on to l.
LEMMA CommandGoesOn ==
    ASSUME MigrationInv, NEW c \in Commands, NEW l \in MigrationStates \ {"off", "waiting"}, Migration!To(c, l),
           migrationPc[c] # "off", migrationLock \in {None, c}, migrationLock' = c,
           UNCHANGED <<kind, utf8, clean, migrationRelease, mode, cause>>, tableLock' \in {tableLock, None, c},
           migrationSchema' \in Entries, migrationLedger' \in Entries \cup {None}, known' \in [Commands -> Entries],
           \A d \in Commands \ {c} : known'[d] = known[d], DbOK',
           l = "adopted" => ~HasLedger' /\ kind = "legacy" /\ utf8 = TRUE,
           l \in {"read", "next", "applying"} => HasLedger',
           l \in {"next", "applying"} => known'[c] = migrationLedger' /\ Chain(migrationLedger', migrationRelease[c]),
           l = "applying" => /\ Len(migrationLedger') < Len(Package[migrationRelease[c]])
                             /\ Len(migrationLedger') = 1 => tableLock' = c /\ clean = TRUE
    PROVE  MigrationInv'
<1>1. MigrationTypes /\ CommandOK(c) /\ None \notin Commands
  BY PartsAssumption DEF MigrationInv, Migration!PackageAssumption
<1>2. migrationPc' = [migrationPc EXCEPT ![c] = l] /\ migrationPc'[c] = l
  BY <1>1 DEF Migration!To, MigrationTypes
<1>3. MigrationTypes'
  <2>1. migrationPc' \in [Commands -> MigrationStates]
    BY <1>1, <1>2 DEF MigrationTypes
  <2>2. migrationLock' \in Commands \cup {None} /\ tableLock' \in Commands \cup {None}
    BY <1>1 DEF MigrationTypes
  <2>3. QED
    BY <1>1, <2>1, <2>2 DEF MigrationTypes
<1>4. CommandOK(c)'
  <2>1. ~Interfered(c)'
    BY <1>1 DEF CommandOK, Interfered
  <2>2. migrationRelease[c] \in DOMAIN Package /\ Migration!loadMigrations(migrationRelease[c])
    BY <1>1 DEF CommandOK
  <2>3. Migration!loadMigrations(migrationRelease[c])' /\ migrationRelease'[c] = migrationRelease[c]
    BY <2>2 DEF Migration!loadMigrations
  <2>4. Chain(migrationLedger, migrationRelease[c])' = Chain(migrationLedger', migrationRelease[c])
    BY DEF Chain
  <2>5. QED
    BY <1>2, <2>1, <2>2, <2>3, <2>4 DEF CommandOK
<1>5. \A d \in Commands \ {c} : UNCHANGED <<migrationPc[d], migrationRelease[d], known[d], cause[d]>>
  BY <1>1, <1>2 DEF MigrationTypes
<1>6. migrationLock \notin Commands \ {c}
  BY <1>1
<1>7. QED
  BY <1>3, <1>4, <1>5, <1>6, MigrationStep

\* The lock is that of the command that runs.
LEMMA RunsLocked ==
    ASSUME MigrationInv, NEW c \in Commands, migrationPc[c] \notin {"off", "waiting"}
    PROVE  /\ migrationLock = c /\ migrationRelease[c] \in DOMAIN Package
           /\ Migration!loadMigrations(migrationRelease[c])
           /\ MigrationTypes /\ DbOK /\ CommandOK(c)
BY DEF MigrationInv, CommandOK

LEMMA CommandStarts ==
    ASSUME MigrationInv, NEW c \in Commands, Migration!start(c)
    PROVE  MigrationInv'
<1>1. MigrationTypes /\ DbOK /\ CommandOK(c)
  BY DEF MigrationInv
<1>2. PICK r \in DOMAIN Package, m \in {"run", "adopt"} :
         /\ migrationRelease' = [migrationRelease EXCEPT ![c] = r] /\ mode' = [mode EXCEPT ![c] = m]
         /\ IF Migration!loadMigrations(r)
            THEN Migration!To(c, "waiting") /\ cause' = [cause EXCEPT ![c] = None]
            ELSE UNCHANGED migrationPc /\ cause' = [cause EXCEPT ![c] = "package"]
  BY DEF Migration!start
<1>3. /\ UNCHANGED <<kind, utf8, clean, migrationSchema, migrationLedger, tableLock, migrationLock, known>>
      /\ migrationPc[c] = "off"
  BY DEF Migration!start, Migration!db
<1>4. /\ migrationPc' \in [Commands -> MigrationStates] /\ \A d \in Commands \ {c} : migrationPc'[d] = migrationPc[d]
      /\ migrationPc'[c] \in {"off", "waiting"} /\ (migrationPc'[c] # "off" => Migration!loadMigrations(r))
  BY <1>1, <1>2, <1>3 DEF MigrationTypes, MigrationStates, Migration!To
<1>5. MigrationTypes'
  <2>1. migrationRelease' \in [Commands -> DOMAIN Package \cup {None}] /\ mode' \in [Commands -> {"run", "adopt"}]
    BY <1>1, <1>2 DEF MigrationTypes
  <2>2. cause' = [d \in Commands |-> cause'[d]]
    BY <1>1, <1>2 DEF MigrationTypes
  <2>3. QED
    BY <1>1, <1>3, <1>4, <2>1, <2>2 DEF MigrationTypes
<1>6. DbOK'
  <2>1. tableLock' # None => migrationLock' = tableLock'
    BY <1>1, <1>3 DEF DbOK
  <2>2. QED
    BY <1>1, <1>3, <2>1, DbKept
<1>7. ~Interfered(c)'
  <2>1. CASE Migration!loadMigrations(r)
    <3>1. cause'[c] = None
      BY <1>1, <1>2, <2>1, Zenon DEF MigrationTypes
    <3>2. QED
      BY <3>1, PartsAssumption, Zenon DEF Interfered, Migration!PackageAssumption
  <2>2. CASE ~Migration!loadMigrations(r)
    BY <1>1, <1>2, <2>2 DEF MigrationTypes, Interfered
  <2>3. QED
    BY <2>1, <2>2
<1>8. CommandOK(c)'
  <2>1. migrationRelease'[c] = r
    BY <1>1, <1>2 DEF MigrationTypes
  <2>2. QED
    BY <1>4, <1>7, <2>1 DEF CommandOK, Migration!loadMigrations
<1>9. \A d \in Commands \ {c} : UNCHANGED <<migrationPc[d], migrationRelease[d], known[d], cause[d]>>
  <2>1. \A d \in Commands \ {c} : migrationRelease'[d] = migrationRelease[d] /\ cause'[d] = cause[d]
    BY <1>1, <1>2 DEF MigrationTypes
  <2>2. QED
    BY <1>3, <1>4, <2>1
<1>10. QED
  BY <1>3, <1>5, <1>6, <1>8, <1>9, MigrationStep

LEMMA CommandLocks ==
    ASSUME MigrationInv, NEW c \in Commands, Migration!withMigrationLock(c)
    PROVE  MigrationInv'
<1>1. MigrationTypes /\ DbOK
  BY DEF MigrationInv
<1>2. migrationLock = None /\ migrationLock' = c /\ migrationPc[c] = "waiting" /\ Migration!To(c, mode[c])
  BY DEF Migration!withMigrationLock, Migration!LockFree
<1>3. UNCHANGED <<kind, utf8, clean, migrationSchema, migrationLedger, tableLock, migrationRelease, mode, known, cause>>
  BY DEF Migration!withMigrationLock, Migration!db
<1>4. mode[c] \in {"run", "adopt"}
  BY <1>1 DEF MigrationTypes
<1>5. DbOK'
  <2>1. tableLock = None
    BY <1>1, <1>2 DEF DbOK
  <2>2. QED
    BY <1>1, <1>3, <2>1, DbKept
<1>6. QED
  <2>1. mode[c] \in MigrationStates \ {"off", "waiting"}
    BY <1>4 DEF MigrationStates
  <2>2. /\ mode[c] \notin {"adopted", "read", "next", "applying"} /\ migrationPc[c] # "off"
    BY <1>2, <1>4
  <2>3. /\ migrationSchema' \in Entries /\ migrationLedger' \in Entries \cup {None} /\ known' \in [Commands -> Entries]
        /\ \A d \in Commands \ {c} : known'[d] = known[d]
    BY <1>1, <1>3 DEF MigrationTypes
  <2> DEFINE l == mode[c]
  <2>4. l \in MigrationStates \ {"off", "waiting"} /\ l \notin {"adopted", "read", "next", "applying"} /\ Migration!To(c, l)
    BY <1>2, <2>1, <2>2
  <2> HIDE DEF l
  <2>5. QED
    BY <1>2, <1>3, <1>5, <2>2, <2>3, <2>4, CommandGoesOn

\* The ledger is created in an empty database only.
LEMMA CommandRuns ==
    ASSUME MigrationInv, NEW c \in Commands, Migration!runMigrations(c)
    PROVE  MigrationInv'
<1>1. CASE Migration!End(c, "unversioned") /\ UNCHANGED migrationLedger
  BY <1>1, CommandStops DEF Migration!runMigrations
<1>2. CASE /\ utf8 /\ (migrationLedger # None \/ ~Migration!applicationTables)
           /\ migrationLedger' = (IF migrationLedger = None THEN <<>> ELSE migrationLedger)
           /\ Migration!To(c, "read") /\ UNCHANGED <<cause, migrationLock, tableLock>>
  <2>1. /\ migrationPc[c] = "run"
        /\ UNCHANGED <<kind, utf8, migrationSchema, clean, migrationRelease, mode, known, cause, migrationLock, tableLock>>
    BY <1>2 DEF Migration!runMigrations
  <2>2. /\ migrationLock = c /\ migrationRelease[c] \in DOMAIN Package
        /\ Migration!loadMigrations(migrationRelease[c])
        /\ MigrationTypes /\ DbOK
    BY <2>1, RunsLocked
  <2>3. <<>> \in Entries /\ Len(<<>>) = 0
    BY DEF Entries
  <2>4. migrationLedger' \in Entries /\ HasLedger'
    <3>1. migrationLedger' \in Entries
      BY <1>2, <2>2, <2>3 DEF MigrationTypes
    <3>2. QED
      BY <3>1, Packages DEF HasLedger
  <2>5. utf8 = TRUE
    BY <1>2, <2>2 DEF MigrationTypes
  <2>6. DbOK'
    <3>1. CASE HasLedger
      <4>1. migrationLedger' = migrationLedger
        BY <1>2, <3>1 DEF HasLedger
      <4>2. tableLock' # None => migrationLock' = tableLock'
        BY <2>1, <2>2 DEF DbOK
      <4>3. QED
        BY <2>1, <2>2, <4>1, <4>2, DbKept
    <3>2. CASE ~HasLedger
      <4>1. kind = "empty" /\ migrationLedger' = <<>> /\ migrationSchema = <<>>
        BY <1>2, <2>2, <3>2 DEF HasLedger, DbOK, Migration!applicationTables
      <4>2. Chain(<<>>, migrationRelease[c])
        BY <2>2, <2>3, Packages DEF Chain
      <4>3. Chain(migrationLedger, migrationRelease[c])' = Chain(migrationLedger', migrationRelease[c])
        BY <2>1 DEF Chain
      <4>4. \E r \in DOMAIN Package : Migration!loadMigrations(r) /\ Chain(migrationLedger', r)
        BY <2>2, <4>1, <4>2
      <4>5. (\E r \in DOMAIN Package : Migration!loadMigrations(r) /\ Chain(migrationLedger, r))'
        BY <4>4 DEF Chain, Migration!loadMigrations
      <4>6. ~(Len(migrationSchema') >= 2) /\ kind' = "empty" /\ clean' = clean /\ utf8' = TRUE
            /\ migrationLedger' = migrationSchema'
        BY <2>1, <2>3, <2>5, <4>1
      <4>7. tableLock' # None => migrationLock' = tableLock'
        BY <2>1, <2>2 DEF DbOK
      <4>8. clean = TRUE
        BY <2>2, <4>1 DEF DbOK
      <4>9. QED
        BY <2>4, <4>5, <4>6, <4>7, <4>8 DEF DbOK
    <3>3. QED
      BY <3>1, <3>2
  <2>7. "read" \in MigrationStates \ {"off", "waiting"}
    BY DEF MigrationStates
  <2>8. /\ migrationSchema' \in Entries /\ known' \in [Commands -> Entries]
        /\ \A d \in Commands \ {c} : known'[d] = known[d]
    BY <2>1, <2>2 DEF MigrationTypes
  <2>9. QED
    BY <1>2, <2>1, <2>2, <2>4, <2>6, <2>7, <2>8, CommandGoesOn
<1>3. QED
  BY <1>1, <1>2 DEF Migration!runMigrations

\* Only a recognised legacy database is adopted.
LEMMA CommandAdopts ==
    ASSUME MigrationInv, NEW c \in Commands, Migration!adoptRecognizedPreP3Database(c)
    PROVE  MigrationInv'
<1>1. CASE Migration!End(c, "refused")
  BY <1>1, CommandStops DEF Migration!adoptRecognizedPreP3Database, Migration!db
<1>2. CASE /\ utf8 /\ migrationLedger = None /\ kind = "legacy"
           /\ Migration!To(c, "adopted") /\ UNCHANGED <<cause, migrationLock, tableLock>>
  <2>1. /\ migrationPc[c] = "adopt"
        /\ UNCHANGED <<kind, utf8, clean, migrationSchema, migrationLedger, migrationRelease, mode, known>>
    BY DEF Migration!adoptRecognizedPreP3Database, Migration!db
  <2>2. migrationLock = c /\ MigrationTypes /\ DbOK
    BY <2>1, RunsLocked
  <2>3. ~HasLedger' /\ utf8 = TRUE
    <3>1. ~HasLedger'
      BY <1>2, <2>1 DEF HasLedger
    <3>2. QED
      BY <1>2, <2>2, <3>1 DEF MigrationTypes
  <2>4. DbOK'
    <3>1. tableLock' # None => migrationLock' = tableLock'
      BY <1>2, <2>2 DEF DbOK
    <3>2. QED
      BY <2>1, <2>2, <3>1, DbKept
  <2>5. "adopted" \in MigrationStates \ {"off", "waiting"}
    BY DEF MigrationStates
  <2>6. /\ migrationSchema' \in Entries /\ migrationLedger' \in Entries \cup {None} /\ known' \in [Commands -> Entries]
        /\ \A d \in Commands \ {c} : known'[d] = known[d]
    BY <2>1, <2>2 DEF MigrationTypes
  <2>7. /\ kind = "legacy" /\ Migration!To(c, "adopted") /\ UNCHANGED <<cause, migrationLock, tableLock>>
    BY <1>2
  <2>8. QED
    BY <2>1, <2>2, <2>3, <2>4, <2>5, <2>6, <2>7, CommandGoesOn
<1>3. QED
  BY <1>1, <1>2 DEF Migration!adoptRecognizedPreP3Database

\* The first entry of an adopted database is the baseline, which is its schema.
LEMMA CommandRecords ==
    ASSUME MigrationInv, NEW c \in Commands, Migration!recordBaseline(c)
    PROVE  MigrationInv'
<1> DEFINE q == migrationRelease[c]
<1>1. /\ migrationPc[c] = "adopted" /\ migrationLedger' = <<Package[q][1]>> /\ Migration!To(c, "read")
      /\ UNCHANGED <<kind, utf8, clean, migrationSchema, tableLock, migrationLock, migrationRelease, mode, known, cause>>
  BY DEF Migration!recordBaseline
<1>2. migrationLock = c /\ q \in DOMAIN Package /\ Migration!loadMigrations(q) /\ MigrationTypes /\ DbOK /\ CommandOK(c)
  BY <1>1, RunsLocked
<1>3. ~HasLedger /\ kind = "legacy" /\ utf8 = TRUE /\ migrationSchema = <<Baseline>>
  BY <1>1, <1>2 DEF CommandOK, DbOK
<1>4. /\ Package[q][1] = Baseline /\ Len(Package[q]) \in Nat /\ Len(Package[q]) > 0
      /\ Baseline \in Migration!Migration
  BY <1>2, Packages
<1>5. migrationLedger' = <<Baseline>> /\ migrationLedger' \in Entries /\ Len(migrationLedger') = 1 /\ migrationLedger' # <<>>
  BY <1>1, <1>4 DEF Entries
<1>6. Chain(migrationLedger', q)
  BY <1>4, <1>5 DEF Chain
<1>7. HasLedger'
  BY <1>5, Packages DEF HasLedger
<1>8. DbOK'
  <2>1. (\E r \in DOMAIN Package : Migration!loadMigrations(r) /\ Chain(migrationLedger, r))'
    BY <1>2, <1>6 DEF Chain, Migration!loadMigrations
  <2>2. ~(Len(migrationSchema') >= 2) /\ migrationLedger' = migrationSchema'
    BY <1>1, <1>3, <1>5
  <2>3. tableLock' # None => migrationLock' = tableLock'
    BY <1>1, <1>2 DEF DbOK
  <2>4. kind' = "legacy" /\ utf8' = TRUE
    BY <1>1, <1>3
  <2>5. QED
    BY <1>5, <1>7, <2>1, <2>2, <2>3, <2>4 DEF DbOK
<1>9. "read" \in MigrationStates \ {"off", "waiting"}
  BY DEF MigrationStates
<1>10. /\ migrationSchema' \in Entries /\ known' \in [Commands -> Entries]
       /\ \A d \in Commands \ {c} : known'[d] = known[d]
  BY <1>1, <1>2 DEF MigrationTypes
<1>11. QED
  <2>1. migrationPc[c] # "off" /\ migrationLock' = c /\ tableLock' \in {tableLock, None, c}
    BY <1>1, <1>2
  <2> HIDE DEF q
  <2>2. QED
    BY <1>1, <1>2, <1>5, <1>7, <1>8, <1>9, <1>10, <2>1, CommandGoesOn

\* The ledger matches the release of the command only as a beginning of its chain.
LEMMA CommandMatches ==
    ASSUME MigrationInv, NEW c \in Commands, Migration!applyRemaining(c)
    PROVE  MigrationInv'
<1> DEFINE q == migrationRelease[c]
<1>1. CASE Migration!End(c, "mismatch") /\ UNCHANGED known
  BY <1>1, CommandStops DEF Migration!applyRemaining, Migration!db
<1>2. CASE /\ Migration!Matches(c) /\ known' = [known EXCEPT ![c] = migrationLedger] /\ Migration!To(c, "next")
           /\ UNCHANGED <<cause, migrationLock, tableLock>>
  <2>1. /\ migrationPc[c] = "read"
        /\ UNCHANGED <<kind, utf8, clean, migrationSchema, migrationLedger, migrationRelease, mode>>
    BY DEF Migration!applyRemaining, Migration!db
  <2>2. migrationLock = c /\ q \in DOMAIN Package /\ Migration!loadMigrations(q) /\ MigrationTypes /\ DbOK /\ CommandOK(c)
    BY <2>1, RunsLocked
  <2>3. HasLedger
    BY <2>1, <2>2 DEF CommandOK
  <2>4. migrationLedger \in Entries
    BY <2>2, <2>3 DEF HasLedger, MigrationTypes
  <2>5. PICK r \in DOMAIN Package : Migration!loadMigrations(r) /\ Chain(migrationLedger, r)
    BY <2>2, <2>3 DEF DbOK
  <2>6. Chain(migrationLedger, q)
    <3>1. \A i \in 1..Len(migrationLedger) : \E j \in 1..Len(Package[q]) : Package[q][j] = migrationLedger[i]
      BY <1>2 DEF Migration!Matches
    <3> HIDE DEF q
    <3>2. QED
      BY <2>2, <2>4, <2>5, <3>1, MatchesIsChain
  <2>7. /\ known' \in [Commands -> Entries] /\ known'[c] = migrationLedger'
        /\ \A d \in Commands \ {c} : known'[d] = known[d]
    BY <1>2, <2>1, <2>2, <2>4 DEF MigrationTypes
  <2>8. DbOK' /\ HasLedger'
    <3>1. tableLock' # None => migrationLock' = tableLock'
      BY <1>2, <2>2 DEF DbOK
    <3>2. DbOK'
      BY <2>1, <2>2, <3>1, DbKept
    <3>3. QED
      BY <2>1, <2>3, <3>2 DEF HasLedger
  <2>9. "next" \in MigrationStates \ {"off", "waiting"}
    BY DEF MigrationStates
  <2>10. migrationSchema' \in Entries /\ migrationLedger' \in Entries /\ Chain(migrationLedger', q)
    BY <2>1, <2>2, <2>4, <2>6 DEF MigrationTypes
  <2>11. Migration!To(c, "next") /\ UNCHANGED <<cause, migrationLock, tableLock>>
    BY <1>2
  <2>12. QED
    BY <2>1, <2>2, <2>7, <2>8, <2>9, <2>10, <2>11, CommandGoesOn
<1>3. QED
  BY <1>1, <1>2 DEF Migration!applyRemaining

\* The next migration of the chain; 0002 only with light_points locked and clean.
LEMMA CommandBegins ==
    ASSUME MigrationInv, NEW c \in Commands, Migration!begin(c)
    PROVE  MigrationInv'
<1> DEFINE q == migrationRelease[c]
           i == Migration!Following(c)
<1>1. CASE Migration!End(c, "preflight")
  BY <1>1, CommandStops DEF Migration!begin, Migration!db
<1>2. CASE /\ Migration!PreflightAgain(i) /\ Migration!To(c, "applying")
           /\ tableLock' = (IF i = 2 THEN c ELSE tableLock) /\ UNCHANGED <<cause, migrationLock>>
  <2>1. /\ migrationPc[c] = "next" /\ Migration!Remaining(c) # {}
        /\ UNCHANGED <<kind, utf8, clean, migrationSchema, migrationLedger, migrationRelease, mode, known>>
    BY DEF Migration!begin, Migration!db
  <2>2. migrationLock = c /\ q \in DOMAIN Package /\ Migration!loadMigrations(q) /\ MigrationTypes /\ DbOK /\ CommandOK(c)
    BY <2>1, RunsLocked
  <2>3. HasLedger /\ known[c] = migrationLedger /\ Chain(migrationLedger, q)
    BY <2>1, <2>2 DEF CommandOK
  <2>4. known[c] \in Entries
    BY <2>2 DEF MigrationTypes
  <2>5. Len(migrationLedger) < Len(Package[q]) /\ i = Len(migrationLedger) + 1
    <3>1. Chain(known[c], q)
      BY <2>3
    <3> HIDE DEF i
    <3>2. QED
      BY <2>1, <2>2, <2>3, <2>4, <3>1, FollowingIsNext DEF i
  <2>6. ASSUME Len(migrationLedger) = 1 PROVE tableLock' = c /\ clean = TRUE
    <3>1. i = 2
      BY <2>5, <2>6
    <3> HIDE DEF i
    <3>2. QED
      BY <1>2, <2>2, <3>1 DEF Migration!PreflightAgain, MigrationTypes
  <2>7. DbOK' /\ HasLedger'
    <3> HIDE DEF i
    <3>1. tableLock' # None => migrationLock' = tableLock'
      BY <1>2, <2>2 DEF DbOK
    <3>2. DbOK'
      BY <2>1, <2>2, <3>1, DbKept
    <3>3. QED
      BY <2>1, <2>3, <3>2 DEF HasLedger
  <2>8. "applying" \in MigrationStates \ {"off", "waiting"}
    BY DEF MigrationStates
  <2>9. /\ migrationSchema' \in Entries /\ migrationLedger' \in Entries \cup {None} /\ known' \in [Commands -> Entries]
        /\ known'[c] = migrationLedger' /\ Chain(migrationLedger', q)
        /\ \A d \in Commands \ {c} : known'[d] = known[d]
    BY <2>1, <2>2, <2>3 DEF MigrationTypes
  <2>10. /\ Len(migrationLedger') < Len(Package[q])
         /\ Len(migrationLedger') = 1 => tableLock' = c /\ clean = TRUE
    BY <2>1, <2>5, <2>6
  <2>11. tableLock' \in {tableLock, None, c} /\ Migration!To(c, "applying") /\ UNCHANGED <<cause, migrationLock>>
    <3> HIDE DEF i
    <3>1. QED
      BY <1>2
  <2> HIDE DEF i
  <2>12. QED
    BY <2>1, <2>2, <2>7, <2>8, <2>9, <2>10, <2>11, CommandGoesOn
<1>3. QED
  BY <1>1, <1>2 DEF Migration!begin

\* The next entry of the chain is never there already, so it is appended.
LEMMA CommandCommits ==
    ASSUME MigrationInv, NEW c \in Commands, Migration!commit(c)
    PROVE  MigrationInv'
<1> DEFINE q == migrationRelease[c]
           n == Len(migrationLedger)
           mig == Package[q][Migration!Following(c)]
<1>1. migrationPc[c] = "applying" /\ UNCHANGED <<kind, utf8, clean, migrationRelease, mode>>
  BY DEF Migration!commit
<1>2. migrationLock = c /\ q \in DOMAIN Package /\ Migration!loadMigrations(q) /\ MigrationTypes /\ DbOK /\ CommandOK(c)
  BY <1>1, RunsLocked
<1>3. /\ HasLedger /\ known[c] = migrationLedger /\ Chain(migrationLedger, q) /\ n < Len(Package[q])
      /\ n = 1 => clean = TRUE
      /\ migrationLedger = migrationSchema /\ kind # "unknown" /\ utf8 = TRUE
  BY <1>1, <1>2 DEF CommandOK, DbOK
<1>4. known[c] \in Entries /\ migrationLedger \in Entries /\ n \in Nat /\ Len(Package[q]) \in Nat
  <2>1. known[c] \in Entries
    BY <1>2 DEF MigrationTypes
  <2>2. QED
    BY <1>2, <1>3, <2>1, LenProperties, Packages DEF Entries
<1>5. mig = Package[q][n + 1] /\ mig.version = n + 1 /\ mig \in Migration!Migration
  <2>1. Migration!Following(c) = n + 1
    <3>1. Chain(known[c], q) /\ Len(known[c]) # Len(Package[q])
      BY <1>3, <1>4
    <3> HIDE DEF q
    <3>2. Migration!Following(c) = Len(known[c]) + 1
      BY <1>2, <1>4, <3>1, FollowingIsNext DEF q
    <3>3. QED
      BY <1>3, <3>2
  <2>2. n + 1 \in 1..Len(Package[q])
    BY <1>3, <1>4
  <2>3. Package[q][n + 1].version = n + 1
    BY <1>2, <2>2 DEF Migration!loadMigrations
  <2>4. Package[q][n + 1] \in Migration!Migration
    BY <1>2, <2>2, Packages, ElementOfSeq DEF Entries
  <2>5. QED
    BY <2>1, <2>3, <2>4
<1> HIDE DEF mig
<1>6. \A i \in 1..n : migrationLedger[i].version = i
  BY <1>2, <1>3, <1>4 DEF Chain, Migration!loadMigrations
<1>7. ~\E i \in 1..Len(migrationLedger) : migrationLedger[i].version = mig.version
  BY <1>4, <1>5, <1>6
<1>8. /\ migrationSchema' = Append(migrationSchema, mig) /\ migrationLedger' = Append(migrationLedger, mig)
      /\ known' = [known EXCEPT ![c] = Append(@, mig)]
      /\ Migration!To(c, "next") /\ tableLock' = None /\ UNCHANGED <<cause, migrationLock>>
  BY <1>7 DEF Migration!commit, mig
<1>9. /\ migrationLedger' \in Entries /\ migrationLedger' # <<>> /\ Len(migrationLedger') = n + 1
      /\ \A i \in 1..n : migrationLedger'[i] = migrationLedger[i]
      /\ migrationLedger'[n + 1] = mig
  BY <1>4, <1>5, <1>8, AppendProperties DEF Entries
<1>10. migrationSchema' = migrationLedger' /\ migrationSchema' \in Entries
  BY <1>3, <1>8, <1>9
<1> HIDE DEF n
<1>11. Chain(migrationLedger', q)
  <2>1. \A i \in 1..n : migrationLedger'[i] = Package[q][i]
    BY <1>3, <1>9 DEF Chain, n
  <2>2. \A i \in 1..(n + 1) : migrationLedger'[i] = Package[q][i]
    BY <1>4, <1>5, <1>9, <2>1
  <2>3. QED
    BY <1>3, <1>4, <1>9, <2>2 DEF Chain
<1>12. /\ known' \in [Commands -> Entries] /\ known'[c] = migrationLedger'
       /\ \A d \in Commands \ {c} : known'[d] = known[d]
  <2>1. known \in [Commands -> Entries]
    BY <1>2 DEF MigrationTypes
  <2>2. QED
    BY <1>3, <1>8, <1>9, <2>1
<1>13. HasLedger'
  BY <1>9, Packages DEF HasLedger
<1>14. DbOK'
  <2>1. (\E r \in DOMAIN Package : Migration!loadMigrations(r) /\ Chain(migrationLedger, r))'
    BY <1>2, <1>11 DEF Chain, Migration!loadMigrations
  <2>2. Len(migrationSchema') >= 2 => clean = TRUE
    <3>1. n >= 2 => clean = TRUE
      BY <1>2, <1>3 DEF DbOK, n
    <3>2. n = 1 => clean = TRUE
      BY <1>3
    <3>3. n \in Nat
      BY <1>4
    <3>4. n >= 1 => clean = TRUE
      BY <3>1, <3>2, <3>3
    <3>5. Len(migrationSchema') = n + 1
      BY <1>9, <1>10
    <3>6. QED
      BY <3>3, <3>4, <3>5
  <2>3. kind = "empty" => clean = TRUE
    BY <1>2 DEF DbOK
  <2>4. QED
    BY <1>1, <1>3, <1>8, <1>9, <1>10, <1>13, <2>1, <2>2, <2>3 DEF DbOK
<1>15. "next" \in MigrationStates \ {"off", "waiting"} /\ migrationPc[c] # "off"
  BY <1>1 DEF MigrationStates
<1> HIDE DEF q
<1>16. QED
  BY <1>1, <1>2, <1>8, <1>9, <1>10, <1>11, <1>12, <1>13, <1>14, <1>15, CommandGoesOn DEF q

\* The previous version writes only while nobody applies 0002.
LEMMA LegacyWrites ==
    ASSUME MigrationInv, Migration!legacyWrite
    PROVE  MigrationInv'
<1>1. /\ kind = "legacy" /\ Len(migrationSchema) = 1 /\ tableLock = None /\ clean' = ~clean
      /\ UNCHANGED <<kind, utf8, migrationSchema, migrationLedger, tableLock, migrationLock>>
      /\ UNCHANGED <<migrationPc, migrationRelease, mode, known, cause>>
  BY DEF Migration!legacyWrite
<1>2. MigrationTypes /\ DbOK
  BY DEF MigrationInv
<1>3. MigrationTypes'
  BY <1>1, <1>2 DEF MigrationTypes
<1>4. HasLedger' = HasLedger
  BY <1>1 DEF HasLedger
<1>5. \A r : Chain(migrationLedger, r)' <=> Chain(migrationLedger, r)
  BY <1>1 DEF Chain
<1>6. DbOK'
  <2>1. kind' # "empty" /\ (~HasLedger' => migrationSchema' = IF kind' = "legacy" THEN <<Baseline>> ELSE <<>>)
    BY <1>1, <1>2, <1>4 DEF DbOK
  <2>2. HasLedger' => /\ migrationLedger' = migrationSchema' /\ kind' # "unknown" /\ utf8' = TRUE
                      /\ kind' = "legacy" => migrationLedger' # <<>>
    BY <1>1, <1>2, <1>4 DEF DbOK
  <2>3. HasLedger => \E r \in DOMAIN Package : Migration!loadMigrations(r) /\ Chain(migrationLedger, r)
    BY <1>2 DEF DbOK
  <2>4. HasLedger' => (\E r \in DOMAIN Package : Migration!loadMigrations(r) /\ Chain(migrationLedger, r))'
    BY <1>1, <1>4, <2>3 DEF Chain, Migration!loadMigrations
  <2>5. Len(migrationSchema') = 1 /\ tableLock' = None
    BY <1>1
  <2>6. QED
    BY <2>1, <2>2, <2>4, <2>5 DEF DbOK
<1>7. ASSUME NEW c \in Commands PROVE CommandOK(c)'
  <2>1. CommandOK(c) /\ c # None
    BY PartsAssumption DEF MigrationInv, Migration!PackageAssumption
  <2>2. ~Interfered(c)'
    BY <1>1, <2>1 DEF CommandOK, Interfered
  <2>3. migrationPc[c] = "applying" => Len(migrationLedger) # 1
    BY <1>1, <2>1 DEF CommandOK
  <2>4. QED
    BY <1>1, <1>4, <1>5, <2>1, <2>2, <2>3 DEF CommandOK, Migration!loadMigrations
<1>8. QED
  BY <1>3, <1>6, <1>7 DEF MigrationInv

LEMMA MigrationNext == MigrationInv /\ [PartsNext]_partsVars => MigrationInv'
<1> SUFFICES ASSUME MigrationInv, [PartsNext]_partsVars PROVE MigrationInv'
  OBVIOUS
<1>1. CASE Migration!Next
  <2>1. CASE Migration!legacyWrite
    BY <2>1, LegacyWrites
  <2>2. ASSUME NEW c \in Commands, Migration!start(c) \/ Migration!crash(c) \/ Migration!command(c)
        PROVE  MigrationInv'
    <3>1. CASE Migration!crash(c)
      BY <3>1, CommandStops DEF Migration!crash, Migration!db
    <3>2. CASE Migration!sqlFails(c)
      BY <3>2, CommandStops DEF Migration!sqlFails, Migration!db
    <3>3. CASE Migration!finish(c)
      BY <3>3, CommandStops DEF Migration!finish, Migration!db
    <3>4. QED
      BY <2>2, <3>1, <3>2, <3>3, CommandStarts, CommandLocks, CommandRuns, CommandAdopts, CommandRecords,
         CommandMatches, CommandBegins, CommandCommits DEF Migration!command
  <2>3. QED
    BY <1>1, <2>1, <2>2 DEF Migration!Next
<1>2. CASE UNCHANGED migrationVars
  <2>1. /\ UNCHANGED <<kind, utf8, migrationSchema, migrationLedger, clean, tableLock, migrationLock>>
        /\ UNCHANGED <<migrationPc, migrationRelease, mode, known, cause>>
    BY <1>2 DEF migrationVars
  <2>2. MigrationTypes'
    BY <2>1 DEF MigrationInv, MigrationTypes
  <2>3. tableLock' # None => migrationLock' = tableLock'
    BY <2>1 DEF MigrationInv, DbOK
  <2>4. DbOK'
    BY <2>1, <2>3, DbKept DEF MigrationInv
  <2>5. \A c \in Commands : CommandOK(c)'
    BY <2>1, CommandKept DEF MigrationInv
  <2>6. QED
    BY <2>2, <2>4, <2>5 DEF MigrationInv
<1>3. QED
  BY <1>1, <1>2 DEF PartsNext, partsVars

\* A beginning of the chain is a prefix of the package.
LEMMA ChainIsPrefix ==
    ASSUME NEW s \in Entries, NEW r \in DOMAIN Package, Chain(s, r)
    PROVE  Migration!IsPrefix(s, Package[r])
<1>1. /\ Package[r] \in Entries /\ Len(s) \in Nat /\ Len(Package[r]) \in Nat /\ Len(s) <= Len(Package[r])
      /\ \A i \in 1..Len(s) : s[i] = Package[r][i]
  BY Packages, LenProperties DEF Entries, Chain
<1>2. /\ SubSeq(s, 1, Len(s)) = [i \in 1..Len(s) |-> s[i]]
      /\ SubSeq(Package[r], 1, Len(s)) = [i \in 1..Len(s) |-> Package[r][i]]
  BY <1>1 DEF Entries
<1>3. QED
  BY <1>1, <1>2 DEF Migration!IsPrefix

\* Through any number of commands of any releases, crashed anywhere, the ledger says
\* what the schema is, a server starts only on the schema of its release, only a
\* recognised database gets a ledger, and commands do not make each other fail
\* (migrate.ts, migrationPreflight.ts).
THEOREM MigrationsAreSound == PartsSpec => []MigrationsSound
<1>1. PartsInit => MigrationInv
  BY MigrationStart DEF PartsInit
<1>2. MigrationInv => MigrationsSound
  <2> SUFFICES ASSUME MigrationInv
               PROVE  /\ Migration!TypeOK /\ Migration!LedgerTruthful /\ Migration!ServerFits
                      /\ Migration!OnlyRecognized /\ Migration!NoInterference
    BY DEF MigrationsSound
  <2>1. MigrationTypes /\ DbOK /\ \A c \in Commands : CommandOK(c)
    BY DEF MigrationInv
  <2>2. Migration!TypeOK
    BY <2>1 DEF MigrationTypes, DbOK, CommandOK, Entries, Migration!TypeOK
  <2>3. Migration!LedgerTruthful
    <3>1. SUFFICES ASSUME HasLedger
                   PROVE  /\ migrationLedger = migrationSchema
                          /\ \E r \in DOMAIN Package :
                                 Migration!loadMigrations(r) /\ Migration!IsPrefix(migrationLedger, Package[r])
      BY DEF Migration!LedgerTruthful, HasLedger
    <3>2. migrationLedger \in Entries
      BY <2>1, <3>1 DEF MigrationTypes, HasLedger
    <3>3. PICK r \in DOMAIN Package : Migration!loadMigrations(r) /\ Chain(migrationLedger, r)
      BY <2>1, <3>1 DEF DbOK
    <3>4. QED
      BY <2>1, <3>1, <3>2, <3>3, ChainIsPrefix DEF DbOK
  <2>4. Migration!ServerFits
    <3> SUFFICES ASSUME NEW r \in DOMAIN Package, HasLedger, migrationLedger = Package[r]
                 PROVE  migrationSchema = Package[r]
      BY DEF Migration!ServerFits, Migration!assertMigrationsCurrent, HasLedger
    <3>1. QED
      BY <2>1 DEF DbOK
  <2>5. Migration!OnlyRecognized
    <3>1. kind = "unknown" \/ ~utf8 => ~HasLedger
      BY <2>1 DEF DbOK
    <3>2. kind = "legacy" /\ HasLedger => migrationLedger # <<>> /\ migrationLedger = migrationSchema
      BY <2>1 DEF DbOK
    <3>3. Len(migrationSchema) >= 2 => clean
      BY <2>1 DEF DbOK
    <3>4. QED
      BY <3>1, <3>2, <3>3 DEF Migration!OnlyRecognized, HasLedger
  <2>6. Migration!NoInterference
    BY <2>1 DEF CommandOK, Interfered, Migration!NoInterference
  <2>7. QED
    BY <2>2, <2>3, <2>4, <2>5, <2>6
<1>3. QED
  BY <1>1, <1>2, MigrationNext, PTL DEF PartsSpec

-----------------------------------------------------------------------------
(* The backup scheduler.                                                   *)

Journals == Seq(Scheduler!Event)
IsStart(e)  == e.kind = "attempt_started"
IsFinish(e) == e.kind = "attempt_finished"
Open(f)   == Len(f) > 0 /\ IsStart(f[Len(f)])
Closed(f) == Len(f) > 0 => IsFinish(f[Len(f)])

\* A start follows a finish; a finish closes the start before it.
PairOK(f, i) ==
    \/ /\ IsStart(f[i]) /\ f[i].run = i /\ f[i].state = "none" /\ (i > 1 => IsFinish(f[i - 1]))
       /\ f[i].attempt \in 1..BACKUP_MAX_ATTEMPTS_PER_SLOT
    \/ /\ IsFinish(f[i]) /\ i > 1 /\ IsStart(f[i - 1]) /\ f[i].run = i - 1
       /\ f[i].slot = f[i - 1].slot /\ f[i].attempt = f[i - 1].attempt
       /\ f[i].retry = 0 \/ f[i].retry >= f[i - 1].at + BACKUP_RETRY_DELAY_MS

\* What a record of slot s, attempt a, at time t, may have before it.
Before(e, s, a, t, starts) ==
    e.slot = s => /\ e.attempt <= a /\ e.state # "complete"
                  /\ starts /\ IsStart(e) => t >= e.at + BACKUP_RETRY_DELAY_MS

JournalOK(f) ==
    /\ \A i \in 1..Len(f) : PairOK(f, i)
    /\ \A i, j \in 1..Len(f) :
          i < j => f[i].at <= f[j].at /\ Before(f[i], f[j].slot, f[j].attempt, f[j].at, IsStart(f[j]))

SchedulerTypes ==
    /\ schedulerNow \in 0..SchedulerMaxTime
    /\ file \in Journals /\ Len(file) <= MAX_SCHEDULER_JOURNAL_BYTES
    /\ torn \in BOOLEAN /\ entry \in {"absent", "volatile", "durable"} /\ durable \in 0..Len(file)
    /\ schedulerLock \in Processes \cup {Nobody}
    /\ schedulerPc \in [Processes -> {"down", "reconciling", "deciding", "starting", "running", "finishing"}]
    /\ schedulerJob \in [Processes -> [slot : Scheduler!Slots, attempt : Nat, run : Nat, state : Scheduler!Results \cup {"none"}]]
    /\ executed \in [Scheduler!Slots -> Nat] /\ schedulerFaults \in 0..SchedulerMaxFaults
    /\ \A p \in Processes : schedulerPc[p] # "down" <=> schedulerLock = p

\* The file of the journal is not lost with its directory.
EntryStays == FsyncKeepsEntry \/ ~PowerMayFail

\* What no power loss takes: nothing while the directory entry is not durable.
DurableOK ==
    /\ FsyncKeepsEntry /\ entry # "durable" => durable = 0
    /\ entry = "absent" => file = <<>>
    /\ \A i \in 1..Len(file) : file[i].at <= schedulerNow

\* Each execution has a durable start that counts it.
ExecutedOK ==
    EntryStays => \A s \in Scheduler!Slots :
        executed[s] = 0 \/ \E i \in 1..durable : IsStart(file[i]) /\ file[i].slot = s /\ executed[s] <= file[i].attempt

\* What a process knows of the journal while it has the lock.
ProcessOK(p) ==
    LET j == schedulerJob[p] IN
    /\ schedulerPc[p] \in {"deciding", "starting"} => Closed(file)
    /\ schedulerPc[p] = "starting" =>
          /\ j.run = Len(file) + 1 /\ j.attempt \in 1..BACKUP_MAX_ATTEMPTS_PER_SLOT
          /\ \A i \in 1..Len(file) : Before(file[i], j.slot, j.attempt, schedulerNow, TRUE)
    /\ schedulerPc[p] \in {"running", "finishing"} =>
          Open(file) /\ file[Len(file)].slot = j.slot /\ file[Len(file)].attempt = j.attempt /\ j.run = Len(file)
    /\ schedulerPc[p] = "running" => durable = Len(file)
    /\ EntryStays /\ schedulerPc[p] \in {"starting", "running"} => executed[j.slot] < j.attempt

SchedulerInv == SchedulerTypes /\ JournalOK(file) /\ DurableOK /\ ExecutedOK /\ \A p \in Processes : ProcessOK(p)

\* A set of indices that is not empty has a last one.
LEMMA LastIndex ==
    ASSUME NEW n \in Nat, NEW S, S # {}, S \subseteq 1..n
    PROVE  \E i \in S : \A j \in S : j <= i
<1> DEFINE Above(i) == {j \in S : j > i}
           T == {Above(i) : i \in S}
<1>1. IsFiniteSet(S)
  <2>1. IsFiniteSet(1..n)
    BY FS_Interval
  <2>2. QED
    BY <2>1, FS_Subset
<1>2. \A i \in S : i \in Nat
  OBVIOUS
<1>3. T \subseteq FiniteSubsetsOf(S) /\ T # {}
  <2>1. T \subseteq SUBSET S /\ T # {}
    OBVIOUS
  <2> HIDE DEF T
  <2>2. QED
    BY <1>1, <2>1, FS_FiniteSubsetsOfFinite
<1>4. PICK A \in T : \A B \in T : <<B, A>> \notin StrictSubsetOrdering(S)
  <2> HIDE DEF T
  <2> QED
    BY <1>3, FS_StrictSubsetOrderingWellFounded, WFMin
<1>5. PICK i \in S : A = Above(i)
  BY <1>4
<1>6. ASSUME NEW j \in S, j > i PROVE FALSE
  <2>1. Above(j) \subseteq Above(i) /\ j \in Above(i) /\ j \notin Above(j)
    <3>1. i \in Nat /\ j \in Nat
      BY <1>2
    <3>2. \A k \in S : k > j => k > i
      BY <1>2, <1>6, <3>1
    <3>3. ~(j > j)
      BY <3>1
    <3> QED
      BY <1>6, <3>2, <3>3
  <2>2. Above(j) \in T
    OBVIOUS
  <2>3. Above(j) \subseteq S /\ Above(i) \subseteq S
    OBVIOUS
  <2> HIDE DEF Above, T
  <2>4. <<Above(j), Above(i)>> \in StrictSubsetOrdering(S)
    BY <2>1, <2>3 DEF StrictSubsetOrdering
  <2> QED
    BY <1>4, <1>5, <2>2, <2>4
<1>7. \A j \in S : ~(j > i)
  BY <1>6
<1>8. QED
  BY <1>2, <1>7

LEMMA SlotOfTime == \A t \in 0..SchedulerMaxTime : t \div SlotLength \in Scheduler!Slots
<1> SUFFICES ASSUME NEW t \in 0..SchedulerMaxTime PROVE t \div SlotLength \in Scheduler!Slots
  OBVIOUS
<1>1. SlotLength \in Nat \ {0} /\ SchedulerMaxTime \in Nat /\ t \in Nat /\ t <= SchedulerMaxTime
  BY PartsAssumption DEF Scheduler!SchedulerAssumption
<1>2. t \div SlotLength \in Nat /\ t \div SlotLength <= SchedulerMaxTime \div SlotLength
  BY <1>1
<1>3. QED
  BY <1>1, <1>2 DEF Scheduler!Slots

LEMMA EventTypes ==
    ASSUME NEW f \in Journals, NEW i \in 1..Len(f)
    PROVE  /\ f[i] \in Scheduler!Event /\ f[i].slot \in Scheduler!Slots /\ f[i].attempt \in Nat /\ f[i].run \in Nat
           /\ f[i].at \in 0..SchedulerMaxTime /\ f[i].state \in Scheduler!Results \cup {"none"} /\ f[i].retry \in Nat
<1>1. f[i] \in Scheduler!Event
  BY ElementOfSeq DEF Journals
<1>2. QED
  BY <1>1 DEF Scheduler!Event

\* A beginning of a journal is one.
LEMMA JournalPrefix ==
    ASSUME NEW f \in Journals, JournalOK(f), NEW k \in 0..Len(f), NEW g, g = SubSeq(f, 1, k)
    PROVE  g \in Journals /\ Len(g) = k /\ JournalOK(g) /\ \A i \in 1..k : g[i] = f[i]
<1>1. Len(f) \in Nat /\ k \in Nat /\ k <= Len(f)
  BY LenProperties DEF Journals
<1>2. g \in Journals /\ Len(g) = k
  BY <1>1 DEF Journals
<1>3. \A i \in 1..k : g[i] = f[i] /\ i \in 1..Len(f)
  BY <1>1 DEF Journals
<1>4. \A i \in 1..k : PairOK(g, i)
  <2> SUFFICES ASSUME NEW i \in 1..k PROVE PairOK(g, i)
    OBVIOUS
  <2>1. PairOK(f, i) /\ g[i] = f[i]
    BY <1>3 DEF JournalOK
  <2>2. i > 1 => g[i - 1] = f[i - 1]
    BY <1>1, <1>3
  <2>3. QED
    BY <2>1, <2>2 DEF PairOK
<1>5. QED
  BY <1>2, <1>3, <1>4 DEF JournalOK

\* The record e may follow the journal f.
Suits(f, e) ==
    /\ e \in Scheduler!Event /\ PairOK(Append(f, e), Len(f) + 1)
    /\ \A i \in 1..Len(f) : f[i].at <= e.at /\ Before(f[i], e.slot, e.attempt, e.at, IsStart(e))

\* The journal g is f and the record e.
Grown(f, e, g) ==
    /\ g \in Journals /\ Len(g) = Len(f) + 1 /\ JournalOK(g)
    /\ g[Len(f) + 1] = e /\ \A i \in 1..Len(f) : g[i] = f[i]

\* A record is added that suits the ones before it.
LEMMA JournalGrows ==
    ASSUME NEW f \in Journals, JournalOK(f), NEW e, Suits(f, e), NEW g, g = Append(f, e)
    PROVE  Grown(f, e, g)
<1>0. /\ e \in Scheduler!Event /\ PairOK(g, Len(f) + 1)
      /\ \A i \in 1..Len(f) : f[i].at <= e.at /\ Before(f[i], e.slot, e.attempt, e.at, IsStart(e))
  BY DEF Suits
<1>1. Len(f) \in Nat
  BY LenProperties DEF Journals
<1>2. /\ g \in Journals /\ Len(g) = Len(f) + 1 /\ g[Len(f) + 1] = e /\ \A i \in 1..Len(f) : g[i] = f[i]
  BY <1>0, AppendProperties DEF Journals
<1>3. \A i \in 1..Len(g) : PairOK(g, i)
  <2> SUFFICES ASSUME NEW i \in 1..Len(g), i # Len(f) + 1 PROVE PairOK(g, i)
    BY <1>0, <1>2
  <2>1. i \in 1..Len(f) /\ g[i] = f[i] /\ PairOK(f, i)
    BY <1>1, <1>2 DEF JournalOK
  <2>2. i > 1 => g[i - 1] = f[i - 1]
    BY <1>1, <1>2, <2>1
  <2>3. QED
    BY <2>1, <2>2 DEF PairOK
<1>4. ASSUME NEW i \in 1..Len(g), NEW j \in 1..Len(g), i < j
      PROVE  g[i].at <= g[j].at /\ Before(g[i], g[j].slot, g[j].attempt, g[j].at, IsStart(g[j]))
  <2>1. i \in 1..Len(f) /\ g[i] = f[i]
    BY <1>1, <1>2, <1>4
  <2>2. CASE j = Len(f) + 1
    BY <1>0, <1>2, <2>1, <2>2
  <2>3. CASE j # Len(f) + 1
    <3>1. j \in 1..Len(f) /\ g[j] = f[j]
      BY <1>1, <1>2, <2>3
    <3>2. QED
      BY <1>4, <2>1, <3>1 DEF JournalOK
  <2>4. QED
    BY <2>2, <2>3
<1>5. QED
  BY <1>2, <1>3, <1>4 DEF JournalOK, Grown

\* In a journal in order at most the last attempt is open.
LEMMA OnlyLastOpen ==
    ASSUME file \in Journals, JournalOK(file)
    PROVE  /\ Scheduler!Readable
           /\ Scheduler!startedWithoutFinish = (IF Open(file) THEN {Len(file)} ELSE {})
           /\ Closed(file) <=> ~Open(file)
           /\ \A i \in 1..Len(file) : IsStart(file[i]) /\ i < Len(file) => IsFinish(file[i + 1])
<1>1. Len(file) \in Nat /\ DOMAIN file = 1..Len(file)
  BY LenProperties DEF Journals
<1>2. \A i \in 1..Len(file) : IsStart(file[i]) \/ IsFinish(file[i])
  BY DEF JournalOK, PairOK
<1>3. Scheduler!Readable
  BY <1>1, <1>2 DEF Scheduler!Readable, Scheduler!Of, IsStart, IsFinish
<1>4. \A i \in 1..Len(file) : ~(IsStart(file[i]) /\ IsFinish(file[i]))
  BY DEF IsStart, IsFinish
<1>5. Closed(file) <=> ~Open(file)
  <2>1. CASE Len(file) > 0
    <3>1. Len(file) \in 1..Len(file)
      BY <1>1, <2>1
    <3>2. QED
      BY <1>2, <1>4, <2>1, <3>1 DEF Open, Closed
  <2>2. QED
    BY <2>1 DEF Open, Closed
<1>6. ASSUME NEW i \in 1..Len(file), IsStart(file[i]), i < Len(file) PROVE IsFinish(file[i + 1]) /\ file[i + 1].run = file[i].run
  <2>1. i + 1 \in 1..Len(file) /\ i + 1 > 1 /\ (i + 1) - 1 = i
    BY <1>1, <1>6
  <2>2. PairOK(file, i) /\ PairOK(file, i + 1)
    BY <2>1 DEF JournalOK
  <2>3. ~IsFinish(file[i])
    BY <1>4, <1>6
  <2>4. file[i].run = i
    BY <2>2, <2>3 DEF PairOK
  <2>5. QED
    BY <2>1, <2>2, <2>3, <2>4 DEF PairOK
<1>7. ASSUME NEW i \in 1..Len(file), IsStart(file[i]), NEW j \in 1..Len(file), IsFinish(file[j]), i = Len(file)
      PROVE  file[j].run # file[i].run
  <2>1. PairOK(file, i) /\ PairOK(file, j) /\ ~IsFinish(file[i]) /\ ~IsStart(file[j])
    BY <1>4, <1>7 DEF JournalOK
  <2>2. file[i].run = i /\ file[j].run = j - 1
    BY <2>1 DEF PairOK
  <2>3. QED
    BY <1>1, <1>7, <2>2
<1>8. Scheduler!startedWithoutFinish = {i \in 1..Len(file) : IsStart(file[i]) /\ i = Len(file)}
  <2>1. Scheduler!Of("attempt_started") = {i \in 1..Len(file) : IsStart(file[i])}
    BY <1>1 DEF Scheduler!Of, IsStart
  <2>2. Scheduler!Of("attempt_finished") = {i \in 1..Len(file) : IsFinish(file[i])}
    BY <1>1 DEF Scheduler!Of, IsFinish
  <2>3. ASSUME NEW i \in 1..Len(file), IsStart(file[i]), i < Len(file)
        PROVE  \E j \in 1..Len(file) : IsFinish(file[j]) /\ file[j].run = file[i].run
    <3>1. i + 1 \in 1..Len(file)
      BY <1>1, <2>3
    <3>2. QED
      BY <1>6, <2>3, <3>1
  <2>4. \A i \in 1..Len(file) : IsStart(file[i]) =>
           ((\A j \in 1..Len(file) : IsFinish(file[j]) => file[j].run # file[i].run) <=> i = Len(file))
    <3> SUFFICES ASSUME NEW i \in 1..Len(file), IsStart(file[i])
                 PROVE  (\A j \in 1..Len(file) : IsFinish(file[j]) => file[j].run # file[i].run) <=> i = Len(file)
      OBVIOUS
    <3>1. CASE i = Len(file)
      BY <1>7, <3>1
    <3>2. CASE i # Len(file)
      <4>1. Len(file) \in Nat
        BY <1>1
      <4>2. i < Len(file)
        BY <3>2, <4>1
      <4>3. QED
        BY <2>3, <3>2, <4>2
    <3>3. QED
      BY <3>1, <3>2
  <2>5. QED
    BY <2>1, <2>2, <2>4 DEF Scheduler!startedWithoutFinish
<1>9. Scheduler!startedWithoutFinish = (IF Open(file) THEN {Len(file)} ELSE {})
  BY <1>1, <1>8 DEF Open
<1>10. QED
  BY <1>3, <1>5, <1>6, <1>9

LEMMA FinishSuits ==
    ASSUME SchedulerInv, Open(file), NEW e \in Scheduler!Event, IsFinish(e), e.at = schedulerNow,
           e.slot = file[Len(file)].slot, e.attempt = file[Len(file)].attempt, e.run = Len(file),
           e.retry = 0 \/ e.retry >= file[Len(file)].at + BACKUP_RETRY_DELAY_MS
    PROVE  Suits(file, e)
<1> DEFINE n == Len(file)
<1>1. /\ file \in Journals /\ JournalOK(file) /\ \A i \in 1..Len(file) : file[i].at <= schedulerNow
  BY DEF SchedulerInv, SchedulerTypes, DurableOK
<1>2. n \in Nat /\ n > 0 /\ n \in 1..n
  BY <1>1, LenProperties DEF Journals, Open
<1>3. IsStart(file[n]) /\ ~IsFinish(file[n]) /\ ~IsStart(e)
  BY DEF Open, IsStart, IsFinish
<1>4. PairOK(file, n)
  BY <1>1, <1>2 DEF JournalOK
<1>5. file[n].state = "none" /\ file[n].attempt \in Nat
  BY <1>1, <1>2, <1>3, <1>4, EventTypes DEF PairOK
<1>6. PairOK(Append(file, e), n + 1)
  <2>1. Append(file, e)[n + 1] = e /\ Append(file, e)[n] = file[n] /\ (n + 1) - 1 = n /\ n + 1 > 1
    BY <1>1, <1>2, AppendProperties DEF Journals
  <2> HIDE DEF n
  <2>2. QED
    BY <1>3, <2>1 DEF PairOK, n
<1>7. ASSUME NEW i \in 1..n PROVE file[i].at <= e.at /\ Before(file[i], e.slot, e.attempt, e.at, IsStart(e))
  <2>1. CASE i = n
    BY <1>1, <1>2, <1>3, <1>5, <2>1 DEF Before
  <2>2. CASE i # n
    <3>1. i < n
      BY <1>2, <2>2
    <3>2. Before(file[i], file[n].slot, file[n].attempt, file[n].at, IsStart(file[n]))
      BY <1>1, <1>2, <3>1 DEF JournalOK
    <3>3. QED
      BY <1>1, <1>3, <3>2 DEF Before
  <2>3. QED
    BY <2>1, <2>2
<1>8. QED
  BY <1>6, <1>7 DEF Suits

LEMMA StartSuits ==
    ASSUME SchedulerInv, Closed(file), NEW e \in Scheduler!Event, IsStart(e), e.at = schedulerNow,
           e.run = Len(file) + 1, e.state = "none", e.attempt \in 1..BACKUP_MAX_ATTEMPTS_PER_SLOT,
           \A i \in 1..Len(file) : Before(file[i], e.slot, e.attempt, schedulerNow, TRUE)
    PROVE  Suits(file, e)
<1> DEFINE n == Len(file)
<1>1. file \in Journals /\ \A i \in 1..Len(file) : file[i].at <= schedulerNow
  BY DEF SchedulerInv, SchedulerTypes, DurableOK
<1>2. n \in Nat
  BY <1>1, LenProperties DEF Journals
<1>3. PairOK(Append(file, e), n + 1)
  <2>1. Append(file, e)[n + 1] = e /\ (n + 1) - 1 = n
    BY <1>1, <1>2, AppendProperties DEF Journals
  <2>2. n + 1 > 1 => Append(file, e)[n] = file[n] /\ IsFinish(file[n])
    <3>1. SUFFICES ASSUME n + 1 > 1 PROVE Append(file, e)[n] = file[n] /\ IsFinish(file[n])
      OBVIOUS
    <3>2. n \in 1..n /\ n > 0
      BY <1>2, <3>1
    <3>3. QED
      BY <1>1, <3>2, AppendProperties DEF Journals, Closed
  <2> HIDE DEF n
  <2>3. QED
    BY <2>1, <2>2 DEF PairOK, n
<1>4. \A i \in 1..n : file[i].at <= e.at /\ Before(file[i], e.slot, e.attempt, e.at, IsStart(e))
  BY <1>1
<1>5. QED
  BY <1>3, <1>4 DEF Suits

JournalTypes ==
    /\ file \in Journals /\ Len(file) <= MAX_SCHEDULER_JOURNAL_BYTES
    /\ torn \in BOOLEAN /\ entry \in {"absent", "volatile", "durable"} /\ durable \in 0..Len(file)
FileOK == JournalTypes /\ JournalOK(file) /\ DurableOK /\ ExecutedOK

\* One record more, or none, and what is durable stays so.
LEMMA FileGrows ==
    ASSUME SchedulerInv, NEW e, Suits(file, e), file' \in {file, Append(file, e)},
           file' # file => Len(file) < MAX_SCHEDULER_JOURNAL_BYTES,
           durable' \in {durable, Len(file')}, torn' \in BOOLEAN, entry' \in {"absent", "volatile", "durable"},
           FsyncKeepsEntry /\ entry' # "durable" => durable' = 0, entry' = "absent" => file' = <<>>,
           e.at = schedulerNow, UNCHANGED <<schedulerNow, executed>>
    PROVE  FileOK'
<1>1. /\ file \in Journals /\ JournalOK(file) /\ Len(file) <= MAX_SCHEDULER_JOURNAL_BYTES /\ durable \in 0..Len(file)
      /\ MAX_SCHEDULER_JOURNAL_BYTES \in Nat /\ schedulerNow \in 0..SchedulerMaxTime /\ SchedulerMaxTime \in Nat
      /\ \A i \in 1..Len(file) : file[i].at <= schedulerNow
      /\ ExecutedOK
  BY PartsAssumption DEF SchedulerInv, SchedulerTypes, DurableOK, Scheduler!SchedulerAssumption
<1>2. Len(file) \in Nat
  BY <1>1, LenProperties DEF Journals
<1>3. /\ file' \in Journals /\ JournalOK(file') /\ Len(file') \in {Len(file), Len(file) + 1}
      /\ \A i \in 1..Len(file) : file'[i] = file[i]
      /\ \A i \in 1..Len(file') : file'[i].at <= schedulerNow
      /\ Len(file') <= MAX_SCHEDULER_JOURNAL_BYTES
  <2>1. CASE file' = file
    BY <1>1, <2>1
  <2>2. CASE file' # file
    <3>1. file' = Append(file, e) /\ e \in Scheduler!Event
      BY <2>2 DEF Suits
    <3>2. /\ file' \in Journals /\ Len(file') = Len(file) + 1 /\ JournalOK(file')
          /\ file'[Len(file) + 1] = e /\ \A i \in 1..Len(file) : file'[i] = file[i]
      <4>1. file \in Journals /\ JournalOK(file)
        BY <1>1
      <4>2. Grown(file, e, file')
        BY <3>1, <4>1, JournalGrows
      <4>3. QED
        BY <4>2 DEF Grown
    <3>3. \A i \in 1..(Len(file) + 1) : file'[i].at <= schedulerNow
      BY <1>1, <1>2, <3>2
    <3>4. QED
      BY <1>1, <1>2, <2>2, <3>2, <3>3
  <2>3. QED
    BY <2>1, <2>2
<1>4. durable' \in 0..Len(file') /\ durable <= durable'
  BY <1>1, <1>2, <1>3
<1>5. JournalTypes'
  BY <1>3, <1>4 DEF JournalTypes
<1>6. JournalOK(file)'
  BY <1>3 DEF JournalOK, PairOK
<1>7. DurableOK'
  BY <1>3 DEF DurableOK
<1>8. ExecutedOK'
  <2> SUFFICES ASSUME EntryStays, NEW s \in Scheduler!Slots, executed[s] # 0
               PROVE  \E i \in 1..durable' : IsStart(file'[i]) /\ file'[i].slot = s /\ executed[s] <= file'[i].attempt
    BY DEF ExecutedOK, IsStart
  <2>1. PICK i \in 1..durable : IsStart(file[i]) /\ file[i].slot = s /\ executed[s] <= file[i].attempt
    BY <1>1 DEF ExecutedOK
  <2>2. i \in 1..durable' /\ file'[i] = file[i]
    BY <1>1, <1>2, <1>3, <1>4
  <2>3. QED
    BY <2>1, <2>2
<1>9. QED
  BY <1>5, <1>6, <1>7, <1>8 DEF FileOK

\* An append that throws, and one that returns: then the record and all before it are durable.
LEMMA FileWritten ==
    ASSUME SchedulerInv, NEW e, Suits(file, e), e.at = schedulerNow, UNCHANGED <<schedulerNow, executed>>,
           Scheduler!Appended(e) \/ Scheduler!AppendFails(e) \/ Scheduler!JournalRefuses
    PROVE  /\ FileOK'
           /\ Scheduler!Appended(e) => file' = Append(file, e) /\ durable' = Len(file')
<1>1. Scheduler!Written(e) = Append(file, e)
  BY DEF Scheduler!Written, Scheduler!Repaired
<1>2. /\ torn \in BOOLEAN /\ entry \in {"absent", "volatile", "durable"}
      /\ FsyncKeepsEntry /\ entry # "durable" => durable = 0
      /\ entry = "absent" => file = <<>>
  BY DEF SchedulerInv, SchedulerTypes, DurableOK
<1>3. /\ Scheduler!Opened \in {"volatile", "durable"} /\ (Scheduler!Opened = "durable" => entry = "durable")
      /\ Scheduler!Synced \in {"volatile", "durable"} /\ (FsyncKeepsEntry => Scheduler!Synced = "durable")
  BY <1>2 DEF Scheduler!Opened, Scheduler!Synced
<1>4. /\ file' \in {file, Append(file, e)} /\ durable' \in {durable, Len(file')} /\ torn' \in BOOLEAN
      /\ entry' \in {"volatile", "durable"} /\ (FsyncKeepsEntry /\ entry' # "durable" => durable' = 0)
      /\ file' # file => Len(file) < MAX_SCHEDULER_JOURNAL_BYTES
  <2>1. CASE Scheduler!Appended(e)
    BY <1>1, <1>2, <1>3, <2>1 DEF Scheduler!Appended, Scheduler!HasRoom
  <2>2. CASE Scheduler!AppendFails(e)
    <3>1. Len(file) < MAX_SCHEDULER_JOURNAL_BYTES
      BY <2>2 DEF Scheduler!AppendFails, Scheduler!HasRoom
    <3>2. \/ UNCHANGED <<file, torn, durable>> /\ entry' = Scheduler!Opened
          \/ torn' = TRUE /\ UNCHANGED <<file, durable>> /\ entry' \in {Scheduler!Opened, Scheduler!Synced}
          \/ /\ file' = Append(file, e) /\ torn' = FALSE /\ UNCHANGED durable
             /\ entry' \in {Scheduler!Opened, Scheduler!Synced}
          \/ file' = Append(file, e) /\ torn' = FALSE /\ durable' = Len(file') /\ entry' = Scheduler!Synced
      BY <1>1, <2>2 DEF Scheduler!AppendFails
    <3>3. file' \in {file, Append(file, e)} /\ durable' \in {durable, Len(file')}
      BY <3>2
    <3>4. torn' \in BOOLEAN
      BY <1>2, <3>2
    <3>5. entry' \in {Scheduler!Opened, Scheduler!Synced} /\ (durable' = durable \/ entry' = Scheduler!Synced)
      BY <3>2
    <3>6. /\ entry' \in {"volatile", "durable"}
          /\ FsyncKeepsEntry /\ entry' # "durable" => entry' = Scheduler!Opened /\ entry # "durable"
      <4>1. CASE entry' = Scheduler!Opened
        BY <1>3, <4>1, entry = "durable" => Scheduler!Opened = "durable" DEF Scheduler!Opened
      <4>2. CASE entry' = Scheduler!Synced
        BY <1>3, <4>2
      <4>3. QED
        BY <3>5, <4>1, <4>2
    <3>7. FsyncKeepsEntry /\ entry' # "durable" => durable' = 0
      BY <1>2, <1>3, <3>5, <3>6
    <3>8. QED
      BY <3>1, <3>3, <3>4, <3>6, <3>7
  <2>3. CASE Scheduler!JournalRefuses
    <3>1. /\ UNCHANGED <<file, durable>> /\ torn' = (torn /\ ~Scheduler!Readable)
          /\ entry' = (IF Scheduler!Readable /\ torn THEN "durable" ELSE Scheduler!Opened)
      BY <2>3 DEF Scheduler!JournalRefuses
    <3>2. torn' \in BOOLEAN
      BY <3>1
    <3>3. entry = "durable" => Scheduler!Opened = "durable"
      BY DEF Scheduler!Opened
    <3>4. entry' \in {"volatile", "durable"} /\ (entry' # "durable" => entry # "durable")
      BY <1>3, <3>1, <3>3
    <3>5. QED
      BY <1>2, <3>1, <3>2, <3>4
  <2>4. QED
    BY <2>1, <2>2, <2>3
<1>5. FileOK'
  BY <1>4, FileGrows
<1>6. QED
  BY <1>1, <1>5 DEF Scheduler!Appended

SchedulerStates == {"down", "reconciling", "deciding", "starting", "running", "finishing"}
JobTypes == [slot : Scheduler!Slots, attempt : Nat, run : Nat, state : Scheduler!Results \cup {"none"}]

\* Only the holder of the lock is not down.
LEMMA OnlyHolder ==
    ASSUME SchedulerInv
    PROVE  /\ FileOK /\ schedulerPc \in [Processes -> SchedulerStates] /\ schedulerJob \in [Processes -> JobTypes]
           /\ executed \in [Scheduler!Slots -> Nat] /\ schedulerFaults \in 0..SchedulerMaxFaults
           /\ schedulerNow \in 0..SchedulerMaxTime /\ Nobody \notin Processes
           /\ \A p, q \in Processes : schedulerPc[p] # "down" /\ q # p => schedulerPc[q] = "down"
           /\ \A p \in Processes : schedulerPc[p] # "down" <=> schedulerLock = p
           /\ \A p \in Processes : ProcessOK(p)
<1>1. Nobody \notin Processes
  BY PartsAssumption DEF Scheduler!SchedulerAssumption
<1>2. \A p \in Processes : schedulerPc[p] # "down" <=> schedulerLock = p
  BY DEF SchedulerInv, SchedulerTypes
<1>3. \A p, q \in Processes : schedulerPc[p] # "down" /\ q # p => schedulerPc[q] = "down"
  BY <1>2
<1>4. QED
  BY <1>1, <1>2, <1>3 DEF SchedulerInv, SchedulerTypes, FileOK, JournalTypes, SchedulerStates, JobTypes

LEMMA JobType ==
    ASSUME NEW f \in [Processes -> JobTypes], NEW p \in Processes
    PROVE  /\ f[p] \in JobTypes /\ f[p].slot \in Scheduler!Slots /\ f[p].attempt \in Nat /\ f[p].run \in Nat
           /\ f[p].state \in Scheduler!Results \cup {"none"}
BY DEF JobTypes

LEMMA NoJobType == Scheduler!NoJob \in JobTypes
<1>1. 0 \in Scheduler!Slots
  <2>1. 0 \in 0..SchedulerMaxTime /\ SlotLength \in Nat \ {0}
    BY PartsAssumption DEF Scheduler!SchedulerAssumption
  <2>2. 0 \div SlotLength = 0
    BY <2>1
  <2>3. QED
    BY <2>1, <2>2, SlotOfTime
<1>2. QED
  BY <1>1 DEF Scheduler!NoJob, JobTypes

\* When all are down the journal is all there is.
LEMMA AllDown ==
    ASSUME FileOK', schedulerLock' = Nobody, Nobody \notin Processes,
           schedulerPc' \in [Processes -> SchedulerStates], \A p \in Processes : schedulerPc'[p] = "down",
           schedulerJob' \in [Processes -> JobTypes], executed' \in [Scheduler!Slots -> Nat],
           schedulerFaults' \in 0..SchedulerMaxFaults, schedulerNow' \in 0..SchedulerMaxTime
    PROVE  SchedulerInv'
<1>1. SchedulerTypes'
  BY DEF SchedulerTypes, FileOK, JournalTypes, SchedulerStates, JobTypes
<1>2. \A p \in Processes : ProcessOK(p)'
  BY DEF ProcessOK
<1>3. QED
  BY <1>1, <1>2 DEF SchedulerInv, FileOK

LEMMA ProcessEnds ==
    ASSUME SchedulerInv, NEW p \in Processes, schedulerPc[p] # "down", Scheduler!Ends(p), FileOK', UNCHANGED schedulerNow,
           executed' \in [Scheduler!Slots -> Nat], schedulerFaults' \in 0..SchedulerMaxFaults
    PROVE  SchedulerInv'
<1>1. /\ schedulerLock' = Nobody /\ schedulerPc' = [schedulerPc EXCEPT ![p] = "down"]
      /\ schedulerJob' = [schedulerJob EXCEPT ![p] = Scheduler!NoJob]
  BY DEF Scheduler!Ends
<1>2. schedulerPc' \in [Processes -> SchedulerStates] /\ \A q \in Processes : schedulerPc'[q] = "down"
  BY <1>1, OnlyHolder DEF SchedulerStates
<1>3. schedulerJob' \in [Processes -> JobTypes]
  BY <1>1, OnlyHolder, NoJobType
<1>4. QED
  BY <1>1, <1>2, <1>3, OnlyHolder, AllDown

LEMMA ProcessGoesOn ==
    ASSUME SchedulerInv, NEW p \in Processes, schedulerLock \in {Nobody, p}, schedulerLock' = p,
           NEW l \in SchedulerStates \ {"down"}, schedulerPc' = [schedulerPc EXCEPT ![p] = l],
           NEW j \in JobTypes, schedulerJob' = [schedulerJob EXCEPT ![p] = j],
           FileOK', UNCHANGED <<schedulerNow, schedulerFaults>>, executed' \in [Scheduler!Slots -> Nat],
           ProcessOK(p)'
    PROVE  SchedulerInv'
<1>1. \A q \in Processes : schedulerPc'[q] = IF q = p THEN l ELSE schedulerPc[q]
  BY OnlyHolder
<1>2. \A q \in Processes \ {p} : schedulerPc[q] = "down"
  BY OnlyHolder
<1>3. SchedulerTypes'
  <2>1. schedulerPc' \in [Processes -> SchedulerStates] /\ schedulerJob' \in [Processes -> JobTypes]
    BY OnlyHolder
  <2>2. \A q \in Processes : schedulerPc'[q] # "down" <=> schedulerLock' = q
    BY <1>1, <1>2
  <2>3. QED
    BY <2>1, <2>2, OnlyHolder DEF SchedulerTypes, FileOK, JournalTypes, SchedulerStates, JobTypes
<1>4. \A q \in Processes : ProcessOK(q)'
  <2>1. ASSUME NEW q \in Processes, q # p PROVE ProcessOK(q)'
    <3>1. schedulerPc'[q] = "down"
      BY <1>1, <1>2, <2>1
    <3>2. QED
      BY <3>1 DEF ProcessOK
  <2>2. QED
    BY <2>1
<1>5. QED
  BY <1>3, <1>4 DEF SchedulerInv, FileOK

\* A step that does not touch the journal.
LEMMA FileKept ==
    ASSUME SchedulerInv, UNCHANGED <<file, torn, durable, entry, executed>>,
           schedulerNow' \in 0..SchedulerMaxTime, schedulerNow' >= schedulerNow
    PROVE  FileOK'
<1>1. JournalTypes' /\ ExecutedOK'
  BY OnlyHolder DEF FileOK, JournalTypes, ExecutedOK, IsStart
<1>2. JournalOK(file)'
  BY OnlyHolder, SMTT(30) DEF FileOK, JournalOK, PairOK, IsStart, IsFinish, Before
<1>3. DurableOK'
  <2>1. \A i \in 1..Len(file) : file[i].at <= schedulerNow'
    <3> SUFFICES ASSUME NEW i \in 1..Len(file) PROVE file[i].at <= schedulerNow'
      OBVIOUS
    <3>1. file[i].at \in 0..SchedulerMaxTime /\ file[i].at <= schedulerNow
      BY EventTypes DEF SchedulerInv, SchedulerTypes, DurableOK
    <3>2. schedulerNow \in 0..SchedulerMaxTime /\ SchedulerMaxTime \in Nat
      BY PartsAssumption DEF SchedulerInv, SchedulerTypes, Scheduler!SchedulerAssumption
    <3>3. QED
      BY <3>1, <3>2
  <2>2. QED
    BY <2>1 DEF SchedulerInv, DurableOK
<1>4. QED
  BY <1>1, <1>2, <1>3 DEF FileOK

\* An append that does not return ends the process.
LEMMA AppendThrows ==
    ASSUME SchedulerInv, NEW p \in Processes, schedulerPc[p] # "down", NEW e, Suits(file, e), e.at = schedulerNow,
           NEW next, NEW newJob, Scheduler!Appends(p, e, next, newJob)
    PROVE  \/ SchedulerInv'
           \/ /\ next # "down" /\ FileOK' /\ file' = Append(file, e) /\ durable' = Len(file')
              /\ schedulerPc' = [schedulerPc EXCEPT ![p] = next] /\ schedulerJob' = [schedulerJob EXCEPT ![p] = newJob]
              /\ UNCHANGED <<schedulerLock, schedulerNow, executed, schedulerFaults>>
<1>1. UNCHANGED <<schedulerNow, executed>>
  BY DEF Scheduler!Appends
<1>2. executed' \in [Scheduler!Slots -> Nat] /\ schedulerFaults \in 0..SchedulerMaxFaults /\ SchedulerMaxFaults \in Nat
  BY <1>1, OnlyHolder, PartsAssumption DEF Scheduler!SchedulerAssumption
<1>3. CASE Scheduler!Appended(e) /\ UNCHANGED schedulerFaults
  <2>1. FileOK' /\ file' = Append(file, e) /\ durable' = Len(file')
    BY <1>1, <1>3, FileWritten
  <2>2. CASE next = "down" /\ Scheduler!Ends(p)
    BY <1>1, <1>2, <1>3, <2>1, <2>2, ProcessEnds
  <2>3. CASE /\ next # "down" /\ schedulerPc' = [schedulerPc EXCEPT ![p] = next]
             /\ schedulerJob' = [schedulerJob EXCEPT ![p] = newJob] /\ UNCHANGED schedulerLock
    BY <1>1, <1>3, <2>1, <2>3
  <2>4. QED
    <3>1. \/ IF next = "down" THEN Scheduler!Ends(p)
             ELSE /\ schedulerPc' = [schedulerPc EXCEPT ![p] = next]
                  /\ schedulerJob' = [schedulerJob EXCEPT ![p] = newJob] /\ UNCHANGED schedulerLock
          \/ Scheduler!Ends(p)
      BY Zenon DEF Scheduler!Appends
    <3>2. CASE Scheduler!Ends(p)
      BY <1>1, <1>2, <1>3, <2>1, <3>2, ProcessEnds
    <3>3. QED
      BY <2>2, <2>3, <3>1, <3>2
<1>4. CASE Scheduler!AppendFails(e) /\ Scheduler!Ends(p)
  <2>1. schedulerFaults' \in 0..SchedulerMaxFaults
    BY <1>2, <1>4 DEF Scheduler!AppendFails
  <2>2. FileOK'
    BY <1>1, <1>4, FileWritten
  <2>3. QED
    BY <1>1, <1>2, <1>4, <2>1, <2>2, ProcessEnds
<1>5. CASE Scheduler!JournalRefuses /\ Scheduler!Ends(p)
  <2>1. schedulerFaults' \in 0..SchedulerMaxFaults
    BY <1>2, <1>5 DEF Scheduler!JournalRefuses
  <2>2. FileOK'
    BY <1>1, <1>5, FileWritten
  <2>3. QED
    BY <1>1, <1>2, <1>5, <2>1, <2>2, ProcessEnds
<1>6. QED
  BY <1>3, <1>4, <1>5, Zenon DEF Scheduler!Appends

\* Once no attempt is open, the last finish of a slot is the last record of it.
LEMMA LatestFinish ==
    ASSUME SchedulerInv, Closed(file), NEW s \in Scheduler!Slots
    PROVE  /\ Scheduler!Finishes(s) = {} => \A i \in 1..Len(file) : file[i].slot # s
           /\ Scheduler!Finishes(s) # {} =>
                 /\ Scheduler!Latest(s) \in 1..Len(file) /\ IsFinish(file[Scheduler!Latest(s)])
                 /\ file[Scheduler!Latest(s)].slot = s
                 /\ \A i \in 1..Len(file) : file[i].slot = s => i <= Scheduler!Latest(s)
<1>1. file \in Journals /\ JournalOK(file)
  BY DEF SchedulerInv, SchedulerTypes
<1>2. Len(file) \in Nat /\ DOMAIN file = 1..Len(file)
  BY <1>1, LenProperties DEF Journals
<1>3. Scheduler!Finishes(s) = {i \in 1..Len(file) : IsFinish(file[i]) /\ file[i].slot = s}
  BY <1>2 DEF Scheduler!Finishes, Scheduler!Of, IsFinish
<1>4. ASSUME NEW i \in 1..Len(file), file[i].slot = s
      PROVE  \E j \in Scheduler!Finishes(s) : i <= j
  <2>1. CASE IsFinish(file[i])
    <3>1. i \in Scheduler!Finishes(s) /\ i <= i
      BY <1>2, <1>3, <1>4, <2>1
    <3>2. QED
      BY <3>1
  <2>2. CASE ~IsFinish(file[i])
    <3>1. IsStart(file[i]) /\ i < Len(file)
      BY <1>1, <1>2, <2>2 DEF JournalOK, PairOK, Closed
    <3>2. i + 1 \in 1..Len(file) /\ (i + 1) - 1 = i /\ IsFinish(file[i + 1])
      BY <1>1, <1>2, <3>1, OnlyLastOpen
    <3>3. ~IsStart(file[i + 1])
      BY <3>2 DEF IsStart, IsFinish
    <3>4. file[i + 1].slot = file[i].slot
      BY <1>1, <3>2, <3>3 DEF JournalOK, PairOK
    <3>5. i + 1 \in Scheduler!Finishes(s) /\ i <= i + 1
      BY <1>2, <1>3, <1>4, <3>2, <3>4
    <3>6. QED
      BY <3>5
  <2>3. QED
    BY <2>1, <2>2
<1>5. ASSUME Scheduler!Finishes(s) # {}
      PROVE  /\ Scheduler!Latest(s) \in Scheduler!Finishes(s)
             /\ \A j \in Scheduler!Finishes(s) : j <= Scheduler!Latest(s)
  <2>1. Scheduler!Finishes(s) \subseteq 1..Len(file)
    BY <1>3
  <2>2. \E i \in Scheduler!Finishes(s) : \A j \in Scheduler!Finishes(s) : j <= i
    BY <1>2, <1>5, <2>1, LastIndex
  <2>3. QED
    BY <2>2 DEF Scheduler!Latest
<1>6. ASSUME Scheduler!Finishes(s) # {}, NEW i \in 1..Len(file), file[i].slot = s
      PROVE  i <= Scheduler!Latest(s)
  <2>1. PICK j \in Scheduler!Finishes(s) : i <= j
    BY <1>4, <1>6
  <2>2. j <= Scheduler!Latest(s) /\ Scheduler!Latest(s) \in 1..Len(file) /\ j \in 1..Len(file)
    BY <1>3, <1>5, <1>6
  <2>3. QED
    BY <1>2, <2>1, <2>2
<1>7. QED
  BY <1>3, <1>4, <1>5, <1>6

\* What decide finds out about the slot that is due.
LEMMA NewAttempt ==
    ASSUME SchedulerInv, Closed(file), NEW s \in Scheduler!Slots, ~Scheduler!AlreadyFinal(s), ~Scheduler!RetryNotDue(s)
    PROVE  /\ Scheduler!NextAttempt(s) \in 1..BACKUP_MAX_ATTEMPTS_PER_SLOT
           /\ EntryStays => executed[s] < Scheduler!NextAttempt(s)
           /\ \A i \in 1..Len(file) : Before(file[i], s, Scheduler!NextAttempt(s), schedulerNow, TRUE)
<1> DEFINE a == Scheduler!NextAttempt(s)
<1>1. /\ file \in Journals /\ JournalOK(file) /\ ExecutedOK /\ durable \in 0..Len(file)
      /\ executed[s] \in Nat /\ schedulerNow \in Nat
  BY PartsAssumption DEF SchedulerInv, SchedulerTypes, Scheduler!SchedulerAssumption
<1>2. /\ BACKUP_MAX_ATTEMPTS_PER_SLOT \in Nat \ {0} /\ BACKUP_RETRY_DELAY_MS \in Nat \ {0}
  BY PartsAssumption DEF Scheduler!SchedulerAssumption
<1>3. Len(file) \in Nat
  BY <1>1, LenProperties DEF Journals
<1>4. EntryStays => executed[s] = 0 \/ \E i \in 1..Len(file) : file[i].slot = s /\ executed[s] <= file[i].attempt
  BY <1>1, <1>3 DEF ExecutedOK
<1>5. CASE Scheduler!Finishes(s) = {}
  <2>1. a = 1 /\ \A i \in 1..Len(file) : file[i].slot # s
    BY <1>5, LatestFinish DEF Scheduler!NextAttempt
  <2>2. EntryStays => executed[s] = 0
    BY <1>4, <2>1
  <2>3. QED
    BY <1>2, <2>1, <2>2 DEF Before
<1>6. CASE Scheduler!Finishes(s) # {}
  <2> DEFINE l == Scheduler!Latest(s)
  <2>1. /\ l \in 1..Len(file) /\ IsFinish(file[l]) /\ file[l].slot = s
        /\ \A i \in 1..Len(file) : file[i].slot = s => i <= l
    BY <1>6, LatestFinish
  <2>2. /\ file[l].attempt < BACKUP_MAX_ATTEMPTS_PER_SLOT /\ file[l].state = "retryable"
        /\ a = file[l].attempt + 1
        /\ schedulerNow >= IF file[l].retry # 0 THEN file[l].retry ELSE file[l].at + BACKUP_RETRY_DELAY_MS
    <3>1. ~(file[l].attempt >= BACKUP_MAX_ATTEMPTS_PER_SLOT) /\ file[l].state = "retryable"
      BY <1>6 DEF Scheduler!AlreadyFinal, Scheduler!isRetryable
    <3>2. ~(schedulerNow < IF file[l].retry # 0 THEN file[l].retry ELSE file[l].at + BACKUP_RETRY_DELAY_MS)
      BY <1>6 DEF Scheduler!RetryNotDue, Scheduler!Null
    <3>3. a = file[l].attempt + 1
      BY <1>6 DEF Scheduler!NextAttempt
    <3>4. file[l].attempt \in Nat /\ file[l].retry \in Nat /\ file[l].at \in Nat
      BY <1>1, <2>1, EventTypes
    <3>5. BACKUP_MAX_ATTEMPTS_PER_SLOT \in Nat /\ BACKUP_RETRY_DELAY_MS \in Nat /\ schedulerNow \in Nat
      BY <1>1, <1>2
    <3> HIDE DEF l, a
    <3>6. QED
      BY <3>1, <3>2, <3>3, <3>4, <3>5
  <2> HIDE DEF l, a
  <2>3. file[l].attempt \in Nat /\ file[l].at \in Nat /\ file[l].retry \in Nat
    BY <1>1, <2>1, EventTypes
  <2>4. l > 1 /\ IsStart(file[l - 1]) /\ (file[l].retry = 0 \/ file[l].retry >= file[l - 1].at + BACKUP_RETRY_DELAY_MS)
    <3>1. ~IsStart(file[l])
      BY <2>1 DEF IsStart, IsFinish
    <3>2. QED
      BY <1>1, <2>1, <3>1 DEF JournalOK, PairOK
  <2>5. l - 1 \in 1..Len(file) /\ l - 1 < l
    BY <1>3, <2>1, <2>4
  <2>6. file[l - 1].at \in Nat /\ file[l - 1].at <= file[l].at
    BY <1>1, <2>1, <2>5, EventTypes DEF JournalOK
  <2>7. schedulerNow >= file[l - 1].at + BACKUP_RETRY_DELAY_MS
    BY <1>1, <1>2, <2>2, <2>3, <2>4, <2>6, SMTT(30)
  <2>8. ASSUME NEW i \in 1..Len(file), file[i].slot = s
        PROVE  /\ file[i].attempt \in Nat /\ file[i].attempt <= file[l].attempt /\ file[i].state # "complete"
               /\ IsStart(file[i]) => schedulerNow >= file[i].at + BACKUP_RETRY_DELAY_MS
    <3>1. i <= l /\ file[i].attempt \in Nat /\ file[i].at \in Nat
      BY <1>1, <2>1, <2>8, EventTypes
    <3>2. CASE i = l
      BY <2>1, <2>2, <2>3, <3>2 DEF IsStart, IsFinish
    <3>3. CASE i # l
      <4>1. i < l /\ Before(file[i], file[l].slot, file[l].attempt, file[l].at, IsStart(file[l]))
        BY <1>1, <1>3, <2>1, <3>1, <3>3 DEF JournalOK
      <4>2. file[i].at <= file[l - 1].at
        <5>1. CASE i = l - 1
          BY <3>1, <5>1
        <5>2. CASE i # l - 1
          <6>1. i < l - 1
            BY <1>3, <2>1, <4>1, <5>2
          <6>2. QED
            BY <1>1, <2>5, <6>1 DEF JournalOK
        <5>3. QED
          BY <5>1, <5>2
      <4>3. schedulerNow >= file[i].at + BACKUP_RETRY_DELAY_MS
        BY <1>1, <1>2, <2>6, <2>7, <3>1, <4>2
      <4>4. QED
        BY <2>1, <2>8, <3>1, <4>1, <4>3 DEF Before
    <3>4. QED
      BY <3>2, <3>3
  <2>9. a \in 1..BACKUP_MAX_ATTEMPTS_PER_SLOT
    BY <1>2, <2>2, <2>3
  <2>10. ASSUME EntryStays PROVE executed[s] < a
    <3>1. CASE executed[s] = 0
      BY <2>9, <3>1
    <3>2. CASE executed[s] # 0
      <4>1. PICK i \in 1..Len(file) : file[i].slot = s /\ executed[s] <= file[i].attempt
        BY <1>4, <2>10, <3>2
      <4>2. file[i].attempt \in Nat /\ file[i].attempt <= file[l].attempt
        BY <2>8, <4>1
      <4>3. QED
        BY <1>1, <2>2, <2>3, <4>1, <4>2
    <3>3. QED
      BY <3>1, <3>2
  <2>11. \A i \in 1..Len(file) : Before(file[i], s, a, schedulerNow, TRUE)
    <3> SUFFICES ASSUME NEW i \in 1..Len(file), file[i].slot = s
                 PROVE  /\ file[i].attempt <= a /\ file[i].state # "complete"
                        /\ IsStart(file[i]) => schedulerNow >= file[i].at + BACKUP_RETRY_DELAY_MS
      BY DEF Before
    <3>1. QED
      BY <2>2, <2>3, <2>8
  <2>12. QED
    BY <2>9, <2>10, <2>11 DEF a
<1>7. QED
  BY <1>5, <1>6

LEMMA SchedulerStarts == Scheduler!Init => SchedulerInv
<1> SUFFICES ASSUME Scheduler!Init PROVE SchedulerInv
  OBVIOUS
<1>1. /\ schedulerNow = 0 /\ file = <<>> /\ torn = FALSE /\ durable = 0 /\ entry = "absent"
      /\ schedulerLock = Nobody /\ schedulerPc = [p \in Processes |-> "down"]
      /\ schedulerJob = [p \in Processes |-> Scheduler!NoJob]
      /\ executed = [s \in Scheduler!Slots |-> 0] /\ schedulerFaults = 0
  BY DEF Scheduler!Init
<1>2. /\ SchedulerMaxTime \in Nat /\ SchedulerMaxFaults \in Nat /\ MAX_SCHEDULER_JOURNAL_BYTES \in Nat /\ Nobody \notin Processes
  BY PartsAssumption DEF Scheduler!SchedulerAssumption
<1>3. <<>> \in Journals /\ Len(<<>>) = 0
  BY DEF Journals
<1>4. SchedulerTypes
  <2>1. schedulerJob \in [Processes -> JobTypes]
    BY <1>1, NoJobType
  <2>2. file \in Journals /\ Len(file) <= MAX_SCHEDULER_JOURNAL_BYTES /\ durable \in 0..Len(file)
    BY <1>1, <1>2, <1>3
  <2>3. torn \in BOOLEAN /\ entry \in {"absent", "volatile", "durable"}
    BY <1>1
  <2>4. schedulerPc \in [Processes -> SchedulerStates] /\ \A p \in Processes : schedulerPc[p] = "down"
    BY <1>1 DEF SchedulerStates
  <2>5. executed \in [Scheduler!Slots -> Nat]
    BY <1>1
  <2>6. schedulerNow \in 0..SchedulerMaxTime /\ schedulerFaults \in 0..SchedulerMaxFaults
    BY <1>1, <1>2
  <2>7. schedulerLock = Nobody
    BY <1>1
  <2>8. QED
    BY <1>2, <2>1, <2>2, <2>3, <2>4, <2>5, <2>6, <2>7 DEF SchedulerTypes, JobTypes, SchedulerStates
<1>5. JournalOK(file) /\ DurableOK
  BY <1>1, <1>3 DEF JournalOK, DurableOK
<1>6. ExecutedOK
  BY <1>1 DEF ExecutedOK
<1>7. \A p \in Processes : ProcessOK(p)
  BY <1>1 DEF ProcessOK
<1>8. QED
  BY <1>4, <1>5, <1>6, <1>7 DEF SchedulerInv

LEMMA SchedulerPolls ==
    ASSUME SchedulerInv, NEW p \in Processes, Scheduler!poll(p)
    PROVE  SchedulerInv'
<1>1. /\ schedulerLock = Nobody /\ schedulerLock' = p /\ schedulerPc' = [schedulerPc EXCEPT ![p] = "reconciling"]
      /\ UNCHANGED <<schedulerNow, file, torn, durable, entry, schedulerJob, executed, schedulerFaults>>
  BY DEF Scheduler!poll, Scheduler!tryAcquireSessionLock
<1>2. schedulerNow \in 0..SchedulerMaxTime /\ schedulerNow >= schedulerNow
  BY OnlyHolder, PartsAssumption DEF Scheduler!SchedulerAssumption
<1>3. FileOK'
  BY <1>1, <1>2, FileKept
<1>4. "reconciling" \in SchedulerStates \ {"down"} /\ schedulerJob[p] \in JobTypes
      /\ schedulerJob' = [schedulerJob EXCEPT ![p] = schedulerJob[p]]
  BY <1>1, OnlyHolder DEF SchedulerStates
<1>5. ProcessOK(p)'
  <2>1. schedulerPc'[p] = "reconciling"
    BY <1>1, OnlyHolder
  <2>2. QED
    BY <2>1 DEF ProcessOK
<1>6. QED
  BY <1>1, <1>3, <1>4, <1>5, OnlyHolder, ProcessGoesOn

LEMMA RetryTimes ==
    ASSUME NEW a \in Nat, NEW ended, NEW t \in Nat
    PROVE  /\ Scheduler!RetryAt(a, ended, t) \in Nat
           /\ Scheduler!RetryAt(a, ended, t) = 0 \/ Scheduler!RetryAt(a, ended, t) = t + BACKUP_RETRY_DELAY_MS
BY PartsAssumption DEF Scheduler!RetryAt, Scheduler!Null, Scheduler!SchedulerAssumption

\* The last start, which is open.
LEMMA LastStart ==
    ASSUME SchedulerInv, Open(file)
    PROVE  /\ Len(file) \in 1..Len(file) /\ IsStart(file[Len(file)])
           /\ file[Len(file)].slot \in Scheduler!Slots /\ file[Len(file)].attempt \in Nat
           /\ file[Len(file)].run = Len(file) /\ file[Len(file)].at \in Nat
           /\ file[Len(file)].at <= schedulerNow /\ schedulerNow \in 0..SchedulerMaxTime /\ schedulerNow \in Nat
<1>1. file \in Journals /\ JournalOK(file) /\ schedulerNow \in 0..SchedulerMaxTime
  BY DEF SchedulerInv, SchedulerTypes
<1>2. Len(file) \in 1..Len(file) /\ IsStart(file[Len(file)])
  BY <1>1, LenProperties DEF Journals, Open
<1>3. ~IsFinish(file[Len(file)])
  BY <1>2 DEF IsStart, IsFinish
<1>4. file[Len(file)].run = Len(file)
  BY <1>1, <1>2, <1>3 DEF JournalOK, PairOK
<1>5. file[Len(file)].at <= schedulerNow
  BY <1>2 DEF SchedulerInv, DurableOK
<1>6. QED
  BY <1>1, <1>2, <1>4, <1>5, EventTypes

LEMMA SchedulerReconciles ==
    ASSUME SchedulerInv, NEW p \in Processes, Scheduler!reconcile(p)
    PROVE  SchedulerInv'
<1>1. file \in Journals /\ JournalOK(file) /\ schedulerPc[p] = "reconciling" /\ schedulerPc[p] # "down"
  BY DEF Scheduler!reconcile, SchedulerInv, SchedulerTypes
<1>2. Scheduler!startedWithoutFinish = (IF Open(file) THEN {Len(file)} ELSE {}) /\ (Closed(file) <=> ~Open(file))
  BY <1>1, OnlyLastOpen
<1>3. ASSUME NEW i \in Scheduler!startedWithoutFinish,
             Scheduler!Appends(p, Scheduler!Reconciliation(i), "reconciling", schedulerJob[p])
      PROVE  SchedulerInv'
  <2> DEFINE e == Scheduler!Reconciliation(i)
  <2>1. Open(file) /\ i = Len(file)
    BY <1>2, <1>3
  <2>2. /\ e.kind = "attempt_finished" /\ e.slot = file[i].slot /\ e.attempt = file[i].attempt /\ e.run = file[i].run
        /\ e.at = schedulerNow /\ e.retry = Scheduler!RetryAt(file[i].attempt, "retryable", file[i].at)
    BY DEF Scheduler!Reconciliation, Scheduler!AbandonedSlot
  <2>3. /\ file[i].slot \in Scheduler!Slots /\ file[i].attempt \in Nat /\ file[i].run = i /\ file[i].at \in Nat
        /\ i \in Nat /\ schedulerNow \in 0..SchedulerMaxTime
    BY <2>1, LastStart
  <2>4. e.retry \in Nat /\ (e.retry = 0 \/ e.retry = file[i].at + BACKUP_RETRY_DELAY_MS)
    BY <2>2, <2>3, RetryTimes
  <2>5. e \in Scheduler!Event
    BY <2>2, <2>3, <2>4 DEF Scheduler!Event, Scheduler!Results, Scheduler!Reconciliation, Scheduler!AbandonedSlot
  <2>6. IsFinish(e)
    BY <2>2 DEF IsFinish
  <2> HIDE DEF e
  <2>7. e.retry = 0 \/ e.retry >= file[i].at + BACKUP_RETRY_DELAY_MS
    BY <2>3, <2>4, PartsAssumption DEF Scheduler!SchedulerAssumption
  <2>8. Suits(file, e)
    BY <2>1, <2>2, <2>3, <2>5, <2>6, <2>7, FinishSuits
  <2>9. CASE /\ FileOK' /\ schedulerPc' = [schedulerPc EXCEPT ![p] = "reconciling"]
             /\ schedulerJob' = [schedulerJob EXCEPT ![p] = schedulerJob[p]]
             /\ UNCHANGED <<schedulerLock, schedulerNow, executed, schedulerFaults>>
    <3>1. schedulerPc'[p] = "reconciling" /\ schedulerLock = p
      BY <1>1, <2>9, OnlyHolder
    <3>2. ProcessOK(p)'
      BY <3>1 DEF ProcessOK
    <3>3. "reconciling" \in SchedulerStates \ {"down"} /\ schedulerJob[p] \in JobTypes
      BY OnlyHolder DEF SchedulerStates
    <3>4. QED
      BY <2>9, <3>1, <3>2, <3>3, OnlyHolder, ProcessGoesOn
  <2>10. QED
    BY <1>1, <1>3, <2>2, <2>8, <2>9, AppendThrows DEF e
<1>4. ASSUME Scheduler!startedWithoutFinish = {}, schedulerPc' = [schedulerPc EXCEPT ![p] = "deciding"],
             UNCHANGED <<schedulerNow, file, torn, durable, entry, schedulerLock, schedulerJob, executed, schedulerFaults>>
      PROVE  SchedulerInv'
  <2>1. Closed(file)
    BY <1>2, <1>4
  <2>2. schedulerNow \in 0..SchedulerMaxTime /\ schedulerNow >= schedulerNow
    BY OnlyHolder, PartsAssumption DEF Scheduler!SchedulerAssumption
  <2>3. FileOK'
    BY <1>4, <2>2, FileKept
  <2>4. schedulerPc'[p] = "deciding" /\ schedulerLock = p
    BY <1>1, <1>4, OnlyHolder
  <2>5. ProcessOK(p)'
    BY <1>4, <2>1, <2>4 DEF ProcessOK, Closed, IsFinish
  <2>6. "deciding" \in SchedulerStates \ {"down"} /\ schedulerJob[p] \in JobTypes
        /\ schedulerJob' = [schedulerJob EXCEPT ![p] = schedulerJob[p]]
    BY <1>4, OnlyHolder DEF SchedulerStates
  <2>7. QED
    BY <1>4, <2>3, <2>4, <2>5, <2>6, OnlyHolder, ProcessGoesOn
<1>5. QED
  BY <1>3, <1>4 DEF Scheduler!reconcile

LEMMA SchedulerDecides ==
    ASSUME SchedulerInv, NEW p \in Processes, Scheduler!decide(p)
    PROVE  SchedulerInv'
<1> DEFINE s == Scheduler!latestDueBackupSlot
<1>1. /\ schedulerPc[p] = "deciding"
      /\ UNCHANGED <<schedulerNow, file, torn, durable, entry, executed, schedulerFaults>>
  BY DEF Scheduler!decide
<1>2. /\ Closed(file) /\ schedulerLock = p /\ schedulerNow \in 0..SchedulerMaxTime /\ schedulerNow >= schedulerNow
      /\ s \in Scheduler!Slots
  <2>1. ProcessOK(p) /\ schedulerNow \in 0..SchedulerMaxTime /\ (schedulerPc[p] # "down" => schedulerLock = p)
    BY OnlyHolder
  <2>2. Closed(file) /\ schedulerLock = p
    BY <1>1, <2>1 DEF ProcessOK
  <2>3. s \in Scheduler!Slots
    BY <2>1, SlotOfTime DEF Scheduler!latestDueBackupSlot
  <2>4. SchedulerMaxTime \in Nat
    BY PartsAssumption DEF Scheduler!SchedulerAssumption
  <2>5. schedulerNow >= schedulerNow
    BY <2>1, <2>4
  <2>6. QED
    BY <2>1, <2>2, <2>3, <2>5
<1>3. FileOK'
  BY <1>1, <1>2, FileKept
<1>4. CASE Scheduler!Ends(p)
  BY <1>1, <1>3, <1>4, OnlyHolder, ProcessEnds
<1> DEFINE j == [slot |-> s, attempt |-> Scheduler!NextAttempt(s), run |-> Len(file) + 1, state |-> "none"]
<1>5. ASSUME ~Scheduler!AlreadyFinal(s), ~Scheduler!RetryNotDue(s), schedulerPc' = [schedulerPc EXCEPT ![p] = "starting"],
             schedulerJob' = [schedulerJob EXCEPT ![p] = j], UNCHANGED schedulerLock
      PROVE  SchedulerInv'
  <2> DEFINE a == Scheduler!NextAttempt(s)
  <2> HIDE DEF s
  <2>1. /\ a \in 1..BACKUP_MAX_ATTEMPTS_PER_SLOT /\ (EntryStays => executed[s] < a)
        /\ \A i \in 1..Len(file) : Before(file[i], s, a, schedulerNow, TRUE)
    BY <1>2, <1>5, NewAttempt
  <2>2. j.slot = s /\ j.attempt = a /\ j.run = Len(file) + 1
    OBVIOUS
  <2>3. j \in JobTypes
    <3>1. Len(file) \in Nat /\ a \in Nat
      BY <2>1, LenProperties DEF SchedulerInv, SchedulerTypes, Journals
    <3> HIDE DEF a
    <3>2. QED
      BY <1>2, <3>1 DEF JobTypes, a
  <2> HIDE DEF a, j
  <2>4. schedulerPc'[p] = "starting" /\ schedulerJob'[p] = j
    BY <1>5, OnlyHolder
  <2>5. ProcessOK(p)'
    BY <1>1, <1>2, <2>1, <2>2, <2>4 DEF ProcessOK, Closed, IsFinish, Before, IsStart
  <2>6. "starting" \in SchedulerStates \ {"down"}
    BY DEF SchedulerStates
  <2>7. QED
    BY <1>1, <1>2, <1>3, <1>5, <2>3, <2>5, <2>6, OnlyHolder, ProcessGoesOn
<1>6. QED
  BY <1>4, <1>5 DEF Scheduler!decide

LEMMA SchedulerStartsAttempt ==
    ASSUME SchedulerInv, NEW p \in Processes, Scheduler!start(p)
    PROVE  SchedulerInv'
<1> DEFINE j == schedulerJob[p]
           e == [kind |-> "attempt_started", slot |-> j.slot, attempt |-> j.attempt, run |-> j.run, at |-> schedulerNow,
                 state |-> "none", retry |-> 0]
<1>1. schedulerPc[p] = "starting" /\ schedulerPc[p] # "down" /\ Scheduler!Appends(p, e, "running", j)
  BY DEF Scheduler!start, Scheduler!Null
<1>2. /\ Closed(file) /\ j.run = Len(file) + 1 /\ j.attempt \in 1..BACKUP_MAX_ATTEMPTS_PER_SLOT
      /\ EntryStays => executed[j.slot] < j.attempt
      /\ schedulerLock = p
      /\ \A i \in 1..Len(file) : Before(file[i], j.slot, j.attempt, schedulerNow, TRUE)
  BY <1>1, OnlyHolder DEF ProcessOK
<1>3. j \in JobTypes /\ j.slot \in Scheduler!Slots /\ j.attempt \in Nat /\ j.run \in Nat /\ schedulerNow \in 0..SchedulerMaxTime
  BY OnlyHolder, JobType
<1> HIDE DEF j
<1>4. e \in Scheduler!Event /\ IsStart(e)
  BY <1>3 DEF Scheduler!Event, IsStart
<1>5. e.slot = j.slot /\ e.attempt = j.attempt /\ e.run = j.run /\ e.at = schedulerNow /\ e.state = "none"
  OBVIOUS
<1> HIDE DEF e
<1>6. Suits(file, e)
  BY <1>2, <1>4, <1>5, StartSuits
<1>7. CASE /\ FileOK' /\ file' = Append(file, e) /\ durable' = Len(file')
           /\ schedulerPc' = [schedulerPc EXCEPT ![p] = "running"] /\ schedulerJob' = [schedulerJob EXCEPT ![p] = j]
           /\ UNCHANGED <<schedulerLock, schedulerNow, executed, schedulerFaults>>
  <2>1. Len(file) \in Nat /\ Len(file') = Len(file) + 1 /\ file'[Len(file) + 1] = e
    BY <1>4, <1>7, LenProperties, AppendProperties DEF SchedulerInv, SchedulerTypes, Journals
  <2>2. Len(file') > 0 /\ file'[Len(file')] = e /\ j.run = Len(file')
    BY <1>2, <2>1
  <2>3. schedulerPc'[p] = "running" /\ schedulerJob'[p] = j
    BY <1>7, OnlyHolder
  <2>4. ProcessOK(p)'
    BY <1>2, <1>4, <1>5, <1>7, <2>2, <2>3 DEF ProcessOK, Open, IsStart
  <2>5. "running" \in SchedulerStates \ {"down"}
    BY DEF SchedulerStates
  <2>6. QED
    BY <1>2, <1>3, <1>7, <2>4, <2>5, OnlyHolder, ProcessGoesOn
<1>8. QED
  BY <1>1, <1>5, <1>6, <1>7, AppendThrows

\* A backup that runs has its start on disk, so one execution more is counted.
LEMMA ExecutionCounted ==
    ASSUME SchedulerInv, NEW p \in Processes, schedulerPc[p] = "running",
           UNCHANGED <<schedulerNow, file, torn, durable, entry>>,
           executed' = [executed EXCEPT ![schedulerJob[p].slot] = @ + 1]
    PROVE  FileOK' /\ executed' \in [Scheduler!Slots -> Nat]
<1> DEFINE t == schedulerJob[p].slot
           n == Len(file)
<1>1. t \in Scheduler!Slots /\ executed \in [Scheduler!Slots -> Nat] /\ FileOK /\ schedulerJob[p].attempt \in Nat
  BY OnlyHolder, JobType
<1>2. Open(file) /\ file[n].slot = t /\ file[n].attempt = schedulerJob[p].attempt /\ durable = n
      /\ (EntryStays => executed[t] < schedulerJob[p].attempt)
  BY OnlyHolder DEF ProcessOK
<1>3. executed' \in [Scheduler!Slots -> Nat] /\ executed'[t] = executed[t] + 1
      /\ \A s \in Scheduler!Slots : s # t => executed'[s] = executed[s]
  BY <1>1
<1>4. JournalTypes' /\ DurableOK'
  BY <1>1 DEF FileOK, JournalTypes, DurableOK
<1>5. JournalOK(file)'
  BY <1>1 DEF FileOK, JournalOK, PairOK, IsStart, IsFinish, Before
<1>6. ExecutedOK'
  <2> SUFFICES ASSUME EntryStays, NEW s \in Scheduler!Slots, executed'[s] # 0
               PROVE  \E i \in 1..durable : IsStart(file[i]) /\ file[i].slot = s /\ executed'[s] <= file[i].attempt
    BY DEF ExecutedOK, IsStart
  <2>1. CASE s = t
    <3>1. n \in 1..durable /\ IsStart(file[n]) /\ file[n].slot = s
      BY <1>2, <2>1, LastStart
    <3>2. executed'[s] <= file[n].attempt
      BY <1>1, <1>2, <1>3, <2>1
    <3>3. QED
      BY <3>1, <3>2
  <2>2. CASE s # t
    BY <1>1, <1>3, <2>2 DEF FileOK, ExecutedOK
  <2>3. QED
    BY <2>1, <2>2
<1>7. QED
  BY <1>3, <1>4, <1>5, <1>6 DEF FileOK

LEMMA SchedulerExecutes ==
    ASSUME SchedulerInv, NEW p \in Processes, Scheduler!execute(p)
    PROVE  SchedulerInv'
<1>1. /\ schedulerPc[p] = "running" /\ schedulerPc' = [schedulerPc EXCEPT ![p] = "finishing"]
      /\ executed' = [executed EXCEPT ![schedulerJob[p].slot] = @ + 1]
      /\ UNCHANGED <<schedulerNow, file, torn, durable, entry, schedulerLock, schedulerFaults>>
  BY DEF Scheduler!execute
<1>2. PICK ended \in Scheduler!Results : schedulerJob' = [schedulerJob EXCEPT ![p].state = ended]
  BY DEF Scheduler!execute
<1>3. FileOK' /\ executed' \in [Scheduler!Slots -> Nat]
  BY <1>1, ExecutionCounted
<1> DEFINE j == [schedulerJob[p] EXCEPT !.state = ended]
<1>4. schedulerJob[p] \in JobTypes /\ schedulerLock = p
  BY <1>1, OnlyHolder
<1>5. j \in JobTypes /\ schedulerJob' = [schedulerJob EXCEPT ![p] = j]
      /\ j.slot = schedulerJob[p].slot /\ j.attempt = schedulerJob[p].attempt /\ j.run = schedulerJob[p].run
  BY <1>2, <1>4, OnlyHolder DEF JobTypes
<1> HIDE DEF j
<1>6. schedulerPc'[p] = "finishing" /\ schedulerJob'[p] = j
  BY <1>1, <1>5, OnlyHolder
<1>7. ProcessOK(p)'
  <2>1. Open(file) /\ file[Len(file)].slot = j.slot /\ file[Len(file)].attempt = j.attempt /\ j.run = Len(file)
    BY <1>1, <1>5, OnlyHolder DEF ProcessOK
  <2>2. QED
    BY <1>1, <1>6, <2>1 DEF ProcessOK, Open, IsStart
<1>8. "finishing" \in SchedulerStates \ {"down"}
  BY DEF SchedulerStates
<1>9. QED
  BY <1>1, <1>3, <1>4, <1>5, <1>7, <1>8, OnlyHolder, ProcessGoesOn

LEMMA SchedulerFinishes ==
    ASSUME SchedulerInv, NEW p \in Processes, Scheduler!finish(p)
    PROVE  SchedulerInv'
<1> DEFINE j == schedulerJob[p]
           e == [kind |-> "attempt_finished", slot |-> j.slot, attempt |-> j.attempt, run |-> j.run, at |-> schedulerNow,
                 state |-> j.state, retry |-> Scheduler!RetryAt(j.attempt, j.state, schedulerNow)]
<1>1. schedulerPc[p] = "finishing" /\ schedulerPc[p] # "down" /\ Scheduler!Appends(p, e, "down", Scheduler!NoJob)
  BY DEF Scheduler!finish
<1>2. Open(file) /\ file[Len(file)].slot = j.slot /\ file[Len(file)].attempt = j.attempt /\ j.run = Len(file)
  BY <1>1, OnlyHolder DEF ProcessOK
<1>3. /\ j.slot \in Scheduler!Slots /\ j.attempt \in Nat /\ j.run \in Nat
      /\ j.state \in Scheduler!Results \cup {"none"}
  BY OnlyHolder, JobType
<1>4. file[Len(file)].at \in Nat /\ file[Len(file)].at <= schedulerNow /\ schedulerNow \in 0..SchedulerMaxTime /\ schedulerNow \in Nat
  BY <1>2, LastStart
<1> HIDE DEF j
<1>5. /\ e.slot = j.slot /\ e.attempt = j.attempt /\ e.run = j.run /\ e.at = schedulerNow
      /\ e.retry = Scheduler!RetryAt(j.attempt, j.state, schedulerNow)
  OBVIOUS
<1>6. e.retry \in Nat /\ (e.retry = 0 \/ e.retry = schedulerNow + BACKUP_RETRY_DELAY_MS)
  BY <1>3, <1>4, <1>5, RetryTimes
<1>7. e \in Scheduler!Event /\ IsFinish(e)
  BY <1>3, <1>4, <1>5, <1>6 DEF Scheduler!Event, IsFinish
<1> HIDE DEF e
<1>8. e.retry = 0 \/ e.retry >= file[Len(file)].at + BACKUP_RETRY_DELAY_MS
  BY <1>4, <1>6, PartsAssumption DEF Scheduler!SchedulerAssumption
<1>9. Suits(file, e)
  BY <1>2, <1>5, <1>7, <1>8, FinishSuits
<1>10. QED
  BY <1>1, <1>5, <1>9, AppendThrows

LEMMA SchedulerCrashes ==
    ASSUME SchedulerInv, NEW p \in Processes, Scheduler!crash(p)
    PROVE  SchedulerInv'
<1>1. /\ schedulerPc[p] # "down" /\ Scheduler!Ends(p) /\ schedulerFaults < SchedulerMaxFaults
      /\ schedulerFaults' = schedulerFaults + 1
      /\ executed' = IF schedulerPc[p] = "running" THEN [executed EXCEPT ![schedulerJob[p].slot] = @ + 1] ELSE executed
      /\ UNCHANGED <<schedulerNow, file, torn, durable, entry>>
  BY DEF Scheduler!crash
<1>2. schedulerFaults' \in 0..SchedulerMaxFaults
  BY <1>1, OnlyHolder, PartsAssumption DEF Scheduler!SchedulerAssumption
<1>3. FileOK' /\ executed' \in [Scheduler!Slots -> Nat]
  <2>1. CASE schedulerPc[p] = "running"
    BY <1>1, <2>1, ExecutionCounted
  <2>2. CASE schedulerPc[p] # "running"
    <3>1. schedulerNow \in 0..SchedulerMaxTime /\ schedulerNow >= schedulerNow
      BY OnlyHolder, PartsAssumption DEF Scheduler!SchedulerAssumption
    <3>2. QED
      BY <1>1, <2>2, <3>1, FileKept, OnlyHolder
  <2>3. QED
    BY <2>1, <2>2
<1>4. QED
  BY <1>1, <1>2, <1>3, ProcessEnds

LEMMA TimePasses ==
    ASSUME SchedulerInv, Scheduler!Tick
    PROVE  SchedulerInv'
<1>1. /\ schedulerNow < SchedulerMaxTime /\ schedulerNow' = schedulerNow + 1
      /\ UNCHANGED <<file, torn, durable, entry, schedulerLock, schedulerPc, schedulerJob, executed, schedulerFaults>>
  BY DEF Scheduler!Tick
<1>2. schedulerNow' \in 0..SchedulerMaxTime /\ schedulerNow' >= schedulerNow /\ schedulerNow \in Nat /\ schedulerNow' \in Nat
  BY <1>1, OnlyHolder, PartsAssumption DEF Scheduler!SchedulerAssumption
<1>3. FileOK'
  BY <1>1, <1>2, FileKept
<1>4. SchedulerTypes'
  BY <1>1, <1>2 DEF SchedulerInv, SchedulerTypes
<1>5. ASSUME NEW p \in Processes PROVE ProcessOK(p)'
  <2>1. ProcessOK(p)
    BY DEF SchedulerInv
  <2>2. ASSUME schedulerPc[p] = "starting", NEW i \in 1..Len(file)
        PROVE  Before(file[i], schedulerJob[p].slot, schedulerJob[p].attempt, schedulerNow', TRUE)
    <3>1. file[i].at \in Nat /\ BACKUP_RETRY_DELAY_MS \in Nat
      BY EventTypes, PartsAssumption DEF SchedulerInv, SchedulerTypes, Scheduler!SchedulerAssumption
    <3>2. Before(file[i], schedulerJob[p].slot, schedulerJob[p].attempt, schedulerNow, TRUE)
      BY <2>1, <2>2 DEF ProcessOK
    <3>3. QED
      BY <1>2, <3>1, <3>2 DEF Before
  <2>3. QED
    BY <1>1, <2>1, <2>2 DEF ProcessOK, Open, Closed, IsStart, IsFinish, Before
<1>6. QED
  BY <1>3, <1>4, <1>5 DEF SchedulerInv, FileOK

\* At most one backup runs when the power goes; its start is on disk.
LEMMA PowerCounts ==
    ASSUME SchedulerInv, Scheduler!powerLoss
    PROVE  /\ executed' \in [Scheduler!Slots -> Nat]
           /\ EntryStays => \A s \in Scheduler!Slots :
                 executed'[s] = 0 \/ \E i \in 1..durable : IsStart(file[i]) /\ file[i].slot = s /\ executed'[s] <= file[i].attempt
<1> DEFINE Hit(s) == {p \in Processes : schedulerPc[p] = "running" /\ schedulerJob[p].slot = s}
<1>1. executed' = [s \in Scheduler!Slots |-> executed[s] + Scheduler!Cardinality(Hit(s))]
  BY DEF Scheduler!powerLoss
<1>2. ASSUME NEW s \in Scheduler!Slots PROVE Hit(s) = {} \/ \E p \in Processes : Hit(s) = {p} /\ p \in Hit(s)
  <2>1. \A p, q \in Processes : schedulerPc[p] = "running" /\ schedulerPc[q] = "running" => p = q
    BY OnlyHolder
  <2>2. \A p, q \in Hit(s) : p = q
    BY <2>1
  <2>3. Hit(s) \subseteq Processes
    OBVIOUS
  <2> HIDE DEF Hit
  <2>4. QED
    BY <2>2, <2>3
<1>3. ASSUME NEW s \in Scheduler!Slots, Hit(s) = {} PROVE executed'[s] = executed[s]
  <2>1. Scheduler!Cardinality(Hit(s)) = 0
    <3>1. Scheduler!Cardinality({}) = Cardinality({})
      BY DEF Scheduler!Cardinality, Scheduler!IsFiniteSet, Cardinality, IsFiniteSet
    <3> HIDE DEF Hit
    <3>2. QED
      BY <1>3, <3>1, FS_EmptySet
  <2>2. executed[s] \in Nat
    BY OnlyHolder
  <2> HIDE DEF Hit
  <2>3. QED
    BY <1>1, <2>1, <2>2
<1>4. ASSUME NEW s \in Scheduler!Slots, NEW p \in Processes, Hit(s) = {p}, p \in Hit(s)
      PROVE  /\ executed'[s] = executed[s] + 1 /\ schedulerPc[p] = "running" /\ schedulerJob[p].slot = s
             /\ EntryStays => executed[s] < schedulerJob[p].attempt
  <2>1. Scheduler!Cardinality(Hit(s)) = 1
    <3>1. Scheduler!Cardinality({p}) = Cardinality({p})
      BY DEF Scheduler!Cardinality, Scheduler!IsFiniteSet, Cardinality, IsFiniteSet
    <3> HIDE DEF Hit
    <3>2. QED
      BY <1>4, <3>1, FS_Singleton
  <2>2. schedulerPc[p] = "running" /\ schedulerJob[p].slot = s
    BY <1>4
  <2>3. EntryStays => executed[s] < schedulerJob[p].attempt
    BY <2>2, OnlyHolder DEF ProcessOK
  <2> HIDE DEF Hit
  <2>4. QED
    BY <1>1, <2>1, <2>2, <2>3
<1> HIDE DEF Hit
<1>5. ASSUME EntryStays, NEW s \in Scheduler!Slots, executed'[s] # 0
      PROVE  \E i \in 1..durable : IsStart(file[i]) /\ file[i].slot = s /\ executed'[s] <= file[i].attempt
  <2>1. CASE Hit(s) = {}
    BY <1>3, <1>5, <2>1, OnlyHolder DEF FileOK, ExecutedOK
  <2>2. ASSUME NEW p \in Processes, Hit(s) = {p}, p \in Hit(s)
        PROVE  \E i \in 1..durable : IsStart(file[i]) /\ file[i].slot = s /\ executed'[s] <= file[i].attempt
    <3>1. /\ executed'[s] = executed[s] + 1 /\ executed[s] < schedulerJob[p].attempt
          /\ schedulerPc[p] = "running" /\ schedulerJob[p].slot = s
      BY <1>4, <1>5, <2>2
    <3>2. /\ Open(file) /\ file[Len(file)].slot = s /\ file[Len(file)].attempt = schedulerJob[p].attempt
          /\ durable = Len(file)
      BY <3>1, OnlyHolder DEF ProcessOK
    <3>3. Len(file) \in 1..durable /\ IsStart(file[Len(file)])
      BY <3>2, LastStart
    <3>4. executed[s] \in Nat /\ schedulerJob[p].attempt \in Nat
      BY OnlyHolder, JobType
    <3>5. executed'[s] <= file[Len(file)].attempt
      BY <3>1, <3>2, <3>4
    <3>6. QED
      BY <3>2, <3>3, <3>5
  <2>3. QED
    BY <1>2, <2>1, <2>2
<1>6. \A s \in Scheduler!Slots : executed'[s] \in Nat
  <2> SUFFICES ASSUME NEW s \in Scheduler!Slots PROVE executed'[s] \in Nat
    OBVIOUS
  <2>1. executed[s] \in Nat
    BY OnlyHolder
  <2>2. QED
    BY <1>2, <1>3, <1>4, <2>1
<1>7. QED
  BY <1>1, <1>5, <1>6

\* A power loss leaves what is durable, or nothing while the entry is not.
LEMMA PowerGoes ==
    ASSUME SchedulerInv, Scheduler!powerLoss
    PROVE  SchedulerInv'
<1>1. /\ schedulerFaults' = schedulerFaults + 1 /\ schedulerFaults < SchedulerMaxFaults /\ UNCHANGED schedulerNow
      /\ schedulerLock' = Nobody /\ schedulerPc' = [p \in Processes |-> "down"]
      /\ schedulerJob' = [p \in Processes |-> Scheduler!NoJob]
  BY DEF Scheduler!powerLoss
<1>2. /\ file \in Journals /\ JournalOK(file) /\ Len(file) \in Nat /\ durable \in 0..Len(file) /\ torn \in BOOLEAN
      /\ entry \in {"absent", "volatile", "durable"} /\ Len(file) <= MAX_SCHEDULER_JOURNAL_BYTES
      /\ MAX_SCHEDULER_JOURNAL_BYTES \in Nat
      /\ FsyncKeepsEntry /\ entry # "durable" => durable = 0
      /\ entry = "absent" => file = <<>>
      /\ \A i \in 1..Len(file) : file[i].at <= schedulerNow
  BY LenProperties, PartsAssumption DEF SchedulerInv, SchedulerTypes, DurableOK, Journals, Scheduler!SchedulerAssumption
<1>3. ASSUME NEW kept \in durable..Len(file), file' = SubSeq(file, 1, kept), durable' = kept,
             torn' \in BOOLEAN, entry' = IF entry = "absent" THEN "absent" ELSE "durable"
      PROVE  FileOK'
  <2>1. kept \in 0..Len(file) /\ kept \in Nat /\ durable <= kept
    BY <1>2
  <2>2. file' \in Journals /\ Len(file') = kept /\ JournalOK(file') /\ \A i \in 1..kept : file'[i] = file[i]
    BY <1>2, <1>3, <2>1, JournalPrefix
  <2>3. JournalTypes'
    BY <1>2, <1>3, <2>1, <2>2 DEF JournalTypes
  <2>4. JournalOK(file)'
    BY <2>2 DEF JournalOK, PairOK
  <2>5. DurableOK'
    <3>1. \A i \in 1..kept : file'[i].at <= schedulerNow
      BY <1>2, <2>1, <2>2
    <3>2. CASE entry = "absent"
      <4>1. kept = 0
        <5>1. Len(file) = 0
          BY <1>2, <3>2, EmptySeq
        <5>2. QED
          BY <2>1, <5>1
      <4>2. file' = <<>>
        BY <2>2, <4>1, EmptySeq DEF Journals
      <4>3. QED
        BY <1>1, <1>3, <2>2, <3>1, <4>1, <4>2 DEF DurableOK
    <3>3. CASE entry # "absent"
      BY <1>1, <1>3, <2>2, <3>1, <3>3 DEF DurableOK
    <3>4. QED
      BY <3>2, <3>3
  <2>6. ExecutedOK'
    <3> SUFFICES ASSUME EntryStays, NEW s \in Scheduler!Slots, executed'[s] # 0
                 PROVE  \E i \in 1..durable' : IsStart(file'[i]) /\ file'[i].slot = s /\ executed'[s] <= file'[i].attempt
      BY DEF ExecutedOK, IsStart
    <3>1. PICK i \in 1..durable : IsStart(file[i]) /\ file[i].slot = s /\ executed'[s] <= file[i].attempt
      BY PowerCounts
    <3>2. i \in 1..durable' /\ file'[i] = file[i]
      BY <1>2, <1>3, <2>1, <2>2
    <3>3. QED
      BY <3>1, <3>2
  <2>7. QED
    BY <2>3, <2>4, <2>5, <2>6 DEF FileOK
<1>4. ASSUME entry = "volatile", file' = <<>>, durable' = 0, torn' = FALSE, entry' = "absent" PROVE FileOK'
  <2>1. EntryStays => durable = 0
    BY <1>2, <1>4 DEF EntryStays, Scheduler!powerLoss
  <2>2. <<>> \in Journals /\ Len(<<>>) = 0
    BY DEF Journals
  <2>3. JournalTypes' /\ JournalOK(file)' /\ DurableOK'
    <3>1. JournalTypes'
      <4>1. file' \in Journals /\ Len(file') <= MAX_SCHEDULER_JOURNAL_BYTES
        BY <1>2, <1>4, <2>2
      <4>2. torn' \in BOOLEAN /\ entry' \in {"absent", "volatile", "durable"}
        BY <1>4
      <4>3. durable' \in 0..Len(file')
        BY <1>4, <2>2
      <4>4. QED
        BY <4>1, <4>2, <4>3 DEF JournalTypes
    <3>2. file' = <<>> /\ Len(file') = 0 /\ durable' = 0
      BY <1>4, <2>2
    <3>3. JournalOK(file)'
      BY <3>2 DEF JournalOK
    <3>4. DurableOK'
      BY <3>2 DEF DurableOK
    <3>5. QED
      BY <3>1, <3>3, <3>4
  <2>4. ExecutedOK'
    <3>1. EntryStays => \A s \in Scheduler!Slots : executed'[s] = 0
      BY <2>1, PowerCounts
    <3>2. QED
      BY <3>1 DEF ExecutedOK
  <2>5. QED
    BY <2>3, <2>4 DEF FileOK
<1>5. FileOK'
  <2>1. torn' \in BOOLEAN
    BY DEF Scheduler!powerLoss
  <2>2. QED
    BY <1>3, <1>4, <2>1 DEF Scheduler!powerLoss
<1>6. schedulerFaults' \in 0..SchedulerMaxFaults
  BY <1>1, OnlyHolder, PartsAssumption DEF Scheduler!SchedulerAssumption
<1>7. schedulerPc' \in [Processes -> SchedulerStates] /\ \A p \in Processes : schedulerPc'[p] = "down"
  BY <1>1 DEF SchedulerStates
<1>8. schedulerJob' \in [Processes -> JobTypes]
  BY <1>1, NoJobType
<1>9. QED
  BY <1>1, <1>5, <1>6, <1>7, <1>8, PowerCounts, OnlyHolder, AllDown

LEMMA SchedulerNext == SchedulerInv /\ [PartsNext]_partsVars => SchedulerInv'
<1> SUFFICES ASSUME SchedulerInv, [PartsNext]_partsVars PROVE SchedulerInv'
  OBVIOUS
<1>1. CASE Scheduler!Next
  BY <1>1, TimePasses, PowerGoes, SchedulerPolls, SchedulerReconciles, SchedulerDecides, SchedulerStartsAttempt,
     SchedulerExecutes, SchedulerFinishes, SchedulerCrashes DEF Scheduler!Next, Scheduler!Step
<1>2. CASE UNCHANGED schedulerVars
  <2>1. /\ UNCHANGED <<schedulerNow, file, torn, durable, entry>>
        /\ UNCHANGED <<schedulerLock, schedulerPc, schedulerJob, executed, schedulerFaults>>
    BY <1>2 DEF schedulerVars
  <2>2. schedulerNow' \in 0..SchedulerMaxTime /\ schedulerNow' >= schedulerNow
    BY <2>1, OnlyHolder, PartsAssumption DEF Scheduler!SchedulerAssumption
  <2>3. FileOK'
    BY <2>1, <2>2, FileKept
  <2>4. SchedulerTypes'
    BY <2>1 DEF SchedulerInv, SchedulerTypes
  <2>5. \A p \in Processes : ProcessOK(p)'
    BY <2>1 DEF SchedulerInv, ProcessOK, Open, Closed, IsStart, IsFinish, Before
  <2>6. QED
    BY <2>3, <2>4, <2>5 DEF SchedulerInv, FileOK
<1>3. QED
  BY <1>1, <1>2 DEF PartsNext, partsVars

LEMMA SchedulerHolds == PartsSpec => []SchedulerInv
<1>1. PartsInit => SchedulerInv
  BY SchedulerStarts DEF PartsInit
<1>2. QED
  BY <1>1, SchedulerNext, PTL DEF PartsSpec

\* Whatever dies, fails or is lost when, the whole file of the journal included:
\* a retry keeps its distance, every finish belongs to a start of its own, a complete
\* backup is the last word on its slot and the journal stays readable (scheduler.ts,
\* fileSchedulerJournal.ts).
THEOREM JournalIsSound ==
    PartsSpec => [](/\ Scheduler!TypeOK /\ Scheduler!RetryPaced /\ Scheduler!FinishesMatch
                    /\ Scheduler!CompleteIsLast /\ Scheduler!JournalReadable)
<1>1. SchedulerInv => /\ Scheduler!TypeOK /\ Scheduler!RetryPaced /\ Scheduler!FinishesMatch
                      /\ Scheduler!CompleteIsLast /\ Scheduler!JournalReadable
  <2> SUFFICES ASSUME SchedulerInv
               PROVE  /\ Scheduler!TypeOK /\ Scheduler!RetryPaced /\ Scheduler!FinishesMatch
                      /\ Scheduler!CompleteIsLast /\ Scheduler!JournalReadable
    OBVIOUS
  <2>1. file \in Journals /\ JournalOK(file) /\ DOMAIN file = 1..Len(file) /\ Len(file) \in Nat
    BY LenProperties DEF SchedulerInv, SchedulerTypes, Journals
  <2>2. Scheduler!TypeOK
    BY DEF SchedulerInv, SchedulerTypes, Journals, Scheduler!TypeOK
  <2>3. Scheduler!RetryPaced
    BY <2>1 DEF Scheduler!RetryPaced, Scheduler!Of, JournalOK, Before, IsStart
  <2>4. Scheduler!FinishesMatch
    <3> SUFFICES ASSUME NEW k \in 1..Len(file), IsFinish(file[k])
                 PROVE  /\ \E i \in Scheduler!Of("attempt_started") :
                              i < k /\ file[i].run = file[k].run /\ file[i].slot = file[k].slot
                                    /\ file[i].attempt = file[k].attempt
                        /\ \A i \in Scheduler!Of("attempt_finished") : file[i].run = file[k].run => i = k
      BY <2>1 DEF Scheduler!FinishesMatch, Scheduler!Of, IsFinish
    <3>1. \A i \in 1..Len(file) : IsFinish(file[i]) => i > 1 /\ IsStart(file[i - 1]) /\ file[i].run = i - 1
             /\ file[i].slot = file[i - 1].slot /\ file[i].attempt = file[i - 1].attempt
      BY <2>1 DEF JournalOK, PairOK, IsStart, IsFinish
    <3>2. k - 1 \in 1..Len(file) /\ k - 1 < k
      BY <2>1, <3>1
    <3>3. file[k - 1].run = k - 1
      <4>1. PairOK(file, k - 1) /\ ~IsFinish(file[k - 1])
        BY <2>1, <3>1, <3>2 DEF JournalOK, IsStart, IsFinish
      <4>2. QED
        BY <4>1 DEF PairOK
    <3>4. k - 1 \in Scheduler!Of("attempt_started")
      BY <2>1, <3>1, <3>2 DEF Scheduler!Of, IsStart
    <3>5. \A i \in Scheduler!Of("attempt_finished") : i \in 1..Len(file) /\ IsFinish(file[i])
      BY <2>1 DEF Scheduler!Of, IsFinish
    <3>6. QED
      BY <2>1, <3>1, <3>2, <3>3, <3>4, <3>5
  <2>5. Scheduler!CompleteIsLast
    BY <2>1 DEF Scheduler!CompleteIsLast, JournalOK, Before
  <2>6. Scheduler!JournalReadable
    BY <2>1, OnlyLastOpen DEF Scheduler!JournalReadable
  <2>7. QED
    BY <2>2, <2>3, <2>4, <2>5, <2>6
<1>2. QED
  BY <1>1, SchedulerHolds, PTL

\* If the file of the journal is not lost with its directory, all that the run checks
\* holds: a slot is also executed at most as often as allowed, whatever dies, fails or is
\* lost when (scheduler.ts, fileSchedulerJournal.ts).
THEOREM SchedulerIsSound == ASSUME EntryStays PROVE PartsSpec => []SchedulerSound
<1>1. SchedulerInv => Scheduler!ExecutionsBounded
  <2> SUFFICES ASSUME SchedulerInv, NEW s \in Scheduler!Slots, executed[s] # 0
               PROVE  executed[s] <= BACKUP_MAX_ATTEMPTS_PER_SLOT
    BY PartsAssumption DEF SchedulerInv, SchedulerTypes, Scheduler!SchedulerAssumption, Scheduler!ExecutionsBounded
  <2>1. /\ file \in Journals /\ JournalOK(file) /\ Len(file) \in Nat /\ durable \in 0..Len(file) /\ ExecutedOK
        /\ executed[s] \in Nat
    BY LenProperties DEF SchedulerInv, SchedulerTypes, Journals
  <2>2. PICK i \in 1..durable : IsStart(file[i]) /\ executed[s] <= file[i].attempt
    BY <2>1 DEF ExecutedOK
  <2>3. i \in 1..Len(file) /\ ~IsFinish(file[i])
    BY <2>1, <2>2 DEF IsStart, IsFinish
  <2>4. file[i].attempt \in 1..BACKUP_MAX_ATTEMPTS_PER_SLOT
    BY <2>1, <2>3 DEF JournalOK, PairOK
  <2>5. QED
    BY <2>1, <2>2, <2>4, PartsAssumption DEF Scheduler!SchedulerAssumption
<1>2. QED
  BY <1>1, SchedulerHolds, JournalIsSound, PTL DEF SchedulerSound

=============================================================================
