-------------------------- MODULE ControlledRestore --------------------------
(***************************************************************************)
(* Restoring a backup into a fresh database and verifying it there         *)
(* (operations/controlledRestore.ts), and the recovery drill around it     *)
(* (operations/recoveryDrill.ts).                                          *)
(*                                                                         *)
(* The restore holds one session of the administrator's pool, two pools on *)
(* the new database and a child process that writes into it.  Each may be  *)
(* cut off by the deadline or the caller's signal at any time; cutting off *)
(* a query destroys its connection, while the server goes on with it.      *)
(***************************************************************************)
EXTENDS Integers

CONSTANT MaxFaults   \* bound: failures, timeouts, an abort

RestoreAssumption == MaxFaults \in Nat

VARIABLES
    drill,       \* where runSyntheticRecoveryDrill is
    pc,          \* where restoreExactBackupToFreshDatabase is
    aborted,     \* restoreSignal
    admin,       \* adminClient: none, open, pooled, closed
    dirty,       \* its session has other timeouts than it had
    untrusted,   \* untrustedRestoreClients
    database,    \* the target exists
    creating,    \* the server still executes CREATE DATABASE of a dead client
    cutCreate,   \* ... ever did so
    mayExist,    \* targetMayExist
    content,     \* of the target: none, partial, exact, other (of another backup), broken
    granted,
    child,       \* age and pg_restore: none, running, gone
    runtimePool, adminPool,   \* on the target: none, open, lingering
    pgpass, confirmed, outcome, faults

session == <<admin, dirty, untrusted>>
target  == <<database, creating, cutCreate, mayExist, content, granted>>
clients == <<child, runtimePool, adminPool>>
ends    == <<pgpass, confirmed, outcome>>
vars    == <<drill, pc, aborted, session, target, clients, ends, faults>>

TypeOK ==
    /\ drill \in {"idle", "backedUp", "lost", "restored", "matched", "mismatched",
                  "complete", "failed", "cleanup_failed"}
    /\ pc \in {"none", "connecting", "creating", "restoring", "streaming", "granting", "validating", "ending",
               "checking", "finishing", "cleanPools", "cleanConnect", "cleanDrop", "cleanFiles", "ended"}
    /\ admin \in {"none", "open", "pooled", "closed"} /\ child \in {"none", "running", "gone"}
    /\ {aborted, dirty, untrusted, database, creating, cutCreate, mayExist, granted, pgpass, confirmed} \subseteq BOOLEAN
    /\ content \in {"none", "partial", "exact", "other", "broken"}
    /\ {runtimePool, adminPool} \subseteq {"none", "open", "lingering"}
    /\ outcome \in {"none", "receipt", "preflight_failed", "discarded", "unconfirmed"} /\ faults \in 0..MaxFaults
    /\ content # "none" => mayExist
    /\ outcome = "unconfirmed" <=> pc = "ended" /\ ~confirmed

Init ==
    /\ drill = "idle" /\ pc = "none" /\ aborted = FALSE
    /\ admin = "none" /\ dirty = FALSE /\ untrusted = FALSE
    /\ database = FALSE /\ creating = FALSE /\ cutCreate = FALSE /\ mayExist = FALSE
    /\ content = "none" /\ granted = FALSE
    /\ child = "none" /\ runtimePool = "none" /\ adminPool = "none"
    /\ pgpass = FALSE /\ confirmed = TRUE /\ outcome = "none" /\ faults = 0

Fault == faults < MaxFaults /\ faults' = faults + 1
FaultUnlessAborted == IF aborted THEN UNCHANGED faults ELSE Fault
At(from, to) == pc = from /\ pc' = to
TargetSessions == child = "running" \/ runtimePool # "none" \/ adminPool # "none"

-----------------------------------------------------------------------------
(* A query of the administrator's session: read the timeouts, set them,    *)
(* run the statement, set them back.                                       *)

QueryDone == UNCHANGED session

\* The timeouts are not set back for certain, or the deadline cuts the query
\* off: the session is not used again.
QueryUntrusts == untrusted' = TRUE /\ dirty' = TRUE /\ UNCHANGED admin

ReleaseAs == IF untrusted \/ ~confirmed' THEN "closed" ELSE "pooled"

-----------------------------------------------------------------------------
(* The restore.                                                            *)

Fails == pc' = "cleanPools"

\* Identity file, roles, manifest and archive, before anything is created.
preflight ==
    /\ pc = "none" /\ drill = "lost"
    /\ \/ pc' = "connecting" /\ UNCHANGED <<outcome, faults>>
       \/ Fault /\ pc' = "ended" /\ outcome' = "preflight_failed"
    /\ UNCHANGED <<drill, aborted, session, target, clients, pgpass, confirmed>>

\* A client that comes after the deadline is released as soon as it comes.
connectAdmin ==
    /\ pc = "connecting"
    /\ \/ ~aborted /\ admin' = "open" /\ pc' = "creating" /\ UNCHANGED faults
          /\ UNCHANGED <<dirty, untrusted>>
       \/ FaultUnlessAborted /\ Fails /\ UNCHANGED session
       \/ FaultUnlessAborted /\ Fails /\ admin' = "open"   \* looking whether the name is taken
          /\ untrusted' \in BOOLEAN /\ dirty' = untrusted'
    /\ UNCHANGED <<drill, aborted, target, clients, ends>>

\* CREATE DATABASE.  When it is cut off it has happened, or not, or happens later.
createDatabase ==
    /\ pc = "creating" /\ mayExist' = TRUE
    /\ \/ ~aborted /\ QueryDone /\ database' = TRUE /\ pc' = "restoring"
          /\ pgpass' = TRUE /\ adminPool' = "open" /\ UNCHANGED <<creating, cutCreate, faults>>
       \/ /\ FaultUnlessAborted /\ Fails /\ UNCHANGED <<pgpass, adminPool>>
          /\ \/ QueryDone /\ UNCHANGED <<database, creating, cutCreate>>
             \/ QueryUntrusts /\ database' = TRUE /\ UNCHANGED <<creating, cutCreate>>
             \/ QueryUntrusts /\ creating' = TRUE /\ cutCreate' = TRUE /\ UNCHANGED database
    /\ UNCHANGED <<drill, aborted, content, granted, child, runtimePool, confirmed, outcome>>

spawnChildren ==
    /\ At("restoring", "streaming") /\ ~aborted
    /\ child' = "running" /\ content' = "partial"
    /\ UNCHANGED <<drill, aborted, session, database, creating, cutCreate, mayExist, granted,
                   runtimePool, adminPool, ends, faults>>

\* Both children end with 0 and both pipelines are done.
childrenEnd ==
    /\ At("streaming", "granting") /\ ~aborted
    /\ child' = "gone"
    /\ \/ content' = "exact" /\ UNCHANGED faults
       \/ content' \in {"other", "broken"} /\ Fault
    /\ UNCHANGED <<drill, aborted, session, database, creating, cutCreate, mayExist, granted,
                   runtimePool, adminPool, ends>>

\* SIGTERM, SIGKILL, and no longer wait for the exit than a second.
terminateChildren ==
    /\ pc = "streaming" /\ FaultUnlessAborted /\ Fails
    /\ child' \in {"gone", "running"}
    /\ UNCHANGED <<drill, aborted, session, target, runtimePool, adminPool, ends>>

applyGrants ==
    /\ At("granting", "validating") /\ ~aborted
    /\ granted' = TRUE /\ runtimePool' = "open"
    /\ UNCHANGED <<drill, aborted, session, database, creating, cutCreate, mayExist, content,
                   child, adminPool, ends, faults>>

\* Migrations, PostGIS, constraints, sequences, ledger, additional data.
Valid == granted /\ content \in {"exact", "other"}

validate ==
    /\ At("validating", "ending") /\ ~aborted /\ Valid
    /\ UNCHANGED <<drill, aborted, session, target, clients, ends, faults>>

endPools ==
    /\ At("ending", "checking") /\ ~aborted
    /\ runtimePool' = "none" /\ adminPool' = "none"
    /\ UNCHANGED <<drill, aborted, session, target, child, ends, faults>>

\* Mutant of Drained.
DrainedAnyway == TRUE

\* pg_stat_activity shows nobody in the target.
Drained == ~TargetSessions

verifyTargetExists ==
    /\ At("checking", "finishing") /\ ~aborted /\ Drained /\ database /\ QueryDone
    /\ UNCHANGED <<drill, aborted, target, clients, ends, faults>>

return ==
    /\ At("finishing", "ended") /\ ~aborted
    /\ pgpass' = FALSE /\ outcome' = "receipt" /\ UNCHANGED confirmed
    /\ admin' = "pooled" /\ UNCHANGED <<dirty, untrusted>>
    /\ UNCHANGED <<drill, aborted, target, clients, faults>>

\* A stage fails, a check does not hold, or the signal has come.
fail ==
    /\ \/ pc \in {"restoring", "granting", "validating", "finishing"} /\ UNCHANGED <<session, clients>>
       \/ /\ pc = "ending" /\ UNCHANGED session
          /\ \/ runtimePool' = "lingering" /\ UNCHANGED adminPool
             \/ runtimePool' = "none" /\ adminPool' = "lingering"
          /\ UNCHANGED child
       \/ pc = "checking" /\ (QueryDone \/ QueryUntrusts) /\ UNCHANGED clients
    /\ IF pc = "validating" /\ ~Valid THEN UNCHANGED faults ELSE FaultUnlessAborted
    /\ Fails
    /\ UNCHANGED <<drill, aborted, target, ends>>

-----------------------------------------------------------------------------
(* catch: the target is dropped.                                           *)

cleanPools ==
    /\ At("cleanPools", "cleanConnect")
    /\ \/ /\ runtimePool' = "none" /\ adminPool' = "none" /\ UNCHANGED <<confirmed, faults>>
       \/ /\ runtimePool # "none" \/ adminPool # "none"
          /\ IF "lingering" \in {runtimePool, adminPool} THEN UNCHANGED faults ELSE Fault
          /\ runtimePool' \in {"none", IF runtimePool = "none" THEN "none" ELSE "lingering"}
          /\ adminPool' \in {"none", IF adminPool = "none" THEN "none" ELSE "lingering"}
          /\ confirmed' = FALSE
    /\ UNCHANGED <<drill, aborted, session, target, child, pgpass, outcome>>

cleanConnect ==
    /\ pc = "cleanConnect"
    /\ LET kept == admin = "open" /\ ~untrusted IN
       \/ kept /\ pc' = "cleanDrop" /\ UNCHANGED <<session, confirmed, faults>>
       \/ ~kept /\ ~mayExist /\ pc' = "cleanFiles"
          /\ admin' = (IF admin = "open" THEN "closed" ELSE admin) /\ UNCHANGED <<dirty, untrusted, confirmed, faults>>
       \/ ~kept /\ mayExist /\ pc' = "cleanDrop"
          /\ admin' = "open" /\ dirty' = FALSE /\ untrusted' = FALSE /\ UNCHANGED <<confirmed, faults>>
       \/ ~kept /\ mayExist /\ Fault /\ pc' = "cleanFiles"
          /\ admin' = "closed" /\ confirmed' = FALSE /\ UNCHANGED <<dirty, untrusted>>
    /\ UNCHANGED <<drill, aborted, target, clients, pgpass, outcome>>

\* Wait until nobody is in the target, drop it, and look that it is gone.
dropTarget ==
    /\ At("cleanDrop", "cleanFiles")
    /\ \/ ~mayExist /\ UNCHANGED <<session, database, confirmed, faults>>
       \/ mayExist /\ Drained /\ QueryDone /\ database' = FALSE /\ UNCHANGED <<confirmed, faults>>
       \/ /\ mayExist /\ confirmed' = FALSE
          /\ IF TargetSessions THEN UNCHANGED faults ELSE Fault
          /\ QueryDone \/ QueryUntrusts
          /\ database' \in {database, database /\ TargetSessions}
    /\ UNCHANGED <<drill, aborted, creating, cutCreate, mayExist, content, granted, clients, pgpass, outcome>>

cleanFiles ==
    /\ At("cleanFiles", "ended")
    /\ \/ pgpass' = FALSE /\ UNCHANGED <<confirmed, faults>>
       \/ pgpass /\ Fault /\ confirmed' = FALSE /\ UNCHANGED pgpass
    /\ admin' = IF admin = "open" THEN ReleaseAs ELSE admin
    /\ outcome' = IF ~confirmed' THEN "unconfirmed" ELSE IF mayExist THEN "discarded" ELSE "preflight_failed"
    /\ UNCHANGED <<drill, aborted, dirty, untrusted, target, clients>>

-----------------------------------------------------------------------------
(* The environment.                                                        *)

abort ==
    /\ pc \notin {"none", "ended"} /\ ~aborted /\ Fault /\ aborted' = TRUE
    /\ UNCHANGED <<drill, pc, session, target, clients, ends>>

createCompletes ==
    /\ creating /\ creating' = FALSE
    /\ database' \in BOOLEAN /\ (database => database')
    /\ UNCHANGED <<drill, pc, aborted, session, cutCreate, mayExist, content, granted, clients, ends, faults>>

lingerersLeave ==
    /\ TargetSessions /\ pc \in {"cleanConnect", "cleanDrop", "cleanFiles", "ended"}
    /\ child' = (IF child = "running" THEN "gone" ELSE child)
    /\ runtimePool' = "none" /\ adminPool' = "none"
    /\ UNCHANGED <<drill, pc, aborted, session, target, ends, faults>>

-----------------------------------------------------------------------------
(* The recovery drill.                                                     *)

DrillGoes(from, to) == drill = from /\ drill' = to

\* The backup is complete and the loss comes after its snapshot; else it fails.
backUpAndLose ==
    /\ \/ DrillGoes("idle", "backedUp") \/ DrillGoes("backedUp", "lost")
       \/ drill \in {"idle", "backedUp"} /\ drill' = "failed"
    /\ UNCHANGED <<pc, aborted, session, target, clients, ends, faults>>

\* The receipt is about the manifest, the hash and the snapshot of the backup.
Matches == content = "exact"

restoreAnswered ==
    /\ drill = "lost" /\ pc = "ended"
    /\ drill' = IF outcome # "receipt" THEN "failed" ELSE IF Matches THEN "matched" ELSE "mismatched"
    /\ UNCHANGED <<pc, aborted, session, target, clients, ends, faults>>

\* finally: whenever there is a receipt.
Disposes == drill \in {"matched", "mismatched"}

disposeRestoredDatabase ==
    /\ drill \in {"matched", "mismatched"}
    /\ \/ /\ database' = (database /\ ~Disposes) /\ UNCHANGED faults
          /\ drill' = IF drill = "matched" THEN "complete" ELSE "failed"
       \/ Fault /\ UNCHANGED database /\ drill' = "cleanup_failed"
    /\ UNCHANGED <<pc, aborted, session, creating, cutCreate, mayExist, content, granted, clients, ends>>

Step ==
    \/ preflight \/ connectAdmin \/ createDatabase \/ spawnChildren \/ childrenEnd \/ terminateChildren
    \/ applyGrants \/ validate \/ endPools \/ verifyTargetExists \/ return \/ fail
    \/ cleanPools \/ cleanConnect \/ dropTarget \/ cleanFiles
    \/ restoreAnswered \/ disposeRestoredDatabase

Next == Step \/ backUpAndLose \/ abort \/ createCompletes \/ lingerersLeave

Spec == Init /\ [][Next]_vars

\* The program goes on: whatever it waits for has a bound, and no failure is owed.
FairSpec == Spec /\ WF_vars(Step /\ UNCHANGED faults)

-----------------------------------------------------------------------------
(* Properties.                                                             *)

\* A receipt is given for a database that is whole, granted, left by everybody
\* and still there; the password file is gone.
ReceiptSound ==
    outcome = "receipt" /\ drill = "lost"
        => database /\ granted /\ content \in {"exact", "other"} /\ ~TargetSessions /\ ~pgpass

\* A session that went back to the pool has the timeouts it came with.
CleanSessions == admin = "pooled" => ~dirty

\* "discarded" means that nobody works in the target any more, and that it is
\* gone and stays so, if its creation was not cut off.
DiscardedUnlessCut ==
    outcome = "discarded" => ~TargetSessions /\ ~pgpass /\ (database => cutCreate)

\* A drill that answers leaves no restored database behind, unless it or the
\* restore said that cleaning up was not confirmed.
DrillLeavesNothing ==
    drill \in {"complete", "failed"} /\ outcome # "unconfirmed" => ~database \/ cutCreate

\* A drill is complete only if the backup it made is what was restored.
DrillTruthful == drill = "complete" => content = "exact" /\ outcome = "receipt"

\* Whatever is cut off, the drill comes to its end.
DrillEnds == drill = "lost" ~> drill \in {"complete", "failed", "cleanup_failed"}

=============================================================================
