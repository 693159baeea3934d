---------------------------- MODULE ImportQueue ----------------------------
(***************************************************************************)
(* The inventory import: preview and confirmation of an uploaded file      *)
(* (services/streetLightsImport.service.ts) and the queue worker that      *)
(* applies confirmed batches to the inventory                              *)
(* (services/importQueueWorker.service.ts), with backend processes that    *)
(* crash, stop, restart and lose the session of their advisory lock.       *)
(*                                                                         *)
(* One SQL statement is one action; claimBatch, a transaction of several   *)
(* statements, is two.  Deadlines (preview_expires_at, lease_until) may    *)
(* pass at any time, so no property rests on how long a step takes.        *)
(***************************************************************************)
EXTENDS Integers, FiniteSets

CONSTANTS
    Workers,      \* backend processes
    Nobody,       \* nobody holds the advisory lock
    Batches,      \* slots of import_batches
    NoBatch,
    Keys,         \* inventory numbers
    Kinds,        \* kinds of rows in the files: a subset of AllKinds
    NRows,        \* rows of a file
    ROWS_PER_QUERY,
    MaxFaults,    \* bound: crashes, lost sessions and database errors
    MaxEdits      \* bound: inventory edits by administrators

\* What PostgreSQL makes of a row that is written to light_points: it stores
\* it, refuses it with a code that safeFailure knows ("bad"), or with one that
\* it does not know ("long": 22001, a text too long for its VARCHAR column).
AllKinds == {"good", "bad", "long"}

ASSUME Assumption ==
    /\ IsFiniteSet(Batches) /\ IsFiniteSet(Workers)
    /\ Kinds \subseteq AllKinds
    /\ NRows \in Nat \ {0} /\ ROWS_PER_QUERY \in Nat \ {0}
    /\ MaxFaults \in Nat /\ MaxEdits \in Nat
    /\ Nobody \notin Workers /\ NoBatch \notin Batches

VARIABLES
    batch,     \* import_batches
    rows,      \* import_batch_rows
    points,    \* light_points: "none", "old", or "new" (what the files say)
    audits,    \* inventory_audit_events with an import_batch_id, per row
    leader,    \* the session that holds WORKER_LOCK
    pc,        \* where the loop of each process is
    job,       \* its batch and worker_token
    left,      \* its iterations left of the row-by-row replay
    held,      \* batch rows its open claim transaction has locked
    blamed,    \* history: rows whose own statement was refused
    faults, edits

vars == <<batch, rows, points, audits, leader, pc, job, left, held, blamed, faults, edits>>

RowNumbers == 1..NRows
Outcomes   == {"created", "updated", "unchanged", "skipped", "failed"}
Mutating   == {"created", "updated"}
Finished   == {"completed", "completed_with_errors"}
Token      == 0..(2 * Cardinality(Workers))     \* 0 is NULL
Row   == [outcome: Outcomes \cup {"pending"}, key: Keys, kind: Kinds]
Batch == [status: {"none", "preview", "queued", "processing"} \cup Finished,
          update: BOOLEAN, due: BOOLEAN, ticket: Nat, token: Token,
          count: [Outcomes -> Nat]]
InBatch == {"bulk", "replay", "failing", "completing"}

TypeOK ==
    /\ batch \in [Batches -> Batch]
    /\ rows \in [Batches -> [RowNumbers -> Row] \cup {<<>>}]
    /\ points \in [Keys -> {"none", "old", "new"}]
    /\ audits \in [Batches -> [RowNumbers -> Nat]]
    /\ leader \in Workers \cup {Nobody}
    /\ pc \in [Workers -> {"down", "passive", "idle", "claiming"} \cup InBatch]
    /\ job \in [Workers -> [batch: Batches \cup {NoBatch}, token: Token]]
    /\ left \in [Workers -> 0..ROWS_PER_QUERY]
    /\ held \in [Workers -> SUBSET Batches]
    /\ blamed \subseteq Batches \X RowNumbers
    /\ faults \in 0..MaxFaults /\ edits \in 0..MaxEdits
    /\ \A b \in Batches :
          /\ (batch[b].status = "none") = (rows[b] = <<>>)
          /\ (batch[b].status = "processing") = (batch[b].token # 0)

NoCount  == [o \in Outcomes |-> 0]
Absent   == [status |-> "none", update |-> FALSE, due |-> FALSE, ticket |-> 0,
             token |-> 0, count |-> NoCount]
NoJob    == [batch |-> NoBatch, token |-> 0]

Init ==
    /\ batch = [b \in Batches |-> Absent]
    /\ rows = [b \in Batches |-> <<>>]
    /\ points \in [Keys -> {"none", "old", "new"}]
    /\ audits = [b \in Batches |-> [n \in RowNumbers |-> 0]]
    /\ leader = Nobody
    /\ pc = [w \in Workers |-> "down"]
    /\ job = [w \in Workers |-> NoJob]
    /\ left = [w \in Workers |-> 0]
    /\ held = [w \in Workers |-> {}]
    /\ blamed = {}
    /\ faults = 0 /\ edits = 0

Locked(b)   == \E w \in Workers : b \in held[w]
With(st)    == {b \in Batches : batch[b].status = st}
Pending(b)  == {n \in DOMAIN rows[b] : rows[b][n].outcome = "pending"}
Counted(b)  == [o \in Outcomes |-> Cardinality({n \in DOMAIN rows[b] : rows[b][n].outcome = o})]

-----------------------------------------------------------------------------
(* Preview and confirmation.                                               *)

\* cleanupExpiredPreviews runs first in every preview, page and confirmation,
\* and in every claim; the rows go with their batch (ON DELETE CASCADE).
ExpiredPreview(b) == batch[b].status = "preview" /\ batch[b].due
Cleaned(table) == [b \in Batches |-> IF ExpiredPreview(b) THEN Absent ELSE table[b]]
CleanedRows    == [b \in Batches |-> IF ExpiredPreview(b) THEN <<>> ELSE rows[b]]

\* Rows the parser or the duplicate check turns down are stored as failed or
\* skipped, without a payload (any kind stands for that); of the rows that stay
\* pending, no two have the same key.
NoPayload == CHOOSE kind \in Kinds : TRUE
PreviewRows ==
    {f \in [RowNumbers -> [outcome: {"pending", "skipped", "failed"}, key: Keys, kind: Kinds]] :
        /\ \A n \in RowNumbers : f[n].outcome # "pending" => f[n].kind = NoPayload
        /\ \A m, n \in RowNumbers :
            m # n /\ f[m].outcome = "pending" /\ f[n].outcome = "pending"
                => f[m].key # f[n].key}

\* The counters are inserted before the rows are classified: all zero.
buildImportPreview(b) ==
    /\ batch[b].status = "none"
    /\ \E f \in PreviewRows : rows' = [CleanedRows EXCEPT ![b] = f]
    /\ batch' = [Cleaned(batch) EXCEPT ![b].status = "preview"]
    /\ UNCHANGED <<points, audits, leader, pc, job, left, held, blamed, faults, edits>>

MayConfirm(b) == batch[b].status = "preview" /\ ~batch[b].due

Confirmed(b, allowUpdate) ==
    [batch[b] EXCEPT !.status = "queued", !.update = allowUpdate, !.due = FALSE,
                     !.ticket = Cardinality({c \in Batches : batch[c].ticket > 0}) + 1,
                     !.count = [Counted(b) EXCEPT !["created"] = 0, !["updated"] = 0,
                                                  !["unchanged"] = 0]]

\* A confirmation of a batch that is past its preview only reports its status.
confirmImport(b, allowUpdate) ==
    /\ MayConfirm(b)
    /\ batch' = [Cleaned(batch) EXCEPT ![b] = Confirmed(b, allowUpdate)]
    /\ rows' = CleanedRows
    /\ UNCHANGED <<points, audits, leader, pc, job, left, held, blamed, faults, edits>>

\* A page of a preview, a confirmation that is refused or repeated, and a claim
\* that finds nothing do no more than the cleanup.
cleanupExpiredPreviews ==
    /\ \E b \in Batches : ExpiredPreview(b)
    /\ batch' = Cleaned(batch)
    /\ rows' = CleanedRows
    /\ UNCHANGED <<points, audits, leader, pc, job, left, held, blamed, faults, edits>>

-----------------------------------------------------------------------------
(* The worker loop.                                                        *)

\* The process goes on at another place with the same batch.
At(w, place) == pc' = [pc EXCEPT ![w] = place]

\* pg_try_advisory_lock is tried once: a process that does not get it serves
\* HTTP only.
startImportQueueWorker(w) ==
    /\ pc[w] = "down"
    /\ \/ leader = Nobody /\ leader' = w /\ At(w, "idle")
       \/ leader # Nobody /\ UNCHANGED leader /\ At(w, "passive")
    /\ UNCHANGED <<batch, rows, points, audits, job, left, held, blamed, faults, edits>>

\* Mutant of Abandoned.
AbandonedNever == {}

\* lease_until has passed.
Abandoned == {b \in With("processing") : batch[b].due}

Requeued == [b \in Batches |-> IF b \in Abandoned
                               THEN [batch[b] EXCEPT !.status = "queued", !.token = 0, !.due = FALSE]
                               ELSE batch[b]]

\* The open transaction has requeued the abandoned batches and locked the oldest
\* queued one, if no other batch is being processed.  Rows that another claim
\* has locked are waited for by the UPDATE and skipped by the SELECT.
claimBatchSelect(w) ==
    /\ pc[w] = "idle"
    /\ \A b \in Abandoned : ~Locked(b)
    /\ With("processing") = Abandoned
    /\ LET free == {b \in With("queued") \cup Abandoned : ~Locked(b)}
       IN  \E b \in free :
              /\ \A c \in free : batch[b].ticket <= batch[c].ticket
              /\ job' = [job EXCEPT ![w] = [batch |-> b, token |-> 0]]
              /\ held' = [held EXCEPT ![w] = Abandoned \cup {b}]
    /\ At(w, "claiming")
    /\ UNCHANGED <<batch, rows, points, audits, leader, left, blamed, faults, edits>>

\* Mutant of IndexAdmits.
IndexAdmitsAll(w) == TRUE

\* import_batches_single_processing_uq.
IndexAdmits(w) == With("processing") \subseteq held[w]

\* A token nobody has: randomUUID.
FreshToken ==
    CHOOSE t \in Token \ {0} :
        /\ \A v \in Workers : job[v].token # t
        /\ \A b \in Batches : batch[b].token # t

claimBatchCommit(w) ==
    /\ pc[w] = "claiming"
    /\ \/ /\ IndexAdmits(w)
          /\ batch' = [Cleaned(Requeued) EXCEPT ![job[w].batch].status = "processing",
                              ![job[w].batch].due = FALSE,
                              ![job[w].batch].token = FreshToken]
          /\ rows' = CleanedRows
          /\ job' = [job EXCEPT ![w].token = FreshToken]
          /\ At(w, "bulk")
       \/ /\ ~IndexAdmits(w)
          /\ UNCHANGED <<batch, rows>>
          /\ job' = [job EXCEPT ![w] = NoJob]
          /\ At(w, "idle")
    /\ held' = [held EXCEPT ![w] = {}]
    /\ UNCHANGED <<points, audits, leader, left, blamed, faults, edits>>

-----------------------------------------------------------------------------
(* PROCESS_PENDING_ROW_SQL.                                                *)

\* Mutant of Owns.
OwnsAnyToken(w) == job[w].batch # NoBatch /\ batch[job[w].batch].status = "processing"

Owns(w) ==
    /\ job[w].batch # NoBatch
    /\ batch[job[w].batch].status = "processing"
    /\ batch[job[w].batch].token = job[w].token

\* Mutant of Candidates.
CandidatesAny(b) == {n \in DOMAIN rows[b] : rows[b][n].outcome \in {"pending", "created"}}

Candidates(b) == Pending(b)

\* FOR UPDATE ... SKIP LOCKED: a batch row that another transaction holds (a
\* claim, or a repeated confirmation) yields no rows at all.
Selected(w, limit) ==
    LET b == job[w].batch
    IN  IF ~Owns(w) \/ Locked(b) THEN {}
        ELSE {n \in Candidates(b) : Cardinality({m \in Candidates(b) : m < n}) < limit}

Outcome(b, n) ==
    CASE points[rows[b][n].key] = "none"                    -> "created"
      [] points[rows[b][n].key] # "none" /\ ~batch[b].update -> "skipped"
      [] points[rows[b][n].key] = "new" /\ batch[b].update   -> "unchanged"
      [] points[rows[b][n].key] = "old" /\ batch[b].update   -> "updated"

\* Rows of the selection that PostgreSQL refuses to write, by kind.
Refused(b, selected, kind) ==
    {n \in selected : rows[b][n].kind = kind /\ Outcome(b, n) \in Mutating}

\* The statement commits: inventory, audit, outcomes, counters and lease.
Applies(b, selected) ==
    /\ rows' = [rows EXCEPT ![b] = [n \in DOMAIN @ |->
                   IF n \in selected THEN [@[n] EXCEPT !.outcome = Outcome(b, n)] ELSE @[n]]]
    /\ points' = [k \in Keys |->
                   IF \E n \in selected : rows[b][n].key = k /\ Outcome(b, n) \in Mutating
                   THEN "new" ELSE points[k]]
    /\ audits' = [audits EXCEPT ![b] = [n \in RowNumbers |->
                   IF n \in selected /\ Outcome(b, n) \in Mutating THEN @[n] + 1 ELSE @[n]]]
    /\ batch' = [batch EXCEPT
                   ![b].count = [o \in Outcomes |->
                        @[o] + Cardinality({n \in selected : Outcome(b, n) = o})],
                   ![b].due = FALSE]

\* An administrator commits a light point with the key of a row between the
\* snapshot of the statement and its INSERT: unique violation.
CreatedMeanwhile(b, selected) ==
    /\ edits < MaxEdits /\ edits' = edits + 1
    /\ \E n \in selected : /\ points[rows[b][n].key] = "none"
                           /\ points' = [points EXCEPT ![rows[b][n].key] = "old"]

\* The statement is refused and rolled back with an error safeFailure knows.
RefusedKnown(b, selected) ==
    /\ \/ Refused(b, selected, "bad") # {} /\ UNCHANGED <<points, edits>>
       \/ CreatedMeanwhile(b, selected)
    /\ UNCHANGED <<batch, rows, audits>>

\* safeFailure rethrows: the loop pauses and starts over with claimBatch.
RefusedUnknown(b, selected) ==
    /\ Refused(b, selected, "long") # {}
    /\ UNCHANGED <<points, edits, batch, rows, audits>>

Accepted(b, selected) ==
    /\ selected # {}
    /\ Refused(b, selected, "bad") = {} /\ Refused(b, selected, "long") = {}
    /\ Applies(b, selected)
    /\ UNCHANGED edits

Untouched == UNCHANGED <<points, edits, batch, rows, audits>>

processImportRows(w) ==
    /\ pc[w] = "bulk"
    /\ LET b == job[w].batch
           selected == Selected(w, ROWS_PER_QUERY)
       IN  \/ Accepted(b, selected) /\ At(w, "bulk") /\ UNCHANGED left
           \/ selected = {} /\ Untouched /\ At(w, "completing") /\ UNCHANGED left
           \/ RefusedKnown(b, selected) /\ At(w, "replay")
              /\ left' = [left EXCEPT ![w] = ROWS_PER_QUERY]
           \/ RefusedUnknown(b, selected) /\ At(w, "idle") /\ UNCHANGED left
    /\ UNCHANGED <<leader, job, held, blamed, faults>>

\* The for loop after a refusal: the rows of the chunk one at a time.
replayRow(w) ==
    /\ pc[w] = "replay"
    /\ LET b == job[w].batch
           selected == Selected(w, 1)
       IN  \/ /\ left[w] > 0
              /\ Accepted(b, selected)
              /\ left' = [left EXCEPT ![w] = @ - 1]
              /\ At(w, "replay") /\ UNCHANGED blamed
           \/ /\ left[w] = 0 \/ selected = {}
              /\ Untouched /\ At(w, "bulk") /\ UNCHANGED <<left, blamed>>
           \/ /\ left[w] > 0
              /\ RefusedKnown(b, selected)
              /\ blamed' = blamed \cup {<<b, n>> : n \in selected}
              /\ At(w, "failing") /\ UNCHANGED left
           \/ /\ left[w] > 0
              /\ RefusedUnknown(b, selected)
              /\ At(w, "idle") /\ UNCHANGED <<left, blamed>>
    /\ UNCHANGED <<leader, job, held, faults>>

failNextPendingRow(w) ==
    /\ pc[w] = "failing"
    /\ LET b == job[w].batch
       IN  /\ ~Locked(b)
           /\ \/ /\ Owns(w)
                 /\ \E n \in Pending(b) :
                       /\ \A m \in Pending(b) : n <= m
                       /\ rows' = [rows EXCEPT ![b][n].outcome = "failed"]
                 /\ batch' = [batch EXCEPT ![b].count["failed"] = @ + 1, ![b].due = FALSE]
              \/ /\ ~Owns(w) \/ Pending(b) = {}
                 /\ UNCHANGED <<rows, batch>>
    /\ left' = [left EXCEPT ![w] = @ - 1]
    /\ At(w, "replay")
    /\ UNCHANGED <<points, audits, leader, job, held, blamed, faults, edits>>

\* Mutant of MayComplete.
MayCompleteOwned(w) == Owns(w)

MayComplete(w) == Owns(w) /\ Pending(job[w].batch) = {}

Completed(b) ==
    [batch[b] EXCEPT !.status = IF batch[b].count["failed"] > 0
                                THEN "completed_with_errors" ELSE "completed",
                     !.token = 0, !.due = FALSE]

completeBatch(w) ==
    /\ pc[w] = "completing"
    /\ ~Locked(job[w].batch)
    /\ \/ /\ MayComplete(w)
          /\ batch' = [batch EXCEPT ![job[w].batch] = Completed(job[w].batch)]
       \/ ~MayComplete(w) /\ UNCHANGED batch
    /\ job' = [job EXCEPT ![w] = NoJob]
    /\ At(w, "idle")
    /\ UNCHANGED <<rows, points, audits, leader, left, held, blamed, faults, edits>>

-----------------------------------------------------------------------------
(* Time, failures and other actors.                                        *)

deadlinePasses(b) ==
    /\ batch[b].status \in {"preview", "processing"} /\ ~batch[b].due
    /\ batch' = [batch EXCEPT ![b].due = TRUE]
    /\ UNCHANGED <<rows, points, audits, leader, pc, job, left, held, blamed, faults, edits>>

Fault == faults < MaxFaults /\ faults' = faults + 1

\* The process is gone, its transaction and its lock with it.
Quits(w) ==
    /\ At(w, "down")
    /\ leader' = IF leader = w THEN Nobody ELSE leader
    /\ job' = [job EXCEPT ![w] = NoJob]
    /\ held' = [held EXCEPT ![w] = {}]
    /\ UNCHANGED <<batch, rows, points, audits, left, blamed, edits>>

crash(w) == pc[w] # "down" /\ Fault /\ Quits(w)

\* SIGTERM: the loops look at "stopped" before the next claim and the next bulk
\* statement; a batch in progress keeps its lease.
stopImportQueueWorker(w) == pc[w] \in {"passive", "idle", "bulk"} /\ Fault /\ Quits(w)

\* The server ends the session of the advisory lock; the loop, which works on
\* other connections of the pool, goes on.
loseSession(w) ==
    /\ leader = w /\ Fault
    /\ leader' = Nobody
    /\ UNCHANGED <<batch, rows, points, audits, pc, job, left, held, blamed, edits>>

\* A transient error of a statement: rolled back, the loop starts over.
databaseError(w) ==
    /\ pc[w] \in InBatch \cup {"claiming"} /\ Fault
    /\ At(w, "idle")
    /\ job' = [job EXCEPT ![w] = NoJob]
    /\ held' = [held EXCEPT ![w] = {}]
    /\ UNCHANGED <<batch, rows, points, audits, leader, left, blamed, edits>>

\* A repeated confirmation holds the batch row while the worker selects.
confirmedMeanwhile(w) ==
    /\ pc[w] \in {"bulk", "replay"} /\ Fault
    /\ At(w, IF pc[w] = "bulk" THEN "completing" ELSE "bulk")
    /\ UNCHANGED <<batch, rows, points, audits, leader, job, left, held, blamed, edits>>

\* An administrator creates, changes or deletes a light point.
editInventory(k) ==
    /\ edits < MaxEdits /\ edits' = edits + 1
    /\ \E v \in {"none", "old", "new"} \ {points[k]} : points' = [points EXCEPT ![k] = v]
    /\ UNCHANGED <<batch, rows, audits, leader, pc, job, left, held, blamed, faults>>

Step(w) ==
    \/ startImportQueueWorker(w)
    \/ claimBatchSelect(w) \/ claimBatchCommit(w)
    \/ processImportRows(w) \/ replayRow(w) \/ failNextPendingRow(w) \/ completeBatch(w)

Next ==
    \/ \E b \in Batches :
          \/ buildImportPreview(b)
          \/ \E allowUpdate \in BOOLEAN : confirmImport(b, allowUpdate)
          \/ deadlinePasses(b)
    \/ cleanupExpiredPreviews
    \/ \E w \in Workers :
          \/ Step(w) \/ crash(w) \/ stopImportQueueWorker(w) \/ loseSession(w)
          \/ databaseError(w) \/ confirmedMeanwhile(w)
    \/ \E k \in Keys : editInventory(k)

Spec == Init /\ [][Next]_vars

\* A process that is down is started again, a running one goes on, time passes.
FairSpec ==
    /\ Spec
    /\ \A w \in Workers : WF_vars(Step(w))
    /\ \A b \in Batches : WF_vars(deadlinePasses(b))

-----------------------------------------------------------------------------
(* Properties.                                                             *)

\* At most one batch is being processed, also when a worker that lost its
\* advisory lock and its successor claim at the same time.
SingleProcessing == Cardinality(With("processing")) <= 1

\* From its confirmation on, the counters of a batch are the outcomes of its
\* rows, whichever worker wrote them, in bulk or row by row, before or after a
\* crash, and however often the administrator confirms.
CountersExact ==
    \A b \in Batches :
        batch[b].status \in {"queued", "processing"} \cup Finished
            => batch[b].count = Counted(b)

\* A row changes the inventory once at most, with one audit event if it did and
\* none if it did not: no replay, retry or successor applies it again.
AppliedOnce ==
    \A b \in Batches : \A n \in DOMAIN rows[b] :
        audits[b][n] = IF rows[b][n].outcome \in Mutating THEN 1 ELSE 0

\* The worker fails only rows whose own statement PostgreSQL refused:
\* failNextPendingRow fails "the next pending row", which must still be the row
\* that was refused, also when the batch has gone to another worker since.
OnlyRefusedRowsFail ==
    [][\A b \in Batches : \A n \in DOMAIN rows[b] :
          rows[b][n].outcome = "pending" /\ rows'[b] # <<>> /\ rows'[b][n].outcome = "failed"
              => <<b, n>> \in blamed]_vars

\* A finished batch has no pending row left, although a locked batch row makes
\* the worker see none.
FinishedMeansDone ==
    \A b \in Batches : batch[b].status \in Finished => Pending(b) = {}

\* Every confirmed batch is finished in the end, through crashes, lost leases,
\* database errors and refused rows.
QueueDrains ==
    \A b \in Batches : batch[b].status = "queued" ~> batch[b].status \in Finished

\* Through crashes, lost leases, replays and repeated confirmations: rows are
\* applied once, the counters of a batch are exactly its rows, and a batch that is
\* finished has no pending row (importQueueWorker.service.ts).
ImportSound ==
    /\ TypeOK
    /\ CountersExact
    /\ AppliedOnce
    /\ FinishedMeansDone

\* What the administrator sees of a batch: whoever has it, and how often it was
\* handed on, it is accepted until it is finished.
Phase(status) == CASE status \in {"queued", "processing"} -> "accepted"
                   [] status \in Finished                -> "finished"
                   [] OTHER                              -> status

Imports == INSTANCE ImportLedger WITH
    Files <- PreviewRows, refused <- blamed,
    status <- [b \in Batches |-> Phase(batch[b].status)],
    update <- [b \in Batches |-> batch[b].update],
    report <- [b \in Batches |-> IF batch[b].status \in Finished THEN batch[b].count ELSE NoCount]

\* Whatever claims, chunks, replays, crashes and successors do to it, a confirmed
\* file is applied row by row, once, together with its outcomes, and what is
\* reported of it when it is finished is what became of its rows.
ImplementsImports == Imports!Spec

=============================================================================
