------------------------------ MODULE Retention ------------------------------
(***************************************************************************)
(* The retention command (runRetentionOnce in operations/retention.ts) and *)
(* the evidence record it leaves (operations/fileEvidence.ts).             *)
(*                                                                         *)
(* A run takes a session lock, captures one instant, deletes expired rows  *)
(* of three tables in chunks, each in a transaction of its own, and looks  *)
(* at what is left.  Its session may be lost between two statements, or    *)
(* with the answer to a COMMIT; another run may then start.                *)
(***************************************************************************)
EXTENDS Integers, FiniteSets, FiniteSetsExt

CONSTANTS
    Runs, Nobody,
    Row, Table, Stamp,    \* rows, their table and created_at or expires_at
    Batch, Completed,     \* finished import batches; completed_at, early if it is NULL
    Year,                 \* how long logs, events and batches are kept
    ChunkSize, MaxChunks, \* RETENTION_CHUNK_SIZE, maxChunksPerTable
    MaxTime, MaxFaults    \* bounds

Tables == {"logs", "audit", "sessions"}
Order  == <<"logs", "audit", "sessions">>

RetentionAssumption ==
    /\ Table \in [Row -> Tables] /\ Stamp \in [Row -> Int] /\ Completed \in [Batch -> Int]
    /\ Year \in Nat /\ ChunkSize \in Nat \ {0} /\ MaxChunks \in Nat \ {0}
    /\ IsFiniteSet(Row) /\ Nobody \notin Runs /\ MaxTime \in Nat /\ MaxFaults \in Nat

VARIABLES
    now, rows,       \* rows of the database
    lock,            \* who holds RETENTION_ADVISORY_LOCK
    pc, session,     \* of a run; session: none, open, lost, pooled, closed
    started,         \* transaction_timestamp() of the run
    table, chunk,    \* position in processTable
    counted,         \* rows the run has counted
    deletedBy,       \* rows the run has deleted, in fact
    state,           \* RetentionResultV1.state
    record,          \* the record's file: none, pending, synced, linked, durable, torn
    faults

run  == <<pc, session, started, table, chunk, counted, deletedBy, state>>
vars == <<now, rows, lock, run, record, faults>>

TypeOK ==
    /\ now \in 0..MaxTime /\ rows \subseteq Row /\ lock \in Runs \cup {Nobody}
    /\ pc \in [Runs -> {"idle", "locking", "deleting", "inspecting", "unlocking", "recording", "returned", "failed"}]
    /\ session \in [Runs -> {"none", "open", "lost", "pooled", "closed"}]
    /\ started \in [Runs -> 0..MaxTime]
    /\ table \in [Runs -> 1..4] /\ chunk \in [Runs -> 0..MaxChunks - 1]
    /\ counted \in [Runs -> 0..Cardinality(Row)] /\ deletedBy \in [Runs -> SUBSET Row]
    /\ state \in [Runs -> {"none", "complete", "success_with_backlog", "skipped_overlapping", "incomplete"}]
    /\ record \in [Runs -> {"none", "pending", "synced", "linked", "durable", "torn"}]
    /\ faults \in 0..MaxFaults

Init ==
    /\ now = 0 /\ rows = {x \in Row : Stamp[x] <= 0 \/ Table[x] = "sessions"} /\ lock = Nobody
    /\ pc = [r \in Runs |-> "idle"] /\ session = [r \in Runs |-> "none"]
    /\ started = [r \in Runs |-> 0] /\ table = [r \in Runs |-> 1] /\ chunk = [r \in Runs |-> 0]
    /\ counted = [r \in Runs |-> 0] /\ deletedBy = [r \in Runs |-> {}]
    /\ state = [r \in Runs |-> "none"] /\ record = [r \in Runs |-> "none"] /\ faults = 0

Goes(r, place) == pc' = [pc EXCEPT ![r] = place]
At(r, from, to) == pc[r] = from /\ Goes(r, to)
Fault == faults < MaxFaults /\ faults' = faults + 1
Alive(r) == session[r] = "open"

\* What is expired at an instant: logs and events after a year, sessions at once.
Cutoff(at) == at - Year
Expired(x, at) == Stamp[x] < IF Table[x] = "sessions" THEN at ELSE Cutoff(at)

-----------------------------------------------------------------------------
(* A run.                                                                  *)

\* The timer; a unit runs again when it has returned.
connect(r) ==
    /\ pc[r] \in {"idle", "returned", "failed"} /\ Goes(r, "locking")
    /\ session' = [session EXCEPT ![r] = "open"]
    /\ table' = [table EXCEPT ![r] = 1] /\ chunk' = [chunk EXCEPT ![r] = 0]
    /\ counted' = [counted EXCEPT ![r] = 0] /\ deletedBy' = [deletedBy EXCEPT ![r] = {}]
    /\ state' = [state EXCEPT ![r] = "complete"] /\ record' = [record EXCEPT ![r] = "none"]
    /\ UNCHANGED <<now, rows, lock, started, faults>>

\* pg_try_advisory_lock; the instant is captured in the next statement.
tryLock(r) ==
    /\ pc[r] = "locking" /\ Alive(r)
    /\ \/ /\ lock = Nobody /\ lock' = r /\ Goes(r, "deleting")
          /\ started' = [started EXCEPT ![r] = now] /\ UNCHANGED <<state, session>>
       \/ /\ lock # Nobody /\ Goes(r, "recording")
          /\ state' = [state EXCEPT ![r] = "skipped_overlapping"]
          /\ session' = [session EXCEPT ![r] = "pooled"] /\ UNCHANGED <<lock, started>>
    /\ UNCHANGED <<now, rows, table, chunk, counted, deletedBy, record, faults>>

Candidates(r) == {x \in rows : Table[x] = Order[table[r]] /\ Expired(x, started[r])}

\* ORDER BY the time stamp LIMIT the chunk's size.
ChunkOf(r) ==
    {c \in kSubset(Min({ChunkSize, Cardinality(Candidates(r))}), Candidates(r)) :
        \A x \in c, y \in Candidates(r) \ c : Stamp[x] <= Stamp[y]}

\* processTable: the table is done when nothing was removed, or at the ceiling.
NextPlace(r, removed) ==
    IF removed = 0 \/ chunk[r] + 1 = MaxChunks
    THEN <<table[r] + 1, 0>> ELSE <<table[r], chunk[r] + 1>>

\* Mutant of Counts.
CountsFullChunks(r, removed) == counted[r] + ChunkSize

Counts(r, removed) == counted[r] + removed

deleteChunk(r) ==
    /\ pc[r] = "deleting" /\ Alive(r) /\ table[r] <= 3
    /\ \E c \in ChunkOf(r) :
          LET place == NextPlace(r, Cardinality(c)) IN
          /\ rows' = rows \ c /\ deletedBy' = [deletedBy EXCEPT ![r] = @ \cup c]
          /\ counted' = [counted EXCEPT ![r] = Counts(r, Cardinality(c))]
          /\ table' = [table EXCEPT ![r] = place[1]] /\ chunk' = [chunk EXCEPT ![r] = place[2]]
    /\ UNCHANGED <<now, lock, pc, session, started, state, record, faults>>

\* The database commits and its answer is lost.
commitUnanswered(r) ==
    /\ At(r, "deleting", "unlocking") /\ Alive(r) /\ table[r] <= 3 /\ Fault
    /\ \E c \in ChunkOf(r) : rows' = rows \ c /\ deletedBy' = [deletedBy EXCEPT ![r] = @ \cup c]
    /\ session' = [session EXCEPT ![r] = "lost"] /\ lock' = IF lock = r THEN Nobody ELSE lock
    /\ state' = [state EXCEPT ![r] = "incomplete"]
    /\ UNCHANGED <<now, started, table, chunk, counted, record>>

endDeleting(r) ==
    /\ At(r, "deleting", "inspecting") /\ table[r] = 4
    /\ UNCHANGED <<now, rows, lock, session, started, table, chunk, counted, deletedBy, state, record, faults>>

ApprovedBacklog(r) == {x \in rows : Expired(x, started[r])} # {}

\* An old batch is eligible, has pending rows, or is referred to by an event:
\* it counts in each case.
ImportBacklog(r) == \E b \in Batch : Completed[b] < Cutoff(started[r])

inspectBacklog(r) ==
    /\ At(r, "inspecting", "unlocking") /\ Alive(r)
    /\ state' = [state EXCEPT ![r] =
                    IF ImportBacklog(r) \/ ApprovedBacklog(r) THEN "success_with_backlog" ELSE "complete"]
    /\ UNCHANGED <<now, rows, lock, session, started, table, chunk, counted, deletedBy, record, faults>>

\* Any statement fails, or is cut off by its timeout: nothing of it is kept.
fail(r) ==
    /\ pc[r] \in {"locking", "deleting", "inspecting"}
    /\ IF Alive(r) THEN Fault ELSE UNCHANGED faults
    /\ state' = [state EXCEPT ![r] = "incomplete"]
    /\ IF pc[r] = "locking"
       THEN /\ Goes(r, "recording")
            /\ session' = [session EXCEPT ![r] = IF @ = "open" THEN "pooled" ELSE "closed"]
       ELSE Goes(r, "unlocking") /\ UNCHANGED session
    /\ UNCHANGED <<now, rows, lock, started, table, chunk, counted, deletedBy, record>>

\* A client whose lock was not released for certain does not return to the pool.
Released(r) == "closed"

unlock(r) ==
    /\ At(r, "unlocking", "recording")
    /\ \/ /\ Alive(r) /\ lock' = Nobody /\ session' = [session EXCEPT ![r] = "pooled"]
          /\ UNCHANGED <<state, faults>>
       \/ /\ IF Alive(r) THEN Fault ELSE UNCHANGED faults
          /\ state' = [state EXCEPT ![r] = "incomplete"]
          /\ session' = [session EXCEPT ![r] = Released(r)]
          /\ lock' = IF Released(r) = "closed" /\ lock = r THEN Nobody ELSE lock
    /\ UNCHANGED <<now, rows, started, table, chunk, counted, deletedBy, record>>

-----------------------------------------------------------------------------
(* persistOperationsRecord, and the end of the command.                    *)

\* Write to a temporary name, fsync, link, fsync of the directory.
NextRecord == [none |-> "pending", pending |-> "synced", synced |-> "linked", linked |-> "durable"]

persist(r) ==
    /\ pc[r] = "recording" /\ record[r] \in DOMAIN NextRecord
    /\ record' = [record EXCEPT ![r] = NextRecord[@]]
    /\ UNCHANGED <<now, rows, lock, run, faults>>

\* The process ends with exit code 0, 10 or 1, and its sessions with it.
return(r) ==
    /\ At(r, "recording", "returned") /\ record[r] = "durable"
    /\ session' = [session EXCEPT ![r] = "closed"]
    /\ lock' = IF lock = r THEN Nobody ELSE lock
    /\ UNCHANGED <<now, rows, started, table, chunk, counted, deletedBy, state, record, faults>>

persistFails(r) ==
    /\ At(r, "recording", "failed") /\ Fault
    /\ record' = [record EXCEPT ![r] = IF @ \in {"linked", "durable"} THEN @ ELSE "none"]
    /\ session' = [session EXCEPT ![r] = "closed"]
    /\ lock' = IF lock = r THEN Nobody ELSE lock
    /\ UNCHANGED <<now, rows, started, table, chunk, counted, deletedBy, state>>

-----------------------------------------------------------------------------
(* The environment.                                                        *)

loseSession(r) ==
    /\ pc[r] \in {"locking", "deleting", "inspecting", "unlocking"} /\ Alive(r) /\ Fault
    /\ session' = [session EXCEPT ![r] = "lost"] /\ lock' = IF lock = r THEN Nobody ELSE lock
    /\ UNCHANGED <<now, rows, pc, started, table, chunk, counted, deletedBy, state, record>>

\* All processes end; a name that was linked, and bytes that were written, may be lost.
powerLoss ==
    /\ Fault
    /\ pc' = [r \in Runs |-> IF pc[r] \in {"idle", "returned"} THEN pc[r] ELSE "failed"]
    /\ session' = [r \in Runs |-> "closed"] /\ lock' = Nobody
    /\ record' \in [Runs -> {"none", "linked", "durable", "torn"}]
    /\ \A r \in Runs :
          CASE record[r] = "durable" -> record'[r] = "durable"
            [] record[r] = "linked" -> record'[r] \in {"none"} \cup
                   (IF "synced" \in DOMAIN NextRecord THEN {"durable"} ELSE {"durable", "torn"})
            [] OTHER -> record'[r] = "none"
    /\ UNCHANGED <<now, rows, started, table, chunk, counted, deletedBy, state>>

\* Time passes; the application writes rows, never with an old time stamp.
Tick ==
    /\ now < MaxTime /\ now' = now + 1
    /\ rows' = rows \cup {x \in Row : Stamp[x] = now + 1 /\ Table[x] # "sessions"}
    /\ UNCHANGED <<lock, run, record, faults>>

Step(r) ==
    \/ tryLock(r) \/ deleteChunk(r) \/ endDeleting(r) \/ inspectBacklog(r) \/ fail(r)
    \/ unlock(r) \/ persist(r) \/ return(r)

Next ==
    \/ Tick \/ powerLoss
    \/ \E r \in Runs : connect(r) \/ Step(r) \/ commitUnanswered(r) \/ persistFails(r) \/ loseSession(r)

Spec == Init /\ [][Next]_vars

\* The timer starts runs again and again, and statements answer.
FairSpec ==
    Spec /\ \A r \in Runs : WF_vars(Step(r) /\ UNCHANGED faults) /\ WF_vars(connect(r))

-----------------------------------------------------------------------------
(* Properties.                                                             *)

\* A run counts what it deleted: never more, and no less unless it says incomplete.
CountsTruthful ==
    \A r \in Runs :
        /\ counted[r] <= Cardinality(deletedBy[r])
        /\ pc[r] \in {"recording", "returned"} /\ state[r] # "incomplete"
              => counted[r] = Cardinality(deletedBy[r])

\* A run deletes only what is expired at the instant it deletes it.
OnlyExpired == [][\A x \in rows \ rows' : Expired(x, now)]_vars

\* A run that says complete left nothing that was expired when it started, and
\* no batch that may go: also later on.
CompleteMeansClean ==
    \A r \in Runs : pc[r] = "returned" /\ state[r] = "complete"
        => /\ \A x \in rows : ~Expired(x, started[r])
           /\ \A b \in Batch : Completed[b] >= Cutoff(started[r])

\* The lock is never left with a connection that went back to the pool.
NoLockLeaks == \A r \in Runs : session[r] \in {"pooled", "closed", "lost"} => lock # r

\* The record of a run, once it has its name, is whole: also after a power loss.
RecordWhole == \A r \in Runs : record[r] # "torn"

\* What is expired is deleted in the end, whatever the ceiling of a run.
ExpiredGoes == \A x \in Row : x \in rows /\ Expired(x, now) ~> x \notin rows

=============================================================================
