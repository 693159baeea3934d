--------------------------- MODULE BackupScheduler ---------------------------
(***************************************************************************)
(* The backup scheduler (operations/scheduler.ts) over its append-only     *)
(* journal (operations/fileSchedulerJournal.ts) and the session advisory   *)
(* lock (operations/advisoryLock.ts).  A timer starts a process every      *)
(* minute; a process may die anywhere, an append may fail half-way, and    *)
(* the host may lose power, which costs whatever was not synced.           *)
(*                                                                         *)
(* The lock lives as long as the process: an error on the checked-out      *)
(* connection has no listener and ends the process.  Under the lock one    *)
(* append is one action.  A record is a line of the file; a line without   *)
(* its newline is the torn tail.                                           *)
(***************************************************************************)
EXTENDS Integers, Sequences, FiniteSets

CONSTANTS
    Processes,
    Nobody,
    SlotLength,                      \* ticks between two scheduled slots
    BACKUP_RETRY_DELAY_MS,           \* in ticks
    BACKUP_MAX_ATTEMPTS_PER_SLOT,
    MAX_SCHEDULER_JOURNAL_BYTES,     \* in records
    FsyncKeepsEntry,                 \* fsync of a file makes its directory entry durable
    PowerMayFail,                    \* bound: likewise
    MaxFaults,                       \* bound: crashes, failed appends, power losses
    MaxTime                          \* bound of the clock

SchedulerAssumption ==
    /\ SlotLength \in Nat \ {0} /\ BACKUP_RETRY_DELAY_MS \in Nat \ {0}
    /\ BACKUP_MAX_ATTEMPTS_PER_SLOT \in Nat \ {0}
    /\ MAX_SCHEDULER_JOURNAL_BYTES \in Nat
    /\ MaxFaults \in Nat /\ MaxTime \in Nat
    /\ FsyncKeepsEntry \in BOOLEAN /\ PowerMayFail \in BOOLEAN
    /\ Nobody \notin Processes

VARIABLES
    now,
    file,      \* the committed lines
    torn,      \* the file ends in a line without newline
    durable,   \* how many lines survive a power loss
    entry,     \* the directory entry: absent, volatile or durable
    lock,      \* holder of SCHEDULER_ADVISORY_LOCK
    pc,
    job,       \* slot, attempt, run and result of the attempt of a process
    executed,  \* history: calls of executeBackup per slot
    faults

vars == <<now, file, torn, durable, entry, lock, pc, job, executed, faults>>

Slots   == 0..(MaxTime \div SlotLength)
Results == {"complete", "retryable", "refused"}
Null    == 0                         \* retry_at_utc null: no retry is due at 0
Event   == [kind: {"attempt_started", "attempt_finished", "malformed"}, slot: Slots,
            attempt: Nat, run: Nat, at: 0..MaxTime, state: Results \cup {"none"}, retry: Nat]
NoJob   == [slot |-> 0, attempt |-> 0, run |-> 0, state |-> "none"]

\* One type invariant; it includes the size limit of the file.
TypeOK ==
    /\ now \in 0..MaxTime
    /\ file \in Seq(Event) /\ Len(file) <= MAX_SCHEDULER_JOURNAL_BYTES
    /\ torn \in BOOLEAN /\ entry \in {"absent", "volatile", "durable"} /\ durable \in 0..Len(file)
    /\ lock \in Processes \cup {Nobody}
    /\ pc \in [Processes -> {"down", "reconciling", "deciding", "starting", "running", "finishing"}]
    /\ job \in [Processes -> [slot: Slots, attempt: Nat, run: Nat, state: Results \cup {"none"}]]
    /\ executed \in [Slots -> Nat] /\ faults \in 0..MaxFaults
    /\ \A p \in Processes : pc[p] # "down" <=> lock = p

Init ==
    /\ now = 0 /\ file = <<>> /\ torn = FALSE /\ durable = 0 /\ entry = "absent"
    /\ lock = Nobody /\ pc = [p \in Processes |-> "down"]
    /\ job = [p \in Processes |-> NoJob]
    /\ executed = [s \in Slots |-> 0] /\ faults = 0

Of(kind)    == {i \in DOMAIN file : file[i].kind = kind}
Finishes(s) == {i \in Of("attempt_finished") : file[i].slot = s}
startedWithoutFinish ==
    {i \in Of("attempt_started") :
        \A j \in Of("attempt_finished") : file[j].run # file[i].run}
Readable == Of("malformed") = {}
latestDueBackupSlot == now \div SlotLength

isRetryable(state) == state = "retryable"

-----------------------------------------------------------------------------
(* FileSchedulerJournal.append.                                            *)

\* Mutant of Repaired.
RepairedNot(wasTorn) == wasTorn

\* The tail without newline is truncated, and the truncation synced, before
\* anything is written after it.
Repaired(wasTorn) == FALSE

Malformed == [kind |-> "malformed", slot |-> 0, attempt |-> 0, run |-> 0, at |-> 0,
              state |-> "none", retry |-> Null]
Written(e) == Append(file, IF Repaired(torn) THEN Malformed ELSE e)

HasRoom == Len(file) < MAX_SCHEDULER_JOURNAL_BYTES

\* The directory is synced when the file is created and after a repair only.
Opened   == IF entry = "absent" THEN "volatile" ELSE entry
Synced   == IF FsyncKeepsEntry \/ torn THEN "durable" ELSE Opened
Appended(e) ==
    /\ Readable /\ HasRoom
    /\ file' = Written(e) /\ torn' = FALSE /\ durable' = Len(file')
    /\ entry' = IF entry = "absent" THEN "durable" ELSE Synced

\* The call throws: nothing is written, a part of the line, all of it unsynced,
\* or all of it synced but not the directory entry of a new file.
AppendFails(e) ==
    /\ faults < MaxFaults /\ faults' = faults + 1
    /\ Readable /\ HasRoom
    /\ \/ UNCHANGED <<file, torn, durable>> /\ entry' = Opened
       \/ torn' = TRUE /\ UNCHANGED <<file, durable>> /\ entry' \in {Opened, Synced}
       \/ file' = Written(e) /\ torn' = FALSE /\ UNCHANGED durable /\ entry' \in {Opened, Synced}
       \/ /\ entry = "absent"
          /\ file' = Written(e) /\ torn' = FALSE /\ durable' = Len(file')
          /\ entry' = Synced

\* readEvents or append throws without having written anything.
JournalRefuses ==
    /\ ~Readable \/ ~HasRoom
    /\ torn' = (torn /\ ~Readable) /\ entry' = (IF Readable /\ torn THEN "durable" ELSE Opened)
    /\ UNCHANGED <<file, durable, faults>>

\* The process ends: finally, or the session ends with it.
Ends(p) ==
    /\ lock' = Nobody
    /\ pc' = [pc EXCEPT ![p] = "down"]
    /\ job' = [job EXCEPT ![p] = NoJob]

\* One append; the process goes on only if it returned.
Appends(p, e, next, newJob) ==
    /\ \/ /\ Appended(e) /\ UNCHANGED faults
          /\ IF next = "down" THEN Ends(p)
             ELSE /\ pc' = [pc EXCEPT ![p] = next]
                  /\ job' = [job EXCEPT ![p] = newJob] /\ UNCHANGED lock
       \/ AppendFails(e) /\ Ends(p)
       \/ JournalRefuses /\ Ends(p)
    /\ UNCHANGED <<now, executed>>

-----------------------------------------------------------------------------
(* runScheduledBackup.                                                     *)

\* pg_try_advisory_lock.  A poll that does not get it ends at once:
\* skipped_overlapping.
tryAcquireSessionLock(p) == lock = Nobody /\ lock' = p

poll(p) ==
    /\ pc[p] = "down"
    /\ tryAcquireSessionLock(p)
    /\ pc' = [pc EXCEPT ![p] = "reconciling"]
    /\ UNCHANGED <<now, file, torn, durable, entry, job, executed, faults>>

\* Mutant of AbandonedSlot.
AbandonedSlotNow(i) == latestDueBackupSlot

\* The attempt is closed in its own slot, not in the one that is due by now.
AbandonedSlot(i) == file[i].slot

RetryAt(attempt, state, time) ==
    IF attempt < BACKUP_MAX_ATTEMPTS_PER_SLOT /\ isRetryable(state)
    THEN time + BACKUP_RETRY_DELAY_MS ELSE Null

Reconciliation(i) ==
    [kind |-> "attempt_finished", slot |-> AbandonedSlot(i), attempt |-> file[i].attempt,
     run |-> file[i].run, at |-> now, state |-> "retryable",
     retry |-> RetryAt(file[i].attempt, "retryable", file[i].at)]

reconcile(p) ==
    /\ pc[p] = "reconciling"
    /\ \/ \E i \in startedWithoutFinish :
             /\ \A j \in startedWithoutFinish : i <= j
             /\ Appends(p, Reconciliation(i), "reconciling", job[p])
       \/ /\ Readable /\ startedWithoutFinish = {}
          /\ pc' = [pc EXCEPT ![p] = "deciding"]
          /\ UNCHANGED <<now, file, torn, durable, entry, lock, job, executed, faults>>

Latest(s) == CHOOSE i \in Finishes(s) : \A j \in Finishes(s) : j <= i

AlreadyFinal(s) ==
    /\ Finishes(s) # {}
    /\ LET e == file[Latest(s)]
       IN  \/ e.attempt >= BACKUP_MAX_ATTEMPTS_PER_SLOT
           \/ ~isRetryable(e.state)

RetryNotDue(s) ==
    /\ Finishes(s) # {}
    /\ LET e == file[Latest(s)]
       IN  now < IF e.retry # Null THEN e.retry ELSE e.at + BACKUP_RETRY_DELAY_MS

NextAttempt(s) == IF Finishes(s) = {} THEN 1 ELSE file[Latest(s)].attempt + 1

\* The slot is computed again once the lock is held and the journal is settled.
decide(p) ==
    /\ pc[p] = "deciding"
    /\ LET s == latestDueBackupSlot
       IN  \/ (AlreadyFinal(s) \/ RetryNotDue(s)) /\ Ends(p)
           \/ /\ ~AlreadyFinal(s) /\ ~RetryNotDue(s)
              /\ pc' = [pc EXCEPT ![p] = "starting"]
              /\ job' = [job EXCEPT ![p] = [slot |-> s, attempt |-> NextAttempt(s),
                                            run |-> Len(file) + 1, state |-> "none"]]
              /\ UNCHANGED lock
    /\ UNCHANGED <<now, file, torn, durable, entry, executed, faults>>

start(p) ==
    /\ pc[p] = "starting"
    /\ Appends(p, [kind |-> "attempt_started", slot |-> job[p].slot,
                   attempt |-> job[p].attempt, run |-> job[p].run, at |-> now,
                   state |-> "none", retry |-> Null], "running", job[p])

\* executeBackup returns a result, or throws, which counts as incomplete.
execute(p) ==
    /\ pc[p] = "running"
    /\ \E state \in Results : job' = [job EXCEPT ![p].state = state]
    /\ executed' = [executed EXCEPT ![job[p].slot] = @ + 1]
    /\ pc' = [pc EXCEPT ![p] = "finishing"]
    /\ UNCHANGED <<now, file, torn, durable, entry, lock, faults>>

finish(p) ==
    /\ pc[p] = "finishing"
    /\ Appends(p, [kind |-> "attempt_finished", slot |-> job[p].slot,
                   attempt |-> job[p].attempt, run |-> job[p].run, at |-> now,
                   state |-> job[p].state,
                   retry |-> RetryAt(job[p].attempt, job[p].state, now)], "down", NoJob)

-----------------------------------------------------------------------------
(* The environment.                                                        *)

\* The process dies; a backup that was running has been executed in part.
crash(p) ==
    /\ pc[p] # "down" /\ faults < MaxFaults /\ faults' = faults + 1
    /\ Ends(p)
    /\ executed' = IF pc[p] = "running" THEN [executed EXCEPT ![job[p].slot] = @ + 1] ELSE executed
    /\ UNCHANGED <<now, file, torn, durable, entry>>

\* Lines that were never synced are lost, wholly or but for a part of the
\* first; so may be the whole file while its directory entry is volatile.
powerLoss ==
    /\ PowerMayFail /\ faults < MaxFaults /\ faults' = faults + 1
    /\ \/ \E kept \in durable..Len(file) :
             /\ file' = SubSeq(file, 1, kept) /\ durable' = kept
             /\ torn' \in IF torn \/ kept < Len(file) THEN BOOLEAN ELSE {FALSE}
             /\ entry' = IF entry = "absent" THEN "absent" ELSE "durable"
       \/ /\ entry = "volatile"
          /\ file' = <<>> /\ durable' = 0 /\ torn' = FALSE /\ entry' = "absent"
    /\ lock' = Nobody
    /\ pc' = [p \in Processes |-> "down"] /\ job' = [p \in Processes |-> NoJob]
    /\ executed' = [s \in Slots |-> executed[s] +
                       Cardinality({p \in Processes : pc[p] = "running" /\ job[p].slot = s})]
    /\ UNCHANGED now

Tick ==
    /\ now < MaxTime /\ now' = now + 1
    /\ UNCHANGED <<file, torn, durable, entry, lock, pc, job, executed, faults>>

Step(p) == poll(p) \/ reconcile(p) \/ decide(p) \/ start(p) \/ execute(p) \/ finish(p)

Next == Tick \/ powerLoss \/ \E p \in Processes : Step(p) \/ crash(p)

Spec == Init /\ [][Next]_vars

\* The timer polls every minute, and a process that runs goes on.
FairSpec == Spec /\ \A p \in Processes : WF_vars(Step(p))

-----------------------------------------------------------------------------
(* Properties.                                                             *)

\* executeBackup is called at most twice for a slot, whatever dies when: an
\* attempt is durable in the journal before it begins.
ExecutionsBounded == \A s \in Slots : executed[s] <= BACKUP_MAX_ATTEMPTS_PER_SLOT

\* No two attempts of one slot begin closer together than the retry delay, not
\* even when the first was found abandoned and closed by another process.
RetryPaced ==
    \A i, j \in Of("attempt_started") :
        i < j /\ file[i].slot = file[j].slot
            => file[j].at >= file[i].at + BACKUP_RETRY_DELAY_MS

\* A finish belongs to a start of the same slot and attempt, and a start has
\* one finish at most: work abandoned in an earlier slot neither consumes nor
\* delays the attempt of the current one.
FinishesMatch ==
    \A j \in Of("attempt_finished") :
        /\ \E i \in Of("attempt_started") :
              i < j /\ file[i].run = file[j].run /\ file[i].slot = file[j].slot
                    /\ file[i].attempt = file[j].attempt
        /\ \A k \in Of("attempt_finished") : file[k].run = file[j].run => k = j

\* A complete backup on record is the last word on its slot.
CompleteIsLast ==
    \A i, j \in DOMAIN file :
        i < j /\ file[i].state = "complete" => file[j].slot # file[i].slot

\* No failed append leaves a file that later polls cannot read.
JournalReadable == Readable

\* An attempt that began does not stay open: the next poll closes it.
AttemptsSettled == []<>(startedWithoutFinish = {})

=============================================================================
