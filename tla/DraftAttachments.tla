--------------------------- MODULE DraftAttachments ----------------------------
(***************************************************************************)
(* The attachments of a draft of the public report form                    *)
(* (pages/ReportFormPage, utils/reportDraftStorage.ts, App.tsx).  Files    *)
(* are kept in IndexedDB and their number with the draft in localStorage;  *)
(* a chain of promises writes the one, then the other, and a restored form *)
(* compares them.  A sweep at each start of the application, in any tab,   *)
(* removes the files no draft counts.  Drafts are numbered in the order    *)
(* the page opens them, each for a target of its own.                      *)
(***************************************************************************)
EXTENDS Integers, Sequences, FiniteSets, FiniteSetsExt

CONSTANTS
    Files,
    MaxDrafts, MaxSelects, MaxFaults, MaxSwitches,   \* bounds
    None

\* None is neither a number of files, nor a set of them, nor a restore.
DraftsAssumption ==
    /\ MaxDrafts \in Nat \ {0} /\ IsFiniteSet(Files)
    /\ None \notin Nat /\ \A files \in SUBSET Files : None # files
    /\ \A n \in 1..Cardinality(Files) : None # [expected |-> n, after |-> 0]

Drafts == 1..MaxDrafts

VARIABLES
    cur,                    \* the page's draft
    selected, sent,         \* its files; has it been sent, with no answer yet?
    saving, failed,         \* attachmentSaving, attachmentRestoreFailed
    restore,                \* the restore under way
    queue, sequence,        \* attachmentPersistenceQueue, attachmentSaveSequence
    count, pending, store, marked,  \* localStorage: files and state of each draft; IndexedDB; localStorage
    cleaning,               \* is a successful submission being cleaned up?
    sweep,                  \* another start of the application
    may,                    \* the selections of each draft since the last one known to be saved
    selects, faults, switches

pageVars  == <<cur, selected, sent, saving, failed, restore, queue, sequence, cleaning>>
storeVars == <<count, pending, store, marked>>
bounds    == <<selects, faults, switches>>
vars      == <<pageVars, storeVars, sweep, may, bounds>>

Jobs == [kind : {"save", "remove"}, draft : Drafts, files : SUBSET Files, sequence : Nat, stored : BOOLEAN]

TypeOK ==
    /\ cur \in Drafts /\ selected \subseteq Files /\ queue \in Seq(Jobs)
    /\ restore = None \/ (restore.expected \in 1..Cardinality(Files) /\ restore.after \in 0..Len(queue))
    /\ \A d \in Drafts : count[d] = None <=> d < cur
    /\ \A i \in 1..Len(queue) : queue[i].stored => i = 1
    /\ saving => queue # <<>>

Init ==
    /\ cur = 1 /\ selected = {} /\ sent = FALSE /\ saving = FALSE /\ failed = FALSE /\ restore = None
    /\ queue = <<>> /\ sequence = 0 /\ cleaning = FALSE
    /\ count = [d \in Drafts |-> 0] /\ pending = {} /\ store = [d \in Drafts |-> None] /\ marked = {}
    /\ sweep = None /\ may = [d \in Drafts |-> {{}}] /\ selects = 0 /\ faults = 0 /\ switches = 0

Ready == ~saving /\ restore = None
Fault == faults < MaxFaults /\ faults' = faults + 1

-----------------------------------------------------------------------------
(* Selecting and saving.                                                   *)

\* The form is disabled once it is sent; files that do not pass clear the selection.
persistAttachmentSelection(files) ==
    /\ Ready /\ ~sent /\ selects < MaxSelects /\ selects' = selects + 1
    /\ selected' = files /\ failed' = FALSE /\ saving' = TRUE /\ sequence' = sequence + 1
    /\ queue' = Append(queue, [kind |-> "save", draft |-> cur, files |-> files, sequence |-> sequence', stored |-> FALSE])
    /\ may' = [may EXCEPT ![cur] = @ \cup {files}]
    /\ UNCHANGED <<cur, sent, restore, storeVars, cleaning, sweep, faults, switches>>

Current == Head(queue).sequence = sequence

\* The chain moves on; a restore that waits for it comes nearer.
Advance ==
    /\ queue' = Tail(queue)
    /\ restore' = IF restore = None THEN None ELSE [restore EXCEPT !.after = IF @ = 0 THEN 0 ELSE @ - 1]

saveReportAttachments ==
    /\ queue # <<>> /\ Head(queue).kind = "save" /\ ~Head(queue).stored
    /\ IF Current
       THEN /\ store' = [store EXCEPT ![Head(queue).draft] = Head(queue).files]
            /\ queue' = [queue EXCEPT ![1].stored = TRUE] /\ UNCHANGED restore
       ELSE UNCHANGED store /\ Advance
    /\ UNCHANGED <<cur, selected, sent, saving, failed, sequence, cleaning, count, pending, marked, sweep, may, bounds>>

\* Then the draft counts the files.
saved ==
    /\ queue # <<>> /\ Head(queue).kind = "save" /\ Head(queue).stored /\ Advance
    /\ IF Current
       THEN /\ saving' = FALSE
            /\ count' = [count EXCEPT ![Head(queue).draft] = Cardinality(Head(queue).files)]
            /\ may' = [may EXCEPT ![Head(queue).draft] = {Head(queue).files}]
       ELSE UNCHANGED <<saving, count, may>>
    /\ UNCHANGED <<cur, selected, sent, failed, sequence, cleaning, pending, store, marked, sweep, bounds>>

\* The page says so and keeps the files in memory; the draft counts them all the same.
saveFails ==
    /\ queue # <<>> /\ Head(queue).kind = "save" /\ ~Head(queue).stored /\ Current /\ Fault /\ Advance
    /\ saving' = FALSE /\ count' = [count EXCEPT ![cur] = Cardinality(Head(queue).files)]
    /\ UNCHANGED <<cur, selected, sent, failed, sequence, cleaning, pending, store, marked, sweep, may, selects, switches>>

removeReportAttachments ==
    /\ queue # <<>> /\ Head(queue).kind = "remove" /\ Advance
    /\ \/ store' = [store EXCEPT ![Head(queue).draft] = None] /\ UNCHANGED faults
       \/ Fault /\ UNCHANGED store
    /\ UNCHANGED <<cur, selected, sent, saving, failed, sequence, cleaning, count, pending, marked, sweep, may, selects, switches>>

-----------------------------------------------------------------------------
(* Restoring.                                                              *)

\* The effect that restores: what the draft counts is read once the chain is done.
Restores(d, after) ==
    IF count[d] = 0 THEN selected' = {} /\ restore' = None
    ELSE restore' = [expected |-> count[d], after |-> after] /\ UNCHANGED selected

Stored(d) == IF store[d] = None THEN {} ELSE store[d]
Complete  == Cardinality(Stored(cur)) = restore.expected

readReportAttachments ==
    /\ restore # None /\ restore.after = 0 /\ restore' = None
    /\ \/ selected' = Stored(cur) /\ failed' = ~Complete /\ UNCHANGED faults
       \/ failed' = TRUE /\ UNCHANGED selected /\ Fault
    /\ UNCHANGED <<cur, sent, saving, queue, sequence, cleaning, storeVars, sweep, may, selects, switches>>

\* The effect also depends on the language of its message.
switchLocale ==
    /\ switches < MaxSwitches /\ switches' = switches + 1 /\ ~cleaning
    /\ failed' = FALSE /\ Restores(cur, Len(queue))
    /\ UNCHANGED <<cur, sent, saving, queue, sequence, cleaning, storeVars, sweep, may, selects, faults>>

\* A page with the draft opens again; what the old one had in memory is gone.
reload ==
    /\ Fault /\ queue' = <<>> /\ sequence' = 0 /\ saving' = FALSE /\ failed' = FALSE /\ cleaning' = FALSE
    /\ IF count[cur] = 0 THEN selected' = {} /\ restore' = None
       ELSE selected' = {} /\ restore' = [expected |-> count[cur], after |-> 0]
    /\ sent' = (cur \in pending)
    /\ UNCHANGED <<cur, storeVars, sweep, may, selects, switches>>

-----------------------------------------------------------------------------
(* Leaving a draft: another target, or a success.                          *)

\* The next draft of the page: nothing selected, nothing to restore.
Fresh(q) ==
    /\ cur' = cur + 1 /\ selected' = {} /\ saving' = FALSE /\ failed' = FALSE /\ restore' = None /\ sent' = FALSE
    /\ queue' = q /\ count' = [count EXCEPT ![cur] = None] /\ pending' = pending \ {cur}

Removal == <<[kind |-> "remove", draft |-> cur, files |-> {}, sequence |-> 0, stored |-> FALSE]>>

changeTarget ==
    /\ cur < MaxDrafts /\ ~sent
    /\ Fresh(queue \o Removal) /\ sequence' = sequence + 1
    /\ UNCHANGED <<cleaning, store, marked, sweep, may, bounds>>

submit ==
    /\ Ready /\ ~failed /\ ~sent /\ sent' = TRUE /\ pending' = pending \cup {cur}
    /\ UNCHANGED <<cur, selected, saving, failed, restore, queue, sequence, cleaning, count, store, marked, sweep, may, bounds>>

refused ==
    /\ sent /\ ~cleaning /\ sent' = FALSE /\ pending' = pending \ {cur}
    /\ UNCHANGED <<cur, selected, saving, failed, restore, queue, sequence, cleaning, count, store, marked, sweep, may, bounds>>

markReportAttachmentCleanupPending ==
    /\ sent /\ ~cleaning /\ Ready /\ ~failed /\ cur < MaxDrafts /\ cleaning' = TRUE /\ marked' = marked \cup {cur}
    /\ UNCHANGED <<cur, selected, sent, saving, failed, restore, queue, sequence, count, pending, store, sweep, may, bounds>>

succeeded ==
    /\ cleaning /\ cleaning' = FALSE /\ Fresh(<<>>) /\ sequence' = 0
    /\ \/ store' = [store EXCEPT ![cur] = None] /\ marked' = marked \ {cur} /\ UNCHANGED faults
       \/ Fault /\ UNCHANGED <<store, marked>>
    /\ UNCHANGED <<sweep, may, selects, switches>>

-----------------------------------------------------------------------------
(* The sweep.                                                              *)

Counts(d) == count[d] # None /\ count[d] > 0

cleanupExpiredReportDraftData ==
    /\ sweep = None /\ sweep' = [active |-> {d \in Drafts : Counts(d)}, marked |-> marked]
    /\ UNCHANGED <<pageVars, storeVars, may, bounds>>

retryPendingReportAttachmentCleanup ==
    /\ sweep # None /\ sweep.marked # {}
    /\ LET d == Min(sweep.marked) IN
          /\ sweep' = [sweep EXCEPT !.marked = @ \ {d}]
          /\ \/ store' = [store EXCEPT ![d] = None] /\ marked' = marked \ {d} /\ UNCHANGED faults
             \/ Fault /\ UNCHANGED <<store, marked>>
    /\ UNCHANGED <<pageVars, count, pending, may, selects, switches>>

\* Mutant of hasCurrentAttachmentDraft.
hasCurrentAttachmentDraftNever(d) == FALSE

\* A draft that began to count files after the sweep began.
hasCurrentAttachmentDraft(d) == Counts(d)

sweepStore ==
    /\ sweep # None /\ sweep.marked = {} /\ sweep' = None
    /\ store' = [d \in Drafts |-> IF d \in sweep.active \/ hasCurrentAttachmentDraft(d) THEN store[d] ELSE None]
    /\ UNCHANGED <<pageVars, count, pending, marked, may, bounds>>

-----------------------------------------------------------------------------
chain == saveReportAttachments \/ saved \/ saveFails \/ removeReportAttachments
sweeper == cleanupExpiredReportDraftData \/ retryPendingReportAttachmentCleanup \/ sweepStore

Next ==
    \/ \E files \in SUBSET Files : persistAttachmentSelection(files)
    \/ chain \/ readReportAttachments \/ switchLocale \/ reload
    \/ changeTarget \/ submit \/ refused \/ markReportAttachmentCleanupPending \/ succeeded \/ sweeper

Spec == Init /\ [][Next]_vars

\* Storage answers, and the application is started again and again.
FairSpec == Spec /\ WF_vars(chain) /\ WF_vars(readReportAttachments) /\ WF_vars(succeeded) /\ WF_vars(sweeper)

-----------------------------------------------------------------------------
(* Properties.                                                             *)

\* A form that can be sent holds, as a whole, a selection made for this draft,
\* and none older than the last one the page reported saved; files that are lost
\* or incomplete keep it from being sent.
WholeSelection == Ready /\ ~failed => selected \in may[cur]

\* The sweep takes no files that a draft counts, unless its report succeeded.
SweepKeeps ==
    [][ sweep # sweep' => \A d \in Drafts : Counts(d) /\ store[d] # None /\ store'[d] = None => d \in marked ]_vars

\* The files of a draft that is gone do not stay in the browser.
FilesGone == \A d \in Drafts : (count[d] = None /\ store[d] # None) ~> store[d] = None

\* Saving and restoring always end.
BecomesReady == ~Ready ~> Ready

=============================================================================
