-------------------------- MODULE ReportSubmission --------------------------
(***************************************************************************)
(* recordSubmission (services/faultReportHistory.service.ts) as the        *)
(* statements of its transaction, run by concurrent HTTP requests          *)
(* (routes/ausemioTest.routes.ts) in the production mode, where a report   *)
(* must present an email-verification capability.                          *)
(*                                                                         *)
(* PostgreSQL is modelled by what the code relies on (READ COMMITTED):     *)
(* a lock is held to the end of its transaction, nothing uncommitted is    *)
(* visible, a rollback leaves nothing behind.                              *)
(***************************************************************************)
EXTENDS Integers, FiniteSets

CONSTANTS
    Requests,     \* HTTP submissions; a retry is another request
    Attempts,     \* submissionAttemptId values, one per client draft
    Tokens,       \* verified email capabilities
    Points,       \* light points of the inventory
    NoToken,      \* no capability, or one of another address
    NoPoint,      \* a custom, device or manual target
    Free,         \* nobody holds the lock
    NoReceipt,    \* report_submission_attempts has no such row
    TokenTTL,     \* the capabilities were verified at 0 and expire then
    ReceiptTTL,   \* 30 days
    Window,       \* the recurrence window: 720 hours
    MaxTicks      \* bound: clock ticks between the steps of requests

ASSUME Assumption ==
    /\ TokenTTL \in Nat /\ ReceiptTTL \in Nat \ {0} /\ Window \in Nat
    /\ MaxTicks \in Nat
    /\ NoPoint \notin Points /\ NoToken \notin Tokens /\ Free \notin Requests

VARIABLES
    now,        \* clock_timestamp()
    history,    \* fault_report_history (committed)
    receipts,   \* report_submission_attempts (committed)
    spent,      \* capabilities whose consumed_at is set (committed)
    points,     \* light_points (committed)
    lock,       \* advisory lock of an attempt, row lock of a point or a capability
    pc,         \* the next statement of a request's transaction, or its answer
    inp,        \* what a request submitted
    draft       \* submitted_at and the recurrence count of an open transaction

vars == <<now, history, receipts, spent, points, lock, pc, inp, draft>>

Lockable == Attempts \cup Points \cup Tokens
InTx     == {"lookup", "target", "authorize", "stamp", "commit"}
Input    == [attempt: Attempts, token: Tokens \cup {NoToken}, point: Points \cup {NoPoint}]
Draft    == [at: Nat, count: Nat]
Report   == [by: Requests, attempt: Attempts, token: Tokens,
             point: Points \cup {NoPoint}, at: Nat, count: Nat]
Receipt  == [report: Requests, expires: Nat]

(***************************************************************************)
(* "recorded" and "duplicate" are the 200 answers, "rejected" the 4xx of a *)
(* bad request or target, "forbidden" the 403 of a capability that cannot  *)
(* be consumed.  "unavailable" is the 503 and the answer that never        *)
(* arrives: the client does not learn what happened and may retry.         *)
(***************************************************************************)
Answers == {"recorded", "duplicate", "forbidden", "rejected", "unavailable"}

ASSUME NullAssumption == NoReceipt \notin Receipt

TypeOK ==
    /\ now \in Nat
    /\ history \in SUBSET Report
    /\ receipts \in [Attempts -> Receipt \cup {NoReceipt}]
    /\ spent \in SUBSET Tokens
    /\ points \in SUBSET Points
    /\ lock \in [Lockable -> Requests \cup {Free}]
    /\ pc \in [Requests -> {"new", "attempt"} \cup InTx \cup Answers]
    /\ inp \in [Requests -> Input]
    /\ draft \in [Requests -> Draft]

Init ==
    /\ now = 0
    /\ history = {}
    /\ receipts = [a \in Attempts |-> NoReceipt]
    /\ spent = {}
    /\ points = Points
    /\ lock = [x \in Lockable |-> Free]
    /\ pc = [r \in Requests |-> "new"]
    /\ inp \in [Requests -> Input]
    /\ draft = [r \in Requests |-> [at |-> 0, count |-> 0]]

-----------------------------------------------------------------------------
(* COMMIT and ROLLBACK end the transaction and drop its locks.             *)

\* Mutant of Released.
ReleasedExceptAttempt(r) ==
    [x \in Lockable |-> IF lock[x] = r /\ x \notin Attempts THEN Free ELSE lock[x]]

Released(r) == [x \in Lockable |-> IF lock[x] = r THEN Free ELSE lock[x]]

Ends(r, answer) ==
    /\ lock' = Released(r)
    /\ pc' = [pc EXCEPT ![r] = answer]

GoesTo(r, statement) == pc' = [pc EXCEPT ![r] = statement]
Takes(r, x) == lock[x] = Free /\ lock' = [lock EXCEPT ![x] = r]

Untouched == UNCHANGED <<now, history, receipts, spent, points, inp>>

\* validateFields, validateSubmission, parseTarget and pool.connect.
submit(r) ==
    /\ pc[r] = "new"
    /\ \E next \in {"attempt", "rejected", "unavailable"} : GoesTo(r, next)
    /\ Untouched /\ UNCHANGED <<lock, draft>>

\* Mutant of lockAttempt.
lockAttemptShared(r) ==
    /\ pc[r] = "attempt"
    /\ GoesTo(r, "lookup")
    /\ Untouched /\ UNCHANGED <<lock, draft>>

\* BEGIN; pg_advisory_xact_lock(194733, hashtext(attemptId)).
lockAttempt(r) ==
    /\ pc[r] = "attempt"
    /\ Takes(r, inp[r].attempt)
    /\ GoesTo(r, "lookup")
    /\ Untouched /\ UNCHANGED draft

Live(a) == receipts[a] # NoReceipt /\ receipts[a].expires > now

\* A live receipt answers the retry.  (An expired one is deleted: the deletion
\* becomes visible with the receipt that commit puts in its place.)
lookup(r) ==
    /\ pc[r] = "lookup"
    /\ \/ Live(inp[r].attempt) /\ Ends(r, "duplicate")
       \/ ~Live(inp[r].attempt) /\ GoesTo(r, "target") /\ UNCHANGED lock
    /\ Untouched /\ UNCHANGED draft

\* Mutant of resolveTarget.
resolveTargetUnlocked(r) ==
    /\ pc[r] = "target"
    /\ inp[r].point \in points \cup {NoPoint}
    /\ GoesTo(r, "authorize")
    /\ Untouched /\ UNCHANGED <<lock, draft>>

\* SELECT ... FOR UPDATE of the light point waits for its lock.  Coordinates
\* outside the service area and a bad address proof are rejected too.
resolveTarget(r) ==
    /\ pc[r] = "target"
    /\ LET p == inp[r].point
       IN  \/ /\ p \in points => lock[p] = Free
              /\ Ends(r, "rejected")
           \/ /\ p = NoPoint
              /\ GoesTo(r, "authorize") /\ UNCHANGED lock
           \/ /\ p \in points
              /\ Takes(r, p) /\ GoesTo(r, "authorize")
    /\ Untouched /\ UNCHANGED draft

MayConsume(t) == t \in Tokens \ spent /\ now < TokenTTL

\* Mutant of authorize.
authorizeAtOnce(r) ==
    /\ pc[r] = "authorize"
    /\ MayConsume(inp[r].token)
    /\ spent' = spent \cup {inp[r].token}
    /\ GoesTo(r, "stamp")
    /\ UNCHANGED <<now, history, receipts, points, inp, lock, draft>>

\* consumeVerification on the transaction's own connection: the conditional
\* UPDATE waits for a transaction that has consumed the same capability and
\* not yet committed, and then looks again.
authorize(r) ==
    /\ pc[r] = "authorize"
    /\ \/ ~MayConsume(inp[r].token) /\ Ends(r, "forbidden")
       \/ MayConsume(inp[r].token) /\ Takes(r, inp[r].token) /\ GoesTo(r, "stamp")
    /\ Untouched /\ UNCHANGED draft

Earlier(p, s) == {h \in history : h.point = p /\ h.at >= s - Window /\ h.at < s}

\* FAULT_HISTORY_SUMMARY_SQL; only a light point has a history.
Recurrence(p, s) == IF p = NoPoint THEN 0 ELSE Cardinality(Earlier(p, s))

\* submitted_at is read from the clock in microseconds: by the next statement
\* the clock has moved on.
stamp(r) ==
    /\ pc[r] = "stamp"
    /\ draft' = [draft EXCEPT ![r] = [at |-> now, count |-> Recurrence(inp[r].point, now)]]
    /\ now' = now + 1
    /\ GoesTo(r, "commit")
    /\ UNCHANGED <<history, receipts, spent, points, lock, inp>>

ReportOf(r) ==
    [by |-> r, attempt |-> inp[r].attempt, token |-> inp[r].token,
     point |-> inp[r].point, at |-> draft[r].at, count |-> draft[r].count]

\* Both INSERTs and COMMIT.  attempt_id is a primary key.  The answer may be
\* lost, or COMMIT may fail on the client's side only.
commit(r) ==
    /\ pc[r] = "commit"
    /\ ~Live(inp[r].attempt)
    /\ history' = history \cup {ReportOf(r)}
    /\ receipts' = [receipts EXCEPT ![inp[r].attempt] =
                       [report |-> r, expires |-> now + ReceiptTTL]]
    /\ spent' = spent \cup {inp[r].token}
    /\ \E answer \in {"recorded", "unavailable"} : Ends(r, answer)
    /\ UNCHANGED <<now, points, inp, draft>>

\* A statement fails, the connection drops or the process dies: ROLLBACK.
abort(r) ==
    /\ pc[r] \in InTx \cup {"attempt"}
    /\ Ends(r, "unavailable")
    /\ Untouched /\ UNCHANGED draft

-----------------------------------------------------------------------------
(* The other actors: the administrator, the periodic cleanup, the clock.   *)

deleteLightPoint(p) ==
    /\ p \in points /\ lock[p] = Free
    /\ points' = points \ {p}
    /\ UNCHANGED <<now, history, receipts, spent, lock, pc, inp, draft>>

Expired(x) == x # NoReceipt /\ x.expires <= now

cleanupExpiredSubmissionAttempts ==
    /\ \E gone \in SUBSET {a \in Attempts : Expired(receipts[a])} :
          /\ gone # {}
          /\ receipts' = [a \in Attempts |-> IF a \in gone THEN NoReceipt ELSE receipts[a]]
    /\ UNCHANGED <<now, history, spent, points, lock, pc, inp, draft>>

Tick ==
    /\ now < MaxTicks
    /\ now' = now + 1
    /\ UNCHANGED <<history, receipts, spent, points, lock, pc, inp, draft>>

Statement(r) ==
    \/ lockAttempt(r) \/ lookup(r) \/ resolveTarget(r)
    \/ authorize(r) \/ stamp(r) \/ commit(r)

Next ==
    \/ \E r \in Requests : submit(r) \/ Statement(r) \/ abort(r)
    \/ \E p \in Points : deleteLightPoint(p)
    \/ cleanupExpiredSubmissionAttempts
    \/ Tick

Spec == Init /\ [][Next]_vars

\* Node and PostgreSQL go on with every transaction that is not waiting.
FairSpec == Spec /\ \A r \in Requests : WF_vars(Statement(r))

-----------------------------------------------------------------------------
(* Properties.                                                             *)

\* The automatic recurrence note of a report tells the truth for ever: it
\* counted every report of its light point that was submitted in the window
\* before it, those of concurrent transactions included.
RecurrenceExact ==
    \A h \in history : h.point # NoPoint =>
        h.count = Cardinality({g \in history : /\ g.point = h.point
                                               /\ g.at >= h.at - Window /\ g.at < h.at})

\* What the client was told is what happened: a 200 answer means the attempt
\* is in the history, a 4xx answer that this request recorded nothing.
AnswerTruthful ==
    \A r \in Requests :
        /\ pc[r] = "recorded" => \E h \in history : h.by = r
        /\ pc[r] = "duplicate" =>
              \E h \in history : h.attempt = inp[r].attempt /\ h.by # r
        /\ pc[r] \in {"rejected", "forbidden"} => \A h \in history : h.by # r

\* A retry of an attempt that was recorded, and whose answer was lost, is never
\* refused because the first request spent the capability or because the light
\* point is gone since: while the receipt lives it is answered as a duplicate.
RetryNotRefused ==
    [][\A r \in Requests :
          pc[r] \in InTx /\ pc'[r] \in {"forbidden", "rejected"}
              => ~Live(inp[r].attempt)]_vars

\* Nobody waits for ever: every request that was accepted is answered, in
\* whatever order the requests meet on attempts, light points and capabilities.
AllAnswered == \A r \in Requests : pc[r] # "new" ~> pc[r] \in Answers

Ledger == INSTANCE SubmissionLedger
            WITH ledger <- {[attempt |-> h.attempt, token |-> h.token, at |-> h.at] :
                               h \in history},
                 spent <- spent

\* The transaction implements its promise: report and capability change in one
\* step, a capability authorises one report, and an attempt is recorded once
\* per receipt lifetime.
ImplementsLedger == Ledger!Spec

\* What a submission leaves behind is right in every state: the tables keep their
\* types, every report was stamped with the exact number of recurrences, and
\* nobody was told of a report that is not recorded (recordSubmission).
SubmissionSound ==
    /\ TypeOK
    /\ RecurrenceExact
    /\ AnswerTruthful

=============================================================================
