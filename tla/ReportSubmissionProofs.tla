----------------------- MODULE ReportSubmissionProofs -----------------------
(***************************************************************************)
(* For every number of requests, attempts, capabilities and light points   *)
(* and every length of the two windows: recordSubmission counts the        *)
(* recurrences of a report exactly, answers truthfully, never refuses the  *)
(* retry of a report that its receipt still remembers, and implements the  *)
(* ledger.                                                                 *)
(***************************************************************************)
EXTENDS ReportSubmission, FiniteSetTheorems, TLAPS

\* A transaction past a statement holds the lock that statement took: the
\* advisory lock of its attempt, then its light point, then its capability,
\* which is still unspent.
LocksHeld(r) ==
    /\ pc[r] \in InTx => lock[inp[r].attempt] = r
    /\ pc[r] \in {"authorize", "stamp", "commit"} /\ inp[r].point # NoPoint
          => lock[inp[r].point] = r
    /\ pc[r] \in {"stamp", "commit"}
          => /\ inp[r].token \in Tokens \ spent
             /\ lock[inp[r].token] = r

\* Once the lookup has found no live receipt, none appears: whatever was
\* recorded for the attempt is a receipt's lifetime older than this report.
AttemptIsOver(r) ==
    /\ pc[r] \in {"target", "authorize", "stamp", "commit"} => ~Live(inp[r].attempt)
    /\ pc[r] \in {"target", "authorize", "stamp"} =>
          \A h \in history : h.attempt = inp[r].attempt => h.at + ReceiptTTL <= now
    /\ pc[r] = "commit" =>
          \A h \in history : h.attempt = inp[r].attempt => h.at + ReceiptTTL <= draft[r].at

\* The count a transaction is about to insert is the one of its light point, and
\* every report of that point is earlier.
DraftExact(r) ==
    pc[r] = "commit" =>
        /\ draft[r].at < now
        /\ inp[r].point # NoPoint =>
              /\ draft[r].count = Cardinality(Earlier(inp[r].point, draft[r].at))
              /\ \A h \in history : h.point = inp[r].point => h.at < draft[r].at

\* A recorded report is one of a request that ended, past, paid for, and
\* remembered by a receipt until its lifetime is over.
ReportOK(h) ==
    /\ pc[h.by] \in {"recorded", "unavailable"}
    /\ h.at < now
    /\ h.token \in spent
    /\ \/ h.at + ReceiptTTL <= now
       \/ /\ receipts[h.attempt] # NoReceipt
          /\ h.at + ReceiptTTL <= receipts[h.attempt].expires

\* A receipt is one of a recorded report.
ReceiptOK(a) == receipts[a] # NoReceipt => \E h \in history : h.attempt = a

\* The inductive invariant.
Inv ==
    /\ TypeOK /\ IsFiniteSet(history)
    /\ \A r \in Requests : LocksHeld(r) /\ AttemptIsOver(r) /\ DraftExact(r)
    /\ \A h \in history : ReportOK(h)
    /\ \A a \in Attempts : ReceiptOK(a)
    /\ RecurrenceExact
    /\ AnswerTruthful

-----------------------------------------------------------------------------
(* Types.                                                                  *)

LEMMA InputType ==
    ASSUME TypeOK, NEW r \in Requests
    PROVE  /\ inp[r].attempt \in Attempts /\ inp[r].attempt \in Lockable
           /\ inp[r].token \in Tokens \cup {NoToken}
           /\ inp[r].point \in Points \cup {NoPoint}
           /\ inp[r].point # NoPoint => inp[r].point \in Lockable
           /\ inp[r].token \in Tokens => inp[r].token \in Lockable
           /\ draft[r].at \in Nat /\ draft[r].count \in Nat
BY DEF TypeOK, Input, Draft, Lockable

LEMMA ReportType ==
    ASSUME TypeOK, NEW h \in history
    PROVE  /\ h.by \in Requests /\ h.attempt \in Attempts /\ h.token \in Tokens
           /\ h.at \in Nat /\ h.count \in Nat
BY DEF TypeOK, Report

LEMMA ReceiptType ==
    ASSUME TypeOK, NEW a \in Attempts, receipts[a] # NoReceipt
    PROVE  receipts[a].expires \in Nat
BY DEF TypeOK, Receipt

\* The end of a transaction drops its own locks and nobody else's.
LEMMA ReleasedKeeps ==
    ASSUME TypeOK, NEW r \in Requests
    PROVE  /\ Released(r) \in [Lockable -> Requests \cup {Free}]
           /\ \A q \in Requests, x \in Lockable :
                 q # r /\ lock[x] = q => Released(r)[x] = q
BY Assumption DEF TypeOK, Released

-----------------------------------------------------------------------------
(* The steps that record nothing: the requests of S move, time may pass and *)
(* expired receipts may go.                                                 *)

Moves(S) ==
    /\ now' >= now
    /\ UNCHANGED <<history, spent, inp>>
    /\ \A a \in Attempts : \/ receipts'[a] = receipts[a]
                           \/ receipts'[a] = NoReceipt /\ Expired(receipts[a])
    /\ \A q \in Requests \ S :
          /\ pc'[q] = pc[q] /\ draft'[q] = draft[q]
          /\ \A x \in Lockable : lock[x] = q => lock'[x] = q
    /\ \A r \in S : /\ pc[r] \notin Answers
                    /\ LocksHeld(r)' /\ AttemptIsOver(r)' /\ DraftExact(r)'
                    /\ pc'[r] # "recorded"
                    /\ pc'[r] = "duplicate" => Live(inp[r].attempt)

LEMMA LiveKeeps ==
    ASSUME Inv, TypeOK', NEW S, Moves(S), NEW a \in Attempts, ~Live(a)
    PROVE  ~Live(a)'
<1>1. now \in Nat /\ now' \in Nat /\ now' >= now  BY DEF Moves, Inv, TypeOK
<1>2. receipts'[a] = receipts[a] \/ receipts'[a] = NoReceipt  BY DEF Moves
<1>3. CASE receipts[a] = NoReceipt  BY <1>2, <1>3 DEF Live
<1>4. CASE receipts[a] # NoReceipt
  <2>1. receipts[a].expires \in Nat  BY <1>4, ReceiptType DEF Inv
  <2>2. QED  BY <1>1, <1>2, <1>4, <2>1 DEF Live
<1>5. QED  BY <1>3, <1>4

LEMMA MovesKeeps ==
    ASSUME Inv, TypeOK', NEW S \in SUBSET Requests, Moves(S)
    PROVE  Inv'
<1> USE DEF Inv
<1>1. now \in Nat /\ now' \in Nat /\ now' >= now  BY DEF Moves, TypeOK
<1>2. history' = history /\ spent' = spent /\ inp' = inp  BY DEF Moves
<1>3. ASSUME NEW q \in Requests PROVE LocksHeld(q)' /\ AttemptIsOver(q)' /\ DraftExact(q)'
  <2>1. CASE q \in S  BY <2>1 DEF Moves
  <2>2. CASE q \notin S
    <3>1. pc'[q] = pc[q] /\ draft'[q] = draft[q] /\ \A x \in Lockable : lock[x] = q => lock'[x] = q
          BY <2>2 DEF Moves
    <3>2. LocksHeld(q)'  BY <1>2, <3>1, InputType DEF LocksHeld
    <3>3. ~Live(inp[q].attempt) => ~Live(inp[q].attempt)'
          BY <1>2, InputType, LiveKeeps
    <3>4. \A h \in history : h.at \in Nat  BY ReportType
    <3>5. \A h \in history : h.at + ReceiptTTL <= now => h.at + ReceiptTTL <= now'
          BY <1>1, <3>4, Assumption
    <3>6. AttemptIsOver(q)'  BY <1>2, <3>1, <3>3, <3>5 DEF AttemptIsOver
    <3>7. draft[q].at < now => draft[q].at < now'  BY <1>1, InputType
    <3>8. DraftExact(q)'  BY <1>2, <3>1, <3>7 DEF DraftExact, Earlier
    <3>9. QED  BY <3>2, <3>6, <3>8
  <2>3. QED  BY <2>1, <2>2
<1>4. ASSUME NEW h \in history PROVE ReportOK(h)'
  <2>1. ReportOK(h) /\ h.by \in Requests /\ h.at \in Nat /\ h.attempt \in Attempts  BY ReportType
  <2>2. pc'[h.by] = pc[h.by]  BY <2>1 DEF Moves, ReportOK, Answers
  <2>3. h.at < now' /\ (h.at + ReceiptTTL <= now => h.at + ReceiptTTL <= now')
        BY <1>1, <2>1, Assumption DEF ReportOK
  <2>4. CASE receipts'[h.attempt] = receipts[h.attempt]
        BY <1>2, <2>1, <2>2, <2>3, <2>4 DEF ReportOK
  <2>5. CASE receipts'[h.attempt] # receipts[h.attempt]
    <3>1. receipts[h.attempt] # NoReceipt /\ receipts[h.attempt].expires <= now
          BY <2>1, <2>5 DEF Moves, Expired
    <3>2. receipts[h.attempt].expires \in Nat  BY <2>1, <3>1, ReceiptType
    <3>3. h.at + ReceiptTTL <= now'  BY <1>1, <2>1, <3>1, <3>2, Assumption DEF ReportOK
    <3>4. QED  BY <1>2, <2>1, <2>2, <2>3, <3>3 DEF ReportOK
  <2>6. QED  BY <2>4, <2>5
<1>5. ASSUME NEW a \in Attempts PROVE ReceiptOK(a)'  BY <1>2 DEF Moves, ReceiptOK
<1>6. RecurrenceExact'  BY <1>2 DEF RecurrenceExact
<1>7. AnswerTruthful'
  <2> SUFFICES ASSUME NEW q \in Requests
               PROVE  /\ pc'[q] = "recorded" => \E h \in history : h.by = q
                      /\ pc'[q] = "duplicate" =>
                            \E h \in history : h.attempt = inp[q].attempt /\ h.by # q
                      /\ pc'[q] \in {"rejected", "forbidden"} => \A h \in history : h.by # q
      BY <1>2 DEF AnswerTruthful
  <2>1. CASE q \notin S  BY <2>1 DEF Moves, AnswerTruthful
  <2>2. CASE q \in S
    <3>1. pc[q] \notin Answers /\ pc'[q] # "recorded" /\ (pc'[q] = "duplicate" => Live(inp[q].attempt))
          BY <2>2 DEF Moves
    <3>2. \A h \in history : h.by # q  BY <3>1 DEF ReportOK, Answers
    <3>3. pc'[q] = "duplicate" => \E h \in history : h.attempt = inp[q].attempt
          BY <3>1, InputType DEF Live, ReceiptOK
    <3>4. QED  BY <3>1, <3>2, <3>3
  <2>3. QED  BY <2>1, <2>2
<1>8. QED  BY <1>2, <1>3, <1>4, <1>5, <1>6, <1>7

-----------------------------------------------------------------------------
(* One lemma per statement of the transaction.                             *)

\* What a request's own statement has to establish, when it records nothing.
LEMMA OwnStep ==
    ASSUME Inv, TypeOK', NEW r \in Requests, now' >= now,
           UNCHANGED <<history, spent, inp, receipts>>,
           \A q \in Requests \ {r} :
              /\ pc'[q] = pc[q] /\ draft'[q] = draft[q]
              /\ \A x \in Lockable : lock[x] = q => lock'[x] = q,
           pc[r] \notin Answers, pc'[r] # "recorded",
           pc'[r] = "duplicate" => Live(inp[r].attempt),
           LocksHeld(r)', AttemptIsOver(r)', DraftExact(r)'
    PROVE  Inv'
<1>1. Moves({r})  BY DEF Moves
<1>2. QED  BY <1>1, MovesKeeps

\* A transaction that ends without a report leaves nothing to keep.
LEMMA EndsKeeps ==
    ASSUME Inv, NEW r \in Requests, NEW answer \in Answers \ {"recorded"},
           pc[r] \in InTx \cup {"attempt"}, Ends(r, answer), Untouched, UNCHANGED draft,
           answer = "duplicate" => Live(inp[r].attempt)
    PROVE  Inv'
<1>1. now \in Nat /\ now' = now  BY DEF Untouched, Inv, TypeOK
<1>2. pc'[r] = answer /\ \A q \in Requests \ {r} : pc'[q] = pc[q]  BY DEF Ends, Inv, TypeOK
<1>3. TypeOK'  BY ReleasedKeeps DEF Ends, Untouched, Inv, TypeOK
<1>4. \A q \in Requests \ {r} : \A x \in Lockable : lock[x] = q => lock'[x] = q
      BY ReleasedKeeps DEF Ends, Inv
<1>5. pc'[r] \notin InTx  BY <1>2 DEF InTx, Answers
<1>6. LocksHeld(r)' /\ AttemptIsOver(r)' /\ DraftExact(r)'
      BY <1>5 DEF LocksHeld, AttemptIsOver, DraftExact, InTx
<1>7. pc[r] \notin Answers /\ pc'[r] # "recorded"  BY <1>2 DEF InTx, Answers
<1>8. QED  BY <1>1, <1>2, <1>3, <1>4, <1>6, <1>7, OwnStep DEF Untouched

\* A transaction that goes on to its next statement, with the locks it has or
\* one more.
LEMMA GoesOnKeeps ==
    ASSUME Inv, NEW r \in Requests, NEW next \in InTx \ {"commit"},
           pc[r] \in InTx \cup {"attempt"}, GoesTo(r, next), Untouched, UNCHANGED draft,
           lock' = lock \/ \E x \in Lockable : Takes(r, x),
           LocksHeld(r)', AttemptIsOver(r)'
    PROVE  Inv'
<1>1. now \in Nat /\ now' = now  BY DEF Untouched, Inv, TypeOK
<1>2. pc'[r] = next /\ \A q \in Requests \ {r} : pc'[q] = pc[q]  BY DEF GoesTo, Inv, TypeOK
<1>3. lock' \in [Lockable -> Requests \cup {Free}]  BY DEF Takes, Inv, TypeOK
<1>4. TypeOK'  BY <1>3 DEF GoesTo, Untouched, Inv, TypeOK
<1>5. \A q \in Requests \ {r} : \A x \in Lockable : lock[x] = q => lock'[x] = q
      BY Assumption DEF Takes, Inv, TypeOK
<1>6. DraftExact(r)'  BY <1>2 DEF DraftExact
<1>7. pc[r] \notin Answers /\ pc'[r] \notin Answers  BY <1>2 DEF InTx, Answers
<1>8. QED  BY <1>1, <1>2, <1>4, <1>5, <1>6, <1>7, OwnStep DEF Untouched, Answers

LEMMA SubmitInv ==
    ASSUME Inv, NEW r \in Requests, submit(r)
    PROVE  Inv'
<1>1. PICK next \in {"attempt", "rejected", "unavailable"} : GoesTo(r, next)  BY DEF submit
<1>2. now \in Nat /\ now' = now /\ pc[r] = "new"  BY DEF submit, Untouched, Inv, TypeOK
<1>3. pc'[r] = next /\ \A q \in Requests \ {r} : pc'[q] = pc[q]  BY <1>1 DEF GoesTo, Inv, TypeOK
<1>4. TypeOK'  BY <1>1 DEF GoesTo, submit, Untouched, Answers, Inv, TypeOK
<1>5. LocksHeld(r)' /\ AttemptIsOver(r)' /\ DraftExact(r)'
      BY <1>3 DEF LocksHeld, AttemptIsOver, DraftExact, InTx
<1>6. QED  BY <1>2, <1>3, <1>4, <1>5, OwnStep DEF submit, Untouched, Answers

LEMMA LockAttemptInv ==
    ASSUME Inv, NEW r \in Requests, lockAttempt(r)
    PROVE  Inv'
<1>1. pc'[r] = "lookup" /\ inp' = inp  BY DEF lockAttempt, GoesTo, Untouched, Inv, TypeOK
<1>2. inp[r].attempt \in Lockable  BY InputType DEF Inv
<1>3. LocksHeld(r)'  BY <1>1, <1>2 DEF LocksHeld, lockAttempt, Takes, Inv, TypeOK
<1>4. AttemptIsOver(r)'  BY <1>1 DEF AttemptIsOver
<1>5. QED  BY <1>2, <1>3, <1>4, GoesOnKeeps DEF lockAttempt, InTx

\* The lookup decides what AttemptIsOver keeps.
LEMMA LookupInv ==
    ASSUME Inv, NEW r \in Requests, lookup(r)
    PROVE  Inv'
<1>1. pc[r] = "lookup" /\ inp' = inp /\ now' = now /\ history' = history /\ receipts' = receipts
      BY DEF lookup, Untouched
<1>2. CASE Live(inp[r].attempt) /\ Ends(r, "duplicate")
      BY <1>1, <1>2, EndsKeeps DEF lookup, Answers, InTx
<1>3. CASE ~Live(inp[r].attempt) /\ GoesTo(r, "target") /\ UNCHANGED lock
  <2>1. pc'[r] = "target"  BY <1>3 DEF GoesTo, Inv, TypeOK
  <2>2. LocksHeld(r)'  BY <1>1, <1>3, <2>1 DEF LocksHeld, InTx, Inv
  <2>3. ASSUME NEW h \in history, h.attempt = inp[r].attempt PROVE h.at + ReceiptTTL <= now
    <3>1. h.at \in Nat /\ now \in Nat /\ ReportOK(h) /\ h.attempt \in Attempts
          BY ReportType DEF Inv, TypeOK
    <3>2. CASE receipts[h.attempt] = NoReceipt  BY <3>1, <3>2 DEF ReportOK
    <3>3. CASE receipts[h.attempt] # NoReceipt
      <4>1. receipts[h.attempt].expires \in Nat  BY <3>1, <3>3, ReceiptType DEF Inv
      <4>2. ~(receipts[h.attempt].expires > now)  BY <1>3, <2>3, <3>3 DEF Live
      <4>3. QED  BY <3>1, <4>1, <4>2, Assumption DEF ReportOK
    <3>4. QED  BY <3>2, <3>3
  <2>4. AttemptIsOver(r)'  BY <1>1, <1>3, <2>1, <2>3 DEF AttemptIsOver, Live
  <2>5. QED  BY <1>1, <1>3, <2>2, <2>4, GoesOnKeeps DEF lookup, InTx
<1>4. QED  BY <1>2, <1>3 DEF lookup

LEMMA ResolveTargetInv ==
    ASSUME Inv, NEW r \in Requests, resolveTarget(r)
    PROVE  Inv'
<1> DEFINE p == inp[r].point
<1>1. /\ pc[r] = "target" /\ inp' = inp /\ now' = now /\ history' = history /\ receipts' = receipts
      /\ Untouched /\ UNCHANGED draft
      BY DEF resolveTarget, Untouched
<1>2. CASE Ends(r, "rejected")  BY <1>1, <1>2, EndsKeeps DEF Answers, InTx
<1>3. CASE \/ p = NoPoint /\ GoesTo(r, "authorize") /\ UNCHANGED lock
           \/ p \in points /\ Takes(r, p) /\ GoesTo(r, "authorize")
  <2>1. pc'[r] = "authorize" /\ GoesTo(r, "authorize")  BY <1>3 DEF GoesTo, Inv, TypeOK
  <2>2. p \in points => p \in Lockable  BY DEF Inv, TypeOK, Lockable
  <2>3. lock' = lock \/ \E x \in Lockable : Takes(r, x)  BY <1>3, <2>2
  <2>4. LocksHeld(r)'
    <3>1. lock[inp[r].attempt] = r /\ inp[r].attempt \in Lockable
          BY <1>1, InputType DEF Inv, LocksHeld, InTx
    <3>2. lock'[inp[r].attempt] = r  BY <1>3, <3>1, <2>2 DEF Takes, Inv, TypeOK
    <3>3. p # NoPoint => lock'[p] = r  BY <1>3, <2>2 DEF Takes, Inv, TypeOK
    <3>4. QED  BY <1>1, <2>1, <3>2, <3>3 DEF LocksHeld
  <2>5. AttemptIsOver(r)'  BY <1>1, <2>1 DEF AttemptIsOver, Live, Inv
  <2>6. QED  BY <1>1, <2>1, <2>3, <2>4, <2>5, GoesOnKeeps DEF InTx
<1>4. QED  BY <1>2, <1>3 DEF resolveTarget

LEMMA AuthorizeInv ==
    ASSUME Inv, NEW r \in Requests, authorize(r)
    PROVE  Inv'
<1> DEFINE t == inp[r].token
<1>1. /\ pc[r] = "authorize" /\ inp' = inp /\ now' = now /\ history' = history /\ receipts' = receipts
      /\ spent' = spent /\ Untouched /\ UNCHANGED draft
      BY DEF authorize, Untouched
<1>2. CASE Ends(r, "forbidden")  BY <1>1, <1>2, EndsKeeps DEF Answers, InTx
<1>3. CASE MayConsume(t) /\ Takes(r, t) /\ GoesTo(r, "stamp")
  <2>1. pc'[r] = "stamp"  BY <1>3 DEF GoesTo, Inv, TypeOK
  <2>2. t \in Tokens \ spent /\ t \in Lockable  BY <1>3, InputType DEF MayConsume, Inv
  <2>3. LocksHeld(r)'
    <3>1. lock[inp[r].attempt] = r /\ inp[r].attempt \in Lockable
          BY <1>1, InputType DEF Inv, LocksHeld, InTx
    <3>2. inp[r].point # NoPoint => lock[inp[r].point] = r /\ inp[r].point \in Lockable
          BY <1>1, InputType DEF Inv, LocksHeld
    <3>3. lock' = [lock EXCEPT ![t] = r] /\ lock \in [Lockable -> Requests \cup {Free}]
          BY <1>3 DEF Takes, Inv, TypeOK
    <3>4. QED  BY <1>1, <2>1, <2>2, <3>1, <3>2, <3>3 DEF LocksHeld
  <2>4. AttemptIsOver(r)'  BY <1>1, <2>1 DEF AttemptIsOver, Live, Inv
  <2>5. QED  BY <1>1, <1>3, <2>2, <2>3, <2>4, GoesOnKeeps DEF InTx
<1>4. QED  BY <1>2, <1>3 DEF authorize

LEMMA EarlierCounted ==
    ASSUME Inv, NEW p, NEW s
    PROVE  Cardinality(Earlier(p, s)) \in Nat
<1>1. Earlier(p, s) \subseteq history  BY DEF Earlier
<1>2. IsFiniteSet(Earlier(p, s))  BY <1>1, FS_Subset DEF Inv
<1>3. QED  BY <1>2, FS_CardinalityType

\* submitted_at is now: every report of the light point is in the past.
LEMMA StampInv ==
    ASSUME Inv, NEW r \in Requests, stamp(r)
    PROVE  Inv'
<1> DEFINE p == inp[r].point
<1>1. /\ pc[r] = "stamp" /\ now' = now + 1 /\ now \in Nat
      /\ UNCHANGED <<history, receipts, spent, points, lock, inp>>
      BY DEF stamp, Inv, TypeOK
<1>2. pc'[r] = "commit" /\ \A q \in Requests \ {r} : pc'[q] = pc[q]
      BY DEF stamp, GoesTo, Inv, TypeOK
<1>3. draft' = [draft EXCEPT ![r] = [at |-> now, count |-> Recurrence(p, now)]]  BY DEF stamp
<1>4. PICK count \in Nat : draft' = [draft EXCEPT ![r] = [at |-> now, count |-> count]]
                           /\ (p # NoPoint => count = Cardinality(Earlier(p, now)))
  <2>1. CASE p = NoPoint  BY <1>3, <2>1 DEF Recurrence
  <2>2. CASE p # NoPoint  BY <1>3, <2>2, EarlierCounted DEF Recurrence
  <2>3. QED  BY <2>1, <2>2
<1>5. draft'[r] = [at |-> now, count |-> count] /\ \A q \in Requests \ {r} : draft'[q] = draft[q]
      BY <1>4 DEF Inv, TypeOK
<1>6. TypeOK'
  <2>1. [at |-> now, count |-> count] \in Draft  BY <1>1 DEF Draft
  <2>2. draft' \in [Requests -> Draft]  BY <1>4, <2>1 DEF Inv, TypeOK
  <2>3. pc' \in [Requests -> {"new", "attempt"} \cup InTx \cup Answers]
        BY DEF stamp, GoesTo, InTx, Inv, TypeOK
  <2>4. QED  BY <1>1, <2>2, <2>3 DEF Inv, TypeOK
<1>7. LocksHeld(r)'  BY <1>1, <1>2 DEF LocksHeld, InTx, Inv
<1>8. AttemptIsOver(r)'
  <2>1. ~Live(inp[r].attempt)'
    <3>1. CASE receipts[inp[r].attempt] = NoReceipt  BY <1>1, <3>1 DEF Live
    <3>2. CASE receipts[inp[r].attempt] # NoReceipt
      <4>1. receipts[inp[r].attempt].expires \in Nat  BY <3>2, InputType, ReceiptType DEF Inv
      <4>2. ~(receipts[inp[r].attempt].expires > now)  BY <1>1, <3>2 DEF Inv, AttemptIsOver, Live
      <4>3. QED  BY <1>1, <4>1, <4>2 DEF Live
    <3>3. QED  BY <3>1, <3>2
  <2>2. QED  BY <1>1, <1>2, <1>5, <2>1 DEF AttemptIsOver, Inv
<1>9. DraftExact(r)'
  <2>1. \A h \in history : h.at < now  BY DEF Inv, ReportOK
  <2>2. Earlier(inp[r].point, draft[r].at)' = Earlier(p, now)  BY <1>1, <1>5 DEF Earlier
  <2>3. QED  BY <1>1, <1>2, <1>4, <1>5, <2>1, <2>2 DEF DraftExact
<1>10. now' >= now  BY <1>1
<1>11. QED  BY <1>1, <1>2, <1>5, <1>6, <1>7, <1>8, <1>9, <1>10, OwnStep DEF Answers

\* The one step that records: nobody else has the attempt, the light point or
\* the capability, so nobody else's account of them changes.
LEMMA CommitInv ==
    ASSUME Inv, NEW r \in Requests, commit(r)
    PROVE  Inv'
<1> DEFINE a == inp[r].attempt
           h0 == ReportOf(r)
<1>1. PICK answer \in {"recorded", "unavailable"} : Ends(r, answer)  BY DEF commit
<1>2. /\ pc[r] = "commit" /\ now \in Nat /\ now' = now /\ inp' = inp /\ draft' = draft
      /\ points' = points /\ history' = history \cup {h0}
      /\ receipts' = [receipts EXCEPT ![a] = [report |-> r, expires |-> now + ReceiptTTL]]
      /\ spent' = spent \cup {inp[r].token}
      BY DEF commit, Inv, TypeOK
<1>3. pc'[r] = answer /\ \A q \in Requests \ {r} : pc'[q] = pc[q]  BY <1>1 DEF Ends, Inv, TypeOK
<1>4. /\ a \in Attempts /\ inp[r].token \in Tokens /\ inp[r].point \in Points \cup {NoPoint}
      /\ draft[r].at \in Nat /\ draft[r].count \in Nat /\ draft[r].at < now
      BY <1>2, InputType DEF Inv, LocksHeld, DraftExact
<1>5. /\ h0.by = r /\ h0.attempt = a /\ h0.token = inp[r].token /\ h0.point = inp[r].point
      /\ h0.at = draft[r].at /\ h0.count = draft[r].count /\ h0 \in Report
      BY <1>4 DEF ReportOf, Report
<1>6. now + ReceiptTTL \in Nat  BY <1>2, Assumption
<1>7. [report |-> r, expires |-> now + ReceiptTTL] \in Receipt  BY <1>6 DEF Receipt
<1>8. receipts'[a] # NoReceipt /\ receipts'[a].expires = now + ReceiptTTL
      /\ \A b \in Attempts : b # a => receipts'[b] = receipts[b]
      BY <1>2, <1>4, <1>7, NullAssumption DEF Inv, TypeOK
<1>9. TypeOK'
  <2>1. receipts' \in [Attempts -> Receipt \cup {NoReceipt}]  BY <1>2, <1>7 DEF Inv, TypeOK
  <2>2. pc' \in [Requests -> {"new", "attempt"} \cup InTx \cup Answers]
        BY <1>1 DEF Ends, Answers, Inv, TypeOK
  <2>3. lock' \in [Lockable -> Requests \cup {Free}]  BY <1>1, ReleasedKeeps DEF Ends, Inv
  <2>4. QED  BY <1>2, <1>4, <1>5, <2>1, <2>2, <2>3 DEF Inv, TypeOK
<1>10. IsFiniteSet(history)'  BY <1>2, FS_AddElement DEF Inv
<1>11. \A h \in history : h.by \in Requests /\ h.by # r /\ h.at \in Nat /\ h.attempt \in Attempts
       BY <1>2, ReportType DEF Inv, ReportOK
<1>12. ASSUME NEW q \in Requests PROVE LocksHeld(q)' /\ AttemptIsOver(q)' /\ DraftExact(q)'
  <2>1. CASE q = r
        BY <1>3, <2>1 DEF LocksHeld, AttemptIsOver, DraftExact, InTx
  <2>2. CASE q # r
    <3>1. pc'[q] = pc[q]  BY <1>3, <2>2
    <3>2. \A x \in Lockable : lock[x] = q => lock'[x] = q  BY <1>1, <2>2, ReleasedKeeps DEF Ends, Inv
    <3>3. /\ pc[q] \in InTx => inp[q].attempt # a
          /\ pc[q] = "commit" /\ inp[q].point # NoPoint => inp[q].point # inp[r].point
          /\ pc[q] \in {"stamp", "commit"} => inp[q].token # inp[r].token
          BY <1>2, <2>2 DEF Inv, LocksHeld, InTx
    <3>4. LocksHeld(q)'
      <4>1. /\ LocksHeld(q) /\ inp[q].attempt \in Lockable
            /\ inp[q].point # NoPoint => inp[q].point \in Lockable
            /\ inp[q].token \in Tokens => inp[q].token \in Lockable
            BY InputType DEF Inv
      <4>2. QED  BY <1>2, <3>1, <3>2, <3>3, <4>1 DEF LocksHeld
    <3>5. AttemptIsOver(q)'
      <4>1. AttemptIsOver(q) /\ inp[q].attempt \in Attempts  BY InputType DEF Inv
      <4>2. pc[q] \in InTx => receipts'[inp[q].attempt] = receipts[inp[q].attempt]
            BY <1>8, <3>3, <4>1
      <4>3. QED  BY <1>2, <1>5, <3>1, <3>3, <4>1, <4>2 DEF AttemptIsOver, Live, InTx
    <3>6. DraftExact(q)'
      <4> SUFFICES ASSUME pc[q] = "commit", inp[q].point # NoPoint
                   PROVE  /\ draft[q].count = Cardinality(Earlier(inp[q].point, draft[q].at))'
                          /\ \A h \in history' : h.point = inp[q].point => h.at < draft[q].at
          BY <1>2, <3>1 DEF DraftExact, Inv
      <4>1. h0.point # inp[q].point  BY <1>5, <3>3
      <4>2. Earlier(inp[q].point, draft[q].at)' = Earlier(inp[q].point, draft[q].at)
            BY <1>2, <4>1 DEF Earlier
      <4>3. QED  BY <1>2, <4>1, <4>2 DEF DraftExact, Inv
    <3>7. QED  BY <3>4, <3>5, <3>6
  <2>3. QED  BY <2>1, <2>2
<1>13. ASSUME NEW h \in history' PROVE ReportOK(h)'
  <2>1. CASE h = h0
    <3>1. h.at + ReceiptTTL <= receipts'[a].expires  BY <1>2, <1>4, <1>5, <1>8, <2>1, Assumption
    <3>2. QED  BY <1>2, <1>3, <1>4, <1>5, <1>8, <2>1, <3>1 DEF ReportOK
  <2>2. CASE h \in history
    <3>1. ReportOK(h) /\ pc'[h.by] = pc[h.by]  BY <1>3, <1>11, <2>2 DEF Inv
    <3>2. h.attempt = a => h.at + ReceiptTTL <= receipts'[a].expires
          BY <1>2, <1>8, <1>11, <2>2, <3>1, Assumption DEF ReportOK
    <3>3. QED  BY <1>2, <1>8, <1>11, <2>2, <3>1, <3>2 DEF ReportOK
  <2>3. QED  BY <1>2, <2>1, <2>2
<1>14. ASSUME NEW b \in Attempts PROVE ReceiptOK(b)'
  <2>1. CASE b = a  BY <1>2, <1>5, <2>1 DEF ReceiptOK
  <2>2. CASE b # a  BY <1>2, <1>8, <2>2 DEF ReceiptOK, Inv
  <2>3. QED  BY <2>1, <2>2
<1>15. RecurrenceExact'
  <2> SUFFICES ASSUME NEW h \in history', h.point # NoPoint
               PROVE  h.count = Cardinality({g \in history' : /\ g.point = h.point
                                                              /\ g.at >= h.at - Window /\ g.at < h.at})
      BY DEF RecurrenceExact
  <2>1. ~(h0.point = h.point /\ h0.at < h.at)
    <3>1. CASE h = h0  BY <1>4, <1>5, <3>1
    <3>2. CASE h \in history
      <4>1. h.point = inp[r].point => h.at < draft[r].at  BY <1>2, <3>2 DEF Inv, DraftExact
      <4>2. QED  BY <1>4, <1>5, <1>11, <3>2, <4>1
    <3>3. QED  BY <1>2, <3>1, <3>2
  <2>2. {g \in history' : g.point = h.point /\ g.at >= h.at - Window /\ g.at < h.at} =
        {g \in history : g.point = h.point /\ g.at >= h.at - Window /\ g.at < h.at}
        BY <1>2, <2>1
  <2>3. CASE h \in history  BY <2>2, <2>3 DEF Inv, RecurrenceExact
  <2>4. CASE h = h0
    <3>1. h.count = Cardinality(Earlier(h.point, h.at))  BY <1>2, <1>5, <2>4 DEF Inv, DraftExact
    <3>2. QED  BY <2>2, <3>1 DEF Earlier
  <2>5. QED  BY <1>2, <2>3, <2>4
<1>16. AnswerTruthful'
  <2> SUFFICES ASSUME NEW q \in Requests
               PROVE  /\ pc'[q] = "recorded" => \E h \in history' : h.by = q
                      /\ pc'[q] = "duplicate" =>
                            \E h \in history' : h.attempt = inp[q].attempt /\ h.by # q
                      /\ pc'[q] \in {"rejected", "forbidden"} => \A h \in history' : h.by # q
      BY <1>2 DEF AnswerTruthful
  <2>1. CASE q = r  BY <1>2, <1>3, <1>5, <2>1
  <2>2. CASE q # r  BY <1>2, <1>3, <1>5, <2>2 DEF Inv, AnswerTruthful
  <2>3. QED  BY <2>1, <2>2
<1>17. QED  BY <1>9, <1>10, <1>12, <1>13, <1>14, <1>15, <1>16 DEF Inv

LEMMA AbortInv ==
    ASSUME Inv, NEW r \in Requests, abort(r)
    PROVE  Inv'
BY EndsKeeps DEF abort, Answers

-----------------------------------------------------------------------------
(* The other actors.                                                       *)

LEMMA OthersInv ==
    ASSUME Inv,
           \/ \E p \in Points : deleteLightPoint(p)
           \/ cleanupExpiredSubmissionAttempts
           \/ Tick
           \/ UNCHANGED vars
    PROVE  Inv'
<1>1. now \in Nat /\ now' \in Nat /\ now' >= now
      BY DEF deleteLightPoint, cleanupExpiredSubmissionAttempts, Tick, vars, Inv, TypeOK
<1>2. UNCHANGED <<history, spent, inp, pc, draft, lock>>
      BY DEF deleteLightPoint, cleanupExpiredSubmissionAttempts, Tick, vars
<1>3. \A a \in Attempts : \/ receipts'[a] = receipts[a]
                          \/ receipts'[a] = NoReceipt /\ Expired(receipts[a])
      BY DEF deleteLightPoint, cleanupExpiredSubmissionAttempts, Tick, vars
<1>4. TypeOK'
  <2>1. receipts' \in [Attempts -> Receipt \cup {NoReceipt}]
        BY DEF deleteLightPoint, cleanupExpiredSubmissionAttempts, Tick, vars, Inv, TypeOK
  <2>2. points' \in SUBSET Points
        BY DEF deleteLightPoint, cleanupExpiredSubmissionAttempts, Tick, vars, Inv, TypeOK
  <2>3. QED  BY <1>1, <1>2, <2>1, <2>2 DEF Inv, TypeOK
<1>5. Moves({})  BY <1>1, <1>2, <1>3 DEF Moves
<1>6. QED  BY <1>4, <1>5, MovesKeeps

LEMMA InitInv == Init => Inv
<1> SUFFICES ASSUME Init PROVE Inv  OBVIOUS
<1>1. TypeOK
  <2>1. receipts \in [Attempts -> Receipt \cup {NoReceipt}]  BY DEF Init
  <2>2. draft \in [Requests -> Draft]  BY DEF Init, Draft
  <2>3. QED  BY <2>1, <2>2 DEF Init, TypeOK
<1>2. IsFiniteSet(history)  BY FS_EmptySet DEF Init
<1>3. \A r \in Requests : LocksHeld(r) /\ AttemptIsOver(r) /\ DraftExact(r)
      BY DEF Init, LocksHeld, AttemptIsOver, DraftExact, InTx
<1>4. QED  BY <1>1, <1>2, <1>3 DEF Init, Inv, ReportOK, ReceiptOK, RecurrenceExact, AnswerTruthful

LEMMA NextInv == Inv /\ [Next]_vars => Inv'
<1> SUFFICES ASSUME Inv, [Next]_vars PROVE Inv'  OBVIOUS
<1>1. ASSUME NEW r \in Requests, submit(r) PROVE Inv'  BY <1>1, SubmitInv
<1>2. ASSUME NEW r \in Requests, Statement(r) PROVE Inv'
      BY <1>2, LockAttemptInv, LookupInv, ResolveTargetInv, AuthorizeInv, StampInv, CommitInv DEF Statement
<1>3. ASSUME NEW r \in Requests, abort(r) PROVE Inv'  BY <1>3, AbortInv
<1>4. QED  BY <1>1, <1>2, <1>3, OthersInv DEF Next

\* The locks, the receipts, the drafts and the history of recordSubmission agree
\* in every reachable state.
THEOREM Inductive == Spec => []Inv
BY InitInv, NextInv, PTL DEF Spec

-----------------------------------------------------------------------------
(* What follows.                                                           *)

\* Types, exact recurrence counts and truthful answers, whatever requests,
\* retries, cleanups and deletions meet (faultReportHistory.service.ts,
\* recordSubmission).
THEOREM SubmissionIsSound == Spec => []SubmissionSound
<1>1. Inv => SubmissionSound  BY DEF Inv, SubmissionSound
<1>2. QED  BY <1>1, Inductive, PTL

\* While its receipt lives a retry is never refused: neither for the capability
\* that the first request spent nor for a light point deleted since
\* (recordSubmission, whose lookup comes first).
THEOREM RetriesAreNotRefused == Spec => RetryNotRefused
<1>1. Inv /\ [Next]_vars =>
         [\A r \in Requests : pc[r] \in InTx /\ pc'[r] \in {"forbidden", "rejected"}
              => ~Live(inp[r].attempt)]_vars
  <2> SUFFICES ASSUME Inv, Next, NEW r \in Requests,
                      pc[r] \in InTx, pc'[r] \in {"forbidden", "rejected"}
               PROVE  ~Live(inp[r].attempt)
      OBVIOUS
  <2>1. PICK q \in Requests : submit(q) \/ Statement(q) \/ abort(q)
        BY DEF Next, deleteLightPoint, cleanupExpiredSubmissionAttempts, Tick, InTx
  <2>2. q = r
        BY <2>1 DEF submit, Statement, abort, lockAttempt, lookup, resolveTarget, authorize, stamp,
                    commit, GoesTo, Ends, InTx, Inv, TypeOK
  <2>3. pc[r] \in {"target", "authorize"}
        BY <2>1, <2>2 DEF submit, Statement, abort, lockAttempt, lookup, resolveTarget, authorize, stamp,
                    commit, GoesTo, Ends, InTx, Inv, TypeOK
  <2>4. QED  BY <2>3 DEF Inv, AttemptIsOver
<1>2. QED  BY <1>1, Inductive, PTL DEF Spec, RetryNotRefused

\* recordSubmission implements the ledger: report and capability in one step, a
\* capability pays for one report, an attempt is recorded once per receipt
\* lifetime (SubmissionLedger).
THEOREM SubmissionImplementsLedger == Spec => ImplementsLedger
<1> DEFINE Entry(h) == [attempt |-> h.attempt, token |-> h.token, at |-> h.at]
           L == {Entry(h) : h \in history}
<1>1. Init => Ledger!Init  BY DEF Init, Ledger!Init
<1>2. Inv /\ [Next]_vars => [Ledger!Next]_<<L, spent>>
  <2> SUFFICES ASSUME Inv, [Next]_vars PROVE Ledger!Next \/ UNCHANGED <<L, spent>>  OBVIOUS
  <2>1. ASSUME NEW r \in Requests, commit(r) PROVE Ledger!Next
    <3> DEFINE e == Entry(ReportOf(r))
    <3>1. history' = history \cup {ReportOf(r)} /\ spent' = spent \cup {inp[r].token} /\ pc[r] = "commit"
          BY <2>1 DEF commit
    <3>2. e.attempt = inp[r].attempt /\ e.token = inp[r].token /\ e.at = draft[r].at  BY DEF ReportOf
    <3>3. L' = L \cup {e}  BY <3>1
    <3>4. e.token \notin spent  BY <3>1, <3>2 DEF Inv, LocksHeld
    <3>5. \A f \in L : f.token \in spent  BY DEF Inv, ReportOK
    <3>6. e \in L' \ L  BY <3>3, <3>4, <3>5
    <3>7. \A f \in L : f.attempt = e.attempt => f.at + ReceiptTTL <= e.at
          BY <3>1, <3>2 DEF Inv, AttemptIsOver
    <3>8. L' = L \cup {e} /\ spent' = spent \cup {e.token}  BY <3>1, <3>2, <3>3
    <3>9. QED
      <4> HIDE DEF e
      <4>1. QED  BY <3>4, <3>6, <3>7, <3>8 DEF Ledger!Next, Ledger!Record
  <2>2. CASE UNCHANGED <<history, spent>>  BY <2>2
  <2>3. QED
        BY <2>1, <2>2 DEF Next, Statement, submit, abort, lockAttempt, lookup, resolveTarget, authorize,
            stamp, deleteLightPoint, cleanupExpiredSubmissionAttempts, Tick, Untouched, vars
<1>3. QED  BY <1>1, <1>2, Inductive, PTL DEF Spec, ImplementsLedger, Ledger!Spec

=============================================================================
