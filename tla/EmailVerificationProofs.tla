----------------------- MODULE EmailVerificationProofs -----------------------
(***************************************************************************)
(* Machine-checked proofs about EmailVerification, for any number of       *)
(* intents, addresses, requests and tokens and any values of the limits.   *)
(***************************************************************************)
EXTENDS EmailVerification, FiniteSetTheorems, TLAPS

(***************************************************************************)
(* The inductive invariant.  The bounds are facts about single fields; what*)
(* makes them inductive is how a row and the history of its codes agree.   *)
(***************************************************************************)

\* Exactly the calls past their commit have a code.
CallsAgree ==
    \A r \in Requests : Stored(r) <=> pc[r] \notin {"new", "rejected"}

\* A row holds the latest code of its intent and describes it truthfully.
RowAgrees(i) ==
    /\ Stored(ch[i].otp)
    /\ code[ch[i].otp].intent = i
    /\ code[ch[i].otp].checks = ch[i].attempts
    /\ code[ch[i].otp].at = ch[i].lastSent
    /\ ch[i].expires = ch[i].lastSent + TTL
    /\ ch[i].lastSent <= now
    /\ \A q \in CodesOf(i) : code[q].at <= ch[i].lastSent
    /\ Consumed(ch[i]) => Verified(ch[i]) /\ ch[i].lastSent <= ch[i].consumedAt
    /\ consumptions[i] = IF Consumed(ch[i]) THEN 1 ELSE 0

\* An intent no call has used has left no trace.
FreshUntouched(i) ==
    FreshIntent(i) => /\ ch[i] = NoRow
                      /\ consumptions[i] = 0
                      /\ \A g \in grants : g.intent # i

\* The row keeps the code from the commit on, not only from the provider's
\* answer, until it expires or is replaced.
CodeHeld(i, r) ==
    pc[r] \in {"stored", "sent"} /\ now < code[r].at + TTL /\ ~Superseded(r)
        => ch[i] # NoRow /\ ch[i].otp = r

Honoured(i, g) ==
    g.until > now /\ consumptions[i] = 0
        => /\ ch[i] # NoRow
           /\ MayConsume(ch[i], g.token)
           /\ ch[i].expires = g.until

IntentOK(i) ==
    /\ ch[i] # NoRow => RowAgrees(i)
    /\ FreshUntouched(i)
    /\ \A r \in CodesOf(i) : CodeHeld(i, r) /\ code[r].checks <= MaxAttempts
    /\ consumptions[i] <= 1
    /\ \A g \in grants : g.intent = i => Honoured(i, g)

IInv ==
    /\ TypeOK
    /\ CallsAgree
    /\ \A i \in Intents : IntentOK(i)

-----------------------------------------------------------------------------
(* Facts about the operators the actions are built from.                   *)

ChType   == [Intents -> Challenge \cup {NoRow}]
RateType == [RateKeys -> RateRow \cup {NoRow}]

\* Counting a call keeps the rate table well typed (applyRateLimits).
LEMMA BumpType ==
    ASSUME now \in Nat, NEW row \in RateRow \cup {NoRow}
    PROVE  Bump(row) \in RateRow
<1>1. CASE row = NoRow \/ WindowOver(row)
  BY <1>1 DEF Bump, RateRow
<1>2. CASE ~(row = NoRow \/ WindowOver(row))
  <2>1. row \in RateRow
    BY <1>2
  <2>2. row.count \in Nat \ {0}
    BY <2>1 DEF RateRow
  <2>3. (IF row.count < CountCap THEN row.count + 1 ELSE row.count) \in Nat \ {0}
    BY <2>2, LimitAssumption
  <2>4. QED
    BY <1>2, <2>1, <2>3 DEF Bump, RateRow
<1>3. QED
  BY <1>1, <1>2

LEMMA BumpedType ==
    ASSUME now \in Nat, rate \in RateType, NEW keys
    PROVE  Bumped(keys) \in RateType
<1>1. ASSUME NEW k \in RateKeys PROVE Bump(rate[k]) \in RateRow
  BY BumpType DEF RateType
<1>2. QED
  BY <1>1 DEF Bumped, RateType

\* cleanupTemporaryState removes stale rows and touches no other.
LEMMA CleanupRemovesStale ==
    ASSUME NEW STATE newCh, newCh \in ChType,
           NEW STATE newRate, newRate \in RateType,
           CommitWithCleanup(newCh, newRate)
    PROVE  /\ ch' \in ChType
           /\ rate' \in RateType
           /\ \A i \in Intents : \/ ch'[i] = newCh[i]
                                 \/ ch'[i] = NoRow /\ StaleChallenge(newCh[i])
  BY DEF CommitWithCleanup, ChType, RateType

-----------------------------------------------------------------------------
(* A step changes one intent at most; what it does to any other is quiet:  *)
(* its calls move on, time passes, its row goes if it is stale.            *)

\* A row whose code has not expired and whose capability is unused is not stale.
LEMMA LiveNotStale ==
    ASSUME TypeOK, NEW i \in Intents, ch[i] # NoRow, RowAgrees(i), ch[i].expires > now
    PROVE  ~StaleChallenge(ch[i])
<1>1. ch[i] \in Challenge
  BY DEF TypeOK
<1>2. /\ ch[i].expires \in Nat /\ ch[i].lastSent \in Nat /\ now \in Nat
      /\ ch[i].consumedAt \in Nat \cup {Never}
  BY <1>1 DEF Challenge, TypeOK
<1>3. Consumed(ch[i]) => ch[i].consumedAt \in Nat /\ ch[i].lastSent <= ch[i].consumedAt
  BY <1>2 DEF Consumed, RowAgrees
<1>4. ch[i].expires = ch[i].lastSent + TTL
  BY DEF RowAgrees
<1>5. QED
  BY <1>2, <1>3, <1>4, ClockAssumption DEF StaleChallenge

QuietFor(i) ==
    /\ \/ ch'[i] = ch[i]
       \/ ch'[i] = NoRow /\ StaleChallenge(ch[i])
    /\ CodesOf(i)' = CodesOf(i)
    /\ \A r \in CodesOf(i) :
          /\ code'[r] = code[r]
          /\ pc'[r] \in {"stored", "sent"} => pc[r] \in {"stored", "sent"}
    /\ consumptions'[i] = consumptions[i]
    /\ \A g : g.intent = i => (g \in grants' <=> g \in grants)

\* A quiet step keeps what the invariant says of the intent: the row and the
\* history of its codes still agree.
LEMMA QuietKeeps ==
    ASSUME IInv, TypeOK', now <= now', NEW i \in Intents, QuietFor(i)
    PROVE  IntentOK(i)'
<1>1. IntentOK(i)
  BY DEF IInv
<1>2. now \in Nat /\ now' \in Nat
  BY DEF IInv, TypeOK
<1>3. FreshIntent(i)' <=> FreshIntent(i)
  <2>1. FreshIntent(i) <=> CodesOf(i) = {}
    BY DEF FreshIntent, CodesOf
  <2>2. FreshIntent(i)' <=> CodesOf(i)' = {}
    BY DEF FreshIntent, CodesOf
  <2>3. QED
    BY <2>1, <2>2 DEF QuietFor
<1>4. FreshUntouched(i)'
  BY <1>1, <1>3 DEF IntentOK, FreshUntouched, QuietFor
<1>5. ch'[i] # NoRow => RowAgrees(i)'
  <2> SUFFICES ASSUME ch'[i] # NoRow PROVE RowAgrees(i)'
    OBVIOUS
  <2>1. ch'[i] = ch[i] /\ RowAgrees(i)
    BY <1>1 DEF QuietFor, IntentOK
  <2>2. ch[i].otp \in CodesOf(i)
    BY <2>1 DEF RowAgrees, CodesOf, IInv, TypeOK, Challenge
  <2>3. ch[i].lastSent <= now'
    <3>1. ch[i].lastSent \in Nat /\ ch[i].lastSent <= now
      BY <2>1 DEF RowAgrees, IInv, TypeOK, Challenge
    <3>2. QED
      BY <1>2, <3>1
  <2>4. QED
    BY <2>1, <2>2, <2>3 DEF QuietFor, RowAgrees, Stored, Consumed, Verified
<1>6. ASSUME NEW r \in CodesOf(i)'
      PROVE  CodeHeld(i, r)' /\ code'[r].checks <= MaxAttempts
  <2>1. r \in CodesOf(i) /\ code'[r] = code[r]
    BY <1>6 DEF QuietFor
  <2>2. code[r].at \in Nat /\ code[r].intent = i /\ r \in Requests
    BY <2>1 DEF CodesOf, Stored, IInv, TypeOK, Code
  <2>3. Superseded(r)' <=> Superseded(r)
    BY <2>1, <2>2 DEF Superseded, QuietFor
  <2>4. ASSUME pc'[r] \in {"stored", "sent"}, now' < code'[r].at + TTL, ~Superseded(r)'
        PROVE  ch'[i] # NoRow /\ ch'[i].otp = r
    <3>1. now < code[r].at + TTL /\ pc[r] \in {"stored", "sent"} /\ ~Superseded(r)
      BY <1>2, <2>1, <2>2, <2>3, <2>4, ClockAssumption DEF QuietFor
    <3>2. ch[i] # NoRow /\ ch[i].otp = r
      BY <1>1, <2>1, <3>1 DEF IntentOK, CodeHeld
    <3>3. ch[i].expires > now
      BY <1>1, <1>2, <2>2, <3>1, <3>2, ClockAssumption DEF IntentOK, RowAgrees
    <3>4. ~StaleChallenge(ch[i])
      BY <1>1, <3>2, <3>3, LiveNotStale DEF IntentOK, IInv
    <3>5. QED
      BY <3>2, <3>4 DEF QuietFor
  <2>5. CodeHeld(i, r)'
    BY <2>4 DEF CodeHeld
  <2>6. QED
    BY <1>1, <2>1, <2>5 DEF IntentOK
<1>7. consumptions'[i] <= 1
  BY <1>1 DEF IntentOK, QuietFor
<1>8. ASSUME NEW g \in grants', g.intent = i
      PROVE  Honoured(i, g)'
  <2>1. g \in grants /\ g.until \in Nat
    BY <1>8 DEF QuietFor, IInv, TypeOK, Grant
  <2>2. ASSUME g.until > now', consumptions'[i] = 0
        PROVE  /\ ch'[i] # NoRow
               /\ MayConsume(ch[i], g.token)'
               /\ ch'[i].expires = g.until
    <3>1. g.until > now
      BY <1>2, <2>1, <2>2
    <3>2. Honoured(i, g) /\ consumptions[i] = 0
      BY <1>1, <1>8, <2>1, <2>2 DEF IntentOK, QuietFor
    <3>3. ch[i] # NoRow /\ MayConsume(ch[i], g.token) /\ ch[i].expires = g.until
      BY <3>1, <3>2 DEF Honoured
    <3>4. ~StaleChallenge(ch[i])
      BY <1>1, <3>1, <3>3, LiveNotStale DEF IntentOK, IInv
    <3>5. ch'[i] = ch[i]
      BY <3>4 DEF QuietFor
    <3>6. QED
      BY <2>2, <3>3, <3>5 DEF MayConsume, Verified, Consumed
  <2>3. QED
    BY <2>2 DEF Honoured
<1>9. QED
  BY <1>4, <1>5, <1>6, <1>7, <1>8 DEF IntentOK

\* A step that stores no code, counts no check, grants and consumes nothing is
\* quiet for every intent: it keeps the invariant.
LEMMA QuietStep ==
    ASSUME IInv,
           ch' \in ChType, rate' \in RateType, now' \in Nat, now <= now',
           UNCHANGED <<code, grants, consumptions>>,
           \A i \in Intents : \/ ch'[i] = ch[i]
                              \/ ch'[i] = NoRow /\ StaleChallenge(ch[i]),
           \/ UNCHANGED pc
           \/ \E r \in Requests :
                 /\ pc[r] = "new"
                 /\ pc' = [pc EXCEPT ![r] = "rejected"]
           \/ \E r \in Requests, to \in {"sent", "undelivered", "lost"} :
                 /\ pc[r] = "stored"
                 /\ pc' = [pc EXCEPT ![r] = to]
           \/ \E r \in Requests :
                 /\ pc[r] = "undelivered"
                 /\ pc' = [pc EXCEPT ![r] = "failed"]
    PROVE  IInv'
<1>1. pc \in [Requests -> PC] /\ TypeOK
  BY DEF IInv, TypeOK
<1>2. /\ pc' \in [Requests -> PC]
      /\ \A r \in Requests :
            /\ pc'[r] \in {"new", "rejected"} <=> pc[r] \in {"new", "rejected"}
            /\ pc'[r] \in {"stored", "sent"} => pc[r] \in {"stored", "sent"}
  <2>1. CASE UNCHANGED pc
    BY <1>1, <2>1
  <2>2. CASE \E r \in Requests : pc[r] = "new" /\ pc' = [pc EXCEPT ![r] = "rejected"]
    BY <1>1, <2>2 DEF PC
  <2>3. CASE \E r \in Requests, to \in {"sent", "undelivered", "lost"} :
                pc[r] = "stored" /\ pc' = [pc EXCEPT ![r] = to]
    BY <1>1, <2>3 DEF PC
  <2>4. CASE \E r \in Requests : pc[r] = "undelivered" /\ pc' = [pc EXCEPT ![r] = "failed"]
    BY <1>1, <2>4 DEF PC
  <2>5. QED
    BY <2>1, <2>2, <2>3, <2>4
<1>3. TypeOK'
  BY <1>1, <1>2 DEF TypeOK, ChType, RateType
<1>4. CallsAgree'
  BY <1>2 DEF IInv, CallsAgree, Stored
<1>5. ASSUME NEW i \in Intents PROVE QuietFor(i)
  <2>1. CodesOf(i)' = CodesOf(i)
    BY DEF CodesOf, Stored
  <2>2. CodesOf(i) \subseteq Requests
    BY DEF CodesOf
  <2>3. QED
    BY <1>2, <2>1, <2>2 DEF QuietFor
<1>6. QED
  BY <1>3, <1>4, <1>5, QuietKeeps DEF IInv

-----------------------------------------------------------------------------
(* The actions.                                                            *)

\* What IInv says of the types, in the shape the lemmas above ask for.
LEMMA Types ==
    ASSUME IInv
    PROVE  /\ now \in Nat /\ ch \in ChType /\ rate \in RateType
           /\ \A keys : Bumped(keys) \in RateType
  BY BumpedType DEF IInv, TypeOK, ChType, RateType

\* The database clock moves on: codes and capabilities may expire.
LEMMA TickKeeps == IInv /\ Tick => IInv'
<1> SUFFICES ASSUME IInv, Tick PROVE IInv'
  OBVIOUS
<1>1. now' \in Nat /\ now <= now'
  BY Types DEF Tick
<1>2. QED
  BY <1>1, QuietStep, Types DEF Tick

\* The periodic cleanup of index.ts deletes stale rows only.
LEMMA CleanupKeeps == IInv /\ cleanupExpired => IInv'
<1> SUFFICES ASSUME IInv, cleanupExpired PROVE IInv'
  OBVIOUS
<1>1. /\ ch' \in ChType /\ rate' \in RateType
      /\ \A i \in Intents : ch'[i] = ch[i] \/ (ch'[i] = NoRow /\ StaleChallenge(ch[i]))
  BY Types, CleanupRemovesStale DEF cleanupExpired
<1>2. QED
  BY <1>1, QuietStep, Types DEF cleanupExpired

\* A call that fails before COMMIT leaves the store as it was.
LEMMA UnavailableKeeps ==
    ASSUME IInv, NEW r \in Requests, requestUnavailable(r)
    PROVE  IInv'
<1>1. /\ UNCHANGED <<now, ch, rate, code, grants, consumptions>>
      /\ pc[r] = "new" /\ pc' = [pc EXCEPT ![r] = "rejected"]
  BY DEF requestUnavailable, Refuses
<1>2. now' \in Nat /\ now <= now'
  BY <1>1, Types
<1>3. QED
  BY <1>1, <1>2, QuietStep, Types

\* The provider call changes nothing in the store.
LEMMA SendKeeps ==
    ASSUME IInv, NEW r \in Requests, sendVerificationCode(r)
    PROVE  IInv'
<1>1. PICK to \in {"sent", "undelivered", "lost"} : pc' = [pc EXCEPT ![r] = to]
  BY DEF sendVerificationCode
<1>2. UNCHANGED <<now, ch, rate, code, grants, consumptions>> /\ pc[r] = "stored"
  BY DEF sendVerificationCode
<1>3. now' \in Nat /\ now <= now'
  BY <1>2, Types
<1>4. QED
  BY <1>1, <1>2, <1>3, QuietStep, Types

\* A refused call: rate rows counted, stale rows gone, and maybe time passed.
LEMMA RefusalKeeps ==
    ASSUME IInv, NEW r \in Requests, NEW keys, pc[r] = "new", Refuses(r),
           CommitWithCleanup(ch, Bumped(keys)),
           now' \in Nat, now <= now', UNCHANGED <<grants, consumptions>>
    PROVE  IInv'
<1>1. ch \in ChType /\ Bumped(keys) \in RateType
  BY Types
<1>2. /\ ch' \in ChType /\ rate' \in RateType
      /\ \A i \in Intents : ch'[i] = ch[i] \/ (ch'[i] = NoRow /\ StaleChallenge(ch[i]))
  BY <1>1, CleanupRemovesStale
<1>3. pc' = [pc EXCEPT ![r] = "rejected"] /\ UNCHANGED code
  BY DEF Refuses
<1>4. QED
  BY <1>2, <1>3, QuietStep

\* A call that stores its code, under a fresh intent or in place of an earlier
\* code: the row describes the new code, and every older one is superseded.
LEMMA StoreKeeps ==
    ASSUME IInv, NEW r \in Requests, NEW i \in Intents, NEW e \in Emails, NEW keys,
           pc[r] = "new", StoresCode(r, i, e),
           NEW STATE row, row \in Challenge,
           row.otp = r, row.attempts = 0, row.token = NoToken,
           row.lastSent = now, row.expires = now + TTL, row.consumedAt = Never,
           CommitWithCleanup([ch EXCEPT ![i] = row], Bumped(keys)),
           UNCHANGED <<now, grants, consumptions>>,
           \A q \in CodesOf(i) : code[q].at < now,
           consumptions[i] = 0,
           \A g \in grants : g.intent = i => g.until <= now
    PROVE  IInv'
<1>t. /\ TypeOK /\ now \in Nat /\ ch \in ChType /\ pc \in [Requests -> PC]
      /\ code \in [Requests -> Code \cup {NoRow}] /\ grants \in SUBSET Grant
      /\ Bumped(keys) \in RateType
  BY Types DEF IInv, TypeOK
<1> DEFINE newCode == [intent |-> i, email |-> e, at |-> now, checks |-> 0]
<1>1. /\ newCode \in Code /\ newCode # NoRow
      /\ pc' = [pc EXCEPT ![r] = "stored"]
      /\ code' = [code EXCEPT ![r] = newCode]
  BY <1>t, NullAssumption DEF StoresCode, Code
<1>2. ~Stored(r)
  BY DEF IInv, CallsAgree
<1>3. [ch EXCEPT ![i] = row] \in ChType
  BY <1>t DEF ChType
<1>4. /\ ch' \in ChType /\ rate' \in RateType
      /\ \A j \in Intents : \/ ch'[j] = [ch EXCEPT ![i] = row][j]
                            \/ ch'[j] = NoRow /\ StaleChallenge([ch EXCEPT ![i] = row][j])
  BY <1>t, <1>3, CleanupRemovesStale
<1>5. TypeOK'
  BY <1>t, <1>1, <1>4 DEF TypeOK, ChType, RateType, PC
<1>6. CallsAgree'
  BY <1>t, <1>1 DEF IInv, CallsAgree, Stored
<1>7. row # NoRow /\ ~StaleChallenge(row)
  BY <1>t, NullAssumption, ClockAssumption DEF StaleChallenge, Consumed
<1>8. ch'[i] = row
  BY <1>t, <1>4, <1>7 DEF ChType
<1>9. \A q \in Requests : q # r => code'[q] = code[q] /\ pc'[q] = pc[q]
  BY <1>t, <1>1
<1>10. code'[r] = newCode /\ Stored(r)'
  BY <1>t, <1>1 DEF Stored
<1>11. ASSUME NEW j \in Intents, j # i PROVE QuietFor(j)
  <2>1. CodesOf(j)' = CodesOf(j)
    BY <1>2, <1>9, <1>10, <1>11 DEF CodesOf, Stored
  <2>2. \A q \in CodesOf(j) : q \in Requests /\ q # r
    BY <1>2 DEF CodesOf
  <2>3. ch'[j] = ch[j] \/ (ch'[j] = NoRow /\ StaleChallenge(ch[j]))
    BY <1>t, <1>4, <1>11 DEF ChType
  <2>4. QED
    BY <1>9, <2>1, <2>2, <2>3 DEF QuietFor
<1>12. CodesOf(i)' = CodesOf(i) \cup {r}
  BY <1>2, <1>9, <1>10 DEF CodesOf, Stored
<1>13. IntentOK(i)
  BY DEF IInv
<1>14. CodesOf(i) \subseteq Requests /\ r \notin CodesOf(i)
  BY <1>2 DEF CodesOf
<1>15. RowAgrees(i)'
  <2>1. \A q \in CodesOf(i)' : code'[q].at <= now
    <3>1. ASSUME NEW q \in CodesOf(i) PROVE code'[q].at <= now
      <4>1. code[q] \in Code
        BY <1>t DEF CodesOf, Stored
      <4>2. code[q].at \in Nat
        BY <4>1 DEF Code
      <4>3. QED
        BY <1>t, <1>9, <1>14, <4>2
    <3>2. QED
      BY <1>t, <1>10, <1>12, <3>1
  <2>2. QED
    BY <1>t, <1>8, <1>10, <2>1 DEF RowAgrees, Consumed
<1>16. ~FreshIntent(i)'
  BY <1>10 DEF FreshIntent
<1>17. ASSUME NEW q \in CodesOf(i)'
       PROVE  CodeHeld(i, q)' /\ code'[q].checks <= MaxAttempts
  <2>1. CASE q = r
    BY <1>7, <1>8, <1>10, <2>1, LimitAssumption DEF CodeHeld
  <2>2. CASE q # r
    <3>1. q \in CodesOf(i) /\ code'[q] = code[q] /\ code[q].at < now /\ code[q].intent = i
      BY <1>9, <1>12, <1>14, <1>17, <2>2 DEF CodesOf
    <3>2. Superseded(q)'
      BY <1>10, <1>12, <3>1 DEF Superseded
    <3>3. QED
      BY <1>13, <3>1, <3>2 DEF CodeHeld, IntentOK
  <2>3. QED
    BY <2>1, <2>2
<1>18. \A g \in grants' : g.intent = i => Honoured(i, g)'
  <2>1. \A g \in grants : g.until \in Nat
    BY <1>t DEF Grant
  <2>2. QED
    BY <1>t, <2>1 DEF Honoured
<1>19. IntentOK(i)'
  BY <1>7, <1>8, <1>15, <1>16, <1>17, <1>18 DEF IntentOK, FreshUntouched
<1>20. QED
  BY <1>t, <1>5, <1>6, <1>11, <1>19, QuietKeeps DEF IInv

\* createChallenge: refused by the rate limits, or a first code.
LEMMA CreateKeeps ==
    ASSUME IInv, NEW r \in Requests, NEW i \in Intents, NEW e \in Emails, NEW p \in Ips,
           createChallenge(r, i, e, p)
    PROVE  IInv'
<1> DEFINE keys == SendKeys(e, p)
<1>1. pc[r] = "new" /\ FreshIntent(i) /\ UNCHANGED <<now, grants, consumptions>>
  BY DEF createChallenge
<1>2. now \in Nat /\ now' \in Nat /\ now <= now'
  BY <1>1, Types
<1>3. CASE CommitWithCleanup(ch, Bumped(keys)) /\ Refuses(r)
  BY <1>1, <1>2, <1>3, RefusalKeeps
<1>4. CASE /\ CommitWithCleanup([ch EXCEPT ![i] = NewChallenge(r, e)], Bumped(keys))
           /\ StoresCode(r, i, e)
  <2>1. NewChallenge(r, e) \in Challenge
    BY <1>2, ClockAssumption, LimitAssumption DEF NewChallenge, Challenge
  <2>2. /\ CodesOf(i) = {} /\ consumptions[i] = 0
        /\ \A g \in grants : g.intent # i
    BY <1>1 DEF IInv, IntentOK, FreshUntouched, CodesOf, FreshIntent
  <2>3. LET row == NewChallenge(r, e)
        IN  /\ row.otp = r /\ row.attempts = 0 /\ row.token = NoToken
            /\ row.lastSent = now /\ row.expires = now + TTL /\ row.consumedAt = Never
    BY DEF NewChallenge
  <2>4. QED
    BY <1>1, <1>4, <2>1, <2>2, <2>3, StoreKeeps
<1>5. QED
  BY <1>3, <1>4 DEF createChallenge

\* resendChallenge: refused, overtaken by the clock, or a new code.
LEMMA ResendKeeps ==
    ASSUME IInv, NEW r \in Requests, NEW i \in Intents, NEW e \in Emails, NEW p \in Ips,
           resendChallenge(r, i, e, p)
    PROVE  IInv'
<1> DEFINE keys == SendKeys(e, p)
<1>1. pc[r] = "new" /\ UNCHANGED <<grants, consumptions>>
  BY DEF resendChallenge
<1>2. now \in Nat
  BY Types
<1>3. CASE Refuses(r) /\ UNCHANGED <<now, ch, rate>>
  <2>1. requestUnavailable(r)
    BY <1>1, <1>3 DEF requestUnavailable
  <2>2. QED
    BY <2>1, UnavailableKeeps
<1>4. CASE CommitWithCleanup(ch, Bumped(keys)) /\ Refuses(r) /\ UNCHANGED now
  <2>1. now' \in Nat /\ now <= now'
    BY <1>2, <1>4
  <2>2. QED
    BY <1>1, <1>4, <2>1, RefusalKeeps
<1>5. CASE /\ Row(i, e) /\ MayResend(ch[i])
           /\ CommitWithCleanup([ch EXCEPT ![i] = Replaced(ch[i], r)], Bumped(keys))
           /\ StoresCode(r, i, e)
           /\ UNCHANGED now
  <2>1. ch[i] # NoRow /\ ch[i] \in Challenge
    BY <1>5 DEF Row, IInv, TypeOK
  <2>2. /\ ch[i].sends \in 1..MaxSends /\ ch[i].sends < MaxSends
        /\ ch[i].lastSent \in Nat /\ ch[i].lastSent + Cooldown <= now
        /\ ~Verified(ch[i]) /\ ~Consumed(ch[i])
    BY <1>5, <2>1 DEF MayResend, Challenge
  <2>3. ch[i].sends + 1 \in 1..MaxSends
    BY <2>2, LimitAssumption
  <2>4. Replaced(ch[i], r) \in Challenge
    <3>1. now + TTL \in Nat /\ 0 \in 0..MaxAttempts
      BY <1>2, ClockAssumption, LimitAssumption
    <3>2. QED
      BY <1>2, <2>1, <2>3, <3>1 DEF Replaced, Challenge
  <2>5. IntentOK(i) /\ RowAgrees(i)
    BY <2>1 DEF IInv, IntentOK
  <2>6. ASSUME NEW q \in CodesOf(i) PROVE code[q].at < now
    <3>1. code[q].at \in Nat /\ code[q].at <= ch[i].lastSent
      BY <2>5 DEF RowAgrees, CodesOf, Stored, IInv, TypeOK, Code
    <3>2. QED
      BY <1>2, <2>2, <3>1, ClockAssumption
  <2>7. consumptions[i] = 0
    BY <2>2, <2>5 DEF RowAgrees
  <2>8. ASSUME NEW g \in grants, g.intent = i PROVE g.until <= now
    <3>1. g.until \in Nat
      BY DEF IInv, TypeOK, Grant
    <3>2. Honoured(i, g)
      BY <2>5, <2>8 DEF IntentOK
    <3>3. ~(g.until > now)
      BY <2>2, <2>7, <3>2 DEF Honoured, MayConsume
    <3>4. QED
      BY <1>2, <3>1, <3>3
  <2>9. LET row == Replaced(ch[i], r)
        IN  /\ row.otp = r /\ row.attempts = 0 /\ row.token = NoToken
            /\ row.lastSent = now /\ row.expires = now + TTL /\ row.consumedAt = Never
    BY <2>1, <2>2 DEF Replaced, Challenge, Verified, Consumed
  <2>10. QED
    BY <1>1, <1>5, <2>4, <2>6, <2>7, <2>8, <2>9, StoreKeeps
<1>6. CASE /\ Row(i, e) /\ MayResend(ch[i])
           /\ ClockPasses(ch[i].expires)
           /\ CommitWithCleanup(ch, Bumped(keys)) /\ Refuses(r)
  <2>1. ch[i] \in Challenge
    BY <1>6 DEF Row, IInv, TypeOK
  <2>2. now' \in Nat /\ now <= now'
    BY <1>2, <1>6, <2>1 DEF MayResend, ClockPasses, Challenge
  <2>3. QED
    BY <1>1, <1>6, <2>2, RefusalKeeps
<1>7. QED
  BY <1>3, <1>4, <1>5, <1>6 DEF resendChallenge

\* deleteUndeliveredChallenge removes a row only while it holds the code
\* whose delivery failed.
LEMMA DeleteKeeps ==
    ASSUME IInv, NEW r \in Requests, deleteUndeliveredChallenge(r)
    PROVE  IInv'
<1> DEFINE i == code[r].intent
<1>1. /\ pc[r] = "undelivered" /\ pc' = [pc EXCEPT ![r] = "failed"]
      /\ UNCHANGED <<now, rate, code, grants, consumptions>>
  BY DEF deleteUndeliveredChallenge
<1>2. now' \in Nat /\ now <= now' /\ now \in Nat
  BY <1>1, Types
<1>3. CASE UNCHANGED ch
  BY <1>1, <1>2, <1>3, QuietStep, Types
<1>4. CASE ch[i] # NoRow /\ Undelivered(ch[i], r) /\ ch' = [ch EXCEPT ![i] = NoRow]
  <2>1. Stored(r) /\ pc \in [Requests -> PC] /\ ch \in ChType
    BY <1>1, Types DEF IInv, CallsAgree, TypeOK
  <2>2. i \in Intents
    BY <2>1 DEF Stored, IInv, TypeOK, Code
  <2>3. TypeOK'
    BY <1>1, <1>4, <2>1, <2>2 DEF IInv, TypeOK, PC
  <2>4. CallsAgree'
    BY <1>1, <2>1 DEF IInv, CallsAgree, Stored
  <2>5. ASSUME NEW j \in Intents PROVE CodesOf(j)' = CodesOf(j) /\ CodesOf(j) \subseteq Requests
    BY <1>1 DEF CodesOf, Stored
  <2>6. ASSUME NEW j \in Intents, j # i PROVE QuietFor(j)
    <3>1. ch'[j] = ch[j]
      BY <1>4, <2>1, <2>2, <2>6 DEF ChType
    <3>2. QED
      BY <1>1, <2>1, <2>5, <3>1 DEF QuietFor
  <2>7. IntentOK(i) /\ RowAgrees(i) /\ ch'[i] = NoRow
    BY <1>4, <2>1, <2>2 DEF IInv, IntentOK, ChType
  <2>8. ch[i].otp = r /\ ~Verified(ch[i]) /\ ~Consumed(ch[i])
    BY <1>4 DEF Undelivered
  <2>9. ASSUME NEW q \in CodesOf(i)'
        PROVE  CodeHeld(i, q)' /\ code'[q].checks <= MaxAttempts
    <3>1. q \in CodesOf(i) /\ code'[q] = code[q] /\ code[q].intent = i /\ q \in Requests
      BY <1>1, <2>2, <2>5, <2>9 DEF CodesOf
    <3>2. CASE q = r
      BY <1>1, <2>1, <2>7, <3>1, <3>2 DEF CodeHeld, IntentOK
    <3>3. CASE q # r
      <4>1. pc'[q] = pc[q] /\ (Superseded(q)' <=> Superseded(q))
        BY <1>1, <2>1, <3>1, <3>3 DEF Superseded, CodesOf, Stored
      <4>2. CodeHeld(i, q)
        BY <2>7, <3>1 DEF IntentOK
      <4>3. QED
        BY <1>1, <2>7, <2>8, <3>1, <3>3, <4>1, <4>2 DEF CodeHeld, IntentOK
    <3>4. QED
      BY <3>2, <3>3
  <2>10. ASSUME NEW g \in grants', g.intent = i PROVE Honoured(i, g)'
    <3>1. Honoured(i, g)
      BY <1>1, <2>7, <2>10 DEF IntentOK
    <3>2. ~(g.until > now /\ consumptions[i] = 0)
      BY <2>8, <3>1 DEF Honoured, MayConsume
    <3>3. QED
      BY <1>1, <3>2 DEF Honoured
  <2>11. ~FreshIntent(i)'
    BY <1>1, <2>1 DEF FreshIntent, Stored
  <2>12. IntentOK(i)'
    BY <1>1, <2>7, <2>9, <2>10, <2>11 DEF IntentOK, FreshUntouched
  <2>13. ASSUME NEW j \in Intents PROVE IntentOK(j)'
    <3>1. CASE j = i
      BY <1>1, <2>12, <3>1
    <3>2. CASE j # i
      BY <1>2, <2>3, <2>6, <3>2, QuietKeeps
    <3>3. QED
      BY <3>1, <3>2
  <2>14. QED
    BY <2>3, <2>4, <2>13 DEF IInv
<1>5. QED
  BY <1>3, <1>4 DEF deleteUndeliveredChallenge

\* An admitted check, right or wrong, in time or overtaken by the clock.
LEMMA CheckKeeps ==
    ASSUME IInv, NEW i \in Intents, NEW keys, ch[i] # NoRow, MayCheck(ch[i]),
           NEW STATE row, row \in Challenge,
           row.otp = ch[i].otp, row.attempts = ch[i].attempts + 1,
           row.lastSent = ch[i].lastSent, row.expires = ch[i].expires,
           row.consumedAt = ch[i].consumedAt,
           CommitWithCleanup([ch EXCEPT ![i] = row], Bumped(keys)),
           CountsCheck(ch[i].otp),
           now' \in Nat, now <= now', UNCHANGED <<pc, consumptions>>,
           \/ UNCHANGED grants
           \/ /\ row.token \in Tokens
              /\ grants' = grants \cup {[intent |-> i, token |-> row.token, until |-> row.expires]}
    PROVE  IInv'
<1>t. /\ TypeOK /\ now \in Nat /\ ch \in ChType /\ pc \in [Requests -> PC]
      /\ code \in [Requests -> Code \cup {NoRow}] /\ grants \in SUBSET Grant
      /\ Bumped(keys) \in RateType /\ ch[i] \in Challenge
  BY Types DEF IInv, TypeOK, ChType
<1> DEFINE o == ch[i].otp
<1>1. IntentOK(i) /\ RowAgrees(i)
  BY DEF IInv, IntentOK
<1>2. /\ o \in Requests /\ Stored(o) /\ code[o] \in Code /\ code[o].intent = i
      /\ code[o].checks = ch[i].attempts /\ o \in CodesOf(i)
  BY <1>t, <1>1 DEF Challenge, RowAgrees, Stored, CodesOf
<1>3. /\ ~Verified(ch[i]) /\ ~Consumed(ch[i]) /\ ch[i].expires > now
      /\ ch[i].attempts < MaxAttempts /\ consumptions[i] = 0
  BY <1>1 DEF MayCheck, RowAgrees
<1>4. /\ ch[i].attempts \in Nat /\ ch[i].expires \in Nat
      /\ code[o].checks \in Nat /\ MaxAttempts \in Nat
  BY <1>t, <1>2, LimitAssumption DEF Challenge, Code
<1>5. /\ code' = [code EXCEPT ![o] = [code[o] EXCEPT !.checks = @ + 1]]
      /\ [code[o] EXCEPT !.checks = @ + 1] \in Code
  BY <1>2, <1>4 DEF CountsCheck, Code
<1>6. /\ code'[o] = [code[o] EXCEPT !.checks = @ + 1] /\ code'[o] # NoRow
      /\ \A q \in Requests : q # o => code'[q] = code[q]
  BY <1>t, <1>2, <1>5, NullAssumption
<1>7. /\ code'[o].intent = i /\ code'[o].at = code[o].at
      /\ code'[o].checks = ch[i].attempts + 1
  BY <1>2, <1>6 DEF Code
<1>8. [ch EXCEPT ![i] = row] \in ChType
  BY <1>t DEF ChType
<1>9. /\ ch' \in ChType /\ rate' \in RateType
      /\ \A j \in Intents : \/ ch'[j] = [ch EXCEPT ![i] = row][j]
                            \/ ch'[j] = NoRow /\ StaleChallenge([ch EXCEPT ![i] = row][j])
  BY <1>t, <1>8, CleanupRemovesStale
<1>10. row # NoRow /\ ~StaleChallenge(row)
  BY <1>t, <1>3, <1>4, NullAssumption, ClockAssumption DEF StaleChallenge, Consumed
<1>11. ch'[i] = row
  BY <1>t, <1>9, <1>10 DEF ChType
<1>12. grants' \in SUBSET Grant
  BY <1>t, <1>4 DEF Grant
<1>13. TypeOK'
  BY <1>t, <1>5, <1>9, <1>12 DEF TypeOK, ChType, RateType
<1>14. CallsAgree'
  BY <1>2, <1>6 DEF IInv, CallsAgree, Stored
<1>15. ASSUME NEW j \in Intents
       PROVE  CodesOf(j)' = CodesOf(j) /\ CodesOf(j) \subseteq Requests
  <2>1. \A q \in Requests : /\ Stored(q)' <=> Stored(q)
                            /\ code'[q].intent = code[q].intent
    BY <1>2, <1>6, <1>7 DEF Stored
  <2>2. QED
    BY <2>1 DEF CodesOf
<1>16. ASSUME NEW j \in Intents, j # i PROVE QuietFor(j)
  <2>1. \A q \in CodesOf(j) : q \in Requests /\ q # o
    BY <1>2, <1>16 DEF CodesOf
  <2>2. ch'[j] = ch[j] \/ (ch'[j] = NoRow /\ StaleChallenge(ch[j]))
    BY <1>t, <1>9, <1>16 DEF ChType
  <2>3. \A g : g.intent = j => (g \in grants' <=> g \in grants)
    BY <1>16
  <2>4. QED
    BY <1>6, <1>15, <2>1, <2>2, <2>3 DEF QuietFor
<1>17. \A q \in CodesOf(i) : code'[q].at = code[q].at
  BY <1>6, <1>7, <1>15
<1>18. RowAgrees(i)'
  <2>1. ch[i].lastSent <= now'
    <3>1. ch[i].lastSent \in Nat /\ ch[i].lastSent <= now
      BY <1>t, <1>1 DEF RowAgrees, Challenge
    <3>2. QED
      BY <1>t, <3>1
  <2>2. QED
    BY <1>1, <1>3, <1>6, <1>7, <1>11, <1>15, <1>17, <2>1, ZenonT(30)
       DEF RowAgrees, Stored, Consumed, Verified
<1>19. ~FreshIntent(i)'
  BY <1>2, <1>6, <1>7 DEF FreshIntent, Stored
<1>20. ASSUME NEW q \in CodesOf(i)'
       PROVE  CodeHeld(i, q)' /\ code'[q].checks <= MaxAttempts
  <2>1. /\ q \in CodesOf(i) /\ q \in Requests /\ code[q] \in Code
        /\ code[q].intent = i /\ code'[q].intent = i
    BY <1>t, <1>6, <1>7, <1>15, <1>20 DEF CodesOf, Stored
  <2>2. code'[q].checks <= MaxAttempts
    <3>1. CASE q = o
      BY <1>3, <1>4, <1>7, <3>1
    <3>2. CASE q # o
      BY <1>1, <1>6, <2>1, <3>2 DEF IntentOK
    <3>3. QED
      BY <3>1, <3>2
  <2>3. Superseded(q)' <=> Superseded(q)
    BY <1>15, <1>17, <2>1 DEF Superseded
  <2>4. CodeHeld(i, q)
    BY <1>1, <2>1 DEF IntentOK
  <2>5. code[q].at \in Nat
    BY <2>1 DEF Code
  <2>6. CodeHeld(i, q)'
    BY <1>t, <1>10, <1>11, <1>17, <2>1, <2>3, <2>4, <2>5, ClockAssumption DEF CodeHeld
  <2>7. QED
    BY <2>2, <2>6
<1>21. ASSUME NEW g \in grants', g.intent = i PROVE Honoured(i, g)'
  <2>1. CASE g \in grants
    <3>1. Honoured(i, g) /\ g.until \in Nat
      BY <1>t, <1>1, <1>21, <2>1 DEF IntentOK, Grant
    <3>2. ~(g.until > now)
      BY <1>3, <3>1 DEF Honoured, MayConsume
    <3>3. QED
      BY <1>t, <3>1, <3>2 DEF Honoured
  <2>2. CASE g \notin grants
    <3>1. /\ g = [intent |-> i, token |-> row.token, until |-> row.expires]
          /\ row.token \in Tokens
      BY <1>21, <2>2
    <3>2. g.token = row.token /\ g.until = row.expires /\ row.token # NoToken
      BY <3>1, NullAssumption
    <3>3. QED
      BY <1>3, <1>10, <1>11, <3>2 DEF Honoured, MayConsume, Verified, Consumed
  <2>3. QED
    BY <2>1, <2>2
<1>22. IntentOK(i)'
  BY <1>3, <1>18, <1>19, <1>20, <1>21 DEF IntentOK, FreshUntouched
<1>23. QED
  BY <1>13, <1>14, <1>16, <1>22, QuietKeeps DEF IInv

\* verifyChallenge: not admitted, or an admitted check.
LEMMA VerifyKeeps ==
    ASSUME IInv, NEW i \in Intents, NEW e \in Emails, NEW p \in Ips,
           NEW guess \in Requests, NEW t \in Tokens, verifyChallenge(i, e, p, guess, t)
    PROVE  IInv'
<1> DEFINE keys == VerifyKeys(e, p)
           right == [Checked(ch[i]) EXCEPT !.token = t]
<1>1. UNCHANGED <<pc, consumptions>> /\ now \in Nat
  BY Types DEF verifyChallenge
<1>2. CASE CommitWithCleanup(ch, Bumped(keys)) /\ UNCHANGED <<now, code, grants>>
  <2>1. ch \in ChType /\ Bumped(keys) \in RateType
    BY Types
  <2>2. /\ ch' \in ChType /\ rate' \in RateType
        /\ \A j \in Intents : ch'[j] = ch[j] \/ (ch'[j] = NoRow /\ StaleChallenge(ch[j]))
    BY <1>2, <2>1, CleanupRemovesStale
  <2>3. now' \in Nat /\ now <= now'
    BY <1>1, <1>2
  <2>4. QED
    BY <1>1, <1>2, <2>2, <2>3, QuietStep
<1>3. ASSUME Row(i, e), MayCheck(ch[i])
      PROVE  /\ ch[i] # NoRow /\ ch[i] \in Challenge /\ ch[i].expires \in Nat
             /\ Checked(ch[i]) \in Challenge /\ right \in Challenge
             /\ \A row \in {Checked(ch[i]), right} :
                   /\ row.otp = ch[i].otp /\ row.attempts = ch[i].attempts + 1
                   /\ row.lastSent = ch[i].lastSent /\ row.expires = ch[i].expires
                   /\ row.consumedAt = ch[i].consumedAt
             /\ right.token = t
  <2>1. ch[i] # NoRow /\ ch[i] \in Challenge
    BY <1>3 DEF Row, IInv, TypeOK
  <2>2. ch[i].attempts + 1 \in 0..MaxAttempts
    BY <1>3, <2>1, LimitAssumption DEF MayCheck, Challenge
  <2>3. Checked(ch[i]) \in Challenge
    BY <2>1, <2>2 DEF Checked, Challenge
  <2>4. right \in Challenge
    BY <2>3 DEF Challenge
  <2>5. QED
    BY <2>1, <2>3, <2>4 DEF Checked, Challenge
<1>4. CASE /\ Row(i, e) /\ MayCheck(ch[i])
           /\ CommitWithCleanup([ch EXCEPT ![i] = Checked(ch[i])], Bumped(keys))
           /\ CountsCheck(ch[i].otp)
           /\ now' = now \/ ClockPasses(ch[i].expires)
           /\ UNCHANGED grants
  <2>1. now' \in Nat /\ now <= now'
    BY <1>1, <1>3, <1>4 DEF ClockPasses, MayCheck
  <2>2. QED
    BY <1>1, <1>3, <1>4, <2>1, CheckKeeps
<1>5. CASE /\ Row(i, e) /\ MayCheck(ch[i])
           /\ CommitWithCleanup([ch EXCEPT ![i] = right], Bumped(keys))
           /\ CountsCheck(ch[i].otp)
           /\ grants' = grants \cup {[intent |-> i, token |-> t, until |-> ch[i].expires]}
           /\ UNCHANGED now
  <2>1. now' \in Nat /\ now <= now'
    BY <1>1, <1>5
  <2>2. grants' = grants \cup {[intent |-> i, token |-> right.token, until |-> right.expires]}
    BY <1>3, <1>5
  <2>3. QED
    BY <1>1, <1>3, <1>5, <2>1, <2>2, CheckKeeps
<1>6. QED
  BY <1>2, <1>4, <1>5 DEF verifyChallenge

\* consumeVerification marks the capability used and the row with it.
LEMMA ConsumeKeeps ==
    ASSUME IInv, NEW i \in Intents, NEW e \in Emails, NEW t \in Tokens,
           consumeVerification(i, e, t)
    PROVE  IInv'
<1>1. /\ ch[i] # NoRow /\ MayConsume(ch[i], t)
      /\ ch' = [ch EXCEPT ![i].consumedAt = now]
      /\ consumptions' = [consumptions EXCEPT ![i] = @ + 1]
      /\ UNCHANGED <<now, rate, pc, code, grants>>
  BY DEF consumeVerification, Row
<1>2. /\ now \in Nat /\ ch \in ChType /\ ch[i] \in Challenge /\ TypeOK
      /\ consumptions \in [Intents -> Nat]
  BY <1>1, Types DEF IInv, TypeOK, ChType
<1>3. IntentOK(i) /\ RowAgrees(i)
  BY <1>1 DEF IInv, IntentOK
<1>4. /\ Verified(ch[i]) /\ ~Consumed(ch[i]) /\ consumptions[i] = 0
      /\ ch[i].lastSent \in Nat
  BY <1>1, <1>2, <1>3 DEF MayConsume, RowAgrees, Challenge
<1> DEFINE row == [ch[i] EXCEPT !.consumedAt = now]
<1>5. row \in Challenge /\ row # NoRow
  BY <1>2, NullAssumption DEF Challenge
<1>6. /\ ch' = [ch EXCEPT ![i] = row] /\ ch'[i] = row
      /\ \A j \in Intents : j # i => ch'[j] = ch[j]
  BY <1>1, <1>2 DEF ChType
<1>7. /\ consumptions'[i] = 1
      /\ \A j \in Intents : j # i => consumptions'[j] = consumptions[j]
  BY <1>1, <1>2, <1>4
<1>8. TypeOK'
  BY <1>1, <1>2, <1>5, <1>6 DEF TypeOK
<1>9. CallsAgree'
  BY <1>1 DEF IInv, CallsAgree, Stored
<1>10. ASSUME NEW j \in Intents PROVE CodesOf(j)' = CodesOf(j)
  BY <1>1 DEF CodesOf, Stored
<1>11. ASSUME NEW j \in Intents, j # i PROVE QuietFor(j)
  BY <1>1, <1>6, <1>7, <1>10, <1>11 DEF QuietFor
<1>12. /\ row.otp = ch[i].otp /\ row.attempts = ch[i].attempts /\ row.token = ch[i].token
       /\ row.lastSent = ch[i].lastSent /\ row.expires = ch[i].expires
       /\ row.consumedAt = now /\ Consumed(row)
  BY <1>2 DEF Challenge, Consumed, Never
<1>13. ch[i].lastSent <= now
  BY <1>3 DEF RowAgrees
<1>14. RowAgrees(i)'
  BY <1>1, <1>3, <1>4, <1>6, <1>7, <1>10, <1>12, <1>13, ZenonT(30) DEF RowAgrees, Verified, Stored, Consumed
<1>15. ~FreshIntent(i)'
  BY <1>1, <1>2, <1>3 DEF RowAgrees, FreshIntent, Stored, Challenge
<1>16. ASSUME NEW q \in CodesOf(i)'
       PROVE  CodeHeld(i, q)' /\ code'[q].checks <= MaxAttempts
  <2>1. q \in CodesOf(i) /\ CodeHeld(i, q) /\ (Superseded(q)' <=> Superseded(q))
    BY <1>1, <1>3, <1>10, <1>16 DEF IntentOK, Superseded, CodesOf, Stored
  <2>2. QED
    BY <1>1, <1>3, <1>5, <1>6, <1>12, <2>1 DEF CodeHeld, IntentOK
<1>17. IntentOK(i)'
  BY <1>7, <1>14, <1>15, <1>16 DEF IntentOK, FreshUntouched, Honoured
<1>18. now <= now'
  BY <1>1, <1>2
<1>19. QED
  BY <1>8, <1>9, <1>11, <1>17, <1>18, QuietKeeps DEF IInv

-----------------------------------------------------------------------------
(* The theorems.                                                           *)

\* The empty tables satisfy the invariant.
LEMMA InitIInv == Init => IInv
<1> SUFFICES ASSUME Init PROVE IInv
  OBVIOUS
<1>1. TypeOK
  BY DEF Init, TypeOK, PC
<1>2. \A r \in Requests : ~Stored(r) /\ pc[r] = "new"
  BY DEF Init, Stored
<1>3. CallsAgree
  BY <1>2 DEF CallsAgree
<1>4. ASSUME NEW i \in Intents PROVE IntentOK(i)
  <2>1. ch[i] = NoRow /\ consumptions[i] = 0 /\ grants = {} /\ CodesOf(i) = {}
    BY <1>2 DEF Init, CodesOf
  <2>2. QED
    BY <2>1 DEF IntentOK, FreshUntouched
<1>5. QED
  BY <1>1, <1>3, <1>4 DEF IInv

\* Every transaction, provider call, cleanup and tick keeps the invariant.
LEMMA NextKeeps == IInv /\ [Next]_vars => IInv'
<1> SUFFICES ASSUME IInv, [Next]_vars PROVE IInv'
  OBVIOUS
<1>1. ASSUME NEW r \in Requests, NEW i \in Intents, NEW e \in Emails, NEW p \in Ips,
             createChallenge(r, i, e, p) \/ resendChallenge(r, i, e, p)
      PROVE  IInv'
  BY <1>1, CreateKeeps, ResendKeeps
<1>2. ASSUME NEW r \in Requests,
             \/ requestUnavailable(r) \/ sendVerificationCode(r)
             \/ deleteUndeliveredChallenge(r)
      PROVE  IInv'
  BY <1>2, UnavailableKeeps, SendKeeps, DeleteKeeps
<1>3. ASSUME NEW i \in Intents, NEW e \in Emails, NEW p \in Ips,
             NEW guess \in Requests, NEW t \in Tokens, verifyChallenge(i, e, p, guess, t)
      PROVE  IInv'
  BY <1>3, VerifyKeeps
<1>4. ASSUME NEW i \in Intents, NEW e \in Emails, NEW t \in Tokens,
             consumeVerification(i, e, t)
      PROVE  IInv'
  BY <1>4, ConsumeKeeps
<1>5. CASE cleanupExpired \/ Tick
  BY <1>5, CleanupKeeps, TickKeeps
<1>6. CASE UNCHANGED vars
  <2>1. /\ UNCHANGED <<now, ch, rate, pc, code, grants, consumptions>>
    BY <1>6 DEF vars
  <2>2. now' \in Nat /\ now <= now'
    BY <2>1, Types
  <2>3. QED
    BY <2>1, <2>2, QuietStep, Types
<1>7. QED
  BY <1>1, <1>2, <1>3, <1>4, <1>5, <1>6 DEF Next

\* IInv holds in every reachable state of the service and its store.
THEOREM Inductive == Spec => []IInv
  BY InitIInv, NextKeeps, PTL DEF Spec

\* Every value the store and the calls hold has its type.
LEMMA TypeCorrect == Spec => []TypeOK
<1>1. IInv => TypeOK
  BY DEF IInv
<1>2. QED
  BY <1>1, Inductive, PTL

\* verifyChallenge never compares one code more than EMAIL_OTP_MAX_ATTEMPTS times,
\* and attempt_count and send_count stay within the table's CHECKs (0..5 and 1..3).
THEOREM ChecksAreSound == Spec => []ChecksSound
<1>1. IInv => CodeChecksBounded
  <2> SUFFICES ASSUME IInv, NEW r \in Requests, Stored(r)
               PROVE  code[r].checks <= MaxAttempts
    BY DEF CodeChecksBounded
  <2>1. code[r].intent \in Intents
    BY DEF IInv, TypeOK, Stored, Code
  <2>2. r \in CodesOf(code[r].intent)
    BY DEF CodesOf
  <2>3. QED
    BY <2>1, <2>2 DEF IInv, IntentOK
<1>2. IInv => ChecksSound
  BY <1>1 DEF IInv, ChecksSound
<1>3. QED
  BY <1>2, Inductive, PTL

\* consumeVerification succeeds at most once for an intent.
THEOREM CapabilityIsSingleUse == Spec => []SingleUse
<1>1. IInv => SingleUse
  BY DEF IInv, IntentOK, SingleUse
<1>2. QED
  BY <1>1, Inductive, PTL

\* A capability answered by verifyCode can be used until the time it was
\* answered with, unless it has been used.
THEOREM GrantsAreHonoured == Spec => []GrantHonoured
<1>1. IInv => GrantHonoured
  <2> SUFFICES ASSUME IInv, NEW g \in grants, g.until > now, consumptions[g.intent] = 0
               PROVE  /\ ch[g.intent] # NoRow
                      /\ MayConsume(ch[g.intent], g.token)
                      /\ ch[g.intent].expires = g.until
    BY DEF GrantHonoured
  <2>1. g.intent \in Intents
    BY DEF IInv, TypeOK, Grant
  <2>2. Honoured(g.intent, g)
    BY <2>1 DEF IInv, IntentOK
  <2>3. QED
    BY <2>2 DEF Honoured
<1>2. QED
  BY <1>1, Inductive, PTL

\* A code requestCode answered 'sent' for stays the one its challenge holds
\* until it expires or a later resend replaces it.
THEOREM SentCodesAreUsable == Spec => []SentCodeUsable
<1>1. IInv => SentCodeUsable
  <2> SUFFICES ASSUME IInv, NEW r \in Requests,
                      pc[r] = "sent", now < code[r].at + TTL, ~Superseded(r)
               PROVE  /\ ch[code[r].intent] # NoRow
                      /\ ch[code[r].intent].otp = r
                      /\ ch[code[r].intent].expires = code[r].at + TTL
    BY DEF SentCodeUsable
  <2>1. Stored(r)
    BY DEF IInv, CallsAgree
  <2>2. code[r].intent \in Intents /\ r \in CodesOf(code[r].intent)
    BY <2>1 DEF IInv, TypeOK, Stored, Code, CodesOf
  <2>3. IntentOK(code[r].intent)
    BY <2>2 DEF IInv
  <2>4. ch[code[r].intent] # NoRow /\ ch[code[r].intent].otp = r
    BY <2>2, <2>3 DEF IntentOK, CodeHeld
  <2>5. QED
    BY <2>3, <2>4 DEF IntentOK, RowAgrees
<1>2. QED
  BY <1>1, Inductive, PTL

-----------------------------------------------------------------------------
(* The pace of deliveries: how many codes were mailed, and when.           *)

\* The row of an intent counts its codes; without its row an intent gets none.
PacedOK(i) ==
    /\ IsFiniteSet(CodesOf(i))
    /\ Cardinality(CodesOf(i)) <= MaxSends
    /\ ch[i] # NoRow => Cardinality(CodesOf(i)) = ch[i].sends
    /\ \A q, r \in CodesOf(i) : q # r => \/ code[q].at + Cooldown <= code[r].at
                                         \/ code[r].at + Cooldown <= code[q].at

\* Codes c mailed to address e, and those of them mailed in [from, until).
Mails(c, e) == {r \in Requests : c[r] # NoRow /\ c[r].email = e}
Within(c, e, from, until) == {r \in Mails(c, e) : from <= c[r].at /\ c[r].at < until}

SendMax == RateMax["send_email"]

\* What the row of an address in the rate table knows of the mails c at time t.
\* The start of a window is itself a counted call, so later in the window there
\* are fewer mails than the limit; hence fewer than the limit in the hour before
\* the window that follows.  A row is deleted only when its mails are older than
\* an hour.
WindowOK(c, e, row, t) ==
    /\ row = NoRow => \A r \in Mails(c, e) : c[r].at < t - Hour
    /\ row # NoRow =>
          /\ row.start <= t /\ row.updated <= t
          /\ \A r \in Mails(c, e) : c[r].at <= row.updated /\ c[r].at < row.start + Hour
          /\ Cardinality(Within(c, e, row.start, row.start + Hour)) <= row.count
          /\ Cardinality(Within(c, e, row.start, row.start + Hour)) <= SendMax
          /\ Cardinality(Within(c, e, row.start + 1, row.start + Hour)) < row.count
          /\ Cardinality(Within(c, e, row.start + 1, row.start + Hour)) < SendMax
          /\ Cardinality(Within(c, e, row.start + 1 - Hour, row.start)) < SendMax

SpansOK(c, e, t) ==
    \A from \in 0..t : Cardinality(Within(c, e, from, from + Hour)) < 2 * SendMax

MailsOK(e) ==
    /\ IsFiniteSet(Mails(code, e))
    /\ WindowOK(code, e, rate[<<"send_email", e>>], now)
    /\ SpansOK(code, e, now)

\* The inductive invariant of both.
PInv == (\A i \in Intents : PacedOK(i)) /\ (\A e \in Emails : MailsOK(e))

\* Counting.
LEMMA CountSubset ==
    ASSUME NEW S, IsFiniteSet(S), NEW T \in SUBSET S
    PROVE  IsFiniteSet(T) /\ Cardinality(T) \in Nat /\ Cardinality(T) <= Cardinality(S)
  BY FS_Subset, FS_CardinalityType

LEMMA CountGrown ==
    ASSUME NEW S, IsFiniteSet(S), NEW r, NEW T, T \subseteq S \cup {r}
    PROVE  IsFiniteSet(T) /\ Cardinality(T) \in Nat /\ Cardinality(T) <= Cardinality(S) + 1
<1>1. /\ IsFiniteSet(S \cup {r})
      /\ Cardinality(S \cup {r}) = IF r \in S THEN Cardinality(S) ELSE Cardinality(S) + 1
  BY FS_AddElement
<1>2. Cardinality(S) \in Nat
  BY FS_CardinalityType
<1>3. IsFiniteSet(T) /\ Cardinality(T) \in Nat /\ Cardinality(T) <= Cardinality(S \cup {r})
  BY <1>1, CountSubset
<1>4. QED
  BY <1>1, <1>2, <1>3

LEMMA CountUnion ==
    ASSUME NEW A, IsFiniteSet(A), NEW B, IsFiniteSet(B), NEW T, T \subseteq A \cup B
    PROVE  Cardinality(T) \in Nat /\ Cardinality(T) <= Cardinality(A) + Cardinality(B)
<1>1. /\ IsFiniteSet(A \cup B) /\ IsFiniteSet(A \cap B)
      /\ Cardinality(A \cup B) = Cardinality(A) + Cardinality(B) - Cardinality(A \cap B)
  BY FS_Union, FS_Intersection
<1>2. Cardinality(A) \in Nat /\ Cardinality(B) \in Nat /\ Cardinality(A \cap B) \in Nat
  BY <1>1, FS_CardinalityType
<1>3. Cardinality(T) \in Nat /\ Cardinality(T) <= Cardinality(A \cup B)
  BY <1>1, CountSubset
<1>4. QED
  BY <1>1, <1>2, <1>3

CodeType == [Requests -> Code \cup {NoRow}]

LEMMA MailTypes ==
    ASSUME NEW c \in CodeType, NEW e \in Emails
    PROVE  \A r \in Mails(c, e) : r \in Requests /\ c[r] \in Code /\ c[r].at \in Nat
  BY DEF Mails, CodeType, Code

LEMMA WithinFinite ==
    ASSUME NEW c, NEW e, IsFiniteSet(Mails(c, e)), NEW from, NEW until
    PROVE  /\ IsFiniteSet(Within(c, e, from, until))
           /\ Cardinality(Within(c, e, from, until)) \in Nat
<1>1. Within(c, e, from, until) \subseteq Mails(c, e)
  BY DEF Within
<1>2. QED
  BY <1>1, CountSubset

LEMMA Limits ==
    /\ SendMax \in Nat /\ SendMax > 0 /\ SendMax < CountCap /\ CountCap \in Nat
    /\ Hour \in Nat /\ Hour > 0 /\ RateRetention \in Nat /\ Hour <= RateRetention
<1>1. "send_email" \in Scopes
  BY DEF Scopes, EmailScopes
<1>2. QED
  BY <1>1, ClockAssumption, LimitAssumption DEF SendMax

\* Time passes.
LEMMA WindowLater ==
    ASSUME NEW c \in CodeType, NEW e \in Emails, NEW row \in RateRow \cup {NoRow},
           NEW t \in Nat, NEW u \in Nat, t <= u, WindowOK(c, e, row, t)
    PROVE  WindowOK(c, e, row, u)
<1>1. CASE row = NoRow
  <2>1. \A r \in Mails(c, e) : c[r].at < u - Hour
    BY <1>1, MailTypes, Limits DEF WindowOK
  <2>2. QED
    BY <1>1, <2>1 DEF WindowOK
<1>2. CASE row # NoRow
  <2>1. row.start \in Nat /\ row.updated \in Nat
    BY <1>2 DEF RateRow
  <2>2. row.start <= u /\ row.updated <= u
    BY <1>2, <2>1 DEF WindowOK
  <2>3. QED
    BY <1>2, <2>2 DEF WindowOK
<1>3. QED
  BY <1>1, <1>2

\* The cleanup removes the row.
LEMMA WindowStale ==
    ASSUME NEW c \in CodeType, NEW e \in Emails, NEW row \in RateRow \cup {NoRow},
           now \in Nat, WindowOK(c, e, row, now), StaleRate(row)
    PROVE  WindowOK(c, e, NoRow, now)
<1>1. row # NoRow /\ row.updated \in Nat /\ row.updated < now - RateRetention
  BY DEF StaleRate, RateRow
<1>2. \A r \in Mails(c, e) : c[r].at \in Nat /\ c[r].at <= row.updated
  BY <1>1, MailTypes DEF WindowOK
<1>3. \A r \in Mails(c, e) : c[r].at < now - Hour
  BY <1>1, <1>2, Limits
<1>4. QED
  BY <1>3 DEF WindowOK

\* Mails d are mails c to e and, if its call was admitted, the one of call r.
Adds(c, d, e, r, row) ==
    /\ \A q \in Mails(c, e) : q \in Mails(d, e) /\ d[q].at = c[q].at
    /\ \/ Mails(d, e) = Mails(c, e)
       \/ /\ Mails(d, e) = Mails(c, e) \cup {r} /\ r \notin Mails(c, e)
          /\ d[r].at = now /\ Bump(row).count <= SendMax

\* A counted call opens a window when the last one is over: its mail is the first.
LEMMA WindowOpens ==
    ASSUME NEW c \in CodeType, NEW d \in CodeType, NEW e \in Emails, NEW r,
           NEW row \in RateRow \cup {NoRow}, now \in Nat, IsFiniteSet(Mails(c, e)),
           WindowOK(c, e, row, now), Adds(c, d, e, r, row), row = NoRow \/ WindowOver(row)
    PROVE  WindowOK(d, e, Bump(row), now)
<1> DEFINE w == Bump(row)
<1>1. w.start = now /\ w.count = 1 /\ w.updated = now /\ w # NoRow
  <2>1. w = [start |-> now, count |-> 1, updated |-> now]
    BY DEF Bump
  <2>2. w \in RateRow
    BY <2>1 DEF RateRow
  <2>3. QED
    BY <2>1, <2>2, NullAssumption
<1>2. row # NoRow => row.start \in Nat /\ row.start <= now - Hour
  BY DEF RateRow, WindowOver
<1>3. \A q \in Mails(c, e) : c[q].at \in Nat /\ c[q].at < now
  <2>1. CASE row = NoRow
    BY <2>1, MailTypes, Limits DEF WindowOK
  <2>2. CASE row # NoRow
    BY <2>2, <1>2, MailTypes, Limits DEF WindowOK
  <2>3. QED
    BY <2>1, <2>2
<1>4. \A q \in Mails(d, e) : d[q].at \in Nat /\ (q # r => q \in Mails(c, e) /\ d[q].at = c[q].at)
  BY MailTypes DEF Adds
<1>5. \A q \in Mails(d, e) : d[q].at <= now /\ (d[q].at = now => q = r)
  BY <1>3, <1>4 DEF Adds
<1>6. Within(d, e, now, now + Hour) \in SUBSET {r}
  BY <1>5, <1>4 DEF Within
<1>7. Cardinality(Within(d, e, now, now + Hour)) \in Nat /\ Cardinality(Within(d, e, now, now + Hour)) <= 1
  <2>1. IsFiniteSet({r}) /\ Cardinality({r}) = 1
    BY FS_Singleton
  <2>2. QED
    BY <1>6, <2>1, CountSubset
<1>8. Cardinality(Within(d, e, now + 1, now + Hour)) = 0
  <2>1. Within(d, e, now + 1, now + Hour) = {}
    BY <1>5, <1>4 DEF Within
  <2>2. QED
    BY <2>1, FS_EmptySet
<1>9. Cardinality(Within(d, e, now + 1 - Hour, now)) < SendMax
  <2>1. \A q \in Within(d, e, now + 1 - Hour, now) :
            q \in Mails(c, e) /\ c[q].at \in Nat /\ now + 1 - Hour <= c[q].at
    <3>1. \A q \in Within(d, e, now + 1 - Hour, now) :
              q \in Mails(d, e) /\ now + 1 - Hour <= d[q].at /\ d[q].at < now
      BY DEF Within
    <3>2. r \in Mails(d, e) => r \in Mails(c, e) \/ d[r].at = now
      BY DEF Adds
    <3>3. QED
      BY <1>3, <1>4, <3>1, <3>2 DEF Adds
  <2>2. CASE row = NoRow
    <3>1. \A q \in Mails(c, e) : c[q].at < now - Hour
      BY <2>2 DEF WindowOK
    <3>2. Within(d, e, now + 1 - Hour, now) = {}
      BY <1>3, <2>1, <3>1, Limits
    <3>3. QED
      BY <3>2, FS_EmptySet, Limits
  <2>3. CASE row # NoRow
    <3>1. \A q \in Mails(c, e) : c[q].at < row.start + Hour
      BY <2>3 DEF WindowOK
    <3>2. Within(d, e, now + 1 - Hour, now) \subseteq Within(c, e, row.start + 1, row.start + Hour)
      <4>1. \A q \in Within(d, e, now + 1 - Hour, now) : row.start + 1 <= c[q].at
        BY <1>2, <2>1, <2>3, Limits
      <4>2. QED
        BY <2>1, <3>1, <4>1 DEF Within
    <3>3. Cardinality(Within(c, e, row.start + 1, row.start + Hour)) < SendMax
      BY <2>3 DEF WindowOK
    <3>4. IsFiniteSet(Within(c, e, row.start + 1, row.start + Hour))
          /\ Cardinality(Within(c, e, row.start + 1, row.start + Hour)) \in Nat
      BY WithinFinite
    <3>5. /\ Cardinality(Within(d, e, now + 1 - Hour, now)) \in Nat
          /\ Cardinality(Within(d, e, now + 1 - Hour, now))
                <= Cardinality(Within(c, e, row.start + 1, row.start + Hour))
      BY <3>2, <3>4, CountSubset
    <3>6. QED
      BY <3>3, <3>4, <3>5, Limits
  <2>4. QED
    BY <2>2, <2>3
<1>10. Cardinality(Within(d, e, now, now + Hour)) <= SendMax
  BY <1>7, Limits
<1>11. \A q \in Mails(d, e) : d[q].at <= now /\ d[q].at < now + Hour
  BY <1>4, <1>5, Limits
<1> HIDE DEF w
<1>12. WindowOK(d, e, w, now)
  BY <1>1, <1>7, <1>8, <1>9, <1>10, <1>11, Limits DEF WindowOK
<1>13. QED
  BY <1>12 DEF w

\* A counted call in a window that is not over.
LEMMA WindowGoesOn ==
    ASSUME NEW c \in CodeType, NEW d \in CodeType, NEW e \in Emails, NEW r,
           NEW row \in RateRow, now \in Nat, IsFiniteSet(Mails(c, e)),
           WindowOK(c, e, row, now), Adds(c, d, e, r, row), ~WindowOver(row)
    PROVE  WindowOK(d, e, Bump(row), now)
<1> DEFINE w == Bump(row)
           s == row.start
           n == Cardinality(Within(c, e, s, s + Hour))
           m == Cardinality(Within(c, e, s + 1, s + Hour))
<1>1. row # NoRow /\ s \in Nat /\ row.count \in Nat /\ row.updated \in Nat /\ s <= now /\ now < s + Hour
  BY NullAssumption, Limits DEF RateRow, WindowOver, WindowOK
<1>2. /\ w.start = s /\ w.updated = now /\ w # NoRow
      /\ w.count = IF row.count < CountCap THEN row.count + 1 ELSE row.count
  <2>1. w = [row EXCEPT !.count = IF @ < CountCap THEN @ + 1 ELSE @, !.updated = now]
    BY <1>1 DEF Bump
  <2>2. w.start = s /\ w.updated = now
        /\ w.count = IF row.count < CountCap THEN row.count + 1 ELSE row.count
    BY <2>1 DEF RateRow
  <2>3. w \in RateRow
    BY BumpType
  <2>4. QED
    BY <2>2, <2>3, NullAssumption
<1>3. /\ n \in Nat /\ m \in Nat /\ n <= row.count /\ n <= SendMax /\ m < row.count /\ m < SendMax
      /\ Cardinality(Within(c, e, s + 1 - Hour, s)) < SendMax
      /\ IsFiniteSet(Within(c, e, s, s + Hour)) /\ IsFiniteSet(Within(c, e, s + 1, s + Hour))
  BY <1>1, WithinFinite DEF WindowOK
<1>4. \A q \in Mails(c, e) : c[q].at \in Nat /\ c[q].at <= row.updated /\ c[q].at < s + Hour /\ c[q].at <= now
  BY <1>1, MailTypes DEF WindowOK
<1>5. \A q \in Mails(d, e) : /\ q # r => q \in Mails(c, e)
                             /\ q \in Mails(c, e) => d[q].at = c[q].at
                             /\ q \notin Mails(c, e) => q = r /\ d[q].at = now
  BY DEF Adds
<1>6. \A q \in Mails(d, e) : d[q].at <= now /\ d[q].at < s + Hour
  BY <1>1, <1>4, <1>5
<1>7. Within(d, e, s + 1 - Hour, s) = Within(c, e, s + 1 - Hour, s)
  <2>1. \A q \in Mails(d, e) : d[q].at < s => q \in Mails(c, e)
    BY <1>1, <1>5
  <2>2. Mails(c, e) \subseteq Mails(d, e)
    BY DEF Adds
  <2>3. QED
    BY <1>5, <2>1, <2>2 DEF Within
<1>8. CASE Mails(d, e) = Mails(c, e)
  <2>1. /\ Within(d, e, s, s + Hour) = Within(c, e, s, s + Hour)
        /\ Within(d, e, s + 1, s + Hour) = Within(c, e, s + 1, s + Hour)
    BY <1>5, <1>8 DEF Within
  <2>2. row.count <= w.count /\ w.count \in Nat
    BY <1>1, <1>2, Limits
  <2>3. n <= w.count /\ m < w.count
    BY <1>1, <1>3, <2>2
  <2> HIDE DEF w
  <2>4. WindowOK(d, e, w, now)
    BY <1>1, <1>2, <1>3, <1>6, <1>7, <2>1, <2>3 DEF WindowOK
  <2>5. QED
    BY <2>4 DEF w
<1>9. CASE /\ Mails(d, e) = Mails(c, e) \cup {r} /\ r \notin Mails(c, e)
           /\ d[r].at = now /\ Bump(row).count <= SendMax
  <2> DEFINE nd == Cardinality(Within(d, e, s, s + Hour))
             md == Cardinality(Within(d, e, s + 1, s + Hour))
  <2>1. /\ Within(d, e, s, s + Hour) \subseteq Within(c, e, s, s + Hour) \cup {r}
        /\ Within(d, e, s + 1, s + Hour) \subseteq Within(c, e, s + 1, s + Hour) \cup {r}
    BY <1>5 DEF Within
  <2>2. nd \in Nat /\ nd <= n + 1 /\ md \in Nat /\ md <= m + 1
    BY <1>3, <2>1, CountGrown
  <2>3. w.count = row.count + 1 /\ w.count <= SendMax
    BY <1>1, <1>2, <1>9, Limits
  <2>4. nd <= w.count /\ nd <= SendMax /\ md < w.count /\ md < SendMax
    <3> HIDE DEF w, s, n, m, nd, md
    <3>1. QED
      BY <1>1, <1>3, <2>2, <2>3, Limits
  <2> HIDE DEF w
  <2>5. WindowOK(d, e, w, now)
    BY <1>1, <1>2, <1>3, <1>6, <1>7, <2>4 DEF WindowOK
  <2>6. QED
    BY <2>5 DEF w
<1>10. QED
  BY <1>8, <1>9 DEF Adds

LEMMA WindowBumped ==
    ASSUME NEW c \in CodeType, NEW d \in CodeType, NEW e \in Emails, NEW r,
           NEW row \in RateRow \cup {NoRow}, now \in Nat, IsFiniteSet(Mails(c, e)),
           WindowOK(c, e, row, now), Adds(c, d, e, r, row)
    PROVE  WindowOK(d, e, Bump(row), now)
  BY WindowOpens, WindowGoesOn

\* A span that has the new mail in it lies in a window and the hour before.
LEMMA SpansAfterMail ==
    ASSUME NEW c \in CodeType, NEW d \in CodeType, NEW e \in Emails, NEW r,
           NEW row \in RateRow \cup {NoRow}, now \in Nat, IsFiniteSet(Mails(c, e)),
           WindowOK(c, e, row, now), Adds(c, d, e, r, row), SpansOK(c, e, now)
    PROVE  SpansOK(d, e, now) /\ IsFiniteSet(Mails(d, e))
<1> DEFINE w == Bump(row)
           s == w.start
<1>1. w # NoRow /\ s \in Nat
  <2>1. w \in RateRow
    BY BumpType
  <2>2. QED
    BY <2>1, NullAssumption DEF RateRow
<1>2. WindowOK(d, e, w, now)
  BY WindowBumped
<1>3. IsFiniteSet(Mails(d, e))
  <2>1. Mails(d, e) \subseteq Mails(c, e) \cup {r}
    BY DEF Adds
  <2>2. QED
    BY <2>1, CountGrown
<1>4. ASSUME NEW from \in 0..now PROVE Cardinality(Within(d, e, from, from + Hour)) < 2 * SendMax
  <2>1. CASE Within(d, e, from, from + Hour) \subseteq Within(c, e, from, from + Hour)
    <3>1. /\ IsFiniteSet(Within(c, e, from, from + Hour))
          /\ Cardinality(Within(c, e, from, from + Hour)) \in Nat
      BY WithinFinite
    <3>2. /\ Cardinality(Within(d, e, from, from + Hour)) \in Nat
          /\ Cardinality(Within(d, e, from, from + Hour)) <= Cardinality(Within(c, e, from, from + Hour))
      BY <2>1, <3>1, CountSubset
    <3>3. Cardinality(Within(c, e, from, from + Hour)) < 2 * SendMax
      BY DEF SpansOK
    <3>4. QED
      BY <3>1, <3>2, <3>3, Limits
  <2>2. CASE ~(Within(d, e, from, from + Hour) \subseteq Within(c, e, from, from + Hour))
    <3>1. PICK q \in Within(d, e, from, from + Hour) : q \notin Within(c, e, from, from + Hour)
      BY <2>2
    <3>2. q \in Mails(d, e) /\ q \notin Mails(c, e)
      BY <3>1 DEF Within, Adds
    <3>3. d[q].at = now /\ now < from + Hour
      BY <3>1, <3>2 DEF Within, Adds
    <3>4. s <= now /\ \A p \in Mails(d, e) : d[p].at \in Nat /\ d[p].at < s + Hour
      BY <1>1, <1>2, MailTypes DEF WindowOK
    <3>5. Within(d, e, from, from + Hour)
             \subseteq Within(d, e, s + 1 - Hour, s) \cup Within(d, e, s, s + Hour)
      <4> HIDE DEF s
      <4>1. ASSUME NEW p \in Mails(d, e), from <= d[p].at
            PROVE  s + 1 - Hour <= d[p].at /\ d[p].at < s + Hour /\ d[p].at \in Nat
        BY <1>1, <3>3, <3>4, <4>1, Limits
      <4>2. QED
        BY <1>1, <4>1 DEF Within
    <3>6. /\ Cardinality(Within(d, e, s + 1 - Hour, s)) < SendMax
          /\ Cardinality(Within(d, e, s, s + Hour)) <= SendMax
      BY <1>1, <1>2 DEF WindowOK
    <3>7. /\ IsFiniteSet(Within(d, e, s + 1 - Hour, s)) /\ IsFiniteSet(Within(d, e, s, s + Hour))
          /\ Cardinality(Within(d, e, s + 1 - Hour, s)) \in Nat
          /\ Cardinality(Within(d, e, s, s + Hour)) \in Nat
      BY <1>3, WithinFinite
    <3>8. /\ Cardinality(Within(d, e, from, from + Hour)) \in Nat
          /\ Cardinality(Within(d, e, from, from + Hour))
                <= Cardinality(Within(d, e, s + 1 - Hour, s)) + Cardinality(Within(d, e, s, s + Hour))
      BY <3>5, <3>7, CountUnion
    <3>9. QED
      BY <3>6, <3>7, <3>8, Limits
  <2>3. QED
    BY <2>1, <2>2
<1>5. QED
  BY <1>3, <1>4 DEF SpansOK

SameCodes ==
    \A r \in Requests :
        /\ code'[r] = NoRow <=> code[r] = NoRow
        /\ code[r] # NoRow => /\ code'[r].intent = code[r].intent /\ code'[r].email = code[r].email
                              /\ code'[r].at = code[r].at
RowKept(i) == ch'[i] = NoRow \/ (ch[i] # NoRow /\ ch'[i].sends = ch[i].sends)
RateMoves(k) ==
    \E row \in {rate[k], Bump(rate[k])} : rate'[k] = row \/ (rate'[k] = NoRow /\ StaleRate(row))

LEMMA SendKeyType == \A e \in Emails : <<"send_email", e>> \in RateKeys
  BY DEF RateKeys, EmailScopes

\* The rate row of an address after a transaction that mails nothing to it.
LEMMA RowMoves ==
    ASSUME TypeOK, NEW e \in Emails, MailsOK(e), RateMoves(<<"send_email", e>>)
    PROVE  WindowOK(code, e, rate'[<<"send_email", e>>], now)
<1> DEFINE k == <<"send_email", e>>
<1>1. code \in CodeType /\ now \in Nat /\ rate[k] \in RateRow \cup {NoRow}
  BY SendKeyType DEF TypeOK, CodeType
<1>2. IsFiniteSet(Mails(code, e)) /\ WindowOK(code, e, rate[k], now)
  BY DEF MailsOK
<1>3. Adds(code, code, e, NoRow, rate[k])
  BY DEF Adds
<1>4. WindowOK(code, e, Bump(rate[k]), now) /\ Bump(rate[k]) \in RateRow \cup {NoRow}
  BY <1>1, <1>2, <1>3, WindowBumped, BumpType
<1>5. PICK row \in {rate[k], Bump(rate[k])} : rate'[k] = row \/ (rate'[k] = NoRow /\ StaleRate(row))
  BY DEF RateMoves
<1>6. row \in RateRow \cup {NoRow} /\ WindowOK(code, e, row, now)
  BY <1>1, <1>2, <1>4, <1>5
<1>7. QED
  BY <1>1, <1>5, <1>6, WindowStale

LEMMA MailsBefore ==
    ASSUME NEW c \in CodeType, NEW e \in Emails, NEW row \in RateRow \cup {NoRow}, now \in Nat,
           WindowOK(c, e, row, now)
    PROVE  \A r \in Mails(c, e) : c[r].at \in Nat /\ c[r].at <= now
<1>1. CASE row = NoRow
  BY <1>1, MailTypes, Limits DEF WindowOK
<1>2. CASE row # NoRow
  <2>1. row.updated \in Nat /\ row.updated <= now
    BY <1>2 DEF RateRow, WindowOK
  <2>2. QED
    BY <1>2, <2>1, MailTypes DEF WindowOK
<1>3. QED
  BY <1>1, <1>2

LEMMA NoMailKeeps ==
    ASSUME TypeOK, TypeOK', NEW e \in Emails, MailsOK(e), RateMoves(<<"send_email", e>>),
           now <= now', Mails(code', e) = Mails(code, e),
           \A q \in Mails(code, e) : code'[q].at = code[q].at
    PROVE  MailsOK(e)'
<1> DEFINE k == <<"send_email", e>>
<1>1. /\ code \in CodeType /\ code' \in CodeType /\ now \in Nat /\ now' \in Nat
      /\ rate'[k] \in RateRow \cup {NoRow}
  BY SendKeyType DEF TypeOK, CodeType
<1>2. WindowOK(code, e, rate'[k], now)
  BY RowMoves
<1>3. WindowOK(code, e, rate'[k], now')
  BY <1>1, <1>2, WindowLater
<1>4. \A from, until : Within(code', e, from, until) = Within(code, e, from, until)
  BY DEF Within
<1>5. WindowOK(code', e, rate'[k], now')
  BY <1>3, <1>4 DEF WindowOK
<1>6. ASSUME NEW from \in 0..now' PROVE Cardinality(Within(code, e, from, from + Hour)) < 2 * SendMax
  <2>1. CASE from \in 0..now
    BY <2>1 DEF MailsOK, SpansOK
  <2>2. CASE from \notin 0..now
    <3>1. Within(code, e, from, from + Hour) = {}
      BY <1>1, <1>2, <2>2, MailsBefore DEF Within
    <3>2. QED
      BY <3>1, FS_EmptySet, Limits
  <2>3. QED
    BY <2>1, <2>2
<1>7. SpansOK(code', e, now')
  BY <1>4, <1>6 DEF SpansOK
<1>8. QED
  BY <1>5, <1>7 DEF MailsOK

LEMMA MailKeeps ==
    ASSUME TypeOK, TypeOK', NEW e \in Emails, MailsOK(e), NEW r \in Requests, ~Stored(r), now' = now,
           NEW i \in Intents, StoresCode(r, i, e), rate'[<<"send_email", e>>] = Bump(rate[<<"send_email", e>>]),
           Bump(rate[<<"send_email", e>>]).count <= SendMax
    PROVE  MailsOK(e)'
<1> DEFINE k == <<"send_email", e>>
           new == [intent |-> i, email |-> e, at |-> now, checks |-> 0]
<1>1. /\ code \in CodeType /\ code' \in CodeType /\ now \in Nat
      /\ rate[k] \in RateRow \cup {NoRow}
  BY SendKeyType DEF TypeOK, CodeType
<1>2. code' = [code EXCEPT ![r] = new]
  BY DEF StoresCode
<1>3. code'[r] = new /\ code'[r] # NoRow /\ \A q \in Requests \ {r} : code'[q] = code[q]
  <2>1. code'[r] = new /\ \A q \in Requests \ {r} : code'[q] = code[q]
    BY <1>1, <1>2 DEF CodeType
  <2>2. new \in Code
    BY <1>1 DEF Code
  <2>3. QED
    BY <2>1, <2>2, NullAssumption
<1>4. Mails(code', e) = Mails(code, e) \cup {r} /\ r \notin Mails(code, e)
  BY <1>3 DEF Mails, Stored
<1>5. Adds(code, code', e, r, rate[k])
  <2>1. \A q \in Mails(code, e) : q \in Mails(code', e) /\ code'[q].at = code[q].at
    BY <1>3, <1>4 DEF Mails
  <2>2. code'[r].at = now
    BY <1>3
  <2>3. QED
    BY <1>4, <2>1, <2>2 DEF Adds
<1>6. IsFiniteSet(Mails(code, e)) /\ WindowOK(code, e, rate[k], now) /\ SpansOK(code, e, now)
  BY DEF MailsOK
<1>7. WindowOK(code', e, Bump(rate[k]), now)
  BY <1>1, <1>5, <1>6, WindowBumped
<1>8. SpansOK(code', e, now) /\ IsFiniteSet(Mails(code', e))
  BY <1>1, <1>5, <1>6, SpansAfterMail
<1>9. QED
  BY <1>7, <1>8 DEF MailsOK

\* A step that stores no code keeps both.
LEMMA NoCodeKeeps ==
    ASSUME TypeOK, TypeOK', PInv, now <= now', SameCodes, \A i \in Intents : RowKept(i),
           \A e \in Emails : RateMoves(<<"send_email", e>>)
    PROVE  PInv'
<1>1. ASSUME NEW i \in Intents PROVE PacedOK(i)'
  <2>1. CodesOf(i)' = CodesOf(i)
    BY DEF CodesOf, Stored, SameCodes
  <2>2. \A q \in CodesOf(i) : code'[q].at = code[q].at
    BY DEF CodesOf, Stored, SameCodes
  <2>3. PacedOK(i) /\ RowKept(i)
    BY DEF PInv
  <2>4. QED
    BY <2>1, <2>2, <2>3 DEF PacedOK, RowKept
<1>2. ASSUME NEW e \in Emails PROVE MailsOK(e)'
  <2>1. Mails(code', e) = Mails(code, e) /\ \A q \in Mails(code, e) : code'[q].at = code[q].at
    BY DEF Mails, SameCodes
  <2>2. MailsOK(e)
    BY DEF PInv
  <2>3. QED
    BY <2>1, <2>2, NoMailKeeps
<1>3. QED
  BY <1>1, <1>2 DEF PInv

\* What a transaction with its cleanup makes of the rate rows: the counted ones
\* are not stale.
LEMMA CommitMoves ==
    ASSUME TypeOK, NEW STATE newCh, NEW keys, CommitWithCleanup(newCh, Bumped(keys))
    PROVE  \A k \in RateKeys : RateMoves(k) /\ (k \in keys => rate'[k] = Bump(rate[k]))
<1>1. ASSUME NEW k \in RateKeys
      PROVE  rate'[k] = Bumped(keys)[k] \/ (rate'[k] = NoRow /\ StaleRate(Bumped(keys)[k]))
  BY DEF CommitWithCleanup
<1>2. ASSUME NEW k \in RateKeys PROVE Bumped(keys)[k] = IF k \in keys THEN Bump(rate[k]) ELSE rate[k]
  BY DEF Bumped
<1>3. ASSUME NEW k \in RateKeys PROVE ~StaleRate(Bump(rate[k]))
  <2>1. now \in Nat /\ rate[k] \in RateRow \cup {NoRow}
    BY DEF TypeOK
  <2>2. Bump(rate[k]).updated = now
    BY <2>1 DEF Bump, RateRow
  <2>3. QED
    BY <2>1, <2>2, ClockAssumption DEF StaleRate
<1>4. QED
  BY <1>1, <1>2, <1>3 DEF RateMoves

LEMMA CommitRows ==
    ASSUME NEW STATE newCh, NEW STATE newRate, CommitWithCleanup(newCh, newRate)
    PROVE  \A i \in Intents : ch'[i] = NoRow \/ ch'[i] = newCh[i]
  BY DEF CommitWithCleanup

\* A transaction that refuses a call, or that only counts a check.
LEMMA RefusedCommitKeeps ==
    ASSUME TypeOK, TypeOK', PInv, now <= now', SameCodes, NEW STATE newCh, NEW keys,
           CommitWithCleanup(newCh, Bumped(keys)),
           \A i \in Intents : newCh[i] = NoRow \/ (ch[i] # NoRow /\ newCh[i].sends = ch[i].sends)
    PROVE  PInv'
<1>1. \A i \in Intents : RowKept(i)
  BY CommitRows DEF RowKept
<1>2. \A e \in Emails : RateMoves(<<"send_email", e>>)
  BY CommitMoves, SendKeyType
<1>3. QED
  BY <1>1, <1>2, NoCodeKeeps

\* A call that stores its code: the first of its intent, or at least the cooldown
\* after the last one and within EMAIL_OTP_MAX_SENDS.
LEMMA CodeKeeps ==
    ASSUME IInv, TypeOK', PInv, NEW r \in Requests, NEW i \in Intents, NEW e \in Emails, NEW p \in Ips,
           pc[r] = "new", StoresCode(r, i, e), Allowed(SendKeys(e, p)), now' = now,
           NEW STATE row, row \in Challenge,
           \/ CodesOf(i) = {} /\ row.sends = 1
           \/ ch[i] # NoRow /\ MayResend(ch[i]) /\ row.sends = ch[i].sends + 1,
           CommitWithCleanup([ch EXCEPT ![i] = row], Bumped(SendKeys(e, p)))
    PROVE  PInv'
<1> DEFINE new == [intent |-> i, email |-> e, at |-> now, checks |-> 0]
           k == <<"send_email", e>>
<1>1. TypeOK /\ code \in CodeType /\ code' \in CodeType /\ now \in Nat /\ ch \in ChType
  BY DEF IInv, TypeOK, CodeType, ChType
<1>2. ~Stored(r)
  BY DEF IInv, CallsAgree
<1>3. /\ code'[r] = new /\ code'[r] # NoRow /\ \A q \in Requests \ {r} : code'[q] = code[q]
  <2>1. code'[r] = new /\ \A q \in Requests \ {r} : code'[q] = code[q]
    BY <1>1 DEF StoresCode, CodeType
  <2>2. new \in Code
    BY <1>1 DEF Code
  <2>3. QED
    BY <2>1, <2>2, NullAssumption
<1>4. /\ CodesOf(i)' = CodesOf(i) \cup {r} /\ r \notin CodesOf(i)
      /\ \A j \in Intents \ {i} : CodesOf(j)' = CodesOf(j) /\ r \notin CodesOf(j)
  BY <1>2, <1>3 DEF CodesOf, Stored
<1>5. ASSUME NEW j \in Intents \ {i} PROVE PacedOK(j)'
  <2>1. \A q \in CodesOf(j) : code'[q] = code[q]
    BY <1>3, <1>4 DEF CodesOf
  <2>2. ch'[j] = NoRow \/ ch'[j] = ch[j]
    BY <1>1, CommitRows DEF ChType
  <2>3. PacedOK(j)
    BY DEF PInv
  <2>4. QED
    BY <1>4, <2>1, <2>2, <2>3 DEF PacedOK
<1>6. PacedOK(i)'
  <2>1. PacedOK(i)
    BY DEF PInv
  <2>2. /\ IsFiniteSet(CodesOf(i) \cup {r})
        /\ Cardinality(CodesOf(i) \cup {r}) = Cardinality(CodesOf(i)) + 1
        /\ Cardinality(CodesOf(i)) \in Nat
    BY <1>4, <2>1, FS_AddElement, FS_CardinalityType DEF PacedOK
  <2>3. row.sends \in 1..MaxSends /\ Cardinality(CodesOf(i)) + 1 = row.sends
    <3>1. CASE CodesOf(i) = {} /\ row.sends = 1
      BY <3>1, FS_EmptySet, LimitAssumption DEF Challenge
    <3>2. CASE ch[i] # NoRow /\ row.sends = ch[i].sends + 1
      BY <2>1, <3>2 DEF PacedOK, Challenge
    <3>3. QED
      BY <3>1, <3>2
  <2>4. ch'[i] = NoRow \/ ch'[i] = row
    <3>1. ch'[i] = NoRow \/ ch'[i] = [ch EXCEPT ![i] = row][i]
      BY CommitRows
    <3>2. QED
      BY <1>1, <3>1 DEF ChType
  <2>5. \A q \in CodesOf(i) : code'[q] = code[q] /\ code[q].at \in Nat /\ code[q].at + Cooldown <= now
    <3>1. \A q \in CodesOf(i) : code'[q] = code[q] /\ code[q].at \in Nat
      BY <1>1, <1>3, <1>4 DEF CodesOf, Stored, CodeType, Code
    <3>2. CASE CodesOf(i) = {}
      BY <3>2
    <3>3. CASE ch[i] # NoRow /\ MayResend(ch[i])
      <4>1. RowAgrees(i) /\ ch[i].lastSent \in Nat /\ ch[i].lastSent + Cooldown <= now
        BY <1>1, <3>3 DEF IInv, IntentOK, MayResend, ChType, Challenge
      <4>2. \A q \in CodesOf(i) : code[q].at <= ch[i].lastSent
        BY <4>1 DEF RowAgrees
      <4>3. QED
        BY <1>1, <3>1, <4>1, <4>2, ClockAssumption
    <3>4. QED
      BY <3>2, <3>3
  <2>6. Cardinality(CodesOf(i) \cup {r}) <= MaxSends
    BY <2>2, <2>3
  <2>7. \A q, s \in CodesOf(i) \cup {r} : q # s => \/ code'[q].at + Cooldown <= code'[s].at
                                                   \/ code'[s].at + Cooldown <= code'[q].at
    <3>1. \A q, s \in CodesOf(i) : q # s => \/ code'[q].at + Cooldown <= code'[s].at
                                            \/ code'[s].at + Cooldown <= code'[q].at
      BY <2>1, <2>5 DEF PacedOK
    <3>2. \A q \in CodesOf(i) : code'[q].at + Cooldown <= code'[r].at
      BY <1>3, <2>5
    <3>3. QED
      BY <3>1, <3>2
  <2>8. QED
    BY <1>4, <2>2, <2>3, <2>4, <2>6, <2>7 DEF PacedOK
<1>7. ASSUME NEW f \in Emails PROVE MailsOK(f)'
  <2>1. MailsOK(f) /\ \A l \in RateKeys : RateMoves(l)
    BY <1>1, CommitMoves DEF PInv
  <2>2. CASE f = e
    <3>1. k \in RateKeys /\ k \in SendKeys(e, p)
      BY SendKeyType DEF SendKeys
    <3>2. rate'[k] = Bump(rate[k])
      BY <1>1, <3>1, CommitMoves
    <3>3. Bump(rate[k]).count <= SendMax
      BY <3>1 DEF Allowed, SendMax
    <3>4. QED
      BY <1>1, <1>2, <2>1, <2>2, <3>2, <3>3, MailKeeps
  <2>3. CASE f # e
    <3>1. Mails(code', f) = Mails(code, f) /\ \A q \in Mails(code, f) : code'[q].at = code[q].at
      BY <1>2, <1>3, <2>3 DEF Mails, Stored
    <3>2. now <= now' /\ RateMoves(<<"send_email", f>>)
      BY <1>1, <2>1, SendKeyType
    <3>3. QED
      BY <1>1, <2>1, <3>1, <3>2, NoMailKeeps
  <2>4. QED
    BY <2>2, <2>3
<1>8. QED
  BY <1>5, <1>6, <1>7 DEF PInv

\* Counting a check and setting a token leave the other fields of a code and of a row.
LEMMA CheckedSame ==
    ASSUME TypeOK, NEW r \in Requests, CountsCheck(r), Stored(r)
    PROVE  SameCodes
<1>1. code[r] \in Code /\ code \in [Requests -> Code \cup {NoRow}]
  BY DEF TypeOK, Stored
<1>2. \A q \in Requests \ {r} : code'[q] = code[q]
  BY <1>1 DEF CountsCheck
<1>3. code'[r] = [code[r] EXCEPT !.checks = @ + 1]
  BY <1>1 DEF CountsCheck
<1>4. /\ code'[r].intent = code[r].intent /\ code'[r].email = code[r].email
      /\ code'[r].at = code[r].at /\ code'[r] \in Code
  BY <1>1, <1>3 DEF Code
<1>5. QED
  BY <1>1, <1>2, <1>4, NullAssumption DEF SameCodes

LEMMA CreatePaced ==
    ASSUME IInv, TypeOK', PInv, NEW r \in Requests, NEW i \in Intents, NEW e \in Emails, NEW p \in Ips,
           createChallenge(r, i, e, p)
    PROVE  PInv'
<1>1. pc[r] = "new" /\ FreshIntent(i) /\ now' = now /\ TypeOK /\ now \in Nat
  BY DEF createChallenge, IInv, TypeOK
<1>2. CASE CommitWithCleanup(ch, Bumped(SendKeys(e, p))) /\ Refuses(r)
  <2>1. SameCodes
    BY <1>2 DEF Refuses, SameCodes
  <2>2. QED
    BY <1>1, <1>2, <2>1, RefusedCommitKeeps
<1>3. CASE /\ Allowed(SendKeys(e, p))
           /\ CommitWithCleanup([ch EXCEPT ![i] = NewChallenge(r, e)], Bumped(SendKeys(e, p)))
           /\ StoresCode(r, i, e)
  <2>1. NewChallenge(r, e) \in Challenge /\ NewChallenge(r, e).sends = 1
    BY <1>1, ClockAssumption, LimitAssumption DEF NewChallenge, Challenge
  <2>2. CodesOf(i) = {}
    BY <1>1 DEF CodesOf, FreshIntent
  <2>3. QED
    BY <1>1, <1>3, <2>1, <2>2, CodeKeeps
<1>4. QED
  BY <1>2, <1>3 DEF createChallenge

LEMMA ResendPaced ==
    ASSUME IInv, TypeOK', PInv, NEW r \in Requests, NEW i \in Intents, NEW e \in Emails, NEW p \in Ips,
           resendChallenge(r, i, e, p)
    PROVE  PInv'
<1>1. pc[r] = "new" /\ TypeOK /\ now \in Nat
  BY DEF resendChallenge, IInv, TypeOK
<1>2. Refuses(r) => SameCodes
  BY DEF Refuses, SameCodes
<1>3. CASE Refuses(r) /\ UNCHANGED <<now, ch, rate>>
  <2>1. (\A j \in Intents : RowKept(j)) /\ \A f \in Emails : RateMoves(<<"send_email", f>>)
    BY <1>3 DEF RowKept, RateMoves
  <2>2. QED
    BY <1>1, <1>2, <1>3, <2>1, NoCodeKeeps
<1>4. CASE CommitWithCleanup(ch, Bumped(SendKeys(e, p))) /\ Refuses(r) /\ UNCHANGED now
  BY <1>1, <1>2, <1>4, RefusedCommitKeeps
<1>5. CASE /\ Row(i, e) /\ MayResend(ch[i]) /\ ClockPasses(ch[i].expires)
           /\ CommitWithCleanup(ch, Bumped(SendKeys(e, p))) /\ Refuses(r)
  <2>1. ch[i] \in Challenge
    BY <1>1, <1>5 DEF Row, TypeOK
  <2>2. now <= now'
    BY <1>1, <1>5, <2>1 DEF MayResend, ClockPasses, Challenge
  <2>3. QED
    BY <1>1, <1>2, <1>5, <2>2, RefusedCommitKeeps
<1>6. CASE /\ Row(i, e) /\ MayResend(ch[i]) /\ Allowed(SendKeys(e, p))
           /\ CommitWithCleanup([ch EXCEPT ![i] = Replaced(ch[i], r)], Bumped(SendKeys(e, p)))
           /\ StoresCode(r, i, e) /\ UNCHANGED now
  <2>1. ch[i] \in Challenge /\ ch[i] # NoRow
    BY <1>1, <1>6 DEF Row, TypeOK
  <2>2. ch[i].sends + 1 \in 1..MaxSends /\ now + TTL \in Nat /\ 0 \in 0..MaxAttempts
    BY <1>1, <1>6, <2>1, ClockAssumption, LimitAssumption DEF MayResend, Challenge
  <2>3. Replaced(ch[i], r) \in Challenge /\ Replaced(ch[i], r).sends = ch[i].sends + 1
    BY <1>1, <2>1, <2>2 DEF Replaced, Challenge
  <2>4. QED
    BY <1>1, <1>6, <2>1, <2>3, CodeKeeps
<1>7. QED
  BY <1>3, <1>4, <1>5, <1>6 DEF resendChallenge

LEMMA VerifyPaced ==
    ASSUME IInv, TypeOK', PInv, NEW i \in Intents, NEW e \in Emails, NEW p \in Ips,
           NEW guess \in Requests, NEW t \in Tokens, verifyChallenge(i, e, p, guess, t)
    PROVE  PInv'
<1>1. TypeOK /\ now \in Nat /\ ch \in ChType
  BY DEF IInv, TypeOK, ChType
<1>2. CASE CommitWithCleanup(ch, Bumped(VerifyKeys(e, p))) /\ UNCHANGED <<now, code>>
  <2>1. SameCodes
    BY <1>2 DEF SameCodes
  <2>2. QED
    BY <1>1, <1>2, <2>1, RefusedCommitKeeps
<1>3. ASSUME Row(i, e), CountsCheck(ch[i].otp), now <= now', NEW STATE row, row.sends = ch[i].sends,
             CommitWithCleanup([ch EXCEPT ![i] = row], Bumped(VerifyKeys(e, p)))
      PROVE  PInv'
  <2>1. ch[i] # NoRow /\ ch[i] \in Challenge /\ RowAgrees(i)
    BY <1>1, <1>3 DEF Row, ChType, IInv, IntentOK
  <2>2. SameCodes
    BY <1>1, <1>3, <2>1, CheckedSame DEF RowAgrees, Challenge
  <2>3. \A j \in Intents : LET new == [ch EXCEPT ![i] = row]
                           IN  new[j] = NoRow \/ (ch[j] # NoRow /\ new[j].sends = ch[j].sends)
    BY <1>1, <1>3, <2>1 DEF ChType
  <2>4. QED
    BY <1>1, <1>3, <2>2, <2>3, RefusedCommitKeeps
<1>4. ASSUME Row(i, e)
      PROVE  /\ [ch EXCEPT ![i] = Checked(@)] = [ch EXCEPT ![i] = Checked(ch[i])]
             /\ [ch EXCEPT ![i] = [Checked(@) EXCEPT !.token = t]]
                   = [ch EXCEPT ![i] = [Checked(ch[i]) EXCEPT !.token = t]]
             /\ Checked(ch[i]).sends = ch[i].sends
             /\ [Checked(ch[i]) EXCEPT !.token = t].sends = ch[i].sends
  <2>1. ch[i] \in Challenge
    BY <1>1, <1>4 DEF Row, ChType
  <2>2. QED
    BY <2>1 DEF Checked, Challenge
<1>5. CASE /\ Row(i, e) /\ CountsCheck(ch[i].otp) /\ UNCHANGED now
           /\ CommitWithCleanup([ch EXCEPT ![i] = Checked(@)], Bumped(VerifyKeys(e, p)))
  BY <1>1, <1>3, <1>4, <1>5
<1>6. CASE /\ Row(i, e) /\ CountsCheck(ch[i].otp) /\ UNCHANGED now
           /\ CommitWithCleanup([ch EXCEPT ![i] = [Checked(@) EXCEPT !.token = t]], Bumped(VerifyKeys(e, p)))
  <2> DEFINE row == [Checked(ch[i]) EXCEPT !.token = t]
  <2>1. row.sends = ch[i].sends /\ now <= now'
    BY <1>1, <1>4, <1>6
  <2>2. CommitWithCleanup([ch EXCEPT ![i] = row], Bumped(VerifyKeys(e, p)))
    BY <1>4, <1>6, Zenon
  <2> HIDE DEF row
  <2>3. QED
    BY <1>3, <1>6, <2>1, <2>2
<1>7. CASE /\ Row(i, e) /\ MayCheck(ch[i]) /\ CountsCheck(ch[i].otp) /\ ClockPasses(ch[i].expires)
           /\ CommitWithCleanup([ch EXCEPT ![i] = Checked(@)], Bumped(VerifyKeys(e, p)))
  <2>1. ch[i] \in Challenge
    BY <1>1, <1>7 DEF Row, ChType
  <2>2. now <= now'
    BY <1>1, <1>7, <2>1 DEF MayCheck, ClockPasses, Challenge
  <2>3. QED
    BY <1>1, <1>3, <1>4, <1>7, <2>2
<1>8. QED
  BY <1>2, <1>5, <1>6, <1>7 DEF verifyChallenge

\* The other steps store no code and count no call.
LEMMA OtherPaced ==
    ASSUME IInv, TypeOK', PInv, now <= now', UNCHANGED code,
           \A i \in Intents : RowKept(i),
           \A k \in RateKeys : rate'[k] = rate[k] \/ (rate'[k] = NoRow /\ StaleRate(rate[k]))
    PROVE  PInv'
<1>1. SameCodes
  BY DEF SameCodes
<1>2. \A e \in Emails : RateMoves(<<"send_email", e>>)
  <2>1. \A k \in RateKeys : RateMoves(k)
    BY DEF RateMoves
  <2>2. QED
    BY <2>1, SendKeyType
<1>3. QED
  BY <1>1, <1>2, NoCodeKeeps DEF IInv

LEMMA NextPaced ==
    ASSUME IInv, TypeOK', PInv, [Next]_vars
    PROVE  PInv'
<1>1. ASSUME NEW r \in Requests, NEW i \in Intents, NEW e \in Emails, NEW p \in Ips,
             createChallenge(r, i, e, p) \/ resendChallenge(r, i, e, p)
      PROVE  PInv'
  BY <1>1, CreatePaced, ResendPaced
<1>2. now \in Nat /\ ch \in ChType /\ rate \in RateType /\ code \in CodeType
  BY DEF IInv, TypeOK, ChType, RateType, CodeType
<1>3. ASSUME NEW r \in Requests, \/ requestUnavailable(r) \/ sendVerificationCode(r)
                                 \/ deleteUndeliveredChallenge(r)
      PROVE  PInv'
  <2>1. UNCHANGED <<now, code, rate>>
    BY <1>3 DEF requestUnavailable, Refuses, sendVerificationCode, deleteUndeliveredChallenge
  <2>2. \A i \in Intents : ch'[i] = NoRow \/ ch'[i] = ch[i]
    BY <1>2, <1>3 DEF requestUnavailable, sendVerificationCode, deleteUndeliveredChallenge, ChType
  <2>3. QED
    BY <1>2, <2>1, <2>2, OtherPaced DEF RowKept
<1>4. ASSUME NEW i \in Intents, NEW e \in Emails, NEW p \in Ips,
             NEW guess \in Requests, NEW t \in Tokens, verifyChallenge(i, e, p, guess, t)
      PROVE  PInv'
  BY <1>4, VerifyPaced
<1>5. ASSUME NEW i \in Intents, NEW e \in Emails, NEW t \in Tokens, consumeVerification(i, e, t)
      PROVE  PInv'
  <2>1. UNCHANGED <<now, code, rate>> /\ ch' = [ch EXCEPT ![i].consumedAt = now] /\ ch[i] # NoRow
    BY <1>5 DEF consumeVerification, Row
  <2>2. ch[i] \in Challenge
    BY <1>2, <2>1 DEF ChType
  <2>3. ch'[i].sends = ch[i].sends /\ \A j \in Intents \ {i} : ch'[j] = ch[j]
    BY <1>2, <2>1, <2>2 DEF ChType, Challenge
  <2>4. \A j \in Intents : RowKept(j)
    BY <2>1, <2>3 DEF RowKept
  <2>5. QED
    BY <1>2, <2>1, <2>4, OtherPaced
<1>6. CASE cleanupExpired
  <2>1. UNCHANGED <<now, code>> /\ CommitWithCleanup(ch, rate)
    BY <1>6 DEF cleanupExpired
  <2>2. /\ \A i \in Intents : ch'[i] = NoRow \/ ch'[i] = ch[i]
        /\ \A k \in RateKeys : rate'[k] = rate[k] \/ (rate'[k] = NoRow /\ StaleRate(rate[k]))
    BY <2>1 DEF CommitWithCleanup
  <2>3. QED
    BY <1>2, <2>1, <2>2, OtherPaced DEF RowKept
<1>7. CASE Tick \/ UNCHANGED vars
  <2>1. UNCHANGED <<ch, rate, code>> /\ now <= now'
    BY <1>2, <1>7 DEF Tick, vars
  <2>2. QED
    BY <2>1, OtherPaced DEF RowKept
<1>8. QED
  BY <1>1, <1>3, <1>4, <1>5, <1>6, <1>7 DEF Next

LEMMA InitPaced == Init => PInv
<1> SUFFICES ASSUME Init PROVE PInv
  OBVIOUS
<1>1. ASSUME NEW i \in Intents PROVE PacedOK(i)
  <2>1. CodesOf(i) = {}
    BY DEF Init, CodesOf, Stored
  <2>2. QED
    BY <2>1, FS_EmptySet, LimitAssumption DEF PacedOK, Init
<1>2. ASSUME NEW e \in Emails PROVE MailsOK(e)
  <2>1. Mails(code, e) = {}
    BY DEF Init, Mails
  <2>2. \A from, until : Within(code, e, from, until) = {}
    BY <2>1 DEF Within
  <2>3. rate[<<"send_email", e>>] = NoRow
    BY SendKeyType DEF Init
  <2>4. Cardinality({}) = 0 /\ IsFiniteSet({})
    BY FS_EmptySet
  <2>5. SpansOK(code, e, now)
    BY <2>2, <2>4, Limits DEF SpansOK
  <2>6. WindowOK(code, e, rate[<<"send_email", e>>], now)
    BY <2>1, <2>3 DEF WindowOK
  <2>7. QED
    BY <2>1, <2>4, <2>5, <2>6 DEF MailsOK
<1>3. QED
  BY <1>1, <1>2 DEF PInv

LEMMA Paced == Spec => []PInv
<1>1. IInv /\ TypeOK' /\ PInv /\ [Next]_vars => PInv'
  BY NextPaced
<1>2. QED
  BY <1>1, InitPaced, Inductive, TypeCorrect, PTL DEF Spec

\* An intent mails at most EMAIL_OTP_MAX_SENDS codes, any two of them at least the
\* cooldown apart, however resends race and although a failed delivery deletes
\* the row that counts them (resendChallenge, deleteUndeliveredChallenge).
THEOREM DeliveriesArePaced == Spec => []DeliveriesPaced
<1>1. PInv => DeliveriesPaced
  BY DEF PInv, PacedOK, DeliveriesPaced
<1>2. QED
  BY <1>1, Paced, PTL

\* In no hour does an address get as many codes as two windows would allow, under
\* however many intents, and whatever the cleanup removes (applyRateLimits).
THEOREM SendWindowsAreBounded == Spec => []SendWindowBounded
<1>1. ASSUME PInv PROVE SendWindowBounded
  <2>1. ASSUME NEW e \in Emails, NEW t \in 0..now
        PROVE  Cardinality({r \in Requests : /\ Stored(r) /\ code[r].email = e
                                             /\ t <= code[r].at /\ code[r].at < t + Hour})
                  < 2 * RateMax["send_email"]
    <3>1. {r \in Requests : /\ Stored(r) /\ code[r].email = e
                            /\ t <= code[r].at /\ code[r].at < t + Hour} = Within(code, e, t, t + Hour)
      BY DEF Within, Mails, Stored
    <3>2. Cardinality(Within(code, e, t, t + Hour)) < 2 * SendMax
      BY <1>1 DEF PInv, MailsOK, SpansOK
    <3>3. QED
      BY <3>1, <3>2 DEF SendMax
  <2>2. QED
    BY <2>1 DEF SendWindowBounded
<1>2. QED
  BY <1>1, Paced, PTL

=============================================================================
