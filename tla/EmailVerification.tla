------------------------- MODULE EmailVerification -------------------------
(***************************************************************************)
(* The email one-time-code service of the public report form: the          *)
(* PostgreSQL store (services/emailVerificationStore.ts), the service that *)
(* sends the code only after the row is committed                          *)
(* (services/emailVerification.service.ts) and the periodic cleanup        *)
(* (index.ts).                                                             *)
(*                                                                         *)
(* One store transaction is one action: each one holds the row lock of the *)
(* challenge (SELECT ... FOR UPDATE, or the conditional UPDATE itself) and *)
(* of its rate rows until COMMIT, and the clean-up skips locked rows.      *)
(* What is NOT atomic in the code is not atomic here: the provider call    *)
(* and the compensating delete are later steps, a process may die between  *)
(* them, and the database clock may pass expires_at inside a transaction.  *)
(*                                                                         *)
(* A code (and its digest) is identified with the request that drew it.    *)
(***************************************************************************)
EXTENDS Integers, FiniteSets

CONSTANTS
    Intents,        \* intent UUIDs
    Emails,         \* normalised addresses (their keyed digests)
    Ips,            \* client addresses (their keyed digests)
    Requests,       \* calls of requestCode; each draws its own code
    Tokens,         \* submission capabilities createVerificationToken may draw
    NoToken,        \* verification_token_digest IS NULL
    NoRow,          \* the table has no such row
    TTL,            \* EMAIL_OTP_TTL_SECONDS
    Cooldown,       \* EMAIL_OTP_RESEND_COOLDOWN_SECONDS
    Hour,           \* rate window, and how long a dead challenge is kept
    RateRetention,  \* how long an idle rate row is kept (48 hours)
    MaxSends,       \* EMAIL_OTP_MAX_SENDS
    MaxAttempts,    \* EMAIL_OTP_MAX_ATTEMPTS
    RateMax,        \* [scope -> maxAttempts of that scope]
    CountCap,       \* where LEAST(...) saturates the rate counter
    MaxTime         \* bound: the last instant of the database clock

VARIABLES
    now,            \* clock_timestamp()
    ch,             \* email_verification_challenges, by intent
    rate,           \* email_verification_rate_limits, by <<scope, key>>
    pc,             \* where each requestCode call is
    code,           \* history: the code each call stored, NoRow if none
    grants,         \* history: capabilities answered to a client
    consumptions    \* history: successful consumeVerification per intent

vars == <<now, ch, rate, pc, code, grants, consumptions>>

Never == -1         \* a NULL timestamp

EmailScopes == {"send_email", "verify_email"}
IpScopes    == {"send_ip", "verify_ip"}
Scopes      == EmailScopes \cup IpScopes
RateKeys    == (EmailScopes \X Emails) \cup (IpScopes \X Ips)
SendKeys(e, p)   == {<<"send_email", e>>, <<"send_ip", p>>}
VerifyKeys(e, p) == {<<"verify_email", e>>, <<"verify_ip", p>>}

ASSUME ClockAssumption ==
    /\ TTL \in Nat \ {0} /\ Cooldown \in Nat \ {0} /\ Hour \in Nat
    /\ RateRetention \in Nat /\ MaxTime \in Nat
    /\ TTL <= Hour /\ Hour <= RateRetention
ASSUME LimitAssumption ==
    /\ MaxSends \in Nat \ {0} /\ MaxAttempts \in Nat \ {0}
    /\ RateMax \in [Scopes -> Nat] /\ RateMax["send_email"] > 0
    /\ CountCap \in Nat /\ \A s \in Scopes : RateMax[s] < CountCap

\* verified_at and verification_token_digest are set together (and the table
\* CHECKs that both are NULL or neither is), so the token stands for both.
Challenge ==
    [email: Emails, otp: Requests, token: Tokens \cup {NoToken},
     attempts: 0..MaxAttempts, sends: 1..MaxSends,
     lastSent: Nat, expires: Nat, consumedAt: Nat \cup {Never}]
RateRow == [start: Nat, count: Nat \ {0}, updated: Nat]

Code  == [intent: Intents, email: Emails, at: Nat, checks: Nat]
Grant == [intent: Intents, token: Tokens, until: Nat]

ASSUME NullAssumption ==
    /\ NoRow \notin Challenge \cup RateRow \cup Code
    /\ NoToken \notin Tokens

(***************************************************************************)
(* A requestCode call is "new", then "stored" once its transaction         *)
(* commits, then "sent" when the provider accepts the mail, or             *)
(* "undelivered" when it throws and "failed" after the compensating        *)
(* delete.  A "rejected" call stored no code; a "lost" one belongs to a    *)
(* process (or a connection) that died after the commit.                   *)
(***************************************************************************)
PC == {"new", "rejected", "stored", "sent", "undelivered", "failed", "lost"}

Stored(r)      == code[r] # NoRow
Verified(c)    == c.token # NoToken
Consumed(c)    == c.consumedAt # Never
Row(i, e)      == ch[i] # NoRow /\ ch[i].email = e
FreshIntent(i) == \A r \in Requests : Stored(r) => code[r].intent # i

TypeOK ==
    /\ now \in Nat
    /\ ch \in [Intents -> Challenge \cup {NoRow}]
    /\ rate \in [RateKeys -> RateRow \cup {NoRow}]
    /\ pc \in [Requests -> PC]
    /\ code \in [Requests -> Code \cup {NoRow}]
    /\ grants \in SUBSET Grant
    /\ consumptions \in [Intents -> Nat]

Init ==
    /\ now = 0
    /\ ch = [i \in Intents |-> NoRow]
    /\ rate = [k \in RateKeys |-> NoRow]
    /\ pc = [r \in Requests |-> "new"]
    /\ code = [r \in Requests |-> NoRow]
    /\ grants = {}
    /\ consumptions = [i \in Intents |-> 0]

-----------------------------------------------------------------------------
(* Rate limits: one fixed window per <<scope, key>>, counted before it is  *)
(* decided whether the call goes on, so that a refused call counts too.    *)

\* Mutant of WindowOver.
WindowOverAtOnce(row) == row.start < now

WindowOver(row) == row.start <= now - Hour
Bump(row) ==
    IF row = NoRow \/ WindowOver(row)
    THEN [start |-> now, count |-> 1, updated |-> now]
    ELSE [row EXCEPT !.count = IF @ < CountCap THEN @ + 1 ELSE @, !.updated = now]

Bumped(keys)  == [k \in RateKeys |-> IF k \in keys THEN Bump(rate[k]) ELSE rate[k]]
Allowed(keys) == \A k \in keys : Bump(rate[k]).count <= RateMax[k[1]]

-----------------------------------------------------------------------------
(* Cleanup.  A batch takes at most 100 rows, ten batches, one second, and  *)
(* skips rows other transactions hold: it deletes some subset of the stale *)
(* rows.                                                                   *)

\* Mutant of StaleChallenge.
StaleOnlyConsumed(c) == c # NoRow /\ Consumed(c) /\ c.consumedAt < now - Hour

StaleChallenge(c) ==
    /\ c # NoRow
    /\ c.expires < now - Hour \/ (Consumed(c) /\ c.consumedAt < now - Hour)
StaleRate(row) == row # NoRow /\ row.updated < now - RateRetention

\* COMMIT of a transaction that has written newCh and newRate and ends with
\* cleanupTemporaryState.
CommitWithCleanup(newCh, newRate) ==
    \E goneCh \in SUBSET {i \in Intents : StaleChallenge(newCh[i])},
       goneRate \in SUBSET {k \in RateKeys : StaleRate(newRate[k])} :
        /\ ch' = [i \in Intents |-> IF i \in goneCh THEN NoRow ELSE newCh[i]]
        /\ rate' = [k \in RateKeys |-> IF k \in goneRate THEN NoRow ELSE newRate[k]]

\* The database clock reaches the instant a challenge expires while a
\* transaction that found it unexpired is still running.
ClockPasses(t) == t <= MaxTime /\ now' = t

-----------------------------------------------------------------------------
(* requestCode without an intent: createChallenge under a fresh intent.    *)

NewChallenge(r, e) ==
    [email |-> e, otp |-> r, token |-> NoToken, attempts |-> 0, sends |-> 1,
     lastSent |-> now, expires |-> now + TTL, consumedAt |-> Never]

\* The call's transaction has committed a row that holds its code.
StoresCode(r, i, e) ==
    /\ pc' = [pc EXCEPT ![r] = "stored"]
    /\ code' = [code EXCEPT ![r] = [intent |-> i, email |-> e, at |-> now, checks |-> 0]]

Refuses(r) == pc' = [pc EXCEPT ![r] = "rejected"] /\ UNCHANGED code

createChallenge(r, i, e, p) ==
    /\ pc[r] = "new"
    /\ FreshIntent(i)
    /\ \/ /\ ~Allowed(SendKeys(e, p))
          /\ CommitWithCleanup(ch, Bumped(SendKeys(e, p)))
          /\ Refuses(r)
       \/ /\ Allowed(SendKeys(e, p))
          /\ CommitWithCleanup([ch EXCEPT ![i] = NewChallenge(r, e)], Bumped(SendKeys(e, p)))
          /\ StoresCode(r, i, e)
    /\ UNCHANGED <<now, grants, consumptions>>

(* requestCode with the intent of an earlier call: resendChallenge.        *)

\* Mutants of MayResend and Replaced.
MayResendAtOnce(c) ==
    /\ c.expires > now /\ ~Verified(c) /\ ~Consumed(c)
    /\ c.sends < MaxSends
ReplacedKeepsCode(c, r) ==
    [c EXCEPT !.attempts = 0, !.sends = @ + 1, !.lastSent = now, !.expires = now + TTL]

MayResend(c) ==
    /\ c.expires > now /\ ~Verified(c) /\ ~Consumed(c)
    /\ c.sends < MaxSends
    /\ c.lastSent + Cooldown <= now

Replaced(c, r) ==
    [c EXCEPT !.otp = r, !.attempts = 0, !.sends = @ + 1, !.lastSent = now,
              !.expires = now + TTL]

resendChallenge(r, i, e, p) ==
    /\ pc[r] = "new"
    /\ \/ /\ ~(Row(i, e) /\ MayResend(ch[i]))
          /\ Refuses(r)
          /\ UNCHANGED <<now, ch, rate>>
       \/ /\ Row(i, e) /\ MayResend(ch[i])
          /\ ~Allowed(SendKeys(e, p))
          /\ CommitWithCleanup(ch, Bumped(SendKeys(e, p)))
          /\ Refuses(r)
          /\ UNCHANGED now
       \/ /\ Row(i, e) /\ MayResend(ch[i])
          /\ Allowed(SendKeys(e, p))
          /\ CommitWithCleanup([ch EXCEPT ![i] = Replaced(ch[i], r)], Bumped(SendKeys(e, p)))
          /\ StoresCode(r, i, e)
          /\ UNCHANGED now
       \/ /\ Row(i, e) /\ MayResend(ch[i])
          /\ Allowed(SendKeys(e, p))
          /\ ClockPasses(ch[i].expires)
          /\ CommitWithCleanup(ch, Bumped(SendKeys(e, p)))
          /\ Refuses(r)
    /\ UNCHANGED <<grants, consumptions>>

\* An invalid address, or a database error before COMMIT: nothing is kept.
requestUnavailable(r) ==
    /\ pc[r] = "new"
    /\ Refuses(r)
    /\ UNCHANGED <<now, ch, rate, grants, consumptions>>

-----------------------------------------------------------------------------
(* After the commit: the provider call, and the delete when it throws.     *)

sendVerificationCode(r) ==
    /\ pc[r] = "stored"
    /\ \E outcome \in {"sent", "undelivered", "lost"} :
          pc' = [pc EXCEPT ![r] = outcome]
    /\ UNCHANGED <<now, ch, rate, code, grants, consumptions>>

\* Mutants of Undelivered.
UndeliveredAnyCode(c, r) == ~Verified(c) /\ ~Consumed(c)
UndeliveredEvenVerified(c, r) == c.otp = r

Undelivered(c, r) == c.otp = r /\ ~Verified(c) /\ ~Consumed(c)

\* The delete may itself fail; its error is swallowed.
deleteUndeliveredChallenge(r) ==
    /\ pc[r] = "undelivered"
    /\ LET i == code[r].intent
       IN  \/ /\ ch[i] # NoRow
              /\ Undelivered(ch[i], r)
              /\ ch' = [ch EXCEPT ![i] = NoRow]
           \/ UNCHANGED ch
    /\ pc' = [pc EXCEPT ![r] = "failed"]
    /\ UNCHANGED <<now, rate, code, grants, consumptions>>

-----------------------------------------------------------------------------
(* verifyCode: every admitted check is counted before the code is compared *)

MayCheck(c) ==
    /\ ~Verified(c) /\ ~Consumed(c)
    /\ c.expires > now
    /\ c.attempts < MaxAttempts

Checked(c) == [c EXCEPT !.attempts = @ + 1]
CountsCheck(r) == code' = [code EXCEPT ![r].checks = @ + 1]

verifyChallenge(i, e, p, guess, t) ==
    /\ \A g \in grants : g.token # t
    /\ \/ /\ ~(Allowed(VerifyKeys(e, p)) /\ Row(i, e) /\ MayCheck(ch[i]))
          /\ CommitWithCleanup(ch, Bumped(VerifyKeys(e, p)))
          /\ UNCHANGED <<now, code, grants>>
       \/ /\ Allowed(VerifyKeys(e, p)) /\ Row(i, e) /\ MayCheck(ch[i])
          /\ guess # ch[i].otp
          /\ CommitWithCleanup([ch EXCEPT ![i] = Checked(@)], Bumped(VerifyKeys(e, p)))
          /\ CountsCheck(ch[i].otp)
          /\ UNCHANGED <<now, grants>>
       \/ /\ Allowed(VerifyKeys(e, p)) /\ Row(i, e) /\ MayCheck(ch[i])
          /\ guess = ch[i].otp
          /\ CommitWithCleanup([ch EXCEPT ![i] = [Checked(@) EXCEPT !.token = t]],
                               Bumped(VerifyKeys(e, p)))
          /\ CountsCheck(ch[i].otp)
          /\ grants' = grants \cup {[intent |-> i, token |-> t, until |-> ch[i].expires]}
          /\ UNCHANGED now
       \/ /\ Allowed(VerifyKeys(e, p)) /\ Row(i, e) /\ MayCheck(ch[i])
          /\ guess = ch[i].otp
          /\ ClockPasses(ch[i].expires)
          /\ CommitWithCleanup([ch EXCEPT ![i] = Checked(@)], Bumped(VerifyKeys(e, p)))
          /\ CountsCheck(ch[i].otp)
          /\ UNCHANGED grants
    /\ UNCHANGED <<pc, consumptions>>

-----------------------------------------------------------------------------
(* consumeVerification: one conditional UPDATE.                            *)

\* Mutant of MayConsume.
MayConsumeAgain(c, t) == c.token = t /\ Verified(c) /\ c.expires > now

MayConsume(c, t) == c.token = t /\ Verified(c) /\ ~Consumed(c) /\ c.expires > now

consumeVerification(i, e, t) ==
    /\ Row(i, e) /\ MayConsume(ch[i], t)
    /\ ch' = [ch EXCEPT ![i].consumedAt = now]
    /\ consumptions' = [consumptions EXCEPT ![i] = @ + 1]
    /\ UNCHANGED <<now, rate, pc, code, grants>>

\* The periodic run of index.ts; a run that deletes nothing is a stutter.
cleanupExpired ==
    /\ CommitWithCleanup(ch, rate)
    /\ <<ch, rate>>' # <<ch, rate>>
    /\ UNCHANGED <<now, pc, code, grants, consumptions>>

Tick ==
    /\ now < MaxTime
    /\ now' = now + 1
    /\ UNCHANGED <<ch, rate, pc, code, grants, consumptions>>

Next ==
    \/ \E r \in Requests, i \in Intents, e \in Emails, p \in Ips :
          createChallenge(r, i, e, p) \/ resendChallenge(r, i, e, p)
    \/ \E r \in Requests :
          \/ requestUnavailable(r)
          \/ sendVerificationCode(r)
          \/ deleteUndeliveredChallenge(r)
    \/ \E i \in Intents, e \in Emails, p \in Ips, guess \in Requests, t \in Tokens :
          verifyChallenge(i, e, p, guess, t)
    \/ \E i \in Intents, e \in Emails, t \in Tokens : consumeVerification(i, e, t)
    \/ cleanupExpired
    \/ Tick

Spec == Init /\ [][Next]_vars

\* setInterval keeps running the cleanup for as long as the process lives.
FairSpec == Spec /\ WF_vars(cleanupExpired)

-----------------------------------------------------------------------------
(* Properties.                                                             *)

\* However checks, resends, failed deliveries and clean-ups interleave, one
\* code is compared with a guess at most EMAIL_OTP_MAX_ATTEMPTS times:
\* resendChallenge resets attempt_count, and only together with the code.
CodeChecksBounded == \A r \in Requests : Stored(r) => code[r].checks <= MaxAttempts

\* The checks of a code stay within the limit, and attempt_count and send_count
\* within the CHECKs of their table, so that no UPDATE of emailVerificationStore.ts
\* can fail on them, also when checks, resends and failed deliveries race.
ChecksSound == TypeOK /\ CodeChecksBounded

CodesOf(i) == {r \in Requests : Stored(r) /\ code[r].intent = i}

\* An intent mails at most EMAIL_OTP_MAX_SENDS codes, any two of them at
\* least EMAIL_OTP_RESEND_COOLDOWN_SECONDS apart, also when resends race and
\* when a failed delivery deletes the row that holds the counters.
DeliveriesPaced ==
    \A i \in Intents :
        /\ Cardinality(CodesOf(i)) <= MaxSends
        /\ \A q, r \in CodesOf(i) :
              q # r => \/ code[q].at + Cooldown <= code[r].at
                       \/ code[r].at + Cooldown <= code[q].at

\* Two fixed windows of the send_email scope may be straddled, never more: a
\* window starts with a send, so in no span of one hour does an address get as
\* much as twice its limit, whoever asks, under however many intents, and
\* whatever the clean-up removes.
SendWindowBounded ==
    \A e \in Emails, t \in 0..now :
        Cardinality({r \in Requests : /\ Stored(r) /\ code[r].email = e
                                      /\ t <= code[r].at /\ code[r].at < t + Hour})
            < 2 * RateMax["send_email"]

\* One verified intent authorises at most one submission
\* (consumeVerification), whatever is retried or cleaned up.
SingleUse == \A i \in Intents : consumptions[i] <= 1

\* The capability verifyCode answered, with its expiresInSeconds, stays good
\* until then or until it is used: no late delivery failure, resend, second
\* verification or clean-up removes or replaces it.
GrantHonoured ==
    \A g \in grants :
        g.until > now /\ consumptions[g.intent] = 0
            => /\ ch[g.intent] # NoRow
               /\ MayConsume(ch[g.intent], g.token)
               /\ ch[g.intent].expires = g.until

Superseded(r) ==
    \E q \in CodesOf(code[r].intent) : code[q].at > code[r].at

\* A code whose mail the provider accepted ('sent', expiresInSeconds) is the
\* one its challenge holds until it expires or a later resend replaces it: the
\* compensating delete of another call never takes it away.
SentCodeUsable ==
    \A r \in Requests :
        pc[r] = "sent" /\ now < code[r].at + TTL /\ ~Superseded(r)
            => /\ ch[code[r].intent] # NoRow
               /\ ch[code[r].intent].otp = r
               /\ ch[code[r].intent].expires = code[r].at + TTL

\* A challenge an hour past its expiry does not stay in the table: the
\* periodic clean-up deletes it, consumed or not.
ExpiredEventuallyDeleted ==
    \A i \in Intents :
        (ch[i] # NoRow /\ ch[i].expires + Hour < now) ~> ch[i] = NoRow

=============================================================================
