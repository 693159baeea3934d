--------------------------- MODULE AddressIpLimiter ---------------------------
(***************************************************************************)
(* The token buckets that limit what one address may ask of the address    *)
(* provider (security/addressIpLimiter.ts).  consume runs to its end.      *)
(*                                                                         *)
(* One tick of the clock refills one unit of a bucket; Refill units are a  *)
(* token.  The clock is Date.now(): time is what it says.                  *)
(***************************************************************************)
EXTENDS Integers, FiniteSets

CONSTANTS
    Clients,                  \* normalised addresses
    burst, Refill, maxKeys, idleTtl,
    Second,                   \* ticks per second of Retry-After
    MaxTime                   \* bound: ticks

Full == burst * Refill

ValidSettings == burst \in Nat \ {0} /\ Refill \in Nat \ {0} /\ maxKeys \in Nat \ {0} /\ idleTtl \in Nat \ {0}

ASSUME LimiterAssumption ==
    ValidSettings /\ Second \in Nat \ {0} /\ MaxTime \in Nat

\* An idle bucket is full when it is dropped: 120 s against 20 s by default,
\* which the configuration does not enforce.
FullWhenIdle == idleTtl >= Full

VARIABLES
    now,
    keys,                              \* buckets: those with a bucket,
    units, updatedAt, lastSeenAt,      \* and its fields
    outcome,                           \* of each client's last request
    retryAt,                           \* history: when it was told to come back
    ideal                              \* history: what a bucket that is never dropped holds

buckets == <<keys, units, updatedAt, lastSeenAt>>
vars    == <<now, buckets, outcome, retryAt, ideal>>

TypeOK ==
    /\ now \in Nat /\ keys \in SUBSET Clients
    /\ units \in [Clients -> 0..Full]
    /\ updatedAt \in [Clients -> 0..now] /\ lastSeenAt \in [Clients -> 0..now]
    /\ outcome \in [Clients -> {"none", "allowed", "rate_limited", "limiter_capacity"}]
    /\ retryAt \in [Clients -> Nat]
    /\ ideal \in [Clients -> Int]

Init ==
    /\ now = 0 /\ keys = {}
    /\ units = [c \in Clients |-> 0] /\ updatedAt = [c \in Clients |-> 0] /\ lastSeenAt = [c \in Clients |-> 0]
    /\ outcome = [c \in Clients |-> "none"] /\ retryAt = [c \in Clients |-> 0]
    /\ ideal = [c \in Clients |-> Full]

-----------------------------------------------------------------------------

AtMost(n, max) == IF n <= max THEN n ELSE max

\* Mutant of Expired.
ExpiredUsed(d) == now - updatedAt[d] >= Refill

Expired(d) == now - lastSeenAt[d] >= idleTtl

\* A new client first sweeps the buckets nobody used for long.
Kept(c) == IF c \in keys THEN keys ELSE {d \in keys : ~Expired(d)}

Refilled(c) == IF c \in keys THEN AtMost(units[c] + (now - updatedAt[c]), Full) ELSE Full

\* Mutant of RetryAfter.
RetryAfterFloor(u) == Second * (IF Refill - u < Second THEN 1 ELSE (Refill - u) \div Second)

\* Rounded up to seconds.
RetryAfter(u) == Second * ((Refill - u + Second - 1) \div Second)

Capacity(c) == c \notin keys /\ Cardinality(Kept(c)) >= maxKeys

refuse(c) ==
    /\ Capacity(c)
    /\ keys' = Kept(c) /\ outcome' = [outcome EXCEPT ![c] = "limiter_capacity"]
    /\ UNCHANGED <<now, units, updatedAt, lastSeenAt, retryAt, ideal>>

serve(c) ==
    /\ ~Capacity(c)
    /\ keys' = Kept(c) \cup {c}
    /\ updatedAt' = [updatedAt EXCEPT ![c] = now] /\ lastSeenAt' = [lastSeenAt EXCEPT ![c] = now]
    /\ IF Refilled(c) < Refill
       THEN /\ units' = [units EXCEPT ![c] = Refilled(c)]
            /\ outcome' = [outcome EXCEPT ![c] = "rate_limited"]
            /\ retryAt' = [retryAt EXCEPT ![c] = now + RetryAfter(Refilled(c))]
            /\ UNCHANGED ideal
       ELSE /\ units' = [units EXCEPT ![c] = Refilled(c) - Refill]
            /\ outcome' = [outcome EXCEPT ![c] = "allowed"]
            /\ ideal' = [ideal EXCEPT ![c] = @ - Refill]
            /\ UNCHANGED retryAt
    /\ UNCHANGED now

consume(c) == refuse(c) \/ serve(c)

Tick ==
    /\ now < MaxTime /\ now' = now + 1
    /\ ideal' = [c \in Clients |-> AtMost(ideal[c] + 1, Full)]
    /\ UNCHANGED <<buckets, outcome, retryAt>>

Next == Tick \/ \E c \in Clients : consume(c)

Spec == Init /\ [][Next]_vars

-----------------------------------------------------------------------------
(* Properties.                                                             *)

\* The table never outgrows its limit, however buckets are dropped.
KeysBounded == Cardinality(keys) <= maxKeys

\* Dropping idle buckets and creating them anew takes nobody a token, and gives
\* nobody one if what is idle is full: then the limiter answers as one that keeps
\* every bucket for ever.
LimiterExact ==
    \A c \in Clients : /\ ideal[c] <= Refilled(c)
                       /\ FullWhenIdle => ideal[c] = Refilled(c)

\* A client that waits as long as it was told is not sent away again for its rate.
RetryHonest ==
    [][ \A c \in Clients :
          outcome[c] = "rate_limited" /\ now >= retryAt[c] => retryAt'[c] = retryAt[c] ]_vars

\* The table of buckets keeps its types and its limit, and evicting idle buckets
\* takes no token and, with an idleTtl as long as filling one takes, gives none
\* (addressIpLimiter.ts, consume).
LimiterSound ==
    /\ TypeOK
    /\ KeysBounded
    /\ LimiterExact

=============================================================================
