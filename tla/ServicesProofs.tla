---------------------------- MODULE ServicesProofs ----------------------------
(***************************************************************************)
(* The services of the backend, for any number of processes, names, tabs,  *)
(* exports and rows: what MCServices checks of them on small instances.    *)
(***************************************************************************)
EXTENDS MCServices, SequenceTheorems, FiniteSetTheorems, TLAPS

-----------------------------------------------------------------------------
(* The limiter, for any clients, burst, rate, table size and clock: the     *)
(* table stays within its limit, and a limiter that drops idle buckets      *)
(* gives every client exactly the tokens of one that never does.            *)

\* What LimiterExact needs to be inductive: a bucket was last refilled when it
\* was last seen, so an idle one has had the time to fill.
Exact(c) == ideal[c] <= Refilled(c) /\ (FullWhenIdle => ideal[c] = Refilled(c))

LimiterInv ==
    /\ TypeOK /\ \A c \in Clients : Exact(c)
    /\ updatedAt = lastSeenAt

LEMMA FullNat == Full \in Nat
BY LimiterAssumption DEF Full, ValidSettings

\* Dropping a bucket that expired does not change what its client has.
LEMMA DroppedIsFull ==
    ASSUME FullWhenIdle, LimiterInv, NEW c \in Clients, NEW d \in keys, d \notin Kept(c)
    PROVE  Refilled(d) = Full
<1>1. d \in Clients /\ c \notin keys /\ Expired(d)  BY DEF Kept, LimiterInv, TypeOK
<1>2. now \in Nat /\ updatedAt[d] \in 0..now /\ units[d] \in 0..Full /\ updatedAt[d] = lastSeenAt[d]
      BY <1>1 DEF LimiterInv, TypeOK
<1>3. now - updatedAt[d] >= Full
      BY <1>1, <1>2, LimiterAssumption, FullNat DEF Expired, ValidSettings, FullWhenIdle
<1>4. QED  BY <1>2, <1>3, FullNat DEF Refilled, AtMost

LEMMA RefilledType ==
    ASSUME LimiterInv, NEW c \in Clients
    PROVE  Refilled(c) \in 0..Full
<1>1. now \in Nat /\ updatedAt[c] \in 0..now /\ units[c] \in 0..Full  BY DEF LimiterInv, TypeOK
<1>2. QED  BY <1>1, FullNat DEF Refilled, AtMost

LEMMA LimiterInit == Init => LimiterInv
<1> SUFFICES ASSUME Init PROVE LimiterInv  OBVIOUS
<1>1. TypeOK  BY FullNat, LimiterAssumption DEF Init, TypeOK, ValidSettings
<1>2. \A c \in Clients : Exact(c)  BY FullNat DEF Init, Exact, Refilled
<1>3. QED  BY <1>1, <1>2 DEF Init, LimiterInv

\* Time passes by one, on the clock: every bucket gains what the ideal one does.
LEMMA LimiterClock ==
    ASSUME LimiterInv, now' = now + 1, UNCHANGED <<buckets, outcome, retryAt>>,
           ideal' = [c \in Clients |-> AtMost(ideal[c] + 1, Full)]
    PROVE  LimiterInv'
<1> USE FullNat DEF LimiterInv
<1>1. TypeOK'
  <2>1. now \in Nat /\ now' \in Nat  BY DEF TypeOK
  <2>2. updatedAt' \in [Clients -> 0..now'] /\ lastSeenAt' \in [Clients -> 0..now']
        BY <2>1 DEF TypeOK, buckets
  <2>3. \A c \in Clients : AtMost(ideal[c] + 1, Full) \in Int  BY DEF TypeOK, AtMost
  <2>4. QED  BY <2>1, <2>2, <2>3 DEF TypeOK, buckets
<1>2. ASSUME NEW c \in Clients PROVE Exact(c)'
  <2>1. Exact(c) /\ ideal[c] \in Int /\ ideal'[c] = AtMost(ideal[c] + 1, Full)  BY DEF TypeOK
  <2>2. now \in Nat /\ updatedAt[c] \in 0..now /\ units[c] \in 0..Full  BY DEF TypeOK
  <2>3. keys' = keys /\ units' = units /\ updatedAt' = updatedAt  BY DEF buckets
  <2>4. QED  BY <2>1, <2>2, <2>3 DEF Exact, FullWhenIdle, Refilled, AtMost
<1>3. QED  BY <1>1, <1>2 DEF buckets

LEMMA LimiterRefuse ==
    ASSUME LimiterInv, NEW c \in Clients, refuse(c)
    PROVE  LimiterInv'
<1>1. Kept(c) \subseteq keys  BY DEF Kept
<1>2. TypeOK'  BY <1>1 DEF refuse, LimiterInv, TypeOK
<1>3. ASSUME NEW d \in Clients PROVE Exact(d)'
  <2>1. Exact(d) /\ ideal'[d] = ideal[d] /\ ideal[d] \in Int /\ Refilled(d) \in 0..Full
        BY RefilledType DEF refuse, LimiterInv, TypeOK
  <2>2. CASE d \in keys /\ d \notin Kept(c)
    <3>1. Refilled(d)' = Full  BY <2>2 DEF refuse, Refilled
    <3>2. QED  BY <2>1, <2>2, <3>1, DroppedIsFull, FullNat DEF Exact, FullWhenIdle
  <2>3. CASE ~(d \in keys /\ d \notin Kept(c))
        BY <2>1, <2>3, <1>1 DEF refuse, Refilled, Exact, FullWhenIdle
  <2>4. QED  BY <2>2, <2>3
<1>4. QED  BY <1>2, <1>3 DEF refuse, LimiterInv

LEMMA LimiterServe ==
    ASSUME LimiterInv, NEW c \in Clients, serve(c)
    PROVE  LimiterInv'
<1> DEFINE r == Refilled(c)
<1>1. Kept(c) \subseteq keys  BY DEF Kept
<1>2. r \in 0..Full /\ now \in Nat /\ Refill \in Nat /\ r \in Nat  BY RefilledType, FullNat, LimiterAssumption DEF LimiterInv, TypeOK, ValidSettings
<1>3. now' = now /\ keys' = Kept(c) \cup {c}
      /\ updatedAt' = [updatedAt EXCEPT ![c] = now] /\ lastSeenAt' = [lastSeenAt EXCEPT ![c] = now]
      BY DEF serve
<1>4. \/ /\ units' = [units EXCEPT ![c] = r] /\ ideal' = ideal /\ r < Refill
         /\ outcome' = [outcome EXCEPT ![c] = "rate_limited"]
         /\ retryAt' = [retryAt EXCEPT ![c] = now + RetryAfter(r)]
      \/ /\ units' = [units EXCEPT ![c] = r - Refill] /\ r >= Refill
         /\ ideal' = [ideal EXCEPT ![c] = @ - Refill]
         /\ outcome' = [outcome EXCEPT ![c] = "allowed"] /\ retryAt' = retryAt
      BY <1>2 DEF serve
<1>5. units'[c] \in 0..Full /\ \A d \in Clients \ {c} : units'[d] = units[d] /\ ideal'[d] = ideal[d]
      BY <1>2, <1>4, FullNat DEF LimiterInv, TypeOK
<1>6. TypeOK'
  <2>1. units' \in [Clients -> 0..Full]  BY <1>2, <1>4, <1>5, FullNat DEF LimiterInv, TypeOK
  <2>2. r < Refill => now + RetryAfter(r) \in Nat
    <3> SUFFICES ASSUME r < Refill PROVE now + RetryAfter(r) \in Nat  OBVIOUS
    <3>1. Second \in Nat \ {0} /\ Refill - r + Second - 1 \in Nat  BY <1>2, LimiterAssumption
    <3>2. (Refill - r + Second - 1) \div Second \in Nat  BY <3>1
    <3>3. QED  BY <3>1, <3>2, <1>2 DEF RetryAfter
  <2>3. retryAt' \in [Clients -> Nat]  BY <1>4, <2>2 DEF LimiterInv, TypeOK
  <2>4. updatedAt' \in [Clients -> 0..now'] /\ lastSeenAt' \in [Clients -> 0..now']
        BY <1>2, <1>3 DEF LimiterInv, TypeOK
  <2>5. ideal' \in [Clients -> Int]  BY <1>2, <1>4 DEF LimiterInv, TypeOK
  <2>6. outcome' \in [Clients -> {"none", "allowed", "rate_limited", "limiter_capacity"}]
        BY <1>4 DEF LimiterInv, TypeOK
  <2>7. QED  BY <1>1, <1>2, <1>3, <2>1, <2>3, <2>4, <2>5, <2>6 DEF LimiterInv, TypeOK
<1>7. ASSUME NEW d \in Clients PROVE Exact(d)'
  <2>1. CASE d = c
    <3>1. ideal[c] <= r /\ (FullWhenIdle => ideal[c] = r) /\ ideal[c] \in Int  BY DEF LimiterInv, TypeOK, Exact
    <3>2. ideal'[c] <= units'[c] /\ (FullWhenIdle => ideal'[c] = units'[c])
      <4> HIDE DEF r
      <4>1. QED  BY <3>1, <1>2, <1>4 DEF LimiterInv, TypeOK
    <3>3. updatedAt'[c] = now /\ c \in keys'  BY <1>3 DEF LimiterInv, TypeOK
    <3>4. Refilled(c)' = units'[c]  BY <3>3, <1>2, <1>3, <1>5, FullNat DEF Refilled, AtMost
    <3>5. QED  BY <2>1, <3>2, <3>4 DEF Exact, FullWhenIdle
  <2>2. CASE d # c
    <3>1. /\ Exact(d) /\ ideal'[d] = ideal[d] /\ units'[d] = units[d]
          /\ ideal[d] \in Int /\ Refilled(d) \in 0..Full
          BY <2>2, <1>5, RefilledType DEF LimiterInv, TypeOK
    <3>2. updatedAt'[d] = updatedAt[d] /\ (d \in keys' <=> d \in Kept(c))  BY <2>2, <1>3 DEF LimiterInv, TypeOK
    <3>3. CASE d \in keys /\ d \notin Kept(c)
      <4>1. Refilled(d)' = Full  BY <3>2, <3>3 DEF Refilled
      <4>2. QED  BY <3>1, <3>3, <4>1, DroppedIsFull, FullNat DEF Exact, FullWhenIdle
    <3>4. CASE ~(d \in keys /\ d \notin Kept(c))
          BY <3>1, <3>2, <3>4, <1>1, <1>3 DEF Refilled, Exact, FullWhenIdle
    <3>5. QED  BY <3>3, <3>4
  <2>3. QED  BY <2>1, <2>2
<1>8. QED  BY <1>3, <1>6, <1>7 DEF LimiterInv

LEMMA LimiterNext == LimiterInv /\ [Next]_vars => LimiterInv'
<1> SUFFICES ASSUME LimiterInv, [Next]_vars PROVE LimiterInv'  OBVIOUS
<1>1. CASE Tick  BY <1>1, LimiterClock DEF Tick
<1>2. ASSUME NEW c \in Clients, consume(c) PROVE LimiterInv'
      BY <1>2, LimiterRefuse, LimiterServe DEF consume
<1>3. CASE UNCHANGED vars
      BY <1>3 DEF vars, buckets, LimiterInv, TypeOK, Exact, FullWhenIdle, Refilled
<1>4. QED  BY <1>1, <1>2, <1>3 DEF Next

\* Type correctness of the limiter's tables (addressIpLimiter.ts, Bucket).
THEOREM LimiterTypes == Spec => []TypeOK
<1>1. LimiterInv => TypeOK  BY DEF LimiterInv
<1>2. QED  BY <1>1, LimiterInit, LimiterNext, PTL DEF Spec

\* The eviction of idle buckets in consume never takes a token, and with an idleTtl
\* as long as a bucket takes to fill never gives one.
THEOREM EvictionIsExact == Spec => []LimiterExact
<1>1. LimiterInv => LimiterExact  BY DEF LimiterInv, Exact, LimiterExact
<1>2. QED  BY <1>1, LimiterInit, LimiterNext, PTL DEF Spec

\* Bounded keys, with what makes it inductive.
FiniteKeys == IsFiniteSet(keys) /\ KeysBounded

LEMMA KeptBounded ==
    ASSUME FiniteKeys, NEW c
    PROVE  IsFiniteSet(Kept(c)) /\ Cardinality(Kept(c)) <= maxKeys /\ Cardinality(Kept(c)) \in Nat
<1>1. Kept(c) \subseteq keys  BY DEF Kept
<1>2. IsFiniteSet(Kept(c)) /\ Cardinality(Kept(c)) <= Cardinality(keys)
      BY <1>1, FS_Subset DEF FiniteKeys
<1>3. Cardinality(Kept(c)) \in Nat /\ Cardinality(keys) \in Nat
      BY <1>2, FS_CardinalityType DEF FiniteKeys
<1>4. QED  BY <1>2, <1>3, LimiterAssumption DEF FiniteKeys, KeysBounded, ValidSettings

LEMMA FiniteKeysServe ==
    ASSUME FiniteKeys, NEW c, serve(c)
    PROVE  FiniteKeys'
<1>1. IsFiniteSet(Kept(c)) /\ Cardinality(Kept(c)) \in Nat /\ Cardinality(Kept(c)) <= maxKeys  BY KeptBounded
<1>2. keys' = Kept(c) \cup {c}  BY DEF serve
<1>3. CASE c \in keys
  <2>1. keys' = keys  BY <1>2, <1>3 DEF Kept
  <2>2. QED  BY <2>1 DEF FiniteKeys, KeysBounded
<1>4. CASE c \notin keys
  <2>1. ~(Cardinality(Kept(c)) >= maxKeys)  BY <1>4 DEF serve, Capacity
  <2>2. IsFiniteSet(keys') /\ (Cardinality(keys') = Cardinality(Kept(c)) \/ Cardinality(keys') = Cardinality(Kept(c)) + 1)
        BY <1>1, <1>2, FS_AddElement
  <2>3. Cardinality(keys') <= maxKeys  BY <1>1, <2>1, <2>2, LimiterAssumption DEF ValidSettings
  <2>4. QED  BY <2>2, <2>3 DEF FiniteKeys, KeysBounded
<1>5. QED  BY <1>3, <1>4

\* The table of buckets never exceeds maxKeys (consume's sweep and refusal).
THEOREM TableBounded == Spec => []KeysBounded
<1>1. Init => FiniteKeys
      BY FS_EmptySet, LimiterAssumption DEF Init, FiniteKeys, KeysBounded, ValidSettings
<1>2. FiniteKeys /\ [Next]_vars => FiniteKeys'
  <2> SUFFICES ASSUME FiniteKeys, [Next]_vars PROVE FiniteKeys'  OBVIOUS
  <2>1. CASE UNCHANGED keys  BY <2>1 DEF FiniteKeys, KeysBounded
  <2>2. ASSUME NEW c \in Clients, refuse(c) PROVE FiniteKeys'
    <3>1. keys' = Kept(c)  BY <2>2 DEF refuse
    <3>2. QED  BY <3>1, KeptBounded DEF FiniteKeys, KeysBounded
  <2>3. ASSUME NEW c \in Clients, serve(c) PROVE FiniteKeys'  BY <2>3, FiniteKeysServe
  <2>4. QED  BY <2>1, <2>2, <2>3 DEF Next, consume, Tick, vars, buckets
<1>3. FiniteKeys => KeysBounded  BY DEF FiniteKeys
<1>4. QED  BY <1>1, <1>2, <1>3, PTL DEF Spec

\* Types, limit and exactness together, for every value of the constants
\* (addressIpLimiter.ts, consume).
THEOREM LimiterIsSound == Spec => []LimiterSound
<1>1. TypeOK /\ KeysBounded /\ LimiterExact => LimiterSound  BY DEF LimiterSound
<1>2. QED  BY <1>1, LimiterTypes, TableBounded, EvictionIsExact, PTL

-----------------------------------------------------------------------------
(* The honesty of Retry-After.                                             *)

\* Rounding up to seconds never announces too early.
LEMMA RoundedUp ==
    ASSUME NEW x \in Nat, NEW s \in Nat \ {0}
    PROVE  s * ((x + s - 1) \div s) >= x
OBVIOUS

\* By the time a client was told, what its bucket held when it was refused has
\* grown to a token.
Announced ==
    \A c \in Clients : outcome[c] = "rate_limited" => units[c] + (retryAt[c] - updatedAt[c]) >= Refill

LEMMA AnnouncedServe ==
    ASSUME LimiterInv, Announced, NEW c \in Clients, serve(c)
    PROVE  Announced'
<1> SUFFICES ASSUME NEW d \in Clients, outcome'[d] = "rate_limited"
             PROVE  units'[d] + (retryAt'[d] - updatedAt'[d]) >= Refill
    BY DEF Announced
<1>1. CASE d # c
  <2>1. outcome'[d] = outcome[d] /\ units'[d] = units[d] /\ retryAt'[d] = retryAt[d] /\ updatedAt'[d] = updatedAt[d]
        BY <1>1 DEF serve, LimiterInv, TypeOK
  <2>2. QED  BY <2>1 DEF Announced
<1>2. CASE d = c
  <2> DEFINE r == Refilled(c)
             q == (Refill - r + Second - 1) \div Second
  <2>1. r \in Nat /\ now \in Nat /\ Refill \in Nat /\ Second \in Nat \ {0}
        BY RefilledType, FullNat, LimiterAssumption DEF LimiterInv, TypeOK, ValidSettings
  <2>2. /\ r < Refill /\ units'[c] = r /\ updatedAt'[c] = now
        /\ retryAt'[c] = now + Second * q
        BY <1>2 DEF serve, RetryAfter, LimiterInv, TypeOK
  <2>3. Refill - r \in Nat  BY <2>1, <2>2
  <2>4. Second * q >= Refill - r  BY <2>1, <2>3, RoundedUp
  <2>5. q \in Int  BY <2>1, <2>3
  <2>6. Second * q \in Int  BY <2>1, <2>5
  <2>7. QED
    <3> HIDE DEF r, q
    <3>1. QED  BY <1>2, <2>1, <2>2, <2>4, <2>6
<1>3. QED  BY <1>1, <1>2

LEMMA AnnouncedNext == LimiterInv /\ Announced /\ [Next]_vars => Announced'
<1> SUFFICES ASSUME LimiterInv, Announced, [Next]_vars PROVE Announced'  OBVIOUS
<1>1. CASE Tick \/ UNCHANGED vars  BY <1>1 DEF Tick, vars, buckets, Announced
<1>2. ASSUME NEW c \in Clients, refuse(c) PROVE Announced'
      BY <1>2 DEF refuse, Announced, LimiterInv, TypeOK
<1>3. ASSUME NEW c \in Clients, serve(c) PROVE Announced'  BY <1>3, AnnouncedServe
<1>4. QED  BY <1>1, <1>2, <1>3 DEF Next, consume

\* A client that waits as long as Retry-After said is not refused for its rate
\* again, for any rate, burst and rounding (addressIpLimiter.ts, consume).
THEOREM RetryAfterIsHonest == Spec => RetryHonest
<1>1. Init => Announced  BY DEF Init, Announced
<1>2. LimiterInv /\ Announced /\ [Next]_vars =>
        [\A c \in Clients : outcome[c] = "rate_limited" /\ now >= retryAt[c]
                                => retryAt'[c] = retryAt[c]]_vars
  <2> SUFFICES ASSUME LimiterInv, Announced, Next, NEW c \in Clients,
                      outcome[c] = "rate_limited", now >= retryAt[c]
               PROVE  retryAt'[c] = retryAt[c]
      OBVIOUS
  <2>1. ASSUME serve(c) PROVE retryAt' = retryAt
    <3>1. /\ units[c] \in Nat /\ retryAt[c] \in Nat /\ updatedAt[c] \in Nat /\ now \in Nat /\ Refill \in Nat
          /\ units[c] + (retryAt[c] - updatedAt[c]) >= Refill
          BY LimiterAssumption, FullNat DEF LimiterInv, TypeOK, Announced, ValidSettings
    <3>2. units[c] + (now - updatedAt[c]) >= Refill  BY <3>1
    <3>3. Full >= Refill  BY LimiterAssumption DEF Full, ValidSettings
    <3>4. ~(Refilled(c) < Refill)  BY <3>1, <3>2, <3>3, FullNat DEF Refilled, AtMost
    <3>5. QED  BY <2>1, <3>4 DEF serve
  <2>2. ASSUME NEW d \in Clients, d # c, serve(d) PROVE retryAt'[c] = retryAt[c]
        BY <2>2 DEF serve, LimiterInv, TypeOK
  <2>3. QED  BY <2>1, <2>2 DEF Next, consume, refuse, Tick
<1>3. QED  BY <1>1, <1>2, LimiterInit, LimiterNext, AnnouncedNext, PTL DEF Spec, RetryHonest

-----------------------------------------------------------------------------
(* The accounts of administrators.                                         *)

InTransaction == {"insert", "commit"}

\* The bootstrap has seen that there is no administrator, and as it holds the
\* advisory lock, that stays true until it commits; a provisioning request was let
\* through because there is one.
ProcessOK(p) ==
    /\ p \in Operators /\ accountPc[p] \in InTransaction => admins = {}
    /\ p \in AccountRequests => accountPc[p] \in {"idle"} \cup InTransaction
    /\ p \in AccountRequests /\ accountPc[p] \in InTransaction => admins # {}
    /\ accountPc[p] = "commit" => name[p] \notin admins
    /\ accountAnswer[p] = "created" => name[p] \in admins

\* Two uncommitted rows have different names: the unique index.
NamesApart ==
    \A p, q \in Accounts!Procs :
        p # q /\ accountPc[p] = "commit" /\ accountPc[q] = "commit" => name[p] # name[q]

FirstIsFirst ==
    /\ admins = {n \in Names : origin[n] # "none"}
    /\ \A m, n \in Names : origin[m] = "first" /\ origin[n] = "first" => m = n
    /\ admins # {} => \E n \in Names : origin[n] = "first"

AccountsInv ==
    /\ Accounts!TypeOK
    /\ admins = logged /\ FirstIsFirst /\ NamesApart
    /\ \A p \in Accounts!Procs : ProcessOK(p)

\* Accounts counts with its own instance of the same definition.
LEMMA AccountsCount ==
    ASSUME NEW S
    PROVE  Accounts!Cardinality(S) = Cardinality(S)
  BY DEF Accounts!Cardinality, Cardinality

LEMMA AccountsInit == Accounts!Init => AccountsInv
  BY PartsAssumption DEF Accounts!Init, AccountsInv, Accounts!TypeOK, FirstIsFirst, NamesApart, ProcessOK,
     Accounts!Procs, Accounts!AccountsAssumption, InTransaction

\* The process that holds the lock of the bootstrap is the only one past it.
LEMMA OneBootstrap ==
    ASSUME AccountsInv, NEW p \in Operators, NEW q \in Operators,
           accountPc[p] \in {"look", "insert", "commit"}, accountPc[q] \in {"look", "insert", "commit"}
    PROVE  p = q
  BY DEF AccountsInv, Accounts!TypeOK

LEMMA AccountsTypes ==
    ASSUME AccountsInv, NEW p \in Accounts!Procs, Accounts!step(p)
    PROVE  Accounts!TypeOK'
<1> USE PartsAssumption DEF Accounts!AccountsAssumption, Accounts!Procs, Accounts!db, Accounts!Ends,
        Accounts!Goes, Accounts!Answers, InTransaction
<1>1. CASE Accounts!main(p)
  BY <1>1 DEF Accounts!main, AccountsInv, Accounts!TypeOK
<1>2. CASE Accounts!takeLock(p)
  BY <1>2 DEF Accounts!takeLock, AccountsInv, Accounts!TypeOK, ProcessOK
<1>3. CASE Accounts!selectAdmins(p)
  BY <1>3 DEF Accounts!selectAdmins, AccountsInv, Accounts!TypeOK
<1>4. CASE Accounts!provisionAdmin(p)
  BY <1>4 DEF Accounts!provisionAdmin, AccountsInv, Accounts!TypeOK
<1>5. CASE Accounts!insertAdmin(p)
  BY <1>5 DEF Accounts!insertAdmin, AccountsInv, Accounts!TypeOK
<1>6. CASE Accounts!commit(p)
  BY <1>6 DEF Accounts!commit, Accounts!Committed, AccountsInv, Accounts!TypeOK
<1>7. CASE Accounts!rollback(p)
  BY <1>7 DEF Accounts!rollback, AccountsInv, Accounts!TypeOK
<1>8. QED
  BY <1>1, <1>2, <1>3, <1>4, <1>5, <1>6, <1>7 DEF Accounts!step

\* Steps before the commit change nothing that is committed.
LEMMA AccountsQuiet ==
    ASSUME AccountsInv, Accounts!TypeOK', NEW p \in Accounts!Procs, UNCHANGED <<admins, origin, logged>>,
           NEW to, accountPc' = [accountPc EXCEPT ![p] = to],
           \A q \in Accounts!Procs \ {p} : name'[q] = name[q] /\ accountAnswer'[q] = accountAnswer[q],
           to = "commit" => /\ name'[p] = name[p] /\ accountPc[p] = "insert" /\ name[p] \notin admins
                            /\ ~Accounts!Held(name[p], p),
           to = "insert" => IF p \in Operators THEN admins = {} ELSE admins # {},
           p \in AccountRequests => to \in {"idle"} \cup InTransaction,
           accountAnswer'[p] = "created" => accountAnswer[p] = "created" /\ name'[p] = name[p]
    PROVE  AccountsInv'
<1>1. accountPc'[p] = to /\ \A q \in Accounts!Procs \ {p} : accountPc'[q] = accountPc[q]
  BY DEF AccountsInv, Accounts!TypeOK
<1>2. NamesApart'
  BY <1>1 DEF AccountsInv, NamesApart, Accounts!Held
<1>3. FirstIsFirst' /\ (admins = logged)'
  BY DEF AccountsInv, FirstIsFirst
<1>4. ASSUME NEW q \in Accounts!Procs PROVE ProcessOK(q)'
  <2>1. CASE q = p
    <3>1. ProcessOK(p) /\ (p \in AccountRequests => p \notin Operators)
      BY PartsAssumption DEF AccountsInv, Accounts!AccountsAssumption
    <3>2. QED
      BY <1>1, <2>1, <3>1 DEF ProcessOK, InTransaction, Accounts!Procs
  <2>2. CASE q # p
    <3>1. ProcessOK(q) /\ accountPc'[q] = accountPc[q] /\ name'[q] = name[q] /\ accountAnswer'[q] = accountAnswer[q]
      BY <1>1, <2>2 DEF AccountsInv
    <3>2. QED
      BY <3>1 DEF ProcessOK
  <2>3. QED
    BY <2>1, <2>2
<1>5. QED
  BY <1>2, <1>3, <1>4 DEF AccountsInv, Accounts!Procs

\* A commit of the bootstrap finds no administrator, one of a request leaves the
\* first as it is.
LEMMA CommitOK ==
    ASSUME AccountsInv, Accounts!TypeOK', NEW p \in Accounts!Procs, Accounts!commit(p)
    PROVE  AccountsInv'
<1>1. /\ accountPc[p] = "commit" /\ accountPc' = [accountPc EXCEPT ![p] = "idle"]
      /\ admins' = admins \cup {name[p]} /\ logged' = logged \cup {name[p]} /\ UNCHANGED name
      /\ origin' = [origin EXCEPT ![name[p]] = IF p \in Operators THEN "first" ELSE "provisioned"]
  BY DEF Accounts!commit, Accounts!Goes, Accounts!Committed
<1>2. /\ name[p] \in Names /\ name[p] \notin admins
      /\ p \in Operators => admins = {}
      /\ p \notin Operators => admins # {}
  BY <1>1 DEF AccountsInv, Accounts!TypeOK, ProcessOK, InTransaction, Accounts!Procs
<1>3. /\ accountPc'[p] = "idle" /\ \A q \in Accounts!Procs \ {p} : accountPc'[q] = accountPc[q]
      /\ \A q \in Accounts!Procs \ {p} : accountAnswer'[q] = accountAnswer[q]
  BY <1>1 DEF AccountsInv, Accounts!TypeOK, Accounts!commit, Accounts!Answers
<1>4. /\ origin'[name[p]] = IF p \in Operators THEN "first" ELSE "provisioned"
      /\ \A n \in Names \ {name[p]} : origin'[n] = origin[n]
  BY <1>1, <1>2 DEF AccountsInv, Accounts!TypeOK
<1>5. FirstIsFirst'
  <2>1. admins' = {n \in Names : origin'[n] # "none"}
    BY <1>1, <1>2, <1>4 DEF AccountsInv, FirstIsFirst
  <2>2. \A m, n \in Names : origin'[m] = "first" /\ origin'[n] = "first" => m = n
    BY <1>2, <1>4 DEF AccountsInv, FirstIsFirst
  <2>3. \E n \in Names : origin'[n] = "first"
    <3>1. CASE p \in Operators
      BY <1>2, <1>4, <3>1
    <3>2. CASE p \notin Operators
      <4>1. PICK n \in Names : origin[n] = "first"
        BY <1>2, <3>2 DEF AccountsInv, FirstIsFirst
      <4>2. n # name[p]
        BY <1>2, <4>1 DEF AccountsInv, FirstIsFirst
      <4>3. QED
        BY <1>4, <4>1, <4>2
    <3>3. QED
      BY <3>1, <3>2
  <2>4. QED
    BY <2>1, <2>2, <2>3 DEF FirstIsFirst
<1>6. NamesApart' /\ (admins = logged)'
  BY <1>1, <1>3 DEF AccountsInv, NamesApart
<1>7. ASSUME NEW q \in Accounts!Procs PROVE ProcessOK(q)'
  <2>1. CASE q = p
    BY <1>1, <1>3, <2>1 DEF ProcessOK, InTransaction
  <2>2. CASE q # p
    <3>1. ProcessOK(q) /\ accountPc'[q] = accountPc[q] /\ accountAnswer'[q] = accountAnswer[q]
      BY <1>3, <2>2 DEF AccountsInv
    <3>2. ~(q \in Operators /\ accountPc[q] \in InTransaction)
      <4>1. CASE p \in Operators
        BY <1>1, <2>2, <4>1, OneBootstrap DEF InTransaction
      <4>2. CASE p \notin Operators
        BY <1>2, <3>1, <4>2 DEF ProcessOK
      <4>3. QED
        BY <4>1, <4>2
    <3>3. accountPc[q] = "commit" => name[q] # name[p]
      BY <1>1, <2>2 DEF AccountsInv, NamesApart
    <3>4. QED
      BY <1>1, <3>1, <3>2, <3>3 DEF ProcessOK
  <2>3. QED
    BY <2>1, <2>2
<1>8. QED
  BY <1>5, <1>6, <1>7 DEF AccountsInv, Accounts!Procs

LEMMA AccountsStep ==
    ASSUME AccountsInv, NEW p \in Accounts!Procs, Accounts!step(p)
    PROVE  AccountsInv'
<1>1. Accounts!TypeOK'
  BY AccountsTypes
<1>2. CASE Accounts!main(p) \/ Accounts!provisionAdmin(p)
  <2>1. PICK to \in {"lock", "insert"} : /\ accountPc' = [accountPc EXCEPT ![p] = to]
                                         /\ to = "lock" => p \in Operators
                                         /\ to = "insert" => p \in AccountRequests /\ admins # {}
    BY <1>2 DEF Accounts!main, Accounts!provisionAdmin, Accounts!Goes
  <2>2. /\ \A q \in Accounts!Procs \ {p} : name'[q] = name[q] /\ accountAnswer'[q] = accountAnswer[q]
        /\ accountAnswer'[p] = "none" /\ UNCHANGED <<admins, origin, logged>>
    BY <1>2 DEF Accounts!main, Accounts!provisionAdmin, Accounts!Answers, Accounts!db,
       AccountsInv, Accounts!TypeOK
  <2>3. p \in AccountRequests => p \notin Operators
    BY PartsAssumption DEF Accounts!AccountsAssumption
  <2>4. QED
    BY <1>1, <2>1, <2>2, <2>3, AccountsQuiet DEF InTransaction
<1>3. CASE Accounts!takeLock(p) \/ Accounts!selectAdmins(p) \/ Accounts!insertAdmin(p) \/ Accounts!rollback(p)
  <2>1. PICK to \in {"look", "insert", "commit", "idle"} :
            /\ accountPc' = [accountPc EXCEPT ![p] = to]
            /\ to = "look" => accountPc[p] = "lock"
            /\ to = "insert" => admins = {} /\ accountPc[p] = "look"
            /\ to = "commit" => /\ accountPc[p] = "insert" /\ name[p] \notin admins
                                /\ ~Accounts!Held(name[p], p)
    BY <1>3 DEF Accounts!takeLock, Accounts!selectAdmins, Accounts!insertAdmin, Accounts!rollback,
       Accounts!Goes, Accounts!Initialized
  <2>2. UNCHANGED <<admins, origin, logged, name>>
    BY <1>3 DEF Accounts!takeLock, Accounts!selectAdmins, Accounts!insertAdmin, Accounts!rollback, Accounts!db
  <2>3. /\ \A q \in Accounts!Procs \ {p} : accountAnswer'[q] = accountAnswer[q]
        /\ accountAnswer'[p] = "created" => accountAnswer[p] = "created"
    BY <1>3 DEF Accounts!takeLock, Accounts!selectAdmins, Accounts!insertAdmin, Accounts!rollback,
       Accounts!Answers, AccountsInv, Accounts!TypeOK
  <2>4. /\ p \in AccountRequests => accountPc[p] \in {"idle"} \cup InTransaction
        /\ accountPc[p] = "look" => p \in Operators
    BY DEF AccountsInv, ProcessOK, InTransaction, Accounts!Procs
  <2>5. QED
    BY <1>1, <2>1, <2>2, <2>3, <2>4, AccountsQuiet DEF InTransaction
<1>4. CASE Accounts!commit(p)
  BY <1>1, <1>4, CommitOK
<1>5. QED
  BY <1>2, <1>3, <1>4 DEF Accounts!step

\* Another part runs: the accounts stay.
LEMMA AccountsStay ==
    ASSUME AccountsInv, UNCHANGED accountVars
    PROVE  AccountsInv'
  BY DEF AccountsInv, Accounts!TypeOK, FirstIsFirst, NamesApart, ProcessOK, accountVars

LEMMA AccountsNext == AccountsInv /\ [PartsNext]_partsVars => AccountsInv'
<1> SUFFICES ASSUME AccountsInv, [PartsNext]_partsVars PROVE AccountsInv'
  OBVIOUS
<1>1. CASE Accounts!Next
  BY <1>1, AccountsStep DEF Accounts!Next
<1>2. CASE UNCHANGED accountVars
  BY <1>2, AccountsStay
<1>3. QED
  BY <1>1, <1>2 DEF PartsNext, partsVars

\* However many terminals run the bootstrap, and however often after a lost
\* answer, it creates one administrator and creates it first; who is there is
\* logged, and who was answered is there (bootstrapAdmin.service.ts,
\* adminAccount.service.ts).
THEOREM AccountsAreSound == PartsSpec => []AccountsSound
<1>1. PartsInit => AccountsInv
  BY AccountsInit DEF PartsInit
<1>2. ASSUME AccountsInv PROVE AccountsSound
  <2>1. Cardinality({n \in Names : origin[n] = "first"}) <= 1
    <3>1. CASE {n \in Names : origin[n] = "first"} = {}
      BY <3>1, FS_EmptySet
    <3>2. CASE {n \in Names : origin[n] = "first"} # {}
      <4>1. PICK m : m \in {n \in Names : origin[n] = "first"}
        BY <3>2
      <4>2. {n \in Names : origin[n] = "first"} = {m}
        BY <1>2, <4>1 DEF AccountsInv, FirstIsFirst
      <4>3. QED
        BY <4>2, FS_Singleton
    <3>3. QED
      BY <3>1, <3>2
  <2>2. Accounts!OneFirst
    <3>1. admins # {} => \E n \in Names : origin[n] = "first"
      BY <1>2 DEF AccountsInv, FirstIsFirst
    <3>2. QED
      BY <2>1, <3>1, AccountsCount DEF Accounts!OneFirst
  <2>3. Accounts!LoggedAndAnswered
    BY <1>2 DEF AccountsInv, ProcessOK, Accounts!LoggedAndAnswered
  <2>4. QED
    BY <1>2, <2>2, <2>3 DEF AccountsSound, AccountsInv
<1>3. QED
  BY <1>1, <1>2, AccountsNext, PTL DEF PartsSpec

-----------------------------------------------------------------------------
(* The address of a light point.                                           *)

GeoTypes == [pc : {"idle", "network"}, force : BOOLEAN, coord : Coords \cup {None}, address : Address!Addresses \cup {None}]
RepTypes == [pc : {"new", "find", "suggest", "persist", "answered", "refused"}, coord : Coords \cup {None},
             answer : Address!Addresses \cup {None}]

AddressTypes ==
    /\ exists \in BOOLEAN /\ coord \in Coords /\ address \in Address!Addresses \cup {None} /\ geocoded \in BOOLEAN
    /\ addressEdits \in 0..AddressMaxEdits /\ runsLeft \in 0..AddressMaxRuns
    /\ geo \in [Geocoders -> GeoTypes] /\ rep \in [Reporters -> RepTypes]

\* Whoever asks a provider knows the coordinates he asked for.
AskedFor ==
    /\ \A g \in Geocoders : geo[g].pc = "network" => geo[g].coord \in Coords
    /\ \A r \in Reporters : rep[r].pc \in {"find", "suggest", "persist", "answered"} => rep[r].coord \in Coords

AddressInv == AddressTypes /\ AskedFor /\ Address!GeocodedIsHere /\ Address!AuditReplays

LEMMA AddressKinds ==
    /\ \A n \in 0..AddressMaxEdits : Address!Typed(n) \in Address!Addresses /\ Address!Typed(n).by = "admin"
    /\ \A c \in Coords, p \in {"nominatim", "geoapify"} :
          /\ Address!Found(p, c) \in Address!Addresses /\ Address!Found(p, c).of = c
    /\ AddressMaxEdits \in Nat /\ AddressMaxRuns \in Nat
<1>1. \A n \in 0..AddressMaxEdits : Address!Typed(n) \in Address!Addresses
  BY DEF Address!Addresses
<1>2. \A c \in Coords, p \in {"nominatim", "geoapify"} : Address!Found(p, c) \in Address!Addresses
  BY DEF Address!Addresses
<1>3. (\A n : Address!Typed(n).by = "admin") /\ \A c, p : Address!Found(p, c).of = c
  BY DEF Address!Typed, Address!Found
<1>4. AddressMaxEdits \in Nat /\ AddressMaxRuns \in Nat
  BY PartsAssumption DEF Address!AddressAssumption
<1>5. QED
  BY <1>1, <1>2, <1>3, <1>4

LEMMA AddressStarts == Address!Init => AddressInv
<1> SUFFICES ASSUME Address!Init PROVE AddressInv
  OBVIOUS
<1>1. AddressTypes
  <2>1. geo \in [Geocoders -> GeoTypes]
    BY DEF Address!Init, Address!Idle, GeoTypes
  <2>2. rep \in [Reporters -> RepTypes]
    BY DEF Address!Init, RepTypes
  <2>3. address \in Address!Addresses \cup {None}
    BY AddressKinds DEF Address!Init
  <2>4. exists \in BOOLEAN /\ geocoded \in BOOLEAN /\ coord \in Coords
    BY DEF Address!Init
  <2>5. addressEdits \in 0..AddressMaxEdits /\ runsLeft \in 0..AddressMaxRuns
    BY AddressKinds DEF Address!Init
  <2>6. QED
    BY <2>1, <2>2, <2>3, <2>4, <2>5 DEF AddressTypes
<1>2. AskedFor
  BY DEF Address!Init, Address!Idle, AskedFor
<1>3. Address!GeocodedIsHere /\ Address!AuditReplays
  BY DEF Address!Init, Address!GeocodedIsHere, Address!AuditReplays
<1>4. QED
  BY <1>1, <1>2, <1>3 DEF AddressInv

\* An administrator's update carries an address found elsewhere along only as one
\* that is not geocoded.
LEMMA AddressEdited ==
    ASSUME AddressInv, Address!updateLightPoint \/ Address!deleteLightPoint
    PROVE  AddressInv'
<1>1. UNCHANGED <<geo, runsLeft, rep>> /\ addressEdits' = addressEdits + 1 /\ addressEdits < AddressMaxEdits
  BY DEF Address!updateLightPoint, Address!deleteLightPoint
<1>2. addressEdits' \in 0..AddressMaxEdits
  BY <1>1, AddressKinds DEF AddressInv, AddressTypes
<1>3. CASE Address!updateLightPoint
  <2>1. PICK c \in Coords, a \in {address, Address!Typed(addressEdits + 1), None} :
            /\ coord' = c /\ address' = a /\ geocoded' = (geocoded /\ ~(c # coord)) /\ audited' = <<c, a>>
            /\ UNCHANGED exists
    BY <1>3 DEF Address!updateLightPoint, Address!StillGeocoded, Address!insertAudit
  <2>2. Address!Typed(addressEdits + 1) \in Address!Addresses /\ Address!Typed(addressEdits + 1).by = "admin"
    BY <1>1, <1>2, AddressKinds
  <2>3. address' \in Address!Addresses \cup {None}
    BY <2>1, <2>2 DEF AddressInv, AddressTypes
  <2>4. geocoded' \in BOOLEAN /\ exists' \in BOOLEAN
    BY <2>1 DEF AddressInv, AddressTypes
  <2>5. AddressTypes' /\ AskedFor'
    BY <1>1, <1>2, <2>1, <2>3, <2>4 DEF AddressInv, AddressTypes, AskedFor
  <2>6. Address!GeocodedIsHere'
    BY <2>1, <2>2 DEF AddressInv, Address!GeocodedIsHere
  <2>7. Address!AuditReplays'
    BY <2>1 DEF Address!AuditReplays
  <2>8. QED
    BY <2>5, <2>6, <2>7 DEF AddressInv
<1>4. CASE Address!deleteLightPoint
  BY <1>1, <1>2, <1>4 DEF Address!deleteLightPoint, AddressInv, AddressTypes, AskedFor,
     Address!GeocodedIsHere, Address!AuditReplays
<1>5. QED
  BY <1>3, <1>4

\* A system write stores what was found for where the point still is.
LEMMA AddressStored ==
    ASSUME AddressInv, NEW c \in Coords, NEW p \in {"nominatim", "geoapify"},
           \/ UNCHANGED <<address, geocoded, audited>>
           \/ coord = c /\ address' = Address!Found(p, c) /\ geocoded' = TRUE /\ audited' = <<coord, address'>>,
           UNCHANGED <<exists, coord, addressEdits>>, runsLeft' \in 0..AddressMaxRuns,
           geo' \in [Geocoders -> GeoTypes], rep' \in [Reporters -> RepTypes], AskedFor'
    PROVE  AddressInv'
<1>1. Address!Found(p, c) \in Address!Addresses /\ Address!Found(p, c).of = c
  BY AddressKinds
<1>2. AddressTypes'
  BY <1>1 DEF AddressInv, AddressTypes
<1>3. Address!GeocodedIsHere'
  BY <1>1 DEF AddressInv, Address!GeocodedIsHere
<1>4. Address!AuditReplays'
  BY DEF AddressInv, Address!AuditReplays
<1>5. QED
  BY <1>2, <1>3, <1>4 DEF AddressInv

LEMMA AddressGeocoded ==
    ASSUME AddressInv, NEW g \in Geocoders, Address!geocode(g)
    PROVE  AddressInv'
<1>1. UNCHANGED <<exists, coord, addressEdits, rep>> /\ coord \in Coords /\ geo[g] \in GeoTypes
  BY DEF AddressInv, AddressTypes, Address!geocode, Address!snapshot, Address!storeGeocoded, Address!geocoderFails, Address!row
<1>2. PICK upd \in GeoTypes : geo' = [geo EXCEPT ![g] = upd] /\ (upd.pc = "network" => upd.coord \in Coords)
  <2>1. CASE Address!snapshot(g)
    <3>1. PICK force \in BOOLEAN :
             geo' = [geo EXCEPT ![g] = [pc |-> "network", force |-> force, coord |-> coord, address |-> address]]
      BY <2>1 DEF Address!snapshot
    <3>2. address \in Address!Addresses \cup {None}
      BY DEF AddressInv, AddressTypes
    <3>3. [pc |-> "network", force |-> force, coord |-> coord, address |-> address] \in GeoTypes
      BY <1>1, <3>2 DEF GeoTypes
    <3>4. QED
      BY <1>1, <3>1, <3>3
  <2>2. CASE Address!storeGeocoded(g) \/ Address!geocoderFails(g)
    <3>1. geo' = [geo EXCEPT ![g] = Address!Idle]
      BY <2>2 DEF Address!storeGeocoded, Address!geocoderFails
    <3>2. Address!Idle \in GeoTypes /\ Address!Idle.pc = "idle"
      BY DEF Address!Idle, GeoTypes
    <3>3. QED
      BY <3>1, <3>2
  <2>3. QED
    BY <2>1, <2>2 DEF Address!geocode
<1>3. geo' \in [Geocoders -> GeoTypes] /\ AskedFor'
  BY <1>1, <1>2 DEF AddressInv, AddressTypes, AskedFor
<1>4. runsLeft' \in 0..AddressMaxRuns
  BY AddressKinds DEF AddressInv, AddressTypes, Address!geocode, Address!snapshot, Address!storeGeocoded, Address!geocoderFails
<1>5. rep' \in [Reporters -> RepTypes]
  BY <1>1 DEF AddressInv, AddressTypes
<1>6. CASE Address!storeGeocoded(g)
  <2>1. geo[g].coord \in Coords
    BY <1>6 DEF Address!storeGeocoded, AddressInv, AskedFor
  <2>2. \/ UNCHANGED <<address, geocoded, audited>>
        \/ /\ coord = geo[g].coord /\ address' = Address!Found("nominatim", geo[g].coord) /\ geocoded' = TRUE
           /\ audited' = <<coord, address'>>
    BY <1>6 DEF Address!storeGeocoded, Address!Writes, Address!Unchanged, Address!insertAudit
  <2>3. QED
    BY <1>1, <1>3, <1>4, <1>5, <2>1, <2>2, AddressStored
<1>7. CASE Address!snapshot(g) \/ Address!geocoderFails(g)
  BY <1>1, <1>3, <1>4, <1>5, <1>7, AddressStored DEF Address!snapshot, Address!geocoderFails, Address!row
<1>8. QED
  BY <1>6, <1>7 DEF Address!geocode

LEMMA AddressReported ==
    ASSUME AddressInv, NEW r \in Reporters, Address!report(r)
    PROVE  AddressInv'
<1>1. /\ UNCHANGED <<exists, coord, addressEdits, geo, runsLeft>> /\ coord \in Coords /\ rep[r] \in RepTypes
      /\ address \in Address!Addresses \cup {None}
  BY DEF AddressInv, AddressTypes, Address!report, Address!resolveAndValidateReportTarget, Address!findById,
     Address!suggest, Address!persistIfMissing, Address!row
<1>2. rep[r].pc \in {"find", "suggest", "persist"} => rep[r].coord \in Coords
  BY DEF AddressInv, AskedFor
<1>3. \/ UNCHANGED <<address, geocoded, audited>>
      \/ /\ rep[r].pc = "persist" /\ coord = rep[r].coord /\ address' = Address!Found("geoapify", rep[r].coord)
         /\ geocoded' = TRUE /\ audited' = <<coord, address'>>
  BY DEF Address!report, Address!resolveAndValidateReportTarget, Address!findById, Address!suggest,
     Address!persistIfMissing, Address!row, Address!insertAudit
<1>4. address' \in Address!Addresses \cup {None}
  BY <1>1, <1>2, <1>3, AddressKinds
<1>5. rep[r].pc \in {"new", "find", "suggest", "persist"}
  BY DEF Address!report, Address!resolveAndValidateReportTarget, Address!findById, Address!suggest, Address!persistIfMissing
<1>6. PICK upd \in RepTypes :
         rep' = [rep EXCEPT ![r] = upd] /\ (upd.pc \in {"find", "suggest", "persist", "answered"} => upd.coord \in Coords)
  <2>1. CASE rep' = [rep EXCEPT ![r] = Address!Asked(coord)]
    <3>1. Address!Asked(coord) \in RepTypes /\ Address!Asked(coord).coord = coord
      BY <1>1 DEF Address!Asked, RepTypes
    <3>2. QED
      BY <1>1, <2>1, <3>1
  <2>2. CASE Address!refused(r)
    <3>1. rep' = [rep EXCEPT ![r] = [rep[r] EXCEPT !.pc = "refused"]]
      BY <2>2 DEF Address!refused
    <3>2. [rep[r] EXCEPT !.pc = "refused"] \in RepTypes /\ [rep[r] EXCEPT !.pc = "refused"].pc = "refused"
      BY <1>1 DEF RepTypes
    <3>3. QED
      BY <3>1, <3>2
  <2>3. ASSUME NEW pc \in {"suggest", "persist"}, rep' = [rep EXCEPT ![r].pc = pc], rep[r].coord \in Coords
        PROVE  \E upd \in RepTypes : /\ rep' = [rep EXCEPT ![r] = upd]
                                     /\ upd.pc \in {"find", "suggest", "persist", "answered"} => upd.coord \in Coords
    <3>1. rep' = [rep EXCEPT ![r] = [rep[r] EXCEPT !.pc = pc]]
      BY <2>3
    <3>2. [rep[r] EXCEPT !.pc = pc] \in RepTypes /\ [rep[r] EXCEPT !.pc = pc].coord \in Coords
      BY <1>1, <2>3 DEF RepTypes
    <3>3. QED
      BY <3>1, <3>2
  <2>4. ASSUME NEW a \in Address!Addresses \cup {None}, Address!answers(r, a), rep[r].coord \in Coords
        PROVE  \E upd \in RepTypes : /\ rep' = [rep EXCEPT ![r] = upd]
                                     /\ upd.pc \in {"find", "suggest", "persist", "answered"} => upd.coord \in Coords
    <3>1. rep' = [rep EXCEPT ![r] = [rep[r] EXCEPT !.pc = "answered", !.answer = a]]
      BY <2>4 DEF Address!answers
    <3>2. /\ [rep[r] EXCEPT !.pc = "answered", !.answer = a] \in RepTypes
          /\ [rep[r] EXCEPT !.pc = "answered", !.answer = a].coord \in Coords
      BY <1>1, <2>4 DEF RepTypes
    <3>3. QED
      BY <3>1, <3>2
  <2>5. \/ rep' = [rep EXCEPT ![r] = Address!Asked(coord)]
        \/ Address!refused(r)
        \/ rep[r].pc # "new" /\ \E pc \in {"suggest", "persist"} : rep' = [rep EXCEPT ![r].pc = pc]
        \/ rep[r].pc # "new" /\ \E a \in {address, address', None} : Address!answers(r, a)
    <3>1. CASE Address!resolveAndValidateReportTarget(r)
      BY <3>1 DEF Address!resolveAndValidateReportTarget
    <3>2. CASE Address!findById(r)
      BY <3>2 DEF Address!findById
    <3>3. CASE Address!suggest(r)
      BY <3>3 DEF Address!suggest
    <3>4. CASE Address!persistIfMissing(r)
      BY <3>4 DEF Address!persistIfMissing
    <3>5. QED
      BY <3>1, <3>2, <3>3, <3>4 DEF Address!report
  <2>6. rep[r].pc # "new" => rep[r].coord \in Coords
    BY <1>2, <1>5
  <2>7. {address, address', None} \subseteq Address!Addresses \cup {None}
    BY <1>1, <1>4
  <2>8. QED
    BY <2>1, <2>2, <2>3, <2>4, <2>5, <2>6, <2>7
<1>7. geo' \in [Geocoders -> GeoTypes] /\ rep' \in [Reporters -> RepTypes] /\ runsLeft' \in 0..AddressMaxRuns /\ AskedFor'
  BY <1>1, <1>6 DEF AddressInv, AddressTypes, AskedFor
<1>8. CASE UNCHANGED <<address, geocoded, audited>>
  BY <1>1, <1>7, <1>8, AddressStored
<1>9. CASE ~UNCHANGED <<address, geocoded, audited>>
  BY <1>1, <1>2, <1>3, <1>7, <1>9, AddressStored
<1>10. QED
  BY <1>8, <1>9

LEMMA AddressNext == AddressInv /\ [PartsNext]_partsVars => AddressInv'
<1> SUFFICES ASSUME AddressInv, [PartsNext]_partsVars PROVE AddressInv'
  OBVIOUS
<1>1. CASE Address!Next
  BY <1>1, AddressEdited, AddressGeocoded, AddressReported DEF Address!Next
<1>2. CASE UNCHANGED addressVars
  BY <1>2 DEF AddressInv, AddressTypes, AskedFor, Address!GeocodedIsHere, Address!AuditReplays, addressVars
<1>3. QED
  BY <1>1, <1>2 DEF PartsNext, partsVars

\* A step that changes the address is an administrator's, or a system write that
\* had read this very address, or filled a missing one.
LEMMA AddressChanges ==
    ASSUME AddressInv, [PartsNext]_partsVars, address' # address
    PROVE  \/ addressEdits' # addressEdits /\ UNCHANGED rep
           \/ UNCHANGED rep /\ \E g \in Geocoders : /\ geo[g].pc = "network" /\ geo'[g].pc = "idle"
                                                    /\ geo[g].address = address /\ geo[g].coord = coord
           \/ address = None
<1>1. CASE Address!updateLightPoint
  <2>1. addressEdits \in Nat /\ addressEdits' = addressEdits + 1 /\ UNCHANGED rep
    BY <1>1, AddressKinds DEF AddressInv, AddressTypes, Address!updateLightPoint
  <2>2. QED
    BY <2>1
<1>2. ASSUME NEW g \in Geocoders, Address!storeGeocoded(g)
      PROVE  /\ UNCHANGED rep /\ geo[g].pc = "network" /\ geo'[g].pc = "idle"
             /\ geo[g].address = address /\ geo[g].coord = coord
  BY <1>2 DEF AddressInv, AddressTypes, Address!storeGeocoded, Address!Writes, Address!Unchanged, Address!Idle
<1>3. ASSUME NEW r \in Reporters, Address!persistIfMissing(r) PROVE address = None
  BY <1>3 DEF Address!persistIfMissing, Address!Missing
<1>4. \/ Address!updateLightPoint
      \/ \E g \in Geocoders : Address!storeGeocoded(g)
      \/ \E r \in Reporters : Address!persistIfMissing(r)
  <2>1. Address!Next
    BY DEF PartsNext, partsVars, addressVars
  <2>2. ~Address!deleteLightPoint
    BY DEF Address!deleteLightPoint
  <2>3. \A g \in Geocoders : ~Address!snapshot(g) /\ ~Address!geocoderFails(g)
    BY DEF Address!snapshot, Address!geocoderFails, Address!row
  <2>4. \A r \in Reporters : ~Address!resolveAndValidateReportTarget(r) /\ ~Address!findById(r) /\ ~Address!suggest(r)
    BY DEF Address!resolveAndValidateReportTarget, Address!findById, Address!suggest, Address!row
  <2>5. QED
    BY <2>1, <2>2, <2>3, <2>4 DEF Address!Next, Address!geocode, Address!report
<1>5. QED
  BY <1>1, <1>2, <1>3, <1>4

\* Whoever moves, edits or deletes a light point while a provider is asked for its
\* address: what is marked as geocoded belongs to where the point is, the last audit
\* event holds the values of the row, and no system write takes away what an
\* administrator typed unless it had read that (lightPoints.service.ts,
\* lightPointAddressRepository.ts).
THEOREM AddressIsSound == PartsSpec => AddressSound
<1>1. PartsInit => AddressInv
  BY AddressStarts DEF PartsInit
<1>2. AddressInv => Address!TypeOK /\ Address!GeocodedIsHere /\ Address!AuditReplays
  <2> SUFFICES ASSUME AddressInv PROVE Address!TypeOK
    BY DEF AddressInv
  <2>1. \A g \in Geocoders : geo[g].pc \in {"idle", "network"} /\ (geo[g].pc = "network" => geo[g].coord \in Coords)
    BY DEF AddressInv, AddressTypes, AskedFor, GeoTypes
  <2>2. \A r \in Reporters :
           /\ rep[r].pc \in {"new", "find", "suggest", "persist", "answered", "refused"}
           /\ rep[r].pc \in {"find", "suggest", "persist", "answered"} => rep[r].coord \in Coords
    BY DEF AddressInv, AddressTypes, AskedFor, RepTypes
  <2>3. QED
    BY <2>1, <2>2 DEF AddressInv, AddressTypes, Address!TypeOK
<1>3. AddressInv /\ [PartsNext]_partsVars =>
         [ address # None /\ address.by = "admin" /\ address' # address /\ addressEdits' = addressEdits
              => \E g \in Geocoders : geo[g].pc = "network" /\ geo'[g].pc = "idle" /\ geo[g].address = address /\ geo[g].coord = coord
         ]_Address!vars
  BY AddressChanges
<1>4. AddressInv /\ [PartsNext]_partsVars =>
         [ address' # address /\ (\E r \in Reporters : rep'[r] # rep[r]) => address = None ]_Address!vars
  BY AddressChanges
<1>5. PartsSpec => []AddressInv
  BY <1>1, AddressNext, PTL DEF PartsSpec
<1>6. PartsSpec => Address!NoLostEdit
  BY <1>3, <1>5, PTL DEF PartsSpec, Address!NoLostEdit
<1>7. PartsSpec => Address!ReportsOnlyFill
  BY <1>4, <1>5, PTL DEF PartsSpec, Address!ReportsOnlyFill
<1>8. QED
  BY <1>2, <1>5, <1>6, <1>7, PTL DEF AddressSound

-----------------------------------------------------------------------------
(* The admission of address suggestions.                                   *)

Keyed == {k \in AdmissionKeys : entry[k] = "queued"}
Running == {k \in AdmissionKeys : entry[k] = "running"}
Answered == {"address", "queue_full", "cancelled", "expired", "budget", "timeout", "failed"}

\* The queue q holds each key of S once.
Holds(q, S) ==
    /\ q \in Seq(AdmissionKeys)
    /\ \A i \in 1..Len(q) : q[i] \in S
    /\ \A k \in S : \E i \in 1..Len(q) : q[i] = k
    /\ \A i, j \in 1..Len(q) : q[i] = q[j] => i = j

\* Who waits for what.
BookOK ==
    /\ entry \in [AdmissionKeys -> {"none", "queued", "running"}]
    /\ subscribers \in [AdmissionKeys -> SUBSET Callers]
    /\ admissionAnswer \in [Callers -> {"none", "waiting"} \cup Answered]
    /\ Admission!NobodyForgotten

\* The calls of the provider that are under way, and the queue: more than maxPending
\* only when its one entry is about to be started.
SlotsOK ==
    /\ IsFiniteSet(Running) /\ admissionHeld \in Nat
    /\ admissionActive = admissionHeld + Cardinality(Running) /\ admissionActive <= maxActive
QueueOK ==
    /\ Holds(queue, Keyed)
    /\ \/ Len(queue) <= maxPending
       \/ pumping /\ Len(queue) = 1 /\ admissionActive < maxActive /\ nextStartAt <= admissionNow
    /\ Admission!WakeUpPending

\* The times, and what was started when.
TimesOK ==
    /\ admissionNow \in 0..AdmissionMaxTime /\ nextStartAt \in Nat /\ spacingTimer \in Nat \cup {NoTimer}
    /\ expiresAt \in [AdmissionKeys -> Nat] /\ pumping \in BOOLEAN
    /\ budgetUsed \in 0..dailyBudget /\ lastStart \in Nat \cup {NoTimer} /\ startsToday \in Nat
    /\ \A t \in Nat : lastStart = t => nextStartAt = t + minStartInterval
    /\ startsToday <= Admission!Used

AdmissionInv == BookOK /\ SlotsOK /\ QueueOK /\ TimesOK

LEMMA Settings ==
    /\ maxPending \in Nat /\ maxActive \in Nat \ {0} /\ queueExpiry \in Nat \ {0} /\ minStartInterval \in Nat
    /\ dailyBudget \in Nat /\ Day \in Nat \ {0} /\ NoTimer \notin Nat /\ AdmissionMaxTime \in Nat
  BY PartsAssumption DEF Admission!AdmissionAssumption, Admission!validateSettings

LEMMA AdmissionCounts == \A S : Admission!Cardinality(S) = Cardinality(S)
  BY DEF Admission!Cardinality, Cardinality

LEMMA HoldsLast ==
    ASSUME NEW q, NEW S, Holds(q, S), NEW k \in AdmissionKeys, k \notin S, NEW T, T = S \cup {k}
    PROVE  Holds(Append(q, k), T) /\ Len(Append(q, k)) = Len(q) + 1
<1>1. q \in Seq(AdmissionKeys) /\ Len(q) \in Nat
  BY LenProperties DEF Holds
<1>2. /\ Append(q, k) \in Seq(AdmissionKeys) /\ Len(Append(q, k)) = Len(q) + 1
      /\ \A i \in 1..Len(q) : Append(q, k)[i] = q[i]
      /\ Append(q, k)[Len(q) + 1] = k
  BY <1>1, AppendProperties
<1> DEFINE g == Append(q, k)
           n == Len(q)
<1> HIDE DEF g
<1>3. g \in Seq(AdmissionKeys) /\ Len(g) = n + 1 /\ (\A i \in 1..n : g[i] = q[i]) /\ g[n + 1] = k
  BY <1>2 DEF g
<1>4. /\ \A i \in 1..n : q[i] \in S
      /\ \A l \in S : \E i \in 1..n : q[i] = l
      /\ \A i, j \in 1..n : q[i] = q[j] => i = j
  BY DEF Holds
<1> HIDE DEF n
<1>5. n \in Nat
  BY <1>1 DEF n
<1>6. \A i \in 1..(n + 1) : i \in 1..n \/ i = n + 1
  BY <1>5
<1>7. \A i \in 1..(n + 1) : g[i] \in T
  BY <1>3, <1>4, <1>6
<1>8. \A l \in T : \E i \in 1..(n + 1) : g[i] = l
  <2> SUFFICES ASSUME NEW l \in T PROVE \E i \in 1..(n + 1) : g[i] = l
    OBVIOUS
  <2>1. CASE l = k
    BY <1>3, <1>5, <2>1
  <2>2. CASE l # k
    <3>1. PICK i \in 1..n : q[i] = l
      BY <1>4, <2>2
    <3>2. i \in 1..(n + 1) /\ g[i] = l
      BY <1>3, <1>5, <3>1
    <3>3. QED
      BY <3>2
  <2>3. QED
    BY <2>1, <2>2
<1>9. \A i, j \in 1..(n + 1) : g[i] = g[j] => i = j
  BY <1>3, <1>4, <1>6
<1>10. QED
  BY <1>3, <1>7, <1>8, <1>9 DEF Holds, g, n

LEMMA HoldsWithout ==
    ASSUME NEW q, NEW S, Holds(q, S), NEW i \in 1..Len(q), NEW T, T = S \ {q[i]}
    PROVE  Holds(Admission!RemoveAt(q, i), T) /\ Len(Admission!RemoveAt(q, i)) = Len(q) - 1
<1> DEFINE n == Len(q)
           a == SubSeq(q, 1, i - 1)
           b == SubSeq(q, i + 1, n)
           g == a \o b
<1>1. q \in Seq(AdmissionKeys) /\ n \in Nat /\ i \in Nat /\ 1 <= i /\ i <= n /\ \A j \in 1..n : q[j] \in AdmissionKeys
  BY LenProperties, ElementOfSeq DEF Holds
<1>2. /\ a \in Seq(AdmissionKeys) /\ Len(a) = i - 1 /\ \A j \in 1..(i - 1) : a[j] = q[j]
  <2>1. \A j \in 1..(i - 1) : q[j] \in AdmissionKeys
    BY <1>1
  <2>2. 1 \in Int /\ i - 1 \in Int
    BY <1>1
  <2>3. /\ a \in Seq(AdmissionKeys) /\ Len(a) = IF 1 <= i - 1 THEN (i - 1) - 1 + 1 ELSE 0
        /\ \A j \in 1..((i - 1) - 1 + 1) : a[j] = q[1 + j - 1]
    BY <2>1, <2>2, SubSeqProperties
  <2> HIDE DEF a
  <2>4. QED
    BY <1>1, <2>3
<1>3. /\ b \in Seq(AdmissionKeys) /\ Len(b) = n - i /\ \A j \in 1..(n - i) : b[j] = q[i + j]
  <2>1. \A j \in (i + 1)..n : q[j] \in AdmissionKeys
    BY <1>1
  <2>2. i + 1 \in Int /\ n \in Int
    BY <1>1
  <2> HIDE DEF n
  <2>3. /\ b \in Seq(AdmissionKeys) /\ Len(b) = IF i + 1 <= n THEN n - (i + 1) + 1 ELSE 0
        /\ \A j \in 1..(n - (i + 1) + 1) : b[j] = q[(i + 1) + j - 1]
    BY <2>1, <2>2, SubSeqProperties
  <2> HIDE DEF b
  <2>4. QED
    BY <1>1, <2>3
<1> HIDE DEF a, b, n
<1>4. /\ g \in Seq(AdmissionKeys) /\ Len(g) = n - 1
      /\ \A j \in 1..(n - 1) : g[j] = IF j < i THEN q[j] ELSE q[j + 1]
  <2>1. /\ g \in Seq(AdmissionKeys) /\ Len(g) = Len(a) + Len(b)
        /\ \A j \in 1..(Len(a) + Len(b)) : g[j] = IF j <= Len(a) THEN a[j] ELSE b[j - Len(a)]
    BY <1>2, <1>3, ConcatProperties
  <2> HIDE DEF g
  <2>2. Len(g) = n - 1
    BY <1>1, <1>2, <1>3, <2>1
  <2>3. ASSUME NEW j \in 1..(n - 1) PROVE g[j] = IF j < i THEN q[j] ELSE q[j + 1]
    <3>1. j \in 1..(Len(a) + Len(b))
      BY <1>1, <1>2, <1>3
    <3>2. CASE j < i
      <4>1. j <= Len(a) /\ j \in 1..(i - 1)
        BY <1>1, <1>2, <3>2
      <4>2. QED
        BY <1>2, <2>1, <3>1, <3>2, <4>1
    <3>3. CASE ~(j < i)
      <4>1. ~(j <= Len(a)) /\ j - Len(a) \in 1..(n - i) /\ i + (j - Len(a)) = j + 1
        BY <1>1, <1>2, <3>3
      <4>2. QED
        BY <1>3, <2>1, <3>1, <3>3, <4>1
    <3>4. QED
      BY <3>2, <3>3
  <2>4. QED
    BY <2>1, <2>2, <2>3
<1> HIDE DEF g
<1>5. /\ \A j \in 1..n : q[j] \in S
      /\ \A l \in S : \E j \in 1..n : q[j] = l
      /\ \A j, l \in 1..n : q[j] = q[l] => j = l
  BY DEF Holds, n
<1>6. ASSUME NEW j \in 1..(n - 1) PROVE \E l \in 1..n : l # i /\ g[j] = q[l] /\ l = IF j < i THEN j ELSE j + 1
  <2>1. CASE j < i
    BY <1>1, <1>4, <2>1
  <2>2. CASE ~(j < i)
    BY <1>1, <1>4, <2>2
  <2>3. QED
    BY <2>1, <2>2
<1>7. \A j \in 1..(n - 1) : g[j] \in T
  <2>1. i \in 1..n
    BY <1>1
  <2>2. QED
    BY <1>5, <1>6, <2>1
<1>8. \A k \in T : \E j \in 1..(n - 1) : g[j] = k
  <2> SUFFICES ASSUME NEW k \in T PROVE \E j \in 1..(n - 1) : g[j] = k
    OBVIOUS
  <2>1. PICK l \in 1..n : q[l] = k
    BY <1>5
  <2>2. l # i
    BY <2>1
  <2>3. CASE l < i
    BY <1>1, <1>4, <2>1, <2>3
  <2>4. CASE ~(l < i)
    <3>1. l - 1 \in 1..(n - 1) /\ ~(l - 1 < i) /\ (l - 1) + 1 = l
      BY <1>1, <2>2, <2>4
    <3>2. g[l - 1] = k
      BY <1>4, <2>1, <3>1
    <3>3. QED
      BY <3>1, <3>2
  <2>5. QED
    BY <2>3, <2>4
<1>9. ASSUME NEW j \in 1..(n - 1), NEW l \in 1..(n - 1), g[j] = g[l] PROVE j = l
  <2>1. PICK x \in 1..n : g[j] = q[x] /\ x = IF j < i THEN j ELSE j + 1
    BY <1>6
  <2>2. PICK y \in 1..n : g[l] = q[y] /\ y = IF l < i THEN l ELSE l + 1
    BY <1>6
  <2>3. x = y
    BY <1>5, <1>9, <2>1, <2>2
  <2>4. QED
    BY <1>1, <2>1, <2>2, <2>3
<1>10. Admission!RemoveAt(q, i) = g
  BY DEF Admission!RemoveAt, g, a, b, n
<1>11. QED
  BY <1>4, <1>7, <1>8, <1>9, <1>10 DEF Holds, n

LEMMA HoldsRest ==
    ASSUME NEW q, NEW S, Holds(q, S), q # <<>>, NEW T, T = S \ {Head(q)}
    PROVE  /\ Head(q) \in S /\ Holds(Tail(q), T) /\ Len(Tail(q)) = Len(q) - 1 /\ Len(q) > 0
<1>1. q \in Seq(AdmissionKeys) /\ Len(q) \in Nat /\ Len(q) > 0
  BY EmptySeq, LenProperties DEF Holds
<1>2. Head(q) = q[1] /\ 1 \in 1..Len(q)
  BY <1>1
<1>3. Tail(q) = SubSeq(q, 2, Len(q))
  BY <1>1, TailIsSubSeq
<1>4. SubSeq(q, 1, 0) = <<>>
  BY SubSeqEmpty
<1>5. Tail(q) \in Seq(AdmissionKeys)
  BY <1>1, HeadTailProperties
<1>6. Admission!RemoveAt(q, 1) = Tail(q)
  BY <1>3, <1>4, <1>5, ConcatEmptySeq DEF Admission!RemoveAt
<1>7. q[1] \in S
  BY <1>2 DEF Holds
<1>8. T = S \ {q[1]}
  BY <1>2
<1>9. Holds(Admission!RemoveAt(q, 1), T) /\ Len(Admission!RemoveAt(q, 1)) = Len(q) - 1
  BY <1>2, <1>8, HoldsWithout
<1>10. QED
  BY <1>1, <1>2, <1>6, <1>7, <1>9

LEMMA AdmissionStarts == Admission!Init => AdmissionInv
<1> SUFFICES ASSUME Admission!Init PROVE AdmissionInv
  OBVIOUS
<1>1. /\ admissionNow = 0 /\ queue = <<>> /\ entry = [k \in AdmissionKeys |-> "none"]
      /\ expiresAt = [k \in AdmissionKeys |-> 0] /\ subscribers = [k \in AdmissionKeys |-> {}]
      /\ admissionHeld = 0 /\ admissionActive = 0 /\ nextStartAt = 0 /\ spacingTimer = NoTimer
      /\ budgetUsed = 0 /\ pumping = FALSE /\ admissionAnswer = [c \in Callers |-> "none"]
      /\ lastStart = NoTimer /\ startsToday = 0
  BY DEF Admission!Init
<1>2. BookOK
  BY <1>1 DEF BookOK, Admission!NobodyForgotten
<1>3. SlotsOK
  <2>1. Running = {}
    BY <1>1 DEF Running
  <2>2. IsFiniteSet(Running) /\ Cardinality(Running) = 0
    BY <2>1, FS_EmptySet
  <2>3. QED
    BY <1>1, <2>2, Settings DEF SlotsOK
<1>4. QueueOK
  <2>1. Len(queue) = 0 /\ queue \in Seq(AdmissionKeys)
    BY <1>1
  <2>2. Keyed = {}
    BY <1>1 DEF Keyed
  <2>3. Holds(queue, Keyed)
    BY <2>1, <2>2 DEF Holds
  <2>4. QED
    BY <1>1, <2>1, <2>3, Settings DEF QueueOK, Admission!WakeUpPending
<1>5. TimesOK
  <2>1. \A t \in Nat : lastStart # t
    BY <1>1, Settings
  <2>2. Admission!Used \in {0, budgetUsed}
    BY DEF Admission!Used
  <2>3. startsToday <= Admission!Used
    BY <1>1, <2>2
  <2>4. expiresAt \in [AdmissionKeys -> Nat]
    BY <1>1
  <2>5. /\ admissionNow \in 0..AdmissionMaxTime /\ nextStartAt \in Nat /\ budgetUsed \in 0..dailyBudget /\ startsToday \in Nat
    BY <1>1, Settings
  <2>6. pumping \in BOOLEAN /\ spacingTimer \in Nat \cup {NoTimer} /\ lastStart \in Nat \cup {NoTimer}
    BY <1>1
  <2>7. QED
    BY <2>1, <2>3, <2>4, <2>5, <2>6 DEF TimesOK
<1>6. QED
  BY <1>2, <1>3, <1>4, <1>5 DEF AdmissionInv

\* Everyone who waits for an entry is answered as it is forgotten.
LEMMA BookSettles ==
    ASSUME BookOK, NEW k \in AdmissionKeys, NEW a \in Answered, Admission!settle(k, a)
    PROVE  BookOK'
<1>1. /\ entry' = [entry EXCEPT ![k] = "none"] /\ subscribers' = [subscribers EXCEPT ![k] = {}]
      /\ admissionAnswer' = [c \in Callers |-> IF c \in subscribers[k] THEN a ELSE admissionAnswer[c]]
  BY DEF Admission!settle
<1>2. a \notin {"none", "waiting"}
  BY DEF Answered
<1>3. /\ entry' \in [AdmissionKeys -> {"none", "queued", "running"}] /\ entry'[k] = "none"
      /\ subscribers' \in [AdmissionKeys -> SUBSET Callers] /\ subscribers'[k] = {}
      /\ \A l \in AdmissionKeys \ {k} : entry'[l] = entry[l] /\ subscribers'[l] = subscribers[l]
  BY <1>1 DEF BookOK
<1>4. /\ admissionAnswer' \in [Callers -> {"none", "waiting"} \cup Answered]
      /\ \A c \in Callers : admissionAnswer'[c] = "waiting" <=> admissionAnswer[c] = "waiting" /\ c \notin subscribers[k]
  BY <1>1, <1>2 DEF BookOK
<1>5. \A c \in Callers :
         admissionAnswer'[c] = "waiting" <=> \E l \in AdmissionKeys : c \in subscribers'[l] /\ entry'[l] # "none"
  <2> SUFFICES ASSUME NEW c \in Callers
               PROVE  admissionAnswer'[c] = "waiting" <=> \E l \in AdmissionKeys : c \in subscribers'[l] /\ entry'[l] # "none"
    OBVIOUS
  <2>1. ASSUME admissionAnswer'[c] = "waiting" PROVE \E l \in AdmissionKeys : c \in subscribers'[l] /\ entry'[l] # "none"
    <3>1. PICK l \in AdmissionKeys : c \in subscribers[l] /\ entry[l] # "none"
      BY <1>4, <2>1 DEF BookOK, Admission!NobodyForgotten
    <3>2. l # k
      BY <1>4, <2>1, <3>1
    <3>3. QED
      BY <1>3, <3>1, <3>2
  <2>2. ASSUME NEW l \in AdmissionKeys, c \in subscribers'[l], entry'[l] # "none" PROVE admissionAnswer'[c] = "waiting"
    <3>1. l # k /\ c \in subscribers[l] /\ entry[l] # "none"
      BY <1>3, <2>2
    <3>2. admissionAnswer[c] = "waiting" /\ c \notin subscribers[k]
      BY <3>1 DEF BookOK, Admission!NobodyForgotten
    <3>3. QED
      BY <1>4, <3>2
  <2>3. QED
    BY <2>1, <2>2
<1>6. \A l, m \in AdmissionKeys : l # m => subscribers'[l] \cap subscribers'[m] = {}
  BY <1>3 DEF BookOK, Admission!NobodyForgotten
<1>7. \A l \in AdmissionKeys : entry'[l] # "none" <=> subscribers'[l] # {}
  BY <1>3 DEF BookOK, Admission!NobodyForgotten
<1>8. QED
  BY <1>3, <1>4, <1>5, <1>6, <1>7 DEF BookOK, Admission!NobodyForgotten

\* A caller subscribes to an entry, which may be new.
LEMMA BookSubscribes ==
    ASSUME BookOK, NEW c \in Callers, NEW k \in AdmissionKeys, admissionAnswer[c] = "none",
           subscribers' = [subscribers EXCEPT ![k] = subscribers[k] \cup {c}],
           admissionAnswer' = [admissionAnswer EXCEPT ![c] = "waiting"],
           entry' \in [AdmissionKeys -> {"none", "queued", "running"}], entry'[k] # "none",
           \A l \in AdmissionKeys \ {k} : entry'[l] = entry[l]
    PROVE  BookOK'
<1>1. /\ subscribers' \in [AdmissionKeys -> SUBSET Callers] /\ subscribers'[k] = subscribers[k] \cup {c}
      /\ \A l \in AdmissionKeys \ {k} : subscribers'[l] = subscribers[l]
  BY DEF BookOK
<1>2. /\ admissionAnswer' \in [Callers -> {"none", "waiting"} \cup Answered] /\ admissionAnswer'[c] = "waiting"
      /\ \A d \in Callers \ {c} : admissionAnswer'[d] = admissionAnswer[d]
  BY DEF BookOK
<1>3. \A l \in AdmissionKeys : c \notin subscribers[l]
  BY DEF BookOK, Admission!NobodyForgotten
<1>4. \A d \in Callers :
         admissionAnswer'[d] = "waiting" <=> \E l \in AdmissionKeys : d \in subscribers'[l] /\ entry'[l] # "none"
  <2> SUFFICES ASSUME NEW d \in Callers
               PROVE  admissionAnswer'[d] = "waiting" <=> \E l \in AdmissionKeys : d \in subscribers'[l] /\ entry'[l] # "none"
    OBVIOUS
  <2>1. CASE d = c
    BY <1>1, <1>2, <2>1
  <2>2. CASE d # c
    <3>1. \A l \in AdmissionKeys : d \in subscribers'[l] <=> d \in subscribers[l]
      BY <1>1, <2>2
    <3>2. \A l \in AdmissionKeys : d \in subscribers[l] => (entry'[l] # "none" /\ entry[l] # "none")
      BY DEF BookOK, Admission!NobodyForgotten
    <3>3. admissionAnswer[d] = "waiting" <=> \E l \in AdmissionKeys : d \in subscribers[l] /\ entry[l] # "none"
      BY DEF BookOK, Admission!NobodyForgotten
    <3>4. QED
      BY <1>2, <2>2, <3>1, <3>2, <3>3
  <2>3. QED
    BY <2>1, <2>2
<1>5. \A l, m \in AdmissionKeys : l # m => subscribers'[l] \cap subscribers'[m] = {}
  BY <1>1, <1>3 DEF BookOK, Admission!NobodyForgotten
<1>6. \A l \in AdmissionKeys : entry'[l] # "none" <=> subscribers'[l] # {}
  BY <1>1 DEF BookOK, Admission!NobodyForgotten
<1>7. QED
  BY <1>1, <1>2, <1>4, <1>5, <1>6 DEF BookOK, Admission!NobodyForgotten

\* A caller goes away, and with the last one its entry.
LEMMA BookCancels ==
    ASSUME BookOK, NEW c \in Callers, NEW k \in AdmissionKeys, c \in subscribers[k],
           subscribers' = [subscribers EXCEPT ![k] = subscribers[k] \ {c}],
           admissionAnswer' = [admissionAnswer EXCEPT ![c] = "cancelled"],
           entry' = IF subscribers[k] = {c} THEN [entry EXCEPT ![k] = "none"] ELSE entry
    PROVE  BookOK'
<1>1. /\ subscribers' \in [AdmissionKeys -> SUBSET Callers] /\ subscribers'[k] = subscribers[k] \ {c}
      /\ \A l \in AdmissionKeys \ {k} : subscribers'[l] = subscribers[l] /\ entry'[l] = entry[l]
      /\ entry' \in [AdmissionKeys -> {"none", "queued", "running"}]
      /\ entry'[k] = IF subscribers[k] = {c} THEN "none" ELSE entry[k]
  BY DEF BookOK
<1>2. /\ admissionAnswer' \in [Callers -> {"none", "waiting"} \cup Answered] /\ admissionAnswer'[c] = "cancelled"
      /\ \A d \in Callers \ {c} : admissionAnswer'[d] = admissionAnswer[d]
  BY DEF BookOK, Answered
<1>3. \A l \in AdmissionKeys \ {k} : c \notin subscribers[l]
  BY DEF BookOK, Admission!NobodyForgotten
<1>4. entry[k] # "none"
  BY DEF BookOK, Admission!NobodyForgotten
<1>5. \A l \in AdmissionKeys : entry'[l] # "none" <=> subscribers'[l] # {}
  BY <1>1, <1>4 DEF BookOK, Admission!NobodyForgotten
<1>6. \A d \in Callers :
         admissionAnswer'[d] = "waiting" <=> \E l \in AdmissionKeys : d \in subscribers'[l] /\ entry'[l] # "none"
  <2> SUFFICES ASSUME NEW d \in Callers
               PROVE  admissionAnswer'[d] = "waiting" <=> \E l \in AdmissionKeys : d \in subscribers'[l] /\ entry'[l] # "none"
    OBVIOUS
  <2>1. CASE d = c
    BY <1>1, <1>2, <1>3, <2>1
  <2>2. CASE d # c
    <3>1. \A l \in AdmissionKeys : d \in subscribers'[l] <=> d \in subscribers[l]
      BY <1>1, <2>2
    <3>2. \A l \in AdmissionKeys : d \in subscribers[l] => (entry'[l] # "none" /\ entry[l] # "none")
      BY <1>5, <3>1 DEF BookOK, Admission!NobodyForgotten
    <3>3. admissionAnswer[d] = "waiting" <=> \E l \in AdmissionKeys : d \in subscribers[l] /\ entry[l] # "none"
      BY DEF BookOK, Admission!NobodyForgotten
    <3>4. QED
      BY <1>2, <2>2, <3>1, <3>2, <3>3
  <2>3. QED
    BY <2>1, <2>2
<1>7. \A l, m \in AdmissionKeys : l # m => subscribers'[l] \cap subscribers'[m] = {}
  BY <1>1 DEF BookOK, Admission!NobodyForgotten
<1>8. QED
  BY <1>1, <1>2, <1>5, <1>6, <1>7 DEF BookOK, Admission!NobodyForgotten

LEMMA TimesKept ==
    ASSUME TimesOK, UNCHANGED <<admissionNow, nextStartAt, budgetDate, budgetUsed, lastStart, startsToday>>,
           spacingTimer' \in Nat \cup {NoTimer}, expiresAt' \in [AdmissionKeys -> Nat], pumping' \in BOOLEAN
    PROVE  TimesOK'
<1>1. Admission!Used' = Admission!Used
  BY DEF Admission!Used
<1>2. QED
  BY <1>1 DEF TimesOK

\* A queued entry leaves the queue, wherever it stands.
LEMMA Unqueued ==
    ASSUME BookOK, QueueOK, NEW k \in AdmissionKeys, entry[k] = "queued", entry' = [entry EXCEPT ![k] = "none"],
           queue' = Admission!Without(k)
    PROVE  Holds(queue', Keyed') /\ Len(queue') = Len(queue) - 1 /\ Len(queue) \in Nat \ {0} /\ Running' = Running
<1> DEFINE i == CHOOSE i \in DOMAIN queue : queue[i] = k
<1>1. Holds(queue, Keyed) /\ k \in Keyed
  BY DEF QueueOK, Keyed
<1>2. queue \in Seq(AdmissionKeys) /\ Len(queue) \in Nat /\ DOMAIN queue = 1..Len(queue)
  BY <1>1, LenProperties DEF Holds
<1>3. i \in 1..Len(queue) /\ queue[i] = k
  BY <1>1, <1>2 DEF Holds
<1>4. queue' = Admission!RemoveAt(queue, i)
  BY DEF Admission!Without
<1> HIDE DEF i
<1>5. Keyed' = Keyed \ {queue[i]} /\ Running' = Running
  BY <1>3 DEF BookOK, Keyed, Running
<1>6. Holds(queue', Keyed') /\ Len(queue') = Len(queue) - 1
  BY <1>1, <1>3, <1>4, <1>5, HoldsWithout
<1>7. QED
  BY <1>2, <1>3, <1>5, <1>6

\* The entry at the head leaves the queue.
LEMMA Shifted ==
    ASSUME BookOK, QueueOK, queue # <<>>, NEW to \in {"none", "running"},
           entry' = [entry EXCEPT ![Head(queue)] = to], queue' = Tail(queue)
    PROVE  /\ Head(queue) \in AdmissionKeys /\ entry[Head(queue)] = "queued"
           /\ Holds(queue', Keyed') /\ Len(queue') = Len(queue) - 1 /\ Len(queue) \in Nat \ {0}
           /\ Running' = IF to = "running" THEN Running \cup {Head(queue)} ELSE Running
<1>1. Holds(queue, Keyed)
  BY DEF QueueOK
<1>2. Len(queue) \in Nat
  BY <1>1, LenProperties DEF Holds
<1>3. Head(queue) \in Keyed
  BY <1>1, HoldsRest
<1>4. Head(queue) \in AdmissionKeys /\ entry[Head(queue)] = "queued"
  BY <1>3 DEF Keyed
<1>5. /\ Keyed' = Keyed \ {Head(queue)}
      /\ Running' = IF to = "running" THEN Running \cup {Head(queue)} ELSE Running
  BY <1>4 DEF BookOK, Keyed, Running
<1>6. Holds(queue', Keyed') /\ Len(queue') = Len(queue) - 1 /\ Len(queue) > 0
  BY <1>1, <1>5, HoldsRest
<1>7. QED
  BY <1>2, <1>4, <1>5, <1>6

\* An entry whose call was under way is forgotten.
LEMMA Freed ==
    ASSUME BookOK, SlotsOK, NEW k \in AdmissionKeys, entry[k] = "running", entry' = [entry EXCEPT ![k] = "none"]
    PROVE  /\ Keyed' = Keyed /\ IsFiniteSet(Running') /\ Cardinality(Running') = Cardinality(Running) - 1
           /\ Cardinality(Running) \in Nat \ {0} /\ Cardinality(Running') \in Nat
<1>1. Keyed' = Keyed /\ Running' = Running \ {k} /\ k \in Running
  BY DEF BookOK, Keyed, Running
<1>2. IsFiniteSet(Running) /\ Cardinality(Running) \in Nat
  BY FS_CardinalityType DEF SlotsOK
<1>3. IsFiniteSet(Running') /\ Cardinality(Running') = Cardinality(Running) - 1
  BY <1>1, <1>2, FS_RemoveElement
<1>4. Cardinality(Running') \in Nat
  BY <1>3, FS_CardinalityType
<1>5. QED
  BY <1>1, <1>2, <1>3, <1>4

\* The slots and the queue stay as they are.
LEMMA QueueStays ==
    ASSUME AdmissionInv, UNCHANGED <<entry, queue, admissionHeld, admissionActive, nextStartAt, admissionNow, pumping, spacingTimer>>
    PROVE  SlotsOK' /\ QueueOK'
  BY DEF AdmissionInv, SlotsOK, QueueOK, Keyed, Running, Admission!WakeUpPending

LEMMA AdmissionRuns ==
    ASSUME AdmissionInv, NEW c \in Callers, NEW k \in AdmissionKeys, Admission!run(c, k)
    PROVE  AdmissionInv'
<1>1. /\ ~pumping /\ admissionAnswer[c] = "none"
      /\ UNCHANGED <<admissionNow, nextStartAt, spacingTimer, admissionHeld, admissionActive>>
      /\ UNCHANGED <<budgetDate, budgetUsed, lastStart, startsToday>>
  BY DEF Admission!run, Admission!budget, Admission!history
<1>2. BookOK /\ SlotsOK /\ QueueOK /\ TimesOK
  BY DEF AdmissionInv
<1>3. CASE entry[k] # "none"
  <2>1. /\ subscribers' = [subscribers EXCEPT ![k] = subscribers[k] \cup {c}]
        /\ admissionAnswer' = [admissionAnswer EXCEPT ![c] = "waiting"]
        /\ UNCHANGED <<queue, entry, expiresAt, pumping>>
    BY <1>3 DEF Admission!run, Admission!Coalesces
  <2>2. BookOK'
    BY <1>1, <1>2, <1>3, <2>1, BookSubscribes DEF BookOK
  <2>3. TimesOK'
    BY <1>1, <1>2, <2>1, TimesKept DEF TimesOK
  <2>4. QED
    BY <1>1, <2>1, <2>2, <2>3, QueueStays DEF AdmissionInv
<1>4. CASE entry[k] = "none" /\ ~Admission!Admitted
  <2>1. /\ admissionAnswer' = [admissionAnswer EXCEPT ![c] = "queue_full"]
        /\ UNCHANGED <<queue, entry, expiresAt, subscribers, pumping>>
    BY <1>4 DEF Admission!run, Admission!Coalesces
  <2>2. BookOK'
    <3>1. /\ admissionAnswer' \in [Callers -> {"none", "waiting"} \cup Answered]
          /\ \A d \in Callers : admissionAnswer'[d] = "waiting" <=> admissionAnswer[d] = "waiting"
      BY <1>1, <1>2, <2>1 DEF BookOK, Answered
    <3>2. QED
      BY <1>2, <2>1, <3>1 DEF BookOK, Admission!NobodyForgotten
  <2>3. TimesOK'
    BY <1>1, <1>2, <2>1, TimesKept DEF TimesOK
  <2>4. QED
    BY <1>1, <2>1, <2>2, <2>3, QueueStays DEF AdmissionInv
<1>5. CASE entry[k] = "none" /\ Admission!Admitted
  <2>1. /\ entry' = [entry EXCEPT ![k] = "queued"] /\ queue' = Append(queue, k)
        /\ expiresAt' = [expiresAt EXCEPT ![k] = admissionNow + queueExpiry]
        /\ subscribers' = [subscribers EXCEPT ![k] = {c}]
        /\ admissionAnswer' = [admissionAnswer EXCEPT ![c] = "waiting"]
        /\ pumping' = TRUE
    BY <1>5 DEF Admission!run, Admission!Coalesces
  <2>2. /\ entry' \in [AdmissionKeys -> {"none", "queued", "running"}] /\ entry'[k] = "queued"
        /\ \A l \in AdmissionKeys \ {k} : entry'[l] = entry[l]
        /\ Keyed' = Keyed \cup {k} /\ Running' = Running /\ k \notin Keyed
    BY <1>2, <1>5, <2>1 DEF BookOK, Keyed, Running
  <2>3. subscribers[k] = {}
    BY <1>2, <1>5 DEF BookOK, Admission!NobodyForgotten
  <2>4. subscribers' = [subscribers EXCEPT ![k] = subscribers[k] \cup {c}]
    BY <2>1, <2>3
  <2>5. BookOK'
    BY <1>1, <1>2, <2>1, <2>2, <2>4, BookSubscribes
  <2>6. Holds(queue', Keyed') /\ Len(queue') = Len(queue) + 1
    BY <1>2, <2>1, <2>2, HoldsLast DEF QueueOK
  <2>7. Len(queue) \in Nat
    BY <1>2, LenProperties DEF QueueOK, Holds
  <2>8. Len(queue') <= maxPending \/ (pumping' /\ Len(queue') = 1 /\ admissionActive < maxActive /\ nextStartAt <= admissionNow)
    <3>1. CASE admissionActive < maxActive /\ queue = <<>> /\ nextStartAt <= admissionNow
      BY <2>1, <2>6, <3>1
    <3>2. CASE Len(queue) < maxPending
      BY <2>6, <2>7, <3>2, Settings
    <3>3. QED
      BY <1>5, <3>1, <3>2 DEF Admission!Admitted
  <2>9. QueueOK'
    BY <1>1, <2>1, <2>6, <2>8 DEF QueueOK, Admission!WakeUpPending
  <2>10. SlotsOK'
    BY <1>1, <1>2, <2>2 DEF SlotsOK
  <2>11. expiresAt' \in [AdmissionKeys -> Nat]
    <3>1. admissionNow + queueExpiry \in Nat /\ expiresAt \in [AdmissionKeys -> Nat]
      BY <1>2, Settings DEF TimesOK
    <3>2. QED
      BY <2>1, <3>1
  <2>12. TimesOK'
    BY <1>1, <1>2, <2>1, <2>11, TimesKept DEF TimesOK
  <2>13. QED
    BY <2>5, <2>9, <2>10, <2>12 DEF AdmissionInv
<1>6. QED
  BY <1>3, <1>4, <1>5

LEMMA AdmissionCancels ==
    ASSUME AdmissionInv, NEW c \in Callers, NEW k \in AdmissionKeys, Admission!cancel(c, k)
    PROVE  AdmissionInv'
<1>1. /\ ~pumping /\ c \in subscribers[k]
      /\ admissionAnswer' = [admissionAnswer EXCEPT ![c] = "cancelled"]
      /\ subscribers' = [subscribers EXCEPT ![k] = subscribers[k] \ {c}]
      /\ UNCHANGED <<admissionNow, expiresAt, nextStartAt, spacingTimer, admissionActive>>
      /\ UNCHANGED <<budgetDate, budgetUsed, lastStart, startsToday>>
  BY DEF Admission!cancel, Admission!time, Admission!budget, Admission!history
<1>2. BookOK /\ SlotsOK /\ QueueOK /\ TimesOK
  BY DEF AdmissionInv
<1>3. CASE subscribers[k] = {c}
  <2>1. /\ entry' = [entry EXCEPT ![k] = "none"] /\ pumping' = TRUE
        /\ queue' = IF entry[k] = "queued" THEN Admission!Without(k) ELSE queue
        /\ admissionHeld' = admissionHeld + (IF entry[k] = "running" THEN 1 ELSE 0)
    BY <1>3 DEF Admission!cancel, Admission!Unobserved
  <2>2. BookOK'
    BY <1>1, <1>2, <1>3, <2>1, BookCancels
  <2>3. TimesOK'
    BY <1>1, <1>2, <2>1, TimesKept DEF TimesOK
  <2>4. entry[k] \in {"queued", "running"}
    BY <1>1, <1>2 DEF BookOK, Admission!NobodyForgotten
  <2>5. CASE entry[k] = "queued"
    <3>1. Holds(queue', Keyed') /\ Len(queue') = Len(queue) - 1 /\ Len(queue) \in Nat \ {0} /\ Running' = Running
      BY <1>2, <2>1, <2>5, Unqueued
    <3>2. Len(queue) <= maxPending
      BY <1>1, <1>2 DEF QueueOK
    <3>3. Len(queue') <= maxPending
      BY <3>1, <3>2, Settings
    <3>4. QueueOK'
      BY <2>1, <3>1, <3>3 DEF QueueOK, Admission!WakeUpPending
    <3>5. admissionHeld' = admissionHeld
      BY <1>2, <2>1, <2>5 DEF SlotsOK
    <3>6. SlotsOK'
      BY <1>1, <1>2, <3>1, <3>5 DEF SlotsOK
    <3>7. QED
      BY <2>2, <2>3, <3>4, <3>6 DEF AdmissionInv
  <2>6. CASE entry[k] = "running"
    <3>1. /\ Keyed' = Keyed /\ IsFiniteSet(Running') /\ Cardinality(Running') = Cardinality(Running) - 1
          /\ Cardinality(Running) \in Nat \ {0}
      BY <1>2, <2>1, <2>6, Freed
    <3>2. admissionHeld' = admissionHeld + 1 /\ queue' = queue
      BY <2>1, <2>6
    <3>3. SlotsOK'
      BY <1>1, <1>2, <3>1, <3>2 DEF SlotsOK
    <3>4. QueueOK'
      BY <1>1, <1>2, <2>1, <3>1, <3>2 DEF QueueOK, Admission!WakeUpPending
    <3>5. QED
      BY <2>2, <2>3, <3>3, <3>4 DEF AdmissionInv
  <2>7. QED
    BY <2>4, <2>5, <2>6
<1>4. CASE subscribers[k] # {c}
  <2>1. UNCHANGED <<entry, pumping, queue, admissionHeld>>
    BY <1>4 DEF Admission!cancel, Admission!Unobserved
  <2>2. BookOK'
    BY <1>1, <1>2, <1>4, <2>1, BookCancels
  <2>3. TimesOK'
    BY <1>1, <1>2, <2>1, TimesKept DEF TimesOK
  <2>4. QED
    BY <1>1, <2>1, <2>2, <2>3, QueueStays DEF AdmissionInv
<1>5. QED
  BY <1>3, <1>4

\* An entry in the queue expires, there or as the pump comes to it.
LEMMA AdmissionExpires ==
    ASSUME AdmissionInv, NEW k \in AdmissionKeys, Admission!expireQueued(k)
    PROVE  AdmissionInv'
<1>1. /\ ~pumping /\ entry[k] = "queued" /\ queue' = Admission!Without(k) /\ Admission!settle(k, "expired")
      /\ pumping' = TRUE /\ entry' = [entry EXCEPT ![k] = "none"]
      /\ UNCHANGED <<admissionNow, expiresAt, nextStartAt, spacingTimer, admissionHeld, admissionActive>>
      /\ UNCHANGED <<budgetDate, budgetUsed, lastStart, startsToday>>
  BY DEF Admission!expireQueued, Admission!settle, Admission!time, Admission!budget, Admission!history
<1>2. BookOK /\ SlotsOK /\ QueueOK /\ TimesOK
  BY DEF AdmissionInv
<1>3. BookOK'
  BY <1>1, <1>2, BookSettles DEF Answered
<1>4. Holds(queue', Keyed') /\ Len(queue') = Len(queue) - 1 /\ Len(queue) \in Nat \ {0} /\ Running' = Running
  BY <1>1, <1>2, Unqueued
<1>5. Len(queue) <= maxPending
  BY <1>1, <1>2 DEF QueueOK
<1>6. Len(queue') <= maxPending
  BY <1>4, <1>5, Settings
<1>7. QueueOK' /\ SlotsOK'
  BY <1>1, <1>2, <1>4, <1>6 DEF QueueOK, SlotsOK, Admission!WakeUpPending
<1>8. TimesOK'
  BY <1>1, <1>2, TimesKept DEF TimesOK
<1>9. QED
  BY <1>3, <1>7, <1>8 DEF AdmissionInv

LEMMA PumpStops ==
    ASSUME AdmissionInv, Admission!pumpStops \/ Admission!spacingElapsed
    PROVE  AdmissionInv'
<1>1. /\ UNCHANGED <<queue, entry, subscribers, admissionHeld, admissionActive, admissionAnswer>>
      /\ UNCHANGED <<admissionNow, expiresAt, nextStartAt, budgetDate, budgetUsed, lastStart, startsToday>>
      /\ pumping' \in BOOLEAN
  BY DEF Admission!pumpStops, Admission!spacingElapsed, Admission!budget, Admission!history
<1>2. BookOK /\ SlotsOK /\ QueueOK /\ TimesOK
  BY DEF AdmissionInv
<1>3. BookOK' /\ SlotsOK'
  BY <1>1, <1>2 DEF BookOK, SlotsOK, Running, Admission!NobodyForgotten
<1>4. Keyed' = Keyed
  BY <1>1 DEF Keyed
<1>5. spacingTimer' \in Nat \cup {NoTimer}
  BY <1>2 DEF TimesOK, Admission!pumpStops, Admission!spacingElapsed, Admission!Wakes
<1>6. TimesOK'
  BY <1>1, <1>2, <1>5, TimesKept DEF TimesOK
<1>7. CASE Admission!pumpStops
  <2>1. pumping /\ pumping' = FALSE
    BY <1>7 DEF Admission!pumpStops
  <2>2. CASE (admissionActive >= maxActive \/ queue = <<>>) /\ UNCHANGED spacingTimer
    <3>1. admissionActive \in Nat /\ maxActive \in Nat
      BY <1>2, Settings, FS_CardinalityType DEF SlotsOK
    <3>2. ~(Len(queue) = 1 /\ admissionActive < maxActive)
      BY <2>2, <3>1
    <3>3. Len(queue) <= maxPending
      BY <1>2, <3>2 DEF QueueOK
    <3>4. ~(queue # <<>> /\ admissionActive < maxActive)
      BY <2>2, <3>1
    <3>5. QED
      BY <1>1, <1>2, <1>3, <1>4, <1>6, <3>3, <3>4 DEF QueueOK, Admission!WakeUpPending, AdmissionInv
  <2>3. CASE nextStartAt > admissionNow /\ spacingTimer' = Admission!Wakes
    <3>1. nextStartAt \in Nat /\ admissionNow \in Nat
      BY <1>2, Settings DEF TimesOK
    <3>2. ~(nextStartAt <= admissionNow)
      BY <2>3, <3>1
    <3>3. Len(queue) <= maxPending
      BY <1>2, <3>2 DEF QueueOK
    <3>4. spacingTimer' # NoTimer
      BY <2>3, <3>1, Settings DEF Admission!Wakes
    <3>5. QED
      BY <1>1, <1>2, <1>3, <1>4, <1>6, <3>3, <3>4 DEF QueueOK, Admission!WakeUpPending, AdmissionInv
  <2>4. QED
    BY <1>7, <2>2, <2>3 DEF Admission!pumpStops
<1>8. CASE Admission!spacingElapsed
  <2>1. ~pumping /\ pumping' = TRUE
    BY <1>8 DEF Admission!spacingElapsed
  <2>2. QED
    BY <1>1, <1>2, <1>3, <1>4, <1>6, <2>1 DEF QueueOK, Admission!WakeUpPending, AdmissionInv
<1>9. QED
  BY <1>7, <1>8

\* The pump refuses the entry at the head.
LEMMA PumpDrops ==
    ASSUME AdmissionInv, Admission!pumpExpires \/ Admission!pumpRefuses
    PROVE  AdmissionInv'
<1>1. PICK a \in {"expired", "budget"} :
         /\ pumping /\ admissionActive < maxActive /\ queue # <<>> /\ queue' = Tail(queue)
         /\ Admission!settle(Head(queue), a) /\ entry' = [entry EXCEPT ![Head(queue)] = "none"]
         /\ UNCHANGED <<admissionNow, expiresAt, nextStartAt, spacingTimer, admissionHeld, admissionActive, pumping>>
         /\ UNCHANGED <<lastStart, startsToday>>
  BY DEF Admission!pumpExpires, Admission!pumpRefuses, Admission!Startable, Admission!settle, Admission!Head1,
     Admission!time, Admission!history
<1>2. BookOK /\ SlotsOK /\ QueueOK /\ TimesOK
  BY DEF AdmissionInv
<1>3. /\ Head(queue) \in AdmissionKeys /\ Holds(queue', Keyed') /\ Len(queue') = Len(queue) - 1
      /\ Len(queue) \in Nat \ {0} /\ Running' = Running
  BY <1>1, <1>2, Shifted
<1>4. BookOK'
  BY <1>1, <1>2, <1>3, BookSettles DEF Answered
<1>5. Len(queue') <= maxPending
  BY <1>2, <1>3, Settings DEF QueueOK
<1>6. QueueOK' /\ SlotsOK'
  BY <1>1, <1>2, <1>3, <1>5 DEF QueueOK, SlotsOK, Admission!WakeUpPending
<1>7. TimesOK'
  <2>1. CASE Admission!pumpExpires
    BY <1>1, <1>2, <2>1, TimesKept DEF TimesOK, Admission!pumpExpires, Admission!budget
  <2>2. CASE Admission!pumpRefuses
    <3>1. budgetDate' = admissionNow \div Day /\ budgetUsed' = Admission!Used
      BY <2>2 DEF Admission!pumpRefuses
    <3>2. Admission!Used' = Admission!Used
      BY <1>1, <3>1 DEF Admission!Used
    <3>3. Admission!Used \in 0..dailyBudget
      BY <1>2, Settings DEF TimesOK, Admission!Used
    <3>4. QED
      BY <1>1, <1>2, <3>1, <3>2, <3>3 DEF TimesOK
  <2>3. QED
    BY <2>1, <2>2
<1>8. QED
  BY <1>4, <1>6, <1>7 DEF AdmissionInv

\* The provider is called for the entry at the head.
LEMMA PumpStarts ==
    ASSUME AdmissionInv, Admission!pumpStarts
    PROVE  AdmissionInv'
<1>1. /\ pumping /\ admissionActive < maxActive /\ queue # <<>> /\ queue' = Tail(queue)
      /\ entry' = [entry EXCEPT ![Head(queue)] = "running"] /\ admissionActive' = admissionActive + 1
      /\ UNCHANGED <<admissionNow, expiresAt, spacingTimer, subscribers, admissionHeld, pumping, admissionAnswer>>
      /\ budgetDate' = admissionNow \div Day /\ budgetUsed' = Admission!Used + 1 /\ Admission!Used < dailyBudget
      /\ nextStartAt' = admissionNow + minStartInterval /\ lastStart' = admissionNow /\ startsToday' = startsToday + 1
  BY DEF Admission!pumpStarts, Admission!Startable, Admission!Head1, Admission!NextStart
<1>2. BookOK /\ SlotsOK /\ QueueOK /\ TimesOK
  BY DEF AdmissionInv
<1>3. /\ Head(queue) \in AdmissionKeys /\ entry[Head(queue)] = "queued" /\ Holds(queue', Keyed')
      /\ Len(queue') = Len(queue) - 1 /\ Len(queue) \in Nat \ {0} /\ Running' = Running \cup {Head(queue)}
  BY <1>1, <1>2, Shifted
<1>4. BookOK'
  BY <1>1, <1>2, <1>3 DEF BookOK, Admission!NobodyForgotten
<1>5. Len(queue') <= maxPending
  BY <1>2, <1>3, Settings DEF QueueOK
<1>6. QueueOK'
  BY <1>1, <1>3, <1>5 DEF QueueOK, Admission!WakeUpPending
<1>7. SlotsOK'
  <2>1. Head(queue) \notin Running /\ IsFiniteSet(Running)
    BY <1>2, <1>3 DEF Running, SlotsOK
  <2>2. IsFiniteSet(Running') /\ Cardinality(Running') = Cardinality(Running) + 1
    BY <1>3, <2>1, FS_AddElement
  <2>3. Cardinality(Running) \in Nat
    BY <2>1, FS_CardinalityType
  <2>4. QED
    BY <1>1, <1>2, <2>2, <2>3, Settings, SMTT(30) DEF SlotsOK
<1>8. TimesOK'
  <2>1. Admission!Used' = Admission!Used + 1
    BY <1>1 DEF Admission!Used
  <2>2. Admission!Used \in Nat /\ startsToday \in Nat /\ startsToday <= Admission!Used /\ admissionNow \in Nat
    BY <1>2, Settings DEF TimesOK, Admission!Used
  <2>3. /\ budgetUsed' \in 0..dailyBudget /\ startsToday' \in Nat /\ startsToday' <= Admission!Used'
        /\ nextStartAt' \in Nat
    BY <1>1, <2>1, <2>2, Settings
  <2>4. lastStart' \in Nat \cup {NoTimer} /\ \A t \in Nat : lastStart' = t => nextStartAt' = t + minStartInterval
    BY <1>1, <2>2
  <2>5. QED
    BY <1>1, <1>2, <2>3, <2>4 DEF TimesOK
<1>9. QED
  BY <1>4, <1>6, <1>7, <1>8 DEF AdmissionInv

\* The provider's call is over, or its time is, and then its slot is held.
LEMMA ProviderEnds ==
    ASSUME AdmissionInv, NEW k \in AdmissionKeys, Admission!providerEnds(k) \/ Admission!timedOut(k)
    PROVE  AdmissionInv'
<1>1. PICK a \in {"address", "failed", "timeout"} :
         /\ ~pumping /\ entry[k] = "running" /\ Admission!settle(k, a) /\ entry' = [entry EXCEPT ![k] = "none"]
         /\ UNCHANGED <<admissionNow, expiresAt, nextStartAt, spacingTimer, queue>>
         /\ UNCHANGED <<budgetDate, budgetUsed, lastStart, startsToday>>
         /\ \/ admissionActive' = admissionActive - 1 /\ pumping' = TRUE /\ admissionHeld' = admissionHeld
            \/ admissionActive' = admissionActive /\ pumping' = pumping /\ admissionHeld' = admissionHeld + 1
  BY DEF Admission!providerEnds, Admission!timedOut, Admission!Holds, Admission!settle, Admission!time, Admission!budget,
     Admission!history
<1>2. BookOK /\ SlotsOK /\ QueueOK /\ TimesOK
  BY DEF AdmissionInv
<1>3. BookOK'
  BY <1>1, <1>2, BookSettles DEF Answered
<1>4. /\ Keyed' = Keyed /\ IsFiniteSet(Running') /\ Cardinality(Running') = Cardinality(Running) - 1
      /\ Cardinality(Running) \in Nat \ {0}
  BY <1>1, <1>2, Freed
<1>5. SlotsOK'
  BY <1>1, <1>2, <1>4, Settings DEF SlotsOK
<1>6. QueueOK'
  BY <1>1, <1>2, <1>4 DEF QueueOK, Admission!WakeUpPending
<1>7. pumping' \in BOOLEAN
  BY <1>1, <1>2 DEF TimesOK
<1>8. TimesOK'
  BY <1>1, <1>2, <1>7, TimesKept DEF TimesOK
<1>9. QED
  BY <1>3, <1>5, <1>6, <1>8 DEF AdmissionInv

LEMMA HeldEnds ==
    ASSUME AdmissionInv, Admission!heldEnds
    PROVE  AdmissionInv'
<1>1. /\ ~pumping /\ pumping' = TRUE /\ admissionHeld > 0 /\ admissionHeld' = admissionHeld - 1
      /\ admissionActive' = admissionActive - 1
      /\ UNCHANGED <<queue, entry, subscribers, admissionAnswer, admissionNow, expiresAt, nextStartAt, spacingTimer>>
      /\ UNCHANGED <<budgetDate, budgetUsed, lastStart, startsToday>>
  BY DEF Admission!heldEnds, Admission!time, Admission!budget, Admission!history
<1>2. BookOK /\ SlotsOK /\ QueueOK /\ TimesOK
  BY DEF AdmissionInv
<1>3. BookOK' /\ Running' = Running /\ Keyed' = Keyed
  BY <1>1, <1>2 DEF BookOK, Running, Keyed, Admission!NobodyForgotten
<1>4. Cardinality(Running) \in Nat
  BY <1>2, FS_CardinalityType DEF SlotsOK
<1>5. SlotsOK'
  BY <1>1, <1>2, <1>3, <1>4, Settings DEF SlotsOK
<1>6. QueueOK'
  BY <1>1, <1>2, <1>3 DEF QueueOK, Admission!WakeUpPending
<1>7. TimesOK'
  BY <1>1, <1>2, TimesKept DEF TimesOK
<1>8. QED
  BY <1>3, <1>5, <1>6, <1>7 DEF AdmissionInv

\* The day changes only as a multiple of its length is reached.
LEMMA SameDay ==
    ASSUME NEW t \in Nat, NEW d \in Nat \ {0}, (t + 1) % d # 0
    PROVE  (t + 1) \div d = t \div d
<1> DEFINE q == t \div d
           r == t % d
           u == (t + 1) \div d
           v == (t + 1) % d
<1>1. q \in Nat /\ r \in Nat /\ r < d /\ t = d * q + r
  OBVIOUS
<1>2. u \in Nat /\ v \in Nat /\ v < d /\ t + 1 = d * u + v
  OBVIOUS
<1>3. v > 0
  BY <1>2
<1> HIDE DEF q, r, u, v
<1>4. ~(u >= q + 1)
  <2> SUFFICES ASSUME u >= q + 1 PROVE FALSE
    OBVIOUS
  <2>1. d * u >= d * (q + 1) /\ d * (q + 1) = d * q + d
    BY <1>1, <1>2
  <2>2. QED
    BY <1>1, <1>2, <1>3, <2>1
<1>5. ~(q >= u + 1)
  <2> SUFFICES ASSUME q >= u + 1 PROVE FALSE
    OBVIOUS
  <2>1. d * q >= d * (u + 1) /\ d * (u + 1) = d * u + d
    BY <1>1, <1>2
  <2>2. QED
    BY <1>1, <1>2, <2>1
<1>6. u = q
  BY <1>1, <1>2, <1>4, <1>5
<1>7. QED
  BY <1>6 DEF u, q

LEMMA AdmissionTicks ==
    ASSUME AdmissionInv, Admission!Tick
    PROVE  AdmissionInv'
<1>1. /\ ~pumping /\ admissionNow < AdmissionMaxTime /\ admissionNow' = admissionNow + 1
      /\ startsToday' = IF (admissionNow + 1) % Day = 0 THEN 0 ELSE startsToday
      /\ UNCHANGED <<queue, entry, subscribers, admissionHeld, admissionActive, admissionAnswer, pumping>>
      /\ UNCHANGED <<expiresAt, nextStartAt, spacingTimer, budgetDate, budgetUsed, lastStart>>
  BY DEF Admission!Tick, Admission!budget
<1>2. BookOK /\ SlotsOK /\ QueueOK /\ TimesOK
  BY DEF AdmissionInv
<1>3. BookOK' /\ SlotsOK' /\ Keyed' = Keyed
  BY <1>1, <1>2 DEF BookOK, SlotsOK, Running, Keyed, Admission!NobodyForgotten
<1>4. QueueOK'
  BY <1>1, <1>2, <1>3 DEF QueueOK, Admission!WakeUpPending
<1>5. admissionNow \in Nat /\ admissionNow' \in 0..AdmissionMaxTime
  BY <1>1, <1>2, Settings DEF TimesOK
<1>6. startsToday' \in Nat /\ startsToday' <= Admission!Used'
  <2>1. startsToday \in Nat /\ startsToday <= Admission!Used /\ budgetUsed \in Nat
    BY <1>2, Settings DEF TimesOK
  <2>2. CASE (admissionNow + 1) % Day = 0
    <3>1. startsToday' = 0
      BY <1>1, <2>2
    <3>2. Admission!Used' \in {0, budgetUsed}
      BY <1>1 DEF Admission!Used
    <3>3. QED
      BY <2>1, <3>1, <3>2
  <2>3. CASE (admissionNow + 1) % Day # 0
    <3>1. admissionNow' \div Day = admissionNow \div Day
      BY <1>1, <1>5, <2>3, Settings, SameDay
    <3>2. Admission!Used' = Admission!Used
      BY <1>1, <3>1 DEF Admission!Used
    <3>3. QED
      BY <1>1, <2>1, <2>3, <3>2
  <2>4. QED
    BY <2>2, <2>3
<1>7. TimesOK'
  BY <1>1, <1>2, <1>5, <1>6 DEF TimesOK
<1>8. QED
  BY <1>3, <1>4, <1>7 DEF AdmissionInv

LEMMA AdmissionNext == AdmissionInv /\ [PartsNext]_partsVars => AdmissionInv'
<1> SUFFICES ASSUME AdmissionInv, [PartsNext]_partsVars PROVE AdmissionInv'
  OBVIOUS
<1>1. CASE Admission!Next
  BY <1>1, AdmissionRuns, AdmissionCancels, AdmissionExpires, PumpStops, PumpDrops, PumpStarts, ProviderEnds, HeldEnds,
     AdmissionTicks DEF Admission!Next, Admission!pump, Admission!timers
<1>2. CASE UNCHANGED admissionVars
  <2>1. /\ UNCHANGED <<queue, entry, subscribers, admissionHeld, admissionActive, admissionAnswer, pumping>>
        /\ UNCHANGED <<admissionNow, expiresAt, nextStartAt, spacingTimer, budgetDate, budgetUsed, lastStart, startsToday>>
    BY <1>2 DEF admissionVars
  <2>2. BookOK'
    BY <2>1 DEF AdmissionInv, BookOK, Admission!NobodyForgotten
  <2>3. TimesOK'
    BY <2>1, TimesKept DEF AdmissionInv, TimesOK
  <2>4. QED
    BY <2>1, <2>2, <2>3, QueueStays DEF AdmissionInv
<1>3. QED
  BY <1>1, <1>2 DEF PartsNext, partsVars

\* Only the pump's start changes what is known of starts.
LEMMA OnlyStarts ==
    ASSUME AdmissionInv, [PartsNext]_partsVars, lastStart' # lastStart \/ startsToday' > startsToday
    PROVE  Admission!pumpStarts
<1>1. startsToday \in Nat
  BY DEF AdmissionInv, TimesOK
<1>2. ~(lastStart' = lastStart /\ startsToday' = startsToday)
  BY <1>1
<1>3. Admission!Next
  BY <1>2 DEF PartsNext, partsVars, admissionVars
<1>4. ~Admission!Tick
  BY <1>1 DEF Admission!Tick
<1>5. \A c \in Callers, k \in AdmissionKeys : ~Admission!run(c, k) /\ ~Admission!cancel(c, k)
  BY <1>2 DEF Admission!run, Admission!cancel, Admission!history
<1>6. ~Admission!pumpStops /\ ~Admission!pumpExpires /\ ~Admission!pumpRefuses /\ ~Admission!heldEnds /\ ~Admission!spacingElapsed
  BY <1>2 DEF Admission!pumpStops, Admission!pumpExpires, Admission!pumpRefuses, Admission!heldEnds, Admission!spacingElapsed,
     Admission!history
<1>7. \A k \in AdmissionKeys : ~Admission!expireQueued(k) /\ ~Admission!timedOut(k) /\ ~Admission!providerEnds(k)
  BY <1>2 DEF Admission!expireQueued, Admission!timedOut, Admission!providerEnds, Admission!history
<1>8. QED
  BY <1>3, <1>4, <1>5, <1>6, <1>7 DEF Admission!Next, Admission!pump, Admission!timers

\* However many callers ask, go away, expire or time out, and in whatever order the
\* pump, the timers and the provider come: whoever waits is subscribed to one entry
\* that is queued or running, an entry that could be started has a wake-up, the
\* slots count the calls that are under way, and the provider is called no more often
\* than agreed and never for an expired entry (reportAddressSuggestion.service.ts).
THEOREM AdmissionIsSound == PartsSpec => AdmissionSound
<1>1. PartsInit => AdmissionInv
  BY AdmissionStarts DEF PartsInit
<1>2. AdmissionInv => Admission!TypeOK /\ Admission!NobodyForgotten /\ Admission!WakeUpPending
  <2> SUFFICES ASSUME AdmissionInv PROVE Admission!TypeOK
    BY DEF AdmissionInv, BookOK, QueueOK
  <2>1. BookOK /\ SlotsOK /\ QueueOK /\ TimesOK /\ Holds(queue, Keyed)
    BY DEF AdmissionInv, QueueOK
  <2>2. queue \in Seq(AdmissionKeys) /\ Len(queue) \in Nat /\ DOMAIN queue = 1..Len(queue)
    BY <2>1, LenProperties DEF Holds
  <2>3. Admission!ToSet(queue) = Keyed /\ Admission!IsInjective(queue)
    BY <2>1, <2>2 DEF Holds, Admission!ToSet, Admission!IsInjective
  <2>4. admissionActive = admissionHeld + Admission!Cardinality(Running)
    BY <2>1, AdmissionCounts DEF SlotsOK
  <2>5. admissionActive \in 0..maxActive
    BY <2>1, FS_CardinalityType, Settings DEF SlotsOK
  <2>6. ~pumping => Len(queue) <= maxPending
    BY <2>1 DEF QueueOK
  <2>7. /\ admissionNow \in 0..AdmissionMaxTime /\ entry \in [AdmissionKeys -> {"none", "queued", "running"}]
        /\ subscribers \in [AdmissionKeys -> SUBSET Callers] /\ pumping \in BOOLEAN /\ budgetUsed \in 0..dailyBudget
    BY <2>1 DEF TimesOK, BookOK
  <2>8. admissionAnswer \in [Callers -> {"none", "waiting", "address", "queue_full", "cancelled", "expired", "budget",
                                         "timeout", "failed"}]
    BY <2>1 DEF BookOK, Answered
  <2>9. QED
    BY <2>3, <2>4, <2>5, <2>6, <2>7, <2>8 DEF Admission!TypeOK, Keyed, Running
<1>3. AdmissionInv /\ [PartsNext]_partsVars =>
         [ lastStart' # lastStart \/ startsToday' > startsToday
              => /\ lastStart = NoTimer \/ admissionNow >= lastStart + minStartInterval
                 /\ startsToday < dailyBudget
                 /\ subscribers[Admission!Head1] # {} /\ admissionNow < expiresAt[Admission!Head1] ]_Admission!vars
  <2> SUFFICES ASSUME AdmissionInv, [PartsNext]_partsVars, lastStart' # lastStart \/ startsToday' > startsToday
               PROVE  /\ lastStart = NoTimer \/ admissionNow >= lastStart + minStartInterval
                      /\ startsToday < dailyBudget
                      /\ subscribers[Admission!Head1] # {} /\ admissionNow < expiresAt[Admission!Head1]
    OBVIOUS
  <2>1. /\ queue # <<>> /\ expiresAt[Admission!Head1] > admissionNow /\ nextStartAt <= admissionNow
        /\ Admission!Used < dailyBudget
    BY OnlyStarts DEF Admission!pumpStarts, Admission!Startable
  <2>2. Admission!Head1 \in Keyed
    BY <2>1, HoldsRest DEF Admission!Head1, AdmissionInv, QueueOK
  <2>3. Admission!Head1 \in AdmissionKeys /\ subscribers[Admission!Head1] # {}
    BY <2>2 DEF Keyed, AdmissionInv, BookOK, Admission!NobodyForgotten
  <2>4. /\ expiresAt[Admission!Head1] \in Nat /\ admissionNow \in Nat /\ nextStartAt \in Nat /\ startsToday \in Nat
        /\ startsToday <= Admission!Used /\ Admission!Used \in Nat /\ lastStart \in Nat \cup {NoTimer}
        /\ \A t \in Nat : lastStart = t => nextStartAt = t + minStartInterval
    BY <2>3, Settings DEF AdmissionInv, TimesOK, Admission!Used
  <2>5. admissionNow < expiresAt[Admission!Head1] /\ startsToday < dailyBudget
    BY <2>1, <2>4, Settings
  <2>6. ASSUME lastStart # NoTimer PROVE admissionNow >= lastStart + minStartInterval
    <3>1. nextStartAt = lastStart + minStartInterval
      BY <2>4, <2>6
    <3>2. QED
      BY <2>1, <2>4, <3>1
  <2>7. QED
    BY <2>3, <2>5, <2>6
<1>4. PartsSpec => []AdmissionInv
  BY <1>1, AdmissionNext, PTL DEF PartsSpec
<1>5. PartsSpec => Admission!ProviderSpared
  BY <1>3, <1>4, PTL DEF PartsSpec, Admission!ProviderSpared
<1>6. QED
  BY <1>2, <1>4, <1>5, PTL DEF AdmissionSound

-----------------------------------------------------------------------------
(* The import queue and the sessions, by what their own modules prove.     *)

\* A step of the whole is one of the queue, or leaves its variables alone.
LEMMA QueueSteps == [PartsNext]_partsVars => [Queue!Next]_Queue!vars
<1>1. ASSUME UNCHANGED importVars PROVE UNCHANGED Queue!vars
  BY <1>1 DEF importVars, Queue!vars
<1>2. QED
  BY <1>1, Zenon DEF PartsNext, partsVars

\* Two workers that both believe they lead never have two batches in processing:
\* the unique index and the row locks suffice, for any workers, batches and keys
\* (importQueueWorker.service.ts).
THEOREM QueueIsSingle == PartsSpec => []SingleProcessing
<1>0. Queue!Assumption
  BY PartsAssumption
<1>1. PartsInit => Queue!Inv
  <2> SUFFICES ASSUME Queue!Init PROVE Queue!Inv
    BY DEF PartsInit
  <2> QED
    BY <1>0, Queue!InitInv
<1>2. Queue!Inv /\ [PartsNext]_partsVars => Queue!Inv'
  <2> SUFFICES ASSUME Queue!Inv, [Queue!Next]_Queue!vars PROVE Queue!Inv'
    BY QueueSteps
  <2> QED
    BY <1>0, Queue!NextInv
<1>3. Queue!Inv => SingleProcessing
  <2> SUFFICES ASSUME Queue!Inv PROVE Queue!SingleProcessing
    BY DEF SingleProcessing
  <2> QED
    BY <1>0, Queue!OneIsProcessed
<1>4. QED
  BY <1>1, <1>2, <1>3, PTL DEF PartsSpec

SessionsInv ==
    /\ part = "sessions" => Sessions!Inv
    /\ part = "tab" => Tab!Inv

LEMMA SessionsSteps ==
    ASSUME [PartsNext]_partsVars
    PROVE  /\ part' = part
           /\ part = "sessions" => [Sessions!Next]_Sessions!vars
           /\ part = "tab" => [Tab!Next]_Tab!vars
<1>1. ASSUME UNCHANGED sessionVars PROVE UNCHANGED Sessions!vars /\ UNCHANGED Tab!vars
  BY <1>1 DEF sessionVars, Sessions!vars, Sessions!browser, Sessions!history, Tab!vars, Tab!browser, Tab!history
<1>2. QED
  BY <1>1, Zenon DEF PartsNext, partsVars

\* Rotation trades a session for a session unless one is rotated twice, a clean
\* logout is final and a tab alone stays signed in: with two tabs, and with one tab
\* whose calls run side by side while statements fail, for any sets of tabs and any
\* number of sessions (auth.service.ts, adminApi.ts).
THEOREM SessionsAreSound == PartsSpec => []SessionsSound
<1>0. Sessions!SessionsAssumption /\ Tab!SessionsAssumption
  BY PartsAssumption
<1>1. PartsInit => SessionsInv
  <2>1. ASSUME Sessions!Init PROVE Sessions!Inv
    BY <1>0, <2>1, Sessions!InitInv
  <2>2. ASSUME Tab!Init PROVE Tab!Inv
    BY <1>0, <2>2, Tab!InitInv
  <2>3. QED
    BY <2>1, <2>2 DEF PartsInit, SessionsInv
<1>2. SessionsInv /\ [PartsNext]_partsVars => SessionsInv'
  <2>1. ASSUME Sessions!Inv, [Sessions!Next]_Sessions!vars PROVE Sessions!Inv'
    BY <1>0, <2>1, Sessions!StepInv
  <2>2. ASSUME Tab!Inv, [Tab!Next]_Tab!vars PROVE Tab!Inv'
    BY <1>0, <2>2, Tab!StepInv
  <2>3. QED
    BY <2>1, <2>2, SessionsSteps, Zenon DEF SessionsInv
<1>3. SessionsInv => SessionsSound
  <2>1. ASSUME Sessions!Inv PROVE Sessions!SessionsSound
    BY <1>0, <2>1, Sessions!InvIsSound
  <2>2. ASSUME Tab!Inv PROVE Tab!SessionsSound
    BY <1>0, <2>2, Tab!InvIsSound
  <2>3. QED
    BY <2>1, <2>2, Zenon DEF SessionsInv, SessionsSound
<1>4. QED
  BY <1>1, <1>2, <1>3, PTL DEF PartsSpec

-----------------------------------------------------------------------------
(* The export of the inventory.                                            *)

ExportPhases == {"idle", "sent", "connect", "begin", "read", "write", "drain", "commit", "rollback", "done"}
Connected    == {"begin", "read", "write", "drain", "commit", "rollback"}
ExportRecord ==
    [phase : ExportPhases, filter : {"active", "inactive", "all", "unknown"}, retried : BOOLEAN, conn : Conns \cup {None},
     started : BOOLEAN, chunk : Seq(Export!Row), full : BOOLEAN, last : Nat, sent : Seq(Export!Row), closed : BOOLEAN,
     response : {None, "ended", "error", "401", "destroyed"}]

ExportTypes ==
    /\ inventory \in Export!Inventory /\ ex \in [Exports -> ExportRecord]
    /\ conn \in [Conns -> [open : BOOLEAN, snapshot : Export!Inventory \cup {None}]]
    /\ client \in [Exports -> {"idle", "fetching", "refreshing", "saved", "failed", "login"}]
    /\ during \in [Exports -> SUBSET Export!Inventory]

Matching(inv, filter) == Export!buildStreetLightFilters(inv, filter)
Shown(r)              == Matching(conn[r.conn].snapshot, r.filter)

\* What was sent are the first rows of the snapshot; a chunk are the next ones,
\* and a chunk that is not full has all that are left.
SentOK(r)  == Export!InOrder(r.sent, {row \in Shown(r) : row.number <= r.last})
ChunkOK(r) ==
    /\ \A i \in 1..Len(r.chunk) : r.chunk[i] \in Shown(r) /\ r.chunk[i].number > r.last
    /\ \A i, j \in 1..Len(r.chunk) : i < j => r.chunk[i].number < r.chunk[j].number
    /\ \A row \in Shown(r) : row.number > r.last =>
          \/ \E i \in 1..Len(r.chunk) : r.chunk[i] = row
          \/ r.full /\ \A i \in 1..Len(r.chunk) : r.chunk[i].number < row.number

\* An export has a connection while it needs one. The connection was clean when
\* it came, has no snapshot before the first read and keeps its snapshot after it.
ConnectionOK(r) ==
    /\ r.conn # None <=> r.phase \in Connected
    /\ r.phase = "begin" => conn[r.conn] = Export!Closed
    /\ r.phase \in {"begin", "read"} => /\ r.chunk = <<>>
                                        /\ conn[r.conn].snapshot = None => r.sent = <<>> /\ r.last = 0
    /\ r.phase \in {"write", "drain", "commit"} => conn[r.conn].snapshot # None
    /\ r.phase \in {"read", "write", "drain"} /\ conn[r.conn].snapshot # None => SentOK(r)
    /\ r.phase \in {"write", "drain"} => ChunkOK(r)
    /\ r.phase = "commit" => Export!InOrder(r.sent, Shown(r))
    /\ Len(r.chunk) <= ChunkRows

\* The page and the handler: a request that is idle was not made, one with a
\* response is done, and one is repeated after its response only. The snapshot is
\* an inventory there was while the page waited, and so is what was ended.
PageOK(e) ==
    /\ client[e] = "idle" => ex[e].phase = "idle"
    /\ ex[e].phase \in {"idle", "sent", "connect", "begin"} => ex[e].sent = <<>> /\ ex[e].last = 0 /\ ex[e].chunk = <<>>
    /\ ex[e].response # None => ex[e].phase = "done"
    /\ client[e] = "refreshing" => ex[e].response # None
    /\ Export!Waiting(e) => inventory \in during[e]
    /\ Export!Waiting(e) /\ ex[e].conn # None /\ conn[ex[e].conn].snapshot # None => conn[ex[e].conn].snapshot \in during[e]
    /\ client[e] \in {"fetching", "saved"} /\ ex[e].response = "ended" =>
          \E inv \in during[e] : Export!InOrder(ex[e].sent, Matching(inv, ex[e].filter))

ExportInv ==
    /\ ExportTypes
    /\ \A e \in Exports : ConnectionOK(ex[e]) /\ PageOK(e)
    /\ \A e, f \in Exports : ex[e].conn = ex[f].conn /\ ex[e].conn # None => e = f
    /\ \A c \in Conns : c \notin Export!Held => conn[c] = Export!Closed
    /\ \A e \in Exports : client[e] = "saved" => ex[e].response = "ended"

\* A finite set of rows has one of the greatest number.
LEMMA LastRow ==
    ASSUME NEW S, IsFiniteSet(S), S # {}, \A r \in S : r.number \in Nat
    PROVE  \E m \in S : \A r \in S : r.number <= m.number
<1> DEFINE Above(r) == {q \in S : q.number > r.number}
           T == {Above(r) : r \in S}
<1>1. T \subseteq FiniteSubsetsOf(S) /\ T # {}
  <2>1. T \subseteq SUBSET S /\ T # {}
    OBVIOUS
  <2> HIDE DEF T
  <2>2. QED
    BY <2>1, FS_FiniteSubsetsOfFinite
<1>2. PICK A \in T : \A B \in T : <<B, A>> \notin StrictSubsetOrdering(S)
  <2> HIDE DEF T
  <2> QED
    BY <1>1, FS_StrictSubsetOrderingWellFounded, WFMin
<1>3. PICK m \in S : A = Above(m)
  BY <1>2
<1>4. ASSUME NEW r \in S, r.number > m.number PROVE FALSE
  <2>1. Above(r) \subseteq Above(m) /\ r \in Above(m) /\ r \notin Above(r)
    BY <1>4
  <2>2. Above(r) \in T /\ Above(r) \subseteq S /\ Above(m) \subseteq S
    OBVIOUS
  <2> HIDE DEF Above, T
  <2>3. <<Above(r), Above(m)>> \in StrictSubsetOrdering(S)
    BY <2>1, <2>2 DEF StrictSubsetOrdering
  <2> QED
    BY <1>2, <1>3, <2>2, <2>3
<1>5. QED
  BY <1>4

\* A finite set of rows with a number each can be put in order: there is no least
\* set that cannot, as one without its last row can.
LEMMA RowsInOrder ==
    ASSUME NEW S, IsFiniteSet(S), \A r \in S : r.number \in Nat,
           \A q, r \in S : q.number = r.number => q = r
    PROVE  \E s \in [1..Cardinality(S) -> S] : Export!InOrder(s, S)
<1> DEFINE Ordered(A) == \E s \in [1..Cardinality(A) -> A] : Export!InOrder(s, A)
           T == {A \in SUBSET S : ~Ordered(A)}
<1>1. SUFFICES ASSUME T # {} PROVE FALSE
  OBVIOUS
<1>2. T \subseteq FiniteSubsetsOf(S)
  BY FS_FiniteSubsetsOfFinite
<1>3. PICK A \in T : \A B \in T : <<B, A>> \notin StrictSubsetOrdering(S)
  <2> HIDE DEF T
  <2> QED
    BY <1>1, <1>2, FS_StrictSubsetOrderingWellFounded, WFMin
<1>4. A \subseteq S /\ ~Ordered(A) /\ IsFiniteSet(A)
  BY <1>3, FS_Subset
<1>5. CASE A = {}
  <2>1. Cardinality(A) = 0
    BY <1>5, FS_EmptySet
  <2>2. [i \in 1..0 |-> i] \in [1..Cardinality(A) -> A] /\ Export!InOrder([i \in 1..0 |-> i], A)
    BY <1>5, <2>1 DEF Export!InOrder
  <2>3. QED
    BY <1>4, <2>2
<1>6. CASE A # {}
  <2>1. PICK m \in A : \A r \in A : r.number <= m.number
    BY <1>4, <1>6, LastRow
  <2> DEFINE B == A \ {m}
             n == Cardinality(B)
  <2>2. IsFiniteSet(B) /\ n \in Nat /\ Cardinality(A) = n + 1
    <3>1. IsFiniteSet(B) /\ Cardinality(B) = Cardinality(A) - 1
      BY <1>4, FS_RemoveElement
    <3>2. n \in Nat /\ Cardinality(A) \in Nat
      BY <3>1, <1>4, FS_CardinalityType
    <3>3. QED
      BY <3>1, <3>2
  <2>3. B \subseteq S /\ <<B, A>> \in StrictSubsetOrdering(S)
    BY <1>4 DEF StrictSubsetOrdering
  <2>4. Ordered(B)
    <3> HIDE DEF B, Ordered
    <3> QED
      BY <1>3, <2>3
  <2>5. PICK s \in [1..n -> B] : Export!InOrder(s, B)
    BY <2>4
  <2> DEFINE t == [i \in 1..(n + 1) |-> IF i = n + 1 THEN m ELSE s[i]]
  <2> HIDE DEF n
  <2>6. \A i \in 1..n : i \in 1..(n + 1) /\ i # n + 1 /\ t[i] = s[i] /\ s[i] \in B /\ s[i].number < m.number
    <3> SUFFICES ASSUME NEW i \in 1..n
                 PROVE  i \in 1..(n + 1) /\ i # n + 1 /\ t[i] = s[i] /\ s[i] \in B /\ s[i].number < m.number
      OBVIOUS
    <3>1. i \in 1..(n + 1) /\ i # n + 1
      BY <2>2
    <3>2. s[i] \in B /\ s[i] \in S /\ m \in S /\ s[i] # m
      BY <2>5, <1>4
    <3>3. s[i].number <= m.number /\ s[i].number \in Nat /\ m.number \in Nat /\ s[i].number # m.number
      BY <3>2, <2>1, <1>4
    <3>4. QED
      BY <3>1, <3>2, <3>3
  <2>7. t[n + 1] = m /\ \A i \in 1..(n + 1) : i = n + 1 \/ i \in 1..n
    BY <2>2
  <2>8. DOMAIN t = 1..(n + 1) /\ DOMAIN s = 1..n
    OBVIOUS
  <2> HIDE DEF t
  <2>9. {t[i] : i \in 1..(n + 1)} = A
    <3>1. {s[i] : i \in 1..n} = B
      BY <2>5, <2>8 DEF Export!InOrder
    <3>2. ASSUME NEW r \in A PROVE \E i \in 1..(n + 1) : t[i] = r
      <4>1. CASE r = m
        BY <4>1, <2>2, <2>7
      <4>2. CASE r # m
        BY <4>2, <3>1, <2>6
      <4>3. QED
        BY <4>1, <4>2
    <3>3. \A i \in 1..(n + 1) : t[i] \in A
      BY <2>6, <2>7
    <3>4. QED
      BY <3>2, <3>3
  <2>10. \A i, j \in 1..(n + 1) : i < j => t[i].number < t[j].number
    <3> SUFFICES ASSUME NEW i \in 1..(n + 1), NEW j \in 1..(n + 1), i < j PROVE t[i].number < t[j].number
      OBVIOUS
    <3>1. i \in 1..n
      BY <2>2
    <3>2. CASE j = n + 1
      BY <3>1, <3>2, <2>6, <2>7
    <3>3. CASE j # n + 1
      <4>1. j \in 1..n
        BY <3>3, <2>7
      <4>2. s[i].number < s[j].number
        BY <3>1, <4>1, <2>5, <2>8 DEF Export!InOrder
      <4>3. QED
        BY <3>1, <4>1, <4>2, <2>6
    <3>4. QED
      BY <3>2, <3>3
  <2>11. t \in [1..(n + 1) -> A] /\ Export!InOrder(t, A)
    <3>1. t \in [1..(n + 1) -> A]
      BY <2>6, <2>7 DEF t
    <3>2. QED
      BY <3>1, <2>8, <2>9, <2>10 DEF Export!InOrder
  <2>12. QED
    BY <1>4, <2>2, <2>11
<1>7. QED
  BY <1>5, <1>6

LEMMA ExportSettings ==
    /\ ChunkRows \in Nat \ {0} /\ IsFiniteSet(Ids) /\ Ids \subseteq Nat /\ Numbers \subseteq Nat \ {0}
    /\ \A i \in Ids : i \in Numbers
    /\ Filters \subseteq {"active", "inactive", "all", "unknown"}
    /\ None \notin Conns /\ None \notin Export!Row /\ None \notin Export!Inventory
    /\ None \notin {"ended", "error", "401", "destroyed"}
  BY PartsAssumption DEF Export!ExportAssumption, Export!IsFiniteSet, IsFiniteSet

\* The rows that match are finitely many, and each has a number of its own.
LEMMA MatchingRows ==
    ASSUME NEW inv \in Export!Inventory, NEW filter
    PROVE  /\ Matching(inv, filter) \subseteq Export!Row
           /\ IsFiniteSet(Matching(inv, filter))
           /\ \A r \in Matching(inv, filter) : r.number \in Nat
           /\ \A q, r \in Matching(inv, filter) : q.number = r.number => q = r
<1> DEFINE D == {j \in Ids : inv[j] # None /\ filter \in {"all", inv[j].status}}
           f == [j \in D |-> inv[j]]
<1>1. inv \in [Ids -> Export!Row \cup {None}]
  BY DEF Export!Inventory
<1>2. Matching(inv, filter) = {inv[j] : j \in D}
  BY DEF Matching, Export!buildStreetLightFilters
<1>3. Matching(inv, filter) \subseteq Export!Row
  BY <1>1, <1>2
<1>4. IsFiniteSet(Matching(inv, filter))
  <2>1. IsFiniteSet(D)
    BY ExportSettings, FS_Subset
  <2>2. f \in Surjection(D, Matching(inv, filter))
    BY <1>2 DEF Surjection
  <2>3. QED
    BY <2>1, <2>2, FS_Surjection
<1>5. \A r \in Matching(inv, filter) : r.number \in Nat
  BY <1>3, ExportSettings DEF Export!Row
<1>6. ASSUME NEW q \in Matching(inv, filter), NEW r \in Matching(inv, filter), q.number = r.number PROVE q = r
  <2>1. PICK a \in Ids : inv[a] # None /\ q = inv[a]
    BY <1>2
  <2>2. PICK b \in Ids : inv[b] # None /\ r = inv[b]
    BY <1>2
  <2>3. QED
    BY <1>6, <2>1, <2>2 DEF Export!Inventory
<1>7. QED
  BY <1>3, <1>4, <1>5, <1>6

\* A chunk has the next rows in order, and all of them when it is not full.
LEMMA ChunkRead ==
    ASSUME NEW c, NEW inv \in Export!Inventory, Export!View(c) = inv, NEW filter, NEW last \in Nat
    PROVE  LET got == Export!readChunk(c, filter, last) IN
           /\ got \in Seq(Export!Row) /\ Len(got) <= ChunkRows
           /\ \A i \in 1..Len(got) : got[i] \in Matching(inv, filter) /\ got[i].number > last
           /\ \A i, j \in 1..Len(got) : i < j => got[i].number < got[j].number
           /\ \A row \in Matching(inv, filter) : row.number > last =>
                \/ \E i \in 1..Len(got) : got[i] = row
                \/ Len(got) = ChunkRows /\ \A i \in 1..Len(got) : got[i].number < row.number
<1> DEFINE R  == {r \in Matching(inv, filter) : r.number > last}
           s  == Export!Sorted(R)
           n  == Cardinality(R)
           k  == IF Len(s) < ChunkRows THEN Len(s) ELSE ChunkRows
           got == SubSeq(s, 1, k)
<1>1. Export!readChunk(c, filter, last) = got
  BY DEF Export!readChunk, Matching
<1>2. R \subseteq Export!Row /\ IsFiniteSet(R) /\ n \in Nat
  BY MatchingRows, FS_Subset, FS_CardinalityType
<1>3. s \in [1..n -> R] /\ Export!InOrder(s, R)
  <2>1. \A r \in R : r.number \in Nat
    BY MatchingRows
  <2>2. \A q, r \in R : q.number = r.number => q = r
    BY MatchingRows
  <2> HIDE DEF R
  <2>3. \E t \in [1..n -> R] : Export!InOrder(t, R)
    BY <1>2, <2>1, <2>2, RowsInOrder
  <2>4. Export!Cardinality(R) = n
    BY DEF Export!Cardinality, Cardinality
  <2>5. QED
    BY <2>3, <2>4 DEF Export!Sorted
<1> HIDE DEF s, n
<1>4. Len(s) = n /\ \A i \in 1..n : s[i] \in R
  <2>1. s \in Seq(R)
    BY <1>2, <1>3
  <2>2. QED
    BY <1>2, <1>3, <2>1
<1>5. k \in Nat /\ k <= n /\ k <= ChunkRows /\ (k = n \/ k = ChunkRows)
  BY <1>2, <1>4, ExportSettings
<1> HIDE DEF k
<1>6. \A i \in 1..k : i \in 1..n /\ s[i] \in R /\ s[i] \in Export!Row
  BY <1>2, <1>4, <1>5
<1>7. got \in Seq(Export!Row) /\ Len(got) = k /\ \A i \in 1..k : got[i] = s[i]
  <2>1. /\ got \in Seq(Export!Row)
        /\ Len(got) = IF 1 <= k THEN k - 1 + 1 ELSE 0
        /\ \A i \in 1..(k - 1 + 1) : got[i] = s[1 + i - 1]
    BY <1>5, <1>6, SubSeqProperties
  <2>2. k - 1 + 1 = k /\ \A i \in 1..k : 1 + i - 1 = i
    BY <1>5
  <2> HIDE DEF got
  <2>3. QED
    BY <1>5, <2>1, <2>2
<1> HIDE DEF got
<1>8. {s[i] : i \in 1..n} = R /\ \A i, j \in 1..n : i < j => s[i].number < s[j].number
  <2>1. DOMAIN s = 1..n
    BY <1>3
  <2>2. QED
    BY <1>3, <2>1 DEF Export!InOrder
<1>9. \A i, j \in 1..k : i < j => got[i].number < got[j].number
  BY <1>6, <1>7, <1>8
<1>10. ASSUME NEW row \in Matching(inv, filter), row.number > last
       PROVE  \/ \E i \in 1..k : got[i] = row
              \/ k = ChunkRows /\ \A i \in 1..k : got[i].number < row.number
  <2>1. PICK j \in 1..n : s[j] = row
    BY <1>8, <1>10
  <2>2. CASE j \in 1..k
    BY <2>1, <2>2, <1>7
  <2>3. CASE j \notin 1..k
    <3>1. k = ChunkRows /\ \A i \in 1..k : i < j
      BY <2>3, <1>2, <1>5
    <3>2. \A i \in 1..k : got[i].number < row.number
      BY <3>1, <2>1, <1>6, <1>7, <1>8
    <3>3. QED
      BY <3>1, <3>2
  <2>4. QED
    BY <2>2, <2>3
<1>11. \A i \in 1..k : got[i] \in Matching(inv, filter) /\ got[i].number > last
  BY <1>6, <1>7
<1>12. QED
  BY <1>1, <1>5, <1>7, <1>9, <1>10, <1>11

\* What is shown to an export is the same as long as its snapshot and its filter are,
\* and so is what was sent and read of it as long as they are left alone.
LEMMA ShownKept ==
    ASSUME NEW e \in Exports, ex'[e].filter = ex[e].filter, ex'[e].conn = ex[e].conn,
           conn'[ex[e].conn].snapshot = conn[ex[e].conn].snapshot,
           ex'[e].sent = ex[e].sent, ex'[e].last = ex[e].last
    PROVE  /\ Shown(ex[e])' = Shown(ex[e])
           /\ SentOK(ex[e]) => SentOK(ex[e])'
           /\ ex'[e].chunk = ex[e].chunk /\ ex'[e].full = ex[e].full /\ ChunkOK(ex[e]) => ChunkOK(ex[e])'
<1>1. Shown(ex[e])' = Shown(ex[e])
  BY DEF Shown, Matching
<1>2. QED
  BY <1>1 DEF SentOK, ChunkOK

\* A step of one export that leaves the inventory and the page alone: the others
\* have connections of their own, and one that is given back is clean.
LEMMA ServerStep ==
    ASSUME ExportInv, NEW e \in Exports, UNCHANGED <<inventory, client, during>>,
           ex' \in [Exports -> ExportRecord], \A f \in Exports \ {e} : ex'[f] = ex[f],
           conn' \in [Conns -> [open : BOOLEAN, snapshot : Export!Inventory \cup {None}]],
           \A c \in Conns : c # ex[e].conn => conn'[c] = conn[c],
           ex'[e].conn = ex[e].conn \/ ex'[e].conn = None \/ ex'[e].conn \in Conns \ Export!Held,
           ex'[e].conn # ex[e].conn /\ ex[e].conn # None => conn'[ex[e].conn] = Export!Closed,
           ConnectionOK(ex[e])', PageOK(e)', client[e] = "saved" => ex'[e].response = "ended"
    PROVE  ExportInv'
<1>1. ExportTypes'
  BY DEF ExportInv, ExportTypes
<1>2. ASSUME NEW f \in Exports, f # e PROVE ConnectionOK(ex[f])' /\ PageOK(f)'
  <2>1. ex'[f] = ex[f]
    BY <1>2
  <2>2. ConnectionOK(ex[f]) /\ PageOK(f)
    BY DEF ExportInv
  <2>3. ex[f].conn # None => conn'[ex[f].conn] = conn[ex[f].conn]
    BY <1>2 DEF ExportInv, ExportTypes, ExportRecord
  <2>4. CASE ex[f].conn = None
    <3>1. ex[f].phase \notin Connected /\ Len(ex[f].chunk) <= ChunkRows
      BY <2>2, <2>4 DEF ConnectionOK
    <3>2. ConnectionOK(ex[f])'
      BY <2>1, <2>4, <3>1 DEF ConnectionOK, Connected
    <3>3. PageOK(f)'
      BY <2>1, <2>2, <2>4 DEF PageOK, Export!Waiting, Matching
    <3>4. QED
      BY <3>2, <3>3
  <2>5. CASE ex[f].conn # None
    <3>1. /\ SentOK(ex[f]) => SentOK(ex[f])'
          /\ ChunkOK(ex[f]) => ChunkOK(ex[f])'
          /\ Shown(ex[f])' = Shown(ex[f])
      BY <2>1, <2>3, <2>5, ShownKept
    <3>2. ConnectionOK(ex[f])'
      BY <2>1, <2>2, <2>3, <2>5, <3>1 DEF ConnectionOK
    <3>3. PageOK(f)'
      BY <2>1, <2>2, <2>3, <2>5 DEF PageOK, Export!Waiting, Matching
    <3>4. QED
      BY <3>2, <3>3
  <2>6. QED
    BY <2>4, <2>5
<1>3. \A f, g \in Exports : ex'[f].conn = ex'[g].conn /\ ex'[f].conn # None => f = g
  BY DEF ExportInv, Export!Held
<1>4. ASSUME NEW c \in Conns, c \notin Export!Held' PROVE conn'[c] = Export!Closed
  <2>1. \A f \in Exports : ex'[f].conn # c
    BY <1>4 DEF Export!Held
  <2>2. CASE c = ex[e].conn
    BY <2>1, <2>2, ExportSettings
  <2>3. CASE c # ex[e].conn
    <3>1. c \notin Export!Held
      BY <2>1, <2>3 DEF Export!Held
    <3>2. QED
      BY <2>3, <3>1 DEF ExportInv
  <2>4. QED
    BY <2>2, <2>3
<1>5. \A f \in Exports : client'[f] = "saved" => ex'[f].response = "ended"
  BY DEF ExportInv
<1>6. QED
  BY <1>1, <1>2, <1>3, <1>4, <1>5 DEF ExportInv, Export!Closed

\* What is known of an export before a step of its own.
LEMMA ExportOf ==
    ASSUME ExportInv, NEW e \in Exports
    PROVE  /\ ex \in [Exports -> ExportRecord] /\ ex[e] \in ExportRecord
           /\ conn \in [Conns -> [open : BOOLEAN, snapshot : Export!Inventory \cup {None}]]
           /\ inventory \in Export!Inventory
           /\ ConnectionOK(ex[e]) /\ PageOK(e)
           /\ ex[e].phase \in Connected <=> ex[e].conn \in Conns
           /\ ex[e].phase \notin Connected <=> ex[e].conn = None
           /\ ex[e].phase # "done" => client[e] # "saved" /\ client[e] # "refreshing" /\ ex[e].response = None
<1>1. ExportTypes /\ ConnectionOK(ex[e]) /\ PageOK(e) /\ (client[e] = "saved" => ex[e].response = "ended")
  BY DEF ExportInv
<1>2. ex[e] \in ExportRecord
  BY <1>1 DEF ExportTypes
<1>3. ex[e].conn # None <=> ex[e].phase \in Connected
  BY <1>1 DEF ConnectionOK
<1>4. ex[e].conn \in Conns <=> ex[e].conn # None
  BY <1>2, ExportSettings DEF ExportRecord
<1>5. ex[e].phase # "done" => ex[e].response = None
  BY <1>1 DEF PageOK
<1>6. client[e] = "refreshing" => ex[e].response # None
  BY <1>1 DEF PageOK
<1>7. QED
  BY <1>1, <1>2, <1>3, <1>4, <1>5, <1>6, ExportSettings DEF ExportTypes

\* A step of an export that waits for a connection and gets none.
LEMMA StillUnconnected ==
    ASSUME ExportInv, NEW e \in Exports, NEW r \in ExportRecord, ex[e].phase \in {"sent", "connect"},
           UNCHANGED <<inventory, client, during, conn>>, ex' = [ex EXCEPT ![e] = r],
           r.phase = "done" \/ (r.phase = "connect" /\ r.response = None),
           r.response # "ended", r.conn = None, r.sent = ex[e].sent, r.last = ex[e].last, r.chunk = ex[e].chunk
    PROVE  ExportInv'
<1>1. /\ ex[e].conn = None /\ client[e] # "saved" /\ client[e] # "refreshing"
      /\ ex \in [Exports -> ExportRecord] /\ PageOK(e) /\ ConnectionOK(ex[e])
      /\ conn \in [Conns -> [open : BOOLEAN, snapshot : Export!Inventory \cup {None}]]
  BY ExportOf DEF Connected
<1>2. ex' \in [Exports -> ExportRecord] /\ ex'[e] = r /\ \A f \in Exports \ {e} : ex'[f] = ex[f]
  BY <1>1
<1>3. client[e] # "idle"
  BY <1>1 DEF PageOK
<1>4. ConnectionOK(ex[e])'
  BY <1>1, <1>2, ExportSettings DEF ConnectionOK, Connected
<1>5. PageOK(e)'
  BY <1>1, <1>2, <1>3, ExportSettings DEF PageOK, Export!Waiting
<1>6. QED
  BY <1>1, <1>2, <1>4, <1>5, ServerStep

\* Of the connections nobody holds an export takes one, and it is clean.
LEMMA ConnectKept ==
    ASSUME ExportInv, NEW e \in Exports, Export!connect(e)
    PROVE  ExportInv'
<1>1. PICK c \in Conns \ Export!Held : ex' = [ex EXCEPT ![e] = [ex[e] EXCEPT !.phase = "begin", !.conn = c]]
  BY DEF Export!connect, Export!Step
<1>2. UNCHANGED <<inventory, client, during, conn>> /\ ex[e].phase = "connect"
  BY DEF Export!connect, Export!Step
<1>3. /\ ex[e].conn = None /\ client[e] # "saved" /\ client[e] # "refreshing" /\ ex[e].response = None
      /\ ex \in [Exports -> ExportRecord] /\ ex[e] \in ExportRecord /\ PageOK(e) /\ ConnectionOK(ex[e])
      /\ conn \in [Conns -> [open : BOOLEAN, snapshot : Export!Inventory \cup {None}]]
  BY <1>2, ExportOf DEF Connected
<1>4. client[e] # "idle"
  BY <1>2, <1>3 DEF PageOK
<1>5. ex' \in [Exports -> ExportRecord]
  BY <1>1, <1>3 DEF ExportRecord, ExportPhases
<1>6. /\ ex'[e].phase = "begin" /\ ex'[e].response = None /\ ex'[e].conn = c /\ ex'[e].filter = ex[e].filter
      /\ ex'[e].sent = ex[e].sent /\ ex'[e].last = ex[e].last /\ ex'[e].chunk = ex[e].chunk
  BY <1>1, <1>3 DEF ExportRecord
<1>7. ex[e].sent = <<>> /\ ex[e].last = 0 /\ ex[e].chunk = <<>>
  BY <1>2, <1>3 DEF PageOK
<1>8. conn'[c] = Export!Closed /\ c # None /\ Export!Closed.snapshot = None
  BY <1>1, <1>2, ExportSettings DEF ExportInv, Export!Closed
<1>9. ConnectionOK(ex[e])'
  BY <1>3, <1>6, <1>7, <1>8 DEF ConnectionOK, Connected, Export!Closed
<1>10. PageOK(e)'
  BY <1>2, <1>3, <1>4, <1>6, <1>7, <1>8 DEF PageOK, Export!Waiting
<1>11. QED
  BY <1>1, <1>2, <1>3, <1>5, <1>6, <1>9, <1>10, ServerStep

\* The steps before a connection is held.
LEMMA ConnectSteps ==
    ASSUME ExportInv, NEW e \in Exports,
           Export!exportFile(e) \/ Export!requireAdmin(e) \/ Export!connect(e) \/ Export!connectTimeout(e)
    PROVE  ExportInv'
<1> DEFINE refused == [ex[e] EXCEPT !.phase = "done", !.response = "error"]
           expired == [ex[e] EXCEPT !.phase = "done", !.response = "401"]
           waits   == [ex[e] EXCEPT !.phase = "connect"]
<1>1. ex \in [Exports -> ExportRecord] /\ ex[e] \in ExportRecord
  BY ExportOf
<1>2. ex[e].phase \in {"sent", "connect"} => ex[e].conn = None /\ ex[e].response = None
  BY ExportOf DEF Connected
<1>3. /\ refused \in ExportRecord /\ refused.phase = "done" /\ refused.response # "ended" /\ refused.conn = ex[e].conn
      /\ refused.sent = ex[e].sent /\ refused.last = ex[e].last /\ refused.chunk = ex[e].chunk
  BY <1>1 DEF ExportRecord, ExportPhases
<1>4. /\ expired \in ExportRecord /\ expired.phase = "done" /\ expired.response # "ended" /\ expired.conn = ex[e].conn
      /\ expired.sent = ex[e].sent /\ expired.last = ex[e].last /\ expired.chunk = ex[e].chunk
  BY <1>1 DEF ExportRecord, ExportPhases
<1>5. /\ waits \in ExportRecord /\ waits.phase = "connect" /\ waits.response = ex[e].response /\ waits.conn = ex[e].conn
      /\ waits.sent = ex[e].sent /\ waits.last = ex[e].last /\ waits.chunk = ex[e].chunk
  BY <1>1 DEF ExportRecord, ExportPhases
<1>6. /\ Export!exportFile(e) => ex' = [ex EXCEPT ![e] = refused] \/ ex' = [ex EXCEPT ![e] = waits]
      /\ Export!connectTimeout(e) => ex' = [ex EXCEPT ![e] = refused]
  BY DEF Export!exportFile, Export!connectTimeout, Export!Step
<1>7. Export!requireAdmin(e) => ex' = [ex EXCEPT ![e] = expired]
  BY <1>1 DEF Export!requireAdmin, ExportRecord
<1>8. Export!exportFile(e) \/ Export!connectTimeout(e) \/ Export!requireAdmin(e) =>
        UNCHANGED <<inventory, client, during, conn>> /\ ex[e].phase \in {"sent", "connect"}
  BY DEF Export!exportFile, Export!connectTimeout, Export!requireAdmin, Export!Step
<1> HIDE DEF refused, expired, waits
<1>9. CASE Export!exportFile(e)
  <2>1. CASE ex' = [ex EXCEPT ![e] = refused]
    <3>1. UNCHANGED <<inventory, client, during, conn>> /\ ex[e].phase \in {"sent", "connect"}
      BY <1>8, <1>9
    <3>2. refused.conn = None
      BY <1>2, <1>3, <3>1
    <3>3. QED
      BY <1>3, <2>1, <3>1, <3>2, StillUnconnected
  <2>2. CASE ex' = [ex EXCEPT ![e] = waits]
    BY <1>2, <1>5, <1>8, <1>9, <2>2, StillUnconnected, ExportSettings
  <2>3. QED
    BY <1>6, <1>9, <2>1, <2>2
<1>10. CASE Export!connectTimeout(e)
  BY <1>2, <1>3, <1>6, <1>8, <1>10, StillUnconnected
<1>11. CASE Export!requireAdmin(e)
  BY <1>2, <1>4, <1>7, <1>8, <1>11, StillUnconnected
<1>12. QED
  BY <1>9, <1>10, <1>11, ConnectKept

\* A step of an export that keeps its connection.
LEMMA ConnectedStep ==
    ASSUME ExportInv, NEW e \in Exports, NEW r \in ExportRecord, ex' = [ex EXCEPT ![e] = r],
           UNCHANGED <<inventory, client, during>>, ex[e].phase \in Connected,
           r.phase \in Connected \ {"begin"}, r.conn = ex[e].conn, r.response = ex[e].response,
           conn' \in [Conns -> [open : BOOLEAN, snapshot : Export!Inventory \cup {None}]],
           \A c \in Conns : c # ex[e].conn => conn'[c] = conn[c],
           Export!Waiting(e) /\ conn'[ex[e].conn].snapshot # None => conn'[ex[e].conn].snapshot \in during[e],
           ConnectionOK(ex[e])'
    PROVE  ExportInv'
<1>1. /\ ex[e].response = None /\ client[e] # "saved" /\ client[e] # "refreshing" /\ ex[e].conn \in Conns
      /\ ex \in [Exports -> ExportRecord] /\ PageOK(e) /\ ex[e].phase # "idle"
  BY ExportOf DEF Connected
<1>2. ex' \in [Exports -> ExportRecord] /\ ex'[e] = r /\ \A f \in Exports \ {e} : ex'[f] = ex[f]
  BY <1>1
<1>3. r.phase \notin {"idle", "sent", "connect", "begin", "done"}
  BY DEF Connected
<1>4. PageOK(e)'
  BY <1>1, <1>2, <1>3, ExportSettings DEF PageOK, Export!Waiting
<1>5. QED
  BY <1>1, <1>2, <1>4, ServerStep

\* When the last chunk is written, everything the snapshot shows was sent.
LEMMA ChunksWritten ==
    ASSUME ExportInv, NEW e \in Exports, ex[e].phase = "write", ex[e].chunk = <<>>, ~ex[e].full
    PROVE  Export!InOrder(ex[e].sent, Shown(ex[e]))
<1>1. /\ ex[e] \in ExportRecord /\ ConnectionOK(ex[e]) /\ ex[e].conn \in Conns
      /\ conn \in [Conns -> [open : BOOLEAN, snapshot : Export!Inventory \cup {None}]]
  BY ExportOf DEF Connected
<1>2. conn[ex[e].conn].snapshot \in Export!Inventory /\ SentOK(ex[e]) /\ ChunkOK(ex[e])
  BY <1>1 DEF ConnectionOK
<1>3. \A row \in Shown(ex[e]) : row.number \in Nat
  BY <1>2, MatchingRows DEF Shown
<1>4. \A row \in Shown(ex[e]) : ~(row.number > ex[e].last)
  BY <1>2 DEF ChunkOK
<1>5. {row \in Shown(ex[e]) : row.number <= ex[e].last} = Shown(ex[e])
  BY <1>1, <1>3, <1>4 DEF ExportRecord
<1>6. QED
  BY <1>2, <1>5 DEF SentOK

\* The steps that only go on: from a drain, from a chunk, and to the rollback.
LEMMA PhaseSteps ==
    ASSUME ExportInv, NEW e \in Exports,
           Export!onDrain(e) \/ Export!chunkDone(e) \/ Export!clientDisconnected(e) \/ Export!onClose(e) \/ Export!queryFails(e)
    PROVE  ExportInv'
<1>1. PICK p \in {"write", "read", "commit", "rollback"} :
        /\ ex' = [ex EXCEPT ![e] = [ex[e] EXCEPT !.phase = p]]
        /\ p = "write" => ex[e].phase = "drain"
        /\ p = "read" => ex[e].phase = "write" /\ ex[e].chunk = <<>>
        /\ p = "commit" => ex[e].phase = "write" /\ ex[e].chunk = <<>> /\ ~ex[e].full
  <2>1. CASE Export!onDrain(e)
    BY <2>1 DEF Export!onDrain, Export!Step
  <2>2. CASE Export!chunkDone(e)
    <3>1. CASE ex[e].full
      BY <2>2, <3>1 DEF Export!chunkDone, Export!Step
    <3>2. CASE ~ex[e].full
      BY <2>2, <3>2 DEF Export!chunkDone, Export!Step
    <3>3. QED
      BY <3>1, <3>2
  <2>3. CASE Export!clientDisconnected(e)
    BY <2>3 DEF Export!clientDisconnected, Export!Step
  <2>4. CASE Export!onClose(e)
    BY <2>4 DEF Export!onClose, Export!Step
  <2>5. CASE Export!queryFails(e)
    BY <2>5 DEF Export!queryFails, Export!Step
  <2>6. QED
    BY <2>1, <2>2, <2>3, <2>4, <2>5
<1>2. UNCHANGED <<inventory, client, during, conn>> /\ ex[e].phase \in Connected \ {"begin", "rollback"}
  BY DEF Export!onDrain, Export!chunkDone, Export!clientDisconnected, Export!onClose, Export!queryFails, Export!Step, Connected
<1>3. /\ ex \in [Exports -> ExportRecord] /\ ex[e] \in ExportRecord /\ ConnectionOK(ex[e]) /\ PageOK(e) /\ ex[e].conn \in Conns
      /\ conn \in [Conns -> [open : BOOLEAN, snapshot : Export!Inventory \cup {None}]]
  BY <1>2, ExportOf
<1> DEFINE r == [ex[e] EXCEPT !.phase = p]
<1>4. /\ r \in ExportRecord /\ r.phase = p /\ r.conn = ex[e].conn /\ r.response = ex[e].response /\ r.chunk = ex[e].chunk
      /\ r.full = ex[e].full /\ r.sent = ex[e].sent /\ r.last = ex[e].last /\ r.filter = ex[e].filter
  BY <1>1, <1>3 DEF ExportRecord, ExportPhases
<1>5. ex' = [ex EXCEPT ![e] = r]
  BY <1>1
<1> HIDE DEF r
<1>6. ex'[e] = r
  BY <1>3, <1>5
<1>7. /\ Shown(ex[e])' = Shown(ex[e])
      /\ SentOK(ex[e]) => SentOK(ex[e])'
      /\ ChunkOK(ex[e]) => ChunkOK(ex[e])'
  BY <1>2, <1>4, <1>6, ShownKept
<1>8. ConnectionOK(ex[e])'
  <2>1. p \in Connected /\ p # "begin"
    BY <1>1 DEF Connected
  <2>2. r.conn # None /\ conn' = conn /\ Len(r.chunk) <= ChunkRows
    BY <1>2, <1>3, <1>4, ExportSettings DEF ConnectionOK
  <2>3. CASE p = "rollback"
    BY <1>4, <1>6, <2>1, <2>2, <2>3 DEF ConnectionOK
  <2>4. CASE p = "write"
    <3>1. conn[ex[e].conn].snapshot # None /\ SentOK(ex[e]) /\ ChunkOK(ex[e])
      BY <1>1, <1>3, <2>4 DEF ConnectionOK
    <3>2. QED
      BY <1>4, <1>6, <1>7, <2>1, <2>2, <2>4, <3>1 DEF ConnectionOK
  <2>5. CASE p = "read"
    <3>1. conn[ex[e].conn].snapshot # None /\ SentOK(ex[e])
      BY <1>1, <1>3, <2>5 DEF ConnectionOK
    <3>2. QED
      BY <1>1, <1>4, <1>6, <1>7, <2>1, <2>2, <2>5, <3>1 DEF ConnectionOK
  <2>6. CASE p = "commit"
    <3>1. conn[ex[e].conn].snapshot # None
      BY <1>1, <1>3, <2>6 DEF ConnectionOK
    <3>2. Export!InOrder(ex[e].sent, Shown(ex[e]))
      BY <1>1, <2>6, ChunksWritten
    <3>3. QED
      BY <1>4, <1>6, <1>7, <2>1, <2>2, <2>6, <3>1, <3>2 DEF ConnectionOK
  <2>7. QED
    BY <1>1, <2>3, <2>4, <2>5, <2>6
<1>9. r.phase \in Connected \ {"begin"}
  BY <1>1, <1>4 DEF Connected
<1>10. Export!Waiting(e) /\ conn'[ex[e].conn].snapshot # None => conn'[ex[e].conn].snapshot \in during[e]
  BY <1>2, <1>3, ExportSettings DEF PageOK
<1>11. conn' = conn /\ ex[e].phase \in Connected
  BY <1>2
<1>12. QED
  BY <1>2, <1>3, <1>4, <1>5, <1>8, <1>9, <1>10, <1>11, ConnectedStep

LEMMA BeginKept ==
    ASSUME ExportInv, NEW e \in Exports, Export!begin(e)
    PROVE  ExportInv'
<1> DEFINE r == [ex[e] EXCEPT !.phase = "read"]
           c == ex[e].conn
<1>1. /\ ex' = [ex EXCEPT ![e] = r] /\ conn' = [conn EXCEPT ![c].open = TRUE]
      /\ UNCHANGED <<inventory, client, during>> /\ ex[e].phase = "begin"
  BY DEF Export!begin, Export!Step
<1>2. /\ ex \in [Exports -> ExportRecord] /\ ex[e] \in ExportRecord /\ ConnectionOK(ex[e]) /\ PageOK(e) /\ c \in Conns
      /\ conn \in [Conns -> [open : BOOLEAN, snapshot : Export!Inventory \cup {None}]]
  BY <1>1, ExportOf DEF Connected
<1>3. /\ r \in ExportRecord /\ r.phase = "read" /\ r.conn = c /\ r.response = ex[e].response /\ r.chunk = ex[e].chunk
      /\ r.sent = ex[e].sent /\ r.last = ex[e].last
  BY <1>2 DEF ExportRecord, ExportPhases
<1> HIDE DEF r
<1>4. ex[e].sent = <<>> /\ ex[e].last = 0 /\ ex[e].chunk = <<>> /\ conn[c].snapshot = None /\ Len(ex[e].chunk) <= ChunkRows
  BY <1>1, <1>2 DEF PageOK, ConnectionOK, Export!Closed
<1>5. /\ conn' \in [Conns -> [open : BOOLEAN, snapshot : Export!Inventory \cup {None}]]
      /\ conn'[c].snapshot = None /\ \A d \in Conns : d # c => conn'[d] = conn[d]
  BY <1>1, <1>2, <1>4
<1>6. ex'[e] = r
  BY <1>1, <1>2
<1> HIDE DEF c
<1>7. ConnectionOK(ex[e])'
  BY <1>2, <1>3, <1>4, <1>5, <1>6, ExportSettings DEF ConnectionOK, Connected
<1>8. ex[e].phase \in Connected /\ r.phase \in Connected \ {"begin"}
  BY <1>1, <1>3 DEF Connected
<1> USE DEF c
<1>9. QED
  BY <1>1, <1>3, <1>5, <1>7, <1>8, ConnectedStep

\* The first read shows the inventory as it is, and a later one the same again.
LEMMA ReadKept ==
    ASSUME ExportInv, NEW e \in Exports, Export!read(e)
    PROVE  ExportInv'
<1> DEFINE c == ex[e].conn
           v == Export!View(c)
           next == Export!readChunk(c, ex[e].filter, ex[e].last)
           r == [ex[e] EXCEPT !.phase = "write", !.chunk = next, !.full = (Len(next) = ChunkRows), !.started = TRUE]
<1>1. /\ ex' = [ex EXCEPT ![e] = r] /\ conn' = [conn EXCEPT ![c].snapshot = v]
      /\ UNCHANGED <<inventory, client, during>> /\ ex[e].phase = "read"
  BY DEF Export!read, Export!Step
<1>2. /\ ex \in [Exports -> ExportRecord] /\ ex[e] \in ExportRecord /\ ConnectionOK(ex[e]) /\ PageOK(e) /\ c \in Conns
      /\ conn \in [Conns -> [open : BOOLEAN, snapshot : Export!Inventory \cup {None}]] /\ inventory \in Export!Inventory
  BY <1>1, ExportOf DEF Connected
<1>3. /\ v \in Export!Inventory /\ v # None
      /\ conn[c].snapshot = None => v = inventory /\ ex[e].sent = <<>> /\ ex[e].last = 0
      /\ conn[c].snapshot # None => v = conn[c].snapshot /\ SentOK(ex[e])
  BY <1>1, <1>2, ExportSettings DEF Export!View, ConnectionOK
<1> DEFINE M == Matching(v, ex[e].filter)
<1>4. /\ next \in Seq(Export!Row) /\ Len(next) <= ChunkRows
      /\ \A i \in 1..Len(next) : next[i] \in M /\ next[i].number > ex[e].last
      /\ \A i, j \in 1..Len(next) : i < j => next[i].number < next[j].number
      /\ \A row \in M : row.number > ex[e].last =>
           \/ \E i \in 1..Len(next) : next[i] = row
           \/ Len(next) = ChunkRows /\ \A i \in 1..Len(next) : next[i].number < row.number
  <2>1. ex[e].last \in Nat
    BY <1>2 DEF ExportRecord
  <2> HIDE DEF v
  <2>2. Export!View(c) = v
    BY DEF v
  <2>3. QED
    BY <1>3, <2>1, <2>2, ChunkRead
<1> HIDE DEF next
<1>5. /\ r \in ExportRecord /\ r.phase = "write" /\ r.conn = c /\ r.response = ex[e].response /\ r.chunk = next
      /\ r.sent = ex[e].sent /\ r.last = ex[e].last /\ r.filter = ex[e].filter /\ r.full = (Len(next) = ChunkRows)
  BY <1>2, <1>4 DEF ExportRecord, ExportPhases
<1> HIDE DEF r
<1>6. ex'[e] = r /\ ex[e].phase \in Connected /\ r.phase \in Connected \ {"begin"}
  BY <1>1, <1>2, <1>5 DEF Connected
<1> HIDE DEF v
<1>7. /\ conn' \in [Conns -> [open : BOOLEAN, snapshot : Export!Inventory \cup {None}]]
      /\ conn'[c].snapshot = v /\ \A d \in Conns : d # c => conn'[d] = conn[d]
  BY <1>1, <1>2, <1>3
<1>8. Shown(ex[e])' = M
  BY <1>5, <1>6, <1>7 DEF Shown, Matching
<1> HIDE DEF M
<1>9. SentOK(ex[e])'
  <2>1. CASE conn[c].snapshot # None
    <3>1. SentOK(ex[e]) => SentOK(ex[e])'
      BY <1>3, <1>5, <1>6, <1>7, <2>1, ShownKept
    <3>2. QED
      BY <1>3, <2>1, <3>1
  <2>2. CASE conn[c].snapshot = None
    <3>1. \A row \in M : row.number \in Nat \ {0}
      BY <1>3, MatchingRows, ExportSettings DEF M, Export!Row
    <3>2. {row \in M : row.number <= 0} = {}
      BY <3>1
    <3>3. Export!InOrder(<<>>, {})
      BY DEF Export!InOrder
    <3>4. ex'[e].sent = <<>> /\ ex'[e].last = 0
      BY <1>3, <1>5, <1>6, <2>2
    <3>5. QED
      BY <1>8, <3>2, <3>3, <3>4 DEF SentOK
  <2>3. QED
    BY <2>1, <2>2
<1>10. ChunkOK(ex[e])'
  BY <1>4, <1>5, <1>6, <1>8 DEF ChunkOK
<1>11. ConnectionOK(ex[e])'
  BY <1>2, <1>3, <1>4, <1>5, <1>6, <1>7, <1>9, <1>10, ExportSettings DEF ConnectionOK
<1>12. Export!Waiting(e) => v \in during[e]
  BY <1>2, <1>3, ExportSettings DEF PageOK
<1>13. QED
  BY <1>1, <1>5, <1>6, <1>7, <1>11, <1>12, ConnectedStep, ZenonT(30)

\* A row after all of the others keeps them in order.
LEMMA RowSent ==
    ASSUME NEW s \in Seq(Export!Row), NEW S, Export!InOrder(s, S), NEW h \in Export!Row,
           \A q \in S : q.number < h.number
    PROVE  Export!InOrder(Append(s, h), S \cup {h})
<1> DEFINE n == Len(s)
           t == Append(s, h)
<1>1. n \in Nat /\ DOMAIN s = 1..n /\ DOMAIN t = 1..(n + 1) /\ t[n + 1] = h /\ \A i \in 1..n : t[i] = s[i]
  BY AppendProperties
<1> HIDE DEF n, t
<1>2. \A i \in 1..(n + 1) : i \in 1..n \/ i = n + 1
  BY <1>1
<1>3. \A i \in 1..n : i \in 1..(n + 1) /\ s[i] \in S
  BY <1>1 DEF Export!InOrder
<1>4. {t[i] : i \in 1..(n + 1)} = S \cup {h}
  <2>1. \A i \in 1..(n + 1) : t[i] \in S \cup {h}
    BY <1>1, <1>2, <1>3
  <2>2. \A q \in S : \E i \in 1..n : s[i] = q
    BY <1>1 DEF Export!InOrder
  <2>3. n + 1 \in 1..(n + 1)
    BY <1>1
  <2>4. \A q \in S \cup {h} : \E i \in 1..(n + 1) : t[i] = q
    BY <1>1, <1>3, <2>2, <2>3
  <2>5. QED
    BY <2>1, <2>4
<1>5. ASSUME NEW i \in 1..(n + 1), NEW j \in 1..(n + 1), i < j PROVE t[i].number < t[j].number
  <2>1. i \in 1..n
    BY <1>1, <1>5
  <2>2. CASE j = n + 1
    BY <1>1, <1>3, <2>1, <2>2
  <2>3. CASE j \in 1..n
    BY <1>1, <1>5, <2>1, <2>3 DEF Export!InOrder
  <2>4. QED
    BY <1>2, <2>2, <2>3
<1>6. QED
  BY <1>1, <1>4, <1>5 DEF Export!InOrder, t

LEMMA RowWritten ==
    ASSUME ExportInv, NEW e \in Exports, Export!writeRow(e)
    PROVE  ExportInv'
<1> DEFINE c == ex[e].conn
           chunk == ex[e].chunk
           h == Head(chunk)
           snt == Append(ex[e].sent, h)
           tl == Tail(chunk)
<1>1. PICK p \in {"write", "drain"} : ex' = [ex EXCEPT ![e] = [ex[e] EXCEPT !.phase = p, !.sent = snt, !.last = h.number, !.chunk = tl]]
  BY DEF Export!writeRow, Export!Step
<1>2. UNCHANGED <<inventory, client, during, conn>> /\ ex[e].phase = "write" /\ chunk # <<>>
  BY DEF Export!writeRow, Export!Step
<1>3. /\ ex \in [Exports -> ExportRecord] /\ ex[e] \in ExportRecord /\ ConnectionOK(ex[e]) /\ PageOK(e) /\ c \in Conns
      /\ conn \in [Conns -> [open : BOOLEAN, snapshot : Export!Inventory \cup {None}]]
  BY <1>2, ExportOf DEF Connected
<1>4. /\ conn[c].snapshot \in Export!Inventory /\ SentOK(ex[e]) /\ ChunkOK(ex[e]) /\ Len(chunk) <= ChunkRows
      /\ chunk \in Seq(Export!Row) /\ ex[e].sent \in Seq(Export!Row) /\ ex[e].last \in Nat
  BY <1>2, <1>3 DEF ConnectionOK, ExportRecord
<1>5. /\ h = chunk[1] /\ h \in Export!Row /\ tl \in Seq(Export!Row) /\ Len(tl) = Len(chunk) - 1 /\ Len(chunk) \in Nat /\ Len(chunk) >= 1
      /\ \A i \in 1..Len(tl) : tl[i] = chunk[i + 1]
  BY <1>2, <1>4, HeadTailProperties
<1>6. snt \in Seq(Export!Row) /\ h.number \in Nat
  BY <1>4, <1>5, AppendProperties, ExportSettings DEF Export!Row
<1> DEFINE r == [ex[e] EXCEPT !.phase = p, !.sent = snt, !.last = h.number, !.chunk = tl]
<1> HIDE DEF h, snt, tl, chunk
<1>7. /\ r \in ExportRecord /\ r.phase = p /\ r.conn = c /\ r.response = ex[e].response /\ r.chunk = tl
      /\ r.sent = snt /\ r.last = h.number /\ r.filter = ex[e].filter /\ r.full = ex[e].full
  BY <1>3, <1>5, <1>6 DEF ExportRecord, ExportPhases
<1>8. ex' = [ex EXCEPT ![e] = r] /\ ex'[e] = r
  BY <1>1, <1>3
<1> HIDE DEF r
<1> DEFINE M == Shown(ex[e])
<1>9. Shown(ex[e])' = M
  BY <1>2, <1>7, <1>8 DEF Shown, Matching
<1>10. \A row \in M : row.number \in Nat
  BY <1>4, MatchingRows DEF Shown
<1>11. /\ \A i \in 1..Len(chunk) : chunk[i] \in M /\ chunk[i].number > ex[e].last
       /\ \A i, j \in 1..Len(chunk) : i < j => chunk[i].number < chunk[j].number
       /\ \A row \in M : row.number > ex[e].last =>
            \/ \E i \in 1..Len(chunk) : chunk[i] = row
            \/ ex[e].full /\ \A i \in 1..Len(chunk) : chunk[i].number < row.number
  BY <1>4 DEF ChunkOK, chunk
<1> HIDE DEF M
<1>12. 1 \in 1..Len(chunk) /\ h \in M /\ h.number > ex[e].last
  BY <1>5, <1>11
<1>13. ASSUME NEW row \in M, row.number > ex[e].last PROVE row = h \/ row.number > h.number
  <2>1. CASE \E i \in 1..Len(chunk) : chunk[i] = row
    <3>1. PICK i \in 1..Len(chunk) : chunk[i] = row
      BY <2>1
    <3>2. CASE i = 1
      BY <3>1, <3>2, <1>5
    <3>3. CASE i # 1
      <4>1. 1 < i
        BY <3>3, <1>5
      <4>2. chunk[1].number < chunk[i].number
        BY <4>1, <1>11, <1>12
      <4>3. QED
        BY <4>2, <3>1, <1>5, <1>6, <1>10
    <3>4. QED
      BY <3>2, <3>3
  <2>2. CASE \A i \in 1..Len(chunk) : chunk[i].number < row.number
    BY <2>2, <1>5, <1>6, <1>10, <1>12
  <2>3. QED
    BY <1>11, <1>13, <2>1, <2>2
<1>14. {row \in M : row.number <= h.number} = {row \in M : row.number <= ex[e].last} \cup {h}
  BY <1>4, <1>6, <1>10, <1>12, <1>13
<1>15. SentOK(ex[e])'
  <2>1. Export!InOrder(ex[e].sent, {row \in M : row.number <= ex[e].last})
    BY <1>4 DEF SentOK, M
  <2>2. \A row \in {row \in M : row.number <= ex[e].last} : row.number < h.number
    BY <1>4, <1>6, <1>10, <1>12
  <2>3. Export!InOrder(snt, {row \in M : row.number <= h.number})
    BY <1>4, <1>5, <1>14, <2>1, <2>2, RowSent DEF snt
  <2>4. QED
    BY <1>7, <1>8, <1>9, <2>3 DEF SentOK
<1>16. ChunkOK(ex[e])'
  <2>1. \A i \in 1..Len(tl) : i + 1 \in 1..Len(chunk) /\ 1 < i + 1 /\ tl[i] = chunk[i + 1]
    BY <1>5
  <2>2. \A i \in 1..Len(tl) : tl[i] \in M /\ tl[i].number > h.number
    BY <2>1, <1>5, <1>6, <1>10, <1>11, <1>12
  <2>3. ASSUME NEW i \in 1..Len(tl), NEW j \in 1..Len(tl), i < j PROVE tl[i].number < tl[j].number
    <3>1. i + 1 < j + 1
      BY <2>3
    <3>2. QED
      BY <2>1, <3>1, <1>11
  <2>4. ASSUME NEW row \in M, row.number > h.number
        PROVE  \/ \E i \in 1..Len(tl) : tl[i] = row
               \/ ex[e].full /\ \A i \in 1..Len(tl) : tl[i].number < row.number
    <3>1. row.number > ex[e].last
      BY <2>4, <1>4, <1>6, <1>10, <1>12
    <3>2. CASE \E i \in 1..Len(chunk) : chunk[i] = row
      <4>1. PICK i \in 1..Len(chunk) : chunk[i] = row
        BY <3>2
      <4>2. i # 1
        BY <4>1, <2>4, <1>5, <1>6
      <4>3. i - 1 \in 1..Len(tl) /\ tl[i - 1] = chunk[i]
        <5>1. i - 1 \in 1..Len(tl) /\ i - 1 + 1 = i
          BY <4>2, <1>5
        <5>2. QED
          BY <5>1, <2>1
      <4>4. QED
        BY <4>1, <4>3
    <3>3. CASE ex[e].full /\ \A i \in 1..Len(chunk) : chunk[i].number < row.number
      BY <3>3, <2>1
    <3>4. QED
      BY <1>11, <3>1, <3>2, <3>3
  <2>5. QED
    BY <1>7, <1>8, <1>9, <2>2, <2>3, <2>4 DEF ChunkOK
<1>17. Len(tl) <= ChunkRows /\ ex[e].phase \in Connected /\ r.phase \in Connected \ {"begin"} /\ conn' = conn
  BY <1>2, <1>4, <1>5, <1>7, ExportSettings DEF Connected
<1>18. ConnectionOK(ex[e])'
  <2>1. r.phase \in {"write", "drain"} /\ c # None /\ conn'[c].snapshot # None
    BY <1>3, <1>4, <1>7, <1>17, ExportSettings
  <2>2. QED
    BY <1>7, <1>8, <1>15, <1>16, <1>17, <2>1 DEF ConnectionOK
<1>19. Export!Waiting(e) => conn'[c].snapshot \in during[e]
  BY <1>3, <1>4, <1>17, ExportSettings DEF PageOK
<1>20. QED
  BY <1>2, <1>3, <1>7, <1>8, <1>17, <1>18, <1>19, ConnectedStep

\* An export that is over gives its connection back, and clean.
LEMMA ReleasedStep ==
    ASSUME ExportInv, NEW e \in Exports, NEW r \in ExportRecord, ex' = [ex EXCEPT ![e] = r],
           UNCHANGED <<inventory, client, during>>, ex[e].phase \in Connected,
           r.phase = "done", r.conn = None, r.sent = ex[e].sent, r.filter = ex[e].filter, r.chunk = ex[e].chunk,
           r.response = "ended" => /\ Export!InOrder(ex[e].sent, Shown(ex[e])) /\ conn[ex[e].conn].snapshot # None,
           conn' = [conn EXCEPT ![ex[e].conn] = Export!Closed] \/ (conn' = conn /\ conn[ex[e].conn] = Export!Closed)
    PROVE  ExportInv'
<1>1. /\ ex[e].response = None /\ client[e] # "saved" /\ client[e] # "refreshing" /\ ex[e].conn \in Conns
      /\ ex \in [Exports -> ExportRecord] /\ PageOK(e) /\ ConnectionOK(ex[e]) /\ ex[e].phase # "idle"
      /\ conn \in [Conns -> [open : BOOLEAN, snapshot : Export!Inventory \cup {None}]]
  BY ExportOf DEF Connected
<1>2. ex' \in [Exports -> ExportRecord] /\ ex'[e] = r /\ \A f \in Exports \ {e} : ex'[f] = ex[f]
  BY <1>1
<1>3. Export!Closed \in [open : BOOLEAN, snapshot : Export!Inventory \cup {None}]
  BY DEF Export!Closed
<1>4. /\ conn' \in [Conns -> [open : BOOLEAN, snapshot : Export!Inventory \cup {None}]]
      /\ conn'[ex[e].conn] = Export!Closed /\ \A c \in Conns : c # ex[e].conn => conn'[c] = conn[c]
  BY <1>1, <1>3
<1>5. ConnectionOK(ex[e])'
  BY <1>1, <1>2 DEF ConnectionOK, Connected
<1>6. Export!Waiting(e) /\ conn[ex[e].conn].snapshot # None => conn[ex[e].conn].snapshot \in during[e]
  BY <1>1, ExportSettings DEF PageOK
<1>7. Shown(ex[e]) = Matching(conn[ex[e].conn].snapshot, ex[e].filter)
  BY DEF Shown
<1>8. client[e] = "fetching" /\ r.response = "ended" =>
        \E inv \in during[e] : Export!InOrder(r.sent, Matching(inv, r.filter))
  BY <1>6, <1>7 DEF Export!Waiting
<1>9. PageOK(e)'
  <2>1. client[e] # "idle"
    BY <1>1 DEF PageOK
  <2>2. Export!Waiting(e) => inventory \in during[e]
    BY <1>1 DEF PageOK
  <2>3. QED
    BY <1>1, <1>2, <1>8, <2>1, <2>2 DEF PageOK, Export!Waiting, Matching
<1>10. QED
  BY <1>1, <1>2, <1>4, <1>5, <1>9, ServerStep

LEMMA ReleaseSteps ==
    ASSUME ExportInv, NEW e \in Exports, Export!commit(e) \/ Export!beginFails(e) \/ Export!rollback(e)
    PROVE  ExportInv'
<1> DEFINE Ended == [ex[e] EXCEPT !.response = "ended"]
           done  == [Ended EXCEPT !.phase = "done", !.conn = None]
           broke == [Export!Fail(e) EXCEPT !.phase = "done", !.conn = None]
<1>1. ex \in [Exports -> ExportRecord] /\ ex[e] \in ExportRecord /\ ConnectionOK(ex[e])
  BY ExportOf
<1>2. /\ done \in ExportRecord /\ done.phase = "done" /\ done.conn = None /\ done.sent = ex[e].sent
      /\ done.filter = ex[e].filter /\ done.chunk = ex[e].chunk
  BY <1>1 DEF ExportRecord, ExportPhases
<1>3. /\ broke \in ExportRecord /\ broke.phase = "done" /\ broke.conn = None /\ broke.sent = ex[e].sent
      /\ broke.filter = ex[e].filter /\ broke.chunk = ex[e].chunk /\ broke.response # "ended"
  BY <1>1 DEF ExportRecord, ExportPhases, Export!Fail
<1>4. CASE Export!commit(e)
  <2>1. /\ ex' = [ex EXCEPT ![e] = done] /\ conn' = [conn EXCEPT ![ex[e].conn] = Export!Closed]
        /\ UNCHANGED <<inventory, client, during>> /\ ex[e].phase = "commit"
    BY <1>4 DEF Export!commit, Export!Release, Export!Step
  <2> HIDE DEF done
  <2>2. Export!InOrder(ex[e].sent, Shown(ex[e])) /\ conn[ex[e].conn].snapshot # None /\ ex[e].phase \in Connected
    BY <1>1, <2>1 DEF ConnectionOK, Connected
  <2>3. QED
    BY <1>2, <2>1, <2>2, ReleasedStep
<1>5. CASE Export!beginFails(e)
  <2>1. /\ ex' = [ex EXCEPT ![e] = broke] /\ conn' = conn
        /\ UNCHANGED <<inventory, client, during>> /\ ex[e].phase = "begin"
    BY <1>5 DEF Export!beginFails, Export!Release, Export!Step
  <2> HIDE DEF broke
  <2>2. conn[ex[e].conn] = Export!Closed /\ ex[e].phase \in Connected
    BY <1>1, <2>1 DEF ConnectionOK, Connected
  <2>3. QED
    BY <1>3, <2>1, <2>2, ReleasedStep
<1>6. CASE Export!rollback(e)
  <2>1. /\ ex' = [ex EXCEPT ![e] = broke] /\ conn' = [conn EXCEPT ![ex[e].conn] = Export!Closed]
        /\ UNCHANGED <<inventory, client, during>> /\ ex[e].phase = "rollback"
    BY <1>6 DEF Export!rollback, Export!Release, Export!Step
  <2> HIDE DEF broke
  <2>2. ex[e].phase \in Connected
    BY <2>1 DEF Connected
  <2>3. QED
    BY <1>3, <2>1, <2>2, ReleasedStep
<1>7. QED
  BY <1>4, <1>5, <1>6

\* A request, the first or the one after a refresh, begins with nothing sent.
LEMMA Requested ==
    ASSUME NEW filter \in {"active", "inactive", "all", "unknown"}, NEW retried \in BOOLEAN
    PROVE  LET r == [Export!idle EXCEPT !.phase = "sent", !.filter = filter, !.retried = retried] IN
           /\ r \in ExportRecord /\ r.phase = "sent" /\ r.conn = None /\ r.response = None /\ r.sent = <<>>
           /\ r.last = 0 /\ r.chunk = <<>> /\ Len(<<>>) = 0
<1>1. <<>> \in Seq(Export!Row) /\ 0 \in Nat /\ Len(<<>>) = 0
  OBVIOUS
<1>2. QED
  BY <1>1 DEF Export!idle, ExportRecord, ExportPhases

\* A step of the page at one export: of the others it may close connections only.
LEMMA PageStep ==
    ASSUME ExportInv, NEW e \in Exports, UNCHANGED <<inventory, conn>>,
           ex' \in [Exports -> ExportRecord], client' \in [Exports -> {"idle", "fetching", "refreshing", "saved", "failed", "login"}],
           during' \in [Exports -> SUBSET Export!Inventory],
           \A f \in Exports : ex'[f].conn = ex[f].conn,
           \A f \in Exports \ {e} : client'[f] = client[f] /\ during'[f] = during[f] /\ ex'[f] = ex[f],
           ConnectionOK(ex[e])', PageOK(e)', client'[e] = "saved" => ex'[e].response = "ended"
    PROVE  ExportInv'
<1>1. ExportTypes'
  BY DEF ExportInv, ExportTypes
<1>2. ASSUME NEW f \in Exports, f # e PROVE ConnectionOK(ex[f])' /\ PageOK(f)'
  <2>1. ex'[f] = ex[f] /\ client'[f] = client[f] /\ during'[f] = during[f]
    BY <1>2
  <2>2. ConnectionOK(ex[f]) /\ PageOK(f)
    BY DEF ExportInv
  <2>3. /\ SentOK(ex[f]) => SentOK(ex[f])'
        /\ ChunkOK(ex[f]) => ChunkOK(ex[f])'
        /\ Shown(ex[f])' = Shown(ex[f])
    BY <2>1, ShownKept
  <2>4. ConnectionOK(ex[f])'
    BY <2>1, <2>2, <2>3 DEF ConnectionOK
  <2>5. PageOK(f)'
    BY <2>1, <2>2 DEF PageOK, Export!Waiting, Matching
  <2>6. QED
    BY <2>4, <2>5
<1>3. \A f, g \in Exports : ex'[f].conn = ex'[g].conn /\ ex'[f].conn # None => f = g
  BY DEF ExportInv
<1>4. \A c \in Conns : c \notin Export!Held' => conn'[c] = Export!Closed
  <2>1. Export!Held' = Export!Held
    BY DEF Export!Held
  <2>2. QED
    BY <2>1 DEF ExportInv
<1>5. \A f \in Exports : client'[f] = "saved" => ex'[f].response = "ended"
  BY DEF ExportInv
<1>6. QED
  BY <1>1, <1>2, <1>3, <1>4, <1>5 DEF ExportInv, Export!Closed

\* Closing responses and leaving downloads takes nothing from the server's exports.
LEMMA LeftStep ==
    ASSUME ExportInv, UNCHANGED <<inventory, conn, during>>,
           ex' \in [Exports -> ExportRecord], client' \in [Exports -> {"idle", "fetching", "refreshing", "saved", "failed", "login"}],
           \A f \in Exports :
             /\ ex'[f].phase = ex[f].phase /\ ex'[f].conn = ex[f].conn /\ ex'[f].response = ex[f].response
             /\ ex'[f].sent = ex[f].sent /\ ex'[f].last = ex[f].last /\ ex'[f].filter = ex[f].filter
             /\ ex'[f].chunk = ex[f].chunk /\ ex'[f].full = ex[f].full
             /\ client'[f] = client[f] \/ client'[f] \in {"failed", "login"}
    PROVE  ExportInv'
<1>1. ExportTypes'
  BY DEF ExportInv, ExportTypes
<1>2. ASSUME NEW f \in Exports PROVE ConnectionOK(ex[f])' /\ PageOK(f)'
  <2>1. ConnectionOK(ex[f]) /\ PageOK(f)
    BY DEF ExportInv
  <2>2. /\ SentOK(ex[f]) => SentOK(ex[f])'
        /\ ChunkOK(ex[f]) => ChunkOK(ex[f])'
        /\ Shown(ex[f])' = Shown(ex[f])
    BY ShownKept
  <2>3. ConnectionOK(ex[f])'
    BY <2>1, <2>2 DEF ConnectionOK
  <2>4. PageOK(f)'
    BY <2>1 DEF PageOK, Export!Waiting, Matching
  <2>5. QED
    BY <2>3, <2>4
<1>3. \A f, g \in Exports : ex'[f].conn = ex'[g].conn /\ ex'[f].conn # None => f = g
  BY DEF ExportInv
<1>4. \A c \in Conns : c \notin Export!Held' => conn'[c] = Export!Closed
  <2>1. Export!Held' = Export!Held
    BY DEF Export!Held
  <2>2. QED
    BY <2>1 DEF ExportInv
<1>5. \A f \in Exports : client'[f] = "saved" => ex'[f].response = "ended"
  BY DEF ExportInv
<1>6. QED
  BY <1>1, <1>2, <1>3, <1>4, <1>5 DEF ExportInv, Export!Closed

LEMMA ExportLeft ==
    ASSUME ExportInv, NEW e \in Exports, Export!disconnect(e) \/ Export!toLogin(e)
    PROVE  ExportInv'
<1> DEFINE Shut(r) == [r EXCEPT !.closed = TRUE]
           Known == {"idle", "fetching", "refreshing", "saved", "failed", "login"}
<1>1. ex \in [Exports -> ExportRecord] /\ client \in [Exports -> Known]
  BY DEF ExportInv, ExportTypes
<1>2. \A f \in Exports :
        /\ Shut(ex[f]) \in ExportRecord
        /\ Shut(ex[f]).phase = ex[f].phase /\ Shut(ex[f]).conn = ex[f].conn /\ Shut(ex[f]).response = ex[f].response
        /\ Shut(ex[f]).sent = ex[f].sent /\ Shut(ex[f]).last = ex[f].last /\ Shut(ex[f]).filter = ex[f].filter
        /\ Shut(ex[f]).chunk = ex[f].chunk /\ Shut(ex[f]).full = ex[f].full
  BY <1>1, ZenonT(30) DEF ExportRecord
<1>3. /\ UNCHANGED <<inventory, conn, during>>
      /\ ex' \in [Exports -> ExportRecord] /\ client' \in [Exports -> Known]
      /\ \A f \in Exports : ex'[f] = ex[f] \/ ex'[f] = Shut(ex[f])
      /\ \A f \in Exports : client'[f] = client[f] \/ client'[f] \in {"failed", "login"}
  <2>1. CASE Export!disconnect(e)
    <3>1. ex' = [ex EXCEPT ![e] = Shut(ex[e])] /\ client' = [client EXCEPT ![e] = "failed"] /\ UNCHANGED <<inventory, conn, during>>
      BY <1>1, <2>1 DEF Export!disconnect
    <3> HIDE DEF Shut
    <3>2. QED
      BY <1>1, <1>2, <3>1
  <2>2. CASE Export!toLogin(e)
    <3>1. /\ client' = [f \in Exports |-> IF Export!Waiting(f) THEN "login" ELSE client[f]]
          /\ ex' = [f \in Exports |-> IF Export!Waiting(f) THEN Shut(ex[f]) ELSE ex[f]]
          /\ UNCHANGED <<inventory, conn, during>>
      BY <2>2 DEF Export!toLogin
    <3> HIDE DEF Shut
    <3>2. QED
      BY <1>1, <1>2, <3>1
  <2>3. QED
    BY <2>1, <2>2
<1> HIDE DEF Shut
<1>4. \A f \in Exports :
        /\ ex'[f].phase = ex[f].phase /\ ex'[f].conn = ex[f].conn /\ ex'[f].response = ex[f].response
        /\ ex'[f].sent = ex[f].sent /\ ex'[f].last = ex[f].last /\ ex'[f].filter = ex[f].filter
        /\ ex'[f].chunk = ex[f].chunk /\ ex'[f].full = ex[f].full
  BY <1>2, <1>3
<1>5. QED
  BY <1>3, <1>4, LeftStep

\* What the page asks for and what it makes of an answer.
LEMMA PageSteps ==
    ASSUME ExportInv, NEW e \in Exports,
           Export!handleExport(e) \/ Export!refreshed(e) \/ Export!exportRequest(e)
    PROVE  ExportInv'
<1>1. /\ ex \in [Exports -> ExportRecord] /\ ex[e] \in ExportRecord /\ ConnectionOK(ex[e]) /\ PageOK(e)
      /\ inventory \in Export!Inventory
      /\ client \in [Exports -> {"idle", "fetching", "refreshing", "saved", "failed", "login"}]
      /\ during \in [Exports -> SUBSET Export!Inventory]
  BY ExportOf DEF ExportInv, ExportTypes
<1>2. /\ UNCHANGED <<inventory, conn>> /\ ex[e].conn = None
      /\ client[e] \in {"idle", "fetching", "refreshing"}
  <2>1. ex[e].phase \in {"idle", "done"}
    BY <1>1 DEF PageOK, Export!handleExport, Export!refreshed, Export!exportRequest
  <2>2. ex[e].conn = None
    BY <2>1, ExportOf DEF Connected
  <2>3. QED
    BY <2>2 DEF Export!handleExport, Export!refreshed, Export!exportRequest
<1>3. ASSUME NEW filter \in {"active", "inactive", "all", "unknown"}, NEW retried \in BOOLEAN,
             Export!request(e, filter, retried), client' = [client EXCEPT ![e] = "fetching"],
             during' \in [Exports -> SUBSET Export!Inventory], inventory \in during'[e],
             \A f \in Exports \ {e} : during'[f] = during[f]
      PROVE  ExportInv'
  <2> DEFINE r == [Export!idle EXCEPT !.phase = "sent", !.filter = filter, !.retried = retried]
  <2>1. /\ r \in ExportRecord /\ r.phase = "sent" /\ r.conn = None /\ r.response = None /\ r.sent = <<>>
        /\ r.last = 0 /\ r.chunk = <<>> /\ Len(<<>>) = 0
    BY Requested
  <2>2. ex' = [ex EXCEPT ![e] = r]
    BY <1>3 DEF Export!request
  <2> HIDE DEF r
  <2>3. /\ ex' \in [Exports -> ExportRecord] /\ ex'[e] = r /\ \A f \in Exports \ {e} : ex'[f] = ex[f]
        /\ client' \in [Exports -> {"idle", "fetching", "refreshing", "saved", "failed", "login"}]
        /\ client'[e] = "fetching" /\ \A f \in Exports \ {e} : client'[f] = client[f]
    BY <1>1, <1>3, <2>1, <2>2
  <2>4. ConnectionOK(ex[e])'
    BY <2>1, <2>3, ExportSettings DEF ConnectionOK, Connected
  <2>5. PageOK(e)'
    BY <1>2, <1>3, <2>1, <2>3, ExportSettings DEF PageOK, Export!Waiting
  <2>6. \A f \in Exports : ex'[f].conn = ex[f].conn
    BY <1>2, <2>1, <2>3
  <2>7. QED
    BY <1>2, <1>3, <2>3, <2>4, <2>5, <2>6, PageStep
<1>4. CASE Export!handleExport(e)
  <2>1. PICK filter \in Filters : Export!request(e, filter, FALSE)
    BY <1>4 DEF Export!handleExport
  <2>2. client' = [client EXCEPT ![e] = "fetching"] /\ during' = [during EXCEPT ![e] = {inventory}]
    BY <1>4 DEF Export!handleExport
  <2>3. /\ during' \in [Exports -> SUBSET Export!Inventory] /\ inventory \in during'[e]
        /\ \A f \in Exports \ {e} : during'[f] = during[f]
    BY <1>1, <2>2
  <2>4. filter \in {"active", "inactive", "all", "unknown"}
    BY ExportSettings
  <2>5. QED
    BY <1>3, <2>1, <2>2, <2>3, <2>4
<1>5. CASE Export!refreshed(e)
  <2>1. /\ Export!request(e, ex[e].filter, TRUE) /\ client' = [client EXCEPT ![e] = "fetching"]
        /\ during' = during /\ client[e] = "refreshing"
    BY <1>5 DEF Export!refreshed
  <2>2. inventory \in during[e] /\ ex[e].filter \in {"active", "inactive", "all", "unknown"}
    BY <1>1, <2>1 DEF PageOK, Export!Waiting, ExportRecord
  <2>3. QED
    BY <1>1, <1>3, <2>1, <2>2
<1>6. CASE Export!exportRequest(e)
  <2>1. /\ client[e] = "fetching" /\ ex[e].response # None /\ ex' = ex /\ during' = during
        /\ client' = [client EXCEPT ![e] = IF ex[e].response = "401" /\ ~ex[e].retried THEN "refreshing"
                                           ELSE IF ex[e].response = "ended" THEN "saved" ELSE "failed"]
    BY <1>6 DEF Export!exportRequest
  <2>2. /\ client' \in [Exports -> {"idle", "fetching", "refreshing", "saved", "failed", "login"}]
        /\ client'[e] \in {"refreshing", "saved", "failed"} /\ (client'[e] = "saved" => ex[e].response = "ended")
        /\ \A f \in Exports \ {e} : client'[f] = client[f]
    BY <1>1, <2>1
  <2>3. ConnectionOK(ex[e])'
    BY <1>1, <1>2, <2>1, ExportSettings DEF ConnectionOK, Connected
  <2>4. PageOK(e)'
    BY <1>1, <1>2, <2>1, <2>2 DEF PageOK, Export!Waiting, Matching
  <2>5. QED
    BY <1>1, <1>2, <2>1, <2>2, <2>3, <2>4, PageStep
<1>7. QED
  BY <1>4, <1>5, <1>6

\* A change is seen by those that wait as one more state of the inventory.
LEMMA InventoryChanged ==
    ASSUME ExportInv, Export!change
    PROVE  ExportInv'
<1>1. /\ inventory' \in Export!Inventory /\ UNCHANGED <<ex, conn, client>>
      /\ during' = [e \in Exports |-> IF Export!Waiting(e) THEN during[e] \cup {inventory'} ELSE during[e]]
  BY DEF Export!change
<1>2. during \in [Exports -> SUBSET Export!Inventory]
  BY DEF ExportInv, ExportTypes
<1>3. \A e \in Exports : during[e] \subseteq during'[e] /\ (Export!Waiting(e) => inventory' \in during'[e])
  BY <1>1
<1>4. ExportTypes'
  BY <1>1, <1>2 DEF ExportInv, ExportTypes
<1>5. ASSUME NEW e \in Exports PROVE ConnectionOK(ex[e])' /\ PageOK(e)'
  <2>1. ConnectionOK(ex[e]) /\ PageOK(e)
    BY DEF ExportInv
  <2>2. /\ SentOK(ex[e]) => SentOK(ex[e])'
        /\ ChunkOK(ex[e]) => ChunkOK(ex[e])'
        /\ Shown(ex[e])' = Shown(ex[e])
    BY <1>1, ShownKept
  <2>3. ConnectionOK(ex[e])'
    BY <1>1, <2>1, <2>2 DEF ConnectionOK
  <2>4. PageOK(e)'
    BY <1>1, <1>3, <2>1 DEF PageOK, Export!Waiting, Matching
  <2>5. QED
    BY <2>3, <2>4
<1>6. QED
  BY <1>1, <1>4, <1>5 DEF ExportInv, Export!Held, Export!Closed

LEMMA ExportInit == Export!Init => ExportInv
<1> SUFFICES ASSUME Export!Init PROVE ExportInv
  OBVIOUS
<1> DEFINE blank(i) == [id |-> i, number |-> i, status |-> IF i = 1 THEN "active" ELSE "inactive"]
<1>1. /\ inventory = [i \in Ids |-> blank(i)] /\ ex = [e \in Exports |-> Export!idle]
      /\ conn = [c \in Conns |-> [open |-> FALSE, snapshot |-> None]]
      /\ client = [e \in Exports |-> "idle"] /\ during = [e \in Exports |-> {}]
  BY DEF Export!Init
<1>2. /\ Export!idle \in ExportRecord /\ Export!idle.phase = "idle" /\ Export!idle.conn = None /\ Export!idle.response = None
      /\ Export!idle.sent = <<>> /\ Export!idle.last = 0 /\ Export!idle.chunk = <<>> /\ Len(Export!idle.chunk) = 0
  <2>1. <<>> \in Seq(Export!Row) /\ 0 \in Nat /\ Len(<<>>) = 0
    OBVIOUS
  <2>2. QED
    BY <2>1 DEF Export!idle, ExportRecord, ExportPhases
<1>3. inventory \in Export!Inventory
  <2>1. \A i \in Ids : blank(i) \in Export!Row /\ blank(i).id = i /\ blank(i).number = i
    BY ExportSettings DEF Export!Row, Export!Statuses
  <2> HIDE DEF blank
  <2>2. QED
    BY <1>1, <2>1, ExportSettings DEF Export!Inventory
<1>4. ExportTypes
  BY <1>1, <1>2, <1>3 DEF ExportTypes
<1>5. ASSUME NEW e \in Exports PROVE ConnectionOK(ex[e]) /\ PageOK(e)
  <2>1. ConnectionOK(ex[e])
    BY <1>1, <1>2, ExportSettings DEF ConnectionOK, Connected
  <2>2. PageOK(e)
    BY <1>1, <1>2, ExportSettings DEF PageOK, Export!Waiting
  <2>3. QED
    BY <2>1, <2>2
<1>6. QED
  BY <1>1, <1>2, <1>4, <1>5 DEF ExportInv, Export!Closed

LEMMA ExportNext == ExportInv /\ [PartsNext]_partsVars => ExportInv'
<1> SUFFICES ASSUME ExportInv, [PartsNext]_partsVars PROVE ExportInv'
  OBVIOUS
<1>1. Export!Next \/ UNCHANGED exportVars
  BY Zenon DEF PartsNext, partsVars
<1>2. CASE UNCHANGED exportVars
  <2>1. inventory' = inventory /\ ex' = ex /\ conn' = conn /\ client' = client /\ during' = during
    BY <1>2 DEF exportVars
  <2>2. ex \in [Exports -> ExportRecord] /\ client \in [Exports -> {"idle", "fetching", "refreshing", "saved", "failed", "login"}]
    BY DEF ExportInv, ExportTypes
  <2>3. QED
    BY <2>1, <2>2, LeftStep
<1>3. CASE Export!change
  BY <1>3, InventoryChanged
<1>4. ASSUME NEW e \in Exports, Export!handleExport(e) \/ Export!Client(e) \/ Export!Server(e) \/ Export!Reader(e)
      PROVE  ExportInv'
  <2>1. CASE Export!handleExport(e) \/ Export!refreshed(e) \/ Export!exportRequest(e)
    BY <2>1, PageSteps
  <2>2. CASE Export!disconnect(e) \/ Export!toLogin(e)
    BY <2>2, ExportLeft
  <2>3. CASE Export!exportFile(e) \/ Export!requireAdmin(e) \/ Export!connect(e) \/ Export!connectTimeout(e)
    BY <2>3, ConnectSteps
  <2>4. CASE Export!onDrain(e) \/ Export!chunkDone(e) \/ Export!clientDisconnected(e) \/ Export!onClose(e) \/ Export!queryFails(e)
    BY <2>4, PhaseSteps
  <2>5. CASE Export!commit(e) \/ Export!beginFails(e) \/ Export!rollback(e)
    BY <2>5, ReleaseSteps
  <2>6. CASE Export!begin(e) \/ Export!read(e) \/ Export!writeRow(e)
    BY <2>6, BeginKept, ReadKept, RowWritten
  <2>7. QED
    BY <1>4, <2>1, <2>2, <2>3, <2>4, <2>5, <2>6, Zenon DEF Export!Client, Export!Server, Export!Reader
<1>5. QED
  BY <1>1, <1>2, <1>3, <1>4 DEF Export!Next

\* A saved file holds exactly the rows of one state of the inventory during its
\* export, and a connection goes back without a transaction: for any number of
\* exports, connections, rows and changes (streetLightsExport.service.ts).
THEOREM ExportIsSound == PartsSpec => []ExportSound
<1>1. PartsInit => ExportInv
  BY ExportInit DEF PartsInit
<1>2. ExportInv => ExportSound
  <2> SUFFICES ASSUME ExportInv PROVE Export!TypeOK /\ Export!FileComplete /\ Export!CleanPool
    BY DEF ExportSound
  <2>1. Export!TypeOK
    <3>1. ASSUME NEW e \in Exports PROVE ex[e].conn \in Conns \cup {None} /\ Len(ex[e].chunk) <= ChunkRows
      BY ExportOf DEF ConnectionOK, ExportRecord
    <3>2. QED
      BY <3>1 DEF ExportInv, ExportTypes, Export!TypeOK
  <2>2. Export!FileComplete
    BY DEF ExportInv, PageOK, Matching, Export!FileComplete
  <2>3. Export!CleanPool
    BY DEF ExportInv, Export!CleanPool, Export!Closed
  <2>4. QED
    BY <2>1, <2>2, <2>3
<1>3. QED
  BY <1>1, <1>2, ExportNext, PTL DEF PartsSpec

=============================================================================
