--------------------------- MODULE AddressAdmission ---------------------------
(***************************************************************************)
(* Admission of address suggestions to the provider                        *)
(* (services/reportAddressSuggestion.service.ts): a bounded queue, requests*)
(* for one place coalesced into one entry, bounded and paced calls of the  *)
(* provider, a daily budget, and callers that go away at any time.         *)
(*                                                                         *)
(* A callback of Node runs to its end.  Those that call pump set pumping,  *)
(* and only the pump's loop goes on until it is done.                      *)
(***************************************************************************)
EXTENDS Integers, FiniteSets, Sequences, SequencesExt

CONSTANTS
    Callers, Keys,                   \* requests; what they are coalesced by
    maxPending, maxActive, queueExpiry, timeout, minStartInterval, dailyBudget,
    Day,                             \* length of a day
    MaxTime,                         \* bound
    NoTimer

validateSettings ==
    /\ maxPending \in Nat /\ maxActive \in Nat \ {0} /\ queueExpiry \in Nat \ {0} /\ timeout \in Nat \ {0}
    /\ minStartInterval \in Nat /\ dailyBudget \in Nat /\ Day \in Nat \ {0}

AdmissionAssumption == validateSettings /\ NoTimer \notin Nat /\ MaxTime \in Nat

VARIABLES
    now,
    queue,       \* keys of the queued entries
    entry,       \* inFlight: none, queued or running
    expiresAt, timeoutAt,
    subscribers,
    held,        \* settled entries whose provider call is not over
    active,
    nextStartAt,
    spacingTimer,
    budgetDate, budgetUsed,
    pumping,
    answer,      \* of each caller: none, waiting, or what it got
    lastStart, startsToday   \* history

time    == <<now, expiresAt, timeoutAt, nextStartAt, spacingTimer>>
budget  == <<budgetDate, budgetUsed>>
history == <<lastStart, startsToday>>
vars    == <<time, queue, entry, subscribers, held, active, budget, pumping, answer, history>>

TypeOK ==
    /\ now \in 0..MaxTime /\ entry \in [Keys -> {"none", "queued", "running"}]
    /\ subscribers \in [Keys -> SUBSET Callers] /\ pumping \in BOOLEAN
    /\ budgetUsed \in 0..dailyBudget
    /\ answer \in [Callers -> {"none", "waiting", "address", "queue_full", "cancelled", "expired", "budget", "timeout", "failed"}]
    /\ ToSet(queue) = {k \in Keys : entry[k] = "queued"} /\ IsInjective(queue)
    /\ active = held + Cardinality({k \in Keys : entry[k] = "running"})
    /\ active \in 0..maxActive /\ (~pumping => Len(queue) <= maxPending)

Init ==
    /\ now = 0 /\ queue = <<>> /\ entry = [k \in Keys |-> "none"]
    /\ expiresAt = [k \in Keys |-> 0] /\ timeoutAt = [k \in Keys |-> 0]
    /\ subscribers = [k \in Keys |-> {}] /\ held = 0 /\ active = 0
    /\ nextStartAt = 0 /\ spacingTimer = NoTimer /\ budgetDate = -1 /\ budgetUsed = 0
    /\ pumping = FALSE /\ answer = [c \in Callers |-> "none"]
    /\ lastStart = NoTimer /\ startsToday = 0

-----------------------------------------------------------------------------

\* Everyone who subscribed to the entry is answered, and it is forgotten.
settle(k, a) ==
    /\ entry' = [entry EXCEPT ![k] = "none"] /\ subscribers' = [subscribers EXCEPT ![k] = {}]
    /\ answer' = [c \in Callers |-> IF c \in subscribers[k] THEN a ELSE answer[c]]

Coalesces(k) == entry[k] # "none"

Admitted ==
    \/ active < maxActive /\ queue = <<>> /\ nextStartAt <= now
    \/ Len(queue) < maxPending

run(c, k) ==
    /\ ~pumping /\ answer[c] = "none"
    /\ IF Coalesces(k)
       THEN /\ subscribers' = [subscribers EXCEPT ![k] = @ \cup {c}] /\ answer' = [answer EXCEPT ![c] = "waiting"]
            /\ UNCHANGED <<queue, entry, expiresAt, pumping>>
       ELSE IF ~Admitted
       THEN answer' = [answer EXCEPT ![c] = "queue_full"] /\ UNCHANGED <<queue, entry, expiresAt, subscribers, pumping>>
       ELSE /\ entry' = [entry EXCEPT ![k] = "queued"] /\ queue' = Append(queue, k)
            /\ expiresAt' = [expiresAt EXCEPT ![k] = now + queueExpiry]
            /\ subscribers' = [subscribers EXCEPT ![k] = {c}] /\ answer' = [answer EXCEPT ![c] = "waiting"]
            /\ pumping' = TRUE
    /\ UNCHANGED <<now, timeoutAt, nextStartAt, spacingTimer, held, active, budget, history>>

Unobserved(k, c) == subscribers[k] = {c}

\* indexOf and splice: a queued entry is in the queue once.
Without(k) == LET i == CHOOSE i \in DOMAIN queue : queue[i] = k IN RemoveAt(queue, i)

\* The caller's signal.  An entry nobody waits for is withdrawn; a call that is
\* under way is aborted but keeps its slot until it is over.
cancel(c, k) ==
    /\ ~pumping /\ c \in subscribers[k]
    /\ answer' = [answer EXCEPT ![c] = "cancelled"] /\ subscribers' = [subscribers EXCEPT ![k] = @ \ {c}]
    /\ IF Unobserved(k, c)
       THEN /\ entry' = [entry EXCEPT ![k] = "none"] /\ pumping' = TRUE
            /\ queue' = IF entry[k] = "queued" THEN Without(k) ELSE queue
            /\ held' = held + (IF entry[k] = "running" THEN 1 ELSE 0)
       ELSE UNCHANGED <<entry, pumping, queue, held>>
    /\ UNCHANGED <<time, active, budget, history>>

expireQueued(k) ==
    /\ ~pumping /\ entry[k] = "queued" /\ now >= expiresAt[k]
    /\ queue' = Without(k) /\ settle(k, "expired") /\ pumping' = TRUE
    /\ UNCHANGED <<time, held, active, budget, history>>

spacingElapsed ==
    /\ ~pumping /\ spacingTimer # NoTimer /\ now >= spacingTimer
    /\ spacingTimer' = NoTimer /\ pumping' = TRUE
    /\ UNCHANGED <<now, expiresAt, timeoutAt, nextStartAt, queue, entry, subscribers, held, active, budget, answer, history>>

-----------------------------------------------------------------------------
(* One round of the pump's loop.                                           *)

Head1 == Head(queue)

\* Mutant of Wakes.
WakesNever == spacingTimer

\* schedulePump: a timer that runs already is left alone.
Wakes == IF spacingTimer = NoTimer THEN nextStartAt ELSE spacingTimer

pumpStops ==
    /\ pumping /\ pumping' = FALSE
    /\ \/ (active >= maxActive \/ queue = <<>>) /\ UNCHANGED spacingTimer
       \/ /\ active < maxActive /\ queue # <<>> /\ expiresAt[Head1] > now /\ nextStartAt > now
          /\ spacingTimer' = Wakes
    /\ UNCHANGED <<now, expiresAt, timeoutAt, nextStartAt, queue, entry, subscribers, held, active, budget, answer, history>>

pumpExpires ==
    /\ pumping /\ active < maxActive /\ queue # <<>> /\ expiresAt[Head1] <= now
    /\ queue' = Tail(queue) /\ settle(Head1, "expired")
    /\ UNCHANGED <<time, held, active, budget, pumping, history>>

Used == IF budgetDate = now \div Day THEN budgetUsed ELSE 0

Startable == pumping /\ active < maxActive /\ queue # <<>> /\ expiresAt[Head1] > now /\ nextStartAt <= now

pumpRefuses ==
    /\ Startable /\ Used >= dailyBudget
    /\ queue' = Tail(queue) /\ settle(Head1, "budget")
    /\ budgetDate' = now \div Day /\ budgetUsed' = Used
    /\ UNCHANGED <<time, held, active, pumping, history>>

NextStart == now + minStartInterval

pumpStarts ==
    /\ Startable /\ Used < dailyBudget
    /\ queue' = Tail(queue) /\ active' = active + 1
    /\ entry' = [entry EXCEPT ![Head1] = "running"]
    /\ budgetDate' = now \div Day /\ budgetUsed' = Used + 1
    /\ nextStartAt' = NextStart /\ timeoutAt' = [timeoutAt EXCEPT ![Head1] = now + timeout]
    /\ lastStart' = now /\ startsToday' = startsToday + 1
    /\ UNCHANGED <<now, expiresAt, spacingTimer, subscribers, held, pumping, answer>>

-----------------------------------------------------------------------------
(* executeEntry.                                                           *)

providerEnds(k) ==
    /\ ~pumping /\ entry[k] = "running"
    /\ \E a \in {"address", "failed"} : settle(k, a)
    /\ active' = active - 1 /\ pumping' = TRUE
    /\ UNCHANGED <<time, queue, held, budget, history>>

\* The slot is not free before the provider's call is over.
Holds(n) == held' = held + n /\ UNCHANGED active

\* Mutant of timedOut.
timedOutSilently(k) ==
    /\ ~pumping /\ entry[k] = "running" /\ now >= timeoutAt[k] /\ entry' = [entry EXCEPT ![k] = "none"] /\ Holds(1)
    /\ UNCHANGED <<time, queue, subscribers, answer, budget, pumping, history>>

timedOut(k) ==
    /\ ~pumping /\ entry[k] = "running" /\ now >= timeoutAt[k]
    /\ settle(k, "timeout") /\ Holds(1)
    /\ UNCHANGED <<time, queue, budget, pumping, history>>

heldEnds ==
    /\ ~pumping /\ held > 0
    /\ held' = held - 1 /\ active' = active - 1 /\ pumping' = TRUE
    /\ UNCHANGED <<time, queue, entry, subscribers, budget, answer, history>>

Tick ==
    /\ ~pumping /\ now < MaxTime /\ now' = now + 1
    /\ startsToday' = IF (now + 1) % Day = 0 THEN 0 ELSE startsToday
    /\ UNCHANGED <<expiresAt, timeoutAt, nextStartAt, spacingTimer, queue, entry, subscribers, held, active,
                   budget, pumping, answer, lastStart>>

pump   == pumpStops \/ pumpExpires \/ pumpRefuses \/ pumpStarts
timers == spacingElapsed \/ \E k \in Keys : expireQueued(k) \/ timedOut(k)

Next ==
    \/ \E c \in Callers, k \in Keys : run(c, k) \/ cancel(c, k)
    \/ pump \/ timers \/ heldEnds \/ Tick
    \/ \E k \in Keys : providerEnds(k)

Spec == Init /\ [][Next]_vars

\* Time passes and timers fire; the provider need never answer.
FairSpec ==
    /\ Spec /\ WF_vars(pump) /\ WF_vars(Tick) /\ WF_vars(spacingElapsed)
    /\ \A k \in Keys : WF_vars(expireQueued(k)) /\ WF_vars(timedOut(k))

-----------------------------------------------------------------------------
(* Properties.                                                             *)

\* Whoever waits is subscribed to exactly one entry that is queued or running,
\* and no entry is there for nobody.
NobodyForgotten ==
    /\ \A c \in Callers :
          answer[c] = "waiting" <=> \E k \in Keys : c \in subscribers[k] /\ entry[k] # "none"
    /\ \A k, l \in Keys : k # l => subscribers[k] \cap subscribers[l] = {}
    /\ \A k \in Keys : entry[k] # "none" <=> subscribers[k] # {}

\* An entry that could be started is never left without a wake-up.
WakeUpPending ==
    ~pumping /\ queue # <<>> /\ active < maxActive => spacingTimer # NoTimer

\* The provider is called no more often than agreed, counted by the calls, and
\* never for an entry that has expired.
ProviderSpared ==
    [][ lastStart' # lastStart \/ startsToday' > startsToday
          => /\ lastStart = NoTimer \/ now >= lastStart + minStartInterval
             /\ startsToday < dailyBudget
             /\ subscribers[Head1] # {} /\ now < expiresAt[Head1] ]_vars

\* Everyone gets an answer, even if the provider never gives one.
EveryoneAnswered ==
    \A c \in Callers : answer[c] = "waiting" /\ now + queueExpiry + timeout <= MaxTime ~> answer[c] # "waiting"

=============================================================================
