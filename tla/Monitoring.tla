----------------------------- MODULE Monitoring -----------------------------
(***************************************************************************)
(* The monitor command: evaluateMonitoring in operations/monitoring.ts,    *)
(* polled by a timer over a snapshot of the evidence that the other        *)
(* operations leave.  One unit of time stands for some hours; thresholds   *)
(* keep their order and their strictness.                                  *)
(***************************************************************************)
EXTENDS Integers

CONSTANTS
    Warn, Critical,   \* thresholds of each signal that has an age, Critical may be NoLimit
    PollEvery,        \* the timer's period
    Flags,            \* failures: of a backup, of retention, the database, a migration
    Never, NoLimit, MaxTime

Aged == {"backup", "drill", "backlog", "retention"}
Severity == {"none", "warning", "critical", "unknown"}

MonitoringAssumption ==
    /\ Never \notin Int /\ NoLimit \notin Int
    /\ Warn \in [Aged -> Nat] /\ Critical \in [Aged -> Nat \cup {NoLimit}]
    /\ PollEvery \in Nat \ {0} /\ MaxTime \in Nat
    /\ Critical["backup"] \in Nat

VARIABLES
    now,
    at,        \* the evidence: when the signal's last event was
    class,     \* latestRestoreDrillEvidenceClass
    target,    \* when a drill of the target class last ran, in fact
    flags,     \* failures on record
    changed,   \* signals with new evidence since the last poll
    polled,    \* time of the last poll
    events     \* severities it emitted

evidence == <<at, class, target, flags>>
vars == <<now, evidence, changed, polled, events>>

TypeOK ==
    /\ now \in 0..MaxTime /\ at \in [Aged -> (0..MaxTime) \cup {Never}]
    /\ class \in {"none", "target_class", "synthetic_ci"} /\ target \in (0..MaxTime) \cup {Never}
    /\ flags \subseteq Flags /\ changed \subseteq Aged /\ polled \in 0..MaxTime
    /\ events \in [Aged \cup Flags -> Severity]
    /\ (at["drill"] = Never) = (class = "none")

Init ==
    /\ now = 0 /\ at = [s \in Aged |-> Never] /\ class = "none" /\ target = Never /\ flags = {}
    /\ changed = {} /\ polled = 0 /\ events = [s \in Aged \cup Flags |-> "none"]

-----------------------------------------------------------------------------
(* The evaluation.                                                         *)

Age(s) == now - at[s]

\* Only the age of a backup is critical at its threshold; the others beyond it.
OverCritical(s) ==
    /\ Critical[s] # NoLimit
    /\ Age(s) > Critical[s] \/ (s = "backup" /\ Age(s) = Critical[s])

AgeSeverity(s) ==
    IF OverCritical(s) THEN "critical" ELSE IF Age(s) > Warn[s] THEN "warning" ELSE "none"

\* Mutant of Unverified.
UnverifiedNull == class = "none"

\* Only a drill of the target class is evidence.
Unverified == class # "target_class"

\* No backup is critical; no backlog is well; no retention success is not judged.
evaluateAge(s) ==
    CASE s = "drill" /\ Unverified -> "unknown"
      [] ~(s = "drill" /\ Unverified) /\ at[s] = Never -> IF s = "backup" THEN "critical" ELSE "none"
      [] OTHER -> AgeSeverity(s)

evaluateMonitoring ==
    [s \in Aged \cup Flags |-> IF s \in Aged THEN evaluateAge(s)
                               ELSE IF s \in flags THEN "critical" ELSE "none"]

monitorOnce ==
    /\ polled' = now /\ changed' = {} /\ events' = evaluateMonitoring
    /\ UNCHANGED <<now, evidence>>

-----------------------------------------------------------------------------
(* The evidence.                                                           *)

Observed(s, t) == at' = [at EXCEPT ![s] = t] /\ changed' = changed \cup {s}

\* A generation is verified some time after its snapshot was taken.
backupVerified ==
    /\ \E t \in {u \in 0..now : at["backup"] = Never \/ at["backup"] < u} : Observed("backup", t)
    /\ UNCHANGED <<now, class, target, flags, polled, events>>

drillEnds ==
    /\ Observed("drill", now)
    /\ \/ class' = "target_class" /\ target' = now
       \/ class' = "synthetic_ci" /\ UNCHANGED target
    /\ UNCHANGED <<now, flags, polled, events>>

\* A backlog is dated from its beginning until a run finds none.
retentionEnds ==
    /\ \E backlog \in BOOLEAN :
          at' = [at EXCEPT !["retention"] = now,
                           !["backlog"] = IF ~backlog THEN Never ELSE IF @ = Never THEN now ELSE @]
    /\ changed' = changed \cup {"retention", "backlog"}
    /\ flags' = flags \ {"retention_failed"}
    /\ UNCHANGED <<now, class, target, polled, events>>

failureRecorded ==
    /\ \E f \in Flags \ flags : flags' = flags \cup {f}
    /\ UNCHANGED <<now, at, class, target, changed, polled, events>>

\* Time does not pass the next poll.
Tick ==
    /\ now < MaxTime /\ now < polled + PollEvery /\ now' = now + 1
    /\ UNCHANGED <<evidence, changed, polled, events>>

Next ==
    \/ Tick \/ monitorOnce \/ backupVerified \/ drillEnds \/ retentionEnds \/ failureRecorded

Spec == Init /\ [][Next]_vars

-----------------------------------------------------------------------------
(* Properties.                                                             *)

Rank == [none |-> 0, unknown |-> 1, warning |-> 2, critical |-> 3]

\* An alarm does not go away by itself: as long as the evidence is the same, no
\* poll lowers a severity.
AlarmsStay ==
    [][\A s \in Aged : polled > 0 /\ s \notin changed => Rank[events'[s]] >= Rank[events[s]]]_events

\* The period is shorter than what lies between the thresholds of a backup: a timer
\* that runs once an hour has one, monitor's own daily timer has not.
PollsBetweenThresholds == Warn["backup"] + PollEvery < Critical["backup"]

\* With such a period the age of a backup is not reported critical before it was
\* reported as a warning; having none is critical from the first poll on.
CriticalWasWarned ==
    [][PollsBetweenThresholds /\ polled > 0 /\ events'["backup"] = "critical"
          => events["backup"] \in {"warning", "critical"}]_events

\* When the drill check is quiet a drill of the target class has taken place,
\* and not too long ago: synthetic drills do not count, and do not refresh one.
DrillQuietByTarget ==
    polled > 0 /\ events["drill"] = "none" => target # Never /\ polled - target <= Warn["drill"]

=============================================================================
