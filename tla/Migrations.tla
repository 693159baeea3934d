------------------------------ MODULE Migrations -------------------------------
(***************************************************************************)
(* Schema migrations (db/migrate.ts, db/migrationPreflight.ts).  Migration *)
(* commands of several releases, started concurrently and interrupted      *)
(* anywhere, bring one database to the chain of migrations their release   *)
(* packages; a legacy database is adopted explicitly, after a check of its *)
(* schema and data that is repeated under lock before 0002.  A server      *)
(* starts only on exactly its own chain.                                   *)
(***************************************************************************)
EXTENDS Integers, Sequences, FiniteSets, SequencesExt

CONSTANTS
    Releases,
    Package,        \* the migrations each release packages, [version, checksum] in order of file name
    Commands,       \* migration commands, each run with some release
    MaxRuns,        \* bound
    None

Migration == UNION {ToSet(Package[r]) : r \in Releases}

\* 0001 first, and no gaps.
loadMigrations(r) == Package[r] # <<>> /\ \A i \in 1..Len(Package[r]) : Package[r][i].version = i

PackageAssumption ==
    /\ Releases # {}
    /\ \A r \in Releases : Package[r] \in Seq([version : Nat, checksum : Nat]) /\ Package[r] # <<>>
    /\ \A r, q \in Releases : Package[r][1] = Package[q][1]        \* one baseline
    /\ None \notin Commands \cup Releases /\ None \notin Seq([version : Nat, checksum : Nat]) /\ None # "duplicate"

VARIABLES
    kind, utf8,         \* what the database was: "empty", "legacy" or "unknown"; its encoding
    schema, ledger,     \* the migrations it has the effect of, and those it says it has
    clean,              \* would the data of light_points pass the preflight?
    tableLock, lock,    \* who has light_points and the advisory lock
    pc, release, mode,  \* of each command
    known,              \* the ledger as a command read it
    cause,              \* why a command failed
    runs

db     == <<kind, utf8, schema, ledger, clean>>
vars   == <<db, tableLock, lock, pc, release, mode, known, cause, runs>>

TypeOK ==
    /\ schema \in Seq(Migration) /\ ledger \in Seq(Migration) \cup {None}
    /\ lock \in Commands \cup {None} /\ \A c \in Commands : pc[c] \notin {"off", "waiting"} => lock = c
    /\ tableLock # None => lock = tableLock

Init ==
    /\ kind \in {"empty", "legacy", "unknown"} /\ utf8 \in BOOLEAN /\ clean \in BOOLEAN
    /\ kind = "empty" => clean
    /\ schema = IF kind = "legacy" THEN <<Package[CHOOSE r \in Releases : TRUE][1]>> ELSE <<>>
    /\ ledger = None /\ tableLock = None /\ lock = None /\ pc = [c \in Commands |-> "off"]
    /\ release = [c \in Commands |-> None] /\ mode = [c \in Commands |-> "run"]
    /\ known = [c \in Commands |-> <<>>] /\ cause = [c \in Commands |-> None] /\ runs = 0

-----------------------------------------------------------------------------
To(c, l) == pc' = [pc EXCEPT ![c] = l]

\* Mutant of End.
EndLocked(c, why) == To(c, "off") /\ cause' = [cause EXCEPT ![c] = why] /\ UNCHANGED <<lock, tableLock>>

\* A command ends; its session, with the locks and any open transaction, does too.
End(c, why) ==
    /\ To(c, "off") /\ cause' = [cause EXCEPT ![c] = why]
    /\ lock' = IF lock = c THEN None ELSE lock
    /\ tableLock' = IF tableLock = c THEN None ELSE tableLock

start(c) ==
    /\ pc[c] = "off" /\ runs < MaxRuns /\ runs' = runs + 1
    /\ \E r \in Releases, m \in {"run", "adopt"} :
          /\ release' = [release EXCEPT ![c] = r] /\ mode' = [mode EXCEPT ![c] = m]
          /\ IF loadMigrations(r) THEN To(c, "waiting") /\ cause' = [cause EXCEPT ![c] = None]
             ELSE UNCHANGED pc /\ cause' = [cause EXCEPT ![c] = "package"]
    /\ UNCHANGED <<db, tableLock, lock, known>>

LockFree == lock = None

withMigrationLock(c) ==
    /\ pc[c] = "waiting" /\ LockFree /\ lock' = c /\ To(c, mode[c])
    /\ UNCHANGED <<db, tableLock, release, mode, known, cause, runs>>

crash(c) ==
    /\ pc[c] # "off" /\ End(c, "crash")
    /\ UNCHANGED <<db, release, mode, known, runs>>

applicationTables == kind # "empty" \/ schema # <<>>

\* A database without ledger must be empty; the ledger is created before the migrations.
runMigrations(c) ==
    /\ pc[c] = "run"
    /\ \/ /\ ~utf8 \/ (ledger = None /\ applicationTables)
          /\ End(c, "unversioned") /\ UNCHANGED ledger
       \/ /\ utf8 /\ (ledger # None \/ ~applicationTables)
          /\ ledger' = (IF ledger = None THEN <<>> ELSE ledger) /\ To(c, "read") /\ UNCHANGED <<cause, lock, tableLock>>
    /\ UNCHANGED <<kind, utf8, schema, clean, release, mode, known, runs>>

\* The schema is recognised table by table, column by column and index by index;
\* no identity may be missing, empty, not canonical or a duplicate.
assertRecognizedLegacySchema == kind = "legacy" /\ schema = <<Package[CHOOSE r \in Releases : TRUE][1]>>

inspectP3MigrationPreflight == kind = "empty" \/ (assertRecognizedLegacySchema /\ clean)

adoptRecognizedPreP3Database(c) ==
    /\ pc[c] = "adopt"
    /\ \/ /\ ~utf8 \/ ledger # None \/ kind = "empty" \/ ~inspectP3MigrationPreflight
          /\ End(c, "refused")
       \/ /\ utf8 /\ ledger = None /\ kind = "legacy" /\ inspectP3MigrationPreflight
          /\ To(c, "adopted") /\ UNCHANGED <<cause, lock, tableLock>>
    /\ UNCHANGED <<db, release, mode, known, runs>>

\* The ledger and its first entry are one transaction.
recordBaseline(c) ==
    /\ pc[c] = "adopted" /\ ledger' = <<Package[release[c]][1]>> /\ To(c, "read")
    /\ UNCHANGED <<kind, utf8, schema, clean, tableLock, lock, release, mode, known, cause, runs>>

\* Mutant of Matches.
MatchesVersion(c) == Len(ledger) <= Len(Package[release[c]])

\* Each entry is packaged, with its name and checksum.
Matches(c) == \A i \in 1..Len(ledger) : \E j \in 1..Len(Package[release[c]]) : Package[release[c]][j] = ledger[i]

applyRemaining(c) ==
    /\ pc[c] = "read"
    /\ IF Matches(c) THEN /\ known' = [known EXCEPT ![c] = ledger] /\ To(c, "next") /\ UNCHANGED <<cause, lock, tableLock>>
       ELSE End(c, "mismatch") /\ UNCHANGED known
    /\ UNCHANGED <<db, release, mode, runs>>

Remaining(c) == {i \in 1..Len(Package[release[c]]) : \A k \in 1..Len(known[c]) : known[c][k].version # i}
Following(c) == CHOOSE i \in Remaining(c) : \A j \in Remaining(c) : i <= j

\* 0002 locks light_points and looks again.
PreflightAgain(i) == i = 2 => clean

begin(c) ==
    /\ pc[c] = "next" /\ Remaining(c) # {}
    /\ IF PreflightAgain(Following(c))
       THEN /\ To(c, "applying") /\ tableLock' = (IF Following(c) = 2 THEN c ELSE tableLock) /\ UNCHANGED <<cause, lock>>
       ELSE End(c, "preflight")
    /\ UNCHANGED <<db, release, mode, known, runs>>

\* The effect and its entry commit together; an entry or an effect that exists fails both.
commit(c) ==
    /\ pc[c] = "applying"
    /\ LET mig == Package[release[c]][Following(c)] IN
       IF \E i \in 1..Len(ledger) : ledger[i].version = mig.version
       THEN End(c, "duplicate") /\ UNCHANGED <<schema, ledger, known>>
       ELSE /\ schema' = Append(schema, mig) /\ ledger' = Append(ledger, mig)
            /\ known' = [known EXCEPT ![c] = Append(@, mig)]
            /\ To(c, "next") /\ tableLock' = None /\ UNCHANGED <<cause, lock>>
    /\ UNCHANGED <<kind, utf8, clean, release, mode, runs>>

sqlFails(c) ==
    /\ pc[c] = "applying" /\ End(c, "sql")
    /\ UNCHANGED <<db, release, mode, known, runs>>

finish(c) ==
    /\ pc[c] = "next" /\ Remaining(c) = {} /\ End(c, "done")
    /\ UNCHANGED <<db, release, mode, known, runs>>

\* The previous version of the program still writes light_points.
legacyWrite ==
    /\ kind = "legacy" /\ Len(schema) = 1 /\ tableLock = None /\ clean' = ~clean
    /\ UNCHANGED <<kind, utf8, schema, ledger, tableLock, lock, pc, release, mode, known, cause, runs>>

-----------------------------------------------------------------------------
command(c) ==
    \/ withMigrationLock(c) \/ runMigrations(c) \/ adoptRecognizedPreP3Database(c) \/ recordBaseline(c)
    \/ applyRemaining(c) \/ begin(c) \/ commit(c) \/ sqlFails(c) \/ finish(c)

Next == legacyWrite \/ \E c \in Commands : start(c) \/ crash(c) \/ command(c)

Spec == Init /\ [][Next]_vars

\* A command runs on; the lock goes to the one that waits longest.
FairSpec == Spec /\ \A c \in Commands : WF_vars(command(c)) /\ SF_vars(withMigrationLock(c))

-----------------------------------------------------------------------------
(* Servers.                                                                *)

assertMigrationsCurrent(r) == loadMigrations(r) /\ ledger # None /\ ledger = Package[r]

-----------------------------------------------------------------------------
(* Properties.                                                             *)

\* Through crashes between any two steps the ledger says exactly what the schema
\* is, and that is a beginning of one release's chain.
LedgerTruthful ==
    ledger # None /\ (kind = "empty" \/ ledger # <<>>) =>
        ledger = schema /\ \E r \in Releases : loadMigrations(r) /\ IsPrefix(ledger, Package[r])

\* A server of a release starts only on the schema of that release.
ServerFits == \A r \in Releases : assertMigrationsCurrent(r) => schema = Package[r]

\* A database with tables gets a ledger only by the adoption of a legacy schema,
\* and 0002 is never applied to data its preflight refuses.
OnlyRecognized ==
    /\ kind = "unknown" \/ ~utf8 => ledger = None
    /\ kind = "legacy" /\ ledger # None => ledger # <<>> /\ ledger[1] = schema[1]
    /\ Len(schema) >= 2 => clean

\* Commands that run together do not make each other fail.
NoInterference == \A c \in Commands : cause[c] # "duplicate"

\* Every command ends.
CommandEnds == \A c \in Commands : pc[c] # "off" ~> pc[c] = "off"

=============================================================================
