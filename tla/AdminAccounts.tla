---------------------------- MODULE AdminAccounts ----------------------------
(***************************************************************************)
(* Creating administrators: the first one from the operator's terminal     *)
(* (services/bootstrapAdmin.service.ts, scripts/bootstrapAdmin.ts), the    *)
(* others by an administrator (services/adminAccount.service.ts).          *)
(*                                                                         *)
(* Processes run transactions at READ COMMITTED: rows of others are seen   *)
(* once they are committed, a duplicate username waits for the other       *)
(* transaction to end.                                                     *)
(***************************************************************************)
EXTENDS Integers, FiniteSets

CONSTANTS
    Operators,   \* terminals that run the bootstrap script
    Requests,    \* requests to provision an administrator
    Names,       \* usernames
    MaxRuns,     \* bound: how often a process is started
    Nobody

AccountsAssumption ==
    /\ Operators \cap Requests = {} /\ Nobody \notin Operators \cup Requests
    /\ MaxRuns \in Nat

Procs == Operators \cup Requests

VARIABLES
    admins,      \* committed rows: the names
    origin,      \* how each committed row came to be: "first" or "provisioned"
    logged,      \* names with a row in admin_activity_logs
    pc, name,    \* of each process
    lock,        \* who holds the advisory lock of the bootstrap
    answer, runs

db    == <<admins, origin, logged>>
local == <<pc, name, answer, runs>>
vars  == <<db, local, lock>>

TypeOK ==
    /\ admins \subseteq Names /\ logged \subseteq Names
    /\ origin \in [Names -> {"none", "first", "provisioned"}]
    /\ pc \in [Procs -> {"idle", "lock", "look", "insert", "commit"}]
    /\ name \in [Procs -> Names]
    /\ lock \in Operators \cup {Nobody}
    /\ answer \in [Procs -> {"none", "created", "already_initialized", "duplicate", "failed", "unknown"}]
    /\ runs \in [Procs -> 0..MaxRuns]
    /\ \A p \in Operators : lock = p <=> pc[p] \in {"look", "insert", "commit"}

Init ==
    /\ admins = {} /\ origin = [n \in Names |-> "none"] /\ logged = {}
    /\ pc = [p \in Procs |-> "idle"] /\ name \in [Procs -> Names]
    /\ lock = Nobody /\ answer = [p \in Procs |-> "none"] /\ runs = [p \in Procs |-> 0]

Goes(p, from, to) == pc[p] = from /\ pc' = [pc EXCEPT ![p] = to]
Answers(p, a)     == answer' = [answer EXCEPT ![p] = a]

\* The transaction is over, and with it the advisory lock.
Ends(p) == lock' = IF lock = p THEN Nobody ELSE lock

\* Somebody's uncommitted row has the name.
Held(n, p) == \E q \in Procs \ {p} : pc[q] = "commit" /\ name[q] = n

-----------------------------------------------------------------------------

main(p) ==
    /\ p \in Operators /\ Goes(p, "idle", "lock") /\ runs[p] < MaxRuns
    /\ runs' = [runs EXCEPT ![p] = @ + 1] /\ \E n \in Names : name' = [name EXCEPT ![p] = n]
    /\ Answers(p, "none")
    /\ UNCHANGED <<db, lock>>

takeLock(p) ==
    /\ Goes(p, "lock", "look") /\ lock = Nobody /\ lock' = p
    /\ UNCHANGED <<db, name, answer, runs>>

\* Mutant of Initialized.
InitializedByName(p) == name[p] \in admins

Initialized(p) == admins # {}

selectAdmins(p) ==
    /\ pc[p] = "look"
    /\ IF Initialized(p)
       THEN /\ pc' = [pc EXCEPT ![p] = "idle"] /\ Answers(p, "already_initialized") /\ Ends(p)
       ELSE pc' = [pc EXCEPT ![p] = "insert"] /\ UNCHANGED <<answer, lock>>
    /\ UNCHANGED <<db, name, runs>>

\* requireAdmin let the request through: there is an administrator.
provisionAdmin(p) ==
    /\ p \in Requests /\ Goes(p, "idle", "insert") /\ runs[p] < MaxRuns /\ admins # {}
    /\ runs' = [runs EXCEPT ![p] = @ + 1] /\ \E n \in Names : name' = [name EXCEPT ![p] = n]
    /\ Answers(p, "none")
    /\ UNCHANGED <<db, lock>>

\* The administrator and the row of the log; a committed duplicate is refused.
insertAdmin(p) ==
    /\ pc[p] = "insert" /\ ~Held(name[p], p)
    /\ IF name[p] \in admins
       THEN /\ pc' = [pc EXCEPT ![p] = "idle"] /\ Ends(p)
            /\ Answers(p, IF p \in Requests THEN "duplicate" ELSE "failed")
       ELSE pc' = [pc EXCEPT ![p] = "commit"] /\ UNCHANGED <<answer, lock>>
    /\ UNCHANGED <<db, name, runs>>

Committed(p) == admins' = admins \cup {name[p]} /\ logged' = logged \cup {name[p]}

\* The answer of the COMMIT may be lost.
commit(p) ==
    /\ Goes(p, "commit", "idle") /\ Committed(p) /\ Ends(p)
    /\ origin' = [origin EXCEPT ![name[p]] = IF p \in Operators THEN "first" ELSE "provisioned"]
    /\ \E a \in {"created", "unknown"} : Answers(p, a)
    /\ UNCHANGED <<name, runs>>

\* A statement fails or the process dies: the transaction is rolled back.
rollback(p) ==
    /\ pc[p] # "idle" /\ pc' = [pc EXCEPT ![p] = "idle"] /\ Ends(p) /\ Answers(p, "failed")
    /\ UNCHANGED <<db, name, runs>>

step(p) == main(p) \/ takeLock(p) \/ selectAdmins(p) \/ provisionAdmin(p) \/ insertAdmin(p) \/ commit(p) \/ rollback(p)

Next == \E p \in Procs : step(p)

Spec == Init /\ [][Next]_vars

-----------------------------------------------------------------------------
(* Properties.                                                             *)

\* However many terminals run the bootstrap, and however often it is repeated
\* after an unknown outcome, it creates one administrator and creates it first.
OneFirst ==
    /\ Cardinality({n \in Names : origin[n] = "first"}) <= 1
    /\ admins # {} => \E n \in Names : origin[n] = "first"

\* An administrator is there exactly if the log says so, and whoever was told
\* that it was created can rely on it.
LoggedAndAnswered ==
    /\ admins = logged
    /\ \A p \in Procs : answer[p] = "created" => name[p] \in admins

=============================================================================
