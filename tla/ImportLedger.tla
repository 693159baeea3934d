---------------------------- MODULE ImportLedger ----------------------------
(***************************************************************************)
(* What the import promises the administrator who confirms a file, without *)
(* workers, leases, locks, chunks or replays: the rows of a confirmed file *)
(* are settled once each, at the same moment as the inventory changes; a   *)
(* row fails only after the database refused it; a confirmed file is never *)
(* forgotten; and the report of a finished one is what became of its rows. *)
(***************************************************************************)
EXTENDS FiniteSets

CONSTANTS Batches, Keys,
          Files    \* the tables of rows a preview may show

VARIABLES
    status,    \* of a file: "none", "preview", "accepted" or "finished"
    update,    \* whether it may update what is in the inventory
    rows,      \* its rows
    report,    \* how many of them had which outcome, once it is finished
    points,    \* the inventory
    refused    \* rows that the database refused

vars == <<status, update, rows, report, points, refused>>

Outcomes == {"created", "updated", "unchanged", "skipped", "failed"}
NoReport == [o \in Outcomes |-> 0]

Init ==
    /\ status = [b \in Batches |-> "none"] /\ update = [b \in Batches |-> FALSE]
    /\ rows = [b \in Batches |-> <<>>] /\ report = [b \in Batches |-> NoReport]
    /\ points \in [Keys -> {"none", "old", "new"}] /\ refused = {}

Previews   == {b \in Batches : status[b] = "preview"}
Pending(b) == {n \in DOMAIN rows[b] : rows[b][n].outcome = "pending"}
Tally(b)   == [o \in Outcomes |-> Cardinality({n \in DOMAIN rows[b] : rows[b][n].outcome = o})]

\* Previews are forgotten at any time, also while another file is dealt with.
Without(table, old, nothing) == [b \in Batches |-> IF b \in old THEN nothing ELSE table[b]]

Forget ==
    /\ \E old \in SUBSET Previews :
          /\ status' = Without(status, old, "none") /\ rows' = Without(rows, old, <<>>)
          /\ update' = Without(update, old, FALSE)
    /\ UNCHANGED <<report, points, refused>>

Upload(b) ==
    /\ status[b] = "none"
    /\ \E old \in SUBSET Previews, f \in Files :
          /\ status' = [Without(status, old, "none") EXCEPT ![b] = "preview"]
          /\ rows' = [Without(rows, old, <<>>) EXCEPT ![b] = f]
          /\ update' = Without(update, old, FALSE)
    /\ UNCHANGED <<report, points, refused>>

Accept(b) ==
    /\ status[b] = "preview"
    /\ \E old \in SUBSET (Previews \ {b}), allowUpdate \in BOOLEAN :
          /\ status' = [Without(status, old, "none") EXCEPT ![b] = "accepted"]
          /\ rows' = Without(rows, old, <<>>)
          /\ update' = [Without(update, old, FALSE) EXCEPT ![b] = allowUpdate]
    /\ UNCHANGED <<report, points, refused>>

\* What becomes of a row that the database takes.
Becomes(b, n) ==
    LET here == points[rows[b][n].key]
    IN  IF here = "none" THEN "created"
        ELSE IF ~update[b] THEN "skipped" ELSE IF here = "old" THEN "updated" ELSE "unchanged"
Changes(b, n) == Becomes(b, n) \in {"created", "updated"}

\* Some rows, of different inventory numbers, are settled and applied at once.
Settle(b) ==
    /\ status[b] = "accepted"
    /\ \E S \in SUBSET Pending(b) :
          /\ \A m, n \in S : m # n => rows[b][m].key # rows[b][n].key
          /\ rows' = [rows EXCEPT ![b] = [n \in DOMAIN @ |->
                         IF n \in S THEN [@[n] EXCEPT !.outcome = Becomes(b, n)] ELSE @[n]]]
          /\ points' = [k \in Keys |->
                         IF \E n \in S : rows[b][n].key = k /\ Changes(b, n) THEN "new" ELSE points[k]]
    /\ UNCHANGED <<status, update, report, refused>>

\* The database refuses a change, perhaps because somebody creates the same
\* light point at this moment.
Refuse(b, n) ==
    /\ status[b] = "accepted" /\ n \in Pending(b) /\ Changes(b, n)
    /\ \/ UNCHANGED points
       \/ points[rows[b][n].key] = "none" /\ points' = [points EXCEPT ![rows[b][n].key] = "old"]
    /\ refused' = refused \cup {<<b, n>>}
    /\ UNCHANGED <<status, update, rows, report>>

Fail(b, n) ==
    /\ status[b] = "accepted" /\ n \in Pending(b) /\ <<b, n>> \in refused
    /\ rows' = [rows EXCEPT ![b][n].outcome = "failed"]
    /\ UNCHANGED <<status, update, report, points, refused>>

Finish(b) ==
    /\ status[b] = "accepted" /\ Pending(b) = {}
    /\ status' = [status EXCEPT ![b] = "finished"]
    /\ report' = [report EXCEPT ![b] = Tally(b)]
    /\ UNCHANGED <<update, rows, points, refused>>

\* Administrators edit the inventory all the while.
Edit(k) ==
    /\ \E v \in {"none", "old", "new"} : points' = [points EXCEPT ![k] = v]
    /\ UNCHANGED <<status, update, rows, report, refused>>

Next ==
    \/ Forget
    \/ \E b \in Batches :
          \/ Upload(b) \/ Accept(b) \/ Settle(b) \/ Finish(b)
          \/ \E n \in Pending(b) : Refuse(b, n) \/ Fail(b, n)
    \/ \E k \in Keys : Edit(k)

Spec == Init /\ [][Next]_vars

=============================================================================
