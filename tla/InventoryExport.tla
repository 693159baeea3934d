---------------------------- MODULE InventoryExport ----------------------------
(***************************************************************************)
(* Export of the inventory (services/streetLightsExport.service.ts, the    *)
(* admin's services/adminApi.ts).  The handler holds one connection of the *)
(* pool, reads the rows of one REPEATABLE READ transaction chunk by chunk  *)
(* and writes them to a client that may be slow or go away, while others   *)
(* change the inventory.  The browser saves the file only when the whole   *)
(* body has come, and refreshes an expired session once (AuthSessions).    *)
(*                                                                         *)
(* A row is its id, its inventory number and its status; the formats       *)
(* differ in their text only.                                              *)
(***************************************************************************)
EXTENDS Integers, FiniteSets, Sequences

CONSTANTS
    None,
    Exports, Conns,                        \* requests of the page; connections
    Ids, Numbers, ChunkRows,
    Filters,                               \* those the page may ask for
    MaxChanges, MaxExpired                 \* bounds

Statuses == {"active", "inactive"}

VARIABLES
    inventory,     \* light_points: the row of each id, or None
    ex,            \* the handler and the response of each export
    conn,          \* of each connection: an open transaction, and its snapshot
    client,        \* what the page knows of each export
    during,        \* history: the inventories there were during each export
    bounds

vars == <<inventory, ex, conn, client, during, bounds>>

Row == [id : Ids, number : Numbers, status : Statuses]
Inventory == {i \in [Ids -> Row \cup {None}] : \A a, b \in Ids :
                 i[a] # None => i[a].id = a /\ (i[b] # None /\ a # b => i[a].number # i[b].number)}

ExportAssumption ==
    /\ ChunkRows \in Nat \ {0} /\ Ids \subseteq Nat /\ IsFiniteSet(Ids) /\ Numbers \subseteq Nat \ {0}
    /\ \A i \in Ids : i \in Numbers    \* an inventory to begin with
    /\ Filters \subseteq {"active", "inactive", "all", "unknown"}
    /\ None \notin Conns /\ None \notin Row /\ None \notin Inventory
    /\ None \notin {"ended", "error", "401", "destroyed"}

TypeOK ==
    /\ inventory \in Inventory
    /\ \A e \in Exports : ex[e].conn \in Conns \cup {None} /\ Len(ex[e].chunk) <= ChunkRows
    /\ \A e, f \in Exports : ex[e].conn = ex[f].conn /\ ex[e].conn # None => e = f
    /\ client \in [Exports -> {"idle", "fetching", "refreshing", "saved", "failed", "login"}]

Waiting(e) == client[e] \in {"fetching", "refreshing"}

idle == [phase |-> "idle", filter |-> "all", retried |-> FALSE, conn |-> None, started |-> FALSE,
         chunk |-> <<>>, full |-> FALSE, last |-> 0, sent |-> <<>>, closed |-> FALSE, response |-> None]

Init ==
    /\ inventory = [i \in Ids |-> [id |-> i, number |-> i, status |-> IF i = 1 THEN "active" ELSE "inactive"]]
    /\ ex = [e \in Exports |-> idle]
    /\ conn = [c \in Conns |-> [open |-> FALSE, snapshot |-> None]]
    /\ client = [e \in Exports |-> "idle"]
    /\ during = [e \in Exports |-> {}]
    /\ bounds = [changes |-> 0, expired |-> 0]

-----------------------------------------------------------------------------
(* The rows of an export.                                                  *)

buildStreetLightFilters(inv, filter) == {inv[i] : i \in {j \in Ids : inv[j] # None /\ filter \in {"all", inv[j].status}}}

\* ORDER BY: all of the rows, each once, by their numbers.
InOrder(s, rows) ==
    /\ {s[i] : i \in DOMAIN s} = rows
    /\ \A i, j \in DOMAIN s : i < j => s[i].number < s[j].number

Sorted(rows) == CHOOSE s \in [1..Cardinality(rows) -> rows] : InOrder(s, rows)

\* Mutant of View.
ViewCommitted(c) == inventory

\* What a query of a transaction sees: the inventory of its first query.
View(c) == IF conn[c].snapshot = None THEN inventory ELSE conn[c].snapshot

readChunk(c, filter, last) ==
    LET after == Sorted({r \in buildStreetLightFilters(View(c), filter) : r.number > last})
    IN  SubSeq(after, 1, IF Len(after) < ChunkRows THEN Len(after) ELSE ChunkRows)

-----------------------------------------------------------------------------
(* The page.                                                               *)

Page == \A e \in Exports : client[e] # "login"

\* fetch of exportRequest.
request(e, filter, retried) ==
    ex' = [ex EXCEPT ![e] = [idle EXCEPT !.phase = "sent", !.filter = filter, !.retried = retried]]

handleExport(e) ==
    /\ Page /\ client[e] = "idle"
    /\ \E filter \in Filters : request(e, filter, FALSE)
    /\ client' = [client EXCEPT ![e] = "fetching"]
    /\ during' = [during EXCEPT ![e] = {inventory}]
    /\ UNCHANGED <<inventory, conn, bounds>>

exportRequest(e) ==
    /\ client[e] = "fetching" /\ ex[e].response # None
    /\ client' = [client EXCEPT ![e] = IF ex[e].response = "401" /\ ~ex[e].retried THEN "refreshing"
                                       ELSE IF ex[e].response = "ended" THEN "saved" ELSE "failed"]
    /\ UNCHANGED <<inventory, ex, conn, during, bounds>>

\* tryRefresh brings new cookies, and the request is repeated, once.
refreshed(e) ==
    /\ client[e] = "refreshing"
    /\ request(e, ex[e].filter, TRUE)
    /\ client' = [client EXCEPT ![e] = "fetching"]
    /\ UNCHANGED <<inventory, conn, during, bounds>>

\* The sign-in page replaces this one, and its requests are gone.
toLogin(e) ==
    /\ client[e] = "refreshing"
    /\ client' = [f \in Exports |-> IF Waiting(f) THEN "login" ELSE client[f]]
    /\ ex' = [f \in Exports |-> IF Waiting(f) THEN [ex[f] EXCEPT !.closed = TRUE] ELSE ex[f]]
    /\ UNCHANGED <<inventory, conn, during, bounds>>

\* The browser or the network gives up on a download.
disconnect(e) ==
    /\ client[e] = "fetching" /\ ex[e].phase # "done"
    /\ client' = [client EXCEPT ![e] = "failed"]
    /\ ex' = [ex EXCEPT ![e].closed = TRUE]
    /\ UNCHANGED <<inventory, conn, during, bounds>>

-----------------------------------------------------------------------------
(* The server.                                                             *)

Step(e, r) == ex' = [ex EXCEPT ![e] = r] /\ UNCHANGED <<inventory, client, during, bounds>>

\* exportFile and the filters: what is refused takes no connection.
exportFile(e) ==
    /\ ex[e].phase = "sent"
    /\ Step(e, IF ex[e].filter = "unknown" THEN [ex[e] EXCEPT !.phase = "done", !.response = "error"]
               ELSE [ex[e] EXCEPT !.phase = "connect"])
    /\ UNCHANGED conn

\* The access token has expired.
requireAdmin(e) ==
    /\ ex[e].phase = "sent" /\ bounds.expired < MaxExpired
    /\ bounds' = [bounds EXCEPT !.expired = @ + 1]
    /\ ex' = [ex EXCEPT ![e].phase = "done", ![e].response = "401"]
    /\ UNCHANGED <<inventory, conn, client, during>>

Held == {ex[e].conn : e \in Exports}

connect(e) ==
    /\ ex[e].phase = "connect"
    /\ \E c \in Conns \ Held : Step(e, [ex[e] EXCEPT !.phase = "begin", !.conn = c])
    /\ UNCHANGED conn

\* No connection within connectionTimeoutMillis, or none can be made.
connectTimeout(e) ==
    /\ ex[e].phase = "connect"
    /\ Step(e, [ex[e] EXCEPT !.phase = "done", !.response = "error"])
    /\ UNCHANGED conn

\* BEGIN within a transaction changes nothing.
begin(e) ==
    /\ ex[e].phase = "begin"
    /\ conn' = [conn EXCEPT ![ex[e].conn].open = TRUE]
    /\ Step(e, [ex[e] EXCEPT !.phase = "read"])

\* The first query fixes the snapshot; the response has started after it.
read(e) ==
    LET c == ex[e].conn
        rows == readChunk(c, ex[e].filter, ex[e].last)
    IN  /\ ex[e].phase = "read"
        /\ conn' = [conn EXCEPT ![c].snapshot = View(c)]
        /\ Step(e, [ex[e] EXCEPT !.phase = "write", !.chunk = rows, !.full = (Len(rows) = ChunkRows), !.started = TRUE])

\* A row is written; the client may have to drain it first.
writeRow(e) ==
    /\ ex[e].phase = "write" /\ ~ex[e].closed /\ ex[e].chunk # <<>>
    /\ \E phase \in {"write", "drain"} :
         Step(e, [ex[e] EXCEPT !.phase = phase, !.sent = Append(@, Head(ex[e].chunk)),
                               !.last = Head(ex[e].chunk).number, !.chunk = Tail(@)])
    /\ UNCHANGED conn

onDrain(e) ==
    /\ ex[e].phase = "drain" /\ ~ex[e].closed
    /\ Step(e, [ex[e] EXCEPT !.phase = "write"])
    /\ UNCHANGED conn

\* A full chunk may have rows after it.
chunkDone(e) ==
    /\ ex[e].phase = "write" /\ ~ex[e].closed /\ ex[e].chunk = <<>>
    /\ Step(e, [ex[e] EXCEPT !.phase = IF ex[e].full THEN "read" ELSE "commit"])
    /\ UNCHANGED conn

Release(e, r) == Step(e, [r EXCEPT !.phase = "done", !.conn = None])

Closed == [open |-> FALSE, snapshot |-> None]

commit(e) ==
    /\ ex[e].phase = "commit"
    /\ conn' = [conn EXCEPT ![ex[e].conn] = Closed]
    /\ Release(e, [ex[e] EXCEPT !.response = "ended"])

\* The check between rows, or the write of a part of a row that throws.
clientDisconnected(e) ==
    /\ ex[e].phase = "write" /\ ex[e].closed
    /\ Step(e, [ex[e] EXCEPT !.phase = "rollback"])
    /\ UNCHANGED conn

onClose(e) ==
    /\ ex[e].phase = "drain" /\ ex[e].closed
    /\ Step(e, [ex[e] EXCEPT !.phase = "rollback"])
    /\ UNCHANGED conn

\* A response that has started is destroyed, never ended.
Fail(e) == [ex[e] EXCEPT !.response = IF ex[e].started THEN "destroyed" ELSE "error"]

beginFails(e) ==
    /\ ex[e].phase = "begin"
    /\ Release(e, Fail(e))
    /\ UNCHANGED conn

queryFails(e) ==
    /\ ex[e].phase \in {"read", "commit"}
    /\ Step(e, [ex[e] EXCEPT !.phase = "rollback"])
    /\ UNCHANGED conn

\* ROLLBACK ends the transaction, or the connection is gone with it.
rollback(e) ==
    /\ ex[e].phase = "rollback"
    /\ conn' = [conn EXCEPT ![ex[e].conn] = Closed]
    /\ Release(e, Fail(e))

-----------------------------------------------------------------------------
(* Others.                                                                 *)

\* An import or another admin creates, changes or deletes a light point.
change ==
    /\ bounds.changes < MaxChanges
    /\ \E i \in Ids, row \in Row \cup {None} :
         /\ row # None => row.id = i
         /\ inventory' = [inventory EXCEPT ![i] = row]
    /\ inventory' # inventory /\ inventory' \in Inventory
    /\ during' = [e \in Exports |-> IF Waiting(e) THEN during[e] \cup {inventory'} ELSE during[e]]
    /\ bounds' = [bounds EXCEPT !.changes = @ + 1]
    /\ UNCHANGED <<ex, conn, client>>

Server(e) ==
    \/ exportFile(e) \/ requireAdmin(e) \/ connect(e) \/ connectTimeout(e) \/ begin(e) \/ read(e) \/ writeRow(e) \/ chunkDone(e)
    \/ commit(e) \/ clientDisconnected(e) \/ onClose(e) \/ beginFails(e) \/ queryFails(e) \/ rollback(e)

Reader(e) == onDrain(e) \/ disconnect(e)

\* A client that is waited for.
Drains(e) == ex[e].phase = "drain" /\ Reader(e)

Client(e) == exportRequest(e) \/ refreshed(e) \/ toLogin(e)

Next ==
    \/ \E e \in Exports : handleExport(e) \/ Client(e) \/ Server(e) \/ Reader(e)
    \/ change

Spec == Init /\ [][Next]_vars

\* Node and the database go on; a client reads what it was sent or goes away.
FairSpec == Spec /\ \A e \in Exports : WF_vars(Server(e)) /\ WF_vars(Drains(e)) /\ WF_vars(Client(e))

-----------------------------------------------------------------------------
(* Properties.                                                             *)

\* A saved file holds exactly the rows that match the filter in one state the
\* inventory had during the export, in their order: chunks of different
\* snapshots are never mixed, and a broken export is never taken for a whole one.
FileComplete == \A e \in Exports :
    client[e] = "saved" => \E inv \in during[e] : InOrder(ex[e].sent, buildStreetLightFilters(inv, ex[e].filter))

\* A connection back in the pool has no open transaction, however its export ended.
CleanPool == \A c \in Conns \ Held : ~conn[c].open

\* The connection of an export returns to the pool, also when the client stops
\* reading and goes away.
Released == \A e \in Exports : (ex[e].conn # None) ~> (ex[e].conn = None)

================================================================================
