-------------------------- MODULE LightPointAddress ---------------------------
(***************************************************************************)
(* The stored address of a light point: administrators edit, move and      *)
(* delete the point, geocoders (services/lightPoints.service.ts) and       *)
(* reporters (routes/reportAddressSuggestion.routes.ts) ask a provider     *)
(* for the address of coordinates they read before and store the answer.   *)
(*                                                                         *)
(* A transaction that holds the row lock is one step; the call of the      *)
(* provider is outside of it, and anything may happen meanwhile.           *)
(***************************************************************************)
EXTENDS Integers, FiniteSets

CONSTANTS
    Coords,
    Geocoders,               \* runs of ensureLightPointAddress
    Reporters,               \* requests for the point's address
    Outside,                 \* coordinates that are not in the service area
    MaxEdits, MaxRuns,       \* bounds: administrators' updates, runs of a geocoder
    None

AddressAssumption ==
    Outside \subseteq Coords /\ MaxEdits \in Nat /\ MaxRuns \in Nat

VARIABLES
    exists, coord, address, geocoded,    \* the row of light_points
    audited,                             \* what the last audit event left
    edits,
    geo,                                 \* of each geocoder
    runsLeft,
    rep                                  \* of each reporter

row  == <<exists, coord, address, geocoded>>
vars == <<row, audited, edits, geo, runsLeft, rep>>

\* An address is what an administrator typed (the n-th edit), or what a
\* provider gave for coordinates.
Typed(n)      == [by |-> "admin", of |-> n]
Found(p, c)   == [by |-> p, of |-> c]
Addresses     == {Typed(n) : n \in 0..MaxEdits} \cup {Found(p, c) : p \in {"nominatim", "geoapify"}, c \in Coords}
Idle          == [pc |-> "idle", force |-> FALSE, coord |-> None, address |-> None]

Asked(c) == [pc |-> "find", coord |-> c, answer |-> None]

TypeOK ==
    /\ exists \in BOOLEAN /\ coord \in Coords /\ address \in Addresses \cup {None} /\ geocoded \in BOOLEAN
    /\ edits \in 0..MaxEdits /\ runsLeft \in 0..MaxRuns
    /\ \A g \in Geocoders : geo[g].pc \in {"idle", "network"} /\ (geo[g].pc = "network" => geo[g].coord \in Coords)
    /\ \A r \in Reporters : rep[r].pc \in {"new", "find", "suggest", "persist", "answered", "refused"}
                              /\ (rep[r].pc \in {"find", "suggest", "persist", "answered"} => rep[r].coord \in Coords)

\* createLightPoint: the point may come with an address.
Init ==
    /\ exists = TRUE /\ coord \in Coords /\ address \in {Typed(0), None} /\ geocoded = FALSE
    /\ audited = <<coord, address>> /\ edits = 0
    /\ geo = [g \in Geocoders |-> Idle] /\ runsLeft = MaxRuns
    /\ rep = [r \in Reporters |-> [pc |-> "new", coord |-> None, answer |-> None]]

-----------------------------------------------------------------------------
(* Administrators.                                                         *)

insertAudit(c, a) == audited' = <<c, a>>

StillGeocoded(moved) == geocoded /\ ~moved

\* Coordinates, address or both; an update that changes nothing writes nothing.
updateLightPoint ==
    /\ exists /\ edits < MaxEdits
    /\ \E c \in Coords, a \in {address, Typed(edits + 1), None} :
          /\ <<c, a>> # <<coord, address>>
          /\ coord' = c /\ address' = a /\ geocoded' = StillGeocoded(c # coord)
          /\ insertAudit(c, a)
    /\ edits' = edits + 1
    /\ UNCHANGED <<exists, geo, runsLeft, rep>>

deleteLightPoint ==
    /\ exists /\ edits < MaxEdits
    /\ exists' = FALSE /\ edits' = edits + 1
    /\ UNCHANGED <<coord, address, geocoded, audited, geo, runsLeft, rep>>

-----------------------------------------------------------------------------
(* ensureLightPointAddress: after an update, for pending points, or forced.*)

snapshot(g) ==
    /\ geo[g].pc = "idle" /\ runsLeft > 0 /\ exists
    /\ \E force \in BOOLEAN :
          /\ force \/ ~geocoded
          /\ geo' = [geo EXCEPT ![g] = [pc |-> "network", force |-> force, coord |-> coord, address |-> address]]
    /\ runsLeft' = runsLeft - 1
    /\ UNCHANGED <<row, audited, edits, rep>>

\* Mutant of Unchanged.
UnchangedAddress(g) == address = geo[g].address

Unchanged(g) == coord = geo[g].coord /\ address = geo[g].address

\* The point is as it was read, nobody geocoded it meanwhile, and there is
\* something to change.
Writes(g) ==
    /\ Unchanged(g) /\ (geo[g].force \/ ~geocoded)
    /\ address # Found("nominatim", geo[g].coord)

storeGeocoded(g) ==
    /\ geo[g].pc = "network"
    /\ geo' = [geo EXCEPT ![g] = Idle]
    /\ IF exists /\ Writes(g)
       THEN /\ address' = Found("nominatim", geo[g].coord) /\ geocoded' = TRUE
            /\ insertAudit(coord, address')
       ELSE UNCHANGED <<address, geocoded, audited>>
    /\ UNCHANGED <<exists, coord, edits, runsLeft, rep>>

geocoderFails(g) ==
    /\ geo[g].pc = "network" /\ geo' = [geo EXCEPT ![g] = Idle]
    /\ UNCHANGED <<row, audited, edits, runsLeft, rep>>

-----------------------------------------------------------------------------
(* POST /address-suggestion for a light point.                             *)

refused(r)   == rep' = [rep EXCEPT ![r].pc = "refused"]
answers(r, a) == rep' = [rep EXCEPT ![r] = [@ EXCEPT !.pc = "answered", !.answer = a]]

resolveAndValidateReportTarget(r) ==
    /\ rep[r].pc = "new"
    /\ IF exists /\ coord \notin Outside THEN rep' = [rep EXCEPT ![r] = Asked(coord)] ELSE refused(r)
    /\ UNCHANGED <<row, audited, edits, geo, runsLeft>>

\* A point that is gone, has moved, or has an address; or the limiter refuses.
findById(r) ==
    /\ rep[r].pc = "find"
    /\ IF ~exists \/ coord # rep[r].coord
       THEN refused(r)
       ELSE IF address # None
            THEN answers(r, address)
            ELSE refused(r) \/ rep' = [rep EXCEPT ![r].pc = "suggest"]
    /\ UNCHANGED <<row, audited, edits, geo, runsLeft>>

\* The provider fails, the client goes away, or there is no address (answered so).
suggest(r) ==
    /\ rep[r].pc = "suggest"
    /\ refused(r) \/ answers(r, None) \/ rep' = [rep EXCEPT ![r].pc = "persist"]
    /\ UNCHANGED <<row, audited, edits, geo, runsLeft>>

Missing == address = None

persistIfMissing(r) ==
    /\ rep[r].pc = "persist"
    /\ IF exists /\ coord = rep[r].coord /\ Missing
       THEN /\ address' = Found("geoapify", rep[r].coord) /\ geocoded' = TRUE
            /\ insertAudit(coord, address') /\ answers(r, address')
       ELSE /\ IF exists /\ address # None THEN answers(r, address) ELSE refused(r)
            /\ UNCHANGED <<address, geocoded, audited>>
    /\ UNCHANGED <<exists, coord, edits, geo, runsLeft>>

geocode(g) == snapshot(g) \/ storeGeocoded(g) \/ geocoderFails(g)
report(r)  == resolveAndValidateReportTarget(r) \/ findById(r) \/ suggest(r) \/ persistIfMissing(r)

Next ==
    \/ updateLightPoint \/ deleteLightPoint
    \/ \E g \in Geocoders : geocode(g)
    \/ \E r \in Reporters : report(r)

Spec == Init /\ [][Next]_vars

-----------------------------------------------------------------------------
(* Properties.                                                             *)

\* An address marked as geocoded and found by a provider is the address of
\* where the point is now, whatever moved while the provider was asked.
GeocodedIsHere ==
    exists /\ geocoded /\ address # None /\ address.by # "admin" => address.of = coord

\* A system write never destroys what an administrator typed, unless it is a
\* geocoder that had seen that very text where the point still is; a report
\* never does.
NoLostEdit ==
    [][ address # None /\ address.by = "admin" /\ address' # address /\ edits' = edits
          => \E g \in Geocoders : geo[g].pc = "network" /\ geo'[g].pc = "idle" /\ geo[g].address = address /\ geo[g].coord = coord ]_vars

\* "Existing inventory addresses are never overwritten" by reports, found by
\* whomever: a report that changes the address found none.
ReportsOnlyFill ==
    [][ address' # address /\ (\E r \in Reporters : rep'[r] # rep[r]) => address = None ]_vars

\* The audit trail's last values are the values of the row.
AuditReplays == exists => audited = <<coord, address>>

=============================================================================
