------------------------------- MODULE MapTarget -------------------------------
(***************************************************************************)
(* Choosing what to report on the map (components/LightPointsMap,          *)
(* components/TargetConfirmationDialog, hooks/useMapEntryGeolocation.ts,   *)
(* services/reportTargetValidationApi.ts).  A light point, a place on the  *)
(* map or the position of the device is checked by the server before the   *)
(* user may confirm it; answers arrive in any order while the user chooses *)
(* again, hides the question, goes on without the map, while tiles fail    *)
(* and the device is located.                                              *)
(***************************************************************************)
EXTENDS Integers, Sequences

CONSTANTS
    Points, Places, Positions,  \* light points, places on the map, device positions
    Manual, None,
    TilesEnabled, RecenterAllowed,
    MaxChoices, MaxRetries      \* bounds

Targets == Points \cup Places \cup Positions
Failed  == {"denied", "timeout", "unavailable", "unsupported"}

TargetsAssumption == Manual \notin Targets /\ None \notin Targets \cup {Manual, "valid", "outside", "failed"}

VARIABLES
    page,                       \* "map", or "report" once a target is confirmed
    candidate, hidden,          \* candidate, confirmationHidden
    selection,                  \* customSelection: the marker at a place
    validating, error,          \* validatingTarget, targetSelectionError
    requests, current,          \* validations; the one that still counts, or 0
    points, popup,              \* the light points; the one whose popup is open
    locale, mapReady, renderFailed,
    batchComplete, tileLoaded,  \* the latest batch of tiles
    geo,                        \* status and position of useMapEntryGeolocation
    wanted, view,               \* recenterAfterLocationRequest; the map's centre
    chosen, asked, retries      \* the last choice; a recentring asked for; a bound

target   == <<candidate, hidden, selection, validating, error>>
tiles    == <<batchComplete, tileLoaded>>
rendered == <<target, points, locale, mapReady, renderFailed, tiles, geo>>
centre   == <<wanted, view, asked>>
vars     == <<page, rendered, requests, current, popup, centre, chosen, retries>>

TypeOK ==
    /\ page \in {"map", "report"} /\ candidate \in Targets \cup {Manual, None}
    /\ selection \in Places \cup {None} /\ error \in {"outside", "unavailable", None}
    /\ current \in 0..Len(requests) /\ popup \in Points \cup {None} /\ view \in Positions \cup {"city", "panned"}
    /\ (geo.position # None) = (geo.status = "available")
    /\ validating /\ page = "map" => current # 0 /\ error = None /\ candidate = None

Init ==
    /\ page = "map" /\ candidate = None /\ hidden = FALSE /\ selection = None
    /\ validating = FALSE /\ error = None /\ requests = <<>> /\ current = 0
    /\ points = "loading" /\ popup = None /\ locale = "sk" /\ mapReady = FALSE /\ renderFailed = FALSE
    /\ batchComplete = FALSE /\ tileLoaded = FALSE
    /\ geo = [status |-> "requesting", position |-> None]
    /\ wanted = FALSE /\ view = "city" /\ asked = FALSE /\ chosen = None /\ retries = 0

\* Every rendering makes new labels, builds the markers anew and closes the popup;
\* moving to the device's position says so, which renders.
Rendering == popup' = IF rendered' = rendered /\ view' = view THEN popup ELSE None

-----------------------------------------------------------------------------
(* What is on the screen.                                                  *)

Dialog         == candidate # None /\ ~hidden
mapUnavailable == renderFailed \/ ~TilesEnabled \/ (batchComplete /\ ~tileLoaded)
bottomControls == ~hidden /\ ~mapUnavailable
resumeControls == candidate # None /\ hidden
Clickable      == page = "map" /\ mapReady /\ ~Dialog

-----------------------------------------------------------------------------
(* The map, its centre, its tiles and its light points.                    *)

\* Runs when the position, the map or the language changes.
RecenterEffect ==
    IF geo'.status \in Failed THEN wanted' = FALSE /\ asked' = FALSE /\ UNCHANGED view
    ELSE IF geo'.status = "available" /\ mapReady' /\ wanted
    THEN wanted' = FALSE /\ asked' = FALSE /\ view' = geo'.position
    ELSE UNCHANGED centre

\* The viewport controller hands the map over, or an error takes the map down.
setMapInstance == ~mapReady /\ ~renderFailed /\ mapReady' = TRUE /\ UNCHANGED renderFailed
mapFails       == ~renderFailed /\ renderFailed' = TRUE /\ mapReady' = FALSE

mapEvents ==
    /\ page = "map" /\ (setMapInstance \/ mapFails)
    /\ UNCHANGED <<target, points, locale, tiles, geo>>
    /\ RecenterEffect

getLightPoints ==
    /\ page = "map" /\ points = "loading" /\ points' \in {"loaded", "failed"}
    /\ UNCHANGED <<target, locale, mapReady, renderFailed, tiles, geo, centre>>

tileEvents ==
    /\ page = "map" /\ mapReady /\ TilesEnabled
    /\ \/ batchComplete' = FALSE /\ tileLoaded' = FALSE
       \/ ~batchComplete /\ tileLoaded' = TRUE /\ UNCHANGED batchComplete
       \/ batchComplete' = TRUE /\ UNCHANGED tileLoaded
    /\ UNCHANGED <<target, points, locale, mapReady, renderFailed, geo, centre>>

\* The popup of a light point, and panning, are Leaflet's and render nothing.
openPopup ==
    /\ Clickable /\ points = "loaded" /\ popup' \in Points
    /\ UNCHANGED <<page, rendered, requests, current, centre, chosen, retries>>

pan ==
    /\ Clickable /\ view' = "panned"
    /\ UNCHANGED <<page, rendered, requests, current, popup, wanted, asked, chosen, retries>>

-----------------------------------------------------------------------------
(* Choosing and checking a target.                                         *)

\* What was chosen before is aborted and no longer counts.
validateAndOpenCandidate(t) ==
    /\ Len(requests) < MaxChoices
    /\ requests' = Append(requests, [target |-> t, answer |-> None, heard |-> FALSE])
    /\ current' = Len(requests) + 1 /\ chosen' = t
    /\ validating' = TRUE /\ error' = None /\ candidate' = None /\ selection' = None /\ hidden' = FALSE

handleMapClick     == Clickable /\ \E t \in Places : validateAndOpenCandidate(t)
handleSelectPoint  == Clickable /\ popup # None /\ validateAndOpenCandidate(popup)
handleSelectDevice == Clickable /\ geo.position # None /\ validateAndOpenCandidate(geo.position)

choose ==
    /\ handleMapClick \/ handleSelectPoint \/ handleSelectDevice
    /\ UNCHANGED <<points, locale, mapReady, renderFailed, tiles, geo, centre>>

\* The server: inside, outside its area, or an answer that is no answer.
serve(i) ==
    /\ requests[i].answer = None
    /\ \E a \in {"valid", "outside", "failed"} : requests' = [requests EXCEPT ![i].answer = a]
    /\ UNCHANGED <<page, rendered, popup, current, centre, chosen, retries>>

openCandidate(t) ==
    /\ candidate' = t /\ hidden' = FALSE
    /\ selection' = (IF t \in Places THEN t ELSE None)

\* Mutant of Stale.
StaleNever(i) == FALSE

\* The user chose again, or left, after request i.
Stale(i) == i # current \/ page # "map"

Accepted(a) == a = "valid"

validationAnswer(i) ==
    /\ requests[i].answer # None /\ ~requests[i].heard
    /\ requests' = [requests EXCEPT ![i].heard = TRUE]
    /\ IF Stale(i) THEN UNCHANGED target
       ELSE IF Accepted(requests[i].answer)
       THEN openCandidate(requests[i].target) /\ validating' = FALSE /\ UNCHANGED error
       ELSE /\ validating' = FALSE /\ error' = (IF requests[i].answer = "outside" THEN "outside" ELSE "unavailable")
            /\ UNCHANGED <<candidate, hidden, selection>>
    /\ UNCHANGED <<page, current, points, locale, mapReady, renderFailed, tiles, geo, centre, chosen, retries>>

-----------------------------------------------------------------------------
(* The question, and the way without the map.                              *)

handleCancelCandidate ==
    /\ Dialog /\ candidate' = None /\ hidden' = FALSE
    /\ selection' = (IF candidate \in Places THEN None ELSE selection)

onHide == Dialog /\ hidden' = TRUE /\ UNCHANGED <<candidate, selection>>
resume == resumeControls /\ hidden' = FALSE /\ UNCHANGED <<candidate, selection>>

answerQuestion ==
    /\ page = "map" /\ (handleCancelCandidate \/ onHide \/ resume)
    /\ UNCHANGED <<validating, error, requests, current, points, locale, mapReady, renderFailed, tiles, geo, centre, page, chosen>>

handleConfirm ==
    /\ page = "map" /\ Dialog /\ page' = "report"
    /\ UNCHANGED <<rendered, requests, current, centre, chosen>>

continueToManualReport ==
    /\ page = "map" /\ mapUnavailable /\ candidate = None
    /\ page' = "report" /\ current' = 0 /\ chosen' = Manual
    /\ UNCHANGED <<rendered, requests, centre>>

continueWithoutMap ==
    /\ page = "map" /\ bottomControls /\ ~Dialog
    /\ current' = 0 /\ validating' = FALSE /\ error' = None /\ chosen' = Manual /\ openCandidate(Manual)
    /\ UNCHANGED <<page, requests, points, locale, mapReady, renderFailed, tiles, geo, centre>>

-----------------------------------------------------------------------------
(* The device's position.                                                  *)

\* A position, or the reason why there is none.
getCurrentPosition ==
    /\ page = "map" /\ geo.status = "requesting"
    /\ \/ \E p \in Positions : geo' = [status |-> "available", position |-> p]
       \/ \E s \in Failed : (s = "unsupported" => retries = 0) /\ geo' = [status |-> s, position |-> None]
    /\ UNCHANGED <<target, points, locale, mapReady, renderFailed, tiles>>
    /\ RecenterEffect

\* Asked again; a request that throws at once leaves the status where it was, and
\* the effect does not run.
requestPosition ==
    /\ geo.position = None /\ geo.status \in Failed \ {"unsupported"} /\ retries < MaxRetries /\ retries' = retries + 1
    /\ \/ geo' = [status |-> "requesting", position |-> None] /\ wanted' = TRUE /\ asked' = TRUE
       \/ /\ geo' = [status |-> "unavailable", position |-> None]
          /\ wanted' = (geo.status = "unavailable") /\ asked' = FALSE
    /\ UNCHANGED view

handleRecenter ==
    /\ page = "map" /\ TilesEnabled /\ RecenterAllowed /\ ~Dialog
    /\ \/ requestPosition
       \/ /\ geo.position # None /\ mapReady /\ view' = geo.position
          /\ UNCHANGED <<geo, wanted, asked, retries>>
    /\ UNCHANGED <<target, points, locale, mapReady, renderFailed, tiles>>

\* Another language is another rendering of everything.
switchLocale ==
    /\ page = "map" /\ ~Dialog /\ locale' = (IF locale = "sk" THEN "en" ELSE "sk")
    /\ UNCHANGED <<target, points, mapReady, renderFailed, tiles, geo>>
    /\ RecenterEffect

-----------------------------------------------------------------------------
environment ==
    /\ getLightPoints \/ tileEvents \/ getCurrentPosition \/ mapEvents \/ switchLocale
    /\ UNCHANGED <<page, requests, current, chosen, retries>>

user ==
    \/ (choose /\ UNCHANGED <<page, retries>>)
    \/ ((answerQuestion \/ handleConfirm \/ continueToManualReport \/ continueWithoutMap) /\ UNCHANGED retries)
    \/ (handleRecenter /\ UNCHANGED <<page, requests, current, chosen>>)

Next ==
    \/ (environment \/ user \/ \E i \in DOMAIN requests : validationAnswer(i)) /\ Rendering
    \/ openPopup \/ pan \/ \E i \in DOMAIN requests : serve(i)

Spec == Init /\ [][Next]_vars

\* A request is answered and the answer is heard.
FairSpec ==
    Spec /\ \A i \in 1..MaxChoices :
        WF_vars(i \in DOMAIN requests /\ (serve(i) \/ (validationAnswer(i) /\ Rendering)))

-----------------------------------------------------------------------------
(* Properties.                                                             *)

\* In whatever order validations are answered, the user is asked about, and
\* reports, the last thing chosen.
LastChoice ==
    /\ candidate # None => candidate = chosen
    /\ page = "report" => chosen = Manual \/ candidate = chosen

\* Only a target that the server found valid can be reported.
Checked ==
    candidate \in Targets =>
        \E i \in DOMAIN requests : requests[i].target = candidate /\ requests[i].answer = "valid"

\* The marker on the map is the place the user is asked about.
MarkerMatches == selection # None => candidate = selection

\* Whatever fails, there is a way on: the question, its resumption, the way
\* without the map or the notice that leads to a manual report.
WayOn == page = "map" => Dialog \/ resumeControls \/ bottomControls \/ (mapUnavailable /\ candidate = None)

\* The map moves to the device only when the user asked for it: a position that
\* comes in by itself, or a change of language, leaves the view alone.
RecenterAsked ==
    [][ view' # view /\ view' \in Positions /\ <<geo, locale, mapReady>>' # <<geo, locale, mapReady>> => asked ]_vars

\* The map does not say for ever that it is checking.
ValidationEnds == (validating /\ page = "map") ~> (~validating \/ page = "report")

=============================================================================
