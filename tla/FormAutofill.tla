----------------------------- MODULE FormAutofill ------------------------------
(***************************************************************************)
(* What the report form fills in by itself (pages/ReportFormPage,          *)
(* utils/autofillPrecedence.ts, utils/reportTargetSession.ts,              *)
(* services/geocodingApi.ts).  For a light point it fetches the inventory  *)
(* entry and, if that has no address, asks once for a suggestion; the      *)
(* locality and the inventory number are filled in unless the user wrote   *)
(* something, while the user edits, turns to another target, switches the  *)
(* language or reloads.                                                    *)
(*                                                                         *)
(* A value is what it came from: the light point whose street or number it *)
(* is, "typed" or Blank.                                                   *)
(***************************************************************************)
EXTENDS Integers, Sequences, FiniteSets

CONSTANTS
    Points,                         \* light points; another target is Elsewhere
    Elsewhere, Blank,
    MaxTargets, MaxEdits, MaxOther  \* bounds

PointsAssumption == Elsewhere \notin Points /\ Blank \notin Points /\ "typed" \notin Points

VARIABLES
    target,
    locality, detail,       \* field values
    source,                 \* of each field: AutofillPrecedenceTracker
    loading, number,        \* locationLoading; inventoryPointData: the point whose number is known, or Blank
    cache, attempted,       \* inventoryAddressCache, inventoryAddressLookupAttempted
    fetches,                \* effects under way
    answered,               \* answers to requests for a suggestion, per point
    targets, edits, others

fields == <<locality, detail, source>>
bounds == <<targets, edits, others>>
vars   == <<target, fields, loading, number, cache, attempted, fetches, answered, bounds>>

Field   == {"locality", "detailDescription"}
Sources == Points \cup {"typed", Blank}

TypeOK ==
    /\ target \in Points \cup {Elsewhere} /\ locality \in Sources /\ detail \in Sources
    /\ source \in [Field -> {"untouched", "auto", "user"}] /\ number \in Points \cup {Blank}
    /\ attempted \subseteq Points /\ DOMAIN cache \subseteq Points
    /\ Cardinality({i \in DOMAIN fetches : fetches[i].live /\ fetches[i].phase # "done"}) <= 1

-----------------------------------------------------------------------------
(* AutofillPrecedenceTracker.                                              *)

canAutofill(f) == source[f] # "user"
markUser(f)    == source' = [source EXCEPT ![f] = "user"]

\* findUniqueLocalityInAddress: the street of the address, if exactly one is.
Localities(p) == {p, Blank}

-----------------------------------------------------------------------------
(* The effect for a target.                                                *)

\* Turning away cancels it; unless it got an address it may be answered again.
Cancelled ==
    [i \in DOMAIN fetches |-> [fetches[i] EXCEPT !.live = FALSE]]

Begun(t) == IF t \in Points THEN <<[point |-> t, phase |-> "point", live |-> TRUE]>> ELSE <<>>

Init ==
    /\ target \in Points \cup {Elsewhere} /\ locality = Blank /\ detail = Blank
    /\ source = [f \in Field |-> "untouched"] /\ loading = (target \in Points) /\ number = Blank
    /\ cache = <<>> /\ attempted = {} /\ fetches = Begun(target) /\ answered = [p \in Points |-> 0]
    /\ targets = 0 /\ edits = 0 /\ others = 0

\* transitionReportTarget: the form and the tracker start anew; the number of a
\* point left before another was fetched is still there.
changeTarget ==
    /\ targets < MaxTargets /\ targets' = targets + 1
    /\ target' \in (Points \cup {Elsewhere}) \ {target}
    /\ locality' = Blank /\ detail' = (IF number = target' THEN number ELSE Blank)
    /\ source' = [f \in Field |-> IF f = "detailDescription" /\ number = target' THEN "auto" ELSE "untouched"]
    /\ loading' = (target' \in Points) /\ number' = (IF target' \in Points THEN number ELSE Blank)
    /\ attempted' = (IF target \in DOMAIN cache THEN attempted ELSE attempted \ {target})
    /\ fetches' = Cancelled \o Begun(target')
    /\ UNCHANGED <<cache, answered, edits, others>>

\* The same draft in a new page: what the user wrote is known to be the user's.
reload ==
    /\ others < MaxOther /\ others' = others + 1
    /\ source' = [f \in Field |-> IF source[f] = "user" THEN "user" ELSE "untouched"]
    /\ loading' = (target \in Points) /\ number' = Blank /\ cache' = <<>> /\ attempted' = {}
    /\ fetches' = Begun(target) /\ answered' = [p \in Points |-> 0]
    /\ UNCHANGED <<target, locality, detail, targets, edits>>

\* Mutant of Live.
LiveAlways(i) == TRUE

Live(i) == fetches[i].live

Finish(i) == fetches' = [fetches EXCEPT ![i].phase = "done"]

\* The second effect: the inventory number in the language of the page.
Detail(p, has) ==
    IF has THEN IF canAutofill("detailDescription") THEN p ELSE detail
    ELSE IF source["detailDescription"] = "auto" THEN Blank ELSE detail

\* That no street was found is remembered too.
Cached(p, street) == [q \in DOMAIN cache \cup {p} |-> IF q = p THEN street ELSE cache[q]]

\* An address, perhaps with its street, or none.
resolve(i, street) ==
    LET p    == fetches[i].point
        fill == canAutofill("locality") /\ (street # Blank \/ source["locality"] = "auto")
    IN
    \E has \in BOOLEAN :
       /\ cache' = Cached(p, street)
       /\ number' = (IF has THEN p ELSE Blank) /\ locality' = (IF fill THEN street ELSE locality) /\ detail' = Detail(p, has)
       /\ source' = [source EXCEPT !["locality"] = IF fill /\ canAutofill("locality") THEN "auto" ELSE @,
                                   !["detailDescription"] = IF has /\ canAutofill("detailDescription") THEN "auto" ELSE @]
       /\ loading' = FALSE /\ Finish(i)

AskAgain(p) == p \notin attempted

getLightPoint(i) ==
    /\ fetches[i].phase = "point" /\ Live(i)
    /\ \/ (\E street \in Localities(fetches[i].point) : resolve(i, street)) /\ UNCHANGED <<attempted, answered>>
       \/ /\ fetches[i].point \in DOMAIN cache
          /\ resolve(i, cache[fetches[i].point]) /\ UNCHANGED <<attempted, answered>>
       \/ /\ fetches[i].point \notin DOMAIN cache
          /\ IF AskAgain(fetches[i].point)
             THEN /\ attempted' = attempted \cup {fetches[i].point}
                  /\ fetches' = [fetches EXCEPT ![i].phase = "suggest"] /\ UNCHANGED <<fields, loading, number, cache>>
             ELSE resolve(i, Blank) /\ UNCHANGED attempted
          /\ UNCHANGED answered
    /\ UNCHANGED <<target, bounds>>

\* An address, none or an error: without one the user writes the locality.
suggestReportAddress(i) ==
    /\ fetches[i].phase = "suggest" /\ Live(i)
    /\ \E street \in Localities(fetches[i].point) : resolve(i, street)
    /\ answered' = [answered EXCEPT ![fetches[i].point] = @ + 1]
    /\ UNCHANGED <<target, attempted, bounds>>

fetchFails(i) ==
    /\ fetches[i].phase = "point" /\ Live(i) /\ Finish(i) /\ loading' = FALSE
    /\ locality' = (IF source["locality"] = "auto" THEN Blank ELSE locality)
    /\ UNCHANGED <<target, detail, source, number, cache, attempted, answered, bounds>>

\* What comes after the target was left.
late(i) ==
    /\ fetches[i].phase # "done" /\ ~Live(i) /\ Finish(i)
    /\ \/ fetches[i].phase = "suggest" /\ attempted' = attempted \ {fetches[i].point}
       \/ UNCHANGED attempted
    /\ UNCHANGED <<target, fields, loading, number, cache, answered, bounds>>

-----------------------------------------------------------------------------
(* The user.                                                               *)

Edit == edits < MaxEdits /\ edits' = edits + 1

\* The combobox empties the field as soon as it is edited.
editLocality ==
    /\ Edit /\ (target \in Points => ~loading) /\ markUser("locality") /\ locality' \in {"typed", Blank}
    /\ UNCHANGED <<target, detail, loading, number, cache, attempted, fetches, answered, targets, others>>

editDetail ==
    /\ Edit /\ markUser("detailDescription") /\ detail' \in {"typed", Blank}
    /\ UNCHANGED <<target, locality, loading, number, cache, attempted, fetches, answered, targets, others>>

\* The line with the inventory number is written again in the other language.
switchLocale ==
    /\ others < MaxOther /\ others' = others + 1
    /\ IF target \notin Points
       THEN detail' = (IF source["detailDescription"] = "auto" THEN Blank ELSE detail) /\ UNCHANGED source
       ELSE IF number # target THEN UNCHANGED <<detail, source>>
       ELSE /\ detail' = Detail(target, TRUE)
            /\ source' = [source EXCEPT !["detailDescription"] = IF canAutofill("detailDescription") THEN "auto" ELSE @]
    /\ UNCHANGED <<target, locality, loading, number, cache, attempted, fetches, answered, targets, edits>>

-----------------------------------------------------------------------------
answers(i) == getLightPoint(i) \/ suggestReportAddress(i) \/ fetchFails(i) \/ late(i)

Next ==
    \/ changeTarget \/ reload \/ editLocality \/ editDetail \/ switchLocale
    \/ \E i \in DOMAIN fetches : answers(i)

Spec == Init /\ [][Next]_vars

\* A fetch settles.
FairSpec == Spec /\ \A i \in 1..(MaxTargets + 1) : WF_vars(i \in DOMAIN fetches /\ answers(i))

-----------------------------------------------------------------------------
(* Properties.                                                             *)

\* However late an answer is, the form never shows the street or the number of
\* a light point that is not its target.
RightTarget ==
    /\ locality \in Points => locality = target
    /\ detail \in Points => detail = target

\* What the user wrote, an emptied field included, stays until the user or a new
\* target changes it.
UserKept ==
    [][ edits' = edits /\ targets' = targets =>
          /\ source["locality"] = "user" => locality' = locality /\ source'["locality"] = "user"
          /\ source["detailDescription"] = "user" => detail' = detail /\ source'["detailDescription"] = "user" ]_vars

\* In the life of a page the suggestion service answers once per light point,
\* however often the user comes back to it.
AskedOnce == \A p \in Points : answered[p] <= 1

\* The form does not wait for a location for ever.
LoadingEnds == loading ~> ~loading

=============================================================================
