------------------------------ MODULE AdminImport ------------------------------
(***************************************************************************)
(* The admin's import page (apps/admin/src/pages/AdminImportPage,          *)
(* services/adminApi.ts) and the handlers it calls.  A file is uploaded    *)
(* and previewed page by page, confirmed with or without the update of     *)
(* existing light points, and the batch is followed until it is done.      *)
(* Which preview, page and batch are shown is kept in the address of the   *)
(* page, so the admin may step back while requests are under way; a        *)
(* preview may expire and answers may be lost.                             *)
(*                                                                         *)
(* A page stands for a page with its order.  The batch of a preview has    *)
(* its number (ImportQueue models what becomes of it).                     *)
(***************************************************************************)
EXTENDS Integers, Sequences, SequencesExt

CONSTANTS
    None,
    MaxUploads, MaxTurns, MaxConfirms, MaxBack, MaxLost, MaxTicks  \* bounds

VARIABLES
    stack,          \* the addresses of the page, the current one last
    form,           \* the state of the page
    previews,       \* of each preview: its state, and whether it updates
    ticked,         \* the previews for which the admin ticked the box
    bounds

vars == <<stack, form, previews, ticked, bounds>>

\* None is neither a number nor what names a page of a preview.
ImportAssumption ==
    /\ MaxUploads \in Nat /\ MaxConfirms \in Nat /\ None \notin Nat
    /\ \A n \in 1..(MaxUploads + 1), page \in {1, 2} : None # [id |-> n, page |-> page]

Pages   == {1, 2}
Address == [preview : Nat \cup {None}, page : Pages, batch : Nat \cup {None}]
url     == Last(stack)

\* A request: its argument, its place in previewRequestSequence, whether its
\* effect is still there, and its answer.
Call(kind, id, page, seq) ==
    [kind |-> kind, id |-> id, page |-> page, allow |-> FALSE, seq |-> seq, live |-> TRUE, answer |-> None]

TypeOK ==
    /\ \A i \in DOMAIN stack : stack[i] \in Address
    /\ form.preview = None \/ form.preview.id \in DOMAIN previews
    /\ \A c, d \in form.calls : c.kind = d.kind /\ c.live /\ d.live /\ c.kind \in {"rows", "status"} => c = d
    /\ form.timer => url.batch # None

-----------------------------------------------------------------------------
(* The effects of an address.                                              *)

Drop(f, kinds) == [f EXCEPT !.calls = {IF c.kind \in kinds THEN [c EXCEPT !.live = FALSE] ELSE c : c \in @}]

Key(u) == [id |-> u.preview, page |-> u.page]

PreviewEffect(f, u) ==
    LET g == Drop(f, {"rows"}) IN
    IF u.preview = None THEN [g EXCEPT !.loadedKey = None, !.preview = None]
    ELSE IF f.loadedKey = Key(u) THEN g
    ELSE [g EXCEPT !.seq = @ + 1, !.loading = TRUE,
                   !.calls = @ \cup {Call("rows", u.preview, u.page, f.seq + 1)}]

BatchEffect(f, u) ==
    LET g == [Drop(f, {"status", "failures"}) EXCEPT !.timer = FALSE] IN
    IF u.batch = None THEN [g EXCEPT !.batch = None, !.failures = None]
    ELSE [g EXCEPT !.calls = @ \cup {Call("status", u.batch, 1, 0)}]

\* An effect runs when what it depends on changes.
Navigated(f, from, u) ==
    LET g == IF Key(from) = Key(u) THEN f ELSE PreviewEffect(f, u)
    IN  IF from.batch = u.batch THEN g ELSE BatchEffect(g, u)

Replace(f, u) == stack' = Append(Front(stack), u) /\ form' = Navigated(f, url, u)
Push(f, u)    == stack' = Append(stack, u) /\ form' = Navigated(f, url, u)

blank == [preview |-> None, page |-> 1, batch |-> None]

\* The page is opened by itself or by the address of a preview.
Init ==
    LET f == [file |-> FALSE, preview |-> None, loadedKey |-> None, allow |-> FALSE, loading |-> FALSE,
              seq |-> 0, batch |-> None, failures |-> None, timer |-> FALSE, calls |-> {}]
    IN
    /\ \/ previews = <<>> /\ stack = <<blank>> /\ form = f
       \/ /\ previews = <<[state |-> "preview", update |-> FALSE]>>
          /\ stack = <<[blank EXCEPT !.preview = 1]>> /\ form = PreviewEffect(f, [blank EXCEPT !.preview = 1])
    /\ ticked = {} /\ bounds = [uploads |-> 0, turns |-> 0, confirms |-> 0, back |-> 0, lost |-> 0, ticks |-> 0]

Spend(what, max) == bounds[what] < max /\ bounds' = [bounds EXCEPT ![what] = @ + 1]

-----------------------------------------------------------------------------
(* The admin.                                                              *)

chooseFile ==
    /\ ~form.loading /\ ~form.file
    /\ Replace([form EXCEPT !.file = TRUE, !.preview = None, !.loadedKey = None], [url EXCEPT !.preview = None, !.page = 1])
    /\ UNCHANGED <<previews, ticked, bounds>>

handlePreview ==
    /\ form.file /\ ~form.loading /\ Spend("uploads", MaxUploads)
    /\ Replace([form EXCEPT !.seq = @ + 1, !.loading = TRUE, !.calls = @ \cup {Call("upload", None, 1, form.seq + 1)}], blank)
    /\ UNCHANGED <<previews, ticked>>

handleConfirm ==
    /\ form.preview # None /\ ~form.loading /\ Spend("confirms", MaxConfirms)
    /\ form' = [form EXCEPT !.seq = @ + 1, !.loading = TRUE,
                            !.calls = @ \cup {[Call("confirm", form.preview.id, 1, form.seq + 1) EXCEPT !.allow = form.allow]}]
    /\ UNCHANGED <<stack, previews, ticked>>

\* Another page or order.
handleSort ==
    /\ form.preview # None /\ ~form.loading /\ Spend("turns", MaxTurns)
    /\ Push(form, [url EXCEPT !.page = 3 - @]) /\ UNCHANGED <<previews, ticked>>

tick ==
    /\ form.preview # None /\ Spend("ticks", MaxTicks) /\ form' = [form EXCEPT !.allow = ~@]
    /\ ticked' = ticked \cup {form.preview.id} /\ UNCHANGED <<stack, previews>>

back ==
    /\ Len(stack) > 1 /\ Spend("back", MaxBack)
    /\ stack' = Front(stack) /\ form' = Navigated(form, url, Last(Front(stack))) /\ UNCHANGED <<previews, ticked>>

-----------------------------------------------------------------------------
(* The handlers.  An answer may be lost after its work was done.           *)

Answers(c, a) == form' = [form EXCEPT !.calls = (@ \ {c}) \cup {[c EXCEPT !.answer = a]}]

importPreview(c) ==
    /\ c.kind = "upload" /\ Len(previews) < MaxUploads + 1
    /\ previews' = Append(previews, [state |-> "preview", update |-> FALSE])
    /\ form' = [form EXCEPT !.calls = (@ \ {c}) \cup {[c EXCEPT !.id = Len(previews) + 1, !.answer = "ok"]}]

getImportPreviewPage(c) ==
    /\ c.kind = "rows" /\ UNCHANGED previews
    /\ Answers(c, IF previews[c.id].state = "preview" THEN "ok" ELSE "error")

\* A second confirmation finds the batch of the first.
importConfirm(c) ==
    /\ c.kind = "confirm"
    /\ IF previews[c.id].state = "expired" THEN UNCHANGED previews /\ Answers(c, "error")
       ELSE /\ Answers(c, "ok")
            /\ previews' = (IF previews[c.id].state # "preview" THEN previews
                            ELSE [previews EXCEPT ![c.id] = [state |-> "queued", update |-> c.allow]])

getImportStatus(c) ==
    /\ c.kind = "status" /\ UNCHANGED previews /\ Answers(c, previews[c.id].state)

getImportRows(c) ==
    /\ c.kind = "failures" /\ UNCHANGED previews /\ Answers(c, "ok")

served(c) ==
    /\ c.answer = None
    /\ importPreview(c) \/ getImportPreviewPage(c) \/ importConfirm(c) \/ getImportStatus(c) \/ getImportRows(c)
    /\ UNCHANGED <<stack, ticked, bounds>>

lost(c) ==
    /\ c.answer # "error" /\ Spend("lost", MaxLost) /\ Answers(c, "error") /\ UNCHANGED <<stack, previews, ticked>>

expire ==
    /\ \E i \in DOMAIN previews : previews[i].state = "preview" /\ previews' = [previews EXCEPT ![i].state = "expired"]
    /\ UNCHANGED <<stack, form, ticked, bounds>>

finish ==
    /\ \E i \in DOMAIN previews, s \in {"completed", "completed_with_errors"} :
          previews[i].state = "queued" /\ previews' = [previews EXCEPT ![i].state = s]
    /\ UNCHANGED <<stack, form, ticked, bounds>>

-----------------------------------------------------------------------------
(* The answers.                                                            *)

\* Every preview starts with the box unticked.
Reset(f) == [f EXCEPT !.allow = FALSE]

uploadAnswered(f, c) ==
    /\ c.kind = "upload"
    /\ IF c.seq # f.seq THEN form' = f /\ UNCHANGED stack
       ELSE IF c.answer = "error" THEN form' = [f EXCEPT !.loading = FALSE] /\ UNCHANGED stack
       ELSE Push(Reset([f EXCEPT !.preview = [id |-> c.id, page |-> 1], !.loading = FALSE,
                                 !.loadedKey = [id |-> c.id, page |-> 1]]),
                 [blank EXCEPT !.preview = c.id])

\* Mutant of Current.
CurrentAlways(f, c) == TRUE

Current(f, c) == c.live /\ c.seq = f.seq

\* If a page cannot be had, the one before it stays, with its address.
rowsAnswered(f, c) ==
    /\ c.kind = "rows"
    /\ IF ~Current(f, c) THEN form' = f /\ UNCHANGED stack
       ELSE IF c.answer = "ok"
       THEN /\ form' = Reset([f EXCEPT !.preview = [id |-> c.id, page |-> c.page], !.loading = FALSE,
                                       !.loadedKey = [id |-> c.id, page |-> c.page]])
            /\ UNCHANGED stack
       ELSE IF f.loadedKey # None
       THEN Replace([f EXCEPT !.loading = FALSE], [url EXCEPT !.preview = f.loadedKey.id, !.page = f.loadedKey.page])
       ELSE Replace([f EXCEPT !.loading = FALSE, !.preview = None], [url EXCEPT !.preview = None, !.page = 1])

confirmAnswered(f, c) ==
    /\ c.kind = "confirm"
    /\ IF c.answer = "error" THEN form' = [f EXCEPT !.loading = FALSE] /\ UNCHANGED stack
       ELSE Push(Reset([f EXCEPT !.batch = None, !.failures = None, !.preview = None, !.file = FALSE, !.loading = FALSE]),
                 [blank EXCEPT !.batch = c.id])

Again(state) == state = "queued"

Listens(c) == c.live /\ c.answer # "error"

\* After an error nobody asks again.
statusAnswered(f, c) ==
    /\ c.kind = "status" /\ UNCHANGED stack
    /\ form' = IF ~Listens(c) THEN f
               ELSE [f EXCEPT !.batch = [id |-> c.id, state |-> c.answer], !.timer = Again(c.answer),
                              !.calls = IF c.answer = "completed_with_errors" THEN @ \cup {Call("failures", c.id, 1, 0)} ELSE @]

failuresAnswered(f, c) ==
    /\ c.kind = "failures" /\ UNCHANGED stack
    /\ form' = IF ~Listens(c) THEN f ELSE [f EXCEPT !.failures = c.id]

answered(c) ==
    LET f == [form EXCEPT !.calls = @ \ {c}] IN
    /\ c.answer # None
    /\ \/ uploadAnswered(f, c) \/ rowsAnswered(f, c) \/ confirmAnswered(f, c)
       \/ statusAnswered(f, c) \/ failuresAnswered(f, c)
    /\ UNCHANGED <<previews, ticked, bounds>>

poll ==
    /\ form.timer /\ form' = [form EXCEPT !.timer = FALSE, !.calls = @ \cup {Call("status", url.batch, 1, 0)}]
    /\ UNCHANGED <<stack, previews, ticked, bounds>>

-----------------------------------------------------------------------------
user == chooseFile \/ handlePreview \/ handleConfirm \/ handleSort \/ tick \/ back

Next ==
    \/ user \/ expire \/ finish \/ poll
    \/ \E c \in form.calls : served(c) \/ lost(c) \/ answered(c)

Spec == Init /\ [][Next]_vars

\* Handlers answer, answers arrive, the timer fires and the queue finishes a batch.
FairSpec ==
    /\ Spec /\ WF_vars(poll) /\ WF_vars(finish)
    /\ \A k \in {"upload", "rows", "confirm", "status", "failures"} :
          WF_vars(\E c \in form.calls : c.kind = k /\ (served(c) \/ answered(c)))

-----------------------------------------------------------------------------
(* Properties.                                                             *)

\* Existing light points are updated only by a batch for whose own preview the
\* admin ticked the box, whatever was ticked and shown before.
UpdateTicked == \A i \in DOMAIN previews : previews[i].update => i \in ticked

\* However requests and steps back overlap, the preview the admin may confirm is
\* the one the address of the page names.
ConfirmsNamed == (form.preview # None /\ ~form.loading) => form.preview.id = url.preview

\* A batch and the failed rows shown with it are those of the address.
BatchMatchesUrl ==
    /\ form.batch # None => form.batch.id = url.batch
    /\ form.failures # None => form.failures = url.batch

\* The controls do not stay disabled for ever.
LoadingEnds == form.loading ~> ~form.loading

\* The page of a batch comes to show that it is done.
OutcomeShown ==
    (url.batch # None) ~> (url.batch = None \/ (form.batch # None /\ form.batch.state # "queued"))

=============================================================================
