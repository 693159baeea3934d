-------------------------------- MODULE MCWeb --------------------------------
(* The two web applications for TLC: the parts of the public report form (the *)
(* map, the automatic address, the verification of the email, the stored      *)
(* draft and its files) and the import page of the administration. A          *)
(* behaviour follows one part, chosen at its start.                           *)
EXTENDS Integers, Sequences, FiniteSets

CONSTANTS Parts, MapPoints, Places, Positions, Manual, None, TilesEnabled, RecenterAllowed,
          MaxChoices, MaxRetries, AutofillPoints, Elsewhere, Blank, MaxTargets, MaxEdits,
          MaxOther, Emails, VerificationMaxCalls, MaxReloads, Values, Invalid, Addresses,
          TTL, MaxTime, DraftMaxCalls, MaxTokens, DraftMaxFaults, PlainMaxTime,
          PlainMaxCalls, PlainMaxFaults, Files, MaxDrafts, MaxSelects, FilesMaxFaults,
          MaxSwitches, MaxUploads, MaxTurns, MaxConfirms, MaxBack, MaxLost, MaxTicks

VARIABLES part, page, candidate, hidden, selection, validating, error, requests, current,
          points, popup, locale, mapReady, renderFailed, batchComplete, tileLoaded, geo,
          wanted, view, chosen, asked, retries, target, locality, detail, source, loading,
          number, cache, attempted, fetches, answered, targets, edits, others, email, step,
          enabled, intent, verified, verificationToken, expired, cooling, busy, rendered,
          verificationSequence, verificationCalls, owner, reloads, now, draftFaults, mount,
          mounts, draftForm, draftPending, since, prepared, blocked, started, draftToken,
          draft, draftCalls, tokens, spent, recorded, receiptAt, shown, cur, selected, sent,
          saving, failed, restore, queue, filesSequence, count, filesPending, store, marked,
          cleaning, sweep, may, selects, filesFaults, switches, stack, importForm, previews,
          ticked, bounds

mapVars == <<page, candidate, hidden, selection, validating, error, requests, current,
             points, popup, locale, mapReady, renderFailed, batchComplete, tileLoaded, geo,
             wanted, view, chosen, asked, retries>>
autofillVars == <<target, locality, detail, source, loading, number, cache, attempted,
                  fetches, answered, targets, edits, others>>
verificationVars == <<email, step, enabled, intent, verified, verificationToken, expired,
                      cooling, busy, rendered, verificationSequence, verificationCalls,
                      owner, reloads>>
draftVars == <<now, draftFaults, mount, mounts, draftForm, draftPending, since, prepared,
               blocked, started, draftToken, draft, draftCalls, tokens, spent, recorded,
               receiptAt, shown>>
filesVars == <<cur, selected, sent, saving, failed, restore, queue, filesSequence, count,
               filesPending, store, marked, cleaning, sweep, may, selects, filesFaults,
               switches>>
importVars == <<stack, importForm, previews, ticked, bounds>>

Map == INSTANCE MapTarget WITH
    Points <- MapPoints
Autofill == INSTANCE FormAutofill WITH
    Points <- AutofillPoints
Verify == INSTANCE FormVerification WITH
    MaxCalls <- VerificationMaxCalls, token <- verificationToken,
    sequence <- verificationSequence, calls <- verificationCalls
\* The draft is taken with its proofs, so that its invariants are facts about the
\* parts here.  With verification on and a target that asks for an address.
Stored == INSTANCE ReportDraftProofs WITH
    AsksAddress <- TRUE, Verification <- TRUE, MaxCalls <- DraftMaxCalls,
    MaxFaults <- DraftMaxFaults, faults <- draftFaults, form <- draftForm,
    pending <- draftPending, token <- draftToken, calls <- draftCalls
\* With verification off and nothing awaited before the report is sent.
Plain == INSTANCE ReportDraftProofs WITH
    AsksAddress <- FALSE, Verification <- FALSE, MaxTime <- PlainMaxTime,
    MaxCalls <- PlainMaxCalls, MaxTokens <- 0, MaxFaults <- PlainMaxFaults,
    faults <- draftFaults, form <- draftForm, pending <- draftPending, token <- draftToken,
    calls <- draftCalls
Attach == INSTANCE DraftAttachments WITH
    MaxFaults <- FilesMaxFaults, sequence <- filesSequence, pending <- filesPending,
    faults <- filesFaults
Import == INSTANCE AdminImport WITH
    form <- importForm

ASSUME PartsAssumption ==
    /\ Map!TargetsAssumption
    /\ Autofill!PointsAssumption
    /\ Verify!EmailsAssumption
    /\ Stored!DraftAssumption
    /\ Plain!DraftAssumption
    /\ Attach!DraftsAssumption
    /\ Import!ImportAssumption

-----------------------------------------------------------------------------
(* One of the parts runs, the others stay as they are at their start.       *)

PartsInit ==
    /\ part \in Parts
    /\ Map!Init
    /\ Autofill!Init
    /\ Verify!Init
    /\ IF part = "plain" THEN Plain!Init ELSE Stored!Init
    /\ Attach!Init
    /\ Import!Init
    /\ part \notin {"autofill"} => target = Elsewhere
    /\ part \notin {"verification"} => email = CHOOSE e \in Emails : TRUE
    /\ part \notin {"draft", "plain"} => draftForm = CHOOSE v \in Values : TRUE
    /\ part \notin {"import"} => previews = <<>>

PartsNext ==
    \/ part = "map" /\ Map!Next
       /\ UNCHANGED <<part, autofillVars, verificationVars, draftVars, filesVars, importVars>>
    \/ part = "autofill" /\ Autofill!Next
       /\ UNCHANGED <<part, mapVars, verificationVars, draftVars, filesVars, importVars>>
    \/ part = "verification" /\ Verify!Next
       /\ UNCHANGED <<part, mapVars, autofillVars, draftVars, filesVars, importVars>>
    \/ part = "draft" /\ Stored!Next
       /\ UNCHANGED <<part, mapVars, autofillVars, verificationVars, filesVars, importVars>>
    \/ part = "plain" /\ Plain!Next
       /\ UNCHANGED <<part, mapVars, autofillVars, verificationVars, filesVars, importVars>>
    \/ part = "files" /\ Attach!Next
       /\ UNCHANGED <<part, mapVars, autofillVars, verificationVars, draftVars, importVars>>
    \/ part = "import" /\ Import!Next
       /\ UNCHANGED <<part, mapVars, autofillVars, verificationVars, draftVars, filesVars>>

partsVars == <<part, mapVars, autofillVars, verificationVars, draftVars, filesVars,
               importVars>>

PartsSpec == PartsInit /\ [][PartsNext]_partsVars

\* The fairness of each part's FairSpec, for the part that runs.
PartsFairSpec ==
    /\ PartsSpec
    /\ \A i \in 1..MaxChoices :
           WF_mapVars(part = "map" /\ i \in DOMAIN requests /\ (Map!serve(i) \/ (Map!validationAnswer(i) /\ Map!Rendering)))
    /\ \A i \in 1..(MaxTargets + 1) :
           WF_autofillVars(part = "autofill" /\ i \in DOMAIN fetches /\ Autofill!answers(i))
    /\ WF_verificationVars(part = "verification" /\ Verify!render)
    /\ \A i \in 1..VerificationMaxCalls :
           WF_verificationVars(part = "verification" /\ i \in DOMAIN verificationCalls /\ Verify!serve(i))
    /\ \A i \in 1..VerificationMaxCalls :
           WF_verificationVars(part = "verification" /\ i \in DOMAIN verificationCalls /\ Verify!answered(i))
    /\ \A i \in 1..DraftMaxCalls :
           WF_draftVars(part = "draft" /\ i \in DOMAIN draftCalls /\ (Stored!send(i) \/ Stored!notSent(i)))
    /\ \A i \in 1..DraftMaxCalls :
           WF_draftVars(part = "draft" /\ i \in DOMAIN draftCalls /\ (Stored!serve(i) \/ Stored!serverFails(i)))
    /\ \A i \in 1..DraftMaxCalls :
           WF_draftVars(part = "draft" /\ i \in DOMAIN draftCalls /\ Stored!answered(i))
    /\ WF_filesVars(part = "files" /\ Attach!chain)
    /\ WF_filesVars(part = "files" /\ Attach!readReportAttachments)
    /\ WF_filesVars(part = "files" /\ Attach!succeeded)
    /\ WF_filesVars(part = "files" /\ Attach!sweeper)
    /\ WF_importVars(part = "import" /\ Import!poll)
    /\ WF_importVars(part = "import" /\ Import!finish)
    /\ \A k \in {"upload", "rows", "confirm", "status", "failures"} :
           WF_importVars(part = "import" /\ \E c \in importForm.calls : c.kind = k /\ (Import!served(c) \/ Import!answered(c)))

-----------------------------------------------------------------------------
(* What the runs check of the parts.                                       *)

\* What the map hands to the form is the last choice and was checked, the
\* marker shows it, some control always leads on, and the map moves to the
\* device only when asked (LightPointsMap.tsx).
MapSound ==
    /\ [](part = "map" =>
             /\ Map!TypeOK
             /\ Map!LastChoice
             /\ Map!Checked
             /\ Map!MarkerMatches
             /\ Map!WayOn)
    /\ Map!RecenterAsked

\* The automatic address is that of the target on the page, a point is asked
\* for once, and what the user typed or emptied is kept (ReportFormPage.tsx).
AutofillSound ==
    /\ [](part = "autofill" =>
             /\ Autofill!TypeOK
             /\ Autofill!RightTarget
             /\ Autofill!AskedOnce)
    /\ Autofill!UserKept

\* Whatever order answers come in, a token and an intent on the page belong to
\* the address in its field, and the review step is open only to a verified one
\* (ReportFormPage.tsx).
VerificationSound ==
    part = "verification" =>
        /\ Verify!TypeOK
        /\ Verify!TokenFits
        /\ Verify!IntentFits
        /\ Verify!ReviewVerified

\* Through reloads, lost answers and failing storage a sent draft is dropped
\* only for its success or its age, a retry sends what was sent first, and,
\* where nothing is awaited before sending, a report is recorded once
\* (ReportFormPage.tsx, reportDraftStorage.ts).
DraftSound ==
    /\ [](part = "draft" =>
             /\ Stored!TypeOK
             /\ Stored!NothingLost)
    /\ [](part = "plain" =>
             /\ Plain!TypeOK
             /\ Plain!NothingLost
             /\ Plain!RecordedOnce)
    /\ Stored!RetrySame

\* A form that can be sent holds, as a whole, files selected for this draft,
\* and the sweep of another tab takes none that a draft counts
\* (ReportFormPage.tsx, reportDraftStorage.ts). The language is not switched.
FilesSound ==
    /\ [](part = "files" =>
             /\ Attach!TypeOK
             /\ Attach!WholeSelection)
    /\ Attach!SweepKeeps

\* However requests and steps back overlap, what the administrator can confirm
\* is the preview the address names, with the permission ticked for it, and the
\* batch shown is the address's (AdminImportPage.tsx).
ImportPageSound ==
    part = "import" =>
        /\ Import!TypeOK
        /\ Import!UpdateTicked
        /\ Import!ConfirmsNamed
        /\ Import!BatchMatchesUrl

\* The pages do not wait for ever: a validation on the map, the automatic
\* address, a verification, a submission, the saving and restoring of files, a
\* preview and a followed batch all end; and files of a draft that is gone are
\* removed.
PagesGoOn ==
    /\ (part = "map") => Map!ValidationEnds
    /\ (part = "autofill") => Autofill!LoadingEnds
    /\ (part = "verification") => Verify!BusyEnds
    /\ (part = "draft") => Stored!SubmissionEnds
    /\ (part = "files") => Attach!BecomesReady
    /\ (part = "files") => Attach!FilesGone
    /\ (part = "import") => Import!LoadingEnds
    /\ (part = "import") => Import!OutcomeShown

=============================================================================
