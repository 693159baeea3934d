----------------------------- MODULE ReportDraft ------------------------------
(***************************************************************************)
(* One draft of the public report form, from the first edit to its receipt *)
(* (pages/ReportFormPage, utils/reportDraftStorage.ts, services/api.ts of  *)
(* the public application): the page saves the draft in the browser, pins  *)
(* what it is about to send, sends it, and after a lost answer, a reload   *)
(* or a visit elsewhere sends the same again until the server's receipt    *)
(* could be gone.  The server is the one of module ReportSubmission, seen  *)
(* by a single attempt.                                                    *)
(***************************************************************************)
EXTENDS Integers, Sequences

CONSTANTS
    Values,                 \* what the form can hold
    Invalid,                \* of those, what the server refuses
    Addresses,              \* what the address service may say of the place
    AsksAddress,            \* is the place a coordinate, so that its address is asked for?
    Verification,           \* is the e-mail verified?
    TTL,                    \* of drafts, of pending retries and of the server's receipts
    MaxTime, MaxCalls, MaxTokens, MaxFaults,     \* bounds
    None

Content == [form : Values, address : Addresses]
Draft   == [form : Values, pending : BOOLEAN, updatedAt : Nat, since : Nat \cup {None}, prepared : Content \cup {None}]

DraftAssumption ==
    /\ Invalid \subseteq Values /\ TTL \in Nat \ {0} /\ Verification \in BOOLEAN /\ AsksAddress \in BOOLEAN
    /\ None \notin Nat /\ None \notin Content /\ None \notin Draft

VARIABLES
    now, faults,
    mount,              \* the page's current instance; 0 if it is not open
    mounts,
    form, pending, since, prepared, blocked, started,    \* its state
    token,              \* sessionStorage: verification, 0 if none
    draft,              \* localStorage
    calls,              \* submissions: what was sent, by which instance, how far
    tokens, spent,      \* server: verifications granted and no longer good
    recorded, receiptAt,    \* server: reports of this attempt, its receipt
    shown               \* did the user see a success?

pageVars   == <<mount, mounts, form, pending, since, prepared, blocked, started, token>>
serverVars == <<tokens, spent, recorded, receiptAt>>
vars       == <<now, faults, pageVars, draft, calls, serverVars, shown>>

TypeOK ==
    /\ form \in Values /\ pending \in BOOLEAN /\ started \in BOOLEAN /\ since \in Nat \cup {None}
    /\ prepared \in Content \cup {None} /\ token \in 0..tokens
    /\ \A i \in DOMAIN calls : calls[i].answer \in {"asking", "dropped"} \/ calls[i].content \in Content
    /\ draft # None => draft.updatedAt \in 0..now /\ (draft.pending => draft.prepared \in Content)

Init ==
    /\ now = 0 /\ faults = 0 /\ mount = 1 /\ mounts = 1
    /\ form \in Values /\ pending = FALSE /\ since = None /\ prepared = None /\ blocked = FALSE /\ started = FALSE
    /\ token = 0 /\ calls = <<>> /\ tokens = 0 /\ spent = {} /\ recorded = <<>> /\ receiptAt = None /\ shown = FALSE
    /\ draft = [form |-> form, pending |-> FALSE, since |-> None, prepared |-> None, updatedAt |-> 0]

-----------------------------------------------------------------------------
(* Browser storage.                                                        *)

Fault == faults < MaxFaults /\ faults' = faults + 1

\* A retry keeps what is stored if it brings nothing itself.
saveReportDraft(f, p, s, c) ==
    draft' = [form |-> f, pending |-> p, updatedAt |-> now,
              since |-> IF ~p THEN None ELSE IF s # None THEN s
                        ELSE IF draft # None /\ draft.pending THEN draft.since ELSE now,
              prepared |-> IF ~p THEN None ELSE IF c # None \/ draft = None THEN c ELSE draft.prepared]

\* parseReportDraft, of what is stored: too old, or usable for a retry?
Usable == draft # None /\ now - draft.updatedAt <= TTL
Blocked == draft.pending /\ (draft.since = None \/ now >= draft.since + TTL \/ draft.prepared = None)

-----------------------------------------------------------------------------
(* The page.                                                               *)

Editable == mount # 0 /\ ~pending /\ ~started

edit ==
    /\ Editable /\ \E v \in Values \ {form} : form' = v
    /\ saveReportDraft(form', FALSE, None, None)
    /\ UNCHANGED <<now, faults, mount, mounts, pending, since, prepared, blocked, started, token, calls, serverVars, shown>>

\* The last step opens or closes, and the draft is saved with it.
verify ==
    /\ Editable /\ Verification /\ token = 0 /\ tokens < MaxTokens
    /\ tokens' = tokens + 1 /\ token' = tokens'
    /\ saveReportDraft(form, pending, since, prepared)
    /\ UNCHANGED <<now, faults, mount, mounts, form, pending, since, prepared, blocked, started, calls, spent, recorded, receiptAt, shown>>

tokenExpires ==
    /\ token # 0 /\ token' = 0 /\ spent' = spent \cup {token}
    /\ IF mount # 0 THEN saveReportDraft(form, pending, since, prepared) ELSE UNCHANGED draft
    /\ UNCHANGED <<now, faults, mount, mounts, form, pending, since, prepared, blocked, started, calls, tokens, recorded, receiptAt, shown>>

\* Mutant of Restored.
RestoredNever == {}

\* What a retry sends: what was pinned, here or in the stored draft.
Restored == IF ~pending THEN {} ELSE IF prepared # None THEN {prepared}
            ELSE IF Usable /\ draft.prepared # None THEN {draft.prepared} ELSE {}

RetryOpen == ~blocked /\ since # None /\ now < since + TTL

Submittable ==
    /\ mount # 0 /\ ~started
    /\ IF pending THEN RetryOpen ELSE Verification => token # 0

\* The checks, and a request for the address of the place unless it is a retry.
onSubmit ==
    /\ Submittable /\ Len(calls) < MaxCalls
    /\ started' = TRUE
    /\ calls' = Append(calls, [form |-> form, restored |-> Restored, since |-> since, token |-> token, by |-> mount,
                              content |-> None, answer |-> "asking", heard |-> FALSE])
    /\ UNCHANGED <<now, faults, mount, mounts, form, pending, since, prepared, blocked, token, draft, serverVars, shown>>

Here(i) == mount = calls[i].by

\* The first attempt's time is kept.
PendingSince(i) == IF calls[i].since # None THEN calls[i].since ELSE now

\* Otherwise the form, with the address the service gives for the place now.
Prepares(i) == IF calls[i].restored # {} THEN calls[i].restored ELSE [form : {calls[i].form}, address : Addresses]

\* Pinned in storage, then sent.
send(i) ==
    /\ calls[i].answer = "asking"
    /\ \E c \in Prepares(i) :
          /\ saveReportDraft(calls[i].form, TRUE, PendingSince(i), c)
          /\ calls' = [calls EXCEPT ![i].content = c, ![i].answer = "none"]
          /\ IF Here(i) THEN pending' = TRUE /\ since' = PendingSince(i) /\ prepared' = c
             ELSE UNCHANGED <<pending, since, prepared>>
    /\ UNCHANGED <<now, faults, mount, mounts, form, blocked, started, token, serverVars, shown>>

\* The place is refused, or the draft cannot be stored: nothing is sent.
notSent(i) ==
    /\ calls[i].answer = "asking" /\ Fault
    /\ calls' = [calls EXCEPT ![i].answer = "dropped", ![i].heard = TRUE]
    /\ started' = (started /\ ~Here(i))
    /\ UNCHANGED <<now, mount, mounts, form, pending, since, prepared, blocked, token, draft, serverVars, shown>>

\* Reload or close: no answer is heard any more.
closeTab ==
    /\ mount' = 0 /\ started' = FALSE /\ Fault
    /\ calls' = [i \in DOMAIN calls |-> [calls[i] EXCEPT !.heard = TRUE, !.answer = IF @ = "asking" THEN "dropped" ELSE @]]
    /\ UNCHANGED <<now, mounts, form, pending, since, prepared, blocked, token, draft, serverVars, shown>>

\* Another page of the application: what waits for an answer goes on.  (Only the
\* request for an address waits before the sending.)
leave ==
    /\ mount # 0 /\ \A i \in DOMAIN calls : calls[i].answer = "asking" => AsksAddress /\ calls[i].restored = {}
    /\ mount' = 0 /\ Fault /\ started' = FALSE
    /\ UNCHANGED <<now, mounts, form, pending, since, prepared, blocked, token, draft, calls, serverVars, shown>>

\* The page opens with the stored draft, if that is still good, and saves it anew.
open ==
    /\ mount = 0 /\ Usable
    /\ mount' = mounts + 1 /\ mounts' = mounts + 1 /\ started' = FALSE
    /\ form' = draft.form /\ pending' = draft.pending /\ since' = draft.since /\ prepared' = draft.prepared
    /\ blocked' = Blocked /\ saveReportDraft(form', pending', since', prepared')
    /\ UNCHANGED <<now, faults, token, calls, serverVars, shown>>

discardExpired ==
    /\ mount = 0 /\ draft # None /\ ~Usable /\ draft' = None /\ token' = 0
    /\ UNCHANGED <<now, faults, mount, mounts, form, pending, since, prepared, blocked, started, calls, serverVars, shown>>

-----------------------------------------------------------------------------
(* The server: parsing, then the receipt, then the verification.           *)

Answer(i, a) == calls' = [calls EXCEPT ![i].answer = a]
HasReceipt   == receiptAt # None /\ now < receiptAt + TTL

serve(i) ==
    /\ calls[i].answer = "none"
    /\ UNCHANGED <<now, faults, pageVars, draft, tokens, shown>>
    /\ \/ calls[i].content.form \in Invalid /\ Answer(i, "refused") /\ UNCHANGED <<spent, recorded, receiptAt>>
       \/ /\ calls[i].content.form \notin Invalid /\ HasReceipt
          /\ Answer(i, "success") /\ UNCHANGED <<spent, recorded, receiptAt>>
       \/ /\ calls[i].content.form \notin Invalid /\ ~HasReceipt
          /\ IF Verification /\ (calls[i].token = 0 \/ calls[i].token \in spent)
             THEN Answer(i, "verification") /\ UNCHANGED <<spent, recorded, receiptAt>>
             ELSE /\ Answer(i, "success") /\ spent' = spent \cup {calls[i].token}
                  /\ recorded' = Append(recorded, calls[i].content) /\ receiptAt' = now

serverFails(i) ==
    /\ calls[i].answer = "none" /\ Fault /\ Answer(i, "unavailable")
    /\ UNCHANGED <<now, pageVars, draft, serverVars, shown>>

-----------------------------------------------------------------------------
(* Answers.  State of an instance that is gone is not touched; storage is. *)

Hears(i) == calls[i].answer \notin {"asking", "none"} /\ ~calls[i].heard /\ calls' = [calls EXCEPT ![i].heard = TRUE]

succeeded(i) ==
    /\ Hears(i) /\ calls[i].answer = "success"
    /\ draft' = None /\ token' = 0 /\ shown' = TRUE /\ mount' = 0 /\ started' = FALSE
    /\ UNCHANGED <<now, faults, mounts, form, pending, since, prepared, blocked, serverVars>>

\* Mutant of Stays.
StaysStarted(i) == UNCHANGED <<mount, started>>

\* The form is usable again, or the result page replaces whatever is shown.
Stays(i) == UNCHANGED mount /\ started' = (started /\ ~Here(i))
Result   == mount' = 0 /\ started' = FALSE

settled(i) ==
    IF Here(i) THEN pending' = FALSE /\ since' = None /\ prepared' = None ELSE UNCHANGED <<pending, since, prepared>>

\* A definite refusal ends the attempt to send this content.
wasRefused(i) ==
    /\ Hears(i) /\ calls[i].answer \in {"refused", "verification"}
    /\ saveReportDraft(calls[i].content.form, FALSE, None, None) /\ settled(i)
    /\ IF calls[i].answer = "refused" THEN Result /\ UNCHANGED token
       ELSE Stays(i) /\ token' = IF mount \in {0, calls[i].by} THEN 0 ELSE token
    /\ UNCHANGED <<now, faults, mounts, form, blocked, serverVars, shown>>

\* Nobody knows what became of it: the retry stays pending.
unknown(i) ==
    /\ \/ Hears(i) /\ calls[i].answer = "unavailable" /\ UNCHANGED faults
       \/ calls[i].answer # "asking" /\ ~calls[i].heard /\ Fault /\ calls' = [calls EXCEPT ![i].heard = TRUE]
    /\ Result \/ (Verification /\ Stays(i))
    /\ UNCHANGED <<now, mounts, form, pending, since, prepared, blocked, token, draft, serverVars, shown>>

\* On the scale of days a request takes no time, and a verification does not last.
Tick ==
    /\ now < MaxTime /\ token = 0 /\ \A i \in DOMAIN calls : calls[i].answer \notin {"asking", "none"} /\ calls[i].heard
    /\ now' = now + 1 /\ spent' = spent \cup 1..tokens
    /\ UNCHANGED <<faults, pageVars, draft, calls, tokens, recorded, receiptAt, shown>>

answered(i) == succeeded(i) \/ wasRefused(i) \/ unknown(i)
user == edit \/ verify \/ tokenExpires \/ onSubmit \/ closeTab \/ leave \/ open \/ discardExpired

Next ==
    \/ user \/ Tick
    \/ \E i \in DOMAIN calls : send(i) \/ notSent(i) \/ serve(i) \/ serverFails(i) \/ answered(i)

Spec == Init /\ [][Next]_vars

\* The server answers or the connection ends; users need do nothing.
FairSpec ==
    /\ Spec
    /\ \A i \in 1..MaxCalls :
          /\ WF_vars(i \in DOMAIN calls /\ (send(i) \/ notSent(i)))
          /\ WF_vars(i \in DOMAIN calls /\ (serve(i) \/ serverFails(i)))
          /\ WF_vars(i \in DOMAIN calls /\ answered(i))

-----------------------------------------------------------------------------
(* Properties.                                                             *)

\* However often a draft is sent, after lost answers, reloads and waits, the
\* server records it at most once.
RecordedOnce == Len(recorded) <= 1

\* While nobody knows whether a report arrived, the open page sends nothing but
\* a report it sent before, whatever the form or the address service says now.
RetrySame ==
    [][ \A i \in DOMAIN calls :
          calls[i].content = None /\ calls'[i].content # None /\ Here(i) /\ pending
            => \E j \in DOMAIN calls : calls[j].content = calls'[i].content ]_vars

\* A success is shown only for a report that is recorded, and a draft that was
\* sent is only dropped for that or for its age.
NothingLost ==
    /\ shown => recorded # <<>>
    /\ draft = None => shown \/ now > TTL

\* A submission always ends: the button is never left dead.
SubmissionEnds == started ~> ~started

=============================================================================
