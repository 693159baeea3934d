--------------------------- MODULE FormVerification ----------------------------
(***************************************************************************)
(* E-mail verification as the public report form sees it                   *)
(* (pages/ReportFormPage, services/api.ts, utils/reportDraftStorage.ts):   *)
(* codes are requested and confirmed by calls whose answers may come after *)
(* the address was changed, another code was requested or the page was     *)
(* reloaded.  The server is that of module EmailVerification, reduced to   *)
(* which address an intent is for.  A token stands for the intent that was *)
(* confirmed.                                                              *)
(***************************************************************************)
EXTENDS Integers, Sequences

CONSTANTS
    Emails,
    MaxCalls, MaxReloads,      \* bounds
    None

EmailsAssumption == None \notin Nat /\ None \notin Emails /\ None \notin {"ok", "error", "wait", "over"}

VARIABLES
    email, step,
    enabled,                    \* emailVerificationEnabled, or "failed"
    intent, verified, token,    \* verificationIntentId, verificationEmail, verificationToken
    expired, cooling,           \* verificationExpiresIn = 0, verificationRetryAfter > 0
    busy, rendered,             \* verificationBusy, and as the last rendering has it
    sequence,
    calls, owner,               \* requests under way; server: the address of each intent
    reloads

verification == <<intent, verified, token, expired, cooling>>
server       == <<calls, owner>>
vars         == <<email, step, enabled, verification, busy, rendered, sequence, server, reloads>>

Intents == 1..Len(owner)

TypeOK ==
    /\ email \in Emails /\ step \in 1..3 /\ busy \in {"idle", "requesting", "verifying"} /\ owner \in Seq(Emails)
    /\ intent \in Intents \cup {None} /\ token \in Intents \cup {None} /\ verified \in Emails \cup {None}
    /\ intent = None <=> verified = None
    /\ busy # "idle" => \E i \in DOMAIN calls : calls[i].sequence = sequence /\ ~calls[i].heard

Init ==
    /\ email \in Emails /\ step = 1 /\ enabled = "unknown"
    /\ intent = None /\ verified = None /\ token = None /\ expired = FALSE /\ cooling = FALSE
    /\ busy = "idle" /\ rendered = "idle" /\ sequence = 0 /\ calls = <<>> /\ owner = <<>> /\ reloads = 0

-----------------------------------------------------------------------------
(* The form.                                                               *)

Verified == token # None /\ intent # None /\ verified = email /\ ~expired

\* Without a valid verification there is nothing to review.
Effect(s, ok, e) == IF e \in {"yes", "no"} /\ s = 3 /\ ~(e = "yes" /\ ok) THEN 2 ELSE s

getEmailVerificationStatus ==
    /\ enabled = "unknown" /\ enabled' \in {"yes", "no", "failed"} /\ step' = Effect(step, Verified, enabled')
    /\ UNCHANGED <<email, verification, busy, rendered, sequence, server, reloads>>

goToNextStep ==
    /\ step = 1 /\ step' = 2
    /\ UNCHANGED <<email, enabled, verification, busy, rendered, sequence, server, reloads>>

goToPreviousStep ==
    /\ step > 1 /\ step' = step - 1
    /\ UNCHANGED <<email, enabled, verification, busy, rendered, sequence, server, reloads>>

continueToReview ==
    /\ step = 2 /\ enabled = "yes" /\ Verified /\ busy = "idle" /\ step' = 3
    /\ UNCHANGED <<email, enabled, verification, busy, rendered, sequence, server, reloads>>

resetEmailVerification ==
    /\ sequence' = sequence + 1 /\ busy' = "idle" /\ rendered' = "idle"
    /\ intent' = None /\ verified' = None /\ token' = None /\ expired' = FALSE /\ cooling' = FALSE

hasVerificationState == intent # None \/ verified # None \/ token # None \/ cooling \/ busy # "idle"

handleEmailChange ==
    /\ step = 2 /\ email' \in Emails \ {email}
    /\ IF hasVerificationState THEN resetEmailVerification
       ELSE UNCHANGED <<verification, busy, rendered, sequence>>
    /\ UNCHANGED <<step, enabled, server, reloads>>

\* The clock of the page: codes and tokens run out, and the wait for another code ends.
verificationExpires ==
    /\ intent # None /\ ~expired /\ expired' = TRUE
    /\ token' = None /\ step' = IF token # None \/ step = 3 THEN 2 ELSE step
    /\ UNCHANGED <<email, enabled, intent, verified, cooling, busy, rendered, sequence, server, reloads>>

retryAllowed ==
    /\ cooling /\ cooling' = FALSE
    /\ UNCHANGED <<email, step, enabled, intent, verified, token, expired, busy, rendered, sequence, server, reloads>>

-----------------------------------------------------------------------------
(* Requests.  The guard on verificationBusy sees the last rendering.       *)

Call(kind, i) ==
    /\ Len(calls) < MaxCalls /\ sequence' = sequence + 1
    /\ calls' = Append(calls, [kind |-> kind, email |-> email, intent |-> i, sequence |-> sequence',
                               answer |-> None, granted |-> None, heard |-> FALSE])

requestEmailCode(resend) ==
    /\ step = 2 /\ enabled = "yes" /\ rendered = "idle" /\ ~cooling
    /\ Call("request", IF resend /\ ~expired THEN intent ELSE None) /\ busy' = "requesting"
    /\ UNCHANGED <<email, step, enabled, verification, rendered, owner, reloads>>

render ==
    /\ rendered # busy /\ rendered' = busy
    /\ UNCHANGED <<email, step, enabled, verification, busy, sequence, server, reloads>>

verifyEmailCode ==
    /\ step = 2 /\ enabled = "yes" /\ rendered = "idle" /\ intent # None
    /\ Call("verify", intent) /\ busy' = "verifying" /\ rendered' = "verifying"
    /\ UNCHANGED <<email, step, enabled, verification, owner, reloads>>

\* What the server answers: a code for a new or the same intent, a token, or an error.
Answers(i, a, g) == calls' = [calls EXCEPT ![i] = [@ EXCEPT !.answer = a, !.granted = g]]

serve(i) ==
    /\ calls[i].answer = None /\ UNCHANGED <<email, step, enabled, verification, busy, rendered, sequence, reloads>>
    /\ \/ /\ calls[i].kind = "request" /\ calls[i].intent = None
          /\ owner' = Append(owner, calls[i].email) /\ Answers(i, "ok", Len(owner'))
       \/ /\ calls[i].intent # None
          /\ owner[calls[i].intent] = calls[i].email /\ Answers(i, "ok", calls[i].intent) /\ UNCHANGED owner
       \/ \E a \in {"error", "wait", "over"} : Answers(i, a, None) /\ UNCHANGED owner

-----------------------------------------------------------------------------
(* Answers.                                                                *)

\* Mutant of Stale.
StaleNever(i) == FALSE

Stale(i) == calls[i].sequence # sequence

Hears(i) == calls[i].answer # None /\ ~calls[i].heard /\ calls' = [calls EXCEPT ![i].heard = TRUE]

ignored(i) ==
    /\ Hears(i) /\ Stale(i)
    /\ UNCHANGED <<email, step, enabled, verification, busy, rendered, sequence, owner, reloads>>

codeSent(i) ==
    /\ Hears(i) /\ ~Stale(i) /\ calls[i].kind = "request" /\ calls[i].answer = "ok"
    /\ IF email = calls[i].email
       THEN intent' = calls[i].granted /\ verified' = email /\ token' = None /\ expired' = FALSE /\ cooling' \in BOOLEAN
       ELSE UNCHANGED verification
    /\ busy' = "idle" /\ rendered' = "idle" /\ UNCHANGED <<email, step, enabled, sequence, owner, reloads>>

codeVerified(i) ==
    /\ Hears(i) /\ ~Stale(i) /\ calls[i].kind = "verify" /\ calls[i].answer = "ok"
    /\ IF email = calls[i].email
       THEN verified' = email /\ token' = calls[i].granted /\ expired' = FALSE /\ step' = 3
       ELSE UNCHANGED <<verified, token, expired, step>>
    /\ busy' = "idle" /\ rendered' = "idle" /\ UNCHANGED <<email, enabled, intent, cooling, sequence, owner, reloads>>

\* An intent that is over is forgotten; a rate limit says when to try again.
callFails(i) ==
    /\ Hears(i) /\ ~Stale(i) /\ calls[i].answer \in {"error", "wait", "over"}
    /\ IF calls[i].answer = "over" THEN resetEmailVerification
       ELSE /\ cooling' = (cooling \/ calls[i].answer = "wait") /\ busy' = "idle" /\ rendered' = "idle"
            /\ UNCHANGED <<intent, verified, token, expired, sequence>>
    /\ step' = IF calls[i].answer = "over" THEN Effect(step, FALSE, enabled) ELSE step
    /\ UNCHANGED <<email, enabled, owner, reloads>>

\* The submission finds the verification gone.
verificationRequired ==
    /\ step = 3 /\ enabled = "yes" /\ Verified /\ resetEmailVerification /\ step' = 2
    /\ UNCHANGED <<email, enabled, server, reloads>>

\* The session keeps a verification of the address in the draft until it expires.
reload ==
    /\ reloads < MaxReloads /\ reloads' = reloads + 1
    /\ calls' = [i \in DOMAIN calls |-> [calls[i] EXCEPT !.heard = TRUE]]
    /\ sequence' = 0 /\ busy' = "idle" /\ rendered' = "idle" /\ enabled' = "unknown"
    /\ IF intent # None /\ ~expired /\ verified = email THEN UNCHANGED verification
       ELSE intent' = None /\ verified' = None /\ token' = None /\ expired' = FALSE /\ cooling' = FALSE
    /\ UNCHANGED <<email, step, owner>>

-----------------------------------------------------------------------------
answered(i) == ignored(i) \/ codeSent(i) \/ codeVerified(i) \/ callFails(i)
form == \/ getEmailVerificationStatus \/ goToNextStep \/ goToPreviousStep \/ continueToReview \/ handleEmailChange
        \/ verificationExpires \/ retryAllowed \/ verificationRequired \/ reload

Next ==
    \/ form \/ render \/ verifyEmailCode \/ \E resend \in BOOLEAN : requestEmailCode(resend)
    \/ \E i \in DOMAIN calls : serve(i) \/ answered(i)

Spec == Init /\ [][Next]_vars

\* A fetch settles.
FairSpec ==
    /\ Spec /\ WF_vars(render)
    /\ \A i \in 1..MaxCalls : WF_vars(i \in DOMAIN calls /\ serve(i)) /\ WF_vars(i \in DOMAIN calls /\ answered(i))

-----------------------------------------------------------------------------
(* Properties.                                                             *)

\* Whatever comes late or twice, a token in the form was granted for the intent
\* beside it, and that intent is for the address in the form.
TokenFits == token # None => token = intent /\ owner[intent] = email /\ verified = email

\* The review of the report is shown only while the address is verified, once
\* the page knows that verification is on.
ReviewVerified == step = 3 /\ enabled = "yes" => Verified

\* A code or token that is held is never of another address than the form's.
IntentFits == intent # None => owner[intent] = email

\* The form does not stay busy.
BusyEnds == (busy # "idle" \/ rendered # "idle") ~> (busy = "idle" /\ rendered = "idle")

=============================================================================
