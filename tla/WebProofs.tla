------------------------------ MODULE WebProofs ------------------------------
(***************************************************************************)
(* The pages of the two web applications, for any number of targets,       *)
(* addresses, calls, edits, uploads and reloads: what MCWeb checks of them *)
(* on small instances.                                                     *)
(***************************************************************************)
EXTENDS MCWeb, SequenceTheorems, FiniteSetTheorems, TLAPS

-----------------------------------------------------------------------------
(* The verification of the email.                                          *)

VerificationCall ==
    [kind : {"request", "verify"}, email : Emails, intent : Nat \cup {None}, sequence : Nat,
     answer : {None, "ok", "error", "wait", "over"}, granted : Nat \cup {None}, heard : BOOLEAN]

VerificationTypes ==
    /\ email \in Emails /\ step \in 1..3 /\ enabled \in {"unknown", "yes", "no", "failed"}
    /\ busy \in {"idle", "requesting", "verifying"} /\ expired \in BOOLEAN /\ cooling \in BOOLEAN
    /\ verificationSequence \in Nat /\ owner \in Seq(Emails) /\ verificationCalls \in Seq(VerificationCall)
    /\ intent \in Verify!Intents \cup {None} /\ verificationToken \in Verify!Intents \cup {None}
    /\ verified \in Emails \cup {None} /\ (intent = None <=> verified = None)

\* What a call asks about exists, and what it is granted is for the address it
\* was made for; a confirmation grants the intent it was made for.
AnswerOK(c) ==
    /\ c.intent \in Verify!Intents \cup {None}
    /\ c.kind = "verify" => c.intent # None
    /\ c.answer = "ok" => /\ c.granted \in Verify!Intents /\ owner[c.granted] = c.email
                          /\ c.kind = "verify" => c.granted = c.intent

Awaited(c) == ~c.heard /\ c.sequence = verificationSequence

\* A call that still counts is the last one made: the page is busy with it, has
\* not gone on to the review, and holds the intent the call was made for.
AwaitedOK(c) ==
    /\ ~c.heard => c.sequence <= verificationSequence
    /\ Awaited(c) => /\ step # 3 /\ busy # "idle"
                     /\ c.kind = "verify" => c.intent = intent

OneAwaited ==
    /\ \A i, j \in 1..Len(verificationCalls) :
          Awaited(verificationCalls[i]) /\ Awaited(verificationCalls[j]) => i = j
    /\ busy # "idle" => \E i \in 1..Len(verificationCalls) : Awaited(verificationCalls[i])

VerificationInv ==
    /\ VerificationTypes
    /\ \A i \in 1..Len(verificationCalls) : AnswerOK(verificationCalls[i]) /\ AwaitedOK(verificationCalls[i])
    /\ OneAwaited
    /\ Verify!TokenFits /\ Verify!IntentFits /\ Verify!ReviewVerified

LEMMA VerificationInit == Verify!Init => VerificationInv
<1> SUFFICES ASSUME Verify!Init PROVE VerificationInv
  OBVIOUS
<1>1. owner \in Seq(Emails) /\ verificationCalls \in Seq(VerificationCall)
  BY DEF Verify!Init
<1>a. expired \in BOOLEAN /\ cooling \in BOOLEAN /\ intent = None /\ verified = None
  BY Zenon DEF Verify!Init
<1>b. VerificationTypes
  BY <1>1, <1>a DEF Verify!Init, VerificationTypes
<1>2. Len(verificationCalls) = 0
  BY DEF Verify!Init
<1>3. QED
  BY <1>b, <1>2 DEF Verify!Init, VerificationInv, OneAwaited, Verify!TokenFits, Verify!IntentFits, Verify!ReviewVerified

\* A call that is made is the one that counts.
LEMMA CallMade ==
    ASSUME VerificationInv, NEW kind \in {"request", "verify"}, NEW i \in Verify!Intents \cup {None},
           kind = "verify" => i # None /\ i = intent,
           Verify!Call(kind, i), busy' \in {"requesting", "verifying"},
           step = 2, UNCHANGED <<email, step, enabled, intent, verified, verificationToken, expired, cooling, owner>>
    PROVE  VerificationInv'
<1>0. PICK n \in Nat, c \in VerificationCall :
          /\ n = Len(verificationCalls)
          /\ c = [kind |-> kind, email |-> email, intent |-> i, sequence |-> verificationSequence + 1,
                  answer |-> None, granted |-> None, heard |-> FALSE]
  <2>1. /\ Len(verificationCalls) \in Nat /\ email \in Emails /\ verificationSequence + 1 \in Nat
        /\ i \in Nat \cup {None}
    BY DEF VerificationInv, VerificationTypes, Verify!Intents
  <2>2. QED
    BY <2>1 DEF VerificationCall
<1>2. /\ verificationSequence' = verificationSequence + 1
      /\ verificationCalls' = Append(verificationCalls, c)
  BY <1>0 DEF Verify!Call
<1>3. /\ verificationCalls' \in Seq(VerificationCall) /\ Len(verificationCalls') = n + 1
      /\ verificationCalls'[n + 1] = c
      /\ \A j \in 1..n : verificationCalls'[j] = verificationCalls[j] /\ verificationCalls[j] \in VerificationCall
  BY <1>0, <1>2 DEF VerificationInv, VerificationTypes
<1>4. VerificationTypes'
  BY <1>2, <1>3 DEF VerificationInv, VerificationTypes, Verify!Intents
<1>5. \A j \in 1..n : ~Awaited(verificationCalls[j])' /\ AnswerOK(verificationCalls[j])' /\ AwaitedOK(verificationCalls[j])'
  BY <1>0, <1>2, <1>3 DEF VerificationInv, VerificationTypes, AwaitedOK, AnswerOK, Awaited, VerificationCall, Verify!Intents
<1>6. Awaited(verificationCalls[n + 1])' /\ AnswerOK(verificationCalls[n + 1])' /\ AwaitedOK(verificationCalls[n + 1])'
  <2>1. c.answer # "ok" /\ c.kind = kind /\ c.intent = i /\ c.sequence = verificationSequence' /\ c.heard = FALSE
    BY <1>0, <1>2, PartsAssumption DEF Verify!EmailsAssumption
  <2>2. QED
    BY <1>2, <1>3, <2>1 DEF VerificationInv, VerificationTypes, AwaitedOK, AnswerOK, Awaited, Verify!Intents
<1>7. /\ \A j \in 1..Len(verificationCalls') : AnswerOK(verificationCalls[j])' /\ AwaitedOK(verificationCalls[j])'
      /\ OneAwaited'
  <2>1. \A j \in 1..Len(verificationCalls') : j \in 1..n \/ j = n + 1
    BY <1>3
  <2>2. n + 1 \in 1..Len(verificationCalls')
    BY <1>3
  <2>3. QED
    BY <1>5, <1>6, <2>1, <2>2 DEF OneAwaited
<1>8. (Verify!TokenFits /\ Verify!IntentFits /\ Verify!ReviewVerified)'
  BY DEF VerificationInv, Verify!TokenFits, Verify!IntentFits, Verify!ReviewVerified, Verify!Verified
<1>9. QED
  BY <1>4, <1>7, <1>8 DEF VerificationInv

\* A step of the form leaves the calls alone: they go on counting, or none does.
LEMMA FormKeeps ==
    ASSUME VerificationInv, VerificationTypes', UNCHANGED <<verificationCalls, owner>>,
           \/ UNCHANGED <<verificationSequence, busy, intent>> /\ (step' # 3 \/ step = 3 \/ busy = "idle")
           \/ verificationSequence' = verificationSequence + 1 /\ busy' = "idle",
           (Verify!TokenFits /\ Verify!IntentFits /\ Verify!ReviewVerified)'
    PROVE  VerificationInv'
<1>1. \A i \in 1..Len(verificationCalls) : verificationCalls[i] \in VerificationCall
  BY DEF VerificationInv, VerificationTypes
<1>2. CASE UNCHANGED <<verificationSequence, busy, intent>> /\ (step' # 3 \/ step = 3 \/ busy = "idle")
  BY <1>1, <1>2 DEF VerificationInv, OneAwaited, AwaitedOK, AnswerOK, Awaited, Verify!Intents
<1>3. CASE verificationSequence' = verificationSequence + 1 /\ busy' = "idle"
  <2>1. verificationSequence \in Nat
    BY DEF VerificationInv, VerificationTypes
  <2>2. \A i \in 1..Len(verificationCalls) : verificationCalls[i].sequence \in Nat
    BY <1>1 DEF VerificationCall
  <2>3. \A i \in 1..Len(verificationCalls) : ~Awaited(verificationCalls[i])'
    BY <1>3, <2>1, <2>2 DEF VerificationInv, AwaitedOK, Awaited
  <2>4. \A i \in 1..Len(verificationCalls) : AwaitedOK(verificationCalls[i])'
    BY <1>3, <2>1, <2>2, <2>3 DEF VerificationInv, AwaitedOK
  <2>5. QED
    BY <1>3, <2>3, <2>4 DEF VerificationInv, OneAwaited, AnswerOK, Verify!Intents
<1>4. QED
  BY <1>2, <1>3

LEMMA ResetTypes ==
    ASSUME VerificationTypes, Verify!resetEmailVerification, UNCHANGED <<verificationCalls, owner, enabled>>,
           email' \in Emails, step' \in 1..3
    PROVE  VerificationTypes'
<1>1. expired' \in BOOLEAN /\ cooling' \in BOOLEAN
  BY Zenon DEF Verify!resetEmailVerification
<1>2. /\ verificationSequence' \in Nat /\ busy' \in {"idle", "requesting", "verifying"}
      /\ enabled' \in {"unknown", "yes", "no", "failed"} /\ owner' \in Seq(Emails)
      /\ verificationCalls' \in Seq(VerificationCall)
  BY DEF VerificationTypes, Verify!resetEmailVerification
<1>3. intent' = None /\ verificationToken' = None /\ verified' = None
  BY DEF Verify!resetEmailVerification
<1>4. QED
  BY <1>1, <1>2, <1>3 DEF VerificationTypes

LEMMA VerificationForm ==
    ASSUME VerificationInv,
           \/ Verify!getEmailVerificationStatus \/ Verify!goToNextStep \/ Verify!goToPreviousStep
           \/ Verify!continueToReview \/ Verify!retryAllowed \/ Verify!render \/ Verify!verificationExpires
           \/ Verify!handleEmailChange \/ Verify!verificationRequired
    PROVE  VerificationInv'
<1> USE DEF Verify!verification, Verify!server, Verify!Effect, Verify!Verified, Verify!Intents,
        Verify!TokenFits, Verify!IntentFits, Verify!ReviewVerified
<1>0. VerificationTypes /\ Verify!TokenFits /\ Verify!IntentFits /\ Verify!ReviewVerified
  BY DEF VerificationInv
<1>1. CASE Verify!getEmailVerificationStatus
  <2>1. VerificationTypes'
    BY <1>0, <1>1 DEF VerificationTypes, Verify!getEmailVerificationStatus
  <2>2. QED
    BY <1>0, <1>1, <2>1, FormKeeps DEF Verify!getEmailVerificationStatus
<1>2. CASE Verify!goToNextStep
  <2>1. VerificationTypes'
    BY <1>0, <1>2 DEF VerificationTypes, Verify!goToNextStep
  <2>2. QED
    BY <1>0, <1>2, <2>1, FormKeeps DEF Verify!goToNextStep
<1>3. CASE Verify!goToPreviousStep
  <2>1. VerificationTypes' /\ step' # 3
    BY <1>0, <1>3 DEF VerificationTypes, Verify!goToPreviousStep
  <2>2. QED
    BY <1>0, <1>3, <2>1, FormKeeps DEF Verify!goToPreviousStep
<1>4. CASE Verify!continueToReview
  <2>1. VerificationTypes'
    BY <1>0, <1>4 DEF VerificationTypes, Verify!continueToReview
  <2>2. QED
    BY <1>0, <1>4, <2>1, FormKeeps DEF Verify!continueToReview
<1>5. CASE Verify!retryAllowed
  <2>1. VerificationTypes'
    BY <1>0, <1>5 DEF VerificationTypes, Verify!retryAllowed
  <2>2. QED
    BY <1>0, <1>5, <2>1, FormKeeps DEF Verify!retryAllowed
<1>6. CASE Verify!render
  <2>1. VerificationTypes'
    BY <1>0, <1>6 DEF VerificationTypes, Verify!render
  <2>2. QED
    BY <1>0, <1>6, <2>1, FormKeeps DEF Verify!render
<1>7. CASE Verify!verificationExpires
  <2>1. VerificationTypes'
    BY <1>0, <1>7 DEF VerificationTypes, Verify!verificationExpires
  <2>2. step' # 3
    BY <1>7 DEF Verify!verificationExpires
  <2>3. QED
    BY <1>0, <1>7, <2>1, <2>2, FormKeeps DEF Verify!verificationExpires
<1>8. CASE Verify!handleEmailChange
  <2>1. VerificationTypes'
    <3>1. CASE Verify!hasVerificationState
      <4>1. Verify!resetEmailVerification /\ UNCHANGED <<verificationCalls, owner, enabled>> /\ email' \in Emails /\ step' \in 1..3
        BY <1>8, <3>1 DEF Verify!handleEmailChange
      <4>2. QED
        BY <1>0, <4>1, ResetTypes
    <3>2. CASE ~Verify!hasVerificationState
      BY <1>0, <1>8, <3>2 DEF VerificationTypes, Verify!handleEmailChange
    <3>3. QED
      BY <3>1, <3>2
  <2>2. step' = 2
    BY <1>8 DEF Verify!handleEmailChange
  <2>3. intent' = None /\ verificationToken' = None
    BY <1>8 DEF Verify!handleEmailChange, Verify!resetEmailVerification, Verify!hasVerificationState
  <2>4. (Verify!TokenFits /\ Verify!IntentFits /\ Verify!ReviewVerified)'
    BY <2>2, <2>3
  <2>5. QED
    BY <1>8, <2>1, <2>2, <2>4, FormKeeps DEF Verify!handleEmailChange, Verify!resetEmailVerification
<1>9. CASE Verify!verificationRequired
  <2>1. VerificationTypes'
    <3>1. Verify!resetEmailVerification /\ UNCHANGED <<verificationCalls, owner, enabled>> /\ email' \in Emails /\ step' \in 1..3
      BY <1>0, <1>9 DEF Verify!verificationRequired, VerificationTypes
    <3>2. QED
      BY <1>0, <3>1, ResetTypes
  <2>2. QED
    BY <1>9, <2>1, FormKeeps DEF Verify!verificationRequired, Verify!resetEmailVerification
<1>10. QED
  BY <1>1, <1>2, <1>3, <1>4, <1>5, <1>6, <1>7, <1>8, <1>9

LEMMA VerificationReload ==
    ASSUME VerificationInv, Verify!reload
    PROVE  VerificationInv'
<1> USE DEF Verify!verification, Verify!Intents, Verify!TokenFits, Verify!IntentFits, Verify!ReviewVerified
<1>1. PICK n \in Nat : n = Len(verificationCalls)
  BY DEF VerificationInv, VerificationTypes
<1>2. /\ verificationCalls' = [i \in 1..n |-> [verificationCalls[i] EXCEPT !.heard = TRUE]]
      /\ \A i \in 1..n : verificationCalls[i] \in VerificationCall
  BY <1>1 DEF VerificationInv, VerificationTypes, Verify!reload
<1>3. \A i \in 1..n : [verificationCalls[i] EXCEPT !.heard = TRUE] \in VerificationCall
  BY <1>2 DEF VerificationCall
<1>4. verificationCalls' \in Seq(VerificationCall) /\ Len(verificationCalls') = n
  BY <1>1, <1>2, <1>3
<1>5. \A i \in 1..n : verificationCalls'[i] = [verificationCalls[i] EXCEPT !.heard = TRUE]
  BY <1>2
<1>6. \A i \in 1..n : verificationCalls'[i].heard = TRUE /\ AnswerOK(verificationCalls[i])'
  BY <1>1, <1>2, <1>5 DEF VerificationInv, AnswerOK, VerificationCall, Verify!reload
<1>7. VerificationTypes'
  BY <1>4 DEF VerificationInv, VerificationTypes, Verify!reload
<1>8. \A i \in 1..n : ~Awaited(verificationCalls[i])' /\ AwaitedOK(verificationCalls[i])'
  BY <1>6 DEF Awaited, AwaitedOK
<1>9. OneAwaited'
  BY <1>4, <1>8 DEF OneAwaited, Verify!reload
<1>10. (Verify!TokenFits /\ Verify!IntentFits /\ Verify!ReviewVerified)'
  BY DEF VerificationInv, Verify!reload
<1>11. QED
  BY <1>4, <1>6, <1>7, <1>8, <1>9, <1>10 DEF VerificationInv

\* What is granted is for the address of the call.
LEMMA VerificationServe ==
    ASSUME VerificationInv, NEW i \in DOMAIN verificationCalls, Verify!serve(i)
    PROVE  VerificationInv'
<1>1. PICK n \in Nat, m \in Nat, c \in VerificationCall :
          n = Len(verificationCalls) /\ m = Len(owner) /\ c = verificationCalls[i] /\ i \in 1..n
  BY DEF VerificationInv, VerificationTypes
<1>2. PICK a \in {"ok", "error", "wait", "over"}, g \in Nat \cup {None} :
          /\ Verify!Answers(i, a, g)
          /\ owner' = owner \/ owner' = Append(owner, c.email)
          /\ Len(owner') \in Nat /\ Len(owner') >= m
          /\ a = "ok" => /\ g \in 1..Len(owner') /\ owner'[g] = c.email
                         /\ c.kind = "verify" => g = c.intent
  <2>1. CASE c.kind = "request" /\ c.intent = None /\ owner' = Append(owner, c.email) /\ Verify!Answers(i, "ok", Len(owner'))
    <3>1. Len(owner') = m + 1 /\ owner'[m + 1] = c.email
      BY <1>1, <2>1 DEF VerificationInv, VerificationTypes, VerificationCall
    <3>2. QED
      BY <1>1, <2>1, <3>1
  <2>2. CASE c.intent # None /\ owner[c.intent] = c.email /\ Verify!Answers(i, "ok", c.intent) /\ UNCHANGED owner
    <3>1. c.intent \in 1..m
      BY <1>1, <2>2 DEF VerificationInv, AnswerOK, Verify!Intents
    <3>2. QED
      BY <1>1, <2>2, <3>1
  <2>3. CASE \E a \in {"error", "wait", "over"} : Verify!Answers(i, a, None) /\ UNCHANGED owner
    <3>1. PICK a \in {"error", "wait", "over"} : Verify!Answers(i, a, None) /\ UNCHANGED owner
      BY <2>3
    <3>2. a # "ok" /\ a \in {"ok", "error", "wait", "over"} /\ None \in Nat \cup {None} /\ Len(owner') \in Nat /\ Len(owner') >= m
      BY <1>1, <3>1
    <3>3. QED
      BY <3>1, <3>2
  <2>4. QED
    BY <1>1, <2>1, <2>2, <2>3 DEF Verify!serve
<1>a. verificationCalls' = [verificationCalls EXCEPT ![i] = [c EXCEPT !.answer = a, !.granted = g]]
  BY <1>1, <1>2 DEF Verify!Answers
<1>3. /\ owner' \in Seq(Emails) /\ \A j \in 1..m : owner'[j] = owner[j] /\ j \in 1..Len(owner')
  <2>1. owner \in Seq(Emails) /\ c.email \in Emails
    BY DEF VerificationInv, VerificationTypes, VerificationCall
  <2>2. CASE owner' = owner
    BY <1>1, <2>1, <2>2
  <2>3. CASE owner' = Append(owner, c.email)
    BY <1>1, <2>1, <2>3
  <2>4. QED
    BY <1>2, <2>2, <2>3
<1>4. \A j \in 1..n : verificationCalls[j] \in VerificationCall
  BY <1>1 DEF VerificationInv, VerificationTypes
<1>5. [c EXCEPT !.answer = a, !.granted = g] \in VerificationCall
  BY <1>2 DEF VerificationCall
<1>6. /\ verificationCalls' \in Seq(VerificationCall) /\ Len(verificationCalls') = n
      /\ verificationCalls'[i] = [c EXCEPT !.answer = a, !.granted = g]
      /\ \A j \in 1..n : j # i => verificationCalls'[j] = verificationCalls[j]
  BY <1>1, <1>a, <1>5 DEF VerificationInv, VerificationTypes
<1>7. \A j \in 1..n : AnswerOK(verificationCalls[j]) /\ AwaitedOK(verificationCalls[j])
  BY <1>1 DEF VerificationInv
<1>8. AnswerOK(verificationCalls[i])'
  <2>1. AnswerOK(c)
    BY <1>1, <1>7
  <2>2. c.intent \in 1..Len(owner') \cup {None} /\ (c.kind = "verify" => c.intent # None)
    BY <1>1, <1>3, <2>1 DEF AnswerOK, Verify!Intents
  <2>3. QED
    BY <1>1, <1>2, <1>6, <2>2 DEF AnswerOK, Verify!Intents, VerificationCall
<1>9. \A j \in 1..n : j # i => AnswerOK(verificationCalls[j])'
  BY <1>1, <1>3, <1>6, <1>7 DEF AnswerOK, Verify!Intents
<1>10. UNCHANGED <<email, step, enabled, intent, verified, verificationToken, expired, cooling, busy, verificationSequence>>
  BY DEF Verify!serve, Verify!verification
<1>11. \A j \in 1..n : AwaitedOK(verificationCalls[j])' /\ (Awaited(verificationCalls[j])' <=> Awaited(verificationCalls[j]))
  <2>1. /\ verificationCalls'[i].heard = c.heard /\ verificationCalls'[i].sequence = c.sequence
        /\ verificationCalls'[i].kind = c.kind /\ verificationCalls'[i].intent = c.intent
    BY <1>6 DEF VerificationCall
  <2>2. AwaitedOK(verificationCalls[i])' /\ (Awaited(verificationCalls[i])' <=> Awaited(verificationCalls[i]))
    BY <1>1, <1>7, <1>10, <2>1 DEF AwaitedOK, Awaited
  <2>3. ASSUME NEW j \in 1..n, j # i
        PROVE  AwaitedOK(verificationCalls[j])' /\ (Awaited(verificationCalls[j])' <=> Awaited(verificationCalls[j]))
    BY <1>6, <1>7, <1>10, <2>3 DEF AwaitedOK, Awaited
  <2>4. QED
    BY <2>2, <2>3
<1>12. OneAwaited'
  BY <1>1, <1>6, <1>10, <1>11 DEF VerificationInv, OneAwaited
<1>13. VerificationTypes'
  BY <1>1, <1>3, <1>6, <1>10 DEF VerificationInv, VerificationTypes, Verify!Intents
<1>14. (Verify!TokenFits /\ Verify!IntentFits /\ Verify!ReviewVerified)'
  BY <1>1, <1>3, <1>10 DEF VerificationInv, VerificationTypes, Verify!Intents, Verify!TokenFits, Verify!IntentFits, Verify!ReviewVerified, Verify!Verified
<1>15. QED
  BY <1>6, <1>8, <1>9, <1>11, <1>12, <1>13, <1>14 DEF VerificationInv

\* An answer that counts ends the waiting; another one changes nothing.
LEMMA VerificationAnswered ==
    ASSUME VerificationInv, NEW i \in DOMAIN verificationCalls, Verify!answered(i)
    PROVE  VerificationInv'
<1>1. PICK n \in Nat, m \in Nat, c \in VerificationCall :
          n = Len(verificationCalls) /\ m = Len(owner) /\ c = verificationCalls[i] /\ i \in 1..n
  BY DEF VerificationInv, VerificationTypes
<1>2. /\ ~c.heard /\ verificationCalls' = [verificationCalls EXCEPT ![i].heard = TRUE]
      /\ owner' = owner /\ email' = email /\ enabled' = enabled
  BY <1>1 DEF Verify!answered, Verify!Hears, Verify!ignored, Verify!codeSent, Verify!codeVerified, Verify!callFails
<1>3. [c EXCEPT !.heard = TRUE] \in VerificationCall
  BY DEF VerificationCall
<1>4. \A j \in 1..n : verificationCalls[j] \in VerificationCall
  BY <1>1 DEF VerificationInv, VerificationTypes
<1>5. /\ verificationCalls' \in Seq(VerificationCall) /\ Len(verificationCalls') = n
      /\ verificationCalls'[i] = [c EXCEPT !.heard = TRUE]
      /\ \A j \in 1..n : j # i => verificationCalls'[j] = verificationCalls[j]
  BY <1>1, <1>2, <1>3 DEF VerificationInv, VerificationTypes
<1>6. \A j \in 1..n : AnswerOK(verificationCalls[j]) /\ AwaitedOK(verificationCalls[j])
  BY <1>1 DEF VerificationInv
<1>7. \A j \in 1..n : AnswerOK(verificationCalls[j])'
  BY <1>1, <1>2, <1>4, <1>5, <1>6 DEF AnswerOK, Verify!Intents, VerificationCall
<1>8. verificationCalls'[i].heard = TRUE
  BY <1>5 DEF VerificationCall
<1>9. CASE Verify!ignored(i)
  <2>1. UNCHANGED <<step, intent, verified, verificationToken, expired, cooling, busy, verificationSequence>> /\ ~Awaited(c)
    BY <1>1, <1>9 DEF Verify!ignored, Verify!verification, Verify!Stale, Awaited
  <2>2. \A j \in 1..n : AwaitedOK(verificationCalls[j])' /\ (Awaited(verificationCalls[j])' <=> Awaited(verificationCalls[j]))
    BY <1>1, <1>5, <1>6, <1>8, <2>1 DEF AwaitedOK, Awaited
  <2>3. OneAwaited'
    BY <1>1, <1>5, <2>1, <2>2 DEF VerificationInv, OneAwaited
  <2>4. VerificationTypes' /\ (Verify!TokenFits /\ Verify!IntentFits /\ Verify!ReviewVerified)'
    BY <1>2, <1>5, <2>1 DEF VerificationInv, VerificationTypes, Verify!Intents, Verify!TokenFits, Verify!IntentFits, Verify!ReviewVerified, Verify!Verified
  <2>5. QED
    BY <1>5, <1>7, <2>2, <2>3, <2>4 DEF VerificationInv
<1>10. CASE ~Verify!ignored(i)
  <2>1. Awaited(c) /\ busy' = "idle"
    BY <1>1, <1>2, <1>10 DEF Verify!answered, Verify!codeSent, Verify!codeVerified, Verify!callFails, Verify!Stale, Awaited,
       Verify!resetEmailVerification
  <2>2. \A j \in 1..n : j # i => ~Awaited(verificationCalls[j])
    BY <1>1, <2>1 DEF VerificationInv, OneAwaited
  <2>3. verificationSequence \in Nat /\ verificationSequence' \in {verificationSequence, verificationSequence + 1}
    BY <1>10 DEF Verify!answered, Verify!codeSent, Verify!codeVerified, Verify!callFails, Verify!resetEmailVerification,
       VerificationInv, VerificationTypes
  <2>4. \A j \in 1..n : AwaitedOK(verificationCalls[j])' /\ ~Awaited(verificationCalls[j])'
    <3>1. \A j \in 1..n : verificationCalls[j].sequence \in Nat
      BY <1>4 DEF VerificationCall
    <3>2. \A j \in 1..n : ~Awaited(verificationCalls[j])'
      <4>1. ASSUME NEW j \in 1..n, j # i PROVE ~Awaited(verificationCalls[j])'
        <5>1. verificationCalls'[j] = verificationCalls[j] /\ AwaitedOK(verificationCalls[j]) /\ ~Awaited(verificationCalls[j])
              /\ verificationCalls[j].sequence \in Nat
          BY <1>5, <1>6, <2>2, <3>1, <4>1
        <5>2. QED
          BY <2>3, <5>1 DEF AwaitedOK, Awaited
      <4>2. ~Awaited(verificationCalls[i])'
        BY <1>8 DEF Awaited
      <4>3. QED
        BY <4>1, <4>2
    <3>3. verificationCalls'[i].sequence = c.sequence /\ c.sequence <= verificationSequence
      BY <1>1, <1>5, <1>6, <2>1 DEF AwaitedOK, Awaited, VerificationCall
    <3>4. \A j \in 1..n : ~verificationCalls'[j].heard => verificationCalls'[j].sequence <= verificationSequence'
      <4>1. ASSUME NEW j \in 1..n, j # i, ~verificationCalls'[j].heard
            PROVE  verificationCalls'[j].sequence <= verificationSequence'
        <5>1. verificationCalls'[j] = verificationCalls[j] /\ AwaitedOK(verificationCalls[j]) /\ verificationCalls[j].sequence \in Nat
          BY <1>5, <1>6, <3>1, <4>1
        <5>2. QED
          BY <2>3, <4>1, <5>1 DEF AwaitedOK
      <4>2. QED
        BY <1>8, <4>1
    <3>5. QED
      BY <3>2, <3>4 DEF AwaitedOK
  <2>5. OneAwaited'
    BY <1>5, <2>1, <2>4 DEF OneAwaited
  <2>6. step # 3 /\ AnswerOK(c) /\ c.email \in Emails /\ (c.kind = "verify" => c.intent = intent)
    BY <1>1, <1>6, <2>1 DEF AwaitedOK, VerificationCall
  <2>7. VerificationTypes' /\ (Verify!TokenFits /\ Verify!IntentFits /\ Verify!ReviewVerified)'
    <3>1. /\ VerificationTypes /\ Verify!TokenFits /\ Verify!IntentFits
          /\ owner' = owner /\ Len(owner) = m
          /\ owner' \in Seq(Emails) /\ verificationCalls' \in Seq(VerificationCall)
          /\ verificationSequence' \in Nat /\ busy' \in {"idle", "requesting", "verifying"}
          /\ email' = email /\ enabled' \in {"unknown", "yes", "no", "failed"}
      BY <1>1, <1>2, <1>5, <2>1, <2>3 DEF VerificationInv, VerificationTypes
    <3>2. CASE Verify!codeSent(i) /\ email = c.email
      <4>1. /\ intent' = c.granted /\ verified' = email /\ verificationToken' = None
            /\ step' = step /\ c.answer = "ok"
        BY <1>1, <3>2 DEF Verify!codeSent
      <4>2. expired' \in BOOLEAN /\ cooling' \in BOOLEAN
        BY <1>1, <3>2, Zenon DEF Verify!codeSent
      <4>3. c.granted \in 1..m /\ owner[c.granted] = email
        BY <2>6, <3>1, <3>2, <4>1 DEF AnswerOK, Verify!Intents
      <4>4. None \notin Nat /\ None \notin Emails
        BY PartsAssumption DEF Verify!EmailsAssumption
      <4>5. VerificationTypes'
        BY <3>1, <4>1, <4>2, <4>3, <4>4 DEF VerificationTypes, Verify!Intents
      <4>6. QED
        BY <2>6, <3>1, <4>1, <4>3, <4>5 DEF Verify!TokenFits, Verify!IntentFits, Verify!ReviewVerified
    <3>3. CASE Verify!codeVerified(i) /\ email = c.email
      <4>1. /\ intent' = intent /\ verified' = email /\ verificationToken' = c.granted
            /\ step' = 3 /\ c.answer = "ok" /\ c.kind = "verify" /\ cooling' = cooling
        BY <1>1, <3>3 DEF Verify!codeVerified
      <4>2. expired' = FALSE
        BY <1>1, <3>3 DEF Verify!codeVerified
      <4>3. c.granted \in 1..m /\ owner[c.granted] = email /\ c.granted = intent
        BY <2>6, <3>1, <3>3, <4>1 DEF AnswerOK, Verify!Intents
      <4>4. None \notin Nat /\ None \notin Emails
        BY PartsAssumption DEF Verify!EmailsAssumption
      <4>5. VerificationTypes'
        <5>a. expired' \in BOOLEAN
          BY <4>2, Zenon
        <5>b. cooling' \in BOOLEAN
          BY <3>1, <4>1, Zenon DEF VerificationTypes
        <5>c. intent # None /\ step' \in 1..3
          BY <3>1, <4>1, <4>3, <4>4
        <5>1. intent # None /\ expired' \in BOOLEAN /\ cooling' \in BOOLEAN /\ step' \in 1..3
          BY <5>a, <5>b, <5>c
        <5>2. intent' \in 1..Len(owner') \cup {None} /\ verificationToken' \in 1..Len(owner') \cup {None} /\ verified' \in Emails
          BY <3>1, <4>1, <4>3 DEF VerificationTypes, Verify!Intents
        <5>3. intent' # None /\ verified' # None
          BY <4>1, <4>4, <5>1, <5>2
        <5>4. QED
          BY <3>1, <5>1, <5>2, <5>3 DEF VerificationTypes, Verify!Intents
      <4>6. QED
        BY <3>1, <4>1, <4>2, <4>3, <4>4, <4>5 DEF Verify!TokenFits, Verify!IntentFits, Verify!ReviewVerified, Verify!Verified
    <3>4. CASE (Verify!codeSent(i) \/ Verify!codeVerified(i)) /\ email # c.email
      <4>1. UNCHANGED <<intent, verified, verificationToken, expired, cooling, step>>
        BY <1>1, <3>4 DEF Verify!codeSent, Verify!codeVerified, Verify!verification
      <4>2. VerificationTypes'
        BY <3>1, <4>1 DEF VerificationTypes, Verify!Intents
      <4>3. QED
        BY <2>6, <3>1, <4>1, <4>2 DEF Verify!TokenFits, Verify!IntentFits, Verify!ReviewVerified
    <3>5. CASE Verify!callFails(i) /\ c.answer = "over"
      <4>1. /\ Verify!resetEmailVerification /\ step' = Verify!Effect(step, FALSE, enabled) /\ UNCHANGED <<owner, email, enabled>>
        BY <1>1, <3>5 DEF Verify!callFails
      <4>2. step' = step
        BY <2>6, <4>1 DEF Verify!Effect
      <4>3. /\ intent' = None /\ verified' = None /\ verificationToken' = None
        BY <4>1 DEF Verify!resetEmailVerification
      <4>4. expired' \in BOOLEAN /\ cooling' \in BOOLEAN
        BY <4>1, Zenon DEF Verify!resetEmailVerification
      <4>5. VerificationTypes'
        BY <3>1, <4>2, <4>3, <4>4 DEF VerificationTypes
      <4>6. QED
        BY <2>6, <4>2, <4>3, <4>5 DEF Verify!TokenFits, Verify!IntentFits, Verify!ReviewVerified
    <3>6. CASE Verify!callFails(i) /\ c.answer # "over"
      <4>1. UNCHANGED <<intent, verified, verificationToken, expired, step>>
        BY <1>1, <3>6 DEF Verify!callFails
      <4>2. cooling' \in BOOLEAN
        <5>1. cooling' = (cooling \/ verificationCalls[i].answer = "wait")
          BY <1>1, <3>6 DEF Verify!callFails
        <5>2. QED
          BY <5>1, Zenon
      <4>3. VerificationTypes'
        BY <3>1, <4>1, <4>2 DEF VerificationTypes, Verify!Intents
      <4>4. QED
        BY <2>6, <3>1, <4>1, <4>3 DEF Verify!TokenFits, Verify!IntentFits, Verify!ReviewVerified
    <3>7. QED
      BY <1>10, <3>2, <3>3, <3>4, <3>5, <3>6 DEF Verify!answered
  <2>8. QED
    BY <1>5, <1>7, <2>4, <2>5, <2>7 DEF VerificationInv
<1>11. QED
  BY <1>9, <1>10

LEMMA VerificationNext ==
    ASSUME VerificationInv, [PartsNext]_partsVars
    PROVE  VerificationInv'
<1>1. CASE Verify!Next
  <2>1. CASE Verify!form
    BY <2>1, VerificationForm, VerificationReload DEF Verify!form
  <2>2. CASE Verify!render
    BY <2>2, VerificationForm
  <2>3. CASE Verify!verifyEmailCode
    <3>1. intent \in Verify!Intents
      BY <2>3 DEF Verify!verifyEmailCode, VerificationInv, VerificationTypes
    <3>2. QED
      BY <2>3, <3>1, CallMade DEF Verify!verifyEmailCode, Verify!verification
  <2>4. ASSUME NEW resend \in BOOLEAN, Verify!requestEmailCode(resend)
        PROVE  VerificationInv'
    <3>1. (IF resend /\ ~expired THEN intent ELSE None) \in Verify!Intents \cup {None}
      BY DEF VerificationInv, VerificationTypes
    <3>2. QED
      BY <2>4, <3>1, CallMade DEF Verify!requestEmailCode, Verify!verification
  <2>5. ASSUME NEW i \in DOMAIN verificationCalls, Verify!serve(i) \/ Verify!answered(i)
        PROVE  VerificationInv'
    BY <2>5, VerificationServe, VerificationAnswered
  <2>6. QED
    BY <1>1, <2>1, <2>2, <2>3, <2>4, <2>5 DEF Verify!Next
<1>2. CASE UNCHANGED verificationVars
  BY <1>2 DEF verificationVars, VerificationInv, VerificationTypes, AnswerOK, AwaitedOK, Awaited, OneAwaited, Verify!Intents,
     Verify!TokenFits, Verify!IntentFits, Verify!ReviewVerified, Verify!Verified
<1>3. QED
  BY <1>1, <1>2 DEF PartsNext, partsVars

\* A token and an intent on the page are of the address in its field, and the
\* review step is open only to a verified address, in whatever order codes are
\* asked for, answers come in and pages are reloaded (ReportFormPage.tsx).
THEOREM VerificationIsSound == PartsSpec => []VerificationSound
<1>1. PartsInit => VerificationInv
  BY VerificationInit DEF PartsInit
<1>2. VerificationInv /\ [PartsNext]_partsVars => VerificationInv'
  BY VerificationNext
<1>3. VerificationInv => VerificationSound
  BY DEF VerificationInv, VerificationTypes, VerificationSound, Verify!TypeOK, OneAwaited, Awaited
<1>4. QED
  BY <1>1, <1>2, <1>3, PTL DEF PartsSpec

-----------------------------------------------------------------------------
(* The automatic address.                                                  *)

Fetch == [point : AutofillPoints, phase : {"point", "suggest", "done"}, live : BOOLEAN]

AutofillTypes ==
    /\ target \in AutofillPoints \cup {Elsewhere} /\ locality \in Autofill!Sources /\ detail \in Autofill!Sources
    /\ source \in [Autofill!Field -> {"untouched", "auto", "user"}] /\ number \in AutofillPoints \cup {Blank}
    /\ attempted \subseteq AutofillPoints /\ DOMAIN cache \subseteq AutofillPoints
    /\ fetches \in Seq(Fetch) /\ answered \in [AutofillPoints -> Nat] /\ targets \in Nat /\ edits \in Nat

\* What is remembered of a point is its street or that it has none.
Remembered == \A p \in DOMAIN cache : cache[p] \in {p, Blank}

\* Only the last fetch may change the form, and it is for the target; a suggestion
\* is asked for only while nothing is remembered of the point.
LastFetch ==
    \A i \in 1..Len(fetches) :
        fetches[i].live =>
            /\ i = Len(fetches) /\ fetches[i].point = target
            /\ fetches[i].phase = "suggest" => fetches[i].point \notin DOMAIN cache

\* An answer is remembered, so that there is no second one.
AnswersRemembered ==
    \A p \in AutofillPoints : answered[p] <= 1 /\ (answered[p] = 1 => p \in DOMAIN cache)

AutofillInv ==
    /\ AutofillTypes
    /\ Remembered
    /\ LastFetch
    /\ AnswersRemembered
    /\ Autofill!RightTarget

\* The settings of the automatic address.
LEMMA AutofillSettings ==
    Elsewhere \notin AutofillPoints /\ Blank \notin AutofillPoints /\ "typed" \notin AutofillPoints
  BY PartsAssumption DEF Autofill!PointsAssumption

\* The fetches of a page that has just turned to t.
Begins(fs, t) ==
    /\ fs \in Seq(Fetch)
    /\ \A i \in 1..Len(fs) : fs[i].live => i = Len(fs) /\ fs[i].point = t /\ fs[i].phase = "point"

\* The effect of a target: one fetch for a point, none elsewhere.
LEMMA Beginning ==
    ASSUME NEW t \in AutofillPoints \cup {Elsewhere}, NEW fs \in Seq(Fetch),
           \A i \in 1..Len(fs) : ~fs[i].live
    PROVE  Begins(fs \o Autofill!Begun(t), t)
<1>1. CASE t \in AutofillPoints
  <2> DEFINE f == [point |-> t, phase |-> "point", live |-> TRUE]
  <2>1. f \in Fetch /\ f.live = TRUE /\ f.point = t /\ f.phase = "point"
    BY <1>1 DEF Fetch
  <2>2. Autofill!Begun(t) = <<f>>
    BY <1>1 DEF Autofill!Begun
  <2> HIDE DEF f
  <2>3. QED
    BY <2>1, <2>2 DEF Begins
<1>2. CASE t \notin AutofillPoints
  <2>1. Autofill!Begun(t) = <<>>
    BY <1>2 DEF Autofill!Begun
  <2>2. QED
    BY <2>1 DEF Begins
<1>3. QED
  BY <1>1, <1>2

LEMMA BeginsEmpty ==
    ASSUME NEW t \in AutofillPoints \cup {Elsewhere}
    PROVE  Begins(<<>> \o Autofill!Begun(t), t)
<1>1. PICK fs : fs = <<>>
  OBVIOUS
<1>2. fs \in Seq(Fetch) /\ Len(fs) = 0
  BY <1>1
<1>3. \A i \in 1..Len(fs) : ~fs[i].live
  BY <1>2
<1>4. QED
  BY <1>1, <1>2, <1>3, Beginning

LEMMA AutofillInit == Autofill!Init => AutofillInv
<1> SUFFICES ASSUME Autofill!Init PROVE AutofillInv
  OBVIOUS
<1>1. DOMAIN cache = {} /\ \A p \in AutofillPoints : answered[p] = 0
  BY DEF Autofill!Init
<1>2. fetches = <<>> \o Autofill!Begun(target)
  BY DEF Autofill!Init, Autofill!Begun
<1>3. fetches \in Seq(Fetch) /\ LastFetch
  <2>1. target \in AutofillPoints \cup {Elsewhere}
    BY DEF Autofill!Init
  <2>2. Begins(<<>> \o Autofill!Begun(target), target)
    BY <2>1, BeginsEmpty
  <2>3. QED
    BY <1>2, <2>2 DEF LastFetch, Begins
<1>4. AutofillTypes
  BY <1>1, <1>3 DEF Autofill!Init, AutofillTypes, Autofill!Sources
<1>5. QED
  BY <1>1, <1>3, <1>4, AutofillSettings
     DEF Autofill!Init, AutofillInv, Remembered, AnswersRemembered, Autofill!RightTarget

LEMMA AutofillTurns ==
    ASSUME AutofillInv, Autofill!changeTarget \/ Autofill!reload
    PROVE  AutofillInv'
<1> USE AutofillSettings
<1>1. CASE Autofill!changeTarget
  <2>1. PICK fs : fs = Autofill!Cancelled
    OBVIOUS
  <2>2. fs \in Seq(Fetch) /\ \A i \in 1..Len(fs) : ~fs[i].live
    <3>1. /\ DOMAIN fetches = 1..Len(fetches) /\ Len(fetches) \in Nat
          /\ \A i \in 1..Len(fetches) : fetches[i] \in Fetch
      BY DEF AutofillInv, AutofillTypes
    <3>2. \A i \in 1..Len(fetches) : [fetches[i] EXCEPT !.live = FALSE] \in Fetch /\ ~[fetches[i] EXCEPT !.live = FALSE].live
      BY <3>1 DEF Fetch
    <3>3. /\ fs \in [1..Len(fetches) -> Fetch]
          /\ \A i \in 1..Len(fetches) : ~fs[i].live
      BY <2>1, <3>1, <3>2 DEF Autofill!Cancelled
    <3>4. fs \in Seq(Fetch) /\ Len(fs) = Len(fetches)
      BY <3>1, <3>3
    <3>5. QED
      BY <3>3, <3>4
  <2>3. fetches' = fs \o Autofill!Begun(target') /\ target' \in AutofillPoints \cup {Elsewhere} /\ cache' = cache
    BY <1>1, <2>1 DEF Autofill!changeTarget
  <2>4. fetches' \in Seq(Fetch) /\ LastFetch'
    <3>1. Begins(fs \o Autofill!Begun(target'), target')
      BY <2>2, <2>3, Beginning
    <3>2. Begins(fetches', target')
      BY <2>3, <3>1
    <3>3. QED
      BY <3>2 DEF LastFetch, Begins
  <2>5. AutofillTypes'
    BY <1>1, <2>3, <2>4 DEF Autofill!changeTarget, AutofillInv, AutofillTypes, Autofill!Sources, Autofill!Field
  <2>6. Autofill!RightTarget'
    BY <1>1 DEF Autofill!changeTarget, AutofillInv, AutofillTypes, Autofill!RightTarget
  <2>7. QED
    BY <1>1, <2>4, <2>5, <2>6 DEF Autofill!changeTarget, AutofillInv, Remembered, AnswersRemembered
<1>2. CASE Autofill!reload
  <2>1. DOMAIN cache' = {} /\ \A p \in AutofillPoints : answered'[p] = 0
    BY <1>2 DEF Autofill!reload
  <2>2. fetches' = <<>> \o Autofill!Begun(target)
    BY <1>2 DEF Autofill!reload, Autofill!Begun
  <2>3. fetches' \in Seq(Fetch) /\ LastFetch'
    <3>1. target \in AutofillPoints \cup {Elsewhere} /\ target' = target
      BY <1>2 DEF AutofillInv, AutofillTypes, Autofill!reload
    <3>2. Begins(<<>> \o Autofill!Begun(target), target)
      BY <3>1, BeginsEmpty
    <3>3. Begins(fetches', target')
      BY <2>2, <3>1, <3>2
    <3>4. QED
      BY <3>3 DEF LastFetch, Begins
  <2>4. AutofillTypes'
    BY <1>2, <2>1, <2>3 DEF Autofill!reload, AutofillInv, AutofillTypes, Autofill!Sources, Autofill!Field
  <2>5. QED
    BY <1>2, <2>1, <2>3, <2>4
       DEF Autofill!reload, AutofillInv, Remembered, AnswersRemembered, Autofill!RightTarget
<1>3. QED
  BY <1>1, <1>2

\* A fetch enters another phase; the others are as they were.
LEMMA PhaseChanges ==
    ASSUME AutofillInv, NEW i \in DOMAIN fetches, NEW ph \in {"point", "suggest", "done"},
           fetches' = [fetches EXCEPT ![i].phase = ph]
    PROVE  /\ fetches' \in Seq(Fetch) /\ Len(fetches') = Len(fetches)
           /\ i \in 1..Len(fetches) /\ fetches[i] \in Fetch
           /\ \A j \in 1..Len(fetches) :
                 /\ fetches'[j].live = fetches[j].live /\ fetches'[j].point = fetches[j].point
                 /\ fetches'[j].phase = IF j = i THEN ph ELSE fetches[j].phase
<1>1. /\ DOMAIN fetches = 1..Len(fetches) /\ Len(fetches) \in Nat
      /\ \A j \in 1..Len(fetches) : fetches[j] \in Fetch
  BY DEF AutofillInv, AutofillTypes
<1>2. fetches' \in [1..Len(fetches) -> Fetch]
  BY <1>1 DEF Fetch
<1>3. fetches' \in Seq(Fetch) /\ Len(fetches') = Len(fetches)
  BY <1>1, <1>2
<1>4. QED
  BY <1>1, <1>3 DEF Fetch

\* An address arrives for the fetch that counts.
LEMMA Resolves ==
    ASSUME AutofillInv, NEW i \in DOMAIN fetches, fetches[i].live, NEW street \in {fetches[i].point, Blank},
           Autofill!resolve(i, street), UNCHANGED <<target, targets, edits>>, attempted' \subseteq AutofillPoints,
           answered' \in [AutofillPoints -> Nat],
           \A p \in AutofillPoints :
               answered'[p] = answered[p] \/ (p = fetches[i].point /\ p \notin DOMAIN cache /\ answered'[p] = answered[p] + 1)
    PROVE  AutofillInv'
<1>1. PICK p : p = fetches[i].point
  OBVIOUS
<1>2. p \in AutofillPoints /\ p = target /\ i = Len(fetches)
  <2>1. i \in 1..Len(fetches) /\ fetches[i] \in Fetch
    BY DEF AutofillInv, AutofillTypes
  <2>2. QED
    BY <1>1, <2>1 DEF AutofillInv, LastFetch, Fetch
<1>3. /\ DOMAIN cache' = DOMAIN cache \cup {p}
      /\ \A q \in DOMAIN cache' : cache'[q] = IF q = p THEN street ELSE cache[q]
  BY <1>1 DEF Autofill!resolve, Autofill!Cached
<1>4. fetches' = [fetches EXCEPT ![i].phase = "done"]
  BY DEF Autofill!resolve, Autofill!Finish
<1>5. fetches' \in Seq(Fetch) /\ LastFetch'
  <2>1. /\ fetches' \in Seq(Fetch) /\ Len(fetches') = Len(fetches) /\ Len(fetches) \in Nat
        /\ \A j \in 1..Len(fetches) :
              /\ fetches'[j].live = fetches[j].live /\ fetches'[j].point = fetches[j].point
              /\ fetches'[j].phase = IF j = i THEN "done" ELSE fetches[j].phase
    <3>1. Len(fetches) \in Nat
      BY DEF AutofillInv, AutofillTypes
    <3>2. QED
      BY <1>4, <3>1, PhaseChanges, Zenon
  <2>2. QED
    BY <1>2, <2>1 DEF AutofillInv, LastFetch
<1>6. /\ locality' \in {locality, street} /\ detail' \in {detail, p, Blank} /\ number' \in {p, Blank}
      /\ source' \in [Autofill!Field -> {"untouched", "auto", "user"}]
  BY <1>1 DEF AutofillInv, AutofillTypes, Autofill!Field, Autofill!resolve, Autofill!Detail, Autofill!canAutofill
<1>7. AutofillTypes'
  BY <1>2, <1>1, <1>3, <1>5, <1>6 DEF AutofillInv, AutofillTypes, Autofill!Sources
<1>8. Remembered'
  BY <1>1, <1>3 DEF AutofillInv, Remembered
<1>9. AnswersRemembered'
  BY <1>1, <1>2, <1>3 DEF AutofillInv, AutofillTypes, AnswersRemembered
<1>10. Autofill!RightTarget'
  BY <1>1, <1>2, <1>6, AutofillSettings DEF AutofillInv, Autofill!RightTarget
<1>11. QED
  BY <1>5, <1>7, <1>8, <1>9, <1>10 DEF AutofillInv

\* The fetch that counts, and one that comes too late, go on.
LEMMA AutofillAnswers ==
    ASSUME AutofillInv, NEW i \in DOMAIN fetches, Autofill!answers(i)
    PROVE  AutofillInv'
<1>0. i \in 1..Len(fetches) /\ fetches[i] \in Fetch /\ Len(fetches) \in Nat
  BY DEF AutofillInv, AutofillTypes
<1>t. UNCHANGED <<target, targets, edits>>
  BY DEF Autofill!answers, Autofill!getLightPoint, Autofill!suggestReportAddress, Autofill!fetchFails, Autofill!late,
     Autofill!bounds
<1>1. ASSUME NEW street \in {fetches[i].point, Blank}, Autofill!resolve(i, street), fetches[i].live,
             UNCHANGED <<attempted, answered>>
      PROVE  AutofillInv'
  <2>1. answered' \in [AutofillPoints -> Nat] /\ attempted' \subseteq AutofillPoints
        /\ \A p \in AutofillPoints : answered'[p] = answered[p]
    BY <1>1 DEF AutofillInv, AutofillTypes
  <2>2. QED
    BY <1>1, <1>t, <2>1, Resolves
<1>2. ASSUME UNCHANGED <<number, cache, answered>>, attempted' \subseteq AutofillPoints,
             NEW ph \in {"suggest", "done"}, fetches' = [fetches EXCEPT ![i].phase = ph],
             ph = "suggest" => fetches[i].point \notin DOMAIN cache,
             locality' \in {locality, Blank}, detail' = detail, source' = source
      PROVE  AutofillInv'
  <2>1. /\ fetches' \in Seq(Fetch) /\ Len(fetches') = Len(fetches)
        /\ \A j \in 1..Len(fetches) :
              /\ fetches'[j].live = fetches[j].live /\ fetches'[j].point = fetches[j].point
              /\ fetches'[j].phase = IF j = i THEN ph ELSE fetches[j].phase
    <3>1. ph \in {"point", "suggest", "done"}
      BY <1>2
    <3>2. QED
      BY <1>2, <3>1, PhaseChanges, Zenon
  <2>2. LastFetch'
    BY <1>0, <1>2, <1>t, <2>1 DEF AutofillInv, LastFetch
  <2>3. AutofillTypes'
    BY <1>2, <1>t, <2>1 DEF AutofillInv, AutofillTypes, Autofill!Sources
  <2>4. QED
    BY <1>2, <1>t, <2>2, <2>3, AutofillSettings
       DEF AutofillInv, Remembered, AnswersRemembered, Autofill!RightTarget
<1>3. CASE Autofill!getLightPoint(i)
  <2>1. fetches[i].live
    BY <1>3 DEF Autofill!getLightPoint, Autofill!Live
  <2>2. ASSUME NEW street \in Autofill!Localities(fetches[i].point), Autofill!resolve(i, street), UNCHANGED <<attempted, answered>>
        PROVE  AutofillInv'
    BY <1>1, <2>1, <2>2 DEF Autofill!Localities
  <2>3. ASSUME fetches[i].point \in DOMAIN cache, Autofill!resolve(i, cache[fetches[i].point]), UNCHANGED <<attempted, answered>>
        PROVE  AutofillInv'
    <3>1. cache[fetches[i].point] \in {fetches[i].point, Blank}
      BY <2>3 DEF AutofillInv, Remembered
    <3>2. QED
      BY <1>1, <2>1, <2>3, <3>1
  <2>4. ASSUME fetches[i].point \notin DOMAIN cache, Autofill!resolve(i, Blank), UNCHANGED <<attempted, answered>>
        PROVE  AutofillInv'
    BY <1>1, <2>1, <2>4
  <2>5. ASSUME fetches[i].point \notin DOMAIN cache, attempted' = attempted \cup {fetches[i].point},
               fetches' = [fetches EXCEPT ![i].phase = "suggest"], UNCHANGED <<Autofill!fields, loading, number, cache, answered>>
        PROVE  AutofillInv'
    <3>1. attempted' \subseteq AutofillPoints
      BY <1>0, <2>5 DEF AutofillInv, AutofillTypes, Fetch
    <3>2. QED
      BY <1>2, <2>5, <3>1 DEF Autofill!fields
  <2>6. QED
    BY <1>3, <2>2, <2>3, <2>4, <2>5, Zenon DEF Autofill!getLightPoint
<1>4. CASE Autofill!suggestReportAddress(i)
  <2>1. PICK street \in {fetches[i].point, Blank} : Autofill!resolve(i, street)
    BY <1>4 DEF Autofill!suggestReportAddress, Autofill!Localities
  <2>2. /\ fetches[i].live /\ fetches[i].phase = "suggest" /\ attempted' = attempted
        /\ answered' = [answered EXCEPT ![fetches[i].point] = @ + 1]
    BY <1>4 DEF Autofill!suggestReportAddress, Autofill!Live
  <2>3. fetches[i].point \in AutofillPoints /\ fetches[i].point \notin DOMAIN cache
    BY <1>0, <2>2 DEF AutofillInv, LastFetch, Fetch
  <2>4. /\ answered' \in [AutofillPoints -> Nat] /\ attempted' \subseteq AutofillPoints
        /\ \A p \in AutofillPoints : answered'[p] = IF p = fetches[i].point THEN answered[p] + 1 ELSE answered[p]
    BY <2>2, <2>3 DEF AutofillInv, AutofillTypes
  <2>5. QED
    BY <1>t, <2>1, <2>2, <2>3, <2>4, Resolves
<1>5. CASE Autofill!fetchFails(i)
  BY <1>2, <1>5 DEF Autofill!fetchFails, Autofill!Finish, AutofillInv, AutofillTypes
<1>6. CASE Autofill!late(i)
  <2>1. attempted' \subseteq AutofillPoints
    BY <1>6 DEF Autofill!late, AutofillInv, AutofillTypes
  <2>2. QED
    BY <1>2, <1>6, <2>1 DEF Autofill!late, Autofill!Finish, Autofill!fields
<1>7. QED
  BY <1>3, <1>4, <1>5, <1>6 DEF Autofill!answers

\* What the user writes, and the number in another language.
LEMMA AutofillWrites ==
    ASSUME AutofillInv, Autofill!editLocality \/ Autofill!editDetail \/ Autofill!switchLocale
    PROVE  AutofillInv'
<1>1. UNCHANGED <<target, number, cache, attempted, fetches, answered, targets>>
  BY DEF Autofill!editLocality, Autofill!editDetail, Autofill!switchLocale
<1>2. edits' \in Nat
  <2>1. edits \in Nat
    BY DEF AutofillInv, AutofillTypes
  <2>2. edits' = edits \/ edits' = edits + 1
    BY Zenon DEF Autofill!editLocality, Autofill!editDetail, Autofill!switchLocale, Autofill!Edit
  <2>3. QED
    BY <2>1, <2>2
<1>3. /\ locality' \in {locality, "typed", Blank}
      /\ detail' \in {detail, "typed", Blank} \/ (target \in AutofillPoints /\ detail' = target)
      /\ source' \in [Autofill!Field -> {"untouched", "auto", "user"}]
  BY DEF Autofill!editLocality, Autofill!editDetail, Autofill!switchLocale, Autofill!Edit, Autofill!markUser,
     Autofill!Detail, Autofill!canAutofill, Autofill!Field, AutofillInv, AutofillTypes
<1>4. AutofillTypes'
  BY <1>1, <1>2, <1>3 DEF AutofillInv, AutofillTypes, Autofill!Sources
<1>5. QED
  BY <1>1, <1>3, <1>4, AutofillSettings
     DEF AutofillInv, Remembered, LastFetch, AnswersRemembered, Autofill!RightTarget

LEMMA AutofillNext == AutofillInv /\ [PartsNext]_partsVars => AutofillInv'
<1> SUFFICES ASSUME AutofillInv, [PartsNext]_partsVars PROVE AutofillInv'
  OBVIOUS
<1>1. CASE Autofill!Next
  BY <1>1, AutofillTurns, AutofillAnswers, AutofillWrites DEF Autofill!Next
<1>2. CASE UNCHANGED autofillVars
  BY <1>2 DEF autofillVars, AutofillInv, AutofillTypes, Remembered, LastFetch, AnswersRemembered, Autofill!RightTarget
<1>3. QED
  BY <1>1, <1>2, Zenon DEF PartsNext, partsVars

\* Autofill counts with its own instance of the same definition.
LEMMA AutofillCounts ==
    ASSUME NEW S
    PROVE  Autofill!Cardinality(S) = Cardinality(S)
  BY DEF Autofill!Cardinality, Cardinality

\* For any points, turns to other targets, edits and reloads: the form shows the
\* street and number of no point but its target, the suggestion service answers once
\* per point in the life of a page, and what the user wrote or emptied is kept
\* (ReportFormPage.tsx, autofillPrecedence.ts).
THEOREM AutofillIsSound == PartsSpec => AutofillSound
<1>1. PartsInit => AutofillInv
  BY AutofillInit DEF PartsInit
<1>2. AutofillInv => (part = "autofill" =>
             /\ Autofill!TypeOK
             /\ Autofill!RightTarget
             /\ Autofill!AskedOnce)
  <2> SUFFICES ASSUME AutofillInv PROVE Autofill!TypeOK /\ Autofill!RightTarget /\ Autofill!AskedOnce
    OBVIOUS
  <2> DEFINE L == {i \in DOMAIN fetches : fetches[i].live /\ fetches[i].phase # "done"}
  <2>1. L \subseteq {Len(fetches)}
    BY DEF AutofillInv, AutofillTypes, LastFetch
  <2>2. Cardinality(L) <= 1
    <3> HIDE DEF L
    <3>1. L = {} \/ L = {Len(fetches)}
      BY <2>1
    <3>2. CASE L = {}
      BY <3>2, FS_EmptySet
    <3>3. CASE L = {Len(fetches)}
      <4>1. Cardinality(L) = 1
        BY <3>3, FS_Singleton, Zenon
      <4>2. QED
        BY <4>1
    <3>4. QED
      BY <3>1, <3>2, <3>3
  <2>3. Autofill!Cardinality(L) <= 1
    BY <2>2, AutofillCounts
  <2>4. Autofill!AskedOnce
    BY DEF AutofillInv, AnswersRemembered, Autofill!AskedOnce
  <2> HIDE DEF L
  <2>5. Autofill!TypeOK
    BY <2>3 DEF L, Autofill!TypeOK, AutofillInv, AutofillTypes
  <2>6. QED
    BY <2>4, <2>5 DEF AutofillInv
<1>3. AutofillInv /\ [PartsNext]_partsVars =>
        [ edits' = edits /\ targets' = targets =>
            /\ source["locality"] = "user" => locality' = locality /\ source'["locality"] = "user"
            /\ source["detailDescription"] = "user" => detail' = detail /\ source'["detailDescription"] = "user" ]_Autofill!vars
  <2> SUFFICES ASSUME AutofillInv, [PartsNext]_partsVars, edits' = edits, targets' = targets
               PROVE  /\ source["locality"] = "user" => locality' = locality /\ source'["locality"] = "user"
                      /\ source["detailDescription"] = "user" => detail' = detail /\ source'["detailDescription"] = "user"
    OBVIOUS
  <2>0. source \in [Autofill!Field -> {"untouched", "auto", "user"}] /\ Autofill!Field = {"locality", "detailDescription"}
    BY DEF AutofillInv, AutofillTypes, Autofill!Field
  <2>1. ~Autofill!changeTarget /\ ~Autofill!editLocality /\ ~Autofill!editDetail
    BY DEF Autofill!changeTarget, Autofill!editLocality, Autofill!editDetail, Autofill!Edit, AutofillInv, AutofillTypes
  <2>2. CASE Autofill!reload
    BY <2>0, <2>2 DEF Autofill!reload
  <2>3. CASE Autofill!switchLocale
    BY <2>0, <2>3 DEF Autofill!switchLocale, Autofill!Detail, Autofill!canAutofill
  <2>4. ASSUME NEW i, NEW street, Autofill!resolve(i, street)
        PROVE  /\ source["locality"] = "user" => locality' = locality /\ source'["locality"] = "user"
               /\ source["detailDescription"] = "user" => detail' = detail /\ source'["detailDescription"] = "user"
    BY <2>0, <2>4 DEF Autofill!resolve, Autofill!Detail, Autofill!canAutofill
  <2>5. ASSUME NEW i \in DOMAIN fetches, Autofill!answers(i)
        PROVE  /\ source["locality"] = "user" => locality' = locality /\ source'["locality"] = "user"
               /\ source["detailDescription"] = "user" => detail' = detail /\ source'["detailDescription"] = "user"
    <3>1. CASE Autofill!getLightPoint(i)
      <4>1. (\E street : Autofill!resolve(i, street)) \/ UNCHANGED Autofill!fields
        BY <3>1, Zenon DEF Autofill!getLightPoint
      <4>2. QED
        BY <2>4, <4>1 DEF Autofill!fields
    <3>2. CASE Autofill!suggestReportAddress(i)
      BY <2>4, <3>2 DEF Autofill!suggestReportAddress
    <3>3. CASE Autofill!fetchFails(i)
      BY <3>3 DEF Autofill!fetchFails
    <3>4. CASE Autofill!late(i)
      BY <3>4 DEF Autofill!late, Autofill!fields
    <3>5. QED
      BY <2>5, <3>1, <3>2, <3>3, <3>4 DEF Autofill!answers
  <2>6. CASE UNCHANGED autofillVars
    BY <2>6 DEF autofillVars
  <2>7. CASE Autofill!Next
    BY <2>1, <2>2, <2>3, <2>5, <2>7 DEF Autofill!Next
  <2>8. QED
    BY <2>6, <2>7, Zenon DEF PartsNext, partsVars
<1>4. PartsSpec => []AutofillInv
  BY <1>1, AutofillNext, PTL DEF PartsSpec
<1>5. PartsSpec => Autofill!UserKept
  BY <1>3, <1>4, PTL DEF PartsSpec, Autofill!UserKept
<1>6. QED
  BY <1>2, <1>4, <1>5, PTL DEF AutofillSound

-----------------------------------------------------------------------------
(* The map.                                                                *)

Validation == [target : Map!Targets, answer : {None, "valid", "outside", "failed"}, heard : BOOLEAN]

\* A validation under way is the one of the last choice, nothing else is on the
\* screen meanwhile, and a hidden question is there to be resumed.
MapChoice ==
    /\ page \in {"map", "report"} /\ candidate \in Map!Targets \cup {Manual, None}
    /\ hidden \in BOOLEAN /\ validating \in BOOLEAN
    /\ selection \in Places \cup {None} /\ error \in {"outside", "unavailable", None}
    /\ requests \in Seq(Validation) /\ current \in 0..Len(requests)
    /\ validating /\ page = "map" => current # 0 /\ error = None /\ candidate = None
    /\ current # 0 => requests[current].target = chosen
    /\ hidden => candidate # None
    /\ Map!LastChoice /\ Map!Checked /\ Map!MarkerMatches

\* A recentring that is wanted was asked for, unless the device has failed since.
MapDevice ==
    /\ geo \in [status : Map!Failed \cup {"requesting", "available"}, position : Positions \cup {None}]
    /\ (geo.position # None) = (geo.status = "available")
    /\ view \in Positions \cup {"city", "panned"} /\ wanted \in BOOLEAN /\ asked \in BOOLEAN
    /\ wanted => asked \/ geo.status \in Map!Failed

MapInv == MapChoice /\ MapDevice /\ popup \in MapPoints \cup {None}

choiceVars == <<page, candidate, hidden, selection, validating, error, requests, current, chosen>>
deviceVars == <<geo, wanted, view, asked>>

LEMMA MapSettings ==
    /\ Manual \notin Map!Targets /\ None \notin Map!Targets /\ None # Manual
    /\ None \notin {"valid", "outside", "failed"}
    /\ None \notin MapPoints /\ None \notin Places /\ None \notin Positions
    /\ Map!Targets = MapPoints \cup Places \cup Positions
  BY PartsAssumption DEF Map!TargetsAssumption, Map!Targets

LEMMA MapInit == Map!Init => MapInv
<1> SUFFICES ASSUME Map!Init PROVE MapInv
  OBVIOUS
<1>1. requests = <<>> /\ requests \in Seq(Validation) /\ Len(requests) = 0
  BY DEF Map!Init
<1>2. MapChoice
  <2>1. /\ page = "map" /\ candidate = None /\ hidden = FALSE /\ selection = None
        /\ validating = FALSE /\ error = None /\ current = 0
    BY DEF Map!Init
  <2>2. Map!LastChoice /\ Map!Checked /\ Map!MarkerMatches
    BY <2>1, MapSettings DEF Map!LastChoice, Map!Checked, Map!MarkerMatches
  <2>3. requests \in Seq(Validation) /\ current \in 0..Len(requests)
    BY <1>1, <2>1
  <2>4. ~hidden /\ ~validating /\ hidden \in BOOLEAN /\ validating \in BOOLEAN
    BY <2>1
  <2>5. QED
    BY <2>1, <2>2, <2>3, <2>4 DEF MapChoice
<1>3. geo = [status |-> "requesting", position |-> None] /\ view = "city" /\ wanted = FALSE /\ asked = FALSE
  BY DEF Map!Init
<1>4. MapDevice
  BY <1>3, MapSettings DEF MapDevice
<1>5. QED
  BY <1>2, <1>4 DEF Map!Init, MapInv

\* A request is served or heard: what it is for, and that it was found valid, stays.
LEMMA RequestKept ==
    ASSUME MapChoice, NEW i \in DOMAIN requests, NEW r \in Validation,
           r.target = requests[i].target, requests[i].answer = "valid" => r.answer = "valid",
           requests' = [requests EXCEPT ![i] = r]
    PROVE  /\ requests' \in Seq(Validation) /\ Len(requests') = Len(requests) /\ Len(requests) \in Nat
           /\ \A j \in 1..Len(requests) :
                 /\ requests'[j].target = requests[j].target
                 /\ requests[j].answer = "valid" => requests'[j].answer = "valid"
<1>1. /\ DOMAIN requests = 1..Len(requests) /\ Len(requests) \in Nat /\ i \in 1..Len(requests)
      /\ \A j \in 1..Len(requests) : requests[j] \in Validation
  BY DEF MapChoice
<1>2. requests' \in [1..Len(requests) -> Validation]
  BY <1>1
<1>3. requests' \in Seq(Validation) /\ Len(requests') = Len(requests)
  BY <1>1, <1>2
<1>4. \A j \in 1..Len(requests) : requests'[j] = IF j = i THEN r ELSE requests[j]
  BY <1>1
<1>5. QED
  BY <1>1, <1>3, <1>4

\* Only what is chosen, asked or requested matters to the choice.
LEMMA ChoiceKept ==
    ASSUME MapChoice, UNCHANGED <<page, candidate, hidden, selection, validating, error, current, chosen>>,
           requests' \in Seq(Validation), Len(requests') = Len(requests), Len(requests) \in Nat,
           \A j \in 1..Len(requests) :
                 /\ requests'[j].target = requests[j].target
                 /\ requests[j].answer = "valid" => requests'[j].answer = "valid"
    PROVE  MapChoice'
<1>1. DOMAIN requests = 1..Len(requests) /\ DOMAIN requests' = 1..Len(requests)
  BY DEF MapChoice
<1>2. Map!Checked'
  BY <1>1 DEF MapChoice, Map!Checked
<1>3. current # 0 => requests'[current].target = chosen
  BY DEF MapChoice
<1>4. QED
  BY <1>2, <1>3 DEF MapChoice, Map!LastChoice, Map!MarkerMatches

LEMMA MapServes ==
    ASSUME MapInv, NEW i \in DOMAIN requests, Map!serve(i)
    PROVE  MapInv'
<1>0. i \in 1..Len(requests) /\ requests[i] \in Validation
  BY DEF MapInv, MapChoice
<1>1. /\ UNCHANGED <<page, candidate, hidden, selection, validating, error, current, chosen>>
      /\ UNCHANGED deviceVars /\ popup' = popup
  BY DEF Map!serve, Map!rendered, Map!target, Map!centre, deviceVars
<1>2. PICK r \in Validation : /\ r.target = requests[i].target /\ requests' = [requests EXCEPT ![i] = r]
                              /\ requests[i].answer = "valid" => r.answer = "valid"
  <2>1. PICK a \in {"valid", "outside", "failed"} : requests' = [requests EXCEPT ![i].answer = a]
    BY DEF Map!serve
  <2>2. PICK r : r = [requests[i] EXCEPT !.answer = a]
    OBVIOUS
  <2>3. r \in Validation /\ r.target = requests[i].target /\ r.answer = a
    BY <1>0, <2>2 DEF Validation
  <2>4. requests[i].answer # "valid"
    BY MapSettings DEF Map!serve
  <2>5. requests' = [requests EXCEPT ![i] = r]
    BY <2>1, <2>2
  <2>6. QED
    BY <2>3, <2>4, <2>5
<1>3. MapChoice'
  <2>1. /\ requests' \in Seq(Validation) /\ Len(requests') = Len(requests) /\ Len(requests) \in Nat
        /\ \A j \in 1..Len(requests) :
              /\ requests'[j].target = requests[j].target
              /\ requests[j].answer = "valid" => requests'[j].answer = "valid"
    BY <1>2, RequestKept DEF MapInv
  <2>2. QED
    BY <1>1, <2>1, ChoiceKept DEF MapInv
<1>4. QED
  BY <1>1, <1>3 DEF MapInv, MapDevice, deviceVars

\* A choice: what was chosen before no longer counts.
LEMMA MapValidates ==
    ASSUME MapChoice, NEW t \in Map!Targets, Map!validateAndOpenCandidate(t), page = "map", page' = page
    PROVE  MapChoice'
<1>1. PICK c \in Validation : c = [target |-> t, answer |-> None, heard |-> FALSE] /\ c.target = t
  <2>1. [target |-> t, answer |-> None, heard |-> FALSE] \in Validation
    BY DEF Validation
  <2>2. QED
    BY <2>1
<1>2. /\ requests' = Append(requests, c) /\ current' = Len(requests) + 1 /\ chosen' = t
      /\ validating' = TRUE /\ error' = None /\ candidate' = None /\ selection' = None /\ hidden' = FALSE
  BY <1>1 DEF Map!validateAndOpenCandidate
<1>3. /\ requests' \in Seq(Validation) /\ Len(requests') = Len(requests) + 1 /\ Len(requests) \in Nat
      /\ requests'[Len(requests) + 1] = c
  BY <1>2 DEF MapChoice
<1>4. current' \in 0..Len(requests') /\ current' # 0 /\ requests'[current'].target = chosen'
  BY <1>1, <1>2, <1>3
<1>5. Map!LastChoice' /\ Map!Checked' /\ Map!MarkerMatches'
  BY <1>2, MapSettings DEF MapChoice, Map!LastChoice, Map!Checked, Map!MarkerMatches
<1>6. QED
  BY <1>2, <1>3, <1>4, <1>5 DEF MapChoice

LEMMA MapChooses ==
    ASSUME MapInv, Map!choose, page' = page
    PROVE  MapChoice' /\ UNCHANGED deviceVars
<1>1. page = "map"
  BY DEF Map!choose, Map!handleMapClick, Map!handleSelectPoint, Map!handleSelectDevice, Map!Clickable
<1>2. PICK t \in Map!Targets : Map!validateAndOpenCandidate(t)
  <2>1. popup # None => popup \in Map!Targets
    BY MapSettings DEF MapInv
  <2>2. geo.position # None => geo.position \in Map!Targets
    BY MapSettings DEF MapInv, MapDevice
  <2>3. \A t \in Places : t \in Map!Targets
    BY MapSettings
  <2>4. QED
    BY <2>1, <2>2, <2>3 DEF Map!choose, Map!handleMapClick, Map!handleSelectPoint, Map!handleSelectDevice
<1>3. QED
  BY <1>1, <1>2, MapValidates DEF MapInv, Map!choose, Map!centre, deviceVars

\* An answer opens the question only if it is the one that counts.
LEMMA MapHears ==
    ASSUME MapInv, NEW i \in DOMAIN requests, Map!validationAnswer(i)
    PROVE  MapChoice' /\ UNCHANGED deviceVars
<1>0. i \in 1..Len(requests) /\ requests[i] \in Validation /\ Len(requests) \in Nat
  BY DEF MapInv, MapChoice
<1>1. PICK r \in Validation : /\ r.target = requests[i].target /\ r.answer = requests[i].answer
                              /\ requests' = [requests EXCEPT ![i] = r]
  <2>1. requests' = [requests EXCEPT ![i].heard = TRUE]
    BY DEF Map!validationAnswer
  <2>2. PICK r : r = [requests[i] EXCEPT !.heard = TRUE]
    OBVIOUS
  <2>3. r \in Validation /\ r.target = requests[i].target /\ r.answer = requests[i].answer
    BY <1>0, <2>2 DEF Validation
  <2>4. QED
    BY <2>1, <2>2, <2>3
<1>2. /\ requests' \in Seq(Validation) /\ Len(requests') = Len(requests) /\ Len(requests) \in Nat
      /\ \A j \in 1..Len(requests) :
            /\ requests'[j].target = requests[j].target
            /\ requests[j].answer = "valid" => requests'[j].answer = "valid"
  BY <1>1, RequestKept DEF MapInv
<1>3. page' = page /\ current' = current /\ chosen' = chosen /\ UNCHANGED deviceVars
  BY DEF Map!validationAnswer, Map!centre, deviceVars
<1>4. CASE Map!Stale(i)
  <2>1. UNCHANGED <<candidate, hidden, selection, validating, error>>
    BY <1>4 DEF Map!validationAnswer, Map!target
  <2>2. QED
    BY <1>2, <1>3, <2>1, ChoiceKept DEF MapInv
<1>5. CASE ~Map!Stale(i)
  <2>1. i = current /\ page = "map" /\ current # 0 /\ requests[i].target = chosen /\ chosen \in Map!Targets
    BY <1>0, <1>5 DEF Map!Stale, MapInv, MapChoice, Validation
  <2>2. requests'[current'].target = chosen' /\ current' \in 0..Len(requests')
    BY <1>0, <1>2, <1>3, <2>1
  <2>3. CASE requests[i].answer = "valid"
    <3>1. /\ candidate' = chosen /\ hidden' = FALSE /\ selection' \in {chosen, None} /\ selection' \in Places \cup {None}
          /\ validating' = FALSE /\ error' = error
      BY <1>5, <2>1, <2>3 DEF Map!validationAnswer, Map!Accepted, Map!openCandidate
    <3>2. Map!Checked'
      BY <1>0, <1>2, <1>3, <2>1, <2>3, <3>1 DEF Map!Checked
    <3>3. QED
      BY <1>2, <1>3, <2>1, <2>2, <3>1, <3>2, MapSettings DEF MapInv, MapChoice, Map!LastChoice, Map!MarkerMatches
  <2>4. CASE requests[i].answer # "valid"
    <3>1. validating' = FALSE /\ error' \in {"outside", "unavailable"} /\ UNCHANGED <<candidate, hidden, selection>>
      BY <1>5, <2>4 DEF Map!validationAnswer, Map!Accepted
    <3>2. Map!Checked'
      <4>1. DOMAIN requests = 1..Len(requests) /\ DOMAIN requests' = 1..Len(requests)
        BY <1>2 DEF MapInv, MapChoice
      <4>2. QED
        BY <1>2, <3>1, <4>1 DEF MapInv, MapChoice, Map!Checked
    <3>3. QED
      BY <1>2, <1>3, <2>1, <2>2, <3>1, <3>2 DEF MapInv, MapChoice, Map!LastChoice, Map!MarkerMatches
  <2>5. QED
    BY <2>3, <2>4
<1>6. QED
  BY <1>3, <1>4, <1>5

\* The question is answered, hidden or resumed, or the user goes on without the map.
LEMMA MapQuestion ==
    ASSUME MapInv,
           Map!answerQuestion \/ Map!handleConfirm \/ Map!continueToManualReport \/ Map!continueWithoutMap
    PROVE  MapChoice' /\ UNCHANGED deviceVars
<1>1. UNCHANGED <<requests, deviceVars>>
  BY DEF Map!answerQuestion, Map!handleConfirm, Map!continueToManualReport, Map!continueWithoutMap, Map!centre, Map!rendered,
     deviceVars
<1>2. CASE Map!answerQuestion
  <2>1. /\ UNCHANGED <<validating, error, current, page, chosen>> /\ candidate # None /\ page = "map"
        /\ \/ candidate' = None /\ hidden' = FALSE /\ selection' = (IF candidate \in Places THEN None ELSE selection)
           \/ hidden' \in BOOLEAN /\ UNCHANGED <<candidate, selection>>
    BY <1>2 DEF Map!answerQuestion, Map!handleCancelCandidate, Map!onHide, Map!resume, Map!Dialog, Map!resumeControls
  <2>2. Map!LastChoice' /\ Map!Checked' /\ Map!MarkerMatches'
    BY <1>1, <2>1, MapSettings DEF MapInv, MapChoice, Map!LastChoice, Map!Checked, Map!MarkerMatches
  <2>3. QED
    BY <1>1, <2>1, <2>2 DEF MapInv, MapChoice
<1>3. CASE Map!handleConfirm
  BY <1>1, <1>3 DEF Map!handleConfirm, Map!Dialog, Map!rendered, Map!target, MapInv, MapChoice, Map!LastChoice, Map!Checked,
     Map!MarkerMatches
<1>4. CASE Map!continueToManualReport
  BY <1>1, <1>4 DEF Map!continueToManualReport, Map!rendered, Map!target, MapInv, MapChoice, Map!LastChoice, Map!Checked,
     Map!MarkerMatches
<1>5. CASE Map!continueWithoutMap
  <2>1. /\ page = "map" /\ page' = page /\ current' = 0 /\ validating' = FALSE /\ error' = None /\ chosen' = Manual
        /\ candidate' = Manual /\ hidden' = FALSE /\ selection' = (IF Manual \in Places THEN Manual ELSE None)
    BY <1>5 DEF Map!continueWithoutMap, Map!openCandidate
  <2>2. Manual \notin Places
    BY MapSettings
  <2>3. Map!LastChoice' /\ Map!Checked' /\ Map!MarkerMatches'
    BY <2>1, <2>2, MapSettings DEF Map!LastChoice, Map!Checked, Map!MarkerMatches
  <2>4. requests' \in Seq(Validation) /\ current' \in 0..Len(requests')
    BY <1>1, <2>1 DEF MapInv, MapChoice
  <2>5. ~hidden' /\ ~validating' /\ hidden' \in BOOLEAN /\ validating' \in BOOLEAN
    BY <2>1
  <2>6. selection' = None /\ page' = "map" /\ current' = 0 /\ error' = None /\ candidate' = Manual
    BY <2>1, <2>2
  <2>7. QED
    BY <1>1, <2>3, <2>4, <2>5, <2>6 DEF MapChoice
<1>6. QED
  BY <1>1, <1>2, <1>3, <1>4, <1>5

\* The device is located, or the user asks for it; the choice is not touched.
LEMMA MapLocates ==
    ASSUME MapInv, Map!environment \/ Map!handleRecenter
    PROVE  MapDevice' /\ UNCHANGED <<candidate, hidden, selection, validating, error>>
<1>0. /\ geo.status \in Map!Failed \cup {"requesting", "available"} /\ geo.position \in Positions \cup {None}
      /\ (geo.position # None) = (geo.status = "available")
      /\ view \in Positions \cup {"city", "panned"} /\ wanted \in BOOLEAN /\ asked \in BOOLEAN
      /\ wanted => asked \/ geo.status \in Map!Failed
      /\ geo \in [status : Map!Failed \cup {"requesting", "available"}, position : Positions \cup {None}]
  BY DEF MapInv, MapDevice
<1>1. ASSUME geo' = geo, wanted' = wanted, view' = view, asked' = asked PROVE MapDevice'
  BY <1>1 DEF MapInv, MapDevice
<1>2. ASSUME Map!RecenterEffect, geo' \in [status : Map!Failed \cup {"requesting", "available"}, position : Positions \cup {None}],
             (geo'.position # None) = (geo'.status = "available"),
             geo'.status \in Map!Failed \/ (wanted => asked)
      PROVE  MapDevice'
  <2>1. CASE geo'.status \in Map!Failed
    BY <1>0, <1>2, <2>1 DEF Map!RecenterEffect, MapDevice
  <2>2. CASE geo'.status \notin Map!Failed /\ geo'.status = "available" /\ mapReady' /\ wanted
    <3>1. wanted' = FALSE /\ asked' = FALSE /\ view' = geo'.position
      BY <1>2, <2>2 DEF Map!RecenterEffect
    <3>2. geo'.position \in Positions
      BY <1>2, <2>2
    <3>3. QED
      BY <1>2, <3>1, <3>2 DEF MapDevice
  <2>3. CASE geo'.status \notin Map!Failed /\ ~(geo'.status = "available" /\ mapReady' /\ wanted)
    <3>1. UNCHANGED <<wanted, view, asked>>
      BY <1>2, <2>3 DEF Map!RecenterEffect, Map!centre
    <3>2. QED
      BY <1>0, <1>2, <2>3, <3>1 DEF MapDevice
  <2>4. QED
    BY <2>1, <2>2, <2>3
<1>3. CASE Map!environment
  <2>1. UNCHANGED <<candidate, hidden, selection, validating, error>>
    BY <1>3 DEF Map!environment, Map!getLightPoints, Map!tileEvents, Map!getCurrentPosition, Map!mapEvents, Map!switchLocale,
       Map!target
  <2>2. ASSUME Map!getLightPoints \/ Map!tileEvents PROVE MapDevice'
    BY <1>1, <2>2 DEF Map!getLightPoints, Map!tileEvents, Map!centre
  <2>3. ASSUME Map!mapEvents \/ Map!switchLocale PROVE MapDevice'
    <3>1. Map!RecenterEffect /\ geo' = geo
      BY <2>3 DEF Map!mapEvents, Map!switchLocale
    <3>2. QED
      BY <1>0, <1>2, <3>1
  <2>4. ASSUME Map!getCurrentPosition PROVE MapDevice'
    <3>1. Map!RecenterEffect /\ geo.status = "requesting"
      BY <2>4 DEF Map!getCurrentPosition
    <3>2. wanted => asked
      BY <1>0, <3>1 DEF Map!Failed
    <3>3. \/ \E p \in Positions : geo' = [status |-> "available", position |-> p]
          \/ \E s \in Map!Failed : geo' = [status |-> s, position |-> None]
      BY <2>4 DEF Map!getCurrentPosition
    <3>4. /\ geo' \in [status : Map!Failed \cup {"requesting", "available"}, position : Positions \cup {None}]
          /\ (geo'.position # None) = (geo'.status = "available")
      <4>1. CASE \E p \in Positions : geo' = [status |-> "available", position |-> p]
        BY <4>1, MapSettings
      <4>2. CASE \E s \in Map!Failed : geo' = [status |-> s, position |-> None]
        BY <4>2 DEF Map!Failed
      <4>3. QED
        BY <3>3, <4>1, <4>2
    <3>5. QED
      BY <1>2, <3>1, <3>2, <3>4
  <2>5. QED
    BY <1>3, <2>1, <2>2, <2>3, <2>4 DEF Map!environment
<1>4. CASE Map!handleRecenter
  <2>2. ASSUME Map!requestPosition PROVE MapDevice'
    <3>1. geo.status \in Map!Failed /\ view' = view
      BY <2>2 DEF Map!requestPosition
    <3>2. \/ geo' = [status |-> "requesting", position |-> None] /\ wanted' = TRUE /\ asked' = TRUE
          \/ geo' = [status |-> "unavailable", position |-> None] /\ wanted' \in BOOLEAN /\ asked' = FALSE
      BY <2>2 DEF Map!requestPosition
    <3>3. "unavailable" \in Map!Failed
      BY DEF Map!Failed
    <3>4. CASE geo' = [status |-> "requesting", position |-> None] /\ wanted' = TRUE /\ asked' = TRUE
      BY <1>0, <3>1, <3>4 DEF MapDevice
    <3>5. CASE geo' = [status |-> "unavailable", position |-> None] /\ wanted' \in BOOLEAN /\ asked' = FALSE
      BY <1>0, <3>1, <3>3, <3>5 DEF MapDevice
    <3>6. QED
      BY <3>2, <3>4, <3>5
  <2>3. ASSUME geo.position # None, view' = geo.position, UNCHANGED <<geo, wanted, asked>> PROVE MapDevice'
    BY <1>0, <2>3 DEF MapDevice
  <2>4. MapDevice'
    BY <1>4, <2>2, <2>3 DEF Map!handleRecenter
  <2>5. UNCHANGED <<candidate, hidden, selection, validating, error>>
    BY <1>4 DEF Map!handleRecenter, Map!target
  <2>6. QED
    BY <1>4, <2>4, <2>5 DEF Map!handleRecenter
<1>5. QED
  BY <1>3, <1>4

\* What a state that did not change keeps.
LEMMA MapSame ==
    ASSUME MapInv
    PROVE  /\ UNCHANGED choiceVars => MapChoice'
           /\ UNCHANGED deviceVars => MapDevice'
<1>1. ASSUME UNCHANGED choiceVars PROVE MapChoice'
  BY <1>1 DEF choiceVars, MapInv, MapChoice, Map!LastChoice, Map!Checked, Map!MarkerMatches
<1>2. ASSUME UNCHANGED deviceVars PROVE MapDevice'
  BY <1>2 DEF deviceVars, MapInv, MapDevice
<1>3. QED
  BY <1>1, <1>2

LEMMA MapNext == MapInv /\ [PartsNext]_partsVars => MapInv'
<1> SUFFICES ASSUME MapInv, [PartsNext]_partsVars PROVE MapInv'
  OBVIOUS
<1>1. CASE UNCHANGED mapVars
  <2>1. UNCHANGED choiceVars /\ UNCHANGED deviceVars /\ popup' = popup
    BY <1>1 DEF mapVars, choiceVars, deviceVars
  <2>2. QED
    BY <2>1, MapSame DEF MapInv
<1>2. CASE Map!Rendering /\ (Map!environment \/ Map!user \/ \E i \in DOMAIN requests : Map!validationAnswer(i))
  <2>1. popup' \in MapPoints \cup {None}
    BY <1>2 DEF Map!Rendering, MapInv
  <2>2. ASSUME Map!environment PROVE MapChoice' /\ MapDevice'
    <3>1. UNCHANGED <<page, requests, current, chosen>>
      BY <2>2 DEF Map!environment
    <3>2. MapDevice' /\ UNCHANGED <<candidate, hidden, selection, validating, error>>
      BY <2>2, MapLocates
    <3>3. UNCHANGED choiceVars
      BY <3>1, <3>2 DEF choiceVars
    <3>4. QED
      BY <3>2, <3>3, MapSame
  <2>3. ASSUME Map!handleRecenter, UNCHANGED <<page, requests, current, chosen>> PROVE MapChoice' /\ MapDevice'
    <3>1. MapDevice' /\ UNCHANGED <<candidate, hidden, selection, validating, error>>
      BY <2>3, MapLocates
    <3>2. UNCHANGED choiceVars
      BY <2>3, <3>1 DEF choiceVars
    <3>3. QED
      BY <3>1, <3>2, MapSame
  <2>4. ASSUME Map!choose, page' = page PROVE MapChoice' /\ MapDevice'
    BY <2>4, MapChooses, MapSame
  <2>5. ASSUME Map!answerQuestion \/ Map!handleConfirm \/ Map!continueToManualReport \/ Map!continueWithoutMap
        PROVE  MapChoice' /\ MapDevice'
    BY <2>5, MapQuestion, MapSame
  <2>6. ASSUME NEW i \in DOMAIN requests, Map!validationAnswer(i) PROVE MapChoice' /\ MapDevice'
    BY <2>6, MapHears, MapSame
  <2>7. MapChoice' /\ MapDevice'
    <3>1. CASE Map!user
      BY <2>3, <2>4, <2>5, <3>1 DEF Map!user
    <3>2. QED
      BY <1>2, <2>2, <2>6, <3>1, Zenon
  <2>8. QED
    BY <2>1, <2>7 DEF MapInv
<1>3. CASE Map!openPopup
  <2>1. popup' \in MapPoints /\ UNCHANGED choiceVars /\ UNCHANGED deviceVars
    BY <1>3 DEF Map!openPopup, Map!rendered, Map!target, Map!centre, choiceVars, deviceVars
  <2>2. QED
    BY <2>1, MapSame DEF MapInv
<1>4. CASE Map!pan
  <2>1. popup' = popup /\ view' = "panned" /\ UNCHANGED <<geo, wanted, asked>> /\ UNCHANGED choiceVars
    BY <1>4 DEF Map!pan, Map!rendered, Map!target, choiceVars
  <2>2. MapDevice'
    BY <2>1 DEF MapInv, MapDevice
  <2>3. QED
    BY <2>1, <2>2, MapSame DEF MapInv
<1>5. ASSUME NEW i \in DOMAIN requests, Map!serve(i) PROVE MapInv'
  BY <1>5, MapServes
<1>6. CASE Map!Next
  BY <1>2, <1>3, <1>4, <1>5, <1>6, Zenon DEF Map!Next
<1>7. QED
  BY <1>1, <1>6, Zenon DEF PartsNext, partsVars

\* For any light points, places, positions and number of choices and answers in any
\* order: what can be confirmed is the last choice and was found valid, the marker
\* shows it, some control leads on whatever fails, and the map moves to the device
\* only when that was asked for (LightPointsMap.tsx, useMapEntryGeolocation.ts).
THEOREM MapIsSound == PartsSpec => MapSound
<1>1. PartsInit => MapInv
  BY MapInit DEF PartsInit
<1>2. MapInv => (part = "map" =>
             /\ Map!TypeOK
             /\ Map!LastChoice
             /\ Map!Checked
             /\ Map!MarkerMatches
             /\ Map!WayOn)
  <2> SUFFICES ASSUME MapInv PROVE Map!TypeOK /\ Map!LastChoice /\ Map!Checked /\ Map!MarkerMatches /\ Map!WayOn
    OBVIOUS
  <2>1. Map!TypeOK
    BY DEF MapInv, MapChoice, MapDevice, Map!TypeOK
  <2>2. Map!WayOn
    BY DEF MapInv, MapChoice, Map!WayOn, Map!Dialog, Map!resumeControls, Map!bottomControls
  <2>3. QED
    BY <2>1, <2>2 DEF MapInv, MapChoice
<1>3. MapInv /\ [PartsNext]_partsVars =>
        [ view' # view /\ view' \in Positions /\ <<geo, locale, mapReady>>' # <<geo, locale, mapReady>> => asked ]_Map!vars
  <2> SUFFICES ASSUME MapInv, [PartsNext]_partsVars, view' # view, <<geo, locale, mapReady>>' # <<geo, locale, mapReady>>
               PROVE  asked
    OBVIOUS
  <2>1. Map!Next
    <3>1. ~UNCHANGED mapVars
      BY DEF mapVars
    <3>2. QED
      BY <3>1, Zenon DEF PartsNext, partsVars
  <2>2. ~Map!choose /\ ~Map!answerQuestion /\ ~Map!handleConfirm /\ ~Map!continueToManualReport /\ ~Map!continueWithoutMap
    BY MapChooses, MapQuestion DEF deviceVars, Map!choose, Map!centre, Map!answerQuestion, Map!handleConfirm,
       Map!continueToManualReport, Map!continueWithoutMap
  <2>3. \A i : ~Map!validationAnswer(i) /\ ~Map!serve(i)
    BY DEF Map!validationAnswer, Map!serve, Map!centre
  <2>4. ~Map!openPopup /\ ~Map!pan
    BY DEF Map!openPopup, Map!pan, Map!centre, Map!rendered
  <2>5. ~Map!handleRecenter
    BY DEF Map!handleRecenter, Map!requestPosition
  <2>6. Map!environment
    BY <2>1, <2>2, <2>3, <2>4, <2>5, Zenon DEF Map!Next, Map!user
  <2>7. Map!RecenterEffect
    BY <2>6 DEF Map!environment, Map!getLightPoints, Map!tileEvents, Map!getCurrentPosition, Map!mapEvents, Map!switchLocale,
       Map!centre
  <2>8. wanted /\ geo'.status \notin Map!Failed /\ geo'.status = "available"
    BY <2>7 DEF Map!RecenterEffect, Map!centre
  <2>9. CASE geo' = geo
    BY <2>8, <2>9 DEF MapInv, MapDevice
  <2>10. CASE geo' # geo
    <3>1. geo.status = "requesting"
      BY <2>6, <2>10 DEF Map!environment, Map!getLightPoints, Map!tileEvents, Map!getCurrentPosition, Map!mapEvents,
         Map!switchLocale
    <3>2. QED
      BY <2>8, <3>1 DEF MapInv, MapDevice, Map!Failed
  <2>11. QED
    BY <2>9, <2>10
<1>4. PartsSpec => []MapInv
  BY <1>1, MapNext, PTL DEF PartsSpec
<1>5. PartsSpec => Map!RecenterAsked
  BY <1>3, <1>4, PTL DEF PartsSpec, Map!RecenterAsked
<1>6. QED
  BY <1>2, <1>4, <1>5, PTL DEF MapSound

-----------------------------------------------------------------------------
(* The files of a draft.                                                   *)

FilesTypes ==
    /\ cur \in Attach!Drafts /\ selected \in SUBSET Files
    /\ sent \in BOOLEAN /\ saving \in BOOLEAN /\ failed \in BOOLEAN /\ cleaning \in BOOLEAN
    /\ restore \in [expected : 1..Cardinality(Files), after : {0}] \cup {None}
    /\ queue \in Seq(Attach!Jobs) /\ filesSequence \in Nat /\ switches = 0
    /\ count \in [Attach!Drafts -> (0..Cardinality(Files)) \cup {None}]
    /\ store \in [Attach!Drafts -> (SUBSET Files) \cup {None}]
    /\ marked \in SUBSET Attach!Drafts /\ may \in [Attach!Drafts -> SUBSET SUBSET Files]

Newest(j) == j.kind = "save" /\ j.sequence = filesSequence

\* The newest save is the last thing in the chain; it is of the selection on the page.
JobOK(i) ==
    /\ queue[i].stored => i = 1
    /\ queue[i].kind = "save" => queue[i].sequence <= filesSequence
    /\ Newest(queue[i]) =>
          /\ i = Len(queue) /\ saving /\ queue[i].draft = cur /\ queue[i].files = selected
          /\ queue[i].files \in may[cur]
          /\ queue[i].stored => store[cur] \in {queue[i].files, None}

ChainOK ==
    /\ \A i \in 1..Len(queue) : JobOK(i)
    /\ saving => queue # <<>> /\ Newest(queue[Len(queue)]) /\ restore = None

\* What is in storage, and what is on the page unless it says otherwise, is a
\* selection made for the draft; a draft that counts no files may have none.
SelectionOK ==
    /\ restore = None /\ ~failed => selected \in may[cur]
    /\ store[cur] = None \/ store[cur] \in may[cur]
    /\ count[cur] = 0 => {} \in may[cur]

\* A draft that was left counts nothing, one to come has nothing.
DraftsOK ==
    \A d \in Attach!Drafts :
        /\ count[d] = None <=> d < cur
        /\ d > cur => count[d] = 0 /\ store[d] = None /\ may[d] = {{}}

\* What the sweep takes as finished is still marked, or its draft was left.
SweepOK ==
    /\ cleaning => sent /\ cur < MaxDrafts
    /\ sweep # None =>
          sweep.marked \subseteq Attach!Drafts /\ \A d \in sweep.marked : d \in marked \/ d < cur

FilesInv == FilesTypes /\ ChainOK /\ SelectionOK /\ DraftsOK /\ SweepOK

LEMMA FilesSettings ==
    /\ Attach!Drafts = 1..MaxDrafts /\ MaxDrafts \in Nat /\ 1 \in Attach!Drafts
    /\ Cardinality(Files) \in Nat /\ None \notin Nat /\ None \notin SUBSET Files
    /\ \A n \in 1..Cardinality(Files) : None # [expected |-> n, after |-> 0]
    /\ \A files \in SUBSET Files :
          /\ Attach!Cardinality(files) \in 0..Cardinality(Files)
          /\ Attach!Cardinality(files) = 0 <=> files = {}
<1>1. /\ MaxDrafts \in Nat \ {0} /\ Attach!IsFiniteSet(Files)
      /\ None \notin Nat /\ \A files \in SUBSET Files : None # files
  BY PartsAssumption DEF Attach!DraftsAssumption
<1>2. IsFiniteSet(Files)
  BY <1>1 DEF Attach!IsFiniteSet, IsFiniteSet
<1>3. ASSUME NEW S PROVE Attach!Cardinality(S) = Cardinality(S)
  BY DEF Attach!Cardinality, Cardinality, Attach!IsFiniteSet, IsFiniteSet
<1>4. Cardinality(Files) \in Nat
  BY <1>2, FS_CardinalityType
<1>5. ASSUME NEW files \in SUBSET Files
      PROVE  Attach!Cardinality(files) \in 0..Cardinality(Files) /\ (Attach!Cardinality(files) = 0 <=> files = {})
  <2>1. IsFiniteSet(files) /\ Cardinality(files) <= Cardinality(Files)
    BY <1>2, FS_Subset
  <2>2. Cardinality(files) \in Nat /\ (Cardinality(files) = 0 <=> files = {})
    BY <2>1, FS_CardinalityType, FS_EmptySet
  <2>3. QED
    BY <1>3, <1>4, <2>1, <2>2
<1>6. \A n \in 1..Cardinality(Files) : None # [expected |-> n, after |-> 0]
  BY <1>3, PartsAssumption DEF Attach!DraftsAssumption
<1>7. QED
  BY <1>1, <1>4, <1>5, <1>6 DEF Attach!Drafts

LEMMA FilesInit == Attach!Init => FilesInv
<1> SUFFICES ASSUME Attach!Init PROVE FilesInv
  OBVIOUS
<1>1. queue = <<>> /\ queue \in Seq(Attach!Jobs) /\ Len(queue) = 0
  BY DEF Attach!Init
<1>2. /\ cur = 1 /\ selected = {} /\ ~sent /\ ~saving /\ ~failed /\ ~cleaning /\ restore = None
      /\ sent \in BOOLEAN /\ saving \in BOOLEAN /\ failed \in BOOLEAN /\ cleaning \in BOOLEAN
      /\ filesSequence = 0 /\ switches = 0 /\ marked = {} /\ sweep = None
  BY DEF Attach!Init
<1>3. /\ count = [d \in Attach!Drafts |-> 0] /\ store = [d \in Attach!Drafts |-> None]
      /\ may = [d \in Attach!Drafts |-> {{}}]
  BY DEF Attach!Init
<1>4. FilesTypes
  <2>1. /\ count \in [Attach!Drafts -> (0..Cardinality(Files)) \cup {None}]
        /\ store \in [Attach!Drafts -> (SUBSET Files) \cup {None}]
        /\ may \in [Attach!Drafts -> SUBSET SUBSET Files]
    BY <1>3, FilesSettings
  <2>2. QED
    BY <1>1, <1>2, <2>1, FilesSettings DEF FilesTypes
<1>5. ChainOK
  BY <1>1, <1>2 DEF ChainOK
<1>6. SelectionOK /\ SweepOK
  BY <1>2, <1>3, FilesSettings DEF SelectionOK, SweepOK
<1>7. DraftsOK
  <2>1. \A d \in Attach!Drafts : d \in Int /\ ~(d < 1) /\ count[d] = 0 /\ 0 # None /\ store[d] = None /\ may[d] = {{}}
    BY <1>3, FilesSettings
  <2>2. QED
    BY <1>2, <2>1 DEF DraftsOK
<1>8. QED
  BY <1>4, <1>5, <1>6, <1>7 DEF FilesInv

\* A set of drafts that is not empty has a first one.
LEMMA FirstDraft ==
    ASSUME NEW S, S # {}, S \subseteq Attach!Drafts
    PROVE  Attach!Min(S) \in S
<1> DEFINE Below(i) == {j \in S : j < i}
           T == {Below(i) : i \in S}
<1>1. IsFiniteSet(S)
  <2>1. IsFiniteSet(1..MaxDrafts)
    BY FilesSettings, FS_Interval
  <2>2. QED
    BY <2>1, FilesSettings, FS_Subset
<1>2. \A i \in S : i \in Nat
  BY FilesSettings
<1>3. T \subseteq FiniteSubsetsOf(S) /\ T # {}
  <2>1. T \subseteq SUBSET S /\ T # {}
    OBVIOUS
  <2> HIDE DEF T
  <2>2. QED
    BY <1>1, <2>1, FS_FiniteSubsetsOfFinite
<1>4. PICK A \in T : \A B \in T : <<B, A>> \notin StrictSubsetOrdering(S)
  <2> HIDE DEF T
  <2> QED
    BY <1>3, FS_StrictSubsetOrderingWellFounded, WFMin
<1>5. PICK i \in S : A = Below(i)
  BY <1>4
<1>6. ASSUME NEW j \in S, j < i PROVE FALSE
  <2>1. Below(j) \subseteq Below(i) /\ j \in Below(i) /\ j \notin Below(j)
    BY <1>2, <1>6
  <2>2. Below(j) \in T /\ Below(j) \subseteq S /\ Below(i) \subseteq S
    OBVIOUS
  <2> HIDE DEF Below, T
  <2>3. <<Below(j), Below(i)>> \in StrictSubsetOrdering(S)
    BY <2>1, <2>2 DEF StrictSubsetOrdering
  <2> QED
    BY <1>4, <1>5, <2>2, <2>3
<1>7. \A j \in S : i <= j
  BY <1>2, <1>6
<1>8. QED
  BY <1>7 DEF Attach!Min

\* The chain moves on to the next job; a restore waits for none.
LEMMA ChainSteps ==
    ASSUME FilesInv, queue # <<>>
    PROVE  /\ Len(queue) \in Nat /\ Len(queue) >= 1 /\ Head(queue) = queue[1] /\ queue[1] \in Attach!Jobs
           /\ Attach!Advance => queue' = Tail(queue) /\ restore' = restore
           /\ Tail(queue) \in Seq(Attach!Jobs) /\ Len(Tail(queue)) = Len(queue) - 1
           /\ \A i \in 1..Len(Tail(queue)) : Tail(queue)[i] = queue[i + 1] /\ i + 1 \in 1..Len(queue)
<1>1. queue \in Seq(Attach!Jobs) /\ restore \in [expected : 1..Cardinality(Files), after : {0}] \cup {None}
  BY DEF FilesInv, FilesTypes
<1>2. /\ Len(queue) \in Nat /\ Len(queue) >= 1 /\ Head(queue) = queue[1] /\ queue[1] \in Attach!Jobs
      /\ Tail(queue) \in Seq(Attach!Jobs) /\ Len(Tail(queue)) = Len(queue) - 1
      /\ \A i \in 1..Len(Tail(queue)) : Tail(queue)[i] = queue[i + 1] /\ i + 1 \in 1..Len(queue)
  BY <1>1
<1>3. ASSUME Attach!Advance PROVE queue' = Tail(queue) /\ restore' = restore
  <2>1. CASE restore = None
    BY <1>3, <2>1 DEF Attach!Advance
  <2>2. CASE restore # None
    <3>1. restore.after = 0 /\ restore = [expected |-> restore.expected, after |-> 0]
      BY <1>1, <2>2
    <3>2. restore' = [restore EXCEPT !.after = 0]
      BY <1>3, <2>2, <3>1 DEF Attach!Advance
    <3>3. QED
      BY <1>3, <3>1, <3>2 DEF Attach!Advance
  <2>3. QED
    BY <2>1, <2>2
<1>4. QED
  BY <1>2, <1>3

\* A job that is not the newest save leaves the chain.
LEMMA OldJobLeaves ==
    ASSUME FilesInv, queue # <<>>, ~Newest(queue[1]), queue' = Tail(queue), restore' = restore,
           UNCHANGED <<cur, selected, filesSequence, saving, may>>
    PROVE  ChainOK'
<1>1. \A i \in 1..Len(queue) : JobOK(i)
  BY DEF FilesInv, ChainOK
<1>2. ASSUME NEW i \in 1..Len(Tail(queue)) PROVE JobOK(i)'
  <2>1. queue'[i] = queue[i + 1] /\ i + 1 \in 1..Len(queue) /\ i \in Nat /\ i + 1 # 1
        /\ Len(queue') = Len(queue) - 1 /\ Len(queue) \in Nat
    BY <1>2, ChainSteps
  <2>2. JobOK(i + 1)
    BY <1>1, <2>1
  <2>3. ~queue[i + 1].stored
    BY <2>1, <2>2 DEF JobOK
  <2>4. (queue'[i].kind = "save" => queue'[i].sequence <= filesSequence') /\ ~queue'[i].stored
    BY <2>1, <2>2, <2>3 DEF JobOK
  <2>5. ASSUME Newest(queue[i])'
        PROVE  /\ i = Len(queue') /\ saving' /\ queue'[i].draft = cur' /\ queue'[i].files = selected'
               /\ queue'[i].files \in may'[cur']
    <3>1. Newest(queue[i + 1])
      BY <2>1, <2>5 DEF Newest
    <3>2. /\ i + 1 = Len(queue) /\ saving /\ queue[i + 1].draft = cur /\ queue[i + 1].files = selected
          /\ queue[i + 1].files \in may[cur]
      BY <2>2, <3>1 DEF JobOK
    <3>3. i = Len(queue')
      BY <2>1, <3>2
    <3>4. saving'
      BY <3>2
    <3>5. QED
      BY <2>1, <3>2, <3>3, <3>4
  <2>6. QED
    BY <2>4, <2>5 DEF JobOK
<1>3. saving' => queue' # <<>> /\ Newest(queue[Len(queue)])' /\ restore' = None
  <2> SUFFICES ASSUME saving PROVE queue' # <<>> /\ Newest(queue[Len(queue)])' /\ restore' = None
    OBVIOUS
  <2>1. Newest(queue[Len(queue)]) /\ restore = None
    BY DEF FilesInv, ChainOK
  <2>2. Len(queue) # 1
    BY <2>1
  <2>3. Len(queue') \in 1..Len(Tail(queue)) /\ queue'[Len(queue')] = queue[Len(queue)]
    BY <2>2, ChainSteps
  <2>4. queue' # <<>>
    <3>1. Len(queue') = Len(queue) - 1 /\ Len(queue) \in Nat /\ Len(queue) # 1
      BY <2>2, ChainSteps
    <3>2. Len(queue') # 0
      BY <3>1
    <3>3. Len(<<>>) = 0
      OBVIOUS
    <3>4. QED
      BY <3>2, <3>3, Zenon
  <2>5. queue'[Len(queue')].kind = "save" /\ queue'[Len(queue')].sequence = filesSequence'
    BY <2>1, <2>3 DEF Newest
  <2>6. QED
    BY <2>1, <2>4, <2>5 DEF Newest
<1>4. QED
  BY <1>2, <1>3 DEF ChainOK

\* The newest save is alone in the chain once it comes first.
LEMMA NewestLeaves ==
    ASSUME FilesInv, queue # <<>>, Newest(queue[1])
    PROVE  /\ Tail(queue) = <<>> /\ Len(queue) = 1 /\ saving /\ restore = None
           /\ queue[1].draft = cur /\ queue[1].files = selected /\ selected \in may[cur]
           /\ queue[1].stored => store[cur] \in {selected, None}
<1>1. JobOK(1) /\ Len(queue) \in Nat /\ Len(queue) >= 1
  BY ChainSteps DEF FilesInv, ChainOK
<1>2. 1 = Len(queue)
  BY <1>1 DEF JobOK
<1>3. Tail(queue) = <<>>
  BY <1>2, ChainSteps
<1>4. QED
  BY <1>1, <1>2, <1>3 DEF JobOK, FilesInv, ChainOK

\* A job is known by its sequence number.
LEMMA CurrentIsNewest ==
    ASSUME FilesInv, queue # <<>>, Head(queue).kind = "save"
    PROVE  Attach!Current <=> Newest(queue[1])
  BY ChainSteps DEF Attach!Current, Newest

\* Files that are removed from storage leave the drafts as they are.
StoreShrinks ==
    /\ store' \in [Attach!Drafts -> (SUBSET Files) \cup {None}]
    /\ \A d \in Attach!Drafts : store'[d] \in {store[d], None}

LEMMA StoreRemoved ==
    ASSUME FilesTypes, NEW d, NEW s, s = None \/ s \in SUBSET Files, store' = [store EXCEPT ![d] = s]
    PROVE  /\ store' \in [Attach!Drafts -> (SUBSET Files) \cup {None}]
           /\ \A e \in Attach!Drafts : store'[e] = IF e = d THEN s ELSE store[e]
           /\ s = None => StoreShrinks
  BY DEF FilesTypes, StoreShrinks

LEMMA DraftsKept ==
    ASSUME FilesInv, UNCHANGED <<cur, count, may>>, StoreShrinks
    PROVE  /\ DraftsOK'
           /\ store'[cur] \in {store[cur], None}
           /\ UNCHANGED <<selected, failed, restore>> => SelectionOK'
<1>1. cur \in Attach!Drafts
  BY DEF FilesInv, FilesTypes
<1>2. store'[cur] \in {store[cur], None}
  BY <1>1 DEF StoreShrinks
<1>3. DraftsOK'
  BY DEF FilesInv, DraftsOK, StoreShrinks
<1>4. QED
  BY <1>2, <1>3 DEF FilesInv, SelectionOK

\* The chain stays as it is while nothing it refers to changes but the storage.
LEMMA ChainKept ==
    ASSUME FilesInv, UNCHANGED <<cur, selected, filesSequence, saving, restore, queue, may>>,
           store'[cur] \in {store[cur], None}
    PROVE  ChainOK'
<1>1. ASSUME NEW i \in 1..Len(queue) PROVE JobOK(i)'
  <2>1. JobOK(i)
    BY DEF FilesInv, ChainOK
  <2>2. Newest(queue[i])' <=> Newest(queue[i])
    BY DEF Newest
  <2>3. QED
    BY <2>1, <2>2 DEF JobOK
<1>2. QED
  BY <1>1 DEF FilesInv, ChainOK, Newest

LEMMA FilesSelects ==
    ASSUME FilesInv, NEW files \in SUBSET Files, Attach!persistAttachmentSelection(files)
    PROVE  FilesInv'
<1> DEFINE job == [kind |-> "save", draft |-> cur, files |-> files, sequence |-> filesSequence + 1, stored |-> FALSE]
<1>1. /\ ~saving /\ restore = None /\ selected' = files /\ failed' = FALSE /\ saving' = TRUE
      /\ filesSequence' = filesSequence + 1 /\ queue' = Append(queue, job)
      /\ may' = [may EXCEPT ![cur] = @ \cup {files}]
      /\ UNCHANGED <<cur, sent, restore, count, store, marked, cleaning, sweep, switches>>
  BY DEF Attach!persistAttachmentSelection, Attach!Ready, Attach!storeVars
<1>2. cur \in Attach!Drafts /\ filesSequence \in Nat /\ queue \in Seq(Attach!Jobs) /\ may \in [Attach!Drafts -> SUBSET SUBSET Files]
  BY DEF FilesInv, FilesTypes
<1>3. job \in Attach!Jobs /\ job.kind = "save" /\ job.draft = cur /\ job.files = files /\ job.sequence = filesSequence + 1 /\ job.stored = FALSE
  BY <1>2 DEF Attach!Jobs
<1> HIDE DEF job
<1>4. /\ queue' \in Seq(Attach!Jobs) /\ Len(queue') = Len(queue) + 1 /\ Len(queue) \in Nat
      /\ queue'[Len(queue')] = job /\ \A i \in 1..Len(queue) : queue'[i] = queue[i]
  BY <1>1, <1>2, <1>3
<1>5. /\ may' \in [Attach!Drafts -> SUBSET SUBSET Files] /\ may'[cur] = may[cur] \cup {files}
      /\ \A d \in Attach!Drafts : d # cur => may'[d] = may[d]
  BY <1>1, <1>2
<1>6. FilesTypes'
  <2>1. filesSequence' \in Nat
    BY <1>1, <1>2
  <2>2. saving' \in BOOLEAN /\ failed' \in BOOLEAN
    BY <1>1, Zenon
  <2>3. QED
    BY <1>1, <1>4, <1>5, <2>1, <2>2 DEF FilesInv, FilesTypes
<1>7. ChainOK'
  <2>1. ASSUME NEW i \in 1..Len(queue) PROVE JobOK(i)'
    <3>1. JobOK(i) /\ queue[i] \in Attach!Jobs
      BY <1>2 DEF FilesInv, ChainOK
    <3>2. queue'[i] = queue[i]
      BY <1>4
    <3>3. ~Newest(queue[i])' /\ (queue[i].kind = "save" => queue[i].sequence <= filesSequence + 1)
      BY <1>1, <1>2, <3>1, <3>2 DEF JobOK, Newest, Attach!Jobs
    <3>4. QED
      BY <1>1, <3>1, <3>2, <3>3 DEF JobOK, Newest
  <2>2. ASSUME NEW i, i = Len(queue) + 1 PROVE JobOK(i)'
    <3>1. queue'[i] = job /\ ~job.stored /\ saving'
      BY <1>1, <1>3, <1>4, <2>2
    <3>2. job.sequence <= filesSequence'
      BY <1>1, <1>2, <1>3
    <3>3. job.draft = cur' /\ job.files = selected' /\ job.files \in may'[cur']
      BY <1>1, <1>3, <1>5
    <3>4. QED
      BY <1>4, <2>2, <3>1, <3>2, <3>3 DEF JobOK
  <2>3. Newest(queue[Len(queue)])' /\ queue' # <<>>
    BY <1>1, <1>3, <1>4 DEF Newest
  <2>4. \A i \in 1..Len(queue') : i \in 1..Len(queue) \/ i = Len(queue) + 1
    BY <1>4
  <2>5. \A i \in 1..Len(queue') : JobOK(i)'
    BY <2>1, <2>2, <2>4
  <2>6. QED
    BY <1>1, <2>3, <2>5 DEF ChainOK
<1>8. SelectionOK' /\ DraftsOK' /\ SweepOK'
  <2>1. SelectionOK'
    BY <1>1, <1>5 DEF FilesInv, SelectionOK
  <2>2. DraftsOK'
    <3>1. \A d \in Attach!Drafts : d > cur => d # cur
      BY <1>2, FilesSettings
    <3>2. QED
      BY <1>1, <1>5, <3>1 DEF FilesInv, DraftsOK
  <2>3. SweepOK'
    BY <1>1 DEF FilesInv, SweepOK
  <2>4. QED
    BY <2>1, <2>2, <2>3
<1>9. QED
  BY <1>6, <1>7, <1>8 DEF FilesInv

LEMMA FilesOldLeaves ==
    ASSUME FilesInv, queue # <<>>, ~Newest(queue[1]), Attach!Advance, StoreShrinks,
           UNCHANGED <<cur, selected, sent, saving, failed, filesSequence, cleaning, count, marked, sweep, may, switches>>
    PROVE  FilesInv'
<1>1. queue' = Tail(queue) /\ restore' = restore /\ queue' \in Seq(Attach!Jobs)
  BY ChainSteps
<1>2. DraftsOK' /\ store'[cur] \in {store[cur], None} /\ SelectionOK'
  BY <1>1, DraftsKept
<1>3. ChainOK'
  BY <1>1, <1>2, OldJobLeaves
<1>4. FilesTypes' /\ SweepOK'
  BY <1>1 DEF FilesInv, FilesTypes, SweepOK, StoreShrinks
<1>5. QED
  BY <1>2, <1>3, <1>4 DEF FilesInv

LEMMA JobReplaced ==
    ASSUME NEW S, NEW q, q \in Seq(S), NEW n, n \in 1..Len(q), NEW job, job \in S
    PROVE  /\ [q EXCEPT ![n] = job] \in Seq(S) /\ Len([q EXCEPT ![n] = job]) = Len(q)
           /\ [q EXCEPT ![n] = job][n] = job
<1>1. DOMAIN q = 1..Len(q) /\ Len(q) \in Nat /\ \A i \in 1..Len(q) : q[i] \in S
  OBVIOUS
<1> DEFINE r == [q EXCEPT ![n] = job]
<1>2. r \in [1..Len(q) -> S] /\ r[n] = job
  BY <1>1
<1> HIDE DEF r
<1>3. r \in Seq(S) /\ Len(r) = Len(q)
  BY <1>1, <1>2
<1> QED
  BY <1>2, <1>3 DEF r

\* The newest save is written: its job notes it.
LEMMA FilesWritten ==
    ASSUME FilesInv, queue # <<>>, Newest(queue[1]), queue' = [queue EXCEPT ![1].stored = TRUE],
           store' = [store EXCEPT ![cur] = selected],
           UNCHANGED <<cur, selected, sent, saving, failed, restore, filesSequence, cleaning, count, marked, sweep, may,
                       switches>>
    PROVE  FilesInv'
<1>1. /\ Len(queue) = 1 /\ saving /\ restore = None /\ queue[1] \in Attach!Jobs
      /\ queue[1].draft = cur /\ queue[1].files = selected /\ selected \in may[cur]
  BY NewestLeaves, ChainSteps
<1>2. FilesTypes
  BY DEF FilesInv
<1>3. cur \in Attach!Drafts /\ selected \in SUBSET Files /\ queue \in Seq(Attach!Jobs)
  BY <1>2 DEF FilesTypes
<1>4. PICK job \in Attach!Jobs :
         /\ queue' = [queue EXCEPT ![1] = job] /\ job.kind = "save" /\ job.draft = cur /\ job.files = selected
         /\ job.sequence = queue[1].sequence
  <2>1. [queue[1] EXCEPT !.stored = TRUE] \in Attach!Jobs
    BY <1>1 DEF Attach!Jobs
  <2>2. QED
    BY <1>1, <2>1 DEF Newest, Attach!Jobs
<1>5. queue' \in Seq(Attach!Jobs) /\ Len(queue') = 1 /\ queue'[1] = job
  <2>1. 1 \in 1..Len(queue)
    BY <1>1
  <2>2. /\ [queue EXCEPT ![1] = job] \in Seq(Attach!Jobs) /\ Len([queue EXCEPT ![1] = job]) = Len(queue)
        /\ [queue EXCEPT ![1] = job][1] = job
    BY <1>3, <1>4, <2>1, JobReplaced
  <2>3. QED
    BY <1>1, <1>4, <2>2
<1>6. /\ store' \in [Attach!Drafts -> (SUBSET Files) \cup {None}] /\ store'[cur] = selected
      /\ \A d \in Attach!Drafts : d # cur => store'[d] = store[d]
  BY <1>2, <1>3 DEF FilesTypes
<1>7. FilesTypes'
  BY <1>2, <1>5, <1>6 DEF FilesTypes
<1>8. ChainOK'
  <2>1. Newest(queue[1])' /\ job.sequence <= filesSequence'
    BY <1>4, <1>5 DEF Newest, FilesTypes, FilesInv
  <2>2. ASSUME NEW i \in 1..Len(queue') PROVE JobOK(i)'
    <3>1. i = 1
      BY <1>5
    <3>2. store'[cur] \in {job.files, None}
      BY <1>4, <1>6
    <3>3. job.files \in may'[cur'] /\ saving' /\ job.draft = cur' /\ job.files = selected'
      BY <1>1, <1>4
    <3>4. QED
      BY <1>5, <2>1, <3>1, <3>2, <3>3 DEF JobOK
  <2>3. queue' # <<>>
    BY <1>5
  <2>4. Newest(queue[Len(queue)])'
    BY <1>5, <2>1
  <2>5. QED
    BY <1>1, <2>2, <2>3, <2>4 DEF ChainOK
<1>9. SelectionOK' /\ SweepOK'
  BY <1>1, <1>6 DEF FilesInv, SelectionOK, SweepOK
<1>10. DraftsOK'
  <2>1. \A d \in Attach!Drafts : d > cur => d # cur
    BY <1>3, FilesSettings
  <2>2. QED
    BY <1>6, <2>1 DEF FilesInv, DraftsOK
<1>11. QED
  BY <1>7, <1>8, <1>9, <1>10 DEF FilesInv

\* The newest save has been written: the draft counts its files.
LEMMA FilesNewestLeaves ==
    ASSUME FilesInv, queue # <<>>, Newest(queue[1]), Attach!Advance, saving' = FALSE,
           UNCHANGED <<cur, selected, sent, failed, filesSequence, cleaning, store, marked, sweep, switches>>,
           count' = [count EXCEPT ![cur] = Attach!Cardinality(selected)],
           \/ may' = may
           \/ may' = [may EXCEPT ![cur] = {selected}] /\ store[cur] \in {selected, None}
    PROVE  FilesInv'
<1>1. queue' = Tail(queue) /\ restore' = restore
  BY ChainSteps
<1>2. queue' = <<>> /\ restore = None /\ selected \in may[cur]
  BY <1>1, NewestLeaves
<1>3. /\ cur \in Attach!Drafts /\ selected \in SUBSET Files /\ may \in [Attach!Drafts -> SUBSET SUBSET Files]
      /\ count \in [Attach!Drafts -> (0..Cardinality(Files)) \cup {None}]
  BY DEF FilesInv, FilesTypes
<1>4. Attach!Cardinality(selected) \in 0..Cardinality(Files) /\ (Attach!Cardinality(selected) = 0 <=> selected = {})
  BY <1>3, FilesSettings
<1>5. /\ count' \in [Attach!Drafts -> (0..Cardinality(Files)) \cup {None}] /\ count'[cur] = Attach!Cardinality(selected)
      /\ \A d \in Attach!Drafts : d # cur => count'[d] = count[d]
  BY <1>3, <1>4
<1>6. /\ may' \in [Attach!Drafts -> SUBSET SUBSET Files] /\ selected \in may'[cur]
      /\ \A d \in Attach!Drafts : d # cur => may'[d] = may[d]
      /\ store[cur] = None \/ store[cur] \in may'[cur]
  BY <1>2, <1>3 DEF FilesInv, SelectionOK
<1>7. queue' \in Seq(Attach!Jobs) /\ Len(queue') = 0
  BY <1>2
<1>8. FilesTypes'
  <2>1. saving' \in BOOLEAN
    BY Zenon
  <2>2. QED
    BY <1>1, <1>5, <1>6, <1>7, <2>1 DEF FilesInv, FilesTypes
<1>9. ChainOK'
  BY <1>7 DEF ChainOK
<1>10. SelectionOK'
  BY <1>4, <1>5, <1>6 DEF SelectionOK
<1>11. DraftsOK'
  <2>1. \A d \in Attach!Drafts : d > cur => d # cur
    BY <1>3, FilesSettings
  <2>2. count'[cur] # None /\ ~(cur < cur)
    BY <1>3, <1>4, <1>5, FilesSettings
  <2>3. QED
    BY <1>3, <1>5, <1>6, <2>1, <2>2 DEF FilesInv, DraftsOK
<1>12. SweepOK'
  BY DEF FilesInv, SweepOK
<1>13. QED
  BY <1>8, <1>9, <1>10, <1>11, <1>12 DEF FilesInv

LEMMA FilesChain == FilesInv /\ Attach!chain => FilesInv'
<1> SUFFICES ASSUME FilesInv, Attach!chain PROVE FilesInv'
  OBVIOUS
<1>1. FilesTypes /\ queue # <<>> /\ switches' = switches
  BY DEF FilesInv, Attach!chain, Attach!saveReportAttachments, Attach!saved, Attach!saveFails, Attach!removeReportAttachments,
     Attach!bounds
<1>2. Head(queue) = queue[1] /\ queue[1] \in Attach!Jobs
  BY <1>1, ChainSteps
<1>3. StoreShrinks \/ store' # store
  BY <1>1 DEF StoreShrinks, FilesTypes
<1>4. CASE Newest(queue[1])
  <2>1. /\ queue[1].kind = "save" /\ Attach!Current
        /\ queue[1].draft = cur /\ queue[1].files = selected /\ selected \in may[cur]
        /\ queue[1].stored => store[cur] \in {selected, None}
    BY <1>1, <1>2, <1>4, NewestLeaves, CurrentIsNewest DEF Newest
  <2>2. CASE Attach!saveReportAttachments
    <3>1. /\ store' = [store EXCEPT ![cur] = selected] /\ queue' = [queue EXCEPT ![1].stored = TRUE]
          /\ UNCHANGED <<cur, selected, sent, saving, failed, restore, filesSequence, cleaning, count, marked, sweep, may, switches>>
      BY <1>2, <2>1, <2>2 DEF Attach!saveReportAttachments, Attach!bounds
    <3>2. QED
      BY <1>1, <1>4, <3>1, FilesWritten
  <2>3. CASE Attach!saved
    <3>1. /\ Attach!Advance /\ saving' = FALSE /\ queue[1].stored
          /\ count' = [count EXCEPT ![cur] = Attach!Cardinality(selected)]
          /\ may' = [may EXCEPT ![cur] = {selected}]
          /\ UNCHANGED <<cur, selected, sent, failed, filesSequence, cleaning, store, marked, sweep, switches>>
      BY <1>2, <2>1, <2>3 DEF Attach!saved, Attach!bounds
    <3>2. QED
      BY <1>1, <1>4, <2>1, <3>1, FilesNewestLeaves
  <2>4. CASE Attach!saveFails
    <3>1. /\ Attach!Advance /\ saving' = FALSE
          /\ count' = [count EXCEPT ![cur] = Attach!Cardinality(selected)]
          /\ UNCHANGED <<cur, selected, sent, failed, filesSequence, cleaning, store, marked, sweep, switches, may>>
      BY <1>2, <2>1, <2>4 DEF Attach!saveFails
    <3>2. QED
      BY <1>1, <1>4, <2>1, <3>1, FilesNewestLeaves
  <2>5. ~Attach!removeReportAttachments
    BY <1>2, <2>1 DEF Attach!removeReportAttachments
  <2>6. QED
    BY <2>2, <2>3, <2>4, <2>5 DEF Attach!chain
<1>5. CASE ~Newest(queue[1])
  <2>1. Attach!Current => Head(queue).kind # "save"
    BY <1>1, <1>5, CurrentIsNewest
  <2>2. CASE Attach!saveReportAttachments \/ Attach!saved
    <3>1. /\ Attach!Advance
          /\ UNCHANGED <<cur, selected, sent, saving, failed, filesSequence, cleaning, count, store, marked, sweep, may, switches>>
      BY <2>1, <2>2 DEF Attach!saveReportAttachments, Attach!saved, Attach!bounds
    <3>2. QED
      BY <1>1, <1>3, <1>5, <3>1, FilesOldLeaves
  <2>3. ~Attach!saveFails
    BY <2>1 DEF Attach!saveFails
  <2>4. CASE Attach!removeReportAttachments
    <3>1. /\ Attach!Advance
          /\ UNCHANGED <<cur, selected, sent, saving, failed, filesSequence, cleaning, count, marked, sweep, may, switches>>
          /\ store' = [store EXCEPT ![Head(queue).draft] = None] \/ store' = store
      BY <2>4 DEF Attach!removeReportAttachments
    <3>2. StoreShrinks
      BY <1>1, <1>3, <3>1, StoreRemoved
    <3>3. QED
      BY <1>1, <1>5, <3>1, <3>2, FilesOldLeaves
  <2>5. QED
    BY <2>2, <2>3, <2>4 DEF Attach!chain
<1>6. QED
  BY <1>4, <1>5

LEMMA FilesRead == FilesInv /\ Attach!readReportAttachments => FilesInv'
<1> SUFFICES ASSUME FilesInv, Attach!readReportAttachments PROVE FilesInv'
  OBVIOUS
<1>1. /\ restore # None /\ restore' = None /\ failed' \in BOOLEAN
      /\ \/ selected' = Attach!Stored(cur) /\ failed' = ~Attach!Complete
         \/ failed' = TRUE /\ selected' = selected
      /\ UNCHANGED <<cur, sent, saving, queue, filesSequence, cleaning, count, store, marked, sweep, may, switches>>
  BY Zenon DEF Attach!readReportAttachments, Attach!storeVars
<1>2. FilesTypes
  BY DEF FilesInv
<1>3. restore.expected \in 1..Cardinality(Files) /\ cur \in Attach!Drafts
  BY <1>1, <1>2 DEF FilesTypes
<1>4. Attach!Stored(cur) \in SUBSET Files /\ (store[cur] # None => Attach!Stored(cur) = store[cur])
  BY <1>2, <1>3 DEF FilesTypes, Attach!Stored
<1>5. ~failed' => store[cur] # None /\ selected' = store[cur]
  <2> SUFFICES ASSUME ~failed' PROVE store[cur] # None /\ selected' = store[cur]
    OBVIOUS
  <2>1. Attach!Complete /\ selected' = Attach!Stored(cur)
    BY <1>1
  <2>2. Attach!Cardinality(Attach!Stored(cur)) # 0
    BY <1>3, <2>1, FilesSettings DEF Attach!Complete
  <2>3. Attach!Stored(cur) # {}
    BY <1>4, <2>2, FilesSettings
  <2>4. QED
    BY <1>4, <2>1, <2>3 DEF Attach!Stored
<1>6. selected' \in SUBSET Files
  BY <1>1, <1>2, <1>4 DEF FilesTypes
<1>7. FilesTypes'
  BY <1>1, <1>2, <1>6 DEF FilesTypes
<1>8. ~saving
  BY <1>1 DEF FilesInv, ChainOK
<1>9. ChainOK'
  <2>1. ASSUME NEW i \in 1..Len(queue) PROVE JobOK(i)'
    <3>1. JobOK(i)
      BY DEF FilesInv, ChainOK
    <3>2. ~Newest(queue[i])
      BY <1>8, <3>1 DEF JobOK
    <3>3. QED
      BY <1>1, <3>1, <3>2 DEF JobOK, Newest
  <2>2. QED
    BY <1>1, <1>8, <2>1 DEF ChainOK
<1>10. SelectionOK'
  BY <1>1, <1>5 DEF FilesInv, SelectionOK
<1>11. DraftsOK' /\ SweepOK'
  BY <1>1 DEF FilesInv, DraftsOK, SweepOK
<1>12. QED
  BY <1>7, <1>9, <1>10, <1>11 DEF FilesInv

LEMMA FilesReload == FilesInv /\ Attach!reload => FilesInv'
<1> SUFFICES ASSUME FilesInv, Attach!reload PROVE FilesInv'
  OBVIOUS
<1>1. /\ queue' = <<>> /\ filesSequence' = 0 /\ ~saving' /\ ~failed' /\ ~cleaning' /\ selected' = {}
      /\ restore' = IF count[cur] = 0 THEN None ELSE [expected |-> count[cur], after |-> 0]
      /\ saving' \in BOOLEAN /\ failed' \in BOOLEAN /\ cleaning' \in BOOLEAN
      /\ UNCHANGED <<cur, count, store, marked, sweep, may, switches>>
  BY DEF Attach!reload, Attach!storeVars
<1>2. sent' \in BOOLEAN
  <2>1. sent' = (cur \in filesPending)
    BY DEF Attach!reload
  <2>2. QED
    BY <2>1
<1>3. FilesTypes /\ cur \in Attach!Drafts
  BY DEF FilesInv, FilesTypes
<1>4. count[cur] \in 0..Cardinality(Files)
  <2>1. count[cur] # None
    BY <1>3, FilesSettings DEF FilesInv, DraftsOK
  <2>2. QED
    BY <1>3, <2>1 DEF FilesTypes
<1>5. restore' \in [expected : 1..Cardinality(Files), after : {0}] \cup {None}
  BY <1>1, <1>4, FilesSettings
<1>6. queue' \in Seq(Attach!Jobs) /\ Len(queue') = 0
  BY <1>1
<1>7. FilesTypes'
  BY <1>1, <1>2, <1>3, <1>5, <1>6 DEF FilesTypes
<1>8. ChainOK'
  BY <1>1, <1>6 DEF ChainOK
<1>9. SelectionOK'
  <2>1. restore' = None => count[cur] = 0
    <3> SUFFICES ASSUME count[cur] # 0 PROVE restore' # None
      OBVIOUS
    <3>1. count[cur] \in 1..Cardinality(Files)
      BY <1>4, FilesSettings
    <3>2. QED
      BY <1>1, <3>1, FilesSettings
  <2>2. QED
    BY <1>1, <2>1 DEF FilesInv, SelectionOK
<1>10. DraftsOK' /\ SweepOK'
  BY <1>1 DEF FilesInv, DraftsOK, SweepOK
<1>11. QED
  BY <1>7, <1>8, <1>9, <1>10 DEF FilesInv

\* What a draft that is left leaves in the chain is saved or counted no more.
LEMMA FilesFresh ==
    ASSUME FilesInv, cur < MaxDrafts, NEW q, q \in Seq(Attach!Jobs), Attach!Fresh(q), filesSequence' \in Nat,
           \A i \in 1..Len(q) : /\ q[i].stored => i = 1
                                /\ q[i].kind = "save" => q[i].sequence < filesSequence',
           ~cleaning', cleaning' \in BOOLEAN, StoreShrinks, marked' \in {marked, marked \ {cur}},
           UNCHANGED <<sweep, may, switches>>
    PROVE  FilesInv'
<1>1. /\ cur' = cur + 1 /\ selected' = {} /\ ~saving' /\ ~failed' /\ restore' = None /\ ~sent'
      /\ saving' \in BOOLEAN /\ failed' \in BOOLEAN /\ sent' \in BOOLEAN
      /\ queue' = q /\ count' = [count EXCEPT ![cur] = None]
  BY DEF Attach!Fresh
<1>2. FilesTypes /\ DraftsOK /\ SweepOK
  BY DEF FilesInv
<1>3. cur \in Attach!Drafts /\ cur' \in Attach!Drafts /\ cur \in Int
  BY <1>1, <1>2, FilesSettings DEF FilesTypes
<1>4. /\ count' \in [Attach!Drafts -> (0..Cardinality(Files)) \cup {None}] /\ count'[cur] = None
      /\ \A d \in Attach!Drafts : d # cur => count'[d] = count[d]
  BY <1>1, <1>2, <1>3 DEF FilesTypes
<1>5. FilesTypes'
  BY <1>1, <1>2, <1>3, <1>4 DEF FilesTypes, StoreShrinks
<1>6. ChainOK'
  <2>1. ASSUME NEW i \in 1..Len(q) PROVE JobOK(i)'
    <3>1. q[i] \in Attach!Jobs /\ (q[i].kind = "save" => q[i].sequence < filesSequence')
      OBVIOUS
    <3>2. q[i].sequence \in Nat
      BY <3>1 DEF Attach!Jobs
    <3>3. q[i].kind = "save" => q[i].sequence <= filesSequence' /\ q[i].sequence # filesSequence'
      BY <3>1, <3>2
    <3>4. QED
      BY <1>1, <3>3 DEF JobOK, Newest
  <2>2. QED
    BY <1>1, <2>1 DEF ChainOK
<1>7. ASSUME NEW d \in Attach!Drafts
      PROVE  /\ count'[d] = None <=> d < cur'
             /\ d > cur' => count'[d] = 0 /\ store'[d] = None /\ may'[d] = {{}}
  <2>1. d \in Int /\ (d < cur' <=> d < cur \/ d = cur) /\ (d > cur' => d > cur /\ d # cur)
    BY <1>1, <1>3, FilesSettings
  <2>2. store'[d] \in {store[d], None}
    BY DEF StoreShrinks
  <2>3. QED
    BY <1>2, <1>4, <2>1, <2>2 DEF DraftsOK
<1>8. DraftsOK'
  BY <1>7 DEF DraftsOK
<1>9. SelectionOK'
  <2>1. cur' > cur
    BY <1>1, <1>3
  <2>2. count[cur'] = 0 /\ store[cur'] = None /\ may[cur'] = {{}}
    BY <1>2, <1>3, <2>1 DEF DraftsOK
  <2>3. store'[cur'] = None
    BY <1>3, <2>2 DEF StoreShrinks
  <2>4. QED
    BY <1>1, <2>2, <2>3 DEF SelectionOK
<1>10. SweepOK'
  <2>1. ASSUME sweep # None, NEW d \in sweep.marked PROVE d \in marked' \/ d < cur'
    <3>1. d \in Attach!Drafts /\ (d \in marked \/ d < cur)
      BY <1>2, <2>1 DEF SweepOK
    <3>2. d \in Int
      BY <3>1, FilesSettings
    <3>3. QED
      BY <1>1, <1>3, <3>1, <3>2
  <2>2. QED
    BY <1>2, <2>1 DEF SweepOK
<1>11. QED
  BY <1>5, <1>6, <1>8, <1>9, <1>10 DEF FilesInv

LEMMA FilesLeft == FilesInv /\ (Attach!changeTarget \/ Attach!succeeded) => FilesInv'
<1>1. ASSUME FilesInv, Attach!changeTarget PROVE FilesInv'
  <2> DEFINE job == [kind |-> "remove", draft |-> cur, files |-> {}, sequence |-> 0, stored |-> FALSE]
  <2>1. FilesTypes
    BY <1>1 DEF FilesInv
  <2>2. job \in Attach!Jobs /\ job.kind # "save" /\ ~job.stored
    BY <2>1 DEF FilesTypes, Attach!Jobs
  <2>3. /\ cur < MaxDrafts /\ Attach!Fresh(queue \o <<job>>) /\ filesSequence' = filesSequence + 1 /\ ~cleaning
        /\ UNCHANGED <<cleaning, store, marked, sweep, may, switches>>
    BY <1>1 DEF Attach!changeTarget, Attach!Removal, Attach!bounds, FilesInv, SweepOK
  <2> HIDE DEF job
  <2>4. queue \in Seq(Attach!Jobs) /\ filesSequence \in Nat /\ Len(queue) \in Nat
    BY <2>1 DEF FilesTypes
  <2>5. /\ queue \o <<job>> \in Seq(Attach!Jobs) /\ Len(queue \o <<job>>) = Len(queue) + 1
        /\ \A i \in 1..(Len(queue) + 1) :
              (queue \o <<job>>)[i] = IF i \in 1..Len(queue) THEN queue[i] ELSE job
    BY <2>2, <2>4
  <2>6. ASSUME NEW i \in 1..Len(queue \o <<job>>)
        PROVE  /\ (queue \o <<job>>)[i].stored => i = 1
               /\ (queue \o <<job>>)[i].kind = "save" => (queue \o <<job>>)[i].sequence < filesSequence'
    <3>1. CASE i \in 1..Len(queue)
      <4>1. (queue \o <<job>>)[i] = queue[i] /\ queue[i] \in Attach!Jobs /\ JobOK(i)
        BY <1>1, <2>4, <2>5, <3>1 DEF FilesInv, ChainOK
      <4>2. queue[i].sequence \in Nat
        BY <4>1 DEF Attach!Jobs
      <4>3. queue[i].kind = "save" => queue[i].sequence < filesSequence'
        BY <2>3, <2>4, <4>1, <4>2 DEF JobOK
      <4>4. QED
        BY <4>1, <4>3 DEF JobOK
    <3>2. CASE i \notin 1..Len(queue)
      BY <2>2, <2>5, <3>2
    <3>3. QED
      BY <3>1, <3>2
  <2>7. StoreShrinks /\ cleaning' \in BOOLEAN /\ ~cleaning' /\ filesSequence' \in Nat
    BY <2>1, <2>3, <2>4 DEF FilesTypes, StoreShrinks
  <2>8. marked' \in {marked, marked \ {cur}}
    BY <2>3
  <2>9. QED
    BY <1>1, <2>3, <2>5, <2>6, <2>7, <2>8, FilesFresh
<1>2. ASSUME FilesInv, Attach!succeeded PROVE FilesInv'
  <2>1. /\ cleaning /\ cleaning' = FALSE /\ Attach!Fresh(<<>>) /\ filesSequence' = 0
        /\ \/ store' = [store EXCEPT ![cur] = None] /\ marked' = marked \ {cur}
           \/ store' = store /\ marked' = marked
        /\ UNCHANGED <<sweep, may, switches>>
    BY <1>2 DEF Attach!succeeded
  <2>2. FilesTypes /\ cur < MaxDrafts
    BY <1>2, <2>1 DEF FilesInv, SweepOK
  <2>3. StoreShrinks
    <3>1. CASE store' = store
      BY <2>2, <3>1 DEF FilesTypes, StoreShrinks
    <3>2. CASE store' # store
      BY <2>1, <2>2, <3>2, StoreRemoved
    <3>3. QED
      BY <3>1, <3>2
  <2>4. cleaning' \in BOOLEAN /\ ~cleaning' /\ filesSequence' \in Nat /\ marked' \in {marked, marked \ {cur}}
    BY <2>1
  <2>5. PICK q : q = <<>>
    OBVIOUS
  <2>6. q \in Seq(Attach!Jobs) /\ Len(q) = 0 /\ Attach!Fresh(q)
    BY <2>1, <2>5
  <2>7. \A i \in 1..Len(q) : (q[i].stored => i = 1) /\ (q[i].kind = "save" => q[i].sequence < filesSequence')
    BY <2>6
  <2>8. QED
    BY <1>2, <2>1, <2>2, <2>3, <2>4, <2>6, <2>7, FilesFresh
<1>3. QED
  BY <1>1, <1>2

LEMMA FilesSent ==
    FilesInv /\ (Attach!submit \/ Attach!refused \/ Attach!markReportAttachmentCleanupPending) => FilesInv'
<1> SUFFICES ASSUME FilesInv, Attach!submit \/ Attach!refused \/ Attach!markReportAttachmentCleanupPending
             PROVE  FilesInv'
  OBVIOUS
<1>1. UNCHANGED <<cur, selected, saving, failed, restore, queue, filesSequence, count, store, sweep, may, switches>>
  BY DEF Attach!submit, Attach!refused, Attach!markReportAttachmentCleanupPending, Attach!bounds
<1>2. FilesTypes /\ SweepOK
  BY DEF FilesInv
<1>3. /\ sent' \in BOOLEAN /\ cleaning' \in BOOLEAN /\ (cleaning' => sent' /\ cur < MaxDrafts)
      /\ marked' \in {marked, marked \cup {cur}}
  <2>1. CASE Attach!submit
    BY <1>2, <2>1 DEF Attach!submit, FilesTypes, SweepOK
  <2>2. CASE Attach!refused
    BY <1>2, <2>2 DEF Attach!refused, FilesTypes, SweepOK
  <2>3. CASE Attach!markReportAttachmentCleanupPending
    BY <1>2, <2>3 DEF Attach!markReportAttachmentCleanupPending, FilesTypes, SweepOK
  <2>4. QED
    BY <2>1, <2>2, <2>3
<1>4. StoreShrinks /\ cur \in Attach!Drafts
  BY <1>1, <1>2 DEF FilesTypes, StoreShrinks
<1>5. DraftsOK' /\ SelectionOK' /\ store'[cur] \in {store[cur], None}
  BY <1>1, <1>4, DraftsKept
<1>6. ChainOK'
  BY <1>1, <1>5, ChainKept
<1>7. FilesTypes'
  BY <1>1, <1>2, <1>3 DEF FilesTypes
<1>8. SweepOK'
  BY <1>1, <1>2, <1>3 DEF SweepOK
<1>9. QED
  BY <1>5, <1>6, <1>7, <1>8 DEF FilesInv

\* The sweep only removes, and what it removes no draft counts, unless its report
\* succeeded.
LEMMA FilesSwept ==
    ASSUME FilesInv, Attach!sweeper
    PROVE  /\ FilesInv'
           /\ \A d \in Attach!Drafts : Attach!Counts(d) /\ store[d] # None /\ store'[d] = None => d \in marked
<1>1. UNCHANGED <<cur, selected, sent, saving, failed, restore, queue, filesSequence, cleaning, count, may, switches>>
  BY DEF Attach!sweeper, Attach!cleanupExpiredReportDraftData, Attach!retryPendingReportAttachmentCleanup, Attach!sweepStore,
     Attach!pageVars, Attach!storeVars, Attach!bounds
<1>2. FilesTypes /\ SweepOK /\ DraftsOK
  BY DEF FilesInv
<1>3. /\ StoreShrinks /\ marked' \in SUBSET Attach!Drafts /\ SweepOK'
      /\ \A d \in Attach!Drafts : Attach!Counts(d) /\ store[d] # None /\ store'[d] = None => d \in marked
  <2>1. CASE Attach!cleanupExpiredReportDraftData
    <3>1. /\ sweep' = [active |-> {d \in Attach!Drafts : Attach!Counts(d)}, marked |-> marked] /\ UNCHANGED <<store, marked>>
      BY <2>1 DEF Attach!cleanupExpiredReportDraftData, Attach!storeVars
    <3>2. StoreShrinks /\ marked' \in SUBSET Attach!Drafts
      BY <1>2, <3>1 DEF FilesTypes, StoreShrinks
    <3>3. sweep'.marked = marked /\ sweep'.marked \subseteq Attach!Drafts
      BY <1>2, <3>1 DEF FilesTypes
    <3>4. SweepOK'
      BY <1>1, <1>2, <3>1, <3>3 DEF SweepOK
    <3>5. QED
      BY <3>1, <3>2, <3>4
  <2>2. CASE Attach!retryPendingReportAttachmentCleanup
    <3> DEFINE d == Attach!Min(sweep.marked)
    <3>1. /\ sweep # None /\ sweep.marked # {} /\ sweep' = [sweep EXCEPT !.marked = @ \ {d}]
          /\ \/ store' = [store EXCEPT ![d] = None] /\ marked' = marked \ {d}
             \/ UNCHANGED <<store, marked>>
      BY <2>2 DEF Attach!retryPendingReportAttachmentCleanup
    <3>2. d \in sweep.marked
      BY <1>2, <3>1, FirstDraft DEF SweepOK
    <3> HIDE DEF d
    <3>3. d \in Attach!Drafts /\ (d \in marked \/ d < cur)
      BY <1>2, <3>1, <3>2 DEF SweepOK
    <3>4. StoreShrinks /\ \A e \in Attach!Drafts : e # d => store'[e] = store[e]
      <4>1. CASE store' = store
        BY <1>2, <4>1 DEF FilesTypes, StoreShrinks
      <4>2. CASE store' # store
        BY <1>2, <3>1, <4>2, StoreRemoved
      <4>3. QED
        BY <4>1, <4>2
    <3>5. ~Attach!Counts(d) \/ d \in marked
      BY <1>2, <3>3 DEF DraftsOK, Attach!Counts
    <3>6. SweepOK'
      <4>1. sweep' # None => sweep'.marked \subseteq sweep.marked \ {d}
        BY <3>1
      <4>2. ASSUME sweep' # None, NEW e \in sweep'.marked PROVE e \in Attach!Drafts /\ (e \in marked' \/ e < cur)
        <5>1. e \in sweep.marked /\ e # d
          BY <4>1, <4>2
        <5>2. e \in Attach!Drafts /\ (e \in marked \/ e < cur)
          BY <1>2, <3>1, <5>1 DEF SweepOK
        <5>3. QED
          BY <3>1, <5>1, <5>2
      <4>3. QED
        BY <1>1, <1>2, <4>2 DEF SweepOK
    <3>7. marked' \in SUBSET Attach!Drafts
      BY <1>2, <3>1 DEF FilesTypes
    <3>8. QED
      BY <3>4, <3>5, <3>6, <3>7
  <2>3. CASE Attach!sweepStore
    <3>1. /\ sweep' = None /\ marked' = marked
          /\ store' = [d \in Attach!Drafts |-> IF d \in sweep.active \/ Attach!Counts(d) THEN store[d] ELSE None]
      BY <2>3 DEF Attach!sweepStore, Attach!hasCurrentAttachmentDraft
    <3>2. StoreShrinks
      BY <1>2, <3>1 DEF FilesTypes, StoreShrinks
    <3>3. SweepOK'
      BY <1>1, <1>2, <3>1 DEF SweepOK
    <3>4. \A d \in Attach!Drafts : Attach!Counts(d) => store'[d] = store[d]
      BY <3>1
    <3>5. QED
      BY <1>2, <3>1, <3>2, <3>3, <3>4 DEF FilesTypes
  <2>4. QED
    BY <2>1, <2>2, <2>3 DEF Attach!sweeper
<1>4. DraftsOK' /\ SelectionOK' /\ store'[cur] \in {store[cur], None}
  BY <1>1, <1>3, DraftsKept
<1>5. ChainOK'
  BY <1>1, <1>4, ChainKept
<1>6. FilesTypes'
  BY <1>1, <1>2, <1>3 DEF FilesTypes, StoreShrinks
<1>7. QED
  BY <1>3, <1>4, <1>5, <1>6 DEF FilesInv

LEMMA FilesNext == MaxSwitches = 0 /\ FilesInv /\ [PartsNext]_partsVars => FilesInv'
<1> SUFFICES ASSUME MaxSwitches = 0, FilesInv, [PartsNext]_partsVars PROVE FilesInv'
  OBVIOUS
<1>1. ~Attach!switchLocale
  <2>1. switches = 0
    BY DEF FilesInv, FilesTypes
  <2>2. ~(switches < MaxSwitches)
    BY <2>1
  <2>3. QED
    BY <2>2 DEF Attach!switchLocale
<1>2. CASE Attach!Next
  BY <1>1, <1>2, FilesSelects, FilesChain, FilesRead, FilesReload, FilesLeft, FilesSent, FilesSwept, Zenon DEF Attach!Next
<1>3. CASE UNCHANGED filesVars
  <2>1. UNCHANGED <<cur, selected, sent, saving, failed, restore, queue, filesSequence, cleaning, count, store, marked,
                    sweep, may, switches>>
    BY <1>3 DEF filesVars
  <2>2. StoreShrinks
    BY <2>1 DEF FilesInv, FilesTypes, StoreShrinks
  <2>3. DraftsOK' /\ SelectionOK' /\ store'[cur] \in {store[cur], None}
    BY <2>1, <2>2, DraftsKept
  <2>4. ChainOK'
    BY <2>1, <2>3, ChainKept
  <2>5. FilesTypes' /\ SweepOK'
    BY <2>1 DEF FilesInv, FilesTypes, SweepOK
  <2>6. QED
    BY <2>3, <2>4, <2>5 DEF FilesInv
<1>4. QED
  BY <1>2, <1>3, Zenon DEF PartsNext, partsVars

\* For any files and any number of drafts, selections, failures of the storage,
\* reloads and starts of the application, in a language that does not change: a
\* form that can be sent holds a whole selection made for its draft, no older than
\* the last one reported saved, and no sweep takes files that a draft counts
\* unless its report succeeded (ReportFormPage.tsx, reportDraftStorage.ts).
THEOREM FilesIsSound == MaxSwitches = 0 => (PartsSpec => FilesSound)
<1> SUFFICES ASSUME MaxSwitches = 0 PROVE PartsSpec => FilesSound
  OBVIOUS
<1>1. PartsInit => FilesInv
  BY FilesInit DEF PartsInit
<1>2. FilesInv => (part = "files" => Attach!TypeOK /\ Attach!WholeSelection)
  <2> SUFFICES ASSUME FilesInv PROVE Attach!TypeOK /\ Attach!WholeSelection
    OBVIOUS
  <2>1. FilesTypes /\ ChainOK /\ SelectionOK /\ DraftsOK
    BY DEF FilesInv
  <2>2. Attach!WholeSelection
    BY <2>1 DEF SelectionOK, Attach!WholeSelection, Attach!Ready
  <2>3. cur \in Attach!Drafts /\ selected \subseteq Files /\ queue \in Seq(Attach!Jobs)
    BY <2>1 DEF FilesTypes
  <2>4. restore = None \/ (restore.expected \in 1..Attach!Cardinality(Files) /\ restore.after \in 0..Len(queue))
    <3>1. Attach!Cardinality(Files) = Cardinality(Files)
      BY DEF Attach!Cardinality, Cardinality, Attach!IsFiniteSet, IsFiniteSet
    <3>2. Len(queue) \in Nat
      BY <2>3
    <3>3. QED
      BY <2>1, <3>1, <3>2 DEF FilesTypes
  <2>5. \A i \in 1..Len(queue) : queue[i].stored => i = 1
    BY <2>1 DEF ChainOK, JobOK
  <2>6. saving => queue # <<>>
    BY <2>1 DEF ChainOK
  <2>7. QED
    BY <2>1, <2>2, <2>3, <2>4, <2>5, <2>6 DEF DraftsOK, Attach!TypeOK
<1>3. FilesInv /\ [PartsNext]_partsVars =>
        [ sweep # sweep' => \A d \in Attach!Drafts :
             Attach!Counts(d) /\ store[d] # None /\ store'[d] = None => d \in marked ]_Attach!vars
  <2> SUFFICES ASSUME FilesInv, [PartsNext]_partsVars, sweep # sweep'
               PROVE  \A d \in Attach!Drafts : Attach!Counts(d) /\ store[d] # None /\ store'[d] = None => d \in marked
    OBVIOUS
  <2>1. Attach!Next
    <3>1. ~UNCHANGED filesVars
      BY DEF filesVars
    <3>2. QED
      BY <3>1, Zenon DEF PartsNext, partsVars
  <2>2. Attach!sweeper
    <3>1. sweep' # sweep
      OBVIOUS
    <3>2. ~(\E files \in SUBSET Files : Attach!persistAttachmentSelection(files))
      BY <3>1 DEF Attach!persistAttachmentSelection
    <3>3. ~Attach!chain /\ ~Attach!readReportAttachments /\ ~Attach!switchLocale /\ ~Attach!reload
      BY <3>1 DEF Attach!chain, Attach!saveReportAttachments, Attach!saved, Attach!saveFails, Attach!removeReportAttachments,
         Attach!readReportAttachments, Attach!switchLocale, Attach!reload
    <3>4. /\ ~Attach!changeTarget /\ ~Attach!submit /\ ~Attach!refused /\ ~Attach!markReportAttachmentCleanupPending
          /\ ~Attach!succeeded
      BY <3>1 DEF Attach!changeTarget, Attach!submit, Attach!refused, Attach!markReportAttachmentCleanupPending, Attach!succeeded
    <3>5. QED
      BY <2>1, <3>2, <3>3, <3>4, Zenon DEF Attach!Next
  <2>3. QED
    BY <2>2, FilesSwept
<1>4. PartsSpec => []FilesInv
  BY <1>1, FilesNext, PTL DEF PartsSpec
<1>5. PartsSpec => Attach!SweepKeeps
  BY <1>3, <1>4, PTL DEF PartsSpec, Attach!SweepKeeps
<1>6. QED
  BY <1>2, <1>4, <1>5, PTL DEF FilesSound

-----------------------------------------------------------------------------
(* The import page.  What follows is said of any form f, address u, number n  *)
(* of previews and set t of previews for which the box was ticked.            *)

ImportAnswers == {None, "ok", "error", "preview", "queued", "expired", "completed", "completed_with_errors"}
ImportCall(n) ==
    [kind : {"upload", "rows", "confirm", "status", "failures"}, id : 1..n \cup {None}, page : {1, 2},
     allow : BOOLEAN, seq : Nat, live : BOOLEAN, answer : ImportAnswers]
ImportAddress(n) == [preview : 1..n \cup {None}, page : {1, 2}, batch : 1..n \cup {None}]
PageForm(n) ==
    [file : BOOLEAN, preview : [id : 1..n, page : {1, 2}] \cup {None}, loadedKey : [id : 1..n, page : {1, 2}] \cup {None},
     allow : BOOLEAN, loading : BOOLEAN, seq : Nat, batch : [id : 1..n, state : ImportAnswers] \cup {None},
     failures : 1..n \cup {None}, timer : BOOLEAN, calls : SUBSET ImportCall(n)]

\* A call names a preview that exists, an upload is known by its number, one
\* confirmation is made, and it allows what was ticked for its preview.
CallOK(c, f, n, t) ==
    /\ c.kind # "upload" \/ c.answer \notin {None, "error"} => c.id \in 1..n
    /\ c.kind \in {"upload", "rows"} => c.seq <= f.seq
    /\ c.kind = "confirm" /\ c.allow => c.id \in t

CallsOK(f, n, t) ==
    /\ \A c \in f.calls : CallOK(c, f, n, t)
    /\ \A c, d \in f.calls :
          /\ c.kind = "upload" /\ d.kind = "upload" /\ c.seq = d.seq => c = d
          /\ c.kind = "confirm" /\ d.kind = "confirm" => c = d
    /\ f.allow /\ f.preview # None => f.preview.id \in t

\* What is loaded is a page of the preview in the address; an upload that still
\* counts has none there; and one request at most asks for the page in it.
PreviewOK(f, u) ==
    /\ f.preview # None => f.preview = f.loadedKey
    /\ f.loadedKey # None => u.preview # None /\ f.loadedKey.id = u.preview
    /\ \A c \in f.calls :
          /\ c.kind = "rows" /\ c.live => c.id = u.preview /\ c.page = u.page
          /\ c.kind = "upload" /\ c.seq = f.seq => u.preview = None
    /\ \A c, d \in f.calls : c.kind = "rows" /\ d.kind = "rows" /\ c.live /\ d.live => c = d

\* What is known of a batch, and what asks for it, is of the one in the address;
\* the timer runs only while nothing else asks.
BatchKnown(f, u) ==
    /\ f.timer => u.batch # None
    /\ f.batch # None => u.batch # None /\ f.batch.id = u.batch
    /\ f.failures # None => u.batch # None /\ f.failures = u.batch
    /\ \A c \in f.calls :
          /\ c.kind \in {"status", "failures"} /\ c.live => c.id = u.batch
          /\ c.kind = "status" /\ c.live => ~f.timer
    /\ \A c, d \in f.calls : c.kind = "status" /\ d.kind = "status" /\ c.live /\ d.live => c = d

NoConfirm(f) == \A c \in f.calls : c.kind # "confirm"

FormOK(f, u, n, t) == f \in PageForm(n) /\ CallsOK(f, n, t) /\ PreviewOK(f, u) /\ BatchKnown(f, u)

LEMMA ImportSettings ==
    /\ MaxUploads \in Nat /\ MaxConfirms \in Nat /\ None \notin Nat
    /\ \A n \in 1..(MaxUploads + 1), p \in {1, 2} : None # [id |-> n, page |-> p]
  BY PartsAssumption DEF Import!ImportAssumption

\* Calls are dropped: what they were stays, but they are live no more.
LEMMA Drops ==
    ASSUME NEW n \in Nat, NEW f \in PageForm(n), NEW kinds
    PROVE  /\ Import!Drop(f, kinds) = [f EXCEPT !.calls = Import!Drop(f, kinds).calls]
           /\ Import!Drop(f, kinds).calls \in SUBSET ImportCall(n)
           /\ \A c \in Import!Drop(f, kinds).calls :
                 \/ c \in f.calls /\ c.kind \notin kinds
                 \/ c.kind \in kinds /\ ~c.live /\ \E d \in f.calls : c = [d EXCEPT !.live = FALSE]
           /\ \A d \in f.calls : d.kind \notin kinds => d \in Import!Drop(f, kinds).calls
<1> DEFINE g == Import!Drop(f, kinds)
           dropped == {IF c.kind \in kinds THEN [c EXCEPT !.live = FALSE] ELSE c : c \in f.calls}
<1>1. g = [f EXCEPT !.calls = dropped]
  BY DEF Import!Drop
<1>2. g.calls = dropped
  BY <1>1 DEF PageForm
<1>3. ASSUME NEW d \in f.calls PROVE [d EXCEPT !.live = FALSE] \in ImportCall(n) /\ d \in ImportCall(n)
  BY DEF PageForm, ImportCall
<1>4. \A c \in dropped : \E d \in f.calls : c = IF d.kind \in kinds THEN [d EXCEPT !.live = FALSE] ELSE d
  OBVIOUS
<1>5. ASSUME NEW c \in dropped
      PROVE  /\ c \in ImportCall(n)
             /\ \/ c \in f.calls /\ c.kind \notin kinds
                \/ c.kind \in kinds /\ ~c.live /\ \E d \in f.calls : c = [d EXCEPT !.live = FALSE]
  <2>1. PICK d \in f.calls : c = IF d.kind \in kinds THEN [d EXCEPT !.live = FALSE] ELSE d
    BY <1>4
  <2>2. CASE d.kind \in kinds
    <3>1. c.kind = d.kind /\ ~c.live
      BY <1>3, <2>1, <2>2 DEF ImportCall
    <3>2. QED
      BY <1>3, <2>1, <2>2, <3>1
  <2>3. CASE d.kind \notin kinds
    BY <1>3, <2>1, <2>3
  <2>4. QED
    BY <2>2, <2>3
<1>6. \A d \in f.calls : d.kind \notin kinds => d \in dropped
  OBVIOUS
<1> HIDE DEF g, dropped
<1>7. g = [f EXCEPT !.calls = g.calls] /\ g.calls \in SUBSET ImportCall(n)
  BY <1>1, <1>2, <1>5
<1>8. QED
  BY <1>2, <1>5, <1>6, <1>7 DEF g

\* What is left of the calls after some are dropped.
LEMMA DropKeeps ==
    ASSUME NEW n \in Nat, NEW t, NEW f \in PageForm(n), CallsOK(f, n, t), NEW kinds, "upload" \notin kinds, "confirm" \notin kinds
    PROVE  /\ Import!Drop(f, kinds) \in PageForm(n) /\ CallsOK(Import!Drop(f, kinds), n, t)
           /\ \A x \in {"file", "preview", "loadedKey", "allow", "loading", "seq", "batch", "failures", "timer"} :
                 Import!Drop(f, kinds)[x] = f[x]
<1> DEFINE g == Import!Drop(f, kinds)
<1>1. /\ g = [f EXCEPT !.calls = g.calls] /\ g.calls \in SUBSET ImportCall(n)
      /\ \A c \in g.calls :
            \/ c \in f.calls /\ c.kind \notin kinds
            \/ c.kind \in kinds /\ ~c.live /\ \E d \in f.calls : c = [d EXCEPT !.live = FALSE]
  BY Drops
<1> HIDE DEF g
<1>2. /\ g \in PageForm(n) /\ g.file = f.file /\ g.preview = f.preview /\ g.loadedKey = f.loadedKey /\ g.allow = f.allow
      /\ g.loading = f.loading /\ g.seq = f.seq /\ g.batch = f.batch /\ g.failures = f.failures /\ g.timer = f.timer
  BY <1>1 DEF PageForm
<1>3. ASSUME NEW c \in g.calls PROVE CallOK(c, g, n, t)
  <2>1. CASE c \in f.calls
    BY <1>2, <2>1 DEF CallsOK, CallOK
  <2>2. CASE c \notin f.calls
    <3>1. PICK d \in f.calls : c = [d EXCEPT !.live = FALSE]
      BY <1>1, <2>2
    <3>2. d \in ImportCall(n) /\ CallOK(d, f, n, t)
      BY DEF CallsOK, PageForm
    <3>3. /\ c.kind = d.kind /\ c.id = d.id /\ c.seq = d.seq /\ c.allow = d.allow /\ c.answer = d.answer
      BY <3>1, <3>2 DEF ImportCall
    <3>4. QED
      BY <1>2, <3>2, <3>3 DEF CallOK
  <2>3. QED
    BY <2>1, <2>2
<1>4. \A c \in g.calls : c.kind \in {"upload", "confirm"} => c \in f.calls
  BY <1>1
<1>5. CallsOK(g, n, t)
  BY <1>2, <1>3, <1>4 DEF CallsOK
<1>6. QED
  BY <1>2, <1>5 DEF g

LEMMA PreviewMoves ==
    ASSUME NEW n \in Nat, NEW t, NEW f \in PageForm(n), NEW u \in ImportAddress(n), CallsOK(f, n, t),
           f.loadedKey # None /\ u.preview # None => f.loadedKey.id = u.preview,
           f.preview # None /\ u.preview # None => f.preview = f.loadedKey,
           u.preview # None /\ f.loadedKey = Import!Key(u) => \A c \in f.calls : ~(c.kind = "upload" /\ c.seq = f.seq)
    PROVE  LET g == Import!PreviewEffect(f, u)
           IN  /\ g \in PageForm(n) /\ CallsOK(g, n, t) /\ PreviewOK(g, u)
               /\ \A w : BatchKnown(f, w) => BatchKnown(g, w)
               /\ NoConfirm(f) => NoConfirm(g)
<1> DEFINE h == Import!Drop(f, {"rows"})
           g == Import!PreviewEffect(f, u)
           call == Import!Call("rows", u.preview, u.page, f.seq + 1)
<1>1. /\ h \in PageForm(n) /\ CallsOK(h, n, t)
      /\ h.file = f.file /\ h.preview = f.preview /\ h.loadedKey = f.loadedKey /\ h.allow = f.allow
      /\ h.loading = f.loading /\ h.seq = f.seq /\ h.batch = f.batch /\ h.failures = f.failures /\ h.timer = f.timer
  BY DropKeeps
<1>2. \A c \in h.calls : (c \in f.calls /\ c.kind # "rows") \/ (c.kind = "rows" /\ ~c.live)
  BY Drops
<1>3. g = IF u.preview = None THEN [h EXCEPT !.loadedKey = None, !.preview = None]
          ELSE IF f.loadedKey = Import!Key(u) THEN h
          ELSE [h EXCEPT !.seq = @ + 1, !.loading = TRUE, !.calls = @ \cup {call}]
  BY DEF Import!PreviewEffect
<1>4. u.preview \in 1..n \cup {None} /\ u.page \in {1, 2}
  BY DEF ImportAddress
<1> HIDE DEF h, g
<1>5. CASE u.preview = None
  <2>1. g = [h EXCEPT !.loadedKey = None, !.preview = None]
    BY <1>3, <1>5
  <2>2. /\ g \in PageForm(n) /\ g.preview = None /\ g.loadedKey = None /\ g.calls = h.calls /\ g.seq = f.seq
        /\ g.timer = f.timer /\ g.batch = f.batch /\ g.failures = f.failures
    BY <1>1, <2>1 DEF PageForm
  <2>3. CallsOK(g, n, t)
    BY <1>1, <2>2 DEF CallsOK, CallOK
  <2>4. PreviewOK(g, u)
    BY <1>2, <1>5, <2>2 DEF PreviewOK
  <2>5. \A w : BatchKnown(f, w) => BatchKnown(g, w)
    BY <1>2, <2>2 DEF BatchKnown
  <2>6. NoConfirm(f) => NoConfirm(g)
    BY <1>2, <2>2 DEF NoConfirm
  <2>7. QED
    BY <2>2, <2>3, <2>4, <2>5, <2>6 DEF g
<1>6. CASE u.preview # None /\ f.loadedKey = Import!Key(u)
  <2>1. g = h
    BY <1>3, <1>6
  <2>2. PreviewOK(g, u)
    BY <1>1, <1>2, <1>6, <2>1 DEF PreviewOK
  <2>3. \A w : BatchKnown(f, w) => BatchKnown(g, w)
    BY <1>1, <1>2, <2>1 DEF BatchKnown
  <2>4. NoConfirm(f) => NoConfirm(g)
    BY <1>2, <2>1 DEF NoConfirm
  <2>5. QED
    BY <1>1, <2>1, <2>2, <2>3, <2>4 DEF g
<1>7. CASE u.preview # None /\ f.loadedKey # Import!Key(u)
  <2>1. g = [h EXCEPT !.seq = @ + 1, !.loading = TRUE, !.calls = @ \cup {call}]
    BY <1>3, <1>7
  <2>2. /\ call \in ImportCall(n) /\ call.kind = "rows" /\ call.id = u.preview /\ call.page = u.page
        /\ call.seq = f.seq + 1 /\ call.id \in 1..n
    <3>1. f.seq + 1 \in Nat
      BY DEF PageForm
    <3>2. QED
      BY <1>4, <1>7, <3>1 DEF Import!Call, ImportCall, ImportAnswers
  <2> HIDE DEF call
  <2>3. /\ g \in PageForm(n) /\ g.preview = f.preview /\ g.loadedKey = f.loadedKey /\ g.calls = h.calls \cup {call}
        /\ g.seq = f.seq + 1 /\ g.timer = f.timer /\ g.batch = f.batch /\ g.failures = f.failures /\ g.allow = f.allow
    <3>1. h.seq + 1 \in Nat /\ h.calls \cup {call} \in SUBSET ImportCall(n)
      BY <1>1, <2>2 DEF PageForm
    <3> DEFINE calls == h.calls \cup {call}
               seq == h.seq + 1
    <3>2. g = [h EXCEPT !.seq = seq, !.loading = TRUE, !.calls = calls]
      BY <2>1
    <3>3. calls = h.calls \cup {call} /\ seq = f.seq + 1 /\ calls \in SUBSET ImportCall(n) /\ seq \in Nat
      BY <1>1, <3>1
    <3> HIDE DEF calls, seq
    <3>4. QED
      BY <1>1, <3>2, <3>3 DEF PageForm
  <2>4. f.seq \in Nat /\ \A c \in h.calls : c.seq \in Nat
    BY <1>1 DEF PageForm, ImportCall
  <2>5. CallsOK(g, n, t)
    <3>1. ASSUME NEW c \in g.calls PROVE CallOK(c, g, n, t)
      <4>1. CASE c \in h.calls
        BY <1>1, <2>3, <2>4, <4>1 DEF CallsOK, CallOK
      <4>2. CASE c = call
        BY <2>2, <2>3, <2>4, <4>2 DEF CallOK
      <4>3. QED
        BY <2>3, <4>1, <4>2
    <3>2. \A c \in g.calls : c.kind \in {"upload", "confirm"} => c \in h.calls
      BY <2>2, <2>3
    <3>3. QED
      BY <1>1, <2>3, <3>1, <3>2 DEF CallsOK
  <2>6. \A c \in g.calls : c.kind = "rows" /\ c.live => c = call
    BY <1>2, <2>3
  <2>7. \A c \in g.calls : ~(c.kind = "upload" /\ c.seq = g.seq)
    <3>1. \A c \in h.calls : c.kind = "upload" => c.seq <= f.seq
      BY <1>1 DEF CallsOK, CallOK
    <3>2. QED
      BY <2>2, <2>3, <2>4, <3>1
  <2>8. PreviewOK(g, u)
    BY <1>7, <2>2, <2>3, <2>6, <2>7 DEF PreviewOK
  <2>9. ASSUME NEW w, BatchKnown(f, w) PROVE BatchKnown(g, w)
    <3>1. \A c \in g.calls : c.kind \in {"status", "failures"} => c \in f.calls
      BY <1>2, <2>2, <2>3
    <3>2. QED
      BY <2>3, <2>9, <3>1 DEF BatchKnown
  <2>10. NoConfirm(f) => NoConfirm(g)
    BY <1>2, <2>2, <2>3 DEF NoConfirm
  <2>11. QED
    BY <2>3, <2>5, <2>8, <2>9, <2>10 DEF g
<1>8. QED
  BY <1>5, <1>6, <1>7

LEMMA BatchMoves ==
    ASSUME NEW n \in Nat, NEW t, NEW f \in PageForm(n), NEW from, NEW u \in ImportAddress(n), CallsOK(f, n, t),
           BatchKnown(f, from), from.batch = None \/ u.batch = None, PreviewOK(f, u)
    PROVE  /\ FormOK(Import!BatchEffect(f, u), u, n, t)
           /\ NoConfirm(f) => NoConfirm(Import!BatchEffect(f, u))
<1> DEFINE kinds == {"status", "failures"}
           d == Import!Drop(f, kinds)
           h == [d EXCEPT !.timer = FALSE]
           g == Import!BatchEffect(f, u)
           call == Import!Call("status", u.batch, 1, 0)
<1>1. /\ d \in PageForm(n) /\ CallsOK(d, n, t)
      /\ d.file = f.file /\ d.preview = f.preview /\ d.loadedKey = f.loadedKey /\ d.allow = f.allow
      /\ d.loading = f.loading /\ d.seq = f.seq /\ d.batch = f.batch /\ d.failures = f.failures
  BY DropKeeps
<1>2. \A c \in d.calls : (c \in f.calls /\ c.kind \notin kinds) \/ (c.kind \in kinds /\ ~c.live)
  BY Drops
<1>3. g = IF u.batch = None THEN [h EXCEPT !.batch = None, !.failures = None]
          ELSE [h EXCEPT !.calls = @ \cup {call}]
  BY DEF Import!BatchEffect
<1> HIDE DEF d
<1>4. /\ h \in PageForm(n) /\ CallsOK(h, n, t) /\ h.timer = FALSE /\ h.calls = d.calls
      /\ h.preview = f.preview /\ h.loadedKey = f.loadedKey /\ h.allow = f.allow
      /\ h.seq = f.seq /\ h.batch = f.batch /\ h.failures = f.failures
  <2>1. /\ h \in PageForm(n) /\ h.timer = FALSE /\ h.calls = d.calls
        /\ h.preview = f.preview /\ h.loadedKey = f.loadedKey /\ h.allow = f.allow
        /\ h.seq = f.seq /\ h.batch = f.batch /\ h.failures = f.failures
    BY <1>1 DEF PageForm
  <2>2. CallsOK(h, n, t)
    BY <1>1, <2>1 DEF CallsOK, CallOK
  <2>3. QED
    BY <2>1, <2>2
<1>5. u.batch \in 1..n \cup {None}
  BY DEF ImportAddress
<1> HIDE DEF h, g
<1>6. CASE u.batch = None
  <2>1. g = [h EXCEPT !.batch = None, !.failures = None]
    BY <1>3, <1>6
  <2>2. /\ g \in PageForm(n) /\ g.batch = None /\ g.failures = None /\ g.calls = d.calls /\ g.seq = f.seq
        /\ g.preview = f.preview /\ g.loadedKey = f.loadedKey /\ g.allow = f.allow /\ g.timer = FALSE
    BY <1>4, <2>1 DEF PageForm
  <2>3. CallsOK(g, n, t)
    BY <1>4, <2>2 DEF CallsOK, CallOK
  <2>4. PreviewOK(g, u)
    BY <1>2, <2>2 DEF PreviewOK
  <2>5. BatchKnown(g, u)
    BY <1>2, <2>2 DEF BatchKnown
  <2>6. NoConfirm(f) => NoConfirm(g)
    BY <1>2, <2>2 DEF NoConfirm
  <2>7. QED
    BY <2>2, <2>3, <2>4, <2>5, <2>6 DEF g, FormOK
<1>7. CASE u.batch # None
  <2>1. g = [h EXCEPT !.calls = @ \cup {call}]
    BY <1>3, <1>7
  <2>2. /\ call \in ImportCall(n) /\ call.kind = "status" /\ call.id = u.batch /\ call.id \in 1..n
    BY <1>5, <1>7 DEF Import!Call, ImportCall, ImportAnswers
  <2> HIDE DEF call
  <2>3. /\ g \in PageForm(n) /\ g.calls = d.calls \cup {call} /\ g.seq = f.seq /\ g.batch = f.batch /\ g.failures = f.failures
        /\ g.preview = f.preview /\ g.loadedKey = f.loadedKey /\ g.allow = f.allow /\ g.timer = FALSE
    <3> DEFINE calls == h.calls \cup {call}
    <3>1. g = [h EXCEPT !.calls = calls] /\ calls = d.calls \cup {call} /\ calls \in SUBSET ImportCall(n)
      BY <1>1, <1>4, <2>1, <2>2 DEF PageForm
    <3> HIDE DEF calls
    <3>2. QED
      BY <1>4, <3>1 DEF PageForm
  <2>4. CallsOK(g, n, t)
    <3>1. ASSUME NEW c \in g.calls PROVE CallOK(c, g, n, t)
      <4>1. CASE c \in h.calls
        BY <1>4, <2>3, <4>1 DEF CallsOK, CallOK
      <4>2. CASE c = call
        BY <2>2, <2>3, <4>2 DEF CallOK
      <4>3. QED
        BY <1>4, <2>3, <4>1, <4>2
    <3>2. \A c \in g.calls : c.kind \in {"upload", "confirm"} => c \in h.calls
      BY <1>4, <2>2, <2>3
    <3>3. QED
      BY <1>4, <2>3, <3>1, <3>2 DEF CallsOK
  <2>5. PreviewOK(g, u)
    <3>1. \A c \in g.calls : c.kind \in {"upload", "rows"} => c \in f.calls
      BY <1>2, <2>2, <2>3
    <3>2. QED
      BY <2>3, <3>1 DEF PreviewOK
  <2>6. BatchKnown(g, u)
    <3>1. \A c \in g.calls : c.kind \in kinds /\ c.live => c = call
      BY <1>2, <2>3
    <3>2. f.batch = None /\ f.failures = None
      BY <1>7 DEF BatchKnown
    <3>3. ~g.timer
      BY <2>3
    <3>4. QED
      BY <2>2, <2>3, <3>1, <3>2, <3>3 DEF BatchKnown
  <2>7. NoConfirm(f) => NoConfirm(g)
    BY <1>2, <2>2, <2>3 DEF NoConfirm
  <2>8. QED
    BY <2>3, <2>4, <2>5, <2>6, <2>7 DEF g, FormOK
<1>8. QED
  BY <1>6, <1>7

\* What the effects make of a form when the address changes.
LEMMA Navigates ==
    ASSUME NEW n \in Nat, NEW t, NEW f \in PageForm(n), NEW from, NEW u \in ImportAddress(n), CallsOK(f, n, t),
           BatchKnown(f, from), from.batch = u.batch \/ from.batch = None \/ u.batch = None,
           Import!Key(from) = Import!Key(u) => PreviewOK(f, u),
           f.loadedKey # None /\ u.preview # None => f.loadedKey.id = u.preview,
           f.preview # None /\ u.preview # None => f.preview = f.loadedKey,
           u.preview # None /\ f.loadedKey = Import!Key(u) => \A c \in f.calls : ~(c.kind = "upload" /\ c.seq = f.seq)
    PROVE  /\ FormOK(Import!Navigated(f, from, u), u, n, t)
           /\ NoConfirm(f) => NoConfirm(Import!Navigated(f, from, u))
<1> DEFINE g == IF Import!Key(from) = Import!Key(u) THEN f ELSE Import!PreviewEffect(f, u)
<1>1. /\ g \in PageForm(n) /\ CallsOK(g, n, t) /\ PreviewOK(g, u) /\ BatchKnown(g, from)
      /\ NoConfirm(f) => NoConfirm(g)
  <2>1. CASE Import!Key(from) = Import!Key(u)
    BY <2>1
  <2>2. CASE Import!Key(from) # Import!Key(u)
    <3>1. g = Import!PreviewEffect(f, u)
      BY <2>2
    <3> HIDE DEF g
    <3>2. QED
      BY <3>1, PreviewMoves
  <2>3. QED
    BY <2>1, <2>2
<1>2. Import!Navigated(f, from, u) = IF from.batch = u.batch THEN g ELSE Import!BatchEffect(g, u)
  BY DEF Import!Navigated
<1> HIDE DEF g
<1>3. CASE from.batch = u.batch
  <2>1. BatchKnown(g, u)
    BY <1>1, <1>3 DEF BatchKnown
  <2>2. QED
    BY <1>1, <1>2, <1>3, <2>1 DEF FormOK
<1>4. CASE from.batch # u.batch
  BY <1>1, <1>2, <1>4, BatchMoves
<1>5. QED
  BY <1>3, <1>4

\* Two addresses next to each other in the history, and the history: no two of
\* its batches differ.
Beside(a, b) == a.preview = None \/ b.preview = None \/ a.preview = b.preview
NoBatch(s)   == \A i \in 1..Len(s) : s[i].batch = None
StackOK(s, n) ==
    /\ s \in Seq(ImportAddress(n)) /\ Len(s) >= 1
    /\ \A i \in 1..Len(s) : i > 1 => Beside(s[i - 1], s[i])
    /\ \A i, j \in 1..Len(s) : s[i].batch = None \/ s[j].batch = None \/ s[i].batch = s[j].batch

\* After k confirmations: while one is under way no address has a batch.
ConfirmsOK(f, s, k) ==
    /\ k \in Nat /\ k <= MaxConfirms
    /\ NoConfirm(f) \/ NoBatch(s)
    /\ k = 0 => NoConfirm(f) /\ NoBatch(s)

ImportPreview == [state : {"preview", "queued", "expired", "completed", "completed_with_errors"}, update : BOOLEAN]
ImportBounds  == [uploads : Nat, turns : Nat, confirms : Nat, back : Nat, lost : Nat, ticks : Nat]

ImportInv ==
    /\ previews \in Seq(ImportPreview) /\ Len(previews) <= MaxUploads + 1 /\ bounds \in ImportBounds
    /\ Import!UpdateTicked
    /\ StackOK(stack, Len(previews))
    /\ ConfirmsOK(importForm, stack, bounds.confirms)
    /\ FormOK(importForm, stack[Len(stack)], Len(previews), ticked)

\* From a form that fits its address, to an address beside it.
LEMMA NavigatesFrom ==
    ASSUME NEW n \in 0..(MaxUploads + 1), NEW t, NEW f, NEW from \in ImportAddress(n), NEW u \in ImportAddress(n),
           FormOK(f, from, n, t), Beside(from, u), from.batch = u.batch \/ from.batch = None \/ u.batch = None
    PROVE  /\ FormOK(Import!Navigated(f, from, u), u, n, t)
           /\ NoConfirm(f) => NoConfirm(Import!Navigated(f, from, u))
<1>1. f \in PageForm(n) /\ CallsOK(f, n, t) /\ PreviewOK(f, from) /\ BatchKnown(f, from) /\ n \in Nat
  BY ImportSettings DEF FormOK
<1>2. Import!Key(from) = Import!Key(u) => PreviewOK(f, u)
  BY <1>1 DEF Import!Key, PreviewOK
<1>3. f.loadedKey # None /\ u.preview # None => f.loadedKey.id = u.preview
  BY <1>1 DEF PreviewOK, Beside
<1>4. f.preview # None /\ u.preview # None => f.preview = f.loadedKey
  BY <1>1 DEF PreviewOK
<1>5. ASSUME u.preview # None, f.loadedKey = Import!Key(u)
      PROVE  \A c \in f.calls : ~(c.kind = "upload" /\ c.seq = f.seq)
  <2>1. u.preview \in 1..(MaxUploads + 1) /\ u.page \in {1, 2}
    BY <1>1, <1>5, ImportSettings DEF ImportAddress
  <2>2. f.loadedKey # None
    BY <1>5, <2>1, ImportSettings DEF Import!Key
  <2>3. from.preview # None
    BY <1>1, <2>2 DEF PreviewOK
  <2>4. QED
    BY <1>1, <2>3 DEF PreviewOK
<1>6. QED
  BY <1>1, <1>2, <1>3, <1>4, <1>5, Navigates

\* More previews, and more boxes ticked.
LEMMA FormGrows ==
    ASSUME NEW n \in Nat, NEW m \in Nat, n <= m, NEW t, NEW r, t \subseteq r, NEW f, NEW u, FormOK(f, u, n, t)
    PROVE  FormOK(f, u, m, r)
<1>1. ImportCall(n) \subseteq ImportCall(m)
  BY DEF ImportCall
<1>2. f \in PageForm(m)
  BY <1>1 DEF FormOK, PageForm
<1>3. CallsOK(f, m, r)
  <2>1. \A c \in f.calls : CallOK(c, f, m, r)
    BY DEF FormOK, CallsOK, CallOK
  <2>2. QED
    BY <2>1 DEF FormOK, CallsOK
<1>4. QED
  BY <1>2, <1>3 DEF FormOK

\* A call is over.
LEMMA CallLeaves ==
    ASSUME NEW n \in Nat, NEW t, NEW f, NEW u, NEW c \in f.calls, FormOK(f, u, n, t)
    PROVE  FormOK([f EXCEPT !.calls = @ \ {c}], u, n, t)
<1> DEFINE g == [f EXCEPT !.calls = @ \ {c}]
<1>1. f \in PageForm(n)
  BY DEF FormOK
<1>2. /\ g \in PageForm(n) /\ g.calls \subseteq f.calls /\ g.preview = f.preview /\ g.loadedKey = f.loadedKey /\ g.allow = f.allow
      /\ g.loading = f.loading /\ g.seq = f.seq /\ g.batch = f.batch /\ g.failures = f.failures /\ g.timer = f.timer
  BY <1>1 DEF PageForm
<1> HIDE DEF g
<1>3. CallsOK(g, n, t)
  BY <1>2 DEF FormOK, CallsOK, CallOK
<1>4. PreviewOK(g, u)
  BY <1>2 DEF FormOK, PreviewOK
<1>5. BatchKnown(g, u)
  BY <1>2 DEF FormOK, BatchKnown
<1>6. QED
  BY <1>2, <1>3, <1>4, <1>5 DEF FormOK, g

\* A handler answers a call.
LEMMA CallAnswered ==
    ASSUME NEW n \in Nat, NEW t, NEW f, NEW u, NEW c \in f.calls, NEW d \in ImportCall(n), FormOK(f, u, n, t),
           d.kind = c.kind, d.page = c.page, d.allow = c.allow, d.seq = c.seq, d.live = c.live,
           d.kind = "upload" \/ d.id = c.id,
           d.kind = "upload" /\ d.answer \notin {None, "error"} => d.id \in 1..n
    PROVE  FormOK([f EXCEPT !.calls = (@ \ {c}) \cup {d}], u, n, t)
<1> DEFINE calls == (f.calls \ {c}) \cup {d}
           g == [f EXCEPT !.calls = calls]
<1>1. f \in PageForm(n)
  BY DEF FormOK
<1>2. calls \in SUBSET ImportCall(n) /\ \A e \in calls : e = d \/ (e \in f.calls /\ e # c)
  BY <1>1 DEF PageForm
<1>3. g = [f EXCEPT !.calls = (@ \ {c}) \cup {d}]
  BY <1>1 DEF PageForm
<1> HIDE DEF calls
<1>4. /\ g \in PageForm(n) /\ g.calls = calls /\ g.preview = f.preview /\ g.loadedKey = f.loadedKey /\ g.allow = f.allow
      /\ g.loading = f.loading /\ g.seq = f.seq /\ g.batch = f.batch /\ g.failures = f.failures /\ g.timer = f.timer
  BY <1>1, <1>2 DEF PageForm
<1> HIDE DEF g
<1>5. CallsOK(g, n, t)
  <2>1. ASSUME NEW e \in calls PROVE CallOK(e, g, n, t)
    <3>1. CASE e = d
      <4>1. CallOK(c, f, n, t)
        BY DEF FormOK, CallsOK
      <4>2. QED
        BY <1>4, <3>1, <4>1 DEF CallOK
    <3>2. CASE e \in f.calls
      BY <1>4, <3>2 DEF FormOK, CallsOK, CallOK
    <3>3. QED
      BY <1>2, <3>1, <3>2
  <2>2. QED
    BY <1>2, <1>4, <2>1 DEF FormOK, CallsOK
<1>6. PreviewOK(g, u)
  BY <1>2, <1>4 DEF FormOK, PreviewOK
<1>7. BatchKnown(g, u)
  BY <1>2, <1>4 DEF FormOK, BatchKnown
<1>8. QED
  BY <1>3, <1>4, <1>5, <1>6, <1>7 DEF FormOK

\* The history when its last address is replaced, when one is added, and when
\* the last one is left.
LEMMA StackReplaced ==
    ASSUME NEW n \in Nat, NEW s, StackOK(s, n), NEW u \in ImportAddress(n),
           u.preview = None \/ u.preview = s[Len(s)].preview, u.batch = None \/ u.batch = s[Len(s)].batch
    PROVE  LET r == Append(Import!Front(s), u)
           IN  StackOK(r, n) /\ Import!Last(r) = u /\ r[Len(r)] = u /\ (NoBatch(s) => NoBatch(r))
<1> DEFINE k == Len(s)
           r == Append(Import!Front(s), u)
<1>1. s \in Seq(ImportAddress(n)) /\ k \in Nat \ {0}
  BY DEF StackOK
<1>2. Import!Front(s) = SubSeq(s, 1, k - 1)
  BY DEF Import!Front
<1>3. /\ SubSeq(s, 1, k - 1) \in Seq(ImportAddress(n)) /\ Len(SubSeq(s, 1, k - 1)) = k - 1
      /\ \A i \in 1..(k - 1) : SubSeq(s, 1, k - 1)[i] = s[i]
  <2> DEFINE q == SubSeq(s, 1, k - 1)
  <2>1. k - 1 \in Nat /\ 1 \in 1..(k + 1) /\ k - 1 \in 0..k
    BY <1>1
  <2>2. /\ q \in Seq(ImportAddress(n)) /\ Len(q) = (IF 1 <= k - 1 THEN (k - 1) - 1 + 1 ELSE 0)
        /\ \A i \in 1..((k - 1) - 1 + 1) : q[i] = s[1 + i - 1]
    <3>1. \A a \in 1..(Len(s) + 1), b \in 0..Len(s) :
             /\ SubSeq(s, a, b) \in Seq(ImportAddress(n))
             /\ Len(SubSeq(s, a, b)) = IF a <= b THEN b - a + 1 ELSE 0
             /\ \A i \in 1..(b - a + 1) : SubSeq(s, a, b)[i] = s[a + i - 1]
      BY <1>1, SubSeqProperties
    <3>2. QED
      BY <2>1, <3>1
  <2> HIDE DEF q
  <2>3. Len(q) = k - 1 /\ \A i \in 1..(k - 1) : q[i] = s[i]
    <3>1. (k - 1) - 1 + 1 = k - 1 /\ (1 <= k - 1 \/ k - 1 = 0)
      <4>1. k \in Nat /\ k >= 1
        BY <1>1
      <4> HIDE DEF k
      <4>2. QED
        BY <4>1
    <3>2. \A i \in 1..(k - 1) : 1 + i - 1 = i
      BY <1>1
    <3>3. Len(q) = k - 1
      BY <2>2, <3>1
    <3>4. ASSUME NEW i \in 1..(k - 1) PROVE q[i] = s[i]
      <4>1. i \in 1..((k - 1) - 1 + 1) /\ 1 + i - 1 = i
        BY <3>1, <3>2
      <4>2. QED
        BY <2>2, <4>1
    <3>5. QED
      BY <3>3, <3>4
  <2>4. QED
    BY <2>2, <2>3 DEF q
<1>4. /\ r \in Seq(ImportAddress(n)) /\ Len(r) = k /\ r[k] = u
      /\ \A i \in 1..(k - 1) : r[i] = s[i]
  BY <1>1, <1>2, <1>3
<1>5. Import!Last(r) = u
  BY <1>4 DEF Import!Last
<1> HIDE DEF r
<1>6. ASSUME NEW i \in 1..k, i > 1 PROVE Beside(r[i - 1], r[i])
  <2>1. Beside(s[i - 1], s[i])
    BY <1>1, <1>6 DEF StackOK
  <2>2. r[i - 1] = s[i - 1]
    BY <1>1, <1>4, <1>6
  <2>3. i = k \/ i \in 1..(k - 1)
    BY <1>1
  <2>4. QED
    BY <1>4, <2>1, <2>2, <2>3 DEF Beside
<1>7. \A i \in 1..k : r[i].batch = None \/ \E j \in 1..k : r[i].batch = s[j].batch
  <2>1. TAKE i \in 1..k
  <2>2. i = k \/ i \in 1..(k - 1)
    BY <1>1
  <2>3. k \in 1..k
    BY <1>1
  <2>4. QED
    BY <1>4, <2>2, <2>3
<1>8. \A i, j \in 1..k : r[i].batch = None \/ r[j].batch = None \/ r[i].batch = r[j].batch
  <2>1. \A i, j \in 1..k : s[i].batch = None \/ s[j].batch = None \/ s[i].batch = s[j].batch
    BY DEF StackOK
  <2>2. TAKE i, j \in 1..k
  <2>3. SUFFICES ASSUME r[i].batch # None, r[j].batch # None PROVE r[i].batch = r[j].batch
    OBVIOUS
  <2>4. PICK p \in 1..k : r[i].batch = s[p].batch
    BY <1>7, <2>3
  <2>5. PICK q \in 1..k : r[j].batch = s[q].batch
    BY <1>7, <2>3
  <2>6. QED
    BY <2>1, <2>3, <2>4, <2>5
<1>9. NoBatch(s) => NoBatch(r)
  BY <1>4, <1>7 DEF NoBatch
<1>10. QED
  BY <1>1, <1>4, <1>5, <1>6, <1>8, <1>9 DEF StackOK, r

LEMMA StackPushed ==
    ASSUME NEW n \in Nat, NEW s, StackOK(s, n), NEW u \in ImportAddress(n), Beside(s[Len(s)], u),
           u.batch = None \/ u.batch = s[Len(s)].batch \/ NoBatch(s)
    PROVE  LET r == Append(s, u)
           IN  /\ StackOK(r, n) /\ Import!Last(r) = u /\ r[Len(r)] = u
               /\ u.batch = None /\ NoBatch(s) => NoBatch(r)
<1> DEFINE k == Len(s)
           r == Append(s, u)
<1>1. s \in Seq(ImportAddress(n)) /\ k \in Nat \ {0}
  BY DEF StackOK
<1>2. /\ r \in Seq(ImportAddress(n)) /\ Len(r) = k + 1 /\ r[k + 1] = u
      /\ \A i \in 1..k : r[i] = s[i]
  BY <1>1
<1>3. Import!Last(r) = u
  BY <1>2 DEF Import!Last
<1> HIDE DEF r
<1>4. ASSUME NEW i \in 1..(k + 1), i > 1 PROVE Beside(r[i - 1], r[i])
  <2>1. CASE i = k + 1
    <3>1. i - 1 = k /\ k \in 1..k
      BY <1>1, <2>1
    <3>2. QED
      BY <1>2, <2>1, <3>1
  <2>2. CASE i # k + 1
    <3>1. i \in 1..k /\ i - 1 \in 1..k
      BY <1>1, <1>4, <2>2
    <3>2. Beside(s[i - 1], s[i])
      BY <1>4, <3>1 DEF StackOK
    <3>3. QED
      BY <1>2, <3>1, <3>2
  <2>3. QED
    BY <2>1, <2>2
<1>5. k \in 1..k /\ \A i \in 1..(k + 1) : i = k + 1 \/ i \in 1..k
  BY <1>1
<1>6. \A i, j \in 1..k : s[i].batch = None \/ s[j].batch = None \/ s[i].batch = s[j].batch
  BY DEF StackOK
<1>7. \A i \in 1..k : u.batch = None \/ s[i].batch = None \/ u.batch = s[i].batch
  <2>1. CASE NoBatch(s)
    BY <2>1 DEF NoBatch
  <2>2. CASE u.batch = None \/ u.batch = s[k].batch
    BY <1>5, <1>6, <2>2
  <2>3. QED
    BY <2>1, <2>2
<1>8. ASSUME NEW i \in 1..(k + 1), NEW j \in 1..(k + 1)
      PROVE  r[i].batch = None \/ r[j].batch = None \/ r[i].batch = r[j].batch
  <2>1. /\ i = k + 1 \/ (i \in 1..k /\ r[i] = s[i])
        /\ j = k + 1 \/ (j \in 1..k /\ r[j] = s[j])
    BY <1>2, <1>5
  <2>2. QED
    BY <1>2, <1>6, <1>7, <2>1
<1>9. u.batch = None /\ NoBatch(s) => NoBatch(r)
  BY <1>2, <1>5 DEF NoBatch
<1>10. QED
  BY <1>1, <1>2, <1>3, <1>4, <1>8, <1>9 DEF StackOK, r

LEMMA StackPopped ==
    ASSUME NEW n \in Nat, NEW s, StackOK(s, n), Len(s) > 1
    PROVE  LET r == Import!Front(s)
           IN  /\ StackOK(r, n) /\ Import!Last(r) = r[Len(r)] /\ r[Len(r)] \in ImportAddress(n) /\ (NoBatch(s) => NoBatch(r))
               /\ Beside(s[Len(s)], r[Len(r)])
               /\ s[Len(s)].batch = r[Len(r)].batch \/ s[Len(s)].batch = None \/ r[Len(r)].batch = None
<1> DEFINE k == Len(s)
           r == Import!Front(s)
<1>1. s \in Seq(ImportAddress(n)) /\ k \in Nat /\ k > 1
  BY DEF StackOK
<1>2. r = SubSeq(s, 1, k - 1)
  BY DEF Import!Front
<1>3. /\ r \in Seq(ImportAddress(n)) /\ Len(r) = k - 1 /\ \A i \in 1..(k - 1) : r[i] = s[i]
  BY <1>1, <1>2
<1> HIDE DEF r
<1>4. Import!Last(r) = r[k - 1] /\ r[k - 1] = s[k - 1] /\ r[k - 1] \in ImportAddress(n)
  BY <1>1, <1>3 DEF Import!Last
<1>5. Beside(s[k - 1], s[k]) /\ (s[k].batch = s[k - 1].batch \/ s[k].batch = None \/ s[k - 1].batch = None)
  BY <1>1 DEF StackOK
<1>6. \A i \in 1..(k - 1) : i \in 1..k /\ (i > 1 => i - 1 \in 1..(k - 1))
  BY <1>1
<1>7. \A i \in 1..(k - 1) : i > 1 => Beside(r[i - 1], r[i])
  BY <1>3, <1>6 DEF StackOK
<1>8. \A i, j \in 1..(k - 1) : r[i].batch = None \/ r[j].batch = None \/ r[i].batch = r[j].batch
  BY <1>3, <1>6 DEF StackOK
<1>9. NoBatch(s) => NoBatch(r)
  BY <1>3, <1>6 DEF NoBatch
<1>10. Beside(s[k], r[k - 1])
  BY <1>4, <1>5 DEF Beside
<1>11. QED
  BY <1>1, <1>3, <1>4, <1>5, <1>7, <1>8, <1>9, <1>10 DEF StackOK, r

LEMMA ImportNow ==
    ASSUME ImportInv
    PROVE  /\ Len(previews) \in 0..(MaxUploads + 1) /\ Len(previews) \in Nat
           /\ Import!url = stack[Len(stack)] /\ Import!url \in ImportAddress(Len(previews))
           /\ Import!url.preview \in 1..Len(previews) \cup {None} /\ Import!url.batch \in 1..Len(previews) \cup {None}
           /\ Import!url.page \in {1, 2}
           /\ importForm \in PageForm(Len(previews)) /\ FormOK(importForm, Import!url, Len(previews), ticked)
<1>1. Len(previews) \in Nat /\ Len(previews) <= MaxUploads + 1 /\ MaxUploads \in Nat
  BY ImportSettings DEF ImportInv
<1>2. Len(stack) \in 1..Len(stack) /\ stack \in Seq(ImportAddress(Len(previews)))
  BY DEF ImportInv, StackOK
<1>3. Import!url = stack[Len(stack)]
  BY DEF Import!url, Import!Last
<1>4. Import!url \in ImportAddress(Len(previews))
  BY <1>2, <1>3
<1>5. QED
  BY <1>1, <1>3, <1>4 DEF ImportInv, ImportAddress, FormOK

LEMMA ImportSpends ==
    ASSUME bounds \in ImportBounds, NEW what \in {"uploads", "turns", "confirms", "back", "lost", "ticks"}, NEW max,
           bounds[what] < max, bounds' = [bounds EXCEPT ![what] = @ + 1]
    PROVE  /\ bounds' \in ImportBounds
           /\ what # "confirms" => bounds'.confirms = bounds.confirms
           /\ what = "confirms" => bounds.confirms < max /\ bounds'.confirms = bounds.confirms + 1
<1>1. bounds[what] + 1 \in Nat
  BY DEF ImportBounds
<1>2. QED
  BY <1>1 DEF ImportBounds

\* What stays when no preview is made or changed.
LEMMA ImportKept ==
    ASSUME ImportInv, previews' = previews, bounds' \in ImportBounds, ticked \subseteq ticked',
           StackOK(stack', Len(previews)), FormOK(importForm', stack'[Len(stack')], Len(previews), ticked'),
           ConfirmsOK(importForm', stack', bounds'.confirms)
    PROVE  ImportInv'
<1>1. Import!UpdateTicked'
  BY DEF ImportInv, Import!UpdateTicked
<1>2. QED
  BY <1>1 DEF ImportInv

\* The address is replaced by another.
LEMMA ImportReplaces ==
    ASSUME ImportInv, NEW f, NEW u \in ImportAddress(Len(previews)), Import!Replace(f, u),
           FormOK(Import!Navigated(f, Import!url, u), u, Len(previews), ticked),
           NoConfirm(importForm) => NoConfirm(Import!Navigated(f, Import!url, u)),
           u.preview = None \/ u.preview = Import!url.preview, u.batch = None \/ u.batch = Import!url.batch
    PROVE  /\ StackOK(stack', Len(previews)) /\ FormOK(importForm', stack'[Len(stack')], Len(previews), ticked)
           /\ ConfirmsOK(importForm', stack', bounds.confirms)
<1> DEFINE r == Append(Import!Front(stack), u)
           g == Import!Navigated(f, Import!url, u)
<1>1. stack' = r /\ importForm' = g
  BY DEF Import!Replace
<1>2. Len(previews) \in Nat /\ Import!url = stack[Len(stack)]
  BY ImportNow
<1>3. StackOK(stack, Len(previews)) /\ ConfirmsOK(importForm, stack, bounds.confirms)
  BY DEF ImportInv
<1>4. StackOK(r, Len(previews)) /\ r[Len(r)] = u /\ (NoBatch(stack) => NoBatch(r))
  BY <1>2, <1>3, StackReplaced
<1> HIDE DEF r, g
<1>5. ConfirmsOK(g, r, bounds.confirms)
  BY <1>3, <1>4 DEF ConfirmsOK, g
<1>6. FormOK(g, r[Len(r)], Len(previews), ticked)
  BY <1>4 DEF g
<1>7. QED
  BY <1>1, <1>4, <1>5, <1>6

\* An address is added.
LEMMA ImportPushes ==
    ASSUME ImportInv, NEW f, NEW u \in ImportAddress(Len(previews)), Import!Push(f, u),
           FormOK(Import!Navigated(f, Import!url, u), u, Len(previews), ticked),
           NoConfirm(f) => NoConfirm(Import!Navigated(f, Import!url, u)), NoConfirm(importForm) => NoConfirm(f),
           Beside(Import!url, u),
           u.batch = None \/ u.batch = Import!url.batch \/ (NoConfirm(f) /\ NoBatch(stack) /\ bounds.confirms # 0)
    PROVE  /\ StackOK(stack', Len(previews)) /\ FormOK(importForm', stack'[Len(stack')], Len(previews), ticked)
           /\ ConfirmsOK(importForm', stack', bounds.confirms)
<1> DEFINE r == Append(stack, u)
           g == Import!Navigated(f, Import!url, u)
<1>1. stack' = r /\ importForm' = g
  BY DEF Import!Push
<1>2. Len(previews) \in Nat /\ Import!url = stack[Len(stack)]
  BY ImportNow
<1>3. StackOK(stack, Len(previews)) /\ ConfirmsOK(importForm, stack, bounds.confirms)
  BY DEF ImportInv
<1>4. StackOK(r, Len(previews)) /\ r[Len(r)] = u /\ (u.batch = None /\ NoBatch(stack) => NoBatch(r))
  BY <1>2, <1>3, StackPushed
<1> HIDE DEF r, g
<1>5. (NoConfirm(f) => NoConfirm(g)) /\ (NoConfirm(importForm) => NoConfirm(f))
  BY DEF g
<1>6. NoBatch(stack) => stack[Len(stack)].batch = None
  <2>1. Len(stack) \in 1..Len(stack)
    BY <1>3 DEF StackOK
  <2>2. QED
    BY <2>1 DEF NoBatch
<1>7. ConfirmsOK(g, r, bounds.confirms)
  <2>1. CASE u.batch = None \/ u.batch = Import!url.batch
    BY <1>2, <1>3, <1>4, <1>5, <1>6, <2>1 DEF ConfirmsOK
  <2>2. CASE NoConfirm(f) /\ bounds.confirms # 0
    BY <1>3, <1>5, <2>2 DEF ConfirmsOK
  <2>3. QED
    BY <2>1, <2>2
<1>8. FormOK(g, r[Len(r)], Len(previews), ticked)
  BY <1>4 DEF g
<1>9. QED
  BY <1>1, <1>4, <1>7, <1>8

LEMMA ImportChosen == ImportInv /\ Import!chooseFile => ImportInv'
<1> SUFFICES ASSUME ImportInv, Import!chooseFile PROVE ImportInv'
  OBVIOUS
<1> DEFINE n == Len(previews)
           f == [importForm EXCEPT !.file = TRUE, !.preview = None, !.loadedKey = None]
           u == [Import!url EXCEPT !.preview = None, !.page = 1]
<1>1. Import!Replace(f, u) /\ previews' = previews /\ ticked' = ticked /\ bounds' = bounds
  BY DEF Import!chooseFile
<1>2. /\ n \in 0..(MaxUploads + 1) /\ Import!url \in ImportAddress(n) /\ importForm \in PageForm(n)
      /\ FormOK(importForm, Import!url, n, ticked)
  BY ImportNow
<1>3. u \in ImportAddress(n) /\ u.preview = None /\ u.batch = Import!url.batch
  BY <1>2 DEF ImportAddress
<1>4. /\ f \in PageForm(n) /\ f.calls = importForm.calls /\ f.preview = None /\ f.loadedKey = None /\ f.seq = importForm.seq
      /\ f.timer = importForm.timer /\ f.batch = importForm.batch /\ f.failures = importForm.failures
  BY <1>2 DEF PageForm
<1> HIDE DEF n, f, u
<1>5. FormOK(f, Import!url, n, ticked)
  <2>1. CallsOK(f, n, ticked)
    BY <1>2, <1>4 DEF FormOK, CallsOK, CallOK
  <2>2. PreviewOK(f, Import!url)
    BY <1>2, <1>4 DEF FormOK, PreviewOK
  <2>3. BatchKnown(f, Import!url)
    BY <1>2, <1>4 DEF FormOK, BatchKnown
  <2>4. QED
    BY <1>4, <2>1, <2>2, <2>3 DEF FormOK
<1>6. /\ FormOK(Import!Navigated(f, Import!url, u), u, n, ticked)
      /\ NoConfirm(f) => NoConfirm(Import!Navigated(f, Import!url, u))
  <2>1. Beside(Import!url, u) /\ (Import!url.batch = u.batch \/ Import!url.batch = None \/ u.batch = None)
    BY <1>3 DEF Beside
  <2>2. QED
    BY <1>2, <1>3, <1>5, <2>1, NavigatesFrom
<1>7. NoConfirm(importForm) => NoConfirm(f)
  BY <1>4 DEF NoConfirm
<1>8. /\ StackOK(stack', n) /\ FormOK(importForm', stack'[Len(stack')], n, ticked)
      /\ ConfirmsOK(importForm', stack', bounds.confirms)
  BY <1>1, <1>3, <1>6, <1>7, ImportReplaces DEF n
<1>9. QED
  BY <1>1, <1>8, ImportKept DEF ImportInv, n

LEMMA ImportUploads == ImportInv /\ Import!handlePreview => ImportInv'
<1> SUFFICES ASSUME ImportInv, Import!handlePreview PROVE ImportInv'
  OBVIOUS
<1> DEFINE n == Len(previews)
           call == Import!Call("upload", None, 1, importForm.seq + 1)
           seq == importForm.seq + 1
           calls == importForm.calls \cup {call}
           f == [importForm EXCEPT !.seq = seq, !.loading = TRUE, !.calls = calls]
           u == Import!blank
<1>1. /\ Import!Replace([importForm EXCEPT !.seq = @ + 1, !.loading = TRUE, !.calls = @ \cup {call}], u)
      /\ previews' = previews /\ ticked' = ticked
      /\ bounds["uploads"] < MaxUploads /\ bounds' = [bounds EXCEPT !["uploads"] = @ + 1]
  BY DEF Import!handlePreview, Import!Spend
<1>2. /\ n \in 0..(MaxUploads + 1) /\ n \in Nat /\ Import!url \in ImportAddress(n) /\ importForm \in PageForm(n)
      /\ FormOK(importForm, Import!url, n, ticked)
  BY ImportNow
<1>3. u \in ImportAddress(n) /\ u.preview = None /\ u.batch = None
  BY <1>2 DEF ImportAddress, Import!blank
<1>4. [importForm EXCEPT !.seq = @ + 1, !.loading = TRUE, !.calls = @ \cup {call}] = f
  BY <1>2 DEF PageForm
<1>5. importForm.seq \in Nat /\ seq \in Nat /\ seq = importForm.seq + 1
  BY <1>2 DEF PageForm
<1>6. /\ call \in ImportCall(n) /\ call.kind = "upload" /\ call.seq = seq /\ call.answer = None /\ calls \in SUBSET ImportCall(n)
      /\ calls = importForm.calls \cup {call}
  <2>1. call = [kind |-> "upload", id |-> None, page |-> 1, allow |-> FALSE, seq |-> seq, live |-> TRUE, answer |-> None]
    BY DEF Import!Call
  <2> HIDE DEF n, call, seq
  <2>2. call \in ImportCall(n) /\ call.kind = "upload" /\ call.seq = seq /\ call.answer = None
    BY <1>5, <2>1 DEF ImportCall, ImportAnswers
  <2>3. calls \in SUBSET ImportCall(n)
    BY <1>2, <2>2 DEF PageForm
  <2>4. QED
    BY <2>2, <2>3
<1> HIDE DEF n, u, call, seq, calls
<1>7. /\ f \in PageForm(n) /\ f.calls = calls /\ f.seq = seq /\ f.preview = importForm.preview /\ f.loadedKey = importForm.loadedKey
      /\ f.allow = importForm.allow
      /\ f.timer = importForm.timer /\ f.batch = importForm.batch /\ f.failures = importForm.failures
  BY <1>2, <1>5, <1>6 DEF PageForm
<1>8. \A c \in importForm.calls : c.seq \in Nat /\ (c.kind = "upload" => c.seq # seq)
  <2>1. \A c \in importForm.calls : c.seq \in Nat
    BY <1>2 DEF PageForm, ImportCall
  <2>2. \A c \in importForm.calls : c.kind = "upload" => c.seq <= importForm.seq
    BY <1>2 DEF FormOK, CallsOK, CallOK
  <2>3. QED
    BY <1>5, <2>1, <2>2
<1> HIDE DEF f
<1>9. CallsOK(f, n, ticked)
  <2>1. ASSUME NEW c \in calls PROVE CallOK(c, f, n, ticked)
    <3>1. CASE c \in importForm.calls
      <4>1. CallOK(c, importForm, n, ticked)
        BY <1>2, <3>1 DEF FormOK, CallsOK
      <4>2. QED
        BY <1>5, <1>7, <1>8, <3>1, <4>1 DEF CallOK
    <3>2. CASE c = call
      BY <1>5, <1>6, <1>7, <3>2 DEF CallOK
    <3>3. QED
      BY <1>6, <3>1, <3>2
  <2>2. \A c, d \in importForm.calls :
          /\ c.kind = "upload" /\ d.kind = "upload" /\ c.seq = d.seq => c = d
          /\ c.kind = "confirm" /\ d.kind = "confirm" => c = d
    BY <1>2 DEF FormOK, CallsOK
  <2>3. \A c, d \in calls :
          /\ c.kind = "upload" /\ d.kind = "upload" /\ c.seq = d.seq => c = d
          /\ c.kind = "confirm" /\ d.kind = "confirm" => c = d
    BY <1>6, <1>8, <2>2
  <2>4. QED
    BY <1>2, <1>7, <2>1, <2>3 DEF FormOK, CallsOK
<1>10. BatchKnown(f, Import!url)
  BY <1>2, <1>6, <1>7 DEF FormOK, BatchKnown
<1>11. Import!Key(Import!url) = Import!Key(u) => PreviewOK(f, u)
  <2> SUFFICES ASSUME Import!Key(Import!url) = Import!Key(u) PROVE PreviewOK(f, u)
    OBVIOUS
  <2>1. Import!url.preview = None /\ Import!url.page = u.page
    BY <1>3 DEF Import!Key
  <2>2. PreviewOK(importForm, u)
    BY <1>2, <1>3, <2>1 DEF FormOK, PreviewOK
  <2>3. QED
    BY <1>3, <1>6, <1>7, <2>2 DEF PreviewOK
<1>12. /\ FormOK(Import!Navigated(f, Import!url, u), u, n, ticked)
       /\ NoConfirm(f) => NoConfirm(Import!Navigated(f, Import!url, u))
  BY <1>2, <1>3, <1>7, <1>9, <1>10, <1>11, Navigates
<1>13. NoConfirm(importForm) => NoConfirm(f)
  BY <1>6, <1>7 DEF NoConfirm
<1>14. /\ StackOK(stack', n) /\ FormOK(importForm', stack'[Len(stack')], n, ticked)
       /\ ConfirmsOK(importForm', stack', bounds.confirms)
  BY <1>1, <1>3, <1>4, <1>12, <1>13, ImportReplaces DEF n
<1>15. bounds' \in ImportBounds /\ bounds'.confirms = bounds.confirms
  BY <1>1, ImportSpends DEF ImportInv
<1>16. QED
  BY <1>1, <1>14, <1>15, ImportKept DEF n

LEMMA ImportConfirms == MaxConfirms <= 1 /\ ImportInv /\ Import!handleConfirm => ImportInv'
<1> SUFFICES ASSUME MaxConfirms <= 1, ImportInv, Import!handleConfirm PROVE ImportInv'
  OBVIOUS
<1> DEFINE n == Len(previews)
           call == [Import!Call("confirm", importForm.preview.id, 1, importForm.seq + 1) EXCEPT !.allow = importForm.allow]
           seq == importForm.seq + 1
           calls == importForm.calls \cup {call}
           f == [importForm EXCEPT !.seq = seq, !.loading = TRUE, !.calls = calls]
<1>1. /\ importForm' = [importForm EXCEPT !.seq = @ + 1, !.loading = TRUE, !.calls = @ \cup {call}]
      /\ stack' = stack /\ previews' = previews /\ ticked' = ticked /\ importForm.preview # None
      /\ bounds["confirms"] < MaxConfirms /\ bounds' = [bounds EXCEPT !["confirms"] = @ + 1]
  BY DEF Import!handleConfirm, Import!Spend
<1>2. /\ n \in 0..(MaxUploads + 1) /\ n \in Nat /\ Import!url \in ImportAddress(n) /\ importForm \in PageForm(n)
      /\ FormOK(importForm, Import!url, n, ticked) /\ Import!url = stack[Len(stack)]
  BY ImportNow
<1>3. importForm' = f
  BY <1>1, <1>2 DEF PageForm
<1>4. importForm.seq \in Nat /\ seq \in Nat /\ seq = importForm.seq + 1
  BY <1>2 DEF PageForm
<1>5. importForm.preview.id \in 1..n /\ importForm.allow \in BOOLEAN
  BY <1>1, <1>2 DEF PageForm
<1>6. /\ call \in ImportCall(n) /\ call.kind = "confirm" /\ call.id = importForm.preview.id /\ call.allow = importForm.allow
      /\ calls \in SUBSET ImportCall(n) /\ calls = importForm.calls \cup {call}
  BY <1>2, <1>4, <1>5, ZenonT(30) DEF PageForm, ImportCall, ImportAnswers, Import!Call
<1>7. /\ bounds \in ImportBounds /\ bounds' \in ImportBounds /\ bounds.confirms < MaxConfirms /\ bounds'.confirms = bounds.confirms + 1
  BY <1>1, ImportSpends DEF ImportInv
<1>8. bounds.confirms = 0 /\ bounds'.confirms = 1 /\ MaxConfirms = 1
  BY <1>7, ImportSettings DEF ImportBounds
<1>9. NoConfirm(importForm) /\ NoBatch(stack)
  BY <1>8 DEF ImportInv, ConfirmsOK
<1> HIDE DEF n, call, seq, calls
<1>10. /\ f \in PageForm(n) /\ f.calls = calls /\ f.seq = seq /\ f.preview = importForm.preview /\ f.loadedKey = importForm.loadedKey
       /\ f.allow = importForm.allow
       /\ f.timer = importForm.timer /\ f.batch = importForm.batch /\ f.failures = importForm.failures
  BY <1>2, <1>4, <1>6 DEF PageForm
<1> HIDE DEF f
<1>11. \A c \in importForm.calls : c.seq \in Nat /\ (c.kind = "upload" => c.seq # seq)
  <2>1. \A c \in importForm.calls : c.seq \in Nat
    BY <1>2 DEF PageForm, ImportCall
  <2>2. \A c \in importForm.calls : c.kind = "upload" => c.seq <= importForm.seq
    BY <1>2 DEF FormOK, CallsOK, CallOK
  <2>3. QED
    BY <1>4, <2>1, <2>2
<1>12. CallsOK(f, n, ticked)
  <2>1. ASSUME NEW c \in calls PROVE CallOK(c, f, n, ticked)
    <3>1. CASE c \in importForm.calls
      <4>1. CallOK(c, importForm, n, ticked)
        BY <1>2, <3>1 DEF FormOK, CallsOK
      <4>2. QED
        BY <1>4, <1>10, <1>11, <3>1, <4>1 DEF CallOK
    <3>2. CASE c = call
      <4>1. importForm.allow => importForm.preview.id \in ticked
        BY <1>1, <1>2 DEF FormOK, CallsOK
      <4>2. QED
        BY <1>5, <1>6, <3>2, <4>1 DEF CallOK
    <3>3. QED
      BY <1>6, <3>1, <3>2
  <2>2. \A c, d \in importForm.calls : c.kind = "upload" /\ d.kind = "upload" /\ c.seq = d.seq => c = d
    BY <1>2 DEF FormOK, CallsOK
  <2>3. \A c, d \in calls :
          /\ c.kind = "upload" /\ d.kind = "upload" /\ c.seq = d.seq => c = d
          /\ c.kind = "confirm" /\ d.kind = "confirm" => c = d
    BY <1>6, <1>9, <2>2 DEF NoConfirm
  <2>4. QED
    BY <1>2, <1>10, <2>1, <2>3 DEF FormOK, CallsOK
<1>13. PreviewOK(f, Import!url)
  BY <1>2, <1>6, <1>10, <1>11 DEF FormOK, PreviewOK
<1>14. BatchKnown(f, Import!url)
  BY <1>2, <1>6, <1>10 DEF FormOK, BatchKnown
<1>15. FormOK(importForm', stack'[Len(stack')], n, ticked)
  BY <1>1, <1>2, <1>3, <1>10, <1>12, <1>13, <1>14 DEF FormOK
<1>16. ConfirmsOK(importForm', stack', bounds'.confirms)
  BY <1>1, <1>8, <1>9 DEF ConfirmsOK
<1>17. QED
  BY <1>1, <1>7, <1>15, <1>16, ImportKept DEF ImportInv, n

LEMMA ImportTurns == ImportInv /\ Import!handleSort => ImportInv'
<1> SUFFICES ASSUME ImportInv, Import!handleSort PROVE ImportInv'
  OBVIOUS
<1> DEFINE n == Len(previews)
           u == [Import!url EXCEPT !.page = 3 - @]
<1>1. /\ Import!Push(importForm, u) /\ previews' = previews /\ ticked' = ticked
      /\ bounds["turns"] < MaxTurns /\ bounds' = [bounds EXCEPT !["turns"] = @ + 1]
  BY DEF Import!handleSort, Import!Spend
<1>2. /\ n \in 0..(MaxUploads + 1) /\ Import!url \in ImportAddress(n) /\ importForm \in PageForm(n)
      /\ FormOK(importForm, Import!url, n, ticked)
  BY ImportNow
<1>3. u \in ImportAddress(n) /\ u.preview = Import!url.preview /\ u.batch = Import!url.batch
  <2>1. 3 - Import!url.page \in {1, 2}
    BY ImportNow
  <2>2. QED
    BY <1>2, <2>1 DEF ImportAddress
<1> HIDE DEF n, u
<1>4. Beside(Import!url, u)
  BY <1>3 DEF Beside
<1>5. /\ FormOK(Import!Navigated(importForm, Import!url, u), u, n, ticked)
      /\ NoConfirm(importForm) => NoConfirm(Import!Navigated(importForm, Import!url, u))
  BY <1>2, <1>3, <1>4, NavigatesFrom
<1>6. /\ StackOK(stack', n) /\ FormOK(importForm', stack'[Len(stack')], n, ticked)
      /\ ConfirmsOK(importForm', stack', bounds.confirms)
  BY <1>1, <1>3, <1>4, <1>5, ImportPushes DEF n
<1>7. bounds' \in ImportBounds /\ bounds'.confirms = bounds.confirms
  BY <1>1, ImportSpends DEF ImportInv
<1>8. QED
  BY <1>1, <1>6, <1>7, ImportKept DEF n

LEMMA ImportTicks == ImportInv /\ Import!tick => ImportInv'
<1> SUFFICES ASSUME ImportInv, Import!tick PROVE ImportInv'
  OBVIOUS
<1> DEFINE n == Len(previews)
           f == [importForm EXCEPT !.allow = ~@]
           t == ticked \cup {importForm.preview.id}
<1>1. /\ importForm' = f /\ ticked' = t /\ stack' = stack /\ previews' = previews /\ importForm.preview # None
      /\ bounds["ticks"] < MaxTicks /\ bounds' = [bounds EXCEPT !["ticks"] = @ + 1]
  BY DEF Import!tick, Import!Spend
<1>2. /\ n \in Nat /\ Import!url \in ImportAddress(n) /\ importForm \in PageForm(n)
      /\ FormOK(importForm, Import!url, n, ticked) /\ Import!url = stack[Len(stack)]
  BY ImportNow
<1>3. FormOK(importForm, Import!url, n, t)
  BY <1>2, FormGrows
<1>4. /\ f \in PageForm(n) /\ f.calls = importForm.calls /\ f.seq = importForm.seq /\ f.preview = importForm.preview
      /\ f.loadedKey = importForm.loadedKey
      /\ f.timer = importForm.timer /\ f.batch = importForm.batch /\ f.failures = importForm.failures
  <2>1. (~importForm.allow) \in BOOLEAN
    BY Zenon
  <2>2. QED
    BY <1>2, <2>1 DEF PageForm
<1>5. importForm.preview.id \in t /\ ticked \subseteq t
  OBVIOUS
<1> HIDE DEF n, f, t
<1>6. CallsOK(f, n, t)
  BY <1>3, <1>4, <1>5 DEF FormOK, CallsOK, CallOK
<1>7. PreviewOK(f, Import!url)
  BY <1>3, <1>4 DEF FormOK, PreviewOK
<1>8. BatchKnown(f, Import!url)
  BY <1>3, <1>4 DEF FormOK, BatchKnown
<1>9. FormOK(importForm', stack'[Len(stack')], n, ticked')
  BY <1>1, <1>2, <1>4, <1>6, <1>7, <1>8 DEF FormOK
<1>10. bounds' \in ImportBounds /\ bounds'.confirms = bounds.confirms
  BY <1>1, ImportSpends DEF ImportInv
<1>11. ConfirmsOK(importForm', stack', bounds'.confirms)
  BY <1>1, <1>4, <1>10 DEF ImportInv, ConfirmsOK, NoConfirm
<1>12. QED
  BY <1>1, <1>5, <1>9, <1>10, <1>11, ImportKept DEF ImportInv, n

LEMMA ImportStepsBack == ImportInv /\ Import!back => ImportInv'
<1> SUFFICES ASSUME ImportInv, Import!back PROVE ImportInv'
  OBVIOUS
<1> DEFINE n == Len(previews)
           r == Import!Front(stack)
           u == Import!Last(r)
<1>1. /\ Len(stack) > 1 /\ stack' = r /\ importForm' = Import!Navigated(importForm, Import!url, u)
      /\ previews' = previews /\ ticked' = ticked
      /\ bounds["back"] < MaxBack /\ bounds' = [bounds EXCEPT !["back"] = @ + 1]
  BY DEF Import!back, Import!Spend
<1>2. /\ n \in 0..(MaxUploads + 1) /\ n \in Nat /\ Import!url \in ImportAddress(n) /\ importForm \in PageForm(n)
      /\ FormOK(importForm, Import!url, n, ticked) /\ Import!url = stack[Len(stack)]
  BY ImportNow
<1>3. StackOK(stack, n) /\ ConfirmsOK(importForm, stack, bounds.confirms)
  BY DEF ImportInv
<1>4. /\ StackOK(r, n) /\ u = r[Len(r)] /\ u \in ImportAddress(n) /\ (NoBatch(stack) => NoBatch(r))
      /\ Beside(Import!url, u) /\ (Import!url.batch = u.batch \/ Import!url.batch = None \/ u.batch = None)
  BY <1>1, <1>2, <1>3, StackPopped
<1> HIDE DEF n, r, u
<1>5. /\ FormOK(Import!Navigated(importForm, Import!url, u), u, n, ticked)
      /\ NoConfirm(importForm) => NoConfirm(Import!Navigated(importForm, Import!url, u))
  BY <1>2, <1>4, NavigatesFrom
<1>6. bounds' \in ImportBounds /\ bounds'.confirms = bounds.confirms
  BY <1>1, ImportSpends DEF ImportInv
<1>7. ConfirmsOK(importForm', stack', bounds'.confirms)
  BY <1>1, <1>3, <1>4, <1>5, <1>6 DEF ConfirmsOK
<1>8. QED
  BY <1>1, <1>4, <1>5, <1>6, <1>7, ImportKept DEF n

LEMMA ImportAnswered ==
    ASSUME ImportInv, NEW c \in importForm.calls, NEW a \in ImportAnswers, Import!Answers(c, a),
           c.kind = "upload" => a \in {None, "error"}
    PROVE  /\ FormOK(importForm', Import!url, Len(previews), ticked)
           /\ NoConfirm(importForm) => NoConfirm(importForm')
<1> DEFINE n == Len(previews)
           d == [c EXCEPT !.answer = a]
<1>1. importForm' = [importForm EXCEPT !.calls = (@ \ {c}) \cup {d}]
  BY DEF Import!Answers
<1>2. n \in Nat /\ importForm \in PageForm(n) /\ FormOK(importForm, Import!url, n, ticked)
  BY ImportNow
<1> HIDE DEF n
<1>3. /\ d \in ImportCall(n) /\ d.kind = c.kind /\ d.page = c.page /\ d.allow = c.allow /\ d.seq = c.seq /\ d.live = c.live
      /\ d.id = c.id /\ d.answer = a
  <2>1. c \in ImportCall(n)
    BY <1>2 DEF PageForm
  <2>2. QED
    BY <2>1 DEF ImportCall
<1> HIDE DEF d
<1>4. FormOK(importForm', Import!url, n, ticked)
  BY <1>1, <1>2, <1>3, CallAnswered
<1>5. importForm'.calls = (importForm.calls \ {c}) \cup {d}
  BY <1>1, <1>2 DEF PageForm
<1>6. NoConfirm(importForm) => NoConfirm(importForm')
  BY <1>3, <1>5 DEF NoConfirm
<1>7. QED
  BY <1>4, <1>6 DEF n

\* A handler that changes no preview, or an answer is lost.
LEMMA ImportReplied ==
    ASSUME ImportInv, NEW c \in importForm.calls, NEW a \in ImportAnswers, Import!Answers(c, a),
           c.kind = "upload" => a \in {None, "error"},
           stack' = stack, previews' = previews, ticked' = ticked, bounds' \in ImportBounds, bounds'.confirms = bounds.confirms
    PROVE  ImportInv'
<1>1. /\ FormOK(importForm', Import!url, Len(previews), ticked)
      /\ NoConfirm(importForm) => NoConfirm(importForm')
  BY ImportAnswered
<1>2. Import!url = stack[Len(stack)]
  BY ImportNow
<1>3. ConfirmsOK(importForm', stack', bounds'.confirms)
  BY <1>1 DEF ImportInv, ConfirmsOK
<1>4. QED
  BY <1>1, <1>2, <1>3, ImportKept DEF ImportInv

LEMMA ImportPreviews ==
    ASSUME ImportInv, NEW c \in importForm.calls, Import!importPreview(c), UNCHANGED <<stack, ticked, bounds>>
    PROVE  ImportInv'
<1> DEFINE n == Len(previews)
           d == [c EXCEPT !.id = n + 1, !.answer = "ok"]
           new == [state |-> "preview", update |-> FALSE]
<1>1. /\ c.kind = "upload" /\ n < MaxUploads + 1 /\ previews' = Append(previews, new)
      /\ importForm' = [importForm EXCEPT !.calls = (@ \ {c}) \cup {d}]
  BY DEF Import!importPreview
<1>2. /\ n \in Nat /\ n \in 0..(MaxUploads + 1) /\ importForm \in PageForm(n) /\ FormOK(importForm, Import!url, n, ticked)
      /\ Import!url = stack[Len(stack)]
  BY ImportNow
<1>3. /\ previews \in Seq(ImportPreview) /\ Import!UpdateTicked /\ StackOK(stack, n) /\ bounds \in ImportBounds
      /\ ConfirmsOK(importForm, stack, bounds.confirms)
  BY DEF ImportInv
<1>4. /\ previews' \in Seq(ImportPreview) /\ Len(previews') = n + 1 /\ previews'[n + 1] = new /\ \A i \in 1..n : previews'[i] = previews[i]
  <2>1. new \in ImportPreview
    BY DEF ImportPreview
  <2>2. QED
    BY <1>1, <1>3, <2>1
<1>5. Import!UpdateTicked'
  <2>1. \A i \in 1..(n + 1) : i = n + 1 \/ i \in 1..n
    BY <1>2
  <2>2. \A i \in 1..n : previews[i].update => i \in ticked
    BY <1>3 DEF Import!UpdateTicked
  <2>3. \A i \in 1..(n + 1) : previews'[i].update => i \in ticked
    BY <1>4, <2>1, <2>2
  <2>4. DOMAIN previews' = 1..(n + 1)
    BY <1>4
  <2>5. QED
    BY <2>3, <2>4 DEF Import!UpdateTicked
<1>6. n + 1 \in Nat /\ n <= n + 1 /\ n + 1 <= MaxUploads + 1 /\ n + 1 \in 1..(n + 1)
  BY <1>1, <1>2, ImportSettings
<1> HIDE DEF n
<1>7. FormOK(importForm, Import!url, n + 1, ticked)
  BY <1>2, <1>6, FormGrows
<1>8. /\ d \in ImportCall(n + 1) /\ d.kind = c.kind /\ d.page = c.page /\ d.allow = c.allow /\ d.seq = c.seq /\ d.live = c.live
      /\ d.id = n + 1
  <2>1. c \in ImportCall(n + 1)
    BY <1>6, <1>7 DEF FormOK, PageForm
  <2>2. QED
    BY <1>6, <2>1 DEF ImportCall, ImportAnswers
<1> HIDE DEF d
<1>9. FormOK(importForm', Import!url, n + 1, ticked)
  <2>1. d.kind = "upload" /\ d.answer \notin {None, "error"} => d.id \in 1..(n + 1)
    BY <1>6, <1>8
  <2>2. d.kind = "upload"
    BY <1>1, <1>8
  <2>3. QED
    BY <1>1, <1>6, <1>7, <1>8, <2>1, <2>2, CallAnswered
<1>10. NoConfirm(importForm) => NoConfirm(importForm')
  <2>1. importForm'.calls = (importForm.calls \ {c}) \cup {d}
    BY <1>1, <1>2 DEF PageForm
  <2>2. QED
    BY <1>8, <2>1 DEF NoConfirm
<1>11. StackOK(stack, n + 1)
  <2>1. ImportAddress(n) \subseteq ImportAddress(n + 1)
    BY <1>2 DEF ImportAddress
  <2>2. stack \in Seq(ImportAddress(n + 1))
    BY <1>3, <2>1 DEF StackOK
  <2>3. QED
    BY <1>3, <2>2 DEF StackOK
<1>12. ConfirmsOK(importForm', stack', bounds'.confirms)
  BY <1>3, <1>10 DEF ConfirmsOK
<1>13. QED
  BY <1>2, <1>3, <1>4, <1>5, <1>6, <1>9, <1>11, <1>12 DEF ImportInv

\* A preview changes; its batch updates only what was allowed.
LEMMA PreviewChanges ==
    ASSUME NEW p \in Seq(ImportPreview), NEW i \in 1..Len(p), NEW q \in ImportPreview, NEW t,
           \A j \in DOMAIN p : p[j].update => j \in t, q.update => i \in t
    PROVE  /\ [p EXCEPT ![i] = q] \in Seq(ImportPreview) /\ Len([p EXCEPT ![i] = q]) = Len(p)
           /\ \A j \in DOMAIN [p EXCEPT ![i] = q] : [p EXCEPT ![i] = q][j].update => j \in t
<1> DEFINE r == [p EXCEPT ![i] = q]
<1>1. r \in Seq(ImportPreview) /\ Len(r) = Len(p) /\ DOMAIN r = DOMAIN p
  BY JobReplaced
<1>2. \A j \in DOMAIN p : r[j] = IF j = i THEN q ELSE p[j]
  OBVIOUS
<1>3. QED
  BY <1>1, <1>2

LEMMA ImportServed ==
    ASSUME ImportInv, NEW c \in importForm.calls, Import!served(c)
    PROVE  ImportInv'
<1> DEFINE n == Len(previews)
<1>1. /\ c.answer = None /\ stack' = stack /\ ticked' = ticked /\ bounds' = bounds
      /\ \/ Import!importPreview(c) \/ Import!getImportPreviewPage(c) \/ Import!importConfirm(c)
         \/ Import!getImportStatus(c) \/ Import!getImportRows(c)
  BY DEF Import!served
<1>2. /\ importForm \in PageForm(n) /\ FormOK(importForm, Import!url, n, ticked) /\ Import!url = stack[Len(stack)]
      /\ n \in Nat
  BY ImportNow
<1>3. bounds' \in ImportBounds /\ bounds'.confirms = bounds.confirms /\ previews \in Seq(ImportPreview)
  BY <1>1 DEF ImportInv
<1>4. c \in ImportCall(n) /\ CallOK(c, importForm, n, ticked)
  BY <1>2 DEF FormOK, CallsOK, PageForm
<1>5. CASE Import!importPreview(c)
  BY <1>1, <1>5, ImportPreviews
<1>6. CASE Import!getImportPreviewPage(c)
  <2>1. c.kind = "rows" /\ previews' = previews
        /\ Import!Answers(c, IF previews[c.id].state = "preview" THEN "ok" ELSE "error")
    BY <1>6 DEF Import!getImportPreviewPage
  <2>2. PICK a \in ImportAnswers : Import!Answers(c, a)
    BY <2>1 DEF ImportAnswers
  <2>3. QED
    BY <1>1, <1>3, <2>1, <2>2, ImportReplied
<1>7. CASE Import!importConfirm(c)
  <2>1. c.kind = "confirm"
    BY <1>7 DEF Import!importConfirm
  <2>2. c.id \in 1..n /\ (c.allow => c.id \in ticked) /\ c.allow \in BOOLEAN
    BY <1>4, <2>1 DEF CallOK, ImportCall
  <2>3. PICK a \in {"ok", "error"} : Import!Answers(c, a)
    BY <1>7 DEF Import!importConfirm
  <2>4. a \in ImportAnswers
    BY DEF ImportAnswers
  <2>5. CASE previews' = previews
    BY <1>1, <1>3, <2>1, <2>3, <2>4, <2>5, ImportReplied
  <2>6. CASE previews' # previews
    <3> DEFINE q == [state |-> "queued", update |-> c.allow]
    <3>1. previews' = [previews EXCEPT ![c.id] = q]
      BY <1>7, <2>6 DEF Import!importConfirm
    <3>2. q \in ImportPreview /\ (q.update => c.id \in ticked)
      BY <2>2 DEF ImportPreview
    <3> HIDE DEF q
    <3>3. /\ previews' \in Seq(ImportPreview) /\ Len(previews') = n
          /\ \A j \in DOMAIN previews' : previews'[j].update => j \in ticked
      BY <1>3, <2>2, <3>1, <3>2, PreviewChanges DEF ImportInv, Import!UpdateTicked
    <3>4. Import!UpdateTicked'
      BY <1>1, <3>3 DEF Import!UpdateTicked
    <3>5. /\ FormOK(importForm', Import!url, n, ticked)
          /\ NoConfirm(importForm) => NoConfirm(importForm')
      BY <2>1, <2>3, <2>4, ImportAnswered
    <3>6. ConfirmsOK(importForm', stack', bounds'.confirms)
      BY <1>1, <3>5 DEF ImportInv, ConfirmsOK
    <3>7. QED
      BY <1>1, <1>2, <1>3, <3>3, <3>4, <3>5, <3>6 DEF ImportInv
  <2>7. QED
    BY <2>5, <2>6
<1>8. CASE Import!getImportStatus(c)
  <2>1. c.kind = "status" /\ previews' = previews /\ Import!Answers(c, previews[c.id].state)
    BY <1>8 DEF Import!getImportStatus
  <2>2. previews[c.id].state \in ImportAnswers
    <3>1. c.id \in 1..n
      BY <1>4, <2>1 DEF CallOK
    <3>2. previews[c.id] \in ImportPreview
      BY <1>3, <3>1
    <3>3. QED
      BY <3>2 DEF ImportPreview, ImportAnswers
  <2>3. QED
    BY <1>1, <1>3, <2>1, <2>2, ImportReplied
<1>9. CASE Import!getImportRows(c)
  <2>1. c.kind = "failures" /\ previews' = previews /\ Import!Answers(c, "ok") /\ "ok" \in ImportAnswers
    BY <1>9 DEF Import!getImportRows, ImportAnswers
  <2>2. QED
    BY <1>1, <1>3, <2>1, ImportReplied
<1>10. QED
  BY <1>1, <1>5, <1>6, <1>7, <1>8, <1>9

LEMMA ImportLost ==
    ASSUME ImportInv, NEW c \in importForm.calls, Import!lost(c)
    PROVE  ImportInv'
<1>1. /\ Import!Answers(c, "error") /\ stack' = stack /\ previews' = previews /\ ticked' = ticked
      /\ bounds["lost"] < MaxLost /\ bounds' = [bounds EXCEPT !["lost"] = @ + 1]
  BY DEF Import!lost, Import!Spend
<1>2. bounds' \in ImportBounds /\ bounds'.confirms = bounds.confirms
  BY <1>1, ImportSpends DEF ImportInv
<1>3. "error" \in ImportAnswers
  BY DEF ImportAnswers
<1>4. QED
  BY <1>1, <1>2, <1>3, ImportReplied

\* A preview expires, or its batch is done.
LEMMA ImportEnds == ImportInv /\ (Import!expire \/ Import!finish) => ImportInv'
<1> SUFFICES ASSUME ImportInv, Import!expire \/ Import!finish PROVE ImportInv'
  OBVIOUS
<1>1. PICK i \in DOMAIN previews, s \in {"expired", "completed", "completed_with_errors"} :
         previews' = [previews EXCEPT ![i].state = s]
  BY DEF Import!expire, Import!finish
<1>2. UNCHANGED <<stack, importForm, ticked, bounds>>
  BY DEF Import!expire, Import!finish
<1> DEFINE q == [previews[i] EXCEPT !.state = s]
<1>3. previews \in Seq(ImportPreview) /\ i \in 1..Len(previews) /\ previews[i] \in ImportPreview
  BY DEF ImportInv
<1>4. previews' = [previews EXCEPT ![i] = q]
  BY <1>1
<1>5. q \in ImportPreview /\ q.update = previews[i].update
  BY <1>3 DEF ImportPreview
<1>6. q.update => i \in ticked
  BY <1>5 DEF ImportInv, Import!UpdateTicked
<1> HIDE DEF q
<1>7. /\ previews' \in Seq(ImportPreview) /\ Len(previews') = Len(previews)
      /\ \A j \in DOMAIN previews' : previews'[j].update => j \in ticked
  BY <1>3, <1>4, <1>5, <1>6, PreviewChanges DEF ImportInv, Import!UpdateTicked
<1>8. Import!UpdateTicked'
  BY <1>2, <1>7 DEF Import!UpdateTicked
<1>9. QED
  BY <1>2, <1>7, <1>8 DEF ImportInv

LEMMA ImportPolls == ImportInv /\ Import!poll => ImportInv'
<1> SUFFICES ASSUME ImportInv, Import!poll PROVE ImportInv'
  OBVIOUS
<1> DEFINE n == Len(previews)
           u == Import!url
           call == Import!Call("status", u.batch, 1, 0)
           calls == importForm.calls \cup {call}
           f == [importForm EXCEPT !.timer = FALSE, !.calls = calls]
<1>1. /\ importForm.timer /\ importForm' = [importForm EXCEPT !.timer = FALSE, !.calls = @ \cup {call}]
      /\ UNCHANGED <<stack, previews, ticked, bounds>>
  BY DEF Import!poll
<1>2. /\ n \in Nat /\ importForm \in PageForm(n) /\ FormOK(importForm, u, n, ticked) /\ u = stack[Len(stack)]
      /\ u.batch \in 1..n \cup {None}
  BY ImportNow
<1>3. importForm' = f
  BY <1>1, <1>2 DEF PageForm
<1>4. u.batch # None
  BY <1>1, <1>2 DEF FormOK, BatchKnown
<1> HIDE DEF n, u
<1>5. call \in ImportCall(n) /\ call.kind = "status" /\ call.id = u.batch /\ call.id \in 1..n
  BY <1>2, <1>4 DEF Import!Call, ImportCall, ImportAnswers
<1> HIDE DEF call
<1>6. calls \in SUBSET ImportCall(n) /\ calls = importForm.calls \cup {call}
  BY <1>2, <1>5 DEF PageForm
<1> HIDE DEF calls
<1>7. /\ f \in PageForm(n) /\ f.calls = calls /\ f.seq = importForm.seq /\ f.preview = importForm.preview
      /\ f.loadedKey = importForm.loadedKey /\ f.allow = importForm.allow
      /\ f.timer = FALSE /\ f.batch = importForm.batch /\ f.failures = importForm.failures
  BY <1>2, <1>6 DEF PageForm
<1> HIDE DEF f
<1>8. CallsOK(f, n, ticked)
  <2>1. ASSUME NEW c \in calls PROVE CallOK(c, f, n, ticked)
    <3>1. CASE c \in importForm.calls
      BY <1>2, <1>7, <3>1 DEF FormOK, CallsOK, CallOK
    <3>2. CASE c = call
      BY <1>5, <3>2 DEF CallOK
    <3>3. QED
      BY <1>6, <3>1, <3>2
  <2>2. \A c \in calls : c.kind \in {"upload", "confirm"} => c \in importForm.calls
    BY <1>5, <1>6
  <2>3. QED
    BY <1>2, <1>7, <2>1, <2>2 DEF FormOK, CallsOK
<1>9. PreviewOK(f, u)
  BY <1>2, <1>5, <1>6, <1>7 DEF FormOK, PreviewOK
<1>10. BatchKnown(f, u)
  <2>1. \A c \in importForm.calls : c.kind = "status" => ~c.live
    BY <1>1, <1>2 DEF FormOK, BatchKnown
  <2>2. QED
    BY <1>2, <1>4, <1>5, <1>6, <1>7, <2>1 DEF FormOK, BatchKnown
<1>11. NoConfirm(importForm) => NoConfirm(f)
  BY <1>5, <1>6, <1>7 DEF NoConfirm
<1>12. FormOK(f, u, n, ticked)
  BY <1>7, <1>8, <1>9, <1>10 DEF FormOK
<1>13. ConfirmsOK(importForm', stack', bounds'.confirms)
  BY <1>1, <1>3, <1>11 DEF ImportInv, ConfirmsOK
<1>14. QED
  BY <1>1, <1>2, <1>3, <1>12, <1>13, ImportKept DEF ImportInv, n

\* The admin waits no more for what was asked.
LEMMA LoadingOver ==
    ASSUME NEW n \in Nat, NEW t, NEW f, NEW u, FormOK(f, u, n, t)
    PROVE  /\ FormOK([f EXCEPT !.loading = FALSE], u, n, t) /\ [f EXCEPT !.loading = FALSE].calls = f.calls
           /\ [f EXCEPT !.loading = FALSE].loadedKey = f.loadedKey
<1> DEFINE g == [f EXCEPT !.loading = FALSE]
<1>1. f \in PageForm(n)
  BY DEF FormOK
<1>2. /\ g \in PageForm(n) /\ g.calls = f.calls /\ g.seq = f.seq /\ g.preview = f.preview
      /\ g.loadedKey = f.loadedKey /\ g.allow = f.allow
      /\ g.timer = f.timer /\ g.batch = f.batch /\ g.failures = f.failures
  BY <1>1 DEF PageForm
<1> HIDE DEF g
<1>3. CallsOK(g, n, t)
  BY <1>2 DEF FormOK, CallsOK, CallOK
<1>4. PreviewOK(g, u) /\ BatchKnown(g, u)
  BY <1>2 DEF FormOK, PreviewOK, BatchKnown
<1>5. g.calls = f.calls /\ g.loadedKey = f.loadedKey /\ FormOK(g, u, n, t)
  BY <1>2, <1>3, <1>4 DEF FormOK
<1>6. QED
  BY <1>5 DEF g

\* Another page is shown, with the box unticked.
LEMMA PageShown ==
    ASSUME NEW n \in Nat, NEW t, NEW f \in PageForm(n), NEW u, NEW g,
           CallsOK(f, n, t), BatchKnown(f, u), g.calls = f.calls, g.seq = f.seq, g.allow = FALSE,
           g.timer = f.timer, g.batch = f.batch, g.failures = f.failures
    PROVE  CallsOK(g, n, t) /\ BatchKnown(g, u)
<1>1. CallsOK(g, n, t)
  BY DEF CallsOK, CallOK
<1>2. BatchKnown(g, u)
  BY DEF BatchKnown
<1>3. QED
  BY <1>1, <1>2

\* What holds of the form when the answer to a call is looked at.
LEMMA AnswerSeen ==
    ASSUME ImportInv, NEW c \in importForm.calls, c.answer # None
    PROVE  LET f == [importForm EXCEPT !.calls = @ \ {c}]
           IN  /\ FormOK(f, Import!url, Len(previews), ticked) /\ f \in PageForm(Len(previews))
               /\ NoConfirm(importForm) => NoConfirm(f)
               /\ f.calls = importForm.calls \ {c} /\ f.seq = importForm.seq
               /\ c \in ImportCall(Len(previews)) /\ CallOK(c, importForm, Len(previews), ticked)
               /\ c.kind # "upload" \/ c.answer # "error" => c.id \in 1..Len(previews)
<1> DEFINE n == Len(previews)
           f == [importForm EXCEPT !.calls = @ \ {c}]
<1>1. n \in Nat /\ importForm \in PageForm(n) /\ FormOK(importForm, Import!url, n, ticked)
  BY ImportNow
<1> HIDE DEF n
<1>2. FormOK(f, Import!url, n, ticked)
  BY <1>1, CallLeaves
<1>3. f.calls = importForm.calls \ {c} /\ f.seq = importForm.seq
  BY <1>1 DEF PageForm
<1>4. c \in ImportCall(n) /\ CallOK(c, importForm, n, ticked)
  BY <1>1 DEF FormOK, CallsOK, PageForm
<1> HIDE DEF f
<1>5. NoConfirm(importForm) => NoConfirm(f)
  BY <1>3 DEF NoConfirm
<1>6. QED
  BY <1>2, <1>3, <1>4, <1>5 DEF FormOK, CallOK, n, f

\* An answer that leaves the address alone.
LEMMA ImportSettles ==
    ASSUME ImportInv, NEW f, importForm' = f, UNCHANGED <<stack, previews, ticked, bounds>>,
           FormOK(f, Import!url, Len(previews), ticked), NoConfirm(importForm) => NoConfirm(f)
    PROVE  ImportInv'
<1>1. Import!url = stack[Len(stack)]
  BY ImportNow
<1>2. ConfirmsOK(importForm', stack', bounds'.confirms)
  BY DEF ImportInv, ConfirmsOK
<1>3. QED
  BY <1>1, <1>2, ImportKept DEF ImportInv

LEMMA UploadAnswered ==
    ASSUME ImportInv, NEW c \in importForm.calls, c.answer # None, UNCHANGED <<previews, ticked, bounds>>,
           Import!uploadAnswered([importForm EXCEPT !.calls = @ \ {c}], c)
    PROVE  ImportInv'
<1> DEFINE n == Len(previews)
           f == [importForm EXCEPT !.calls = @ \ {c}]
           key == [id |-> c.id, page |-> 1]
           g == Import!Reset([f EXCEPT !.preview = key, !.loading = FALSE, !.loadedKey = key])
           u == [Import!blank EXCEPT !.preview = c.id]
<1>1. /\ FormOK(f, Import!url, n, ticked) /\ f \in PageForm(n) /\ (NoConfirm(importForm) => NoConfirm(f))
      /\ f.calls = importForm.calls \ {c} /\ f.seq = importForm.seq
      /\ c.kind # "upload" \/ c.answer # "error" => c.id \in 1..n
  BY AnswerSeen
<1>2. /\ n \in Nat /\ Import!url \in ImportAddress(n) /\ FormOK(importForm, Import!url, n, ticked)
  BY ImportNow
<1>3. /\ c.kind = "upload"
      /\ \/ importForm' = f /\ stack' = stack
         \/ importForm' = [f EXCEPT !.loading = FALSE] /\ stack' = stack
         \/ c.seq = f.seq /\ c.answer # "error" /\ Import!Push(g, u)
  BY DEF Import!uploadAnswered
<1> HIDE DEF n, f
<1>4. CASE importForm' = f /\ stack' = stack
  BY <1>1, <1>4, ImportSettles DEF n
<1>5. CASE importForm' = [f EXCEPT !.loading = FALSE] /\ stack' = stack
  <2> DEFINE h == [f EXCEPT !.loading = FALSE]
  <2>1. FormOK(h, Import!url, n, ticked) /\ h.calls = f.calls
    BY <1>1, <1>2, LoadingOver
  <2>2. importForm' = h /\ stack' = stack
    BY <1>5
  <2> HIDE DEF h
  <2>3. NoConfirm(importForm) => NoConfirm(h)
    BY <1>1, <2>1 DEF NoConfirm
  <2>4. QED
    BY <2>1, <2>2, <2>3, ImportSettles DEF n
<1>6. CASE c.seq = f.seq /\ c.answer # "error" /\ Import!Push(g, u)
  <2>1. c.id \in 1..n
    BY <1>1, <1>6
  <2>2. key \in [id : 1..n, page : {1, 2}]
    BY <2>1
  <2>3. /\ u \in ImportAddress(n) /\ u.preview = c.id /\ u.page = 1 /\ u.batch = None /\ u.preview # None
    BY <2>1, ImportSettings DEF ImportAddress, Import!blank
  <2>4. key.id = c.id /\ key.page = 1 /\ key = Import!Key(u)
    BY <2>3 DEF Import!Key
  <2> HIDE DEF key, u
  <2>5. CallsOK(f, n, ticked) /\ BatchKnown(f, Import!url)
    BY <1>1 DEF FormOK
  <2>a. /\ g \in PageForm(n) /\ g.preview = key /\ g.loadedKey = key /\ g.calls = f.calls /\ g.seq = f.seq /\ g.allow = FALSE
        /\ g.timer = f.timer /\ g.batch = f.batch /\ g.failures = f.failures
    BY <1>1, <2>2 DEF Import!Reset, PageForm
  <2> HIDE DEF g
  <2>6. CallsOK(g, n, ticked) /\ BatchKnown(g, Import!url)
    BY <1>1, <1>2, <2>5, <2>a, PageShown
  <2>7. Import!url.preview = None
    BY <1>1, <1>2, <1>3, <1>6 DEF FormOK, PreviewOK
  <2>8. Import!Key(Import!url) # Import!Key(u)
    BY <2>3, <2>7 DEF Import!Key
  <2>9. \A d \in g.calls : ~(d.kind = "upload" /\ d.seq = g.seq)
    <3>1. \A d \in importForm.calls : d.kind = "upload" /\ d.seq = c.seq => d = c
      BY <1>2, <1>3 DEF FormOK, CallsOK
    <3>2. QED
      BY <1>1, <1>6, <2>a, <2>6, <3>1
  <2>10. g.loadedKey.id = u.preview /\ g.preview = g.loadedKey
    BY <2>3, <2>4, <2>a, <2>6
  <2>11. /\ FormOK(Import!Navigated(g, Import!url, u), u, n, ticked)
         /\ NoConfirm(g) => NoConfirm(Import!Navigated(g, Import!url, u))
    BY <1>2, <2>3, <2>a, <2>6, <2>8, <2>9, <2>10, Navigates
  <2>12. NoConfirm(importForm) => NoConfirm(g)
    BY <1>1, <2>a, <2>6 DEF NoConfirm
  <2>13. Beside(Import!url, u)
    BY <2>7 DEF Beside
  <2>14. /\ StackOK(stack', n) /\ FormOK(importForm', stack'[Len(stack')], n, ticked)
         /\ ConfirmsOK(importForm', stack', bounds.confirms)
    BY <1>6, <2>3, <2>11, <2>12, <2>13, ImportPushes DEF n
  <2>15. QED
    BY <2>14, ImportKept DEF ImportInv, n
<1>7. QED
  BY <1>3, <1>4, <1>5, <1>6

LEMMA RowsAnswered ==
    ASSUME ImportInv, NEW c \in importForm.calls, c.answer # None, UNCHANGED <<previews, ticked, bounds>>,
           Import!rowsAnswered([importForm EXCEPT !.calls = @ \ {c}], c)
    PROVE  ImportInv'
<1> DEFINE n == Len(previews)
           f == [importForm EXCEPT !.calls = @ \ {c}]
           key == [id |-> c.id, page |-> c.page]
           g == Import!Reset([f EXCEPT !.preview = key, !.loading = FALSE, !.loadedKey = key])
           h == [f EXCEPT !.loading = FALSE]
           v == [Import!url EXCEPT !.preview = f.loadedKey.id, !.page = f.loadedKey.page]
           k == [f EXCEPT !.loading = FALSE, !.preview = None]
           w == [Import!url EXCEPT !.preview = None, !.page = 1]
<1>1. /\ FormOK(f, Import!url, n, ticked) /\ f \in PageForm(n) /\ (NoConfirm(importForm) => NoConfirm(f))
      /\ f.calls = importForm.calls \ {c} /\ f.seq = importForm.seq
      /\ c \in ImportCall(n) /\ (c.kind # "upload" => c.id \in 1..n)
  BY AnswerSeen
<1>2. /\ n \in 0..(MaxUploads + 1) /\ n \in Nat /\ Import!url \in ImportAddress(n) /\ FormOK(importForm, Import!url, n, ticked)
      /\ Import!url.preview \in 1..n \cup {None} /\ Import!url.batch \in 1..n \cup {None} /\ Import!url.page \in {1, 2}
  BY ImportNow
<1>3. /\ c.kind = "rows"
      /\ \/ importForm' = f /\ stack' = stack
         \/ c.live /\ importForm' = g /\ stack' = stack
         \/ f.loadedKey # None /\ Import!Replace(h, v)
         \/ f.loadedKey = None /\ Import!Replace(k, w)
  BY DEF Import!rowsAnswered, Import!Current
<1>4. c.id \in 1..n /\ c.page \in {1, 2}
  BY <1>1, <1>3 DEF ImportCall
<1> HIDE DEF n, f
<1>5. CASE importForm' = f /\ stack' = stack
  BY <1>1, <1>5, ImportSettles DEF n
<1>6. CASE c.live /\ importForm' = g /\ stack' = stack
  <2>1. key \in [id : 1..n, page : {1, 2}] /\ key.id = c.id
    BY <1>4
  <2> HIDE DEF key
  <2>2. CallsOK(f, n, ticked) /\ BatchKnown(f, Import!url)
    BY <1>1 DEF FormOK
  <2>a. /\ g \in PageForm(n) /\ g.preview = key /\ g.loadedKey = key /\ g.calls = f.calls /\ g.seq = f.seq /\ g.allow = FALSE
        /\ g.timer = f.timer /\ g.batch = f.batch /\ g.failures = f.failures
    BY <1>1, <2>1 DEF Import!Reset, PageForm
  <2> HIDE DEF g
  <2>3. CallsOK(g, n, ticked) /\ BatchKnown(g, Import!url)
    BY <1>1, <1>2, <2>2, <2>a, PageShown
  <2>4. Import!url.preview = c.id /\ Import!url.preview # None
    BY <1>2, <1>3, <1>4, <1>6, ImportSettings DEF FormOK, PreviewOK
  <2>5. PreviewOK(g, Import!url)
    BY <1>1, <2>1, <2>a, <2>3, <2>4 DEF FormOK, PreviewOK
  <2>6. FormOK(g, Import!url, n, ticked)
    BY <2>a, <2>3, <2>5 DEF FormOK
  <2>7. NoConfirm(importForm) => NoConfirm(g)
    BY <1>1, <2>a DEF NoConfirm
  <2>8. QED
    BY <1>6, <2>6, <2>7, ImportSettles DEF n
<1>7. CASE f.loadedKey # None /\ Import!Replace(h, v)
  <2>1. FormOK(h, Import!url, n, ticked) /\ h.calls = f.calls
    BY <1>1, <1>2, LoadingOver
  <2>2. f.loadedKey.id = Import!url.preview /\ f.loadedKey \in [id : 1..n, page : {1, 2}]
    BY <1>1, <1>7 DEF FormOK, PreviewOK, PageForm
  <2>3. v \in ImportAddress(n) /\ v.preview = Import!url.preview /\ v.batch = Import!url.batch
    BY <1>2, <2>2 DEF ImportAddress
  <2> HIDE DEF h, v
  <2>4. Beside(Import!url, v)
    BY <2>3 DEF Beside
  <2>5. /\ FormOK(Import!Navigated(h, Import!url, v), v, n, ticked)
        /\ NoConfirm(h) => NoConfirm(Import!Navigated(h, Import!url, v))
    BY <1>2, <2>1, <2>3, <2>4, NavigatesFrom
  <2>6. NoConfirm(importForm) => NoConfirm(h)
    BY <1>1, <2>1 DEF NoConfirm
  <2>7. /\ StackOK(stack', n) /\ FormOK(importForm', stack'[Len(stack')], n, ticked)
        /\ ConfirmsOK(importForm', stack', bounds.confirms)
    BY <1>7, <2>3, <2>5, <2>6, ImportReplaces DEF n
  <2>8. QED
    BY <2>7, ImportKept DEF ImportInv, n
<1>8. CASE f.loadedKey = None /\ Import!Replace(k, w)
  <2>1. w \in ImportAddress(n) /\ w.preview = None /\ w.batch = Import!url.batch
    BY <1>2 DEF ImportAddress
  <2>2. /\ k \in PageForm(n) /\ k.calls = f.calls /\ k.seq = f.seq /\ k.preview = None
        /\ k.loadedKey = f.loadedKey /\ k.allow = f.allow
        /\ k.timer = f.timer /\ k.batch = f.batch /\ k.failures = f.failures
    BY <1>1 DEF PageForm
  <2> HIDE DEF k, w
  <2>3. CallsOK(k, n, ticked)
    BY <1>1, <2>2 DEF FormOK, CallsOK, CallOK
  <2>4. PreviewOK(k, Import!url) /\ BatchKnown(k, Import!url)
    BY <1>1, <2>2 DEF FormOK, PreviewOK, BatchKnown
  <2>5. FormOK(k, Import!url, n, ticked)
    BY <2>2, <2>3, <2>4 DEF FormOK
  <2>6. Beside(Import!url, w)
    BY <2>1 DEF Beside
  <2>7. /\ FormOK(Import!Navigated(k, Import!url, w), w, n, ticked)
        /\ NoConfirm(k) => NoConfirm(Import!Navigated(k, Import!url, w))
    BY <1>2, <2>1, <2>5, <2>6, NavigatesFrom
  <2>8. NoConfirm(importForm) => NoConfirm(k)
    BY <1>1, <2>2 DEF NoConfirm
  <2>9. /\ StackOK(stack', n) /\ FormOK(importForm', stack'[Len(stack')], n, ticked)
        /\ ConfirmsOK(importForm', stack', bounds.confirms)
    BY <1>8, <2>1, <2>7, <2>8, ImportReplaces DEF n
  <2>10. QED
    BY <2>9, ImportKept DEF ImportInv, n
<1>9. QED
  BY <1>3, <1>5, <1>6, <1>7, <1>8

LEMMA ConfirmAnswered ==
    ASSUME ImportInv, NEW c \in importForm.calls, c.answer # None, UNCHANGED <<previews, ticked, bounds>>,
           Import!confirmAnswered([importForm EXCEPT !.calls = @ \ {c}], c)
    PROVE  ImportInv'
<1> DEFINE n == Len(previews)
           f == [importForm EXCEPT !.calls = @ \ {c}]
           h == [f EXCEPT !.loading = FALSE]
           g == Import!Reset([f EXCEPT !.batch = None, !.failures = None, !.preview = None, !.file = FALSE, !.loading = FALSE])
           u == [Import!blank EXCEPT !.batch = c.id]
<1>1. /\ FormOK(f, Import!url, n, ticked) /\ f \in PageForm(n) /\ (NoConfirm(importForm) => NoConfirm(f))
      /\ f.calls = importForm.calls \ {c} /\ f.seq = importForm.seq
      /\ c \in ImportCall(n) /\ (c.kind # "upload" => c.id \in 1..n)
  BY AnswerSeen
<1>2. /\ n \in 0..(MaxUploads + 1) /\ n \in Nat /\ Import!url \in ImportAddress(n) /\ FormOK(importForm, Import!url, n, ticked)
      /\ Import!url = stack[Len(stack)]
  BY ImportNow
<1>3. /\ c.kind = "confirm"
      /\ \/ importForm' = h /\ stack' = stack
         \/ Import!Push(g, u)
  BY DEF Import!confirmAnswered
<1>4. c.id \in 1..n
  BY <1>1, <1>3
<1>5. NoBatch(stack) /\ bounds.confirms # 0 /\ Import!url.batch = None
  <2>1. ~NoConfirm(importForm)
    BY <1>3 DEF NoConfirm
  <2>2. NoBatch(stack) /\ bounds.confirms # 0
    BY <2>1 DEF ImportInv, ConfirmsOK
  <2>3. Len(stack) \in 1..Len(stack)
    BY DEF ImportInv, StackOK
  <2>4. QED
    BY <1>2, <2>2, <2>3 DEF NoBatch
<1> HIDE DEF n, f
<1>6. NoConfirm(f)
  BY <1>1, <1>2, <1>3 DEF FormOK, CallsOK, NoConfirm
<1>7. CASE importForm' = h /\ stack' = stack
  <2>1. FormOK(h, Import!url, n, ticked) /\ h.calls = f.calls
    BY <1>1, <1>2, LoadingOver
  <2> HIDE DEF h
  <2>2. NoConfirm(importForm) => NoConfirm(h)
    BY <1>1, <2>1 DEF NoConfirm
  <2>3. QED
    BY <1>7, <2>1, <2>2, ImportSettles DEF n
<1>8. CASE Import!Push(g, u)
  <2>1. u \in ImportAddress(n) /\ u.preview = None /\ u.batch = c.id
    BY <1>4 DEF ImportAddress, Import!blank
  <2>2. /\ g \in PageForm(n) /\ g.calls = f.calls /\ g.seq = f.seq /\ g.preview = None
        /\ g.loadedKey = f.loadedKey /\ g.allow = FALSE
        /\ g.timer = f.timer /\ g.batch = None /\ g.failures = None
    BY <1>1 DEF PageForm, Import!Reset
  <2> HIDE DEF g, u
  <2>3. CallsOK(g, n, ticked)
    BY <1>1, <2>2 DEF FormOK, CallsOK, CallOK
  <2>4. PreviewOK(g, Import!url) /\ BatchKnown(g, Import!url)
    BY <1>1, <2>2 DEF FormOK, PreviewOK, BatchKnown
  <2>5. FormOK(g, Import!url, n, ticked)
    BY <2>2, <2>3, <2>4 DEF FormOK
  <2>6. Beside(Import!url, u)
    BY <2>1 DEF Beside
  <2>7. /\ FormOK(Import!Navigated(g, Import!url, u), u, n, ticked)
        /\ NoConfirm(g) => NoConfirm(Import!Navigated(g, Import!url, u))
    BY <1>2, <1>5, <2>1, <2>5, <2>6, NavigatesFrom
  <2>8. NoConfirm(g)
    BY <1>6, <2>2 DEF NoConfirm
  <2>9. /\ StackOK(stack', n) /\ FormOK(importForm', stack'[Len(stack')], n, ticked)
        /\ ConfirmsOK(importForm', stack', bounds.confirms)
    BY <1>5, <1>8, <2>1, <2>6, <2>7, <2>8, ImportPushes DEF n
  <2>10. QED
    BY <2>9, ImportKept DEF ImportInv, n
<1>9. QED
  BY <1>3, <1>7, <1>8

LEMMA StatusAnswered ==
    ASSUME ImportInv, NEW c \in importForm.calls, c.answer # None, UNCHANGED <<previews, ticked, bounds>>,
           Import!statusAnswered([importForm EXCEPT !.calls = @ \ {c}], c)
    PROVE  ImportInv'
<1> DEFINE n == Len(previews)
           f == [importForm EXCEPT !.calls = @ \ {c}]
           known == [id |-> c.id, state |-> c.answer]
           call == Import!Call("failures", c.id, 1, 0)
           more == IF c.answer = "completed_with_errors" THEN f.calls \cup {call} ELSE f.calls
           g == [f EXCEPT !.batch = known, !.timer = Import!Again(c.answer), !.calls = more]
<1>1. /\ FormOK(f, Import!url, n, ticked) /\ f \in PageForm(n) /\ (NoConfirm(importForm) => NoConfirm(f))
      /\ f.calls = importForm.calls \ {c} /\ f.seq = importForm.seq
      /\ c \in ImportCall(n) /\ (c.kind # "upload" => c.id \in 1..n)
  BY AnswerSeen
<1>2. n \in Nat /\ FormOK(importForm, Import!url, n, ticked)
  BY ImportNow
<1>3. /\ c.kind = "status" /\ stack' = stack
      /\ importForm' = IF ~Import!Listens(c) THEN f
                       ELSE [f EXCEPT !.batch = known, !.timer = Import!Again(c.answer),
                                      !.calls = IF c.answer = "completed_with_errors" THEN @ \cup {call} ELSE @]
  BY DEF Import!statusAnswered
<1>4. c.id \in 1..n /\ c.answer \in ImportAnswers
  BY <1>1, <1>3 DEF ImportCall
<1> HIDE DEF n, f
<1>5. importForm' = f \/ (c.live /\ importForm' = g)
  BY <1>1, <1>3 DEF Import!Listens, PageForm
<1>6. CASE importForm' = f
  BY <1>1, <1>3, <1>6, ImportSettles DEF n
<1>7. CASE c.live /\ importForm' = g
  <2>1. Import!url.batch = c.id /\ Import!url.batch # None
    BY <1>2, <1>3, <1>4, <1>7, ImportSettings DEF FormOK, BatchKnown
  <2>2. call \in ImportCall(n) /\ call.kind = "failures" /\ call.id = c.id
    BY <1>4 DEF Import!Call, ImportCall, ImportAnswers
  <2> HIDE DEF call
  <2>3. /\ more \in SUBSET ImportCall(n) /\ f.calls \subseteq more
        /\ \A d \in more : d \in f.calls \/ d = call
    BY <1>1, <2>2 DEF PageForm
  <2>4. known \in [id : 1..n, state : ImportAnswers] /\ known.id = c.id
    BY <1>4
  <2>5. Import!Again(c.answer) \in BOOLEAN
    BY DEF Import!Again
  <2> HIDE DEF more, known
  <2>6. /\ g \in PageForm(n) /\ g.calls = more /\ g.seq = f.seq /\ g.preview = f.preview
        /\ g.loadedKey = f.loadedKey /\ g.allow = f.allow /\ g.batch = known /\ g.failures = f.failures
    BY <1>1, <2>3, <2>4, <2>5 DEF PageForm
  <2> HIDE DEF g
  <2>7. CallsOK(g, n, ticked)
    <3>1. ASSUME NEW d \in more PROVE CallOK(d, g, n, ticked)
      <4>1. CASE d \in f.calls
        BY <1>1, <2>6, <4>1 DEF FormOK, CallsOK, CallOK
      <4>2. CASE d = call
        BY <1>4, <2>2, <4>2 DEF CallOK
      <4>3. QED
        BY <2>3, <4>1, <4>2
    <3>2. \A d \in more : d.kind \in {"upload", "confirm"} => d \in f.calls
      BY <2>2, <2>3
    <3>3. QED
      BY <1>1, <2>6, <3>1, <3>2 DEF FormOK, CallsOK
  <2>8. PreviewOK(g, Import!url)
    BY <1>1, <2>2, <2>3, <2>6 DEF FormOK, PreviewOK
  <2>9. BatchKnown(g, Import!url)
    <3>1. \A d \in more : d.kind = "status" => ~d.live
      <4>1. \A d \in importForm.calls : d.kind = "status" /\ d.live => d = c
        BY <1>2, <1>3, <1>7 DEF FormOK, BatchKnown
      <4>2. QED
        BY <1>1, <2>2, <2>3, <4>1
    <3>2. \A d \in more : d.kind = "failures" /\ d.live => d.id = Import!url.batch
      BY <1>1, <2>1, <2>2, <2>3 DEF FormOK, BatchKnown
    <3>3. g.failures # None => g.failures = Import!url.batch
      BY <1>1, <2>6 DEF FormOK, BatchKnown
    <3>4. QED
      BY <2>1, <2>4, <2>6, <3>1, <3>2, <3>3 DEF BatchKnown
  <2>10. FormOK(g, Import!url, n, ticked)
    BY <2>6, <2>7, <2>8, <2>9 DEF FormOK
  <2>11. NoConfirm(importForm) => NoConfirm(g)
    BY <1>1, <2>2, <2>3, <2>6 DEF NoConfirm
  <2>12. QED
    BY <1>3, <1>7, <2>10, <2>11, ImportSettles DEF n
<1>8. QED
  BY <1>5, <1>6, <1>7

LEMMA FailuresAnswered ==
    ASSUME ImportInv, NEW c \in importForm.calls, c.answer # None, UNCHANGED <<previews, ticked, bounds>>,
           Import!failuresAnswered([importForm EXCEPT !.calls = @ \ {c}], c)
    PROVE  ImportInv'
<1> DEFINE n == Len(previews)
           f == [importForm EXCEPT !.calls = @ \ {c}]
           g == [f EXCEPT !.failures = c.id]
<1>1. /\ FormOK(f, Import!url, n, ticked) /\ f \in PageForm(n) /\ (NoConfirm(importForm) => NoConfirm(f))
      /\ f.calls = importForm.calls \ {c} /\ f.seq = importForm.seq
      /\ c \in ImportCall(n) /\ (c.kind # "upload" => c.id \in 1..n)
  BY AnswerSeen
<1>2. n \in Nat /\ FormOK(importForm, Import!url, n, ticked)
  BY ImportNow
<1>3. c.kind = "failures" /\ stack' = stack /\ importForm' = IF ~Import!Listens(c) THEN f ELSE g
  BY DEF Import!failuresAnswered
<1>4. c.id \in 1..n
  BY <1>1, <1>3
<1> HIDE DEF n, f
<1>5. importForm' = f \/ (c.live /\ importForm' = g)
  BY <1>3 DEF Import!Listens
<1>6. CASE importForm' = f
  BY <1>1, <1>3, <1>6, ImportSettles DEF n
<1>7. CASE c.live /\ importForm' = g
  <2>1. Import!url.batch = c.id /\ Import!url.batch # None
    BY <1>2, <1>3, <1>4, <1>7, ImportSettings DEF FormOK, BatchKnown
  <2>2. /\ g \in PageForm(n) /\ g.calls = f.calls /\ g.seq = f.seq /\ g.preview = f.preview
        /\ g.loadedKey = f.loadedKey /\ g.allow = f.allow
        /\ g.timer = f.timer /\ g.batch = f.batch /\ g.failures = c.id
    BY <1>1, <1>4 DEF PageForm
  <2> HIDE DEF g
  <2>3. CallsOK(g, n, ticked)
    BY <1>1, <2>2 DEF FormOK, CallsOK, CallOK
  <2>4. PreviewOK(g, Import!url)
    BY <1>1, <2>2 DEF FormOK, PreviewOK
  <2>5. BatchKnown(g, Import!url)
    BY <1>1, <2>1, <2>2 DEF FormOK, BatchKnown
  <2>6. FormOK(g, Import!url, n, ticked)
    BY <2>2, <2>3, <2>4, <2>5 DEF FormOK
  <2>7. NoConfirm(importForm) => NoConfirm(g)
    BY <1>1, <2>2 DEF NoConfirm
  <2>8. QED
    BY <1>3, <1>7, <2>6, <2>7, ImportSettles DEF n
<1>8. QED
  BY <1>5, <1>6, <1>7

LEMMA ImportHeard ==
    ASSUME ImportInv, NEW c \in importForm.calls, Import!answered(c)
    PROVE  ImportInv'
<1> DEFINE f == [importForm EXCEPT !.calls = @ \ {c}]
<1>1. /\ c.answer # None /\ UNCHANGED <<previews, ticked, bounds>>
      /\ \/ Import!uploadAnswered(f, c) \/ Import!rowsAnswered(f, c) \/ Import!confirmAnswered(f, c)
         \/ Import!statusAnswered(f, c) \/ Import!failuresAnswered(f, c)
  BY DEF Import!answered
<1>2. CASE Import!uploadAnswered(f, c)
  BY <1>1, <1>2, UploadAnswered
<1>3. CASE Import!rowsAnswered(f, c)
  BY <1>1, <1>3, RowsAnswered
<1>4. CASE Import!confirmAnswered(f, c)
  BY <1>1, <1>4, ConfirmAnswered
<1>5. CASE Import!statusAnswered(f, c)
  BY <1>1, <1>5, StatusAnswered
<1>6. CASE Import!failuresAnswered(f, c)
  BY <1>1, <1>6, FailuresAnswered
<1>7. QED
  BY <1>1, <1>2, <1>3, <1>4, <1>5, <1>6

\* A page just opened: nothing is known and nothing was asked.
LEMMA PageOpened ==
    ASSUME NEW n \in Nat, NEW f, NEW u, NEW k \in Nat,
           f = [file |-> FALSE, preview |-> None, loadedKey |-> None, allow |-> FALSE, loading |-> FALSE,
                seq |-> 0, batch |-> None, failures |-> None, timer |-> FALSE, calls |-> {}]
    PROVE  /\ f \in PageForm(n) /\ CallsOK(f, n, {}) /\ PreviewOK(f, u) /\ (\A w : BatchKnown(f, w)) /\ NoConfirm(f)
           /\ f.calls = {} /\ f.loadedKey = None /\ f.preview = None
<1>1. f \in PageForm(n)
  BY DEF PageForm
<1>2. CallsOK(f, n, {}) /\ NoConfirm(f)
  BY DEF CallsOK, NoConfirm
<1>3. PreviewOK(f, u) /\ \A w : BatchKnown(f, w)
  BY DEF PreviewOK, BatchKnown
<1>4. QED
  BY <1>1, <1>2, <1>3

LEMMA StackOpened ==
    ASSUME NEW n \in Nat, NEW u \in ImportAddress(n), u.batch = None
    PROVE  /\ StackOK(<<u>>, n) /\ NoBatch(<<u>>) /\ <<u>>[Len(<<u>>)] = u
<1> DEFINE s == <<u>>
<1>1. s \in Seq(ImportAddress(n)) /\ Len(s) = 1 /\ s[1] = u
  OBVIOUS
<1> HIDE DEF s
<1>2. \A i \in 1..Len(s) : i = 1
  BY <1>1
<1>3. StackOK(s, n) /\ NoBatch(s) /\ s[Len(s)] = u
  BY <1>1, <1>2 DEF StackOK, NoBatch
<1>4. QED
  BY <1>3 DEF s

LEMMA ImportInit == Import!Init => ImportInv
<1> SUFFICES ASSUME Import!Init PROVE ImportInv
  OBVIOUS
<1> DEFINE f == [file |-> FALSE, preview |-> None, loadedKey |-> None, allow |-> FALSE, loading |-> FALSE,
                 seq |-> 0, batch |-> None, failures |-> None, timer |-> FALSE, calls |-> {}]
           u == [Import!blank EXCEPT !.preview = 1]
           new == [state |-> "preview", update |-> FALSE]
<1>1. /\ \/ previews = <<>> /\ stack = <<Import!blank>> /\ importForm = f
         \/ previews = <<new>> /\ stack = <<u>> /\ importForm = Import!PreviewEffect(f, u)
      /\ ticked = {} /\ bounds = [uploads |-> 0, turns |-> 0, confirms |-> 0, back |-> 0, lost |-> 0, ticks |-> 0]
  BY DEF Import!Init
<1>2. bounds \in ImportBounds /\ bounds.confirms = 0
  BY <1>1 DEF ImportBounds
<1>3. \A s, g : NoConfirm(g) /\ NoBatch(s) => ConfirmsOK(g, s, bounds.confirms)
  BY <1>2, ImportSettings DEF ConfirmsOK
<1>4. \A n \in Nat : \A v : /\ f \in PageForm(n) /\ CallsOK(f, n, {}) /\ PreviewOK(f, v) /\ (\A w : BatchKnown(f, w)) /\ NoConfirm(f)
                        /\ f.calls = {} /\ f.loadedKey = None /\ f.preview = None
  BY PageOpened
<1> HIDE DEF f
<1>5. CASE previews = <<>> /\ stack = <<Import!blank>> /\ importForm = f
  <2>1. Import!blank \in ImportAddress(0) /\ Import!blank.batch = None
    BY DEF Import!blank, ImportAddress
  <2>2. /\ StackOK(<<Import!blank>>, 0) /\ NoBatch(<<Import!blank>>)
        /\ <<Import!blank>>[Len(<<Import!blank>>)] = Import!blank
    BY <2>1, StackOpened
  <2>3. /\ StackOK(stack, 0) /\ NoBatch(stack) /\ stack[Len(stack)] = Import!blank
    BY <1>5, <2>2
  <2>4. FormOK(importForm, Import!blank, 0, ticked) /\ NoConfirm(importForm)
    BY <1>1, <1>4, <1>5 DEF FormOK
  <2>5. /\ previews \in Seq(ImportPreview) /\ Len(previews) = 0
    BY <1>5
  <2>6. Import!UpdateTicked
    BY <1>5 DEF Import!UpdateTicked
  <2>7. 0 <= MaxUploads + 1
    BY ImportSettings
  <2>8. QED
    BY <1>2, <1>3, <2>3, <2>4, <2>5, <2>6, <2>7 DEF ImportInv
<1>6. CASE previews = <<new>> /\ stack = <<u>> /\ importForm = Import!PreviewEffect(f, u)
  <2>1. u \in ImportAddress(1) /\ u.batch = None /\ u.preview = 1
    BY DEF Import!blank, ImportAddress
  <2> HIDE DEF u
  <2>2. /\ StackOK(<<u>>, 1) /\ NoBatch(<<u>>) /\ <<u>>[Len(<<u>>)] = u
    BY <2>1, StackOpened
  <2>3. /\ StackOK(stack, 1) /\ NoBatch(stack) /\ stack[Len(stack)] = u
    BY <1>6, <2>2
  <2>4. f \in PageForm(1) /\ CallsOK(f, 1, {}) /\ (\A w : BatchKnown(f, w)) /\ NoConfirm(f)
        /\ f.calls = {} /\ f.loadedKey = None /\ f.preview = None
    BY <1>4
  <2>5. LET g == Import!PreviewEffect(f, u)
        IN  /\ g \in PageForm(1) /\ CallsOK(g, 1, {}) /\ PreviewOK(g, u)
            /\ \A w : BatchKnown(f, w) => BatchKnown(g, w)
            /\ NoConfirm(f) => NoConfirm(g)
    BY <2>1, <2>4, PreviewMoves
  <2>6. FormOK(importForm, u, 1, ticked) /\ NoConfirm(importForm)
    BY <1>1, <1>6, <2>4, <2>5 DEF FormOK
  <2>7. new \in ImportPreview
    BY DEF ImportPreview
  <2>8. /\ previews \in Seq(ImportPreview) /\ Len(previews) = 1 /\ previews[1] = new
    BY <1>6, <2>7
  <2>9. Import!UpdateTicked
    BY <2>8 DEF Import!UpdateTicked
  <2>10. 1 <= MaxUploads + 1
    BY ImportSettings
  <2>11. QED
    BY <1>2, <1>3, <2>3, <2>6, <2>8, <2>9, <2>10 DEF ImportInv
<1>7. QED
  BY <1>1, <1>5, <1>6

LEMMA ImportNext == MaxConfirms <= 1 /\ ImportInv /\ [PartsNext]_partsVars => ImportInv'
<1> SUFFICES ASSUME MaxConfirms <= 1, ImportInv, [PartsNext]_partsVars PROVE ImportInv'
  OBVIOUS
<1>1. CASE Import!Next
  <2>1. CASE Import!user
    BY <2>1, ImportChosen, ImportUploads, ImportConfirms, ImportTurns, ImportTicks, ImportStepsBack DEF Import!user
  <2>2. CASE Import!expire \/ Import!finish \/ Import!poll
    BY <2>2, ImportEnds, ImportPolls
  <2>3. ASSUME NEW c \in importForm.calls, Import!served(c) \/ Import!lost(c) \/ Import!answered(c) PROVE ImportInv'
    BY <2>3, ImportServed, ImportLost, ImportHeard
  <2>4. QED
    BY <1>1, <2>1, <2>2, <2>3 DEF Import!Next
<1>2. CASE UNCHANGED importVars
  BY <1>2 DEF importVars, ImportInv, Import!UpdateTicked
<1>3. QED
  BY <1>1, <1>2, Zenon DEF PartsNext, partsVars

\* For any number of uploads, turned pages, steps back, ticks, lost answers and
\* expired previews, and one confirmation: light points that exist are updated
\* only by a batch for whose preview the box was ticked, the preview that can be
\* confirmed is the one in the address, and the batch and the failed rows on the
\* page are those of the address (AdminImportPage.tsx, imports.ts).
THEOREM ImportPageIsSound == MaxConfirms <= 1 => (PartsSpec => []ImportPageSound)
<1> SUFFICES ASSUME MaxConfirms <= 1 PROVE PartsSpec => []ImportPageSound
  OBVIOUS
<1>1. PartsInit => ImportInv
  BY ImportInit DEF PartsInit
<1>2. ImportInv => ImportPageSound
  <2> SUFFICES ASSUME ImportInv PROVE ImportPageSound
    OBVIOUS
  <2> DEFINE n == Len(previews)
             u == Import!url
             f == importForm
  <2>1. /\ n \in Nat /\ FormOK(f, u, n, ticked) /\ f \in PageForm(n)
        /\ u.preview \in 1..n \cup {None} /\ u.batch \in 1..n \cup {None}
    BY ImportNow
  <2>2. previews \in Seq(ImportPreview) /\ stack \in Seq(ImportAddress(n))
    BY DEF ImportInv, StackOK
  <2>3. ImportAddress(n) \subseteq Import!Address
    BY <2>1 DEF ImportAddress, Import!Address, Import!Pages
  <2>4. \A i \in DOMAIN stack : stack[i] \in Import!Address
    BY <2>2, <2>3
  <2>5. f.preview = None \/ f.preview.id \in DOMAIN previews
    BY <2>1, <2>2 DEF PageForm
  <2> HIDE DEF n, u, f
  <2>6. \A c, d \in f.calls : c.kind = d.kind /\ c.live /\ d.live /\ c.kind \in {"rows", "status"} => c = d
    BY <2>1 DEF FormOK, PreviewOK, BatchKnown
  <2>7. f.timer => u.batch # None
    BY <2>1 DEF FormOK, BatchKnown
  <2>8. Import!TypeOK
    BY <2>4, <2>5, <2>6, <2>7 DEF Import!TypeOK, f, u
  <2>9. f.preview # None => f.preview.id = u.preview
    BY <2>1 DEF FormOK, PreviewOK
  <2>10. /\ f.batch # None => f.batch.id = u.batch
         /\ f.failures # None => f.failures = u.batch
    BY <2>1 DEF FormOK, BatchKnown
  <2>11. QED
    BY <2>8, <2>9, <2>10 DEF ImportPageSound, Import!ConfirmsNamed, Import!BatchMatchesUrl, ImportInv, f, u
<1>3. QED
  BY <1>1, <1>2, ImportNext, PTL DEF PartsSpec

-----------------------------------------------------------------------------
(* The stored draft: what ReportDraftProofs proves of it, for the parts.    *)

DraftInv ==
    /\ part = "draft" => Stored!Inv
    /\ part = "plain" => Plain!Inv

LEMMA DraftInit == PartsInit => DraftInv
  BY PartsAssumption, Stored!InitInv, Plain!InitInv DEF PartsInit, DraftInv

\* A step of the parts is one of the draft that runs, or leaves the draft alone.
LEMMA DraftSteps ==
    ASSUME [PartsNext]_partsVars
    PROVE  /\ part' = part
           /\ \/ part = "draft" /\ [Stored!Next]_(Stored!vars)
              \/ part = "plain" /\ [Plain!Next]_(Plain!vars)
              \/ part \notin {"draft", "plain"} /\ UNCHANGED draftVars
<1>1. CASE UNCHANGED partsVars
  BY <1>1 DEF partsVars, draftVars, Stored!vars, Stored!pageVars, Stored!serverVars, Plain!vars, Plain!pageVars, Plain!serverVars
<1>2. CASE PartsNext
  BY <1>2 DEF PartsNext
<1>3. QED
  BY <1>1, <1>2

LEMMA DraftNext == DraftInv /\ [PartsNext]_partsVars => DraftInv'
<1> SUFFICES ASSUME DraftInv, [PartsNext]_partsVars PROVE DraftInv'
  OBVIOUS
<1>1. CASE part = "draft" /\ [Stored!Next]_(Stored!vars)
  <2>1. Stored!Inv'
    BY <1>1, PartsAssumption, Stored!StepInv DEF DraftInv
  <2>2. QED
    BY <1>1, <2>1, DraftSteps DEF DraftInv
<1>2. CASE part = "plain" /\ [Plain!Next]_(Plain!vars)
  <2>1. Plain!Inv'
    BY <1>2, PartsAssumption, Plain!StepInv DEF DraftInv
  <2>2. QED
    BY <1>2, <2>1, DraftSteps DEF DraftInv
<1>3. QED
  BY <1>1, <1>2, DraftSteps DEF DraftInv

DraftRepeats ==
    \A i \in DOMAIN draftCalls :
        draftCalls[i].content = None /\ draftCalls'[i].content # None /\ Stored!Here(i) /\ draftPending
            => \E j \in DOMAIN draftCalls : draftCalls[j].content = draftCalls'[i].content

LEMMA DraftRepeated == DraftInv /\ [PartsNext]_partsVars => [DraftRepeats]_(Stored!vars)
<1> SUFFICES ASSUME DraftInv, [PartsNext]_partsVars PROVE [DraftRepeats]_(Stored!vars)
  OBVIOUS
<1>1. CASE part = "draft" /\ [Stored!Next]_(Stored!vars)
  BY <1>1, PartsAssumption, Stored!StepRepeats DEF DraftInv, DraftRepeats, Stored!Repeats
<1>2. CASE part = "plain" /\ [Plain!Next]_(Plain!vars)
  BY <1>2, PartsAssumption, Plain!StepRepeats DEF DraftInv, DraftRepeats, Plain!Repeats, Plain!Here, Stored!Here
<1>3. CASE UNCHANGED draftVars
  BY <1>3 DEF draftVars, Stored!vars, Stored!pageVars, Stored!serverVars
<1>4. QED
  BY <1>1, <1>2, <1>3, DraftSteps

DraftKept ==
    /\ part = "draft" => Stored!TypeOK /\ Stored!NothingLost
    /\ part = "plain" => Plain!TypeOK /\ Plain!NothingLost

LEMMA KeptDraft == DraftInv => DraftKept
  BY PartsAssumption, Stored!InvLost, Plain!InvLost DEF DraftInv, DraftKept

\* For any contents, times, reloads, visits elsewhere, lost answers and failures of
\* the storage: a draft that was sent is dropped only for its success or its age, a
\* success is shown only for a report that is recorded, and while a report may have
\* arrived the page sends only what it sent before (ReportFormPage.tsx,
\* reportDraftStorage.ts).
THEOREM DraftsAreKept == PartsSpec => []DraftKept /\ Stored!RetrySame
<1>1. PartsSpec => []DraftInv
  BY DraftInit, DraftNext, PTL DEF PartsSpec
<1>2. []DraftInv => []DraftKept
  BY KeptDraft, PTL
<1>3. PartsSpec => [][DraftRepeats]_(Stored!vars)
  BY <1>1, DraftRepeated, PTL DEF PartsSpec
<1>4. QED
  BY <1>1, <1>2, <1>3, PTL DEF Stored!RetrySame, DraftRepeats

OnceDraft == DraftInv /\ (part = "plain" => Plain!OnceInv)

LEMMA OnceDraftNext ==
    ASSUME Invalid = {}
    PROVE  OnceDraft /\ [PartsNext]_partsVars => OnceDraft'
<1> SUFFICES ASSUME OnceDraft, [PartsNext]_partsVars PROVE OnceDraft'
  OBVIOUS
<1>1. Plain!Simple
  BY DEF Plain!Simple
<1>2. CASE part = "plain" /\ [Plain!Next]_(Plain!vars)
  <2>1. Plain!OnceInv'
    BY <1>1, <1>2, PartsAssumption, Plain!StepOnce DEF OnceDraft, DraftInv
  <2>2. QED
    BY <2>1, DraftNext DEF OnceDraft
<1>3. CASE part # "plain"
  BY <1>3, DraftNext, DraftSteps DEF OnceDraft
<1>4. QED
  BY <1>2, <1>3, DraftSteps

\* With that, and as long as the server refuses nothing the form lets through: where
\* nothing is awaited before the sending, a report is recorded once, however often it
\* is sent and however late answers are heard (ReportFormPage.tsx, submissions.ts).
THEOREM DraftIsSound == Invalid = {} => (PartsSpec => DraftSound)
<1> SUFFICES ASSUME Invalid = {} PROVE PartsSpec => DraftSound
  OBVIOUS
<1>1. PartsInit => OnceDraft
  BY DraftInit, PartsAssumption, Plain!InitOnce DEF PartsInit, OnceDraft
<1>2. PartsSpec => []OnceDraft
  BY <1>1, OnceDraftNext, PTL DEF PartsSpec
<1>3. OnceDraft => /\ part = "draft" => Stored!TypeOK /\ Stored!NothingLost
                   /\ part = "plain" => Plain!TypeOK /\ Plain!NothingLost /\ Plain!RecordedOnce
  BY KeptDraft, PartsAssumption, Plain!InvOnce DEF OnceDraft, DraftInv, DraftKept
<1>4. QED
  BY <1>2, <1>3, DraftsAreKept, PTL DEF DraftSound

=============================================================================
