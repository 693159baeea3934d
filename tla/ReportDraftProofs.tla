--------------------------- MODULE ReportDraftProofs ---------------------------
(***************************************************************************)
(* The draft of a report, for any contents, times and number of calls,     *)
(* instances of the page and failures: what was sent is kept and is what a *)
(* retry sends; and where nothing is awaited before the sending and        *)
(* nothing is refused, a report is recorded once.                          *)
(***************************************************************************)
EXTENDS ReportDraft, SequenceTheorems, TLAPS

\* What was sent, by any call.
Sent == {calls[j].content : j \in DOMAIN calls} \ {None}

Answers    == {"asking", "dropped", "none", "unavailable", "success", "refused", "verification"}
CallRecord == [form : Values, restored : SUBSET Content, since : Nat \cup {None}, token : Nat, by : Nat \ {0},
               content : Content \cup {None}, answer : Answers, heard : BOOLEAN]

Types ==
    /\ now \in Nat /\ mount \in Nat /\ mounts \in Nat /\ mount <= mounts /\ token \in Nat /\ tokens \in Nat /\ token <= tokens
    /\ form \in Values /\ pending \in BOOLEAN /\ since \in Nat \cup {None} /\ prepared \in Content \cup {None}
    /\ blocked \in BOOLEAN /\ started \in BOOLEAN /\ shown \in BOOLEAN
    /\ calls \in Seq(CallRecord) /\ draft \in Draft \cup {None}
    /\ recorded \in Seq(Content) /\ receiptAt \in Nat \cup {None}

\* A call of the page that is open asks for an address while nothing is pending, or
\* it is a retry and has what it repeats.
CallOK(i) ==
    /\ calls[i].by <= mounts
    /\ calls[i].answer = "asking" => calls[i].content = None /\ ~calls[i].heard
    /\ calls[i].answer = "dropped" => calls[i].heard
    /\ calls[i].answer \notin {"asking", "dropped"} => calls[i].content # None
    /\ calls[i].answer = "success" => recorded # <<>>
    /\ calls[i].restored \subseteq Sent
    /\ calls[i].answer = "asking" /\ calls[i].by = mount /\ pending => calls[i].restored # {}

\* The page has at most one call whose answer it waits for.
OneUnheard == \A i, j \in DOMAIN calls :
    calls[i].by = mount /\ ~calls[i].heard /\ calls[j].by = mount /\ ~calls[j].heard => i = j /\ started

\* What is pinned, in storage or on the page, was sent, and a retry has it.
PinnedOK ==
    /\ prepared # None => prepared \in Sent
    /\ pending => prepared # None
    /\ draft # None => /\ draft.updatedAt <= now /\ (draft.pending => draft.prepared # None)
                       /\ draft.prepared # None => draft.prepared \in Sent

OutcomeOK ==
    /\ draft = None => shown \/ now > TTL
    /\ shown => recorded # <<>>
    /\ receiptAt # None => recorded # <<>>

Inv == Types /\ (\A i \in DOMAIN calls : CallOK(i)) /\ OneUnheard /\ PinnedOK /\ OutcomeOK

\* Nothing is awaited before a report is sent, and nothing is refused.
Simple == ~Verification /\ ~AsksAddress /\ Invalid = {}

Asks(i) == calls[i].answer = "asking"

\* Once something was sent the stored draft and the open page repeat it; the attempt
\* began by now, and before its report was recorded.
DraftOnce == draft # None =>
    /\ Sent # {} => draft.pending
    /\ draft.pending => draft.since # None
    /\ draft.since # None => draft.since <= now
    /\ recorded # <<>> => draft.since # None /\ draft.since <= receiptAt

PageOnce ==
    /\ token = 0
    /\ pending => since # None
    /\ since # None => since <= now
    /\ mount # 0 /\ Sent # {} => pending
    /\ mount # 0 /\ recorded # <<>> => since # None /\ since <= receiptAt

\* The call that sends the first report is alone, and none is under way that the
\* receipt does not answer.
CallOnce(i) ==
    /\ calls[i].answer \notin {"refused", "verification"}
    /\ calls[i].since # None => calls[i].since <= now
    /\ Asks(i) /\ calls[i].by # mount => Sent # {}
    /\ Asks(i) /\ calls[i].since = None => Sent = {} /\ \A j \in DOMAIN calls : Asks(j) => j = i
    /\ Asks(i) /\ recorded # <<>> => calls[i].since # None /\ calls[i].since <= receiptAt
    /\ calls[i].answer \in {"asking", "none"} /\ recorded # <<>> => now < receiptAt + TTL

RecordOnce == recorded # <<>> => Sent # {} /\ receiptAt # None /\ Len(recorded) = 1

OnceInv == DraftOnce /\ PageOnce /\ (\A i \in DOMAIN calls : CallOnce(i)) /\ RecordOnce

-----------------------------------------------------------------------------
(* The calls and what they sent.                                           *)

LEMMA CallReplaced ==
    ASSUME NEW S, NEW q \in Seq(S), NEW i \in DOMAIN q, NEW r \in S
    PROVE  /\ [q EXCEPT ![i] = r] \in Seq(S) /\ DOMAIN [q EXCEPT ![i] = r] = DOMAIN q
           /\ [q EXCEPT ![i] = r][i] = r
           /\ \A j \in DOMAIN q : j # i => [q EXCEPT ![i] = r][j] = q[j]
<1>1. DOMAIN q = 1..Len(q) /\ Len(q) \in Nat /\ \A j \in 1..Len(q) : q[j] \in S
  OBVIOUS
<1> DEFINE p == [q EXCEPT ![i] = r]
<1>2. p \in [1..Len(q) -> S] /\ p[i] = r /\ \A j \in DOMAIN q : j # i => p[j] = q[j]
  BY <1>1
<1> HIDE DEF p
<1>3. p \in Seq(S) /\ DOMAIN p = DOMAIN q
  BY <1>1, <1>2
<1>4. QED
  BY <1>2, <1>3 DEF p

\* What was sent stays sent.
Grows ==
    /\ DOMAIN calls \subseteq DOMAIN calls'
    /\ \A i \in DOMAIN calls : calls[i].content # None => calls'[i].content = calls[i].content
    /\ mounts' \in Nat /\ mounts <= mounts' /\ (recorded # <<>> => recorded' # <<>>)

LEMMA SentGrows == Grows => Sent \subseteq Sent'
<1> SUFFICES ASSUME Grows, NEW c \in Sent PROVE c \in Sent'
  OBVIOUS
<1>1. PICK j \in DOMAIN calls : c = calls[j].content /\ c # None
  BY DEF Sent
<1>2. j \in DOMAIN calls' /\ calls'[j].content = c
  BY <1>1 DEF Grows
<1>3. QED
  BY <1>1, <1>2 DEF Sent

LEMMA CallTypes ==
    ASSUME Inv, NEW i \in DOMAIN calls
    PROVE  calls[i] \in CallRecord /\ CallOK(i)
  BY DEF Inv, Types

\* The draft is stored anew, as the page has it or as a call pins it.
LEMMA DraftSaved ==
    ASSUME DraftAssumption, Inv, NEW f \in Values, NEW p \in BOOLEAN, NEW s \in Nat \cup {None}, NEW c \in Content \cup {None},
           p => c # None, saveReportDraft(f, p, s, c)
    PROVE  /\ draft' \in Draft /\ draft' # None /\ draft'.updatedAt = now /\ draft'.pending = p /\ draft'.form = f
           /\ draft'.prepared = IF p THEN c ELSE None
           /\ draft'.since = IF ~p THEN None ELSE IF s # None THEN s
                             ELSE IF draft # None /\ draft.pending THEN draft.since ELSE now
<1> DEFINE u == IF ~p THEN None ELSE IF s # None THEN s
                ELSE IF draft # None /\ draft.pending THEN draft.since ELSE now
           v == IF ~p THEN None ELSE IF c # None \/ draft = None THEN c ELSE draft.prepared
<1>1. draft' = [form |-> f, pending |-> p, updatedAt |-> now, since |-> u, prepared |-> v]
  BY DEF saveReportDraft
<1>2. now \in Nat /\ u \in Nat \cup {None}
  BY DEF Inv, Types, Draft
<1>3. v = IF p THEN c ELSE None
  OBVIOUS
<1> HIDE DEF u, v
<1>4. v \in Content \cup {None}
  BY <1>3
<1>5. /\ draft' \in Draft /\ draft'.updatedAt = now /\ draft'.pending = p /\ draft'.form = f
      /\ draft'.prepared = v /\ draft'.since = u
  BY <1>1, <1>2, <1>4 DEF Draft
<1>6. draft' # None
  BY <1>5 DEF DraftAssumption
<1>7. QED
  BY <1>3, <1>5, <1>6 DEF u

\* A call is as good after a step that leaves it alone, while its page does not
\* begin to be one that retries.
LEMMA CallKept ==
    ASSUME Inv, Grows, NEW i \in DOMAIN calls, calls'[i] = calls[i],
           calls[i].answer = "asking" /\ calls[i].by = mount' /\ pending' => mount' = mount /\ pending
    PROVE  CallOK(i)'
<1>1. CallOK(i) /\ Sent \subseteq Sent' /\ mounts <= mounts' /\ (recorded # <<>> => recorded' # <<>>)
  BY SentGrows, CallTypes DEF Grows
<1>2. calls[i].by \in Nat /\ mounts \in Nat
  BY CallTypes DEF CallRecord, Inv, Types
<1>3. calls[i].by <= mounts'
  BY <1>1, <1>2 DEF CallOK, Grows
<1>4. QED
  BY <1>1, <1>3 DEF CallOK

-----------------------------------------------------------------------------
(* The steps.                                                              *)

LEMMA InitInv == DraftAssumption /\ Init => Inv
<1> SUFFICES ASSUME DraftAssumption, Init PROVE Inv
  OBVIOUS
<1>1. calls = <<>> /\ recorded = <<>> /\ DOMAIN calls = {} /\ calls \in Seq(CallRecord) /\ recorded \in Seq(Content)
  BY DEF Init
<1>2. draft \in Draft /\ draft # None /\ draft.updatedAt = 0 /\ draft.pending = FALSE /\ draft.prepared = None
  <2>1. /\ draft = [form |-> form, pending |-> FALSE, since |-> None, prepared |-> None, updatedAt |-> 0]
        /\ form \in Values
    BY DEF Init
  <2>2. draft \in Draft /\ draft.updatedAt = 0 /\ draft.pending = FALSE /\ draft.prepared = None
    BY <2>1 DEF Draft
  <2>3. QED
    BY <2>2 DEF DraftAssumption
<1>3. Types
  <2>1. /\ now = 0 /\ mount = 1 /\ mounts = 1 /\ token = 0 /\ tokens = 0 /\ form \in Values /\ pending = FALSE
        /\ since = None /\ prepared = None /\ blocked = FALSE /\ started = FALSE /\ shown = FALSE /\ receiptAt = None
    BY DEF Init
  <2>2. pending \in BOOLEAN /\ blocked \in BOOLEAN /\ started \in BOOLEAN /\ shown \in BOOLEAN
    BY <2>1
  <2>3. /\ now \in Nat /\ mount \in Nat /\ mounts \in Nat /\ mount <= mounts /\ token \in Nat /\ tokens \in Nat
        /\ token <= tokens
    BY <2>1
  <2>4. since \in Nat \cup {None} /\ prepared \in Content \cup {None} /\ receiptAt \in Nat \cup {None}
    BY <2>1
  <2>5. QED
    BY <1>1, <1>2, <2>1, <2>2, <2>3, <2>4 DEF Types
<1>4. QED
  BY <1>1, <1>2, <1>3 DEF Init, Inv, CallOK, OneUnheard, PinnedOK, OutcomeOK

\* Steps that leave the calls alone, the page closed or a new one.
LEMMA QuietStep ==
    ASSUME DraftAssumption, Inv, UNCHANGED calls, Types', PinnedOK', OutcomeOK', Grows,
           \/ mount' = mount /\ pending' = pending /\ started' = started
           \/ mount' = 0
           \/ mount' = mounts + 1
    PROVE  Inv'
<1>1. \A i \in DOMAIN calls : calls[i].by \in Nat \ {0} /\ calls[i].by <= mounts
  BY CallTypes DEF CallRecord, CallOK
<1>2. mounts \in Nat
  BY DEF Inv, Types
<1>3. ASSUME NEW i \in DOMAIN calls, calls[i].by = mount' PROVE mount' = mount /\ pending' = pending /\ started' = started
  BY <1>1, <1>2, <1>3
<1>4. ASSUME NEW i \in DOMAIN calls' PROVE CallOK(i)'
  BY <1>3, <1>4, CallKept
<1>5. OneUnheard'
  BY <1>3 DEF Inv, OneUnheard
<1>6. QED
  BY <1>4, <1>5 DEF Inv

LEMMA UserSteps ==
    ASSUME DraftAssumption, Inv, edit \/ verify \/ tokenExpires \/ leave \/ open \/ discardExpired \/ Tick
    PROVE  Inv'
<1>1. /\ Types /\ PinnedOK /\ OutcomeOK /\ now \in Nat /\ TTL \in Nat \ {0} /\ None \notin Nat /\ None \notin Content
      /\ calls' = calls /\ UNCHANGED <<recorded, receiptAt, shown>>
  BY DEF Inv, Types, DraftAssumption, edit, verify, tokenExpires, leave, open, discardExpired, Tick, serverVars
<1>2. Grows /\ Sent' = Sent
  <2>1. mounts' \in Nat /\ mounts <= mounts'
    <3>1. mounts \in Nat
      BY <1>1 DEF Types
    <3>2. mounts' = mounts \/ mounts' = mounts + 1
      BY DEF edit, verify, tokenExpires, leave, open, discardExpired, Tick, pageVars
    <3>3. QED
      BY <3>1, <3>2
  <2>2. QED
    BY <1>1, <2>1 DEF Grows, Sent
<1>3. CASE edit
  <2>1. form' \in Values /\ saveReportDraft(form', FALSE, None, None)
    BY <1>3 DEF edit
  <2>2. draft' \in Draft /\ draft' # None /\ draft'.updatedAt = now /\ draft'.pending = FALSE /\ draft'.prepared = None
    BY <2>1, DraftSaved
  <2>3. UNCHANGED <<now, mount, mounts, pending, since, prepared, blocked, started, token, tokens>>
    BY <1>3 DEF edit, serverVars
  <2>4. Types' /\ PinnedOK' /\ OutcomeOK'
    BY <1>1, <1>2, <2>1, <2>2, <2>3 DEF Types, PinnedOK, OutcomeOK
  <2>5. QED
    BY <1>1, <1>2, <2>3, <2>4, QuietStep
<1>4. ASSUME saveReportDraft(form, pending, since, prepared)
      PROVE  /\ draft' \in Draft /\ draft' # None /\ draft'.updatedAt = now
             /\ draft'.pending = pending /\ draft'.prepared = IF pending THEN prepared ELSE None
  BY <1>1, <1>4, DraftSaved DEF Types, PinnedOK
<1>5. CASE verify
  <2>1. /\ UNCHANGED <<now, mount, mounts, form, pending, since, prepared, blocked, started>>
        /\ tokens' = tokens + 1 /\ token' = tokens' /\ saveReportDraft(form, pending, since, prepared)
    BY <1>5 DEF verify
  <2>2. Types' /\ PinnedOK' /\ OutcomeOK'
    BY <1>1, <1>2, <1>4, <2>1 DEF Types, PinnedOK, OutcomeOK
  <2>3. QED
    BY <1>1, <1>2, <2>1, <2>2, QuietStep
<1>6. CASE tokenExpires
  <2>1. /\ UNCHANGED <<now, mount, mounts, form, pending, since, prepared, blocked, started, tokens>> /\ token' = 0
        /\ saveReportDraft(form, pending, since, prepared) \/ draft' = draft
    BY <1>6 DEF tokenExpires
  <2>2. Types' /\ PinnedOK' /\ OutcomeOK'
    <3>1. CASE draft' = draft
      BY <1>1, <1>2, <2>1, <3>1 DEF Types, PinnedOK, OutcomeOK
    <3>2. CASE saveReportDraft(form, pending, since, prepared)
      BY <1>1, <1>2, <1>4, <2>1, <3>2 DEF Types, PinnedOK, OutcomeOK
    <3>3. QED
      BY <2>1, <3>1, <3>2
  <2>3. QED
    BY <1>1, <1>2, <2>1, <2>2, QuietStep
<1>7. CASE leave
  <2>1. UNCHANGED <<now, mounts, form, pending, since, prepared, blocked, token, tokens, draft>> /\ mount' = 0 /\ started' = FALSE
    BY <1>7 DEF leave, serverVars
  <2>2. Types' /\ PinnedOK' /\ OutcomeOK'
    <3>1. Types'
      <4>1. started' \in BOOLEAN /\ mount' \in Nat /\ mount' <= mounts' /\ mounts' \in Nat
        <5>1. mounts \in Nat
          BY <1>1 DEF Types
        <5>2. started' = FALSE /\ mount' = 0 /\ mounts' = mounts
          BY <2>1
        <5>3. mount' \in Nat /\ mount' <= mounts' /\ mounts' \in Nat
          BY <5>1, <5>2
        <5>4. started' \in BOOLEAN
          BY <5>2, Zenon
        <5>5. QED
          BY <5>3, <5>4
      <4>2. UNCHANGED <<now, form, pending, since, prepared, blocked, token, tokens, draft>>
        BY <2>1
      <4>3. QED
        BY <1>1, <4>1, <4>2 DEF Types
    <3>2. PinnedOK'
      BY <1>1, <1>2, <2>1 DEF PinnedOK
    <3>3. OutcomeOK'
      BY <1>1, <2>1 DEF OutcomeOK
    <3>4. QED
      BY <3>1, <3>2, <3>3
  <2>3. QED
    BY <1>1, <1>2, <2>1, <2>2, QuietStep
<1>8. CASE open
  <2>1. /\ draft # None /\ mount' = mounts + 1 /\ mounts' = mounts + 1 /\ started' = FALSE
        /\ form' = draft.form /\ pending' = draft.pending /\ since' = draft.since /\ prepared' = draft.prepared
        /\ blocked' = Blocked /\ saveReportDraft(draft.form, draft.pending, draft.since, draft.prepared)
        /\ UNCHANGED <<now, token, tokens>>
    BY <1>8 DEF open, Usable, serverVars
  <2>2. /\ draft \in Draft /\ draft.form \in Values /\ draft.pending \in BOOLEAN /\ draft.since \in Nat \cup {None}
        /\ draft.prepared \in Content \cup {None} /\ Blocked \in BOOLEAN
    BY <1>1, <2>1 DEF Types, Draft, Blocked
  <2>3. draft.pending => draft.prepared # None
    BY <1>1, <2>1 DEF PinnedOK
  <2>4. /\ draft' \in Draft /\ draft' # None /\ draft'.updatedAt = now
        /\ draft'.pending = draft.pending /\ draft'.prepared = IF draft.pending THEN draft.prepared ELSE None
    BY <2>1, <2>2, <2>3, DraftSaved
  <2>5. Types'
    <3>1. mounts' \in Nat /\ mount' \in Nat /\ mount' <= mounts'
      BY <1>1, <2>1 DEF Types
    <3>2. QED
      BY <1>1, <2>1, <2>2, <2>4, <3>1 DEF Types
  <2>6. PinnedOK' /\ OutcomeOK'
    BY <1>1, <1>2, <2>1, <2>3, <2>4 DEF PinnedOK, OutcomeOK
  <2>7. QED
    BY <1>1, <1>2, <2>1, <2>5, <2>6, QuietStep
<1>9. CASE discardExpired
  <2>1. /\ UNCHANGED <<now, mount, mounts, form, pending, since, prepared, blocked, started, tokens>>
        /\ draft' = None /\ token' = 0 /\ draft # None /\ ~(now - draft.updatedAt <= TTL)
    BY <1>9 DEF discardExpired, Usable, serverVars
  <2>2. draft.updatedAt \in Nat
    BY <1>1, <2>1 DEF Types, Draft
  <2>3. now > TTL
    BY <1>1, <2>1, <2>2
  <2>4. Types' /\ PinnedOK' /\ OutcomeOK'
    BY <1>1, <1>2, <2>1, <2>3 DEF Types, PinnedOK, OutcomeOK
  <2>5. QED
    BY <1>1, <1>2, <2>1, <2>4, QuietStep
<1>10. CASE Tick
  <2>1. UNCHANGED <<mount, mounts, form, pending, since, prepared, blocked, started, token, tokens, draft>> /\ now' = now + 1
    BY <1>10 DEF Tick, pageVars
  <2>2. draft # None => draft.updatedAt \in Nat
    BY <1>1 DEF Types, Draft
  <2>3. Types' /\ PinnedOK' /\ OutcomeOK'
    BY <1>1, <1>2, <2>1, <2>2 DEF Types, PinnedOK, OutcomeOK
  <2>4. QED
    BY <1>1, <1>2, <2>1, <2>3, QuietStep
<1>11. QED
  BY <1>3, <1>5, <1>6, <1>7, <1>8, <1>9, <1>10

\* One call goes on: its page, unless it was left, is as the step leaves it.
LEMMA CallStep ==
    ASSUME DraftAssumption, Inv, NEW i \in DOMAIN calls, NEW r \in CallRecord, calls' = [calls EXCEPT ![i] = r],
           Types', PinnedOK', OutcomeOK', mounts' = mounts, mount' \in {0, mount}, recorded # <<>> => recorded' # <<>>,
           calls[i].content # None => r.content = calls[i].content,
           r.by = calls[i].by, calls[i].heard => r.heard, CallOK(i)',
           \A j \in DOMAIN calls : calls[j].answer = "asking" /\ calls[j].by = mount' /\ pending' /\ j # i => mount' = mount /\ pending,
           \A j \in DOMAIN calls : calls[j].by = mount' /\ ~calls[j].heard /\ (j = i => ~r.heard) => started' = started
    PROVE  Inv'
<1>1. /\ DOMAIN calls' = DOMAIN calls /\ calls'[i] = r /\ \A j \in DOMAIN calls : j # i => calls'[j] = calls[j]
      /\ mounts \in Nat /\ calls \in Seq(CallRecord)
  BY CallReplaced DEF Inv, Types
<1>2. Grows
  BY <1>1 DEF Grows
<1>3. ASSUME NEW j \in DOMAIN calls' PROVE CallOK(j)'
  <2>1. CASE j = i
    BY <2>1
  <2>2. CASE j # i
    BY <1>1, <1>2, <2>2, CallKept
  <2>3. QED
    BY <2>1, <2>2
<1>4. \A j \in DOMAIN calls : calls[j].by \in Nat \ {0} /\ calls[j].by <= mounts
  BY CallTypes DEF CallRecord, CallOK
<1>5. OneUnheard'
  <2> SUFFICES ASSUME NEW j \in DOMAIN calls', NEW k \in DOMAIN calls',
                      calls'[j].by = mount', ~calls'[j].heard, calls'[k].by = mount', ~calls'[k].heard
               PROVE  j = k /\ started'
    BY DEF OneUnheard
  <2>1. /\ j \in DOMAIN calls /\ k \in DOMAIN calls /\ ~calls[j].heard /\ ~calls[k].heard
        /\ calls[j].by = mount' /\ calls[k].by = mount' /\ (j = i => ~r.heard)
    BY <1>1
  <2>2. mount' = mount
    BY <1>4, <2>1
  <2>3. j = k /\ started
    BY <2>1, <2>2 DEF Inv, OneUnheard
  <2>4. QED
    BY <2>1, <2>3
<1>6. QED
  BY <1>3, <1>5 DEF Inv

\* The page's calls: of a call it still waits for there is no other.
LEMMA Alone ==
    ASSUME Inv, NEW i \in DOMAIN calls, calls[i].by = mount, ~calls[i].heard
    PROVE  started /\ \A j \in DOMAIN calls : calls[j].by = mount /\ ~calls[j].heard => j = i
  BY DEF Inv, OneUnheard

\* What a call was doing, before its own step.
LEMMA CallOf ==
    ASSUME Inv, NEW i \in DOMAIN calls
    PROVE  /\ calls[i] \in CallRecord /\ calls[i].by \in Nat \ {0} /\ calls[i].by <= mounts /\ calls[i].form \in Values
           /\ calls[i].content \in Content \cup {None} /\ calls[i].restored \subseteq Sent /\ calls[i].restored \subseteq Content
           /\ calls[i].since \in Nat \cup {None} /\ calls[i].heard \in BOOLEAN /\ calls[i].answer \in Answers
           /\ CallOK(i)
  BY CallTypes DEF CallRecord, CallOK

LEMMA SendKept ==
    ASSUME DraftAssumption, Inv, NEW i \in DOMAIN calls, send(i)
    PROVE  Inv'
<1>1. PICK c \in Prepares(i) :
          /\ saveReportDraft(calls[i].form, TRUE, PendingSince(i), c)
          /\ calls' = [calls EXCEPT ![i].content = c, ![i].answer = "none"]
          /\ IF Here(i) THEN pending' = TRUE /\ since' = PendingSince(i) /\ prepared' = c
             ELSE UNCHANGED <<pending, since, prepared>>
  BY DEF send
<1>2. /\ calls[i].answer = "asking" /\ UNCHANGED <<now, mount, mounts, form, blocked, started, token, tokens, recorded, receiptAt, shown>>
      /\ calls[i].content = None /\ ~calls[i].heard
  BY CallOf DEF send, serverVars, CallOK
<1>3. Types /\ PinnedOK /\ OutcomeOK /\ now \in Nat /\ mounts \in Nat /\ calls \in Seq(CallRecord) /\ None \notin Content
  BY DEF Inv, Types, DraftAssumption
<1>4. c \in Content
  BY <1>1, CallOf DEF Prepares, Content
<1>5. PendingSince(i) \in Nat
  BY <1>3, CallOf DEF PendingSince
<1>6. /\ draft' \in Draft /\ draft' # None /\ draft'.updatedAt = now /\ draft'.pending = TRUE /\ draft'.prepared = c
  <2>1. calls[i].form \in Values /\ TRUE \in BOOLEAN /\ PendingSince(i) \in Nat \cup {None} /\ c \in Content \cup {None} /\ c # None
    BY <1>3, <1>4, <1>5, CallOf
  <2>2. QED
    BY <1>1, <2>1, DraftSaved
<1> DEFINE r == [calls[i] EXCEPT !.content = c, !.answer = "none"]
<1>7. calls' = [calls EXCEPT ![i] = r]
  BY <1>1, <1>3, CallOf DEF CallRecord
<1>8. /\ r \in CallRecord /\ r.content = c /\ r.answer = "none" /\ r.by = calls[i].by /\ r.heard = calls[i].heard
      /\ r.restored = calls[i].restored /\ r.since = calls[i].since
  BY <1>4, CallOf DEF CallRecord, Answers
<1> HIDE DEF r
<1>9. DOMAIN calls' = DOMAIN calls /\ calls'[i] = r /\ \A j \in DOMAIN calls : j # i => calls'[j] = calls[j]
  BY <1>3, <1>7, <1>8, CallReplaced
<1>10. Grows
  BY <1>2, <1>3, <1>9 DEF Grows
<1>11. Sent \subseteq Sent' /\ c \in Sent'
  <2>1. i \in DOMAIN calls' /\ calls'[i].content = c /\ c # None
    BY <1>3, <1>4, <1>8, <1>9
  <2>2. QED
    BY <1>10, <2>1, SentGrows DEF Sent
<1>12. Types'
  <2>1. calls' \in Seq(CallRecord)
    BY <1>3, <1>7, <1>8, CallReplaced
  <2>2. pending' \in BOOLEAN
    BY <1>1, <1>3, Zenon DEF Types
  <2>3. since' \in Nat \cup {None} /\ prepared' \in Content \cup {None}
    BY <1>1, <1>3, <1>4, <1>5 DEF Types
  <2>4. QED
    BY <1>2, <1>3, <1>6, <2>1, <2>2, <2>3 DEF Types
<1>13. PinnedOK'
  BY <1>1, <1>2, <1>3, <1>4, <1>6, <1>11 DEF PinnedOK, Types
<1>14. OutcomeOK'
  BY <1>2, <1>3, <1>6 DEF OutcomeOK
<1>15. CallOK(i)'
  BY <1>2, <1>3, <1>4, <1>8, <1>9, <1>11, CallOf DEF CallOK
<1>16. ASSUME NEW j \in DOMAIN calls, calls[j].answer = "asking", calls[j].by = mount', pending', j # i PROVE mount' = mount /\ pending
  <2>1. ~calls[j].heard /\ calls[j].by = mount
    BY <1>2, <1>16, CallOf DEF CallOK
  <2>2. ~Here(i)
    BY <1>2, <1>16, <2>1, Alone DEF Here
  <2>3. QED
    BY <1>1, <1>2, <1>16, <2>2
<1>17. QED
  BY <1>2, <1>7, <1>8, <1>12, <1>13, <1>14, <1>15, <1>16, CallStep

\* The server's steps: it records what was sent, and a success tells so.
LEMMA ServerSteps ==
    ASSUME DraftAssumption, Inv, NEW i \in DOMAIN calls, serve(i) \/ serverFails(i)
    PROVE  Inv'
<1>1. PICK a \in {"refused", "success", "verification", "unavailable"} : Answer(i, a) /\ (a = "success" => recorded' # <<>>)
  <2>1. CASE serverFails(i)
    BY <2>1 DEF serverFails
  <2>2. CASE serve(i)
    <3>1. receiptAt # None => recorded # <<>>
      BY DEF Inv, OutcomeOK
    <3>2. recorded \in Seq(Content) /\ calls[i].content \in Content
      BY <2>2, CallOf DEF Inv, Types, serve, CallOK
    <3>3. Append(recorded, calls[i].content) # <<>>
      BY <3>2, AppendProperties
    <3>4. HasReceipt => receiptAt # None
      BY DEF HasReceipt
    <3>5. QED
      BY <2>2, <3>1, <3>3, <3>4 DEF serve
  <2>3. QED
    BY <2>1, <2>2
<1>2. /\ calls[i].answer = "none" /\ UNCHANGED <<now, mount, mounts, form, pending, since, prepared, blocked, started, token, tokens, draft, shown>>
      /\ calls[i].content \in Content
  BY CallOf DEF serve, serverFails, pageVars, serverVars, CallOK
<1>3. Types /\ PinnedOK /\ OutcomeOK /\ now \in Nat /\ mounts \in Nat /\ calls \in Seq(CallRecord) /\ None \notin Content
  BY DEF Inv, Types, DraftAssumption
<1>4. /\ recorded' \in Seq(Content) /\ receiptAt' \in Nat \cup {None}
      /\ recorded # <<>> => recorded' # <<>>
      /\ receiptAt' # None => recorded' # <<>>
  <2>1. Append(recorded, calls[i].content) \in Seq(Content) /\ Append(recorded, calls[i].content) # <<>>
    BY <1>2, <1>3, AppendProperties DEF Types
  <2>2. \/ recorded' = recorded /\ receiptAt' = receiptAt
        \/ recorded' = Append(recorded, calls[i].content) /\ receiptAt' = now
    BY DEF serve, serverFails, serverVars
  <2>3. QED
    BY <1>3, <2>1, <2>2 DEF Types, OutcomeOK
<1> DEFINE r == [calls[i] EXCEPT !.answer = a]
<1>5. calls' = [calls EXCEPT ![i] = r]
  BY <1>1 DEF Answer
<1>6. /\ r \in CallRecord /\ r.answer = a /\ r.content = calls[i].content /\ r.by = calls[i].by /\ r.heard = calls[i].heard
      /\ r.restored = calls[i].restored
  BY CallOf DEF CallRecord, Answers
<1> HIDE DEF r
<1>7. DOMAIN calls' = DOMAIN calls /\ calls'[i] = r /\ (\A j \in DOMAIN calls : j # i => calls'[j] = calls[j]) /\ calls' \in Seq(CallRecord)
  BY <1>3, <1>5, <1>6, CallReplaced
<1>8. Grows
  BY <1>2, <1>3, <1>4, <1>6, <1>7 DEF Grows
<1>9. Sent \subseteq Sent'
  BY <1>8, SentGrows
<1>10. Types' /\ PinnedOK' /\ OutcomeOK'
  BY <1>2, <1>3, <1>4, <1>7, <1>9 DEF Types, PinnedOK, OutcomeOK
<1>11. CallOK(i)'
  BY <1>1, <1>2, <1>3, <1>4, <1>6, <1>7, <1>9, CallOf DEF CallOK
<1>12. QED
  BY <1>2, <1>3, <1>4, <1>5, <1>6, <1>10, <1>11, CallStep

LEMMA NotSentKept ==
    ASSUME DraftAssumption, Inv, NEW i \in DOMAIN calls, notSent(i)
    PROVE  Inv'
<1>1. /\ calls[i].answer = "asking" /\ calls' = [calls EXCEPT ![i].answer = "dropped", ![i].heard = TRUE]
      /\ UNCHANGED <<now, mount, mounts, form, pending, since, prepared, blocked, token, tokens, draft, recorded, receiptAt, shown>>
      /\ calls[i].content = None /\ ~calls[i].heard
  BY CallOf DEF notSent, serverVars, CallOK
<1>2. started' = (started /\ ~Here(i))
  BY DEF notSent
<1>3. Types /\ PinnedOK /\ OutcomeOK /\ mounts \in Nat /\ calls \in Seq(CallRecord)
  BY DEF Inv, Types
<1> DEFINE r == [calls[i] EXCEPT !.answer = "dropped", !.heard = TRUE]
<1>4. calls' = [calls EXCEPT ![i] = r]
  BY <1>1, <1>3, CallOf DEF CallRecord
<1>5. /\ r \in CallRecord /\ r.answer = "dropped" /\ r.content = calls[i].content /\ r.by = calls[i].by /\ r.heard
      /\ r.restored = calls[i].restored
  BY CallOf DEF CallRecord, Answers
<1> HIDE DEF r
<1>6. DOMAIN calls' = DOMAIN calls /\ calls'[i] = r /\ (\A j \in DOMAIN calls : j # i => calls'[j] = calls[j]) /\ calls' \in Seq(CallRecord)
  BY <1>3, <1>4, <1>5, CallReplaced
<1>7. Grows
  BY <1>1, <1>3, <1>5, <1>6 DEF Grows
<1>8. Sent \subseteq Sent'
  BY <1>7, SentGrows
<1>9. started' \in BOOLEAN
  BY <1>2
<1>10. Types' /\ PinnedOK' /\ OutcomeOK'
  BY <1>1, <1>3, <1>6, <1>8, <1>9 DEF Types, PinnedOK, OutcomeOK
<1>11. CallOK(i)'
  BY <1>1, <1>5, <1>6, <1>8, CallOf DEF CallOK
<1>12. ASSUME NEW j \in DOMAIN calls, calls[j].by = mount', ~calls[j].heard, j = i => ~r.heard PROVE started' = started
  <2>1. j # i
    BY <1>5, <1>12
  <2>2. ~Here(i)
    BY <1>1, <1>12, <2>1, Alone DEF Here
  <2>3. started \in BOOLEAN
    BY <1>3 DEF Types
  <2>4. QED
    BY <1>2, <2>2, <2>3, Zenon
<1>13. QED
  BY <1>1, <1>3, <1>4, <1>5, <1>10, <1>11, <1>12, CallStep

\* No answer is heard any more.
LEMMA CloseKept ==
    ASSUME DraftAssumption, Inv, closeTab
    PROVE  Inv'
<1> DEFINE Shut(c) == [c EXCEPT !.heard = TRUE, !.answer = IF @ = "asking" THEN "dropped" ELSE @]
<1>1. /\ mount' = 0 /\ started' = FALSE /\ calls' = [i \in DOMAIN calls |-> Shut(calls[i])]
      /\ UNCHANGED <<now, mounts, form, pending, since, prepared, blocked, token, tokens, draft, recorded, receiptAt, shown>>
  BY DEF closeTab, serverVars
<1>2. Types /\ PinnedOK /\ OutcomeOK /\ mounts \in Nat /\ calls \in Seq(CallRecord)
  BY DEF Inv, Types
<1>3. \A i \in DOMAIN calls :
        /\ Shut(calls[i]) \in CallRecord /\ Shut(calls[i]).by = calls[i].by /\ Shut(calls[i]).heard
        /\ Shut(calls[i]).content = calls[i].content /\ Shut(calls[i]).restored = calls[i].restored
        /\ Shut(calls[i]).answer = IF calls[i].answer = "asking" THEN "dropped" ELSE calls[i].answer
  BY CallOf DEF CallRecord, Answers
<1> HIDE DEF Shut
<1>4. DOMAIN calls' = DOMAIN calls /\ (\A i \in DOMAIN calls : calls'[i] = Shut(calls[i])) /\ calls' \in Seq(CallRecord)
  <2>1. DOMAIN calls = 1..Len(calls) /\ Len(calls) \in Nat
    BY <1>2
  <2>2. calls' \in [1..Len(calls) -> CallRecord]
    BY <1>1, <1>3, <2>1
  <2>3. calls' \in Seq(CallRecord)
    BY <2>1, <2>2
  <2>4. QED
    BY <1>1, <2>3
<1>5. Grows
  BY <1>1, <1>2, <1>3, <1>4 DEF Grows
<1>6. Sent \subseteq Sent'
  BY <1>5, SentGrows
<1>7. Types' /\ PinnedOK' /\ OutcomeOK'
  <2>1. started' \in BOOLEAN
    BY <1>1, Zenon
  <2>2. mount' \in Nat /\ mount' <= mounts'
    BY <1>1, <1>2
  <2>3. UNCHANGED <<now, mounts, form, pending, since, prepared, blocked, token, tokens, draft, recorded, receiptAt, shown>>
    BY <1>1
  <2>4. QED
    BY <1>2, <1>4, <1>6, <2>1, <2>2, <2>3 DEF Types, PinnedOK, OutcomeOK
<1>8. ASSUME NEW i \in DOMAIN calls' PROVE CallOK(i)'
  <2>1. i \in DOMAIN calls /\ calls'[i] = Shut(calls[i])
    BY <1>4
  <2>2. CallOK(i)
    BY <2>1, CallOf
  <2>3. QED
    BY <1>1, <1>3, <1>6, <2>1, <2>2 DEF CallOK
<1>9. OneUnheard'
  BY <1>3, <1>4 DEF OneUnheard
<1>10. QED
  BY <1>7, <1>8, <1>9 DEF Inv

LEMMA SubmitKept ==
    ASSUME DraftAssumption, Inv, onSubmit
    PROVE  Inv'
<1> DEFINE r == [form |-> form, restored |-> Restored, since |-> since, token |-> token, by |-> mount,
                 content |-> None, answer |-> "asking", heard |-> FALSE]
           n == Len(calls)
<1>1. /\ mount # 0 /\ ~started /\ started' = TRUE /\ calls' = Append(calls, r)
      /\ UNCHANGED <<now, mount, mounts, form, pending, since, prepared, blocked, token, tokens, draft, recorded, receiptAt, shown>>
  BY DEF onSubmit, Submittable, serverVars
<1>2. Types /\ PinnedOK /\ OutcomeOK /\ mounts \in Nat /\ mount \in Nat \ {0} /\ mount <= mounts /\ calls \in Seq(CallRecord)
  BY <1>1 DEF Inv, Types
<1>3. Restored \subseteq Sent /\ Restored \subseteq Content /\ (pending => Restored # {})
  BY <1>2 DEF Restored, PinnedOK, Types, Draft, Usable
<1>4. /\ r \in CallRecord /\ r.by = mount /\ r.content = None /\ r.answer = "asking" /\ ~r.heard /\ r.restored = Restored
  BY <1>2, <1>3 DEF CallRecord, Answers, Types
<1> HIDE DEF r
<1>5. /\ calls' \in Seq(CallRecord) /\ DOMAIN calls = 1..n /\ DOMAIN calls' = 1..(n + 1) /\ n \in Nat
      /\ calls'[n + 1] = r /\ \A i \in 1..n : calls'[i] = calls[i]
  BY <1>1, <1>2, <1>4, AppendProperties
<1> HIDE DEF n
<1>6. \A i \in DOMAIN calls' : i \in DOMAIN calls \/ i = n + 1
  BY <1>5
<1>7. DOMAIN calls \subseteq DOMAIN calls' /\ n + 1 \notin DOMAIN calls
  BY <1>5
<1>8. Grows
  BY <1>1, <1>2, <1>5, <1>7 DEF Grows
<1>9. Sent \subseteq Sent'
  BY <1>8, SentGrows
<1>10. Types' /\ PinnedOK' /\ OutcomeOK'
  <2>1. started' \in BOOLEAN
    BY <1>1, Zenon
  <2>2. UNCHANGED <<now, mount, mounts, form, pending, since, prepared, blocked, token, tokens, draft, recorded, receiptAt, shown>>
    BY <1>1
  <2>3. QED
    BY <1>2, <1>5, <1>9, <2>1, <2>2 DEF Types, PinnedOK, OutcomeOK
<1>11. ASSUME NEW i \in DOMAIN calls' PROVE CallOK(i)'
  <2>1. CASE i \in DOMAIN calls
    <3>1. calls'[i] = calls[i]
      BY <1>5, <2>1
    <3>2. QED
      BY <1>1, <1>8, <2>1, <3>1, CallKept
  <2>2. CASE i = n + 1
    BY <1>1, <1>2, <1>3, <1>4, <1>5, <1>9, <2>2 DEF CallOK
  <2>3. QED
    BY <1>6, <2>1, <2>2
<1>12. \A i \in DOMAIN calls : calls[i].by = mount => calls[i].heard
  BY <1>1, Alone
<1>13. OneUnheard'
  BY <1>1, <1>5, <1>6, <1>12 DEF OneUnheard
<1>14. QED
  BY <1>10, <1>11, <1>13 DEF Inv

\* An answer is heard, or nobody knows: the page is left, or its own call is over.
LEMMA AnsweredKept ==
    ASSUME DraftAssumption, Inv, NEW i \in DOMAIN calls, answered(i)
    PROVE  Inv'
<1>1. /\ calls' = [calls EXCEPT ![i].heard = TRUE] /\ calls[i].answer # "asking" /\ ~calls[i].heard
      /\ UNCHANGED <<now, mounts, form, blocked, tokens, recorded, receiptAt>>
  BY DEF answered, succeeded, wasRefused, unknown, Hears, serverVars
<1>2. Types /\ PinnedOK /\ OutcomeOK /\ mounts \in Nat /\ calls \in Seq(CallRecord) /\ now \in Nat /\ None \notin Content
  BY DEF Inv, Types, DraftAssumption
<1>3. \/ mount' = 0 /\ started' = FALSE
      \/ mount' = mount /\ started' = (started /\ ~Here(i))
  BY DEF answered, succeeded, wasRefused, unknown, Stays, Result
<1>4. calls[i].content \in Content /\ calls[i].content.form \in Values
  BY <1>1, CallOf DEF CallOK, Content
<1> DEFINE r == [calls[i] EXCEPT !.heard = TRUE]
<1>5. calls' = [calls EXCEPT ![i] = r]
  BY <1>1
<1>6. /\ r \in CallRecord /\ r.answer = calls[i].answer /\ r.content = calls[i].content /\ r.by = calls[i].by /\ r.heard
      /\ r.restored = calls[i].restored
  BY CallOf DEF CallRecord
<1> HIDE DEF r
<1>7. DOMAIN calls' = DOMAIN calls /\ calls'[i] = r /\ (\A j \in DOMAIN calls : j # i => calls'[j] = calls[j]) /\ calls' \in Seq(CallRecord)
  BY <1>2, <1>5, <1>6, CallReplaced
<1>8. Grows
  BY <1>1, <1>2, <1>6, <1>7 DEF Grows
<1>9. Sent \subseteq Sent'
  BY <1>8, SentGrows
<1>10. /\ draft' \in Draft \cup {None} /\ token' \in Nat /\ token' <= tokens /\ shown' \in BOOLEAN
       /\ pending' \in BOOLEAN /\ since' \in Nat \cup {None} /\ prepared' \in Content \cup {None}
       /\ PinnedOK' /\ OutcomeOK' /\ (pending' => pending)
  <2>1. CASE succeeded(i)
    <3>1. draft' = None /\ token' = 0 /\ shown' = TRUE /\ UNCHANGED <<pending, since, prepared>> /\ calls[i].answer = "success"
      BY <2>1 DEF succeeded
    <3>2. recorded # <<>>
      BY <3>1, CallOf DEF CallOK
    <3>3. shown' \in BOOLEAN
      BY <3>1, Zenon
    <3>4. 0 <= tokens
      BY <1>2 DEF Types
    <3>5. PinnedOK'
      BY <1>1, <1>2, <1>9, <3>1 DEF PinnedOK
    <3>6. OutcomeOK'
      BY <1>1, <1>2, <3>1, <3>2 DEF OutcomeOK
    <3>7. QED
      BY <1>2, <3>1, <3>3, <3>4, <3>5, <3>6 DEF Types
  <2>2. CASE wasRefused(i)
    <3>1. saveReportDraft(calls[i].content.form, FALSE, None, None) /\ settled(i) /\ shown' = shown /\ token' \in {0, token}
      BY <2>2 DEF wasRefused
    <3>2. draft' \in Draft /\ draft' # None /\ draft'.updatedAt = now /\ draft'.pending = FALSE /\ draft'.prepared = None
      BY <1>4, <3>1, DraftSaved
    <3>3. \/ pending' = FALSE /\ since' = None /\ prepared' = None
          \/ UNCHANGED <<pending, since, prepared>>
      BY <3>1 DEF settled
    <3>4. pending' \in BOOLEAN /\ (pending' => pending)
      <4>1. pending \in BOOLEAN
        BY <1>2 DEF Types
      <4>2. pending' = FALSE \/ pending' = pending
        BY <3>3
      <4>3. CASE pending' = FALSE
        <5>1. ~pending'
          BY <4>3, Zenon
        <5>2. pending' \in BOOLEAN
          BY <4>3, Zenon
        <5>3. QED
          BY <5>1, <5>2, Zenon
      <4>4. CASE pending' = pending
        <5>1. pending' => pending
          BY <4>4
        <5>2. pending' \in BOOLEAN
          BY <4>1, <4>4
        <5>3. QED
          BY <5>1, <5>2, Zenon
      <4>5. QED
        BY <4>2, <4>3, <4>4, Zenon
    <3>5. since' \in Nat \cup {None} /\ prepared' \in Content \cup {None}
      BY <1>2, <3>3 DEF Types
    <3>6. token' \in Nat /\ token' <= tokens
      BY <1>2, <3>1 DEF Types
    <3>7. PinnedOK'
      BY <1>1, <1>2, <1>9, <3>2, <3>3 DEF PinnedOK
    <3>8. OutcomeOK'
      BY <1>1, <1>2, <3>1, <3>2 DEF OutcomeOK
    <3>9. QED
      BY <1>2, <3>1, <3>2, <3>4, <3>5, <3>6, <3>7, <3>8 DEF Types
  <2>3. CASE unknown(i)
    <3>1. UNCHANGED <<pending, since, prepared, token, draft, shown>>
      BY <2>3 DEF unknown
    <3>2. PinnedOK' /\ OutcomeOK'
      BY <1>1, <1>2, <1>9, <3>1 DEF PinnedOK, OutcomeOK
    <3>3. QED
      BY <1>2, <3>1, <3>2 DEF Types
  <2>4. QED
    BY <2>1, <2>2, <2>3 DEF answered
<1>11. Types'
  <2>1. started' \in BOOLEAN
    BY <1>3, Zenon
  <2>2. mount' \in Nat /\ mount' <= mounts'
    BY <1>1, <1>2, <1>3 DEF Types
  <2>3. UNCHANGED <<now, mounts, form, blocked, tokens, recorded, receiptAt>>
    BY <1>1
  <2>4. QED
    BY <1>2, <1>7, <1>10, <2>1, <2>2, <2>3 DEF Types
<1>12. CallOK(i)'
  BY <1>1, <1>6, <1>7, <1>9, CallOf, ZenonT(30) DEF CallOK
<1>13. \A j \in DOMAIN calls : calls[j].by # 0
  BY CallOf
<1>14. ASSUME NEW j \in DOMAIN calls, calls[j].by = mount', ~calls[j].heard, j = i => ~r.heard PROVE started' = started
  <2>1. j # i /\ mount' = mount
    BY <1>3, <1>6, <1>13, <1>14
  <2>2. ~Here(i)
    BY <1>1, <1>14, <2>1, Alone DEF Here
  <2>3. mount' # 0 /\ started \in BOOLEAN
    BY <1>2, <1>13, <1>14 DEF Types
  <2>4. started' = (started /\ ~Here(i))
    BY <1>3, <2>3
  <2>5. QED
    BY <2>2, <2>3, <2>4, Zenon
<1>15. mount' \in {0, mount}
  BY <1>3
<1>16. \A j \in DOMAIN calls : calls[j].by = mount' => mount' = mount
  BY <1>13, <1>15
<1>17. QED
  BY <1>1, <1>2, <1>5, <1>6, <1>10, <1>11, <1>12, <1>14, <1>15, <1>16, CallStep

LEMMA StepInv == DraftAssumption /\ Inv /\ [Next]_vars => Inv'
<1> SUFFICES ASSUME DraftAssumption, Inv, [Next]_vars PROVE Inv'
  OBVIOUS
<1>1. CASE UNCHANGED vars
  <2>1. /\ UNCHANGED <<now, mount, mounts, form, pending, since, prepared, blocked, started, token, draft, calls, tokens,
                       recorded, receiptAt, shown>>
    BY <1>1 DEF vars, pageVars, serverVars
  <2>2. Types' /\ Sent' = Sent
    BY <2>1 DEF Inv, Types, Sent
  <2>3. PinnedOK' /\ OutcomeOK'
    BY <2>1, <2>2 DEF Inv, PinnedOK, OutcomeOK
  <2>4. Grows
    BY <2>1, <2>2 DEF Grows, Types, Inv
  <2>5. QED
    BY <2>1, <2>2, <2>3, <2>4, QuietStep
<1>2. CASE user
  BY <1>2, UserSteps, CloseKept, SubmitKept DEF user
<1>3. CASE Tick
  BY <1>3, UserSteps
<1>4. ASSUME NEW i \in DOMAIN calls, send(i) \/ notSent(i) \/ serve(i) \/ serverFails(i) \/ answered(i) PROVE Inv'
  BY <1>4, SendKept, NotSentKept, ServerSteps, AnsweredKept
<1>5. QED
  BY <1>1, <1>2, <1>3, <1>4 DEF Next

-----------------------------------------------------------------------------
(* What the invariant says, and the retry that repeats.                    *)

\* The types, and that nothing is lost, follow from the invariant.
LEMMA InvLost == DraftAssumption /\ Inv => TypeOK /\ NothingLost
<1> SUFFICES ASSUME DraftAssumption, Inv PROVE TypeOK /\ NothingLost
  OBVIOUS
<1>1. Types /\ PinnedOK /\ OutcomeOK
  BY DEF Inv
<1>2. ASSUME NEW i \in DOMAIN calls PROVE calls[i].answer \in {"asking", "dropped"} \/ calls[i].content \in Content
  BY <1>2, CallOf DEF CallOK
<1>3. token \in 0..tokens
  BY <1>1 DEF Types
<1>4. draft # None => draft.updatedAt \in 0..now /\ (draft.pending => draft.prepared \in Content)
  BY <1>1 DEF Types, PinnedOK, Draft
<1>5. TypeOK
  BY <1>1, <1>2, <1>3, <1>4 DEF TypeOK, Types
<1>6. QED
  BY <1>1, <1>5 DEF NothingLost, OutcomeOK

\* One step repeats what was sent, if the page that sends it has something pending.
Repeats ==
    \A i \in DOMAIN calls :
        calls[i].content = None /\ calls'[i].content # None /\ Here(i) /\ pending
            => \E j \in DOMAIN calls : calls[j].content = calls'[i].content

\* Only the sending fills in what a call sends.
LEMMA Filled ==
    ASSUME DraftAssumption, Inv, [Next]_vars, NEW i \in DOMAIN calls, calls[i].content = None, calls'[i].content # None
    PROVE  send(i)
<1>1. calls \in Seq(CallRecord) /\ calls[i] \in CallRecord /\ DOMAIN calls = 1..Len(calls) /\ Len(calls) \in Nat
  BY CallOf DEF Inv, Types
<1>2. ASSUME calls'[i].content = calls[i].content PROVE FALSE
  BY <1>2
<1>3. calls' # calls
  BY <1>2
<1>4. ~onSubmit
  <2>1. SUFFICES ASSUME onSubmit PROVE FALSE
    OBVIOUS
  <2>2. PICK r : calls' = Append(calls, r)
    BY <2>1 DEF onSubmit
  <2>3. calls'[i] = calls[i]
    BY <1>1, <2>2
  <2>4. QED
    BY <1>2, <2>3
<1>5. ~closeTab
  <2>1. SUFFICES ASSUME closeTab PROVE FALSE
    OBVIOUS
  <2>2. calls'[i] = [calls[i] EXCEPT !.heard = TRUE, !.answer = IF @ = "asking" THEN "dropped" ELSE @]
    BY <2>1 DEF closeTab
  <2>3. calls'[i].content = calls[i].content
    BY <1>1, <2>2 DEF CallRecord
  <2>4. QED
    BY <1>2, <2>3
<1>6. PICK k \in DOMAIN calls : send(k) \/ notSent(k) \/ serve(k) \/ serverFails(k) \/ answered(k)
  BY <1>3, <1>4, <1>5 DEF Next, user, edit, verify, tokenExpires, leave, open, discardExpired, Tick, vars
<1>7. CASE send(k)
  <2>1. PICK c : calls' = [calls EXCEPT ![k].content = c, ![k].answer = "none"]
    BY <1>7 DEF send
  <2>2. k = i
    BY <1>1, <1>2, <2>1
  <2>3. QED
    BY <1>7, <2>2
<1>8. CASE notSent(k) \/ serve(k) \/ serverFails(k) \/ answered(k)
  <2>1. \/ calls' = [calls EXCEPT ![k].answer = "dropped", ![k].heard = TRUE]
        \/ calls' = [calls EXCEPT ![k].heard = TRUE]
        \/ \E a : calls' = [calls EXCEPT ![k].answer = a]
    BY <1>8 DEF notSent, serve, serverFails, answered, succeeded, wasRefused, unknown, Hears, Answer
  <2>2. CASE calls' = [calls EXCEPT ![k].answer = "dropped", ![k].heard = TRUE]
    <3>1. calls'[i].content = calls[i].content
      BY <1>1, <2>2 DEF CallRecord
    <3>2. QED
      BY <1>2, <3>1
  <2>3. CASE calls' = [calls EXCEPT ![k].heard = TRUE]
    <3>1. calls'[i].content = calls[i].content
      BY <1>1, <2>3 DEF CallRecord
    <3>2. QED
      BY <1>2, <3>1
  <2>4. ASSUME NEW a, calls' = [calls EXCEPT ![k].answer = a] PROVE FALSE
    <3>1. calls'[i].content = calls[i].content
      BY <1>1, <2>4 DEF CallRecord
    <3>2. QED
      BY <1>2, <3>1
  <2>5. QED
    BY <2>1, <2>2, <2>3, <2>4
<1>9. QED
  BY <1>6, <1>7, <1>8

LEMMA StepRepeats == DraftAssumption /\ Inv /\ [Next]_vars => Repeats
<1> SUFFICES ASSUME DraftAssumption, Inv, [Next]_vars, NEW i \in DOMAIN calls,
                    calls[i].content = None, calls'[i].content # None, Here(i), pending
             PROVE  \E j \in DOMAIN calls : calls[j].content = calls'[i].content
  BY DEF Repeats
<1>1. send(i)
  BY Filled
<1>2. PICK c \in Prepares(i) : calls' = [calls EXCEPT ![i].content = c, ![i].answer = "none"]
  BY <1>1 DEF send
<1>3. calls[i] \in CallRecord /\ calls[i].restored # {} /\ calls[i].restored \subseteq Sent
  BY <1>1, CallOf DEF send, CallOK, Here
<1>4. calls'[i].content = c
  BY <1>2, <1>3 DEF CallRecord
<1>5. c \in Sent
  BY <1>2, <1>3 DEF Prepares
<1>6. QED
  BY <1>4, <1>5 DEF Sent

-----------------------------------------------------------------------------
(* Recorded once.                                                          *)

LEMMA OnceTypes ==
    ASSUME DraftAssumption, Inv
    PROVE  /\ now \in Nat /\ TTL \in Nat \ {0} /\ None \notin Nat /\ mount \in Nat /\ mounts \in Nat /\ mount <= mounts
           /\ since \in Nat \cup {None} /\ receiptAt \in Nat \cup {None} /\ pending \in BOOLEAN
           /\ recorded \in Seq(Content) /\ calls \in Seq(CallRecord) /\ None \notin Content
           /\ draft # None => draft \in Draft /\ draft.since \in Nat \cup {None} /\ draft.pending \in BOOLEAN
  BY DEF Inv, Types, DraftAssumption, Draft

LEMMA InitOnce == DraftAssumption /\ Init => OnceInv
<1> SUFFICES ASSUME DraftAssumption, Init PROVE OnceInv
  OBVIOUS
<1>1. calls = <<>> /\ recorded = <<>> /\ DOMAIN calls = {} /\ token = 0 /\ pending = FALSE /\ since = None
  BY DEF Init
<1>2. Sent = {}
  BY <1>1 DEF Sent
<1>3. draft = [form |-> form, pending |-> FALSE, since |-> None, prepared |-> None, updatedAt |-> 0]
  BY DEF Init
<1>4. draft.since = None /\ draft.pending = FALSE
  BY <1>3
<1>5. QED
  BY <1>1, <1>2, <1>4 DEF OnceInv, DraftOnce, PageOnce, CallOnce, RecordOnce

\* Steps of the user and of time, which leave the calls and the server alone.
LEMMA OnceQuiet ==
    ASSUME DraftAssumption, Inv, OnceInv, UNCHANGED <<calls, recorded, receiptAt>>, DraftOnce', PageOnce',
           now' = now \/ (now' = now + 1 /\ \A i \in DOMAIN calls : calls[i].answer \notin {"asking", "none"}),
           \A i \in DOMAIN calls : Asks(i) => mount' = mount \/ mount = 0
    PROVE  OnceInv'
<1>1. Sent' = Sent
  BY DEF Sent
<1>2. ASSUME NEW i \in DOMAIN calls PROVE CallOnce(i)'
  <2>1. CallOnce(i) /\ calls[i].since \in Nat \cup {None} /\ calls[i].by \in Nat \ {0} /\ calls[i].by <= mounts
    BY CallOf DEF OnceInv
  <2>2. Asks(i) /\ calls[i].by # mount' => Sent # {}
    <3>1. SUFFICES ASSUME Asks(i), calls[i].by # mount' PROVE Sent # {}
      OBVIOUS
    <3>2. CASE mount' = mount
      BY <2>1, <3>1, <3>2 DEF CallOnce
    <3>3. CASE mount = 0
      BY <2>1, <3>1, <3>3 DEF CallOnce
    <3>4. QED
      BY <3>1, <3>2, <3>3
  <2>3. QED
    BY <1>1, <2>1, <2>2, OnceTypes DEF CallOnce, Asks
<1>3. RecordOnce'
  BY <1>1 DEF OnceInv, RecordOnce
<1>4. QED
  BY <1>2, <1>3 DEF OnceInv

\* The draft as it is stored anew.
LEMMA OnceSaved ==
    ASSUME DraftAssumption, Inv, OnceInv, NEW f \in Values, NEW p \in BOOLEAN, NEW s \in Nat \cup {None}, NEW c \in Content \cup {None},
           p => c # None /\ s # None /\ s <= now, saveReportDraft(f, p, s, c),
           UNCHANGED <<now, recorded, receiptAt>>, Sent' # {} => p,
           recorded # <<>> => Sent' # {} /\ s # None /\ s <= receiptAt
    PROVE  DraftOnce'
<1>1. draft' # None /\ draft'.pending = p /\ draft'.since = IF p THEN s ELSE None
  BY DraftSaved
<1>2. QED
  BY <1>1, OnceTypes DEF DraftOnce

LEMMA OnceUser ==
    ASSUME DraftAssumption, Simple, Inv, OnceInv, edit \/ verify \/ tokenExpires \/ leave \/ open \/ discardExpired \/ Tick
    PROVE  OnceInv'
<1>1. /\ DraftOnce /\ PageOnce /\ RecordOnce /\ now \in Nat /\ TTL \in Nat \ {0} /\ None \notin Nat /\ None \notin Content
      /\ calls' = calls /\ UNCHANGED <<recorded, receiptAt>> /\ Sent' = Sent
  BY OnceTypes DEF OnceInv, edit, verify, tokenExpires, leave, open, discardExpired, Tick, serverVars, Sent
<1>2. CASE edit
  <2>1. mount # 0 /\ ~pending /\ form' \in Values /\ saveReportDraft(form', FALSE, None, None)
    BY <1>2 DEF edit, Editable
  <2>2. UNCHANGED <<now, mount, pending, since, token>>
    BY <1>2 DEF edit
  <2>3. Sent = {} /\ recorded = <<>>
    BY <1>1, <2>1 DEF PageOnce, RecordOnce
  <2>4. draft' # None /\ draft'.pending = FALSE /\ draft'.since = None
    BY <2>1, DraftSaved
  <2>5. DraftOnce' /\ PageOnce'
    BY <1>1, <2>2, <2>3, <2>4 DEF DraftOnce, PageOnce
  <2>6. QED
    BY <1>1, <2>2, <2>5, OnceQuiet
<1>3. ~verify
  BY DEF verify, Simple
<1>4. ~tokenExpires
  BY <1>1 DEF tokenExpires, PageOnce
<1>5. CASE leave
  <2>1. /\ UNCHANGED <<now, pending, since, token, draft>> /\ mount' = 0
        /\ \A i \in DOMAIN calls : calls[i].answer = "asking" => AsksAddress
    BY <1>5 DEF leave
  <2>2. DraftOnce' /\ PageOnce'
    BY <1>1, <2>1 DEF DraftOnce, PageOnce
  <2>3. QED
    BY <1>1, <2>1, <2>2, OnceQuiet DEF Simple, Asks
<1>6. CASE open
  <2>1. /\ draft # None /\ mount = 0
        /\ form' = draft.form /\ pending' = draft.pending /\ since' = draft.since /\ prepared' = draft.prepared
        /\ saveReportDraft(draft.form, draft.pending, draft.since, draft.prepared)
        /\ UNCHANGED <<now, token>>
    BY <1>6 DEF open, Usable
  <2>2. /\ draft \in Draft /\ draft.form \in Values /\ draft.pending \in BOOLEAN /\ draft.since \in Nat \cup {None}
        /\ draft.prepared \in Content \cup {None} /\ (draft.pending => draft.prepared # None)
    BY <2>1 DEF Inv, Types, Draft, PinnedOK
  <2>3. /\ Sent # {} => draft.pending
        /\ draft.pending => draft.since # None /\ draft.since <= now
        /\ draft.since # None => draft.since <= now
        /\ recorded # <<>> => Sent # {} /\ draft.since # None /\ draft.since <= receiptAt
    BY <1>1, <2>1 DEF DraftOnce, RecordOnce
  <2>4. DraftOnce'
    BY <1>1, <2>1, <2>2, <2>3, OnceSaved
  <2>5. PageOnce'
    BY <1>1, <2>1, <2>3 DEF PageOnce
  <2>6. QED
    BY <1>1, <2>1, <2>4, <2>5, OnceQuiet
<1>7. CASE discardExpired
  <2>1. UNCHANGED <<now, mount, pending, since>> /\ draft' = None /\ token' = 0
    BY <1>7 DEF discardExpired
  <2>2. DraftOnce' /\ PageOnce'
    BY <1>1, <2>1 DEF DraftOnce, PageOnce
  <2>3. QED
    BY <1>1, <2>1, <2>2, OnceQuiet
<1>8. CASE Tick
  <2>1. /\ UNCHANGED <<mount, pending, since, token, draft>> /\ now' = now + 1
        /\ \A i \in DOMAIN calls : calls[i].answer \notin {"asking", "none"}
    BY <1>8 DEF Tick, pageVars
  <2>2. DraftOnce' /\ PageOnce'
    BY <1>1, <2>1, OnceTypes DEF DraftOnce, PageOnce
  <2>3. QED
    BY <1>1, <2>1, <2>2, OnceQuiet
<1>9. QED
  BY <1>2, <1>3, <1>4, <1>5, <1>6, <1>7, <1>8

LEMMA OnceSubmit ==
    ASSUME DraftAssumption, Simple, Inv, OnceInv, onSubmit
    PROVE  OnceInv'
<1> DEFINE r == [form |-> form, restored |-> Restored, since |-> since, token |-> token, by |-> mount,
                 content |-> None, answer |-> "asking", heard |-> FALSE]
           n == Len(calls)
           k == n + 1
<1>1. /\ mount # 0 /\ ~started /\ calls' = Append(calls, r) /\ (pending => RetryOpen)
      /\ UNCHANGED <<now, mount, pending, since, token, draft, recorded, receiptAt>>
  BY DEF onSubmit, Submittable, serverVars
<1>2. DraftOnce /\ PageOnce /\ RecordOnce /\ calls \in Seq(CallRecord)
  BY OnceTypes DEF OnceInv
<1>3. r.since = since /\ r.by = mount /\ r.content = None /\ r.answer = "asking"
  OBVIOUS
<1> HIDE DEF r
<1>4. /\ DOMAIN calls = 1..n /\ DOMAIN calls' = 1..(n + 1) /\ n \in Nat
      /\ calls'[n + 1] = r /\ \A i \in 1..n : calls'[i] = calls[i]
  BY <1>1, <1>2
<1> HIDE DEF n
<1>5. /\ \A i \in DOMAIN calls' : i \in DOMAIN calls \/ i = k
      /\ k \notin DOMAIN calls /\ DOMAIN calls \subseteq DOMAIN calls' /\ k \in DOMAIN calls'
      /\ calls'[k] = r /\ \A i \in DOMAIN calls : calls'[i] = calls[i]
  BY <1>4
<1> HIDE DEF k
<1>6. Sent' = Sent
  <2>1. \A c : c # None => ((\E i \in DOMAIN calls' : calls'[i].content = c) <=> \E i \in DOMAIN calls : calls[i].content = c)
    BY <1>3, <1>5
  <2>2. QED
    BY <2>1 DEF Sent
\* While the page submits no other call of its own waits, and one of a page that was
\* left tells that something was sent, so that this is a retry.
<1>7. ASSUME NEW i \in DOMAIN calls, Asks(i) PROVE Sent # {} /\ calls[i].since # None
  <2>1. ~calls[i].heard
    BY <1>7, CallOf DEF CallOK, Asks
  <2>2. calls[i].by # mount
    BY <1>1, <2>1, Alone
  <2>3. QED
    BY <1>7, <2>2 DEF OnceInv, CallOnce
<1>8. DraftOnce' /\ PageOnce' /\ RecordOnce'
  BY <1>1, <1>2, <1>6 DEF DraftOnce, PageOnce, RecordOnce
<1>9. ASSUME NEW i \in DOMAIN calls PROVE CallOnce(i)'
  <2>1. CallOnce(i) /\ calls'[i] = calls[i]
    BY <1>5, <1>9 DEF OnceInv
  <2>2. Asks(i) => Sent # {} /\ calls[i].since # None
    BY <1>7
  <2>3. QED
    BY <1>1, <1>6, <2>1, <2>2 DEF CallOnce, Asks
<1>10. ASSUME NEW i \in DOMAIN calls', i = k PROVE CallOnce(i)'
  <2>1. /\ calls'[i].since = since /\ calls'[i].by = mount /\ calls'[i].answer = "asking"
        /\ (since # None => since <= now) /\ (since = None => Sent = {})
    BY <1>1, <1>2, <1>3, <1>5, <1>10 DEF PageOnce
  <2>2. since = None => \A j \in DOMAIN calls' : Asks(j)' => j = i
    BY <1>5, <1>7, <1>10, <2>1 DEF Asks
  <2>3. recorded # <<>> => since # None /\ since <= receiptAt /\ now < receiptAt + TTL
    <3>1. SUFFICES ASSUME recorded # <<>> PROVE since # None /\ since <= receiptAt /\ now < receiptAt + TTL
      OBVIOUS
    <3>2. pending /\ since # None /\ since <= receiptAt /\ receiptAt # None
      BY <1>1, <1>2, <3>1 DEF PageOnce, RecordOnce
    <3>3. now < since + TTL
      BY <1>1, <3>2 DEF RetryOpen
    <3>4. QED
      BY <3>2, <3>3, OnceTypes
  <2>4. QED
    BY <1>1, <1>6, <2>1, <2>2, <2>3 DEF CallOnce, Asks
<1>11. QED
  BY <1>5, <1>8, <1>9, <1>10 DEF OnceInv

\* One call goes on and asks no more: what the others rely on.
Moves(i) ==
    /\ DOMAIN calls' = DOMAIN calls /\ \A j \in DOMAIN calls : j # i => calls'[j] = calls[j]
    /\ calls'[i].since = calls[i].since /\ calls'[i].answer # "asking" /\ now' = now
    /\ calls[i].content # None => calls'[i].content = calls[i].content

LEMMA CallMoves ==
    ASSUME DraftAssumption, Inv, NEW i \in DOMAIN calls, send(i) \/ notSent(i) \/ serve(i) \/ serverFails(i) \/ answered(i)
    PROVE  Moves(i)
<1>1. calls \in Seq(CallRecord) /\ calls[i] \in CallRecord /\ CallOK(i)
  BY CallOf DEF Inv, Types
<1>2. now' = now
  BY DEF send, notSent, serve, serverFails, answered, succeeded, wasRefused, unknown
<1>3. CASE send(i)
  <2>1. /\ \E c : calls' = [calls EXCEPT ![i].content = c, ![i].answer = "none"]
        /\ calls[i].content = None
    BY <1>1, <1>3 DEF send, CallOK
  <2>2. QED
    BY <1>1, <1>2, <2>1, ZenonT(30) DEF Moves, CallRecord
<1>4. CASE notSent(i)
  <2>1. calls' = [calls EXCEPT ![i].answer = "dropped", ![i].heard = TRUE]
    BY <1>4 DEF notSent
  <2>2. QED
    BY <1>1, <1>2, <2>1, SMTT(30) DEF Moves, CallRecord
<1>5. CASE serve(i) \/ serverFails(i)
  <2>1. \E a : a # "asking" /\ calls' = [calls EXCEPT ![i].answer = a]
    BY <1>5 DEF serve, serverFails, Answer
  <2>2. QED
    BY <1>1, <1>2, <2>1, SMTT(30) DEF Moves, CallRecord
<1>6. CASE answered(i)
  <2>1. calls' = [calls EXCEPT ![i].heard = TRUE] /\ calls[i].answer # "asking"
    BY <1>6 DEF answered, succeeded, wasRefused, unknown, Hears
  <2>2. QED
    BY <1>1, <1>2, <2>1, SMTT(30) DEF Moves, CallRecord
<1>7. QED
  BY <1>3, <1>4, <1>5, <1>6

\* What was sent is sent, and when the call had sent already nothing new is.
LEMMA MovesSent ==
    ASSUME Inv, NEW i \in DOMAIN calls, Moves(i)
    PROVE  /\ Sent \subseteq Sent'
           /\ calls'[i].content = calls[i].content => Sent' = Sent
           /\ calls[i].content # None => Sent # {}
<1>1. ASSUME NEW c \in Sent PROVE c \in Sent'
  <2>1. PICK j \in DOMAIN calls : c = calls[j].content /\ c # None
    BY <1>1 DEF Sent
  <2>2. j \in DOMAIN calls' /\ calls'[j].content = c
    BY <2>1 DEF Moves
  <2>3. QED
    BY <2>1, <2>2 DEF Sent
<1>2. ASSUME calls'[i].content = calls[i].content PROVE Sent' = Sent
  <2>1. DOMAIN calls' = DOMAIN calls /\ \A j \in DOMAIN calls : calls'[j].content = calls[j].content
    BY <1>2 DEF Moves
  <2>2. QED
    BY <2>1 DEF Sent
<1>3. calls[i].content # None => Sent # {}
  BY DEF Sent
<1>4. QED
  BY <1>1, <1>2, <1>3

\* The others are as good, unless their page is left or the first report is sent.
LEMMA OthersOnce ==
    ASSUME DraftAssumption, Inv, OnceInv, NEW i \in DOMAIN calls, Moves(i), UNCHANGED <<recorded, receiptAt>>,
           \A j \in DOMAIN calls : j # i /\ Asks(j) => (calls[j].since = None => Sent' = {}) /\ (calls[j].by # mount' => Sent' # {})
    PROVE  \A j \in DOMAIN calls : j # i => CallOnce(j)'
<1> SUFFICES ASSUME NEW j \in DOMAIN calls, j # i PROVE CallOnce(j)'
  OBVIOUS
<1>1. CallOnce(j) /\ calls'[j] = calls[j] /\ now' = now
  BY DEF OnceInv, Moves
<1>2. \A k \in DOMAIN calls' : Asks(k)' => Asks(k) /\ k \in DOMAIN calls
  BY DEF Moves, Asks
<1>3. QED
  BY <1>1, <1>2 DEF CallOnce, Asks

LEMMA OnceSend ==
    ASSUME DraftAssumption, Simple, Inv, OnceInv, NEW i \in DOMAIN calls, send(i)
    PROVE  OnceInv'
<1>1. PICK c \in Prepares(i) :
          /\ saveReportDraft(calls[i].form, TRUE, PendingSince(i), c)
          /\ calls' = [calls EXCEPT ![i].content = c, ![i].answer = "none"]
          /\ IF Here(i) THEN pending' = TRUE /\ since' = PendingSince(i) /\ prepared' = c
             ELSE UNCHANGED <<pending, since, prepared>>
  BY DEF send
<1>2. Asks(i) /\ UNCHANGED <<now, mount, token, recorded, receiptAt>>
  BY DEF send, serverVars, Asks
<1>3. DraftOnce /\ PageOnce /\ RecordOnce /\ CallOnce(i)
  BY DEF OnceInv
<1>4. /\ now \in Nat /\ TTL \in Nat \ {0} /\ None \notin Nat /\ None \notin Content /\ calls[i] \in CallRecord
      /\ calls[i].since \in Nat \cup {None} /\ calls[i].form \in Values /\ calls[i].restored \subseteq Content
  BY OnceTypes, CallOf
<1>5. c \in Content
  BY <1>1, <1>4 DEF Prepares, Content
<1>6. /\ PendingSince(i) \in Nat /\ PendingSince(i) <= now
      /\ recorded # <<>> => Sent # {} /\ PendingSince(i) <= receiptAt /\ calls[i].since # None
  BY <1>2, <1>3, <1>4 DEF PendingSince, CallOnce, RecordOnce
<1>7. Moves(i)
  BY CallMoves
<1>8. Sent \subseteq Sent' /\ Sent' # {}
  <2>1. calls'[i].content = c /\ i \in DOMAIN calls'
    BY <1>1, <1>4, <1>7 DEF CallRecord, Moves
  <2>2. c \in Sent'
    BY <1>4, <1>5, <2>1 DEF Sent
  <2>3. QED
    BY <1>7, <2>2, MovesSent
<1>9. DraftOnce'
  <2> DEFINE s == PendingSince(i)
  <2>1. s \in Nat /\ s <= now /\ (recorded # <<>> => s <= receiptAt) /\ saveReportDraft(calls[i].form, TRUE, s, c)
    BY <1>1, <1>6
  <2> HIDE DEF s
  <2>2. draft' # None /\ draft'.pending = TRUE /\ draft'.since = s
    <3>1. s \in Nat \cup {None} /\ s # None /\ c \in Content \cup {None} /\ c # None /\ TRUE \in BOOLEAN
      BY <1>4, <1>5, <2>1
    <3>2. QED
      BY <1>4, <2>1, <3>1, DraftSaved
  <2>3. QED
    BY <1>2, <1>4, <2>1, <2>2 DEF DraftOnce
<1>10. mount # 0 => pending'
  <2>1. CASE Here(i)
    BY <1>1, <2>1
  <2>2. CASE ~Here(i)
    <3>1. mount # 0 => pending
      BY <1>2, <1>3, <2>2 DEF CallOnce, PageOnce, Here
    <3>2. QED
      BY <1>1, <2>2, <3>1
  <2>3. QED
    BY <2>1, <2>2
<1>11. PageOnce'
  <2>1. CASE Here(i)
    BY <1>1, <1>2, <1>3, <1>4, <1>6, <1>10, <2>1 DEF PageOnce
  <2>2. CASE ~Here(i)
    BY <1>1, <1>2, <1>3, <1>10, <2>2 DEF PageOnce
  <2>3. QED
    BY <2>1, <2>2
<1>12. RecordOnce'
  BY <1>2, <1>3, <1>8 DEF RecordOnce
<1>13. \A j \in DOMAIN calls : j # i /\ Asks(j) => calls[j].since # None
  BY <1>2 DEF OnceInv, CallOnce
<1>14. \A j \in DOMAIN calls : j # i => CallOnce(j)'
  BY <1>2, <1>7, <1>8, <1>13, OthersOnce
<1>15. CallOnce(i)'
  <2>1. calls'[i].answer = "none" /\ calls'[i].since = calls[i].since
    BY <1>1, <1>4 DEF CallRecord
  <2>2. QED
    BY <1>2, <1>3, <2>1 DEF CallOnce, Asks
<1>16. QED
  BY <1>7, <1>9, <1>11, <1>12, <1>14, <1>15 DEF OnceInv, Moves

LEMMA OnceServed ==
    ASSUME DraftAssumption, Simple, Inv, OnceInv, NEW i \in DOMAIN calls, notSent(i) \/ serve(i) \/ serverFails(i)
    PROVE  OnceInv'
<1>1. Moves(i) /\ CallOnce(i) /\ DraftOnce /\ PageOnce /\ RecordOnce /\ calls[i] \in CallRecord /\ calls \in Seq(CallRecord)
  BY CallMoves, CallOf, OnceTypes DEF OnceInv
<1>2. UNCHANGED <<now, mount, pending, since, token, draft>>
  BY DEF notSent, serve, serverFails, pageVars
<1>3. /\ calls'[i].content = calls[i].content
      /\ calls'[i].answer \in {"dropped", "unavailable", "success"}
      /\ calls'[i].since = calls[i].since
  <2>1. CASE notSent(i)
    <3>1. calls' = [calls EXCEPT ![i].answer = "dropped", ![i].heard = TRUE]
      BY <2>1 DEF notSent
    <3>2. QED
      BY <1>1, <3>1 DEF CallRecord
  <2>2. CASE serve(i) \/ serverFails(i)
    <3>1. \E a \in {"unavailable", "success"} : calls' = [calls EXCEPT ![i].answer = a]
      BY <2>2 DEF serve, serverFails, Answer, Simple
    <3>2. QED
      BY <1>1, <3>1 DEF CallRecord
  <2>3. QED
    BY <2>1, <2>2
<1>4. Sent' = Sent
  BY <1>1, <1>3, MovesSent
<1>5. ASSUME UNCHANGED <<recorded, receiptAt>> PROVE OnceInv'
  <2>1. DraftOnce' /\ PageOnce' /\ RecordOnce'
    BY <1>1, <1>2, <1>4, <1>5 DEF DraftOnce, PageOnce, RecordOnce
  <2>2. \A j \in DOMAIN calls : Asks(j) => (calls[j].since = None => Sent = {}) /\ (calls[j].by # mount => Sent # {})
    BY DEF OnceInv, CallOnce
  <2>3. \A j \in DOMAIN calls : j # i => CallOnce(j)'
    BY <1>1, <1>2, <1>4, <1>5, <2>2, OthersOnce
  <2>4. CallOnce(i)'
    BY <1>1, <1>2, <1>3 DEF CallOnce, Asks
  <2>5. QED
    BY <1>1, <2>1, <2>3, <2>4 DEF OnceInv, Moves
\* The first report: nothing was recorded, since the receipt would answer.
<1>6. ASSUME serve(i), recorded' = Append(recorded, calls[i].content), receiptAt' = now, ~HasReceipt PROVE OnceInv'
  <2>1. calls[i].answer = "none" /\ Sent # {} /\ now \in Nat /\ TTL \in Nat \ {0} /\ receiptAt \in Nat \cup {None} /\ None \notin Nat
    BY <1>1, <1>6, CallOf, MovesSent, OnceTypes DEF serve, CallOK
  <2>2. recorded = <<>>
    BY <1>1, <1>6, <2>1 DEF CallOnce, RecordOnce, HasReceipt
  <2>3. Len(recorded') = 1
    BY <1>6, <2>2
  <2>4. RecordOnce'
    BY <1>4, <1>6, <2>1, <2>3 DEF RecordOnce
  <2>5. PageOnce'
    BY <1>1, <1>2, <1>4, <1>6, <2>1 DEF PageOnce
  <2>6. DraftOnce'
    BY <1>1, <1>2, <1>4, <1>6, <2>1 DEF DraftOnce
  <2>7. now < receiptAt' + TTL
    BY <1>6, <2>1
  <2>8. CallOnce(i)'
    BY <1>1, <1>2, <1>3 DEF CallOnce, Asks
  <2>9. ASSUME NEW j \in DOMAIN calls, j # i PROVE CallOnce(j)'
    <3>1. calls'[j] = calls[j] /\ CallOnce(j)
      BY <1>1, <2>9 DEF OnceInv, Moves
    <3>2. Asks(j) => calls[j].since # None /\ calls[j].since <= receiptAt'
      BY <1>6, <2>1, <3>1 DEF CallOnce
    <3>3. Asks(j) => (calls[j].by # mount => Sent # {})
      BY <3>1 DEF CallOnce
    <3>4. QED
      BY <1>2, <1>4, <2>7, <3>1, <3>2, <3>3 DEF CallOnce, Asks
  <2>10. QED
    BY <1>1, <2>4, <2>5, <2>6, <2>8, <2>9 DEF OnceInv, Moves
<1>7. QED
  BY <1>5, <1>6 DEF notSent, serve, serverFails, serverVars

LEMMA OnceAnswered ==
    ASSUME DraftAssumption, Simple, Inv, OnceInv, NEW i \in DOMAIN calls, answered(i)
    PROVE  OnceInv'
<1>1. Moves(i) /\ CallOnce(i) /\ DraftOnce /\ PageOnce /\ RecordOnce /\ calls[i] \in CallRecord /\ CallOK(i) /\ calls \in Seq(CallRecord)
  BY CallMoves, CallOf, OnceTypes DEF OnceInv
<1>2. succeeded(i) \/ unknown(i)
  BY <1>1 DEF answered, wasRefused, CallOnce
<1>3. /\ calls' = [calls EXCEPT ![i].heard = TRUE] /\ calls[i].answer # "asking" /\ ~calls[i].heard
      /\ UNCHANGED <<now, pending, since, recorded, receiptAt>>
      /\ draft' \in {None, draft} /\ token' \in {0, token}
  BY <1>2 DEF succeeded, unknown, Hears, serverVars
<1>4. mount' = 0 \/ mount' = mount
  BY <1>2 DEF succeeded, unknown, Result, Stays
<1>5. /\ calls'[i].content = calls[i].content /\ calls'[i].answer = calls[i].answer
      /\ calls'[i].since = calls[i].since
  BY <1>1, <1>3 DEF CallRecord
<1>6. Sent' = Sent /\ Sent # {}
  BY <1>1, <1>3, <1>5, MovesSent DEF CallOK
<1>7. DraftOnce' /\ PageOnce' /\ RecordOnce'
  BY <1>1, <1>3, <1>4, <1>6 DEF DraftOnce, PageOnce, RecordOnce
<1>8. \A j \in DOMAIN calls : Asks(j) => (calls[j].since = None => Sent = {})
  BY DEF OnceInv, CallOnce
<1>9. \A j \in DOMAIN calls : j # i => CallOnce(j)'
  BY <1>1, <1>3, <1>6, <1>8, OthersOnce
<1>10. CallOnce(i)'
  BY <1>1, <1>3, <1>5 DEF CallOnce, Asks
<1>11. QED
  BY <1>1, <1>7, <1>9, <1>10 DEF OnceInv, Moves

LEMMA OnceClosed ==
    ASSUME DraftAssumption, Simple, Inv, OnceInv, closeTab
    PROVE  OnceInv'
<1> DEFINE Shut(c) == [c EXCEPT !.heard = TRUE, !.answer = IF @ = "asking" THEN "dropped" ELSE @]
<1>1. /\ mount' = 0 /\ calls' = [i \in DOMAIN calls |-> Shut(calls[i])]
      /\ UNCHANGED <<now, pending, since, token, draft, recorded, receiptAt>>
  BY DEF closeTab, serverVars
<1>2. \A i \in DOMAIN calls :
        /\ Shut(calls[i]).content = calls[i].content /\ Shut(calls[i]).since = calls[i].since
        /\ Shut(calls[i]).answer = IF calls[i].answer = "asking" THEN "dropped" ELSE calls[i].answer
  BY CallOf DEF CallRecord
<1> HIDE DEF Shut
<1>3. /\ DOMAIN calls' = DOMAIN calls
      /\ \A i \in DOMAIN calls : /\ calls'[i].content = calls[i].content /\ calls'[i].since = calls[i].since
                                 /\ calls'[i].answer = IF calls[i].answer = "asking" THEN "dropped" ELSE calls[i].answer
  BY <1>1, <1>2
<1>4. Sent' = Sent
  BY <1>3 DEF Sent
<1>5. DraftOnce' /\ PageOnce' /\ RecordOnce'
  BY <1>1, <1>4 DEF OnceInv, DraftOnce, PageOnce, RecordOnce
<1>6. ASSUME NEW i \in DOMAIN calls PROVE CallOnce(i)'
  <2>1. CallOnce(i) /\ calls'[i].answer # "asking"
    BY <1>3 DEF OnceInv
  <2>2. QED
    BY <1>1, <1>3, <2>1 DEF CallOnce, Asks
<1>7. QED
  BY <1>3, <1>5, <1>6 DEF OnceInv

LEMMA StepOnce == DraftAssumption /\ Simple /\ Inv /\ OnceInv /\ [Next]_vars => OnceInv'
<1> SUFFICES ASSUME DraftAssumption, Simple, Inv, OnceInv, [Next]_vars PROVE OnceInv'
  OBVIOUS
<1>1. CASE UNCHANGED vars
  <2>1. UNCHANGED <<now, mount, pending, since, token, draft, calls, recorded, receiptAt>>
    BY <1>1 DEF vars, pageVars, serverVars
  <2>2. Sent' = Sent
    BY <2>1 DEF Sent
  <2>3. DraftOnce' /\ PageOnce'
    BY <2>1, <2>2 DEF OnceInv, DraftOnce, PageOnce
  <2>4. QED
    BY <2>1, <2>3, OnceQuiet
<1>2. CASE user
  BY <1>2, OnceUser, OnceClosed, OnceSubmit DEF user
<1>3. CASE Tick
  BY <1>3, OnceUser
<1>4. ASSUME NEW i \in DOMAIN calls, send(i) \/ notSent(i) \/ serve(i) \/ serverFails(i) \/ answered(i) PROVE OnceInv'
  BY <1>4, OnceSend, OnceServed, OnceAnswered
<1>5. QED
  BY <1>1, <1>2, <1>3, <1>4 DEF Next

LEMMA InvOnce == DraftAssumption /\ Inv /\ OnceInv => RecordedOnce
<1> SUFFICES ASSUME DraftAssumption, Inv, OnceInv PROVE Len(recorded) <= 1
  BY DEF RecordedOnce
<1>1. recorded \in Seq(Content)
  BY OnceTypes
<1>2. CASE recorded = <<>>
  <2>1. Len(recorded) = 0
    BY <1>2
  <2>2. QED
    BY <2>1
<1>3. CASE recorded # <<>>
  BY <1>3 DEF OnceInv, RecordOnce
<1>4. QED
  BY <1>2, <1>3

=============================================================================
