-------------------------- MODULE ImportQueueProofs --------------------------
(***************************************************************************)
(* For every number of processes, batches, rows and inventory numbers, and *)
(* every number of crashes and edits: rows are applied once, the counters  *)
(* of a batch are its rows, one batch is processed at a time, only a row   *)
(* whose own statement was refused is failed, and the queue implements the *)
(* ledger of ImportLedger.                                                 *)
(***************************************************************************)
EXTENDS ImportQueue, FiniteSetTheorems, TLAPS

Types ==
    /\ batch \in [Batches -> Batch]
    /\ rows \in [Batches -> [RowNumbers -> Row] \cup {<<>>}]
    /\ points \in [Keys -> {"none", "old", "new"}]
    /\ audits \in [Batches -> [RowNumbers -> Nat]]
    /\ leader \in Workers \cup {Nobody}
    /\ pc \in [Workers -> {"down", "passive", "idle", "claiming"} \cup InBatch]
    /\ job \in [Workers -> [batch: Batches \cup {NoBatch}, token: Token]]
    /\ left \in [Workers -> 0..ROWS_PER_QUERY]
    /\ held \in [Workers -> SUBSET Batches]
    /\ blamed \subseteq Batches \X RowNumbers
    /\ faults \in 0..MaxFaults /\ edits \in 0..MaxEdits

RowsWith(rs, o) == {n \in DOMAIN rs : rs[n].outcome = o}

\* What one row x of import_batches, its rows rs and their audit events au agree
\* on: nothing is applied before the confirmation, from then on the counters are
\* the rows, and a finished batch has no pending row.
BatchOK(x, rs, au) ==
    /\ x.status = "none" <=> rs = <<>>
    /\ x.status = "processing" <=> x.token # 0
    /\ x.status \in {"none", "preview"} =>
          /\ \A n \in DOMAIN rs : rs[n].outcome \in {"pending", "skipped", "failed"}
          /\ \A n \in RowNumbers : au[n] = 0
    /\ x.status \in {"queued", "processing"} \cup Finished =>
          x.count = [o \in Outcomes |-> Cardinality(RowsWith(rs, o))]
    /\ \A n \in DOMAIN rs : au[n] = IF rs[n].outcome \in Mutating THEN 1 ELSE 0
    /\ x.status \in Finished => RowsWith(rs, "pending") = {}

\* A claim in progress has locked what it will requeue and what it will take:
\* that waits to be processed, or was given up.
ClaimOK(w) ==
    /\ held[w] # {} => pc[w] = "claiming"
    /\ pc[w] = "claiming" => job[w].batch \in held[w] /\ job[w].token = 0
    /\ \A b \in held[w] :
          \/ batch[b].status = "queued"
          \/ batch[b].status = "processing" /\ batch[b].due

\* Between the refusal of a row in the replay and failNextPendingRow, the next
\* pending row stays the refused one for as long as the process owns the batch.
FailingOK(w) ==
    pc[w] = "failing" =>
        /\ left[w] > 0
        /\ Owns(w) => \A n \in Pending(job[w].batch) :
              (\A m \in Pending(job[w].batch) : n <= m) => <<job[w].batch, n>> \in blamed

\* No two claims have locked the same batch, no two processes have the same
\* worker_token, no two batches are processed.
LocksApart == \A v, w \in Workers : v # w => held[v] \cap held[w] = {}
TokensApart == \A v, w \in Workers : v # w /\ job[v].token # 0 => job[v].token # job[w].token
OneProcessing ==
    \A b, c \in Batches :
        batch[b].status = "processing" /\ batch[c].status = "processing" => b = c

\* The inductive invariant.
Inv ==
    /\ Types
    /\ OneProcessing /\ LocksApart /\ TokensApart
    /\ \A b \in Batches : BatchOK(batch[b], rows[b], audits[b])
    /\ \A w \in Workers : ClaimOK(w) /\ FailingOK(w)

-----------------------------------------------------------------------------
(* One batch.                                                              *)

LEMMA RowsNotEmpty ==
    ASSUME NEW S, NEW f \in [RowNumbers -> S]
    PROVE  f # <<>> /\ DOMAIN f = RowNumbers
<1>1. 1 \in RowNumbers /\ DOMAIN f = RowNumbers  BY Assumption DEF RowNumbers
<1>2. DOMAIN << >> = {}  OBVIOUS
<1>3. QED  BY <1>1, <1>2

LEMMA RowNumbersFinite == IsFiniteSet(RowNumbers)
BY FS_Interval, Assumption DEF RowNumbers

LEMMA RowsFinite ==
    ASSUME NEW rs \in [RowNumbers -> Row] \cup {<<>>}, NEW S \in SUBSET DOMAIN rs
    PROVE  IsFiniteSet(S) /\ Cardinality(S) \in Nat
<1>1. DOMAIN rs \subseteq RowNumbers
  <2>1. CASE rs \in [RowNumbers -> Row]  BY <2>1
  <2>2. CASE rs = <<>>  BY <2>2
  <2>3. QED  BY <2>1, <2>2
<1>2. S \subseteq RowNumbers  BY <1>1
<1>3. QED  BY <1>2, RowNumbersFinite, FS_Subset, FS_CardinalityType

LEMMA AbsentOK ==
    ASSUME NEW au, \A n \in RowNumbers : au[n] = 0
    PROVE  BatchOK(Absent, <<>>, au) /\ Absent \in Batch
<1>1. 0 \in Token
  <2>1. Cardinality(Workers) \in Nat  BY Assumption, FS_CardinalityType
  <2>2. QED  BY <2>1 DEF Token
<1>2. NoCount \in [Outcomes -> Nat]  BY DEF NoCount
<1>3. Absent \in Batch  BY <1>1, <1>2 DEF Absent, Batch
<1>4. QED  BY <1>3 DEF BatchOK, Absent, Finished

LEMMA PreviewOK ==
    ASSUME NEW x, x.status = "preview", x.token = 0,
           NEW f \in PreviewRows, NEW au, \A n \in RowNumbers : au[n] = 0
    PROVE  BatchOK(x, f, au) /\ f \in [RowNumbers -> Row]
<1>1. f \in [RowNumbers -> [outcome: {"pending", "skipped", "failed"}, key: Keys, kind: Kinds]]
      BY DEF PreviewRows
<1>2. f \in [RowNumbers -> Row]  BY <1>1 DEF Row, Outcomes
<1>3. f # <<>> /\ DOMAIN f = RowNumbers  BY <1>2, RowsNotEmpty
<1>4. \A n \in RowNumbers : f[n].outcome \in {"pending", "skipped", "failed"}  BY <1>1
<1>5. QED  BY <1>2, <1>3, <1>4 DEF BatchOK, Finished, Mutating

\* The counters of a confirmation are exact because a preview has applied nothing.
LEMMA ConfirmOK ==
    ASSUME NEW x \in Batch, NEW rs \in [RowNumbers -> Row] \cup {<<>>}, NEW au,
           BatchOK(x, rs, au), x.status = "preview",
           NEW y, y.status = "queued", y.token = 0,
           y.count = [[o \in Outcomes |-> Cardinality(RowsWith(rs, o))]
                         EXCEPT !["created"] = 0, !["updated"] = 0, !["unchanged"] = 0]
    PROVE  BatchOK(y, rs, au) /\ y.count \in [Outcomes -> Nat]
<1>1. RowsWith(rs, "created") = {} /\ RowsWith(rs, "updated") = {} /\ RowsWith(rs, "unchanged") = {}
      BY DEF BatchOK, RowsWith
<1>2. Cardinality({}) = 0  BY FS_EmptySet
<1>3. y.count = [o \in Outcomes |-> Cardinality(RowsWith(rs, o))]  BY <1>1, <1>2 DEF Outcomes
<1>4. \A o \in Outcomes : Cardinality(RowsWith(rs, o)) \in Nat
  <2>1. \A o \in Outcomes : RowsWith(rs, o) \subseteq DOMAIN rs  BY DEF RowsWith
  <2>2. QED  BY <2>1, RowsFinite
<1>5. y.count \in [Outcomes -> Nat]
  <2>1. [o \in Outcomes |-> Cardinality(RowsWith(rs, o))] \in [Outcomes -> Nat]  BY <1>4, Zenon
  <2>2. QED  BY <1>3, <2>1, Zenon
<1>6. x.status # "none" /\ \A n \in DOMAIN rs : rs[n].outcome \in {"pending", "skipped", "failed"}
      BY DEF BatchOK
<1>7. BatchOK(y, rs, au)  BY <1>3, <1>6 DEF BatchOK, Finished
<1>8. QED  BY <1>5, <1>7

\* A batch that changes hands.
LEMMA HandedOK ==
    ASSUME NEW x, NEW rs, NEW au, BatchOK(x, rs, au), x.status \in {"queued", "processing"},
           NEW y, y.status \in {"queued", "processing"}, y.count = x.count,
           y.status = "processing" <=> y.token # 0
    PROVE  BatchOK(y, rs, au)
BY DEF BatchOK, Finished

\* The rows of sel get the outcomes out: rows, audit events and counters.
GivenRows(rt, rs, sel, out) ==
    \A n \in RowNumbers : rt[n].outcome = IF n \in sel THEN out[n] ELSE rs[n].outcome
GivenAudits(av, au, sel, out) ==
    \A n \in RowNumbers : av[n] = IF n \in sel /\ out[n] \in Mutating THEN au[n] + 1 ELSE au[n]
Grown(count, sel, out) == [o \in Outcomes |-> count[o] + Cardinality({n \in sel : out[n] = o})]

\* Pending rows get their outcomes: the counters grow by as much.
LEMMA ApplyOK ==
    ASSUME NEW x \in Batch, NEW rs \in [RowNumbers -> Row], NEW au \in [RowNumbers -> Nat],
           BatchOK(x, rs, au), x.status = "processing",
           NEW sel \in SUBSET RowsWith(rs, "pending"), NEW out \in [sel -> Outcomes],
           NEW y, y.status = "processing", y.token = x.token,
           y.count = Grown(x.count, sel, out),
           NEW rt \in [RowNumbers -> Row],
           GivenRows(rt, rs, sel, out), NEW av, GivenAudits(av, au, sel, out)
    PROVE  BatchOK(y, rt, av) /\ y.count \in [Outcomes -> Nat]
<1>1. DOMAIN rs = RowNumbers /\ DOMAIN rt = RowNumbers /\ rt # <<>>  BY RowsNotEmpty
<1>2. "pending" \notin Outcomes /\ sel \subseteq RowNumbers  BY <1>1 DEF Outcomes, RowsWith
<1>3. ASSUME NEW o \in Outcomes
      PROVE  /\ y.count[o] = Cardinality(RowsWith(rt, o))
             /\ Cardinality(RowsWith(rt, o)) \in Nat
  <2> DEFINE A == RowsWith(rs, o)
             B == {n \in sel : out[n] = o}
  <2>1. RowsWith(rt, o) = A \cup B
    <3>1. \A n \in sel : rs[n].outcome = "pending" /\ n \in RowNumbers  BY <1>1 DEF RowsWith
    <3>2. QED  BY <1>1, <1>2, <3>1 DEF RowsWith, GivenRows
  <2>2. A \cap B = {}  BY <1>2 DEF RowsWith
  <2>3. IsFiniteSet(A) /\ Cardinality(A) \in Nat
    <3>1. A \subseteq DOMAIN rs  BY DEF RowsWith
    <3>2. QED  BY <3>1, RowsFinite
  <2>4. IsFiniteSet(B) /\ Cardinality(B) \in Nat
    <3>1. B \subseteq RowNumbers  BY <1>2
    <3>2. QED  BY <3>1, RowNumbersFinite, FS_Subset, FS_CardinalityType
  <2>5. Cardinality(A \cup B) = Cardinality(A) + Cardinality(B) - Cardinality({})
        BY <2>2, <2>3, <2>4, FS_Union
  <2>6. Cardinality({}) = 0  BY FS_EmptySet
  <2>7. x.count[o] = Cardinality(A)  BY DEF BatchOK
  <2>8. y.count[o] = x.count[o] + Cardinality(B)  BY DEF Grown
  <2>9. QED  BY <2>1, <2>3, <2>4, <2>5, <2>6, <2>7, <2>8
<1>4. y.count = [o \in Outcomes |-> Cardinality(RowsWith(rt, o))]  BY <1>3 DEF Grown
<1>5. \A n \in RowNumbers : av[n] = IF rt[n].outcome \in Mutating THEN 1 ELSE 0
  <2> SUFFICES ASSUME NEW n \in RowNumbers PROVE av[n] = IF rt[n].outcome \in Mutating THEN 1 ELSE 0
      OBVIOUS
  <2>1. au[n] = IF rs[n].outcome \in Mutating THEN 1 ELSE 0  BY <1>1 DEF BatchOK
  <2>2. n \in sel => au[n] = 0  BY <2>1 DEF RowsWith, Mutating
  <2>3. QED  BY <2>1, <2>2 DEF GivenRows, GivenAudits
<1>6. x.token # 0  BY DEF BatchOK
<1>7. y.count \in [Outcomes -> Nat]  BY <1>3, <1>4
<1>8. BatchOK(y, rt, av)  BY <1>1, <1>4, <1>5, <1>6 DEF BatchOK, Finished
<1>9. QED  BY <1>7, <1>8

LEMMA CompleteOK ==
    ASSUME NEW x, NEW rs, NEW au, BatchOK(x, rs, au), x.status = "processing",
           RowsWith(rs, "pending") = {},
           NEW y, y.status \in Finished, y.token = 0, y.count = x.count
    PROVE  BatchOK(y, rs, au)
BY DEF BatchOK, Finished

-----------------------------------------------------------------------------
(* Steps that leave the tables alone.                                      *)

\* A process that does not move keeps its claim and its refused row, if what it
\* has locked stays as it is and nobody touches what it owns.
LEMMA WorkerFrame ==
    ASSUME Inv, NEW v \in Workers,
           pc'[v] = pc[v], job'[v] = job[v], left'[v] = left[v], held'[v] = held[v],
           blamed \subseteq blamed',
           \A b \in held[v] : batch'[b].status = batch[b].status /\ (batch[b].due => batch'[b].due),
           Owns(v)' => Owns(v) /\ rows'[job[v].batch] = rows[job[v].batch]
    PROVE  ClaimOK(v)' /\ FailingOK(v)'
<1>1. ClaimOK(v)'  BY DEF ClaimOK, Inv
<1>2. FailingOK(v)'
  <2> SUFFICES ASSUME pc[v] = "failing"
               PROVE  /\ left[v] > 0
                      /\ Owns(v)' => \A n \in Pending(job[v].batch)' :
                            (\A m \in Pending(job[v].batch)' : n <= m) => <<job[v].batch, n>> \in blamed'
      BY DEF FailingOK
  <2>1. FailingOK(v)  BY DEF Inv
  <2>2. Owns(v)' => Pending(job[v].batch)' = Pending(job[v].batch)  BY DEF Pending
  <2>3. QED  BY <2>1, <2>2 DEF FailingOK
<1>3. QED  BY <1>1, <1>2

\* One process moves and no table of the import changes.
LEMMA QuietKeeps ==
    ASSUME Inv, Types', NEW w \in Workers, UNCHANGED <<batch, rows, audits>>,
           blamed \subseteq blamed',
           \A v \in Workers \ {w} : /\ pc'[v] = pc[v] /\ job'[v] = job[v]
                                    /\ left'[v] = left[v] /\ held'[v] = held[v],
           held'[w] \subseteq held[w], job'[w].token \in {0, job[w].token},
           ClaimOK(w)', FailingOK(w)'
    PROVE  Inv'
<1>1. OneProcessing' /\ \A b \in Batches : BatchOK(batch[b], rows[b], audits[b])'
      BY DEF Inv, OneProcessing, BatchOK
<1>2. LocksApart'  BY DEF Inv, LocksApart
<1>3. TokensApart'  BY DEF Inv, TokensApart
<1>4. ASSUME NEW v \in Workers PROVE ClaimOK(v)' /\ FailingOK(v)'
  <2>1. CASE v = w  BY <2>1
  <2>2. CASE v # w
    <3>1. Owns(v)' => Owns(v) /\ rows'[job[v].batch] = rows[job[v].batch]  BY <2>2 DEF Owns
    <3>2. QED  BY <2>2, <3>1, WorkerFrame
  <2>3. QED  BY <2>1, <2>2
<1>5. QED  BY <1>1, <1>2, <1>3, <1>4 DEF Inv

\* The worker goes to another place and may drop its job and its locks.
LEMMA MovesInv ==
    ASSUME Inv, Types', NEW w \in Workers, NEW place, place \notin {"failing", "claiming"}, At(w, place),
           UNCHANGED <<batch, rows, audits, blamed>>,
           held' = [held EXCEPT ![w] = {}] \/ (held' = held /\ pc[w] # "claiming"),
           job' = [job EXCEPT ![w] = NoJob] \/ job' = job,
           left' = left \/ \E l \in 0..ROWS_PER_QUERY : left' = [left EXCEPT ![w] = l]
    PROVE  Inv'
<1>1. pc'[w] = place /\ \A v \in Workers \ {w} : pc'[v] = pc[v]  BY DEF At, Inv, Types
<1>2. \A v \in Workers \ {w} : job'[v] = job[v] /\ left'[v] = left[v] /\ held'[v] = held[v]
      BY DEF Inv, Types
<1>3. held'[w] = {}  BY DEF Inv, ClaimOK, Types
<1>4. job'[w].token \in {0, job[w].token}  BY DEF NoJob, Inv, Types
<1>5. ClaimOK(w)' /\ FailingOK(w)'  BY <1>1, <1>3 DEF ClaimOK, FailingOK
<1>6. QED  BY <1>1, <1>2, <1>3, <1>4, <1>5, QuietKeeps

LEMMA NoJobType == NoJob \in [batch: Batches \cup {NoBatch}, token: Token] /\ 0 \in Token
<1>1. Cardinality(Workers) \in Nat  BY Assumption, FS_CardinalityType
<1>2. QED  BY <1>1 DEF NoJob, Token

LEMMA StartInv ==
    ASSUME Inv, NEW w \in Workers, startImportQueueWorker(w)
    PROVE  Inv'
<1>1. PICK place \in {"idle", "passive"} : At(w, place)  BY DEF startImportQueueWorker
<1>2. Types'  BY <1>1 DEF startImportQueueWorker, At, Inv, Types
<1>3. QED  BY <1>1, <1>2, MovesInv DEF startImportQueueWorker

LEMMA FaultType ==
    ASSUME Inv, Fault
    PROVE  faults' \in 0..MaxFaults
BY Assumption DEF Fault, Inv, Types

LEMMA QuitsInv ==
    ASSUME Inv, NEW w \in Workers, Fault, Quits(w)
    PROVE  Inv'
<1>1. Types'  BY FaultType, NoJobType DEF Quits, At, Inv, Types
<1>2. QED  BY <1>1, MovesInv DEF Quits

LEMMA DatabaseErrorInv ==
    ASSUME Inv, NEW w \in Workers, databaseError(w)
    PROVE  Inv'
<1>1. Types'  BY FaultType, NoJobType DEF databaseError, At, Inv, Types
<1>2. QED  BY <1>1, MovesInv DEF databaseError

LEMMA ConfirmedMeanwhileInv ==
    ASSUME Inv, NEW w \in Workers, confirmedMeanwhile(w)
    PROVE  Inv'
<1>1. PICK place \in {"completing", "bulk"} : At(w, place)  BY DEF confirmedMeanwhile
<1>2. Types'  BY <1>1, FaultType DEF confirmedMeanwhile, At, InBatch, Inv, Types
<1>3. QED  BY <1>1, <1>2, MovesInv DEF confirmedMeanwhile

\* Steps of others that touch neither the tables nor the processes.
LEMMA ElsewhereInv ==
    ASSUME Inv, Types', UNCHANGED <<batch, rows, audits, pc, job, left, held, blamed>>
    PROVE  Inv'
<1>1. OneProcessing' /\ LocksApart' /\ TokensApart' /\ \A b \in Batches : BatchOK(batch[b], rows[b], audits[b])'
      BY DEF Inv, OneProcessing, LocksApart, TokensApart, BatchOK
<1>2. \A w \in Workers : ClaimOK(w)' /\ FailingOK(w)'
      BY DEF Inv, ClaimOK, FailingOK, Owns, Pending
<1>3. QED  BY <1>1, <1>2 DEF Inv

LEMMA LoseSessionInv ==
    ASSUME Inv, NEW w \in Workers, loseSession(w)
    PROVE  Inv'
<1>1. Types'  BY FaultType DEF loseSession, Inv, Types
<1>2. QED  BY <1>1, ElsewhereInv DEF loseSession

LEMMA EditInv ==
    ASSUME Inv, NEW k \in Keys, editInventory(k)
    PROVE  Inv'
<1>1. edits' \in 0..MaxEdits  BY Assumption DEF editInventory, Inv, Types
<1>2. points' \in [Keys -> {"none", "old", "new"}]  BY DEF editInventory, Inv, Types
<1>3. Types'  BY <1>1, <1>2 DEF editInventory, Inv, Types
<1>4. QED  BY <1>3, ElsewhereInv DEF editInventory

-----------------------------------------------------------------------------
(* The claim.                                                              *)

LEMMA ClaimSelectInv ==
    ASSUME Inv, NEW w \in Workers, claimBatchSelect(w)
    PROVE  Inv'
<1>1. PICK b \in {c \in With("queued") \cup Abandoned : ~Locked(c)} :
          /\ job' = [job EXCEPT ![w] = [batch |-> b, token |-> 0]]
          /\ held' = [held EXCEPT ![w] = Abandoned \cup {b}]
      BY DEF claimBatchSelect
<1>2. /\ \A c \in Abandoned : ~Locked(c)
      /\ pc' = [pc EXCEPT ![w] = "claiming"]
      /\ UNCHANGED <<batch, rows, points, audits, leader, left, blamed, faults, edits>>
      BY DEF claimBatchSelect, At
<1>3. b \in Batches /\ Abandoned \subseteq Batches  BY DEF With, Abandoned
<1>4. Types'
  <2>1. job' \in [Workers -> [batch: Batches \cup {NoBatch}, token: Token]]
        BY <1>1, <1>3, NoJobType DEF Inv, Types
  <2>2. held' \in [Workers -> SUBSET Batches]  BY <1>1, <1>3 DEF Inv, Types
  <2>3. pc' \in [Workers -> {"down", "passive", "idle", "claiming"} \cup InBatch]
        BY <1>2 DEF Inv, Types
  <2>4. QED  BY <1>2, <2>1, <2>2, <2>3 DEF Inv, Types
<1>5. /\ pc'[w] = "claiming" /\ job'[w] = [batch |-> b, token |-> 0] /\ held'[w] = Abandoned \cup {b}
      /\ \A v \in Workers \ {w} : pc'[v] = pc[v] /\ job'[v] = job[v] /\ held'[v] = held[v]
      BY <1>1, <1>2 DEF Inv, Types
<1>6. OneProcessing' /\ \A c \in Batches : BatchOK(batch[c], rows[c], audits[c])'
      BY <1>2 DEF Inv, OneProcessing, BatchOK
<1>7. LocksApart'
  <2>1. \A v \in Workers : (Abandoned \cup {b}) \cap held[v] = {}  BY <1>1, <1>2 DEF Locked
  <2>2. QED  BY <1>5, <2>1 DEF LocksApart, Inv
<1>8. TokensApart'  BY <1>5 DEF TokensApart, Inv
<1>9. ASSUME NEW v \in Workers PROVE ClaimOK(v)' /\ FailingOK(v)'
  <2>1. CASE v # w
    <3>1. Owns(v)' => Owns(v) /\ rows'[job[v].batch] = rows[job[v].batch]
          BY <1>2, <1>5, <2>1 DEF Owns
    <3>2. QED  BY <1>2, <1>5, <2>1, <3>1, WorkerFrame
  <2>2. CASE v = w
    <3>1. \A c \in Abandoned \cup {b} : \/ batch[c].status = "queued"
                                        \/ batch[c].status = "processing" /\ batch[c].due
          BY DEF Abandoned, With
    <3>2. ClaimOK(w)'  BY <1>2, <1>5, <3>1 DEF ClaimOK
    <3>3. FailingOK(w)'  BY <1>5 DEF FailingOK
    <3>4. QED  BY <2>2, <3>2, <3>3
  <2>3. QED  BY <2>1, <2>2
<1>10. QED  BY <1>4, <1>6, <1>7, <1>8, <1>9 DEF Inv

\* There is always a token nobody has.
LEMMA FreshOK ==
    ASSUME Inv, NEW w \in Workers, job[w].token = 0
    PROVE  /\ FreshToken \in Token /\ FreshToken # 0
           /\ \A v \in Workers : job[v].token # FreshToken
           /\ \A b \in Batches : batch[b].token # FreshToken
<1> DEFINE N == Cardinality(Workers)
           Others == Workers \ {w}
           J == {job[v].token : v \in Others}
<1>1. N \in Nat /\ IsFiniteSet(Workers) /\ IsFiniteSet(Others) /\ Cardinality(Others) = N - 1
      BY Assumption, FS_CardinalityType, FS_RemoveElement
<1>2. IsFiniteSet(J) /\ Cardinality(J) <= Cardinality(Others)
  <2> DEFINE f == [v \in Others |-> job[v].token]
  <2>1. f \in Surjection(Others, J)  BY DEF Surjection
  <2>2. QED  BY <1>1, <2>1, FS_Surjection
<1>3. PICK x : \A b \in Batches : batch[b].token # 0 => batch[b].token = x
  <2>1. \A b \in Batches : batch[b].token # 0 => batch[b].status = "processing"  BY DEF Inv, BatchOK
  <2>2. \A b, c \in Batches : batch[b].token # 0 /\ batch[c].token # 0 => b = c
        BY <2>1 DEF Inv, OneProcessing
  <2>3. CASE \A b \in Batches : batch[b].token = 0  BY <2>3
  <2>4. CASE \E b \in Batches : batch[b].token # 0
    <3>1. PICK c \in Batches : batch[c].token # 0  BY <2>4
    <3>2. \A b \in Batches : batch[b].token # 0 => batch[b].token = batch[c].token  BY <2>2, <3>1
    <3>3. QED  BY <3>2
  <2>5. QED  BY <2>3, <2>4
<1>4. IsFiniteSet(J \cup {x}) /\ Cardinality(J \cup {x}) \in Nat /\ Cardinality(J \cup {x}) <= N
  <2>1. Cardinality(J) \in Nat /\ Cardinality(Others) \in Nat  BY <1>1, <1>2, FS_CardinalityType
  <2>2. /\ IsFiniteSet(J \cup {x})
        /\ Cardinality(J \cup {x}) = Cardinality(J) \/ Cardinality(J \cup {x}) = Cardinality(J) + 1
        BY <1>2, FS_AddElement
  <2>3. QED  BY <1>1, <1>2, <2>1, <2>2
<1>5. N # 0  BY <1>1, FS_EmptySet
<1>6. \E t \in 1..(2 * N) : t \notin J \cup {x}
  <2> SUFFICES ASSUME 1..(2 * N) \subseteq J \cup {x} PROVE FALSE  OBVIOUS
  <2>1. Cardinality(1..(2 * N)) <= Cardinality(J \cup {x})  BY <1>4, FS_Subset
  <2>2. Cardinality(1..(2 * N)) = 2 * N  BY <1>1, FS_Interval
  <2>3. QED  BY <1>1, <1>4, <1>5, <2>1, <2>2
<1>7. PICK t \in 1..(2 * N) : t \notin J \cup {x}  BY <1>6
<1>8. t \in Token \ {0}  BY <1>1, <1>7 DEF Token
<1>9. \A v \in Workers : job[v].token # t
  <2>1. t # 0  BY <1>8
  <2>2. QED  BY <1>7, <2>1
<1>10. \A b \in Batches : batch[b].token # t  BY <1>3, <1>7, <1>8
<1>11. \E s \in Token \ {0} : /\ \A v \in Workers : job[v].token # s
                              /\ \A b \in Batches : batch[b].token # s
       BY <1>8, <1>9, <1>10
<1>12. QED  BY <1>11 DEF FreshToken

\* What the commit of a claim leaves of each batch.
LEMMA ClaimedTables ==
    ASSUME Inv, NEW w \in Workers, pc[w] = "claiming", IndexAdmits(w),
           batch' = [Cleaned(Requeued) EXCEPT ![job[w].batch].status = "processing",
                              ![job[w].batch].due = FALSE, ![job[w].batch].token = FreshToken],
           rows' = CleanedRows, audits' = audits, NEW b \in Batches
    PROVE  /\ batch'[b] \in Batch /\ rows'[b] \in [RowNumbers -> Row] \cup {<<>>}
           /\ BatchOK(batch'[b], rows'[b], audits'[b])
           /\ b = job[w].batch => batch'[b].status = "processing" /\ batch'[b].token = FreshToken
           /\ b # job[w].batch => batch'[b].status # "processing"
           /\ batch[b].status = "queued" /\ b # job[w].batch => batch'[b] = batch[b]
<1> DEFINE c == job[w].batch
<1>1. /\ c \in held[w] /\ job[w].token = 0 /\ held[w] \subseteq Batches
      /\ batch \in [Batches -> Batch] /\ batch[b] \in Batch
      /\ rows[b] \in [RowNumbers -> Row] \cup {<<>>} /\ audits[b] \in [RowNumbers -> Nat]
      /\ BatchOK(batch[b], rows[b], audits[b])
      BY DEF Inv, ClaimOK, Types
<1>2. FreshToken \in Token /\ FreshToken # 0  BY <1>1, FreshOK
<1>3. batch[b].status = "processing" => b \in held[w] /\ batch[b].due
  <2>1. batch[b].status = "processing" => b \in held[w]  BY DEF IndexAdmits, With
  <2>2. QED  BY <2>1 DEF Inv, ClaimOK
<1>4. Requeued[b] = IF batch[b].status = "processing"
                    THEN [batch[b] EXCEPT !.status = "queued", !.token = 0, !.due = FALSE]
                    ELSE batch[b]
      BY <1>3 DEF Requeued, Abandoned, With
<1>5. CASE ExpiredPreview(b)
  <2>1. b # c  BY <1>1, <1>5 DEF ExpiredPreview, Inv, ClaimOK
  <2>2. batch'[b] = Absent /\ rows'[b] = <<>>  BY <1>5, <2>1 DEF Cleaned, CleanedRows
  <2>3. \A n \in RowNumbers : audits[b][n] = 0  BY <1>1, <1>5 DEF ExpiredPreview, BatchOK
  <2>4. BatchOK(batch'[b], rows'[b], audits'[b]) /\ batch'[b] \in Batch  BY <2>2, <2>3, AbsentOK
  <2>5. QED  BY <1>5, <2>1, <2>2, <2>4 DEF ExpiredPreview, Absent
<1>6. CASE ~ExpiredPreview(b) /\ b # c
  <2>1. batch'[b] = Requeued[b] /\ rows'[b] = rows[b]  BY <1>6 DEF Cleaned, CleanedRows
  <2>2. CASE batch[b].status = "processing"
    <3> DEFINE y == [batch[b] EXCEPT !.status = "queued", !.token = 0, !.due = FALSE]
    <3>1. batch'[b] = y  BY <1>4, <2>1, <2>2
    <3>2. y \in Batch /\ y.status = "queued" /\ y.token = 0 /\ y.count = batch[b].count
          BY <1>1, NoJobType DEF Batch
    <3> HIDE DEF y
    <3>3. BatchOK(y, rows[b], audits[b])  BY <1>1, <2>2, <3>2, HandedOK
    <3>4. QED  BY <1>1, <1>6, <2>1, <2>2, <3>1, <3>2, <3>3
  <2>3. CASE batch[b].status # "processing"
        BY <1>1, <1>4, <1>6, <2>1, <2>3
  <2>4. QED  BY <2>2, <2>3
<1>7. CASE b = c
  <2>1. batch[b].status \in {"queued", "processing"}  BY <1>1, <1>7 DEF Inv, ClaimOK
  <2>2. ~ExpiredPreview(b)  BY <2>1 DEF ExpiredPreview
  <2> DEFINE y == [Requeued[b] EXCEPT !.status = "processing", !.due = FALSE, !.token = FreshToken]
  <2>3. batch'[b] = y /\ rows'[b] = rows[b]
    <3> DEFINE g == Cleaned(Requeued)
    <3>1. DOMAIN g = Batches /\ g[b] = Requeued[b] /\ rows'[b] = rows[b]
          BY <2>2 DEF Cleaned, CleanedRows
    <3>2. batch' = [g EXCEPT ![c].status = "processing", ![c].due = FALSE, ![c].token = FreshToken]
          OBVIOUS
    <3> HIDE DEF g
    <3>3. batch'[b] = [g[b] EXCEPT !.status = "processing", !.due = FALSE, !.token = FreshToken]
          BY <1>7, <3>1, <3>2
    <3>4. QED  BY <3>1, <3>3
  <2>4. Requeued[b] \in Batch /\ Requeued[b].count = batch[b].count
        BY <1>1, <1>4, NoJobType DEF Batch
  <2>5. y \in Batch /\ y.status = "processing" /\ y.token = FreshToken /\ y.count = batch[b].count
        BY <1>2, <2>4 DEF Batch
  <2>6. BatchOK(y, rows[b], audits[b])
    <3> HIDE DEF y
    <3>1. QED  BY <1>1, <1>2, <2>1, <2>5, HandedOK
  <2>7. QED
    <3> HIDE DEF y
    <3>1. QED  BY <1>1, <1>7, <2>3, <2>5, <2>6
<1>8. QED  BY <1>5, <1>6, <1>7

LEMMA ClaimCommitInv ==
    ASSUME Inv, NEW w \in Workers, claimBatchCommit(w)
    PROVE  Inv'
<1> DEFINE c == job[w].batch
<1>1. CASE ~IndexAdmits(w)
  <2>1. /\ UNCHANGED <<batch, rows, points, audits, leader, left, blamed, faults, edits>>
        /\ job' = [job EXCEPT ![w] = NoJob] /\ At(w, "idle") /\ held' = [held EXCEPT ![w] = {}]
        BY <1>1 DEF claimBatchCommit
  <2>2. Types'  BY <2>1, NoJobType DEF At, Inv, Types
  <2>3. QED  BY <2>1, <2>2, MovesInv
<1>2. CASE IndexAdmits(w)
  <2>1. /\ pc[w] = "claiming"
        /\ batch' = [Cleaned(Requeued) EXCEPT ![job[w].batch].status = "processing",
                        ![job[w].batch].due = FALSE, ![job[w].batch].token = FreshToken]
        /\ rows' = CleanedRows /\ job' = [job EXCEPT ![w].token = FreshToken]
        /\ pc' = [pc EXCEPT ![w] = "bulk"] /\ held' = [held EXCEPT ![w] = {}]
        /\ UNCHANGED <<points, audits, leader, left, blamed, faults, edits>>
        BY <1>2 DEF claimBatchCommit, At
  <2>2. c \in held[w] /\ c \in Batches /\ job[w].token = 0  BY <2>1 DEF Inv, ClaimOK, Types
  <2>3. /\ FreshToken \in Token /\ FreshToken # 0
        /\ \A v \in Workers : job[v].token # FreshToken
        BY <2>2, FreshOK
  <2>4. \A b \in Batches :
           /\ batch'[b] \in Batch /\ rows'[b] \in [RowNumbers -> Row] \cup {<<>>}
           /\ BatchOK(batch'[b], rows'[b], audits'[b])
           /\ b = c => batch'[b].status = "processing" /\ batch'[b].token = FreshToken
           /\ b # c => batch'[b].status # "processing"
           /\ batch[b].status = "queued" /\ b # c => batch'[b] = batch[b]
        BY <1>2, <2>1, ClaimedTables
  <2>5. /\ pc'[w] = "bulk" /\ job'[w] = [batch |-> c, token |-> FreshToken] /\ held'[w] = {}
        /\ \A v \in Workers \ {w} : pc'[v] = pc[v] /\ job'[v] = job[v] /\ held'[v] = held[v]
        BY <2>1 DEF Inv, Types
  <2>6. Types'
    <3>1. DOMAIN batch' = Batches /\ DOMAIN rows' = Batches
          BY <2>1 DEF Cleaned, CleanedRows
    <3>2. batch' \in [Batches -> Batch]
      <4>1. batch' = [b \in Batches |-> batch'[b]]  BY <2>1, <3>1 DEF Cleaned
      <4>2. QED  BY <2>4, <4>1
    <3>3. rows' \in [Batches -> [RowNumbers -> Row] \cup {<<>>}]
      <4>1. rows' = [b \in Batches |-> rows'[b]]  BY <2>1, <3>1 DEF CleanedRows
      <4>2. QED  BY <2>4, <4>1
    <3>4. job' \in [Workers -> [batch: Batches \cup {NoBatch}, token: Token]]
          BY <2>1, <2>3 DEF Inv, Types
    <3>5. pc' \in [Workers -> {"down", "passive", "idle", "claiming"} \cup InBatch]
          BY <2>1 DEF InBatch, Inv, Types
    <3>6. held' \in [Workers -> SUBSET Batches]  BY <2>1 DEF Inv, Types
    <3>7. QED  BY <2>1, <3>2, <3>3, <3>4, <3>5, <3>6 DEF Inv, Types
  <2>7. OneProcessing'  BY <2>4 DEF OneProcessing
  <2>8. LocksApart'  BY <2>5 DEF LocksApart, Inv
  <2>9. TokensApart'  BY <2>3, <2>5 DEF TokensApart, Inv
  <2>10. ASSUME NEW v \in Workers PROVE ClaimOK(v)' /\ FailingOK(v)'
    <3>1. CASE v = w  BY <2>5, <3>1 DEF ClaimOK, FailingOK
    <3>2. CASE v # w
      <4>1. ~Owns(v)'
        <5>1. job'[v] = job[v] /\ job[v].token # FreshToken  BY <2>3, <2>5, <3>2
        <5>2. job[v].batch # NoBatch => job[v].batch \in Batches  BY DEF Inv, Types
        <5>3. QED  BY <2>4, <5>1, <5>2 DEF Owns
      <4>2. ASSUME NEW b \in held[v] PROVE batch'[b] = batch[b]
        <5>1. b \in Batches /\ b \notin held[w]  BY <3>2 DEF Inv, LocksApart, Types
        <5>2. batch[b].status = "queued"  BY <1>2, <5>1 DEF Inv, ClaimOK, IndexAdmits, With
        <5>3. QED  BY <2>2, <2>4, <5>1, <5>2
      <4>3. QED  BY <2>1, <2>5, <3>2, <4>1, <4>2, WorkerFrame
    <3>3. QED  BY <3>1, <3>2
  <2>11. QED  BY <2>1, <2>4, <2>6, <2>7, <2>8, <2>9, <2>10 DEF Inv
<1>3. QED  BY <1>1, <1>2

-----------------------------------------------------------------------------
(* Preview, confirmation, cleanup and deadlines.                           *)

LEMMA AdminKeeps ==
    ASSUME Inv, Types', UNCHANGED <<audits, pc, job, left, held, blamed>>,
           \A b \in Batches :
              /\ BatchOK(batch'[b], rows'[b], audits'[b])
              /\ batch'[b].status = "processing" => batch[b].status = "processing"
              /\ batch[b].status \in {"queued", "processing"} =>
                    /\ rows'[b] = rows[b] /\ batch'[b].status = batch[b].status
                    /\ batch'[b].token = batch[b].token /\ (batch[b].due => batch'[b].due)
    PROVE  Inv'
<1>1. OneProcessing' /\ LocksApart' /\ TokensApart'
      BY DEF OneProcessing, LocksApart, TokensApart, Inv
<1>2. ASSUME NEW v \in Workers PROVE ClaimOK(v)' /\ FailingOK(v)'
  <2>1. \A b \in held[v] : batch'[b].status = batch[b].status /\ (batch[b].due => batch'[b].due)
        BY DEF Inv, ClaimOK, Types
  <2>2. Owns(v)' => Owns(v) /\ rows'[job[v].batch] = rows[job[v].batch]
    <3>1. job[v].batch # NoBatch => job[v].batch \in Batches  BY DEF Inv, Types
    <3>2. QED  BY <3>1 DEF Owns
  <2>3. QED  BY <2>1, <2>2, WorkerFrame
<1>3. QED  BY <1>1, <1>2 DEF Inv

\* The cleanup of expired previews, which comes first in all of these.
LEMMA CleanedOK ==
    ASSUME Inv, NEW b \in Batches
    PROVE  /\ Cleaned(batch)[b] \in Batch /\ CleanedRows[b] \in [RowNumbers -> Row] \cup {<<>>}
           /\ BatchOK(Cleaned(batch)[b], CleanedRows[b], audits[b])
           /\ ~ExpiredPreview(b) => Cleaned(batch)[b] = batch[b] /\ CleanedRows[b] = rows[b]
           /\ Cleaned(batch)[b].status = "processing" => batch[b].status = "processing"
<1>1. /\ batch[b] \in Batch /\ rows[b] \in [RowNumbers -> Row] \cup {<<>>}
      /\ BatchOK(batch[b], rows[b], audits[b])
      BY DEF Inv, Types
<1>2. CASE ExpiredPreview(b)
  <2>1. Cleaned(batch)[b] = Absent /\ CleanedRows[b] = <<>>  BY <1>2 DEF Cleaned, CleanedRows
  <2>2. \A n \in RowNumbers : audits[b][n] = 0  BY <1>1, <1>2 DEF ExpiredPreview, BatchOK
  <2>3. BatchOK(Absent, <<>>, audits[b]) /\ Absent \in Batch  BY <2>2, AbsentOK
  <2>4. QED  BY <1>2, <2>1, <2>3 DEF Absent
<1>3. CASE ~ExpiredPreview(b)  BY <1>1, <1>3 DEF Cleaned, CleanedRows
<1>4. QED  BY <1>2, <1>3

LEMMA CleanedDomain ==
    /\ DOMAIN Cleaned(batch) = Batches /\ DOMAIN CleanedRows = Batches
    /\ Cleaned(batch) = [b \in Batches |-> Cleaned(batch)[b]]
    /\ CleanedRows = [b \in Batches |-> CleanedRows[b]]
BY DEF Cleaned, CleanedRows

LEMMA CleanupInv ==
    ASSUME Inv, cleanupExpiredPreviews
    PROVE  Inv'
<1>1. /\ batch' = Cleaned(batch) /\ rows' = CleanedRows
      /\ UNCHANGED <<points, audits, leader, pc, job, left, held, blamed, faults, edits>>
      BY DEF cleanupExpiredPreviews
<1>2. batch' \in [Batches -> Batch]  BY <1>1, CleanedOK, CleanedDomain
<1>3. rows' \in [Batches -> [RowNumbers -> Row] \cup {<<>>}]  BY <1>1, CleanedOK, CleanedDomain
<1>4. Types'  BY <1>1, <1>2, <1>3 DEF Inv, Types
<1>5. \A b \in Batches : batch[b].status \in {"queued", "processing"} => ~ExpiredPreview(b)
      BY DEF ExpiredPreview
<1>6. QED  BY <1>1, <1>4, <1>5, CleanedOK, AdminKeeps

LEMMA PreviewInv ==
    ASSUME Inv, NEW b \in Batches, buildImportPreview(b)
    PROVE  Inv'
<1> DEFINE g == Cleaned(batch)
           h == CleanedRows
<1>1. PICK f \in PreviewRows : rows' = [h EXCEPT ![b] = f]  BY DEF buildImportPreview
<1>2. /\ batch[b].status = "none" /\ batch' = [g EXCEPT ![b].status = "preview"]
      /\ UNCHANGED <<points, audits, leader, pc, job, left, held, blamed, faults, edits>>
      BY DEF buildImportPreview
<1>3. \A c \in Batches :
         /\ g[c] \in Batch /\ h[c] \in [RowNumbers -> Row] \cup {<<>>}
         /\ BatchOK(g[c], h[c], audits[c])
         /\ ~ExpiredPreview(c) => g[c] = batch[c] /\ h[c] = rows[c]
         /\ g[c].status = "processing" => batch[c].status = "processing"
      BY CleanedOK
<1>4. ~ExpiredPreview(b)  BY <1>2 DEF ExpiredPreview
<1>5. DOMAIN g = Batches /\ DOMAIN h = Batches /\ g = [c \in Batches |-> g[c]] /\ h = [c \in Batches |-> h[c]]
      BY CleanedDomain
<1>6. batch[b] \in Batch /\ batch[b].token = 0 /\ \A n \in RowNumbers : audits[b][n] = 0
      BY <1>2 DEF Inv, Types, BatchOK
<1> HIDE DEF g, h
<1>7. /\ batch'[b] = [batch[b] EXCEPT !.status = "preview"] /\ rows'[b] = f
      /\ \A c \in Batches \ {b} : batch'[c] = g[c] /\ rows'[c] = h[c]
      BY <1>1, <1>2, <1>3, <1>4, <1>5
<1>8. batch'[b] \in Batch /\ batch'[b].status = "preview" /\ batch'[b].token = 0
      BY <1>6, <1>7 DEF Batch
<1>9. BatchOK(batch'[b], f, audits[b]) /\ f \in [RowNumbers -> Row]  BY <1>6, <1>8, PreviewOK
<1>10. Types'
  <2>1. batch' \in [Batches -> Batch]
    <3>1. batch' = [c \in Batches |-> batch'[c]]  BY <1>2, <1>5
    <3>2. QED  BY <1>3, <1>7, <1>8, <3>1
  <2>2. rows' \in [Batches -> [RowNumbers -> Row] \cup {<<>>}]
        BY <1>1, <1>3, <1>5, <1>9
  <2>3. QED  BY <1>2, <2>1, <2>2 DEF Inv, Types
<1>11. \A c \in Batches : batch[c].status \in {"queued", "processing"} => ~ExpiredPreview(c) /\ c # b
       BY <1>2 DEF ExpiredPreview
<1>12. QED
  <2>1. ASSUME NEW c \in Batches
        PROVE  /\ BatchOK(batch'[c], rows'[c], audits'[c])
               /\ batch'[c].status = "processing" => batch[c].status = "processing"
               /\ batch[c].status \in {"queued", "processing"} =>
                     /\ rows'[c] = rows[c] /\ batch'[c].status = batch[c].status
                     /\ batch'[c].token = batch[c].token /\ (batch[c].due => batch'[c].due)
        BY <1>2, <1>3, <1>7, <1>8, <1>9, <1>11
  <2>2. QED  BY <1>2, <1>10, <2>1, AdminKeeps

LEMMA ConfirmInv ==
    ASSUME Inv, NEW b \in Batches, NEW allowUpdate \in BOOLEAN, confirmImport(b, allowUpdate)
    PROVE  Inv'
<1> DEFINE g == Cleaned(batch)
           h == CleanedRows
           x == batch[b]
           y == Confirmed(b, allowUpdate)
<1>1. /\ batch[b].status = "preview" /\ ~batch[b].due /\ batch' = [g EXCEPT ![b] = y] /\ rows' = h
      /\ UNCHANGED <<points, audits, leader, pc, job, left, held, blamed, faults, edits>>
      BY DEF confirmImport, MayConfirm
<1>2. \A c \in Batches :
         /\ g[c] \in Batch /\ h[c] \in [RowNumbers -> Row] \cup {<<>>}
         /\ BatchOK(g[c], h[c], audits[c])
         /\ ~ExpiredPreview(c) => g[c] = batch[c] /\ h[c] = rows[c]
         /\ g[c].status = "processing" => batch[c].status = "processing"
      BY CleanedOK
<1>3. ~ExpiredPreview(b)  BY <1>1 DEF ExpiredPreview
<1>4. DOMAIN g = Batches /\ DOMAIN h = Batches /\ g = [c \in Batches |-> g[c]] /\ h = [c \in Batches |-> h[c]]
      BY CleanedDomain
<1>5. /\ x \in Batch /\ x.token = 0 /\ rows[b] \in [RowNumbers -> Row] \cup {<<>>}
      /\ BatchOK(x, rows[b], audits[b])
      BY <1>1 DEF Inv, Types, BatchOK
<1>6. Cardinality({c \in Batches : batch[c].ticket > 0}) + 1 \in Nat
  <2>1. IsFiniteSet({c \in Batches : batch[c].ticket > 0})  BY Assumption, FS_Subset
  <2>2. QED  BY <2>1, FS_CardinalityType
<1>7. /\ y.status = "queued" /\ y.token = 0
      /\ y.count = [[o \in Outcomes |-> Cardinality(RowsWith(rows[b], o))]
                       EXCEPT !["created"] = 0, !["updated"] = 0, !["unchanged"] = 0]
      BY <1>5 DEF Confirmed, Batch, Counted, RowsWith
<1>8. BatchOK(y, rows[b], audits[b]) /\ y.count \in [Outcomes -> Nat]
      BY <1>1, <1>5, <1>7, ConfirmOK
<1>9. y \in Batch
  <2> DEFINE t == Cardinality({c \in Batches : batch[c].ticket > 0}) + 1
             k == [Counted(b) EXCEPT !["created"] = 0, !["updated"] = 0, !["unchanged"] = 0]
  <2>1. y = [x EXCEPT !.status = "queued", !.update = allowUpdate, !.due = FALSE, !.ticket = t, !.count = k]
        BY DEF Confirmed
  <2>2. t \in Nat  BY <1>6
  <2>3. k \in [Outcomes -> Nat]  BY <1>5, <1>8, <2>1 DEF Batch
  <2> HIDE DEF t, k, x, y
  <2>4. QED  BY <1>5, <2>1, <2>2, <2>3 DEF Batch
<1> HIDE DEF g, h, y
<1>10. /\ batch'[b] = y /\ rows'[b] = rows[b]
       /\ \A c \in Batches \ {b} : batch'[c] = g[c] /\ rows'[c] = h[c]
       BY <1>1, <1>2, <1>3, <1>4
<1>11. Types'
  <2>1. batch' \in [Batches -> Batch]  BY <1>1, <1>2, <1>4, <1>9
  <2>2. rows' \in [Batches -> [RowNumbers -> Row] \cup {<<>>}]  BY <1>1, <1>2, <1>4
  <2>3. QED  BY <1>1, <2>1, <2>2 DEF Inv, Types
<1>12. \A c \in Batches : batch[c].status \in {"queued", "processing"} => ~ExpiredPreview(c) /\ c # b
       BY <1>1 DEF ExpiredPreview
<1>13. ASSUME NEW c \in Batches
       PROVE  /\ BatchOK(batch'[c], rows'[c], audits'[c])
              /\ batch'[c].status = "processing" => batch[c].status = "processing"
              /\ batch[c].status \in {"queued", "processing"} =>
                    /\ rows'[c] = rows[c] /\ batch'[c].status = batch[c].status
                    /\ batch'[c].token = batch[c].token /\ (batch[c].due => batch'[c].due)
       BY <1>1, <1>2, <1>7, <1>8, <1>10, <1>12
<1>14. QED  BY <1>1, <1>11, <1>13, AdminKeeps

LEMMA DeadlineInv ==
    ASSUME Inv, NEW b \in Batches, deadlinePasses(b)
    PROVE  Inv'
<1> DEFINE y == [batch[b] EXCEPT !.due = TRUE]
<1>1. /\ batch[b].status \in {"preview", "processing"} /\ batch' = [batch EXCEPT ![b].due = TRUE]
      /\ UNCHANGED <<rows, points, audits, leader, pc, job, left, held, blamed, faults, edits>>
      BY DEF deadlinePasses
<1>2. batch[b] \in Batch /\ BatchOK(batch[b], rows[b], audits[b]) /\ batch \in [Batches -> Batch]
      BY DEF Inv, Types
<1>3. batch'[b] = y /\ \A c \in Batches \ {b} : batch'[c] = batch[c]  BY <1>1, <1>2
<1>4. /\ y \in Batch /\ y.status = batch[b].status /\ y.token = batch[b].token
      /\ y.count = batch[b].count /\ y.due
      BY <1>2 DEF Batch
<1> HIDE DEF y
<1>5. BatchOK(y, rows[b], audits[b])  BY <1>2, <1>4 DEF BatchOK
<1>6. Types'
  <2>1. batch' \in [Batches -> Batch]  BY <1>1, <1>2, <1>3, <1>4
  <2>2. QED  BY <1>1, <2>1 DEF Inv, Types
<1>7. ASSUME NEW c \in Batches
      PROVE  /\ BatchOK(batch'[c], rows'[c], audits'[c])
             /\ batch'[c].status = batch[c].status /\ batch'[c].token = batch[c].token
             /\ rows'[c] = rows[c] /\ (batch[c].due => batch'[c].due)
      BY <1>1, <1>3, <1>4, <1>5 DEF Inv
<1>8. QED  BY <1>1, <1>6, <1>7, AdminKeeps

-----------------------------------------------------------------------------
(* The rows.                                                               *)

LEMMA StatusFacts ==
    ASSUME Inv, NEW b \in Batches
    PROVE  /\ batch[b].status = "processing" <=> batch[b].token # 0
           /\ batch[b].status # "none" => rows[b] \in [RowNumbers -> Row]
<1>1. BatchOK(batch[b], rows[b], audits[b]) /\ rows[b] \in [RowNumbers -> Row] \cup {<<>>}
      BY DEF Inv, Types
<1>2. QED  BY <1>1 DEF BatchOK

\* The owner of a batch changes it: nobody else owns it and nobody has locked it.
LEMMA OwnerKeeps ==
    ASSUME Inv, Types', NEW w \in Workers, Owns(w), ~Locked(job[w].batch), blamed' = blamed,
           \A v \in Workers \ {w} : /\ pc'[v] = pc[v] /\ job'[v] = job[v]
                                    /\ left'[v] = left[v] /\ held'[v] = held[v],
           held'[w] = held[w], job'[w].token \in {0, job[w].token},
           \A c \in Batches \ {job[w].batch} :
               batch'[c] = batch[c] /\ rows'[c] = rows[c] /\ audits'[c] = audits[c],
           batch'[job[w].batch].token \in {0, job[w].token},
           BatchOK(batch'[job[w].batch], rows'[job[w].batch], audits'[job[w].batch]),
           ClaimOK(w)', FailingOK(w)'
    PROVE  Inv'
<1> DEFINE b == job[w].batch
<1>1. /\ b \in Batches /\ batch[b].status = "processing" /\ batch[b].token = job[w].token
      /\ job[w].token # 0
  <2>1. job[w].batch \in Batches  BY DEF Owns, Inv, Types
  <2>2. QED  BY <2>1, StatusFacts DEF Owns
<1>2. \A c \in Batches : BatchOK(batch'[c], rows'[c], audits'[c])  BY DEF Inv
<1>3. OneProcessing'  BY <1>1 DEF OneProcessing, Inv
<1>4. LocksApart' /\ TokensApart'  BY DEF LocksApart, TokensApart, Inv
<1>5. ASSUME NEW v \in Workers PROVE ClaimOK(v)' /\ FailingOK(v)'
  <2>1. CASE v = w  BY <2>1
  <2>2. CASE v # w
    <3>1. \A c \in held[v] : c \in Batches \ {b}  BY DEF Locked, Inv, Types
    <3>2. Owns(v)' => Owns(v) /\ rows'[job[v].batch] = rows[job[v].batch]
      <4> SUFFICES ASSUME Owns(v)' PROVE Owns(v) /\ rows'[job[v].batch] = rows[job[v].batch]
          OBVIOUS
      <4>1. job[v].batch \in Batches /\ job'[v] = job[v]  BY <2>2 DEF Owns, Inv, Types
      <4>2. CASE job[v].batch = b
        <5>1. batch'[b].status = "processing" /\ batch'[b].token = job[v].token
              BY <4>1, <4>2 DEF Owns
        <5>2. batch'[b].token # 0  BY <1>2, <1>1, <5>1 DEF BatchOK
        <5>3. job[v].token = job[w].token  BY <5>1, <5>2
        <5>4. QED  BY <1>1, <2>2, <5>3 DEF TokensApart, Inv
      <4>3. CASE job[v].batch # b  BY <4>1, <4>3 DEF Owns
      <4>4. QED  BY <4>2, <4>3
    <3>3. QED  BY <2>2, <3>1, <3>2, WorkerFrame
  <2>3. QED  BY <2>1, <2>2
<1>6. QED  BY <1>2, <1>3, <1>4, <1>5 DEF Inv

LEMMA OutcomeType ==
    ASSUME Inv, NEW b \in Batches, rows[b] \in [RowNumbers -> Row], NEW n \in RowNumbers
    PROVE  Outcome(b, n) \in {"created", "skipped", "unchanged", "updated"}
<1>1. rows[b][n].key \in Keys  BY DEF Row
<1>2. points[rows[b][n].key] \in {"none", "old", "new"} /\ batch[b].update \in BOOLEAN
      BY <1>1 DEF Inv, Types, Batch
<1>3. QED  BY <1>2 DEF Outcome

\* Rows are selected only by the owner of a batch that nobody has locked.
LEMMA SelectedOK ==
    ASSUME Inv, NEW w \in Workers, NEW limit, NEW n \in Selected(w, limit)
    PROVE  /\ Owns(w) /\ ~Locked(job[w].batch) /\ job[w].batch \in Batches
           /\ Selected(w, limit) \subseteq RowsWith(rows[job[w].batch], "pending")
           /\ rows[job[w].batch] \in [RowNumbers -> Row]
           /\ batch[job[w].batch].status = "processing"
<1>1. Owns(w) /\ ~Locked(job[w].batch)  BY DEF Selected
<1>2. job[w].batch \in Batches /\ batch[job[w].batch].status = "processing"  BY <1>1 DEF Owns, Inv, Types
<1>3. Selected(w, limit) \subseteq RowsWith(rows[job[w].batch], "pending")
      BY DEF Selected, Candidates, Pending, RowsWith
<1>4. rows[job[w].batch] \in [RowNumbers -> Row]  BY <1>2, StatusFacts
<1>5. QED  BY <1>1, <1>2, <1>3, <1>4

LEMMA AcceptedTables ==
    ASSUME Inv, NEW w \in Workers, NEW limit, Accepted(job[w].batch, Selected(w, limit))
    PROVE  /\ Owns(w) /\ ~Locked(job[w].batch) /\ job[w].batch \in Batches
           /\ batch' \in [Batches -> Batch]
           /\ rows' \in [Batches -> [RowNumbers -> Row] \cup {<<>>}]
           /\ points' \in [Keys -> {"none", "old", "new"}]
           /\ audits' \in [Batches -> [RowNumbers -> Nat]]
           /\ edits' = edits
           /\ \A c \in Batches \ {job[w].batch} :
                 batch'[c] = batch[c] /\ rows'[c] = rows[c] /\ audits'[c] = audits[c]
           /\ batch'[job[w].batch].token = batch[job[w].batch].token
           /\ BatchOK(batch'[job[w].batch], rows'[job[w].batch], audits'[job[w].batch])
<1> DEFINE b == job[w].batch
           sel == Selected(w, limit)
           out == [n \in sel |-> Outcome(b, n)]
           rt == [n \in RowNumbers |-> IF n \in sel THEN [rows[b][n] EXCEPT !.outcome = out[n]] ELSE rows[b][n]]
           av == [n \in RowNumbers |-> IF n \in sel /\ out[n] \in Mutating THEN audits[b][n] + 1 ELSE audits[b][n]]
           k == [o \in Outcomes |-> batch[b].count[o] + Cardinality({n \in sel : out[n] = o})]
           y == [batch[b] EXCEPT !.count = k, !.due = FALSE]
<1>1. /\ Owns(w) /\ ~Locked(b) /\ b \in Batches /\ sel \subseteq RowsWith(rows[b], "pending")
      /\ rows[b] \in [RowNumbers -> Row] /\ batch[b].status = "processing"
      BY SelectedOK DEF Accepted
<1>2. DOMAIN rows[b] = RowNumbers /\ sel \subseteq RowNumbers  BY <1>1 DEF RowsWith
<1>3. out \in [sel -> Outcomes]
  <2>1. \A n \in sel : Outcome(b, n) \in Outcomes  BY <1>1, <1>2, OutcomeType DEF Outcomes
  <2>2. QED  BY <2>1
<1>4. /\ batch[b] \in Batch /\ audits[b] \in [RowNumbers -> Nat] /\ BatchOK(batch[b], rows[b], audits[b])
      /\ batch \in [Batches -> Batch] /\ rows \in [Batches -> [RowNumbers -> Row] \cup {<<>>}]
      /\ audits \in [Batches -> [RowNumbers -> Nat]]
      BY <1>1 DEF Inv, Types
<1>5. rows' = [rows EXCEPT ![b] = rt]  BY <1>2 DEF Accepted, Applies
<1>6. audits' = [audits EXCEPT ![b] = av]  BY DEF Accepted, Applies
<1>7. batch' = [batch EXCEPT ![b] = y]
  <2>1. \A o \in Outcomes : {n \in sel : Outcome(b, n) = o} = {n \in sel : out[n] = o}  OBVIOUS
  <2>2. k = [o \in Outcomes |-> batch[b].count[o] + Cardinality({n \in sel : Outcome(b, n) = o})]
        BY <2>1
  <2>3. QED  BY <2>2 DEF Accepted, Applies
<1>8. points' \in [Keys -> {"none", "old", "new"}] /\ edits' = edits
      BY DEF Accepted, Applies, Inv, Types
<1>9. rt \in [RowNumbers -> Row] /\ \A n \in RowNumbers : rt[n].outcome = IF n \in sel THEN out[n] ELSE rows[b][n].outcome
  <2> HIDE DEF sel, out
  <2>1. \A n \in RowNumbers : rows[b][n] \in Row  BY <1>1
  <2>2. \A n \in sel : [rows[b][n] EXCEPT !.outcome = out[n]] \in Row
                       /\ [rows[b][n] EXCEPT !.outcome = out[n]].outcome = out[n]
        BY <1>2, <1>3, <2>1 DEF Row
  <2>3. QED  BY <2>1, <2>2
<1>10. av \in [RowNumbers -> Nat]  BY <1>4
<1>11. y.status = "processing" /\ y.token = batch[b].token /\ y.count = k /\ y.due = FALSE
       BY <1>1, <1>4 DEF Batch
<1>12. BatchOK(y, rt, av) /\ y.count \in [Outcomes -> Nat]
  <2>1. GivenAudits(av, audits[b], sel, out) /\ GivenRows(rt, rows[b], sel, out)
        BY <1>9 DEF GivenAudits, GivenRows
  <2>2. y.count = Grown(batch[b].count, sel, out)  BY <1>11 DEF Grown
  <2>3. sel \in SUBSET RowsWith(rows[b], "pending")  BY <1>1
  <2> HIDE DEF sel, out, rt, av, y, k, b
  <2>4. QED  BY <1>1, <1>3, <1>4, <1>9, <1>11, <2>1, <2>2, <2>3, ApplyOK
<1>13. y \in Batch
  <2>1. k \in [Outcomes -> Nat]  BY <1>11, <1>12
  <2> HIDE DEF k
  <2>2. QED  BY <1>4, <2>1 DEF Batch
<1> HIDE DEF rt, av, y
<1>14. batch'[b] = y /\ rows'[b] = rt /\ audits'[b] = av  BY <1>1, <1>4, <1>5, <1>6, <1>7
<1>15. batch' \in [Batches -> Batch]  BY <1>4, <1>7, <1>13
<1>16. rows' \in [Batches -> [RowNumbers -> Row] \cup {<<>>}]  BY <1>4, <1>5, <1>9
<1>17. audits' \in [Batches -> [RowNumbers -> Nat]]  BY <1>4, <1>6, <1>10
<1>18. \A c \in Batches \ {b} : batch'[c] = batch[c] /\ rows'[c] = rows[c] /\ audits'[c] = audits[c]
       BY <1>4, <1>5, <1>6, <1>7
<1>19. QED  BY <1>1, <1>8, <1>11, <1>12, <1>14, <1>15, <1>16, <1>17, <1>18

\* An accepted statement, in bulk or for one row of the replay.
LEMMA AcceptedInv ==
    ASSUME Inv, NEW w \in Workers, NEW limit, Accepted(job[w].batch, Selected(w, limit)),
           NEW place \in {"bulk", "replay"}, pc[w] = place, At(w, place),
           UNCHANGED <<leader, job, held, blamed, faults>>, left' \in [Workers -> 0..ROWS_PER_QUERY],
           \A v \in Workers \ {w} : left'[v] = left[v]
    PROVE  Inv'
<1>1. /\ Owns(w) /\ ~Locked(job[w].batch) /\ job[w].batch \in Batches
      /\ batch' \in [Batches -> Batch]
      /\ rows' \in [Batches -> [RowNumbers -> Row] \cup {<<>>}]
      /\ points' \in [Keys -> {"none", "old", "new"}]
      /\ audits' \in [Batches -> [RowNumbers -> Nat]]
      /\ edits' = edits
      /\ \A c \in Batches \ {job[w].batch} :
            batch'[c] = batch[c] /\ rows'[c] = rows[c] /\ audits'[c] = audits[c]
      /\ batch'[job[w].batch].token = batch[job[w].batch].token
      /\ BatchOK(batch'[job[w].batch], rows'[job[w].batch], audits'[job[w].batch])
      BY AcceptedTables
<1>2. pc' = pc  BY DEF At, Inv, Types
<1>3. Types'  BY <1>1, <1>2 DEF Inv, Types
<1>4. held[w] = {}  BY DEF Inv, ClaimOK
<1>5. ClaimOK(w)' /\ FailingOK(w)'  BY <1>2, <1>4 DEF ClaimOK, FailingOK
<1>6. batch'[job[w].batch].token \in {0, job[w].token}  BY <1>1 DEF Owns
<1>7. QED  BY <1>1, <1>2, <1>3, <1>5, <1>6, OwnerKeeps

\* A refused statement changes nothing of the import; the inventory may have
\* been edited meanwhile.
LEMMA RefusedType ==
    ASSUME Inv, NEW w \in Workers, NEW limit,
           RefusedKnown(job[w].batch, Selected(w, limit))
    PROVE  /\ points' \in [Keys -> {"none", "old", "new"}] /\ edits' \in 0..MaxEdits
           /\ UNCHANGED <<batch, rows, audits>>
           /\ \E n \in Selected(w, limit) : TRUE
<1>1. \E n \in Selected(w, limit) : TRUE  BY DEF RefusedKnown, CreatedMeanwhile, Refused
<1>2. edits' \in 0..MaxEdits  BY Assumption DEF RefusedKnown, CreatedMeanwhile, Inv, Types
<1>3. points' \in [Keys -> {"none", "old", "new"}]
      BY DEF RefusedKnown, CreatedMeanwhile, Inv, Types
<1>4. QED  BY <1>1, <1>2, <1>3 DEF RefusedKnown

LEMMA BulkInv ==
    ASSUME Inv, NEW w \in Workers, processImportRows(w)
    PROVE  Inv'
<1> DEFINE b == job[w].batch
           selected == Selected(w, ROWS_PER_QUERY)
<1>1. pc[w] = "bulk" /\ UNCHANGED <<leader, job, held, blamed, faults>>  BY DEF processImportRows
<1>2. ROWS_PER_QUERY \in 0..ROWS_PER_QUERY  BY Assumption
<1>3. CASE Accepted(b, selected) /\ At(w, "bulk") /\ UNCHANGED left
  <2>1. left' \in [Workers -> 0..ROWS_PER_QUERY]  BY <1>3 DEF Inv, Types
  <2>2. QED  BY <1>1, <1>3, <2>1, AcceptedInv
<1>4. CASE Untouched /\ At(w, "completing") /\ UNCHANGED left
  <2>1. Types'  BY <1>1, <1>4 DEF Untouched, At, InBatch, Inv, Types
  <2>2. QED  BY <1>1, <1>4, <2>1, MovesInv DEF Untouched
<1>5. CASE RefusedKnown(b, selected) /\ At(w, "replay") /\ left' = [left EXCEPT ![w] = ROWS_PER_QUERY]
  <2>1. /\ points' \in [Keys -> {"none", "old", "new"}] /\ edits' \in 0..MaxEdits
        /\ UNCHANGED <<batch, rows, audits>>
        BY <1>5, RefusedType
  <2>2. left' \in [Workers -> 0..ROWS_PER_QUERY]  BY <1>2, <1>5 DEF Inv, Types
  <2>3. Types'  BY <1>1, <1>5, <2>1, <2>2 DEF At, InBatch, Inv, Types
  <2>4. QED  BY <1>1, <1>2, <1>5, <2>1, <2>3, MovesInv
<1>6. CASE RefusedUnknown(b, selected) /\ At(w, "idle") /\ UNCHANGED left
  <2>1. Types'  BY <1>1, <1>6 DEF RefusedUnknown, At, Inv, Types
  <2>2. QED  BY <1>1, <1>6, <2>1, MovesInv DEF RefusedUnknown
<1>7. QED  BY <1>3, <1>4, <1>5, <1>6 DEF processImportRows

\* The replay blames the first pending row, which is the one it selects.
LEMMA BlamedInv ==
    ASSUME Inv, NEW w \in Workers, pc[w] = "replay", left[w] > 0,
           RefusedKnown(job[w].batch, Selected(w, 1)),
           blamed' = blamed \cup {<<job[w].batch, n>> : n \in Selected(w, 1)},
           At(w, "failing"), UNCHANGED <<left, leader, job, held, faults>>
    PROVE  Inv'
<1> DEFINE b == job[w].batch
<1>1. /\ points' \in [Keys -> {"none", "old", "new"}] /\ edits' \in 0..MaxEdits
      /\ UNCHANGED <<batch, rows, audits>>
      BY RefusedType
<1>2. PICK n \in Selected(w, 1) : TRUE  BY RefusedType
<1>3. /\ Owns(w) /\ ~Locked(b) /\ b \in Batches /\ rows[b] \in [RowNumbers -> Row]
      /\ Selected(w, 1) \subseteq RowsWith(rows[b], "pending")
      BY <1>2, SelectedOK
<1>4. Selected(w, 1) \subseteq RowNumbers  BY <1>3 DEF RowsWith
<1>5. Types'
  <2>1. blamed' \subseteq Batches \X RowNumbers  BY <1>3, <1>4 DEF Inv, Types
  <2>2. QED  BY <1>1, <2>1 DEF At, InBatch, Inv, Types
<1>6. pc'[w] = "failing" /\ \A v \in Workers \ {w} : pc'[v] = pc[v]  BY DEF At, Inv, Types
<1>7. ASSUME NEW k \in Pending(b), \A m \in Pending(b) : k <= m
      PROVE  <<b, k>> \in blamed'
  <2>1. Pending(b) \subseteq Nat /\ DOMAIN rows[b] = RowNumbers
    <3>1. DOMAIN rows[b] = RowNumbers  BY <1>3
    <3>2. RowNumbers \subseteq Nat  BY DEF RowNumbers
    <3>3. QED  BY <3>1, <3>2 DEF Pending
  <2>2. {m \in Candidates(b) : m < k} = {}  BY <1>7, <2>1 DEF Candidates
  <2>3. Cardinality({m \in Candidates(b) : m < k}) < 1  BY <2>2, FS_EmptySet
  <2>4. k \in Selected(w, 1)  BY <1>3, <1>7, <2>3 DEF Selected, Candidates
  <2>5. QED  BY <2>4
<1>8. ClaimOK(w)'  BY <1>6 DEF ClaimOK, Inv
<1>9. FailingOK(w)'
  <2>1. Pending(b)' = Pending(b)  BY <1>1 DEF Pending
  <2>2. QED  BY <1>7, <2>1 DEF FailingOK
<1>10. QED  BY <1>1, <1>5, <1>6, <1>8, <1>9, QuietKeeps

LEMMA ReplayInv ==
    ASSUME Inv, NEW w \in Workers, replayRow(w)
    PROVE  Inv'
<1> DEFINE b == job[w].batch
           selected == Selected(w, 1)
<1>1. pc[w] = "replay" /\ UNCHANGED <<leader, job, held, faults>>  BY DEF replayRow
<1>2. left[w] \in 0..ROWS_PER_QUERY  BY DEF Inv, Types
<1>3. CASE /\ left[w] > 0 /\ Accepted(b, selected)
           /\ left' = [left EXCEPT ![w] = @ - 1] /\ At(w, "replay") /\ UNCHANGED blamed
  <2>1. left[w] - 1 \in 0..ROWS_PER_QUERY  BY <1>2, <1>3, Assumption
  <2>2. /\ left' \in [Workers -> 0..ROWS_PER_QUERY]
        /\ \A v \in Workers \ {w} : left'[v] = left[v]
        BY <1>3, <2>1 DEF Inv, Types
  <2>3. QED  BY <1>1, <1>3, <2>2, AcceptedInv
<1>4. CASE Untouched /\ At(w, "bulk") /\ UNCHANGED <<left, blamed>>
  <2>1. Types'  BY <1>1, <1>4 DEF Untouched, At, InBatch, Inv, Types
  <2>2. QED  BY <1>1, <1>4, <2>1, MovesInv DEF Untouched
<1>5. CASE /\ left[w] > 0 /\ RefusedKnown(b, selected)
           /\ blamed' = blamed \cup {<<b, n>> : n \in selected}
           /\ At(w, "failing") /\ UNCHANGED left
      BY <1>1, <1>5, BlamedInv
<1>6. CASE RefusedUnknown(b, selected) /\ At(w, "idle") /\ UNCHANGED <<left, blamed>>
  <2>1. Types'  BY <1>1, <1>6 DEF RefusedUnknown, At, Inv, Types
  <2>2. QED  BY <1>1, <1>6, <2>1, MovesInv DEF RefusedUnknown
<1>7. QED  BY <1>3, <1>4, <1>5, <1>6 DEF replayRow

\* A failed row: one pending row less, one failure more.
LEMMA FailedTables ==
    ASSUME Inv, NEW b \in Batches, batch[b].status = "processing", NEW n \in Pending(b),
           rows' = [rows EXCEPT ![b][n].outcome = "failed"],
           batch' = [batch EXCEPT ![b].count["failed"] = @ + 1, ![b].due = FALSE], audits' = audits
    PROVE  /\ batch' \in [Batches -> Batch]
           /\ rows' \in [Batches -> [RowNumbers -> Row] \cup {<<>>}]
           /\ \A c \in Batches \ {b} : batch'[c] = batch[c] /\ rows'[c] = rows[c]
           /\ batch'[b].token = batch[b].token
           /\ BatchOK(batch'[b], rows'[b], audits'[b])
<1> DEFINE sel == {n}
           out == [m \in sel |-> "failed"]
           rt == [rows[b] EXCEPT ![n].outcome = "failed"]
           k == [batch[b].count EXCEPT !["failed"] = @ + 1]
           y == [batch[b] EXCEPT !.count = k, !.due = FALSE]
<1>1. /\ rows[b] \in [RowNumbers -> Row] /\ audits[b] \in [RowNumbers -> Nat] /\ batch[b] \in Batch
      /\ BatchOK(batch[b], rows[b], audits[b]) /\ batch[b].count \in [Outcomes -> Nat]
      BY StatusFacts DEF Inv, Types, Batch
<1>2. n \in RowNumbers /\ sel \in SUBSET RowsWith(rows[b], "pending") /\ rows[b][n] \in Row
      BY <1>1 DEF Pending, RowsWith
<1>3. out \in [sel -> Outcomes]  BY DEF Outcomes
<1>4. rt \in [RowNumbers -> Row] /\ GivenRows(rt, rows[b], sel, out)
  <2>1. [rows[b][n] EXCEPT !.outcome = "failed"] \in Row
        /\ [rows[b][n] EXCEPT !.outcome = "failed"].outcome = "failed"
        BY <1>2 DEF Row, Outcomes
  <2>2. rt = [rows[b] EXCEPT ![n] = [rows[b][n] EXCEPT !.outcome = "failed"]]  OBVIOUS
  <2>3. rt \in [RowNumbers -> Row]  BY <1>1, <2>1, <2>2
  <2>4. \A m \in RowNumbers : rt[m] = IF m = n THEN [rows[b][n] EXCEPT !.outcome = "failed"] ELSE rows[b][m]
        BY <1>1, <2>2
  <2> HIDE DEF rt
  <2>5. QED  BY <2>1, <2>3, <2>4 DEF GivenRows
<1>5. GivenAudits(audits[b], audits[b], sel, out)  BY DEF GivenAudits, Mutating
<1>6. k = Grown(batch[b].count, sel, out) /\ k \in [Outcomes -> Nat]
  <2>0. "failed" \in Outcomes  BY DEF Outcomes
  <2>1. k \in [Outcomes -> Nat]  BY <1>1, <2>0
  <2>2. ASSUME NEW o \in Outcomes PROVE k[o] = batch[b].count[o] + Cardinality({m \in sel : out[m] = o})
    <3>1. CASE o = "failed"
      <4>1. {m \in sel : out[m] = o} = {n}  BY <3>1
      <4>2. Cardinality({n}) = 1  BY FS_Singleton
      <4>3. QED  BY <1>1, <3>1, <4>1, <4>2
    <3>2. CASE o # "failed"
      <4>1. {m \in sel : out[m] = o} = {}  BY <3>2
      <4>2. Cardinality({}) = 0  BY FS_EmptySet
      <4>3. k[o] = batch[b].count[o]  BY <1>1, <3>2
      <4>4. batch[b].count[o] \in Nat  BY <1>1
      <4>5. Cardinality({m \in sel : out[m] = o}) = 0  BY <4>1, <4>2, Zenon
      <4> HIDE DEF k, sel, out
      <4>6. QED  BY <4>3, <4>4, <4>5
    <3>3. QED  BY <3>1, <3>2
  <2> HIDE DEF k
  <2>3. QED  BY <2>1, <2>2 DEF Grown
<1>7. y \in Batch /\ y.status = "processing" /\ y.token = batch[b].token /\ y.count = k
  <2> HIDE DEF k
  <2>1. QED  BY <1>1, <1>6 DEF Batch
<1>8. batch' = [batch EXCEPT ![b] = y] /\ rows' = [rows EXCEPT ![b] = rt]
  <2>1. batch' = [batch EXCEPT ![b] = y]  OBVIOUS
  <2>2. rows' = [rows EXCEPT ![b] = rt]  OBVIOUS
  <2>3. QED  BY <2>1, <2>2
<1> HIDE DEF sel, out, rt, k, y
<1>9. BatchOK(y, rt, audits[b])  BY <1>1, <1>2, <1>3, <1>4, <1>5, <1>6, <1>7, ApplyOK
<1>10. batch'[b] = y /\ rows'[b] = rt /\ \A c \in Batches \ {b} : batch'[c] = batch[c] /\ rows'[c] = rows[c]
       BY <1>8 DEF Inv, Types
<1>11. batch' \in [Batches -> Batch]  BY <1>7, <1>8 DEF Inv, Types
<1>12. rows' \in [Batches -> [RowNumbers -> Row] \cup {<<>>}]  BY <1>4, <1>8 DEF Inv, Types
<1>13. QED  BY <1>7, <1>9, <1>10, <1>11, <1>12

LEMMA FailInv ==
    ASSUME Inv, NEW w \in Workers, failNextPendingRow(w)
    PROVE  Inv'
<1> DEFINE b == job[w].batch
<1>1. /\ pc[w] = "failing" /\ ~Locked(b) /\ left' = [left EXCEPT ![w] = @ - 1] /\ At(w, "replay")
      /\ UNCHANGED <<points, audits, leader, job, held, blamed, faults, edits>>
      BY DEF failNextPendingRow
<1>2. left[w] > 0 /\ left[w] \in 0..ROWS_PER_QUERY /\ ROWS_PER_QUERY \in Nat
      BY <1>1, Assumption DEF Inv, FailingOK, Types
<1>3. left[w] - 1 \in 0..ROWS_PER_QUERY  BY <1>2
<1>4. /\ left' \in [Workers -> 0..ROWS_PER_QUERY]
      /\ \A v \in Workers \ {w} : left'[v] = left[v]
      BY <1>1, <1>3 DEF Inv, Types
<1>5. /\ pc' \in [Workers -> {"down", "passive", "idle", "claiming"} \cup InBatch]
      /\ pc'[w] = "replay" /\ \A v \in Workers \ {w} : pc'[v] = pc[v]
      BY <1>1 DEF At, InBatch, Inv, Types
<1>6. CASE UNCHANGED <<rows, batch>>
  <2>1. Types'  BY <1>1, <1>4, <1>5, <1>6 DEF Inv, Types
  <2>2. left' = [left EXCEPT ![w] = left[w] - 1]  BY <1>1
  <2>3. QED  BY <1>1, <1>3, <1>6, <2>1, <2>2, MovesInv
<1>7. CASE Owns(w) /\ ~UNCHANGED <<rows, batch>>
  <2>1. PICK n \in Pending(b) : rows' = [rows EXCEPT ![b][n].outcome = "failed"]
        BY <1>7 DEF failNextPendingRow
  <2>2. batch' = [batch EXCEPT ![b].count["failed"] = @ + 1, ![b].due = FALSE]
        BY <1>7 DEF failNextPendingRow
  <2>3. b \in Batches /\ batch[b].status = "processing" /\ batch[b].token = job[w].token
        BY <1>7 DEF Owns, Inv, Types
  <2>4. /\ batch' \in [Batches -> Batch]
        /\ rows' \in [Batches -> [RowNumbers -> Row] \cup {<<>>}]
        /\ \A c \in Batches \ {b} : batch'[c] = batch[c] /\ rows'[c] = rows[c]
        /\ batch'[b].token = batch[b].token
        /\ BatchOK(batch'[b], rows'[b], audits'[b])
        BY <1>1, <2>1, <2>2, <2>3, FailedTables
  <2>5. Types'  BY <1>1, <1>4, <1>5, <2>4 DEF Inv, Types
  <2>6. held[w] = {}  BY <1>1 DEF Inv, ClaimOK
  <2>7. ClaimOK(w)' /\ FailingOK(w)'  BY <1>1, <1>5, <2>6 DEF ClaimOK, FailingOK
  <2>8. QED  BY <1>1, <1>4, <1>5, <1>7, <2>3, <2>4, <2>5, <2>7, OwnerKeeps
<1>8. QED  BY <1>6, <1>7 DEF failNextPendingRow

LEMMA CompleteInv ==
    ASSUME Inv, NEW w \in Workers, completeBatch(w)
    PROVE  Inv'
<1> DEFINE b == job[w].batch
<1>1. /\ pc[w] = "completing" /\ ~Locked(b) /\ job' = [job EXCEPT ![w] = NoJob] /\ At(w, "idle")
      /\ UNCHANGED <<rows, points, audits, leader, left, held, blamed, faults, edits>>
      BY DEF completeBatch
<1>2. job' \in [Workers -> [batch: Batches \cup {NoBatch}, token: Token]]
      BY <1>1, NoJobType DEF Inv, Types
<1>3. /\ pc' \in [Workers -> {"down", "passive", "idle", "claiming"} \cup InBatch]
      /\ pc'[w] = "idle" /\ \A v \in Workers \ {w} : pc'[v] = pc[v]
      BY <1>1 DEF At, Inv, Types
<1>4. CASE ~MayComplete(w)
  <2>1. batch' = batch  BY <1>4 DEF completeBatch
  <2>2. Types'  BY <1>1, <1>2, <1>3, <2>1 DEF Inv, Types
  <2>3. QED  BY <1>1, <2>1, <2>2, MovesInv
<1>5. CASE MayComplete(w)
  <2> DEFINE y == Completed(b)
  <2>1. batch' = [batch EXCEPT ![b] = y]  BY <1>5 DEF completeBatch
  <2>2. /\ Owns(w) /\ b \in Batches /\ batch[b].status = "processing" /\ batch[b] \in Batch
        /\ RowsWith(rows[b], "pending") = {} /\ BatchOK(batch[b], rows[b], audits[b])
        BY <1>5 DEF MayComplete, Owns, Pending, RowsWith, Inv, Types
  <2>3. y \in Batch /\ y.status \in Finished /\ y.token = 0 /\ y.count = batch[b].count
        BY <2>2, NoJobType DEF Completed, Batch, Finished
  <2> HIDE DEF y
  <2>4. BatchOK(y, rows[b], audits[b])  BY <2>2, <2>3, CompleteOK
  <2>5. batch'[b] = y /\ \A c \in Batches \ {b} : batch'[c] = batch[c]  BY <2>1, <2>2 DEF Inv, Types
  <2>6. Types'
    <3>1. batch' \in [Batches -> Batch]  BY <2>1, <2>3 DEF Inv, Types
    <3>2. QED  BY <1>1, <1>2, <1>3, <3>1 DEF Inv, Types
  <2>7. held[w] = {}  BY <1>1 DEF Inv, ClaimOK
  <2>8. ClaimOK(w)' /\ FailingOK(w)'  BY <1>1, <1>3, <2>7 DEF ClaimOK, FailingOK
  <2>9. job'[w].token = 0 /\ \A v \in Workers \ {w} : job'[v] = job[v]  BY <1>1 DEF NoJob, Inv, Types
  <2>10. QED  BY <1>1, <1>3, <2>2, <2>3, <2>4, <2>5, <2>6, <2>8, <2>9, OwnerKeeps
<1>6. QED  BY <1>4, <1>5

-----------------------------------------------------------------------------
(* The theorems.                                                           *)

LEMMA InitInv ==
    ASSUME Init
    PROVE  Inv
<1>1. ASSUME NEW b \in Batches
      PROVE  /\ batch[b] = Absent /\ rows[b] = <<>> /\ audits[b] \in [RowNumbers -> Nat]
             /\ BatchOK(batch[b], rows[b], audits[b]) /\ batch[b] \in Batch
  <2>1. batch[b] = Absent /\ rows[b] = <<>> /\ audits[b] = [n \in RowNumbers |-> 0]  BY DEF Init
  <2>2. audits[b] \in [RowNumbers -> Nat] /\ \A n \in RowNumbers : audits[b][n] = 0  BY <2>1
  <2>3. BatchOK(Absent, <<>>, audits[b]) /\ Absent \in Batch  BY <2>2, AbsentOK
  <2>4. QED  BY <2>1, <2>2, <2>3
<1>2. batch \in [Batches -> Batch]  BY <1>1 DEF Init
<1>3. rows \in [Batches -> [RowNumbers -> Row] \cup {<<>>}]  BY DEF Init
<1>4. audits \in [Batches -> [RowNumbers -> Nat]]  BY <1>1 DEF Init
<1>5. Types  BY <1>2, <1>3, <1>4, NoJobType, Assumption DEF Init, Types
<1>6. OneProcessing  BY <1>1 DEF OneProcessing, Absent
<1>7. LocksApart /\ TokensApart  BY DEF Init, LocksApart, TokensApart, NoJob
<1>8. \A w \in Workers : ClaimOK(w) /\ FailingOK(w)  BY DEF Init, ClaimOK, FailingOK
<1>9. QED  BY <1>1, <1>5, <1>6, <1>7, <1>8 DEF Inv

LEMMA StepInv ==
    ASSUME Inv, NEW w \in Workers, Step(w)
    PROVE  Inv'
BY StartInv, ClaimSelectInv, ClaimCommitInv, BulkInv, ReplayInv, FailInv, CompleteInv, Zenon DEF Step

LEMMA NextInv ==
    ASSUME Inv, [Next]_vars
    PROVE  Inv'
<1>1. ASSUME NEW b \in Batches, buildImportPreview(b) PROVE Inv'  BY <1>1, PreviewInv
<1>2. ASSUME NEW b \in Batches, NEW allowUpdate \in BOOLEAN, confirmImport(b, allowUpdate) PROVE Inv'
      BY <1>2, ConfirmInv
<1>3. ASSUME NEW b \in Batches, deadlinePasses(b) PROVE Inv'  BY <1>3, DeadlineInv
<1>4. CASE cleanupExpiredPreviews  BY <1>4, CleanupInv
<1>5. ASSUME NEW w \in Workers, Step(w) PROVE Inv'  BY <1>5, StepInv
<1>6. ASSUME NEW w \in Workers, crash(w) \/ stopImportQueueWorker(w) PROVE Inv'
      BY <1>6, QuitsInv DEF crash, stopImportQueueWorker
<1>7. ASSUME NEW w \in Workers, loseSession(w) PROVE Inv'  BY <1>7, LoseSessionInv
<1>8. ASSUME NEW w \in Workers, databaseError(w) PROVE Inv'  BY <1>8, DatabaseErrorInv
<1>9. ASSUME NEW w \in Workers, confirmedMeanwhile(w) PROVE Inv'  BY <1>9, ConfirmedMeanwhileInv
<1>10. ASSUME NEW k \in Keys, editInventory(k) PROVE Inv'  BY <1>10, EditInv
<1>11. CASE UNCHANGED vars
  <2>1. Types'  BY <1>11 DEF vars, Inv, Types
  <2>2. QED  BY <1>11, <2>1, ElsewhereInv DEF vars
<1>12. QED
       BY <1>1, <1>2, <1>3, <1>4, <1>5, <1>6, <1>7, <1>8, <1>9, <1>10, <1>11, Zenon DEF Next

\* The agreement of every batch with its rows and audit events, and of every
\* process with the batch, the locks and the token it believes it has, holds
\* always: whatever crashes, expires, is edited or is confirmed meanwhile.
THEOREM Inductive == Spec => []Inv
<1>1. Init => Inv  BY InitInv
<1>2. Inv /\ [Next]_vars => Inv'  BY NextInv
<1>3. QED  BY <1>1, <1>2, PTL DEF Spec

\* Rows are applied once, the counters of a batch are its rows, and a finished
\* batch has no pending row, for every number of processes, batches and rows and
\* every number of crashes, lost sessions and edits (importQueueWorker.service.ts).
THEOREM ImportIsSound == Spec => []ImportSound
<1>1. ASSUME Inv PROVE ImportSound
  <2>1. ASSUME NEW b \in Batches
        PROVE  /\ (batch[b].status = "none") = (rows[b] = <<>>)
               /\ (batch[b].status = "processing") = (batch[b].token # 0)
               /\ batch[b].status \in {"queued", "processing"} \cup Finished => batch[b].count = Counted(b)
               /\ \A n \in DOMAIN rows[b] :
                     audits[b][n] = IF rows[b][n].outcome \in Mutating THEN 1 ELSE 0
               /\ batch[b].status \in Finished => Pending(b) = {}
    <3>1. BatchOK(batch[b], rows[b], audits[b])  BY <1>1 DEF Inv
    <3>2. QED  BY <3>1, Zenon DEF BatchOK, RowsWith, Counted, Pending
  <2>2. TypeOK  BY <1>1, <2>1 DEF Inv, Types, TypeOK
  <2>3. CountersExact /\ AppliedOnce /\ FinishedMeansDone
        BY <2>1, Zenon DEF CountersExact, AppliedOnce, FinishedMeansDone
  <2>4. QED  BY <2>2, <2>3 DEF ImportSound
<1>2. QED  BY <1>1, Inductive, PTL

\* What the invariant says of the batches in processing, as a number.
LEMMA OneIsProcessed ==
    ASSUME Inv
    PROVE  SingleProcessing
<1>1. CASE With("processing") = {}
  <2>1. Cardinality(With("processing")) = 0  BY <1>1, FS_EmptySet
  <2>2. QED  BY <2>1 DEF SingleProcessing
<1>2. CASE With("processing") # {}
  <2>1. PICK b : b \in With("processing")  BY <1>2
  <2>2. With("processing") = {b}  BY <2>1 DEF With, Inv, OneProcessing
  <2>3. Cardinality(With("processing")) = 1  BY <2>2, FS_Singleton
  <2>4. QED  BY <2>3 DEF SingleProcessing
<1>3. QED  BY <1>1, <1>2

\* At most one batch is being processed, also while a process that lost its
\* advisory lock works on beside its successor: the unique index
\* import_batches_single_processing_uq and the lease make up for the lock.
THEOREM OneBatchAtATime == Spec => []SingleProcessing
<1>1. Inv => SingleProcessing  BY OneIsProcessed
<1>2. QED  BY <1>1, Inductive, PTL

\* What OnlyRefusedRowsFail asks of a step.
FailsOnlyRefused ==
    \A b \in Batches : \A n \in DOMAIN rows[b] :
        rows[b][n].outcome = "pending" /\ rows'[b] # <<>> /\ rows'[b][n].outcome = "failed"
            => <<b, n>> \in blamed

\* Deleting rows fails none.
LEMMA DeletedFailNone ==
    ASSUME \A b \in Batches : rows'[b] \in {<<>>, rows[b]} \/ DOMAIN rows[b] = {}
    PROVE  FailsOnlyRefused
BY DEF FailsOnlyRefused

LEMMA PreviewFails ==
    ASSUME Inv, NEW b \in Batches, buildImportPreview(b)
    PROVE  FailsOnlyRefused
<1>1. PICK f : rows' = [CleanedRows EXCEPT ![b] = f]  BY DEF buildImportPreview
<1>2. \A c \in Batches : CleanedRows[c] \in {<<>>, rows[c]}  BY DEF CleanedRows
<1>3. \A c \in Batches \ {b} : rows'[c] = CleanedRows[c]  BY <1>1, CleanedDomain
<1>4. rows[b] = <<>>
  <2>1. BatchOK(batch[b], rows[b], audits[b]) /\ batch[b].status = "none"  BY DEF Inv, buildImportPreview
  <2>2. QED  BY <2>1 DEF BatchOK
<1>5. DOMAIN rows[b] = {}  BY <1>4
<1>6. \A c \in Batches : rows'[c] \in {<<>>, rows[c]} \/ DOMAIN rows[c] = {}
      BY <1>2, <1>3, <1>5
<1>7. QED  BY <1>6, DeletedFailNone

LEMMA CleaningFails ==
    ASSUME rows' = CleanedRows
    PROVE  FailsOnlyRefused
<1>1. \A b \in Batches : rows'[b] \in {<<>>, rows[b]}  BY DEF CleanedRows
<1>2. QED  BY <1>1, DeletedFailNone

LEMMA SameFails ==
    ASSUME rows' = rows
    PROVE  FailsOnlyRefused
BY DEF FailsOnlyRefused

\* A statement that commits gives its rows one of the four other outcomes.
LEMMA AcceptedFails ==
    ASSUME Inv, NEW w \in Workers, NEW limit, Accepted(job[w].batch, Selected(w, limit))
    PROVE  FailsOnlyRefused
<1> DEFINE b == job[w].batch
           s == Selected(w, limit)
<1>1. PICK n0 : n0 \in s  BY DEF Accepted
<1>2. b \in Batches /\ rows[b] \in [RowNumbers -> Row] /\ s \subseteq RowsWith(rows[b], "pending")
      BY <1>1, SelectedOK
<1>3. rows' = [rows EXCEPT ![b] = [n \in DOMAIN @ |->
                   IF n \in s THEN [@[n] EXCEPT !.outcome = Outcome(b, n)] ELSE @[n]]]
      BY DEF Accepted, Applies
<1>4. \A c \in Batches \ {b} : rows'[c] = rows[c]  BY <1>3 DEF Inv, Types
<1>5. ASSUME NEW n \in RowNumbers, rows[b][n].outcome = "pending" PROVE rows'[b][n].outcome # "failed"
  <2>1. Outcome(b, n) # "failed"  BY <1>2, OutcomeType
  <2>2. rows[b][n] \in Row  BY <1>2
  <2>3. rows'[b][n] = IF n \in s THEN [rows[b][n] EXCEPT !.outcome = Outcome(b, n)] ELSE rows[b][n]
        BY <1>2, <1>3 DEF Inv, Types
  <2> HIDE DEF s, b
  <2>4. QED  BY <1>5, <2>1, <2>2, <2>3 DEF Row
<1>6. DOMAIN rows[b] = RowNumbers  BY <1>2
<1> HIDE DEF s, b
<1>7. QED  BY <1>4, <1>5, <1>6 DEF FailsOnlyRefused

\* failNextPendingRow fails the first pending row of the batch the process owns:
\* the one whose statement was refused.
LEMMA FailFails ==
    ASSUME Inv, NEW w \in Workers, failNextPendingRow(w)
    PROVE  FailsOnlyRefused
<1> DEFINE b == job[w].batch
<1>1. CASE UNCHANGED rows  BY <1>1, SameFails
<1>2. CASE ~UNCHANGED rows
  <2>1. Owns(w) /\ pc[w] = "failing" /\ b \in Batches
        BY <1>2 DEF failNextPendingRow, Owns, Inv, Types
  <2>2. PICK n \in Pending(b) : /\ \A m \in Pending(b) : n <= m
                                /\ rows' = [rows EXCEPT ![b][n].outcome = "failed"]
        BY <1>2 DEF failNextPendingRow
  <2>3. <<b, n>> \in blamed  BY <2>1, <2>2 DEF Inv, FailingOK
  <2>4. \A c \in Batches \ {b} : rows'[c] = rows[c]  BY <2>2 DEF Inv, Types
  <2>5. \A m \in DOMAIN rows[b] : m # n => rows'[b][m] = rows[b][m]  BY <2>1, <2>2 DEF Inv, Types
  <2> HIDE DEF b
  <2>6. QED  BY <2>3, <2>4, <2>5 DEF FailsOnlyRefused
<1>3. QED  BY <1>1, <1>2

LEMMA StepFails ==
    ASSUME Inv, NEW w \in Workers, Step(w)
    PROVE  FailsOnlyRefused
<1>1. CASE startImportQueueWorker(w)  BY <1>1, SameFails DEF startImportQueueWorker
<1>2. CASE claimBatchSelect(w)  BY <1>2, SameFails DEF claimBatchSelect
<1>3. CASE claimBatchCommit(w)  BY <1>3, SameFails, CleaningFails DEF claimBatchCommit
<1>4. CASE processImportRows(w)
      BY <1>4, SameFails, AcceptedFails DEF processImportRows, Untouched, RefusedKnown, RefusedUnknown
<1>5. CASE replayRow(w)
      BY <1>5, SameFails, AcceptedFails DEF replayRow, Untouched, RefusedKnown, RefusedUnknown
<1>6. CASE failNextPendingRow(w)  BY <1>6, FailFails
<1>7. CASE completeBatch(w)  BY <1>7, SameFails DEF completeBatch
<1>8. QED  BY <1>1, <1>2, <1>3, <1>4, <1>5, <1>6, <1>7 DEF Step

LEMMA NextFails ==
    ASSUME Inv, [Next]_vars
    PROVE  FailsOnlyRefused
<1>1. ASSUME NEW b \in Batches, buildImportPreview(b) PROVE FailsOnlyRefused  BY <1>1, PreviewFails
<1>2. ASSUME NEW b \in Batches, NEW allowUpdate \in BOOLEAN, confirmImport(b, allowUpdate)
      PROVE  FailsOnlyRefused
      BY <1>2, CleaningFails DEF confirmImport
<1>3. ASSUME NEW b \in Batches, deadlinePasses(b) PROVE FailsOnlyRefused
      BY <1>3, SameFails DEF deadlinePasses
<1>4. CASE cleanupExpiredPreviews  BY <1>4, CleaningFails DEF cleanupExpiredPreviews
<1>5. ASSUME NEW w \in Workers, Step(w) PROVE FailsOnlyRefused  BY <1>5, StepFails
<1>6. ASSUME NEW w \in Workers, \/ crash(w) \/ stopImportQueueWorker(w) \/ loseSession(w)
                                \/ databaseError(w) \/ confirmedMeanwhile(w)
      PROVE  FailsOnlyRefused
      BY <1>6, SameFails
      DEF crash, stopImportQueueWorker, loseSession, databaseError, confirmedMeanwhile, Quits
<1>7. ASSUME NEW k \in Keys, editInventory(k) PROVE FailsOnlyRefused
      BY <1>7, SameFails DEF editInventory
<1>8. CASE UNCHANGED vars  BY <1>8, SameFails DEF vars
<1>9. QED  BY <1>1, <1>2, <1>3, <1>4, <1>5, <1>6, <1>7, <1>8, Zenon DEF Next

\* The worker fails only rows whose own statement PostgreSQL refused, although
\* failNextPendingRow names no row: while the process owns the batch nobody else
\* takes the refused row out of its place, and a process that has lost the batch
\* fails nothing (importQueueWorker.service.ts).
THEOREM OnlyRefusedRowsAreFailed == Spec => OnlyRefusedRowsFail
<1>1. Inv /\ [Next]_vars => [FailsOnlyRefused]_vars  BY NextFails
<1>2. QED  BY <1>1, Inductive, PTL DEF Spec, OnlyRefusedRowsFail, FailsOnlyRefused

-----------------------------------------------------------------------------
(* What the administrator is promised: every step of the queue is a step   *)
(* of ImportLedger, or changes nothing that ImportLedger shows.            *)

Report(x) == IF x.status \in Finished THEN x.count ELSE NoCount

\* What ImportLedger shows of a batch other than its rows stays.
SameFile(b) ==
    /\ Phase(batch'[b].status) = Phase(batch[b].status)
    /\ batch'[b].update = batch[b].update
    /\ Report(batch'[b]) = Report(batch[b])
Kept(b)      == SameFile(b) /\ rows'[b] = rows[b]
Forgotten(b) == ExpiredPreview(b) /\ batch'[b] = Absent /\ rows'[b] = <<>>
Table(t)     == t = [b \in Batches |-> t[b]]

LEMMA PhaseFacts ==
    /\ Phase("none") = "none" /\ Phase("preview") = "preview"
    /\ \A st \in {"queued", "processing"} : Phase(st) = "accepted"
    /\ \A st \in Finished : Phase(st) = "finished"
BY DEF Phase, Finished

LEMMA SameCardinality ==
    ASSUME NEW S
    PROVE  Imports!Cardinality(S) = Cardinality(S)
BY DEF Imports!Cardinality, Cardinality

LEMMA QuietAs ==
    ASSUME \A b \in Batches : Kept(b), Table(rows), Table(rows'), UNCHANGED <<points, blamed>>
    PROVE  UNCHANGED Imports!vars
<1>1. rows' = rows  BY DEF Kept, Table
<1>2. QED  BY <1>1 DEF Kept, SameFile, Report, Imports!vars

LEMMA ForgetAs ==
    ASSUME \A b \in Batches : Kept(b) \/ Forgotten(b), Table(rows'), UNCHANGED <<points, blamed>>
    PROVE  Imports!Forget
<1> DEFINE old == {b \in Batches : Forgotten(b)}
<1>1. old \in SUBSET Imports!Previews
      BY PhaseFacts DEF Forgotten, ExpiredPreview, Imports!Previews
<1>2. \A b \in old : /\ Phase(batch'[b].status) = "none" /\ batch'[b].update = FALSE
                     /\ rows'[b] = <<>> /\ Report(batch'[b]) = Report(batch[b])
      BY PhaseFacts DEF Forgotten, ExpiredPreview, Absent, Report, Finished
<1>3. \A b \in Batches \ old : Kept(b)  OBVIOUS
<1> HIDE DEF old
<1>4. [b \in Batches |-> Phase(batch'[b].status)]
        = Imports!Without([b \in Batches |-> Phase(batch[b].status)], old, "none")
      BY <1>2, <1>3 DEF Kept, SameFile, Imports!Without
<1>5. [b \in Batches |-> batch'[b].update]
        = Imports!Without([b \in Batches |-> batch[b].update], old, FALSE)
      BY <1>2, <1>3 DEF Kept, SameFile, Imports!Without
<1>6. rows' = Imports!Without(rows, old, <<>>)
      BY <1>2, <1>3 DEF Kept, Table, Imports!Without
<1>7. [b \in Batches |-> Report(batch'[b])] = [b \in Batches |-> Report(batch[b])]
      BY <1>2, <1>3 DEF Kept, SameFile
<1>8. QED  BY <1>1, <1>4, <1>5, <1>6, <1>7 DEF Imports!Forget, Report

\* Every file but b stays or is forgotten.
OthersStay(b) == \A c \in Batches \ {b} : Kept(c) \/ Forgotten(c)

LEMMA OthersForgotten ==
    ASSUME NEW b \in Batches, OthersStay(b), Table(rows')
    PROVE  \E old \in SUBSET (Imports!Previews \ {b}) :
              \A c \in Batches \ {b} :
                 /\ Phase(batch'[c].status)
                      = Imports!Without([d \in Batches |-> Phase(batch[d].status)], old, "none")[c]
                 /\ batch'[c].update
                      = Imports!Without([d \in Batches |-> batch[d].update], old, FALSE)[c]
                 /\ rows'[c] = Imports!Without(rows, old, <<>>)[c]
                 /\ Report(batch'[c]) = Report(batch[c])
<1> DEFINE old == {c \in Batches \ {b} : Forgotten(c)}
<1>1. old \in SUBSET (Imports!Previews \ {b})
      BY PhaseFacts DEF Forgotten, ExpiredPreview, Imports!Previews
<1>2. \A c \in old : /\ Phase(batch'[c].status) = "none" /\ batch'[c].update = FALSE
                     /\ rows'[c] = <<>> /\ Report(batch'[c]) = Report(batch[c])
      BY PhaseFacts DEF Forgotten, ExpiredPreview, Absent, Report, Finished
<1>3. \A c \in (Batches \ {b}) \ old : Kept(c)  BY DEF OthersStay
<1> HIDE DEF old
<1>4. QED  BY <1>1, <1>2, <1>3 DEF Kept, SameFile, Imports!Without

LEMMA UploadAs ==
    ASSUME NEW b \in Batches, OthersStay(b), Table(rows'), UNCHANGED <<points, blamed>>,
           batch[b].status = "none", batch'[b] = [batch[b] EXCEPT !.status = "preview"],
           DOMAIN batch[b] = DOMAIN Absent, rows'[b] \in PreviewRows
    PROVE  Imports!Upload(b)
<1>1. PICK old \in SUBSET (Imports!Previews \ {b}) :
              \A c \in Batches \ {b} :
                 /\ Phase(batch'[c].status)
                      = Imports!Without([d \in Batches |-> Phase(batch[d].status)], old, "none")[c]
                 /\ batch'[c].update
                      = Imports!Without([d \in Batches |-> batch[d].update], old, FALSE)[c]
                 /\ rows'[c] = Imports!Without(rows, old, <<>>)[c]
                 /\ Report(batch'[c]) = Report(batch[c])
      BY OthersForgotten
<1>2. /\ batch'[b].status = "preview" /\ batch'[b].update = batch[b].update
      /\ Report(batch'[b]) = Report(batch[b])
      BY DEF Absent, Report, Finished
<1>3. b \notin old /\ old \in SUBSET Imports!Previews  OBVIOUS
<1>4. [c \in Batches |-> Phase(batch'[c].status)]
        = [Imports!Without([d \in Batches |-> Phase(batch[d].status)], old, "none")
              EXCEPT ![b] = "preview"]
  <2> DEFINE g == Imports!Without([d \in Batches |-> Phase(batch[d].status)], old, "none")
  <2>1. g = [c \in Batches |-> g[c]]  BY DEF Imports!Without
  <2>2. Phase(batch'[b].status) = "preview"  BY <1>2, PhaseFacts
  <2>3. \A c \in Batches \ {b} : Phase(batch'[c].status) = g[c]  BY <1>1
  <2> HIDE DEF g
  <2>4. [c \in Batches |-> Phase(batch'[c].status)] = [g EXCEPT ![b] = "preview"]
        BY <2>1, <2>2, <2>3
  <2>5. QED  BY <2>4 DEF g
<1>5. [c \in Batches |-> batch'[c].update]
        = Imports!Without([d \in Batches |-> batch[d].update], old, FALSE)
      BY <1>1, <1>2, <1>3 DEF Imports!Without
<1>6. rows' = [Imports!Without(rows, old, <<>>) EXCEPT ![b] = rows'[b]]
      BY <1>1 DEF Table, Imports!Without
<1>7. [c \in Batches |-> Report(batch'[c])] = [c \in Batches |-> Report(batch[c])]
      BY <1>1, <1>2
<1>8. [c \in Batches |-> Phase(batch[c].status)][b] = "none"  BY PhaseFacts
<1>9. QED  BY <1>3, <1>4, <1>5, <1>6, <1>7, <1>8 DEF Imports!Upload, Report

LEMMA AcceptAs ==
    ASSUME NEW b \in Batches, OthersStay(b), Table(rows'), UNCHANGED <<points, blamed>>,
           batch[b].status = "preview", batch'[b].status = "queued", batch'[b].update \in BOOLEAN,
           rows'[b] = rows[b]
    PROVE  Imports!Accept(b)
<1>1. PICK old \in SUBSET (Imports!Previews \ {b}) :
              \A c \in Batches \ {b} :
                 /\ Phase(batch'[c].status)
                      = Imports!Without([d \in Batches |-> Phase(batch[d].status)], old, "none")[c]
                 /\ batch'[c].update
                      = Imports!Without([d \in Batches |-> batch[d].update], old, FALSE)[c]
                 /\ rows'[c] = Imports!Without(rows, old, <<>>)[c]
                 /\ Report(batch'[c]) = Report(batch[c])
      BY OthersForgotten
<1>2. Report(batch'[b]) = Report(batch[b])  BY DEF Report, Finished
<1>3. [c \in Batches |-> Phase(batch'[c].status)]
        = [Imports!Without([d \in Batches |-> Phase(batch[d].status)], old, "none")
              EXCEPT ![b] = "accepted"]
      BY <1>1, PhaseFacts, ZenonT(30) DEF Imports!Without
<1>4. [c \in Batches |-> batch'[c].update]
        = [Imports!Without([d \in Batches |-> batch[d].update], old, FALSE)
              EXCEPT ![b] = batch'[b].update]
      BY <1>1 DEF Imports!Without
<1>5. rows' = Imports!Without(rows, old, <<>>)
      BY <1>1 DEF Table, Imports!Without
<1>6. [c \in Batches |-> Report(batch'[c])] = [c \in Batches |-> Report(batch[c])]
      BY <1>1, <1>2
<1>7. [c \in Batches |-> Phase(batch[c].status)][b] = "preview"  BY PhaseFacts
<1>8. QED  BY <1>3, <1>4, <1>5, <1>6, <1>7 DEF Imports!Accept, Report

\* The rows of a file that wait are of different inventory numbers: the preview
\* turns the others down (classifyDuplicates), and no row waits again.
Apart(rs) == \A m, n \in RowsWith(rs, "pending") : m # n => rs[m].key # rs[n].key
Distinct  == \A b \in Batches : Apart(rows[b])

LEMMA BecomesAs ==
    ASSUME Inv, NEW b \in Batches, rows[b] \in [RowNumbers -> Row], NEW n \in RowNumbers
    PROVE  /\ Imports!Becomes(b, n) = Outcome(b, n)
           /\ Imports!Changes(b, n) <=> Outcome(b, n) \in Mutating
<1>1. rows[b][n].key \in Keys  BY DEF Row
<1>2. points[rows[b][n].key] \in {"none", "old", "new"} /\ batch[b].update \in BOOLEAN
      BY <1>1 DEF Inv, Types, Batch
<1>3. Imports!Becomes(b, n) = Outcome(b, n)  BY <1>2 DEF Imports!Becomes, Outcome
<1>4. QED  BY <1>3 DEF Imports!Changes, Mutating

\* A statement that commits settles the rows it has selected.
LEMMA SettleAs ==
    ASSUME Inv, Distinct, NEW w \in Workers, NEW limit,
           Accepted(job[w].batch, Selected(w, limit)), blamed' = blamed
    PROVE  job[w].batch \in Batches /\ Imports!Settle(job[w].batch)
<1> DEFINE b == job[w].batch
           s == Selected(w, limit)
<1>1. PICK n0 : n0 \in s  BY DEF Accepted
<1>2. /\ b \in Batches /\ rows[b] \in [RowNumbers -> Row] /\ s \subseteq RowsWith(rows[b], "pending")
      /\ batch[b].status = "processing"
      BY <1>1, SelectedOK
<1>3. Applies(b, s)  BY DEF Accepted
<1> HIDE DEF s, b
<1>4. s \in SUBSET Imports!Pending(b) /\ s \subseteq RowNumbers /\ DOMAIN rows[b] = RowNumbers
      BY <1>2 DEF RowsWith, Imports!Pending
<1>5. \A m, n \in s : m # n => rows[b][m].key # rows[b][n].key  BY <1>2 DEF Distinct, Apart
<1>6. \A n \in s : /\ Imports!Becomes(b, n) = Outcome(b, n)
                   /\ Imports!Changes(b, n) <=> Outcome(b, n) \in Mutating
      BY <1>2, <1>4, BecomesAs
<1>7. rows' = [rows EXCEPT ![b] = [n \in DOMAIN @ |->
                  IF n \in s THEN [@[n] EXCEPT !.outcome = Imports!Becomes(b, n)] ELSE @[n]]]
  <2>1. rows' = [rows EXCEPT ![b] = [n \in DOMAIN rows[b] |->
                    IF n \in s THEN [rows[b][n] EXCEPT !.outcome = Outcome(b, n)] ELSE rows[b][n]]]
        BY <1>2, <1>3 DEF Applies, Inv, Types
  <2>2. [n \in DOMAIN rows[b] |->
            IF n \in s THEN [rows[b][n] EXCEPT !.outcome = Outcome(b, n)] ELSE rows[b][n]]
        = [n \in DOMAIN rows[b] |->
            IF n \in s THEN [rows[b][n] EXCEPT !.outcome = Imports!Becomes(b, n)] ELSE rows[b][n]]
        BY <1>6
  <2>3. QED  BY <2>1, <2>2
<1>8. points' = [k \in Keys |->
                    IF \E n \in s : rows[b][n].key = k /\ Imports!Changes(b, n) THEN "new" ELSE points[k]]
      BY <1>3, <1>6 DEF Applies
<1>9. SameFile(b) /\ \A c \in Batches \ {b} : batch'[c] = batch[c]
  <2>1. batch'[b].status = "processing" /\ batch'[b].update = batch[b].update
        /\ \A c \in Batches \ {b} : batch'[c] = batch[c]
        BY <1>2, <1>3 DEF Applies, Inv, Types, Batch
  <2>2. QED  BY <1>2, <2>1 DEF SameFile, Report, Finished
<1>10. /\ [c \in Batches |-> Phase(batch'[c].status)] = [c \in Batches |-> Phase(batch[c].status)]
       /\ [c \in Batches |-> batch'[c].update] = [c \in Batches |-> batch[c].update]
       /\ [c \in Batches |-> Report(batch'[c])] = [c \in Batches |-> Report(batch[c])]
       BY <1>9 DEF SameFile
<1>11. [c \in Batches |-> Phase(batch[c].status)][b] = "accepted"  BY <1>2, PhaseFacts
<1>12. Imports!Settle(b)
       BY <1>4, <1>5, <1>7, <1>8, <1>10, <1>11 DEF Imports!Settle, Report
<1>13. QED  BY <1>2, <1>12 DEF b

\* The tables of the import stay, whatever the processes do.
LEMMA TablesStay ==
    ASSUME UNCHANGED <<batch, rows>>
    PROVE  /\ rows' = rows
           /\ [c \in Batches |-> Phase(batch'[c].status)] = [c \in Batches |-> Phase(batch[c].status)]
           /\ [c \in Batches |-> batch'[c].update] = [c \in Batches |-> batch[c].update]
           /\ [c \in Batches |-> Report(batch'[c])] = [c \in Batches |-> Report(batch[c])]
OBVIOUS

LEMMA EditAs ==
    ASSUME NEW k \in Keys, NEW v \in {"none", "old", "new"}, points' = [points EXCEPT ![k] = v],
           UNCHANGED <<batch, rows, blamed>>
    PROVE  Imports!Edit(k)
BY TablesStay DEF Imports!Edit, Report

\* The replay selects one row.
LEMMA OneSelected ==
    ASSUME Inv, NEW w \in Workers, NEW n \in Selected(w, 1)
    PROVE  Selected(w, 1) = {n}
<1> DEFINE b == job[w].batch
           Before(k) == {m \in Candidates(b) : m < k}
<1>1. rows[b] \in [RowNumbers -> Row] /\ Selected(w, 1) \subseteq RowsWith(rows[b], "pending")
      BY SelectedOK
<1>2. Selected(w, 1) \subseteq Candidates(b) /\ Candidates(b) \subseteq RowNumbers
      BY <1>1 DEF Selected, Candidates, Pending
<1>3. RowNumbers \subseteq Int  BY DEF RowNumbers
<1>4. ASSUME NEW k \in Selected(w, 1) PROVE Before(k) = {}
  <2>1. Cardinality(Before(k)) < 1  BY DEF Selected
  <2>2. IsFiniteSet(Before(k))  BY <1>2, RowNumbersFinite, FS_Subset
  <2>3. Cardinality(Before(k)) \in Nat  BY <2>2, FS_CardinalityType
  <2>4. Cardinality(Before(k)) = 0  BY <2>1, <2>3
  <2>5. QED  BY <2>2, <2>4, FS_EmptySet
<1>5. ASSUME NEW k \in Selected(w, 1) PROVE k = n
  <2>1. k \in Int /\ n \in Int /\ k \in Candidates(b) /\ n \in Candidates(b)  BY <1>2, <1>3
  <2>2. ~(k < n) /\ ~(n < k)  BY <1>4, <2>1
  <2>3. QED  BY <2>1, <2>2
<1>6. QED  BY <1>5

\* A refused statement of the replay: the database refused that row.
LEMMA RefuseAs ==
    ASSUME Inv, NEW w \in Workers, RefusedKnown(job[w].batch, Selected(w, 1)),
           blamed' = blamed \cup {<<job[w].batch, n>> : n \in Selected(w, 1)}
    PROVE  /\ job[w].batch \in Batches
           /\ \E n \in Imports!Pending(job[w].batch) : Imports!Refuse(job[w].batch, n)
<1> DEFINE b == job[w].batch
<1>1. PICK n \in Selected(w, 1) : TRUE  BY RefusedType
<1>2. /\ b \in Batches /\ rows[b] \in [RowNumbers -> Row] /\ batch[b].status = "processing"
      /\ Selected(w, 1) \subseteq RowsWith(rows[b], "pending")
      BY SelectedOK
<1>3. Selected(w, 1) = {n}  BY OneSelected
<1>4. UNCHANGED <<batch, rows>> /\ blamed' = blamed \cup {<<b, n>>}  BY <1>3 DEF RefusedKnown
<1>5. n \in RowNumbers /\ n \in Imports!Pending(b)  BY <1>2 DEF RowsWith, Imports!Pending
<1>6. \/ Outcome(b, n) \in Mutating /\ UNCHANGED points
      \/ points[rows[b][n].key] = "none" /\ points' = [points EXCEPT ![rows[b][n].key] = "old"]
      BY <1>3 DEF RefusedKnown, CreatedMeanwhile, Refused
<1>7. points[rows[b][n].key] = "none" => Outcome(b, n) \in Mutating  BY DEF Outcome, Mutating
<1>8. Imports!Changes(b, n)  BY <1>2, <1>5, <1>6, <1>7, BecomesAs
<1>9. [c \in Batches |-> Phase(batch[c].status)][b] = "accepted"  BY <1>2, PhaseFacts
<1> HIDE DEF b
<1>10. Imports!Refuse(b, n)
       BY <1>4, <1>5, <1>6, <1>8, <1>9, TablesStay DEF Imports!Refuse, Report
<1>11. QED  BY <1>2, <1>5, <1>10 DEF b

\* The row that failNextPendingRow fails is one that the database refused.
LEMMA FailAs ==
    ASSUME Inv, NEW w \in Workers, failNextPendingRow(w), ~UNCHANGED <<rows, batch>>
    PROVE  /\ job[w].batch \in Batches
           /\ \E n \in Imports!Pending(job[w].batch) : Imports!Fail(job[w].batch, n)
<1> DEFINE b == job[w].batch
<1>1. /\ Owns(w) /\ pc[w] = "failing" /\ b \in Batches /\ batch[b].status = "processing"
      BY DEF failNextPendingRow, Owns, Inv, Types
<1>2. PICK n \in Pending(b) : /\ \A m \in Pending(b) : n <= m
                              /\ rows' = [rows EXCEPT ![b][n].outcome = "failed"]
      BY DEF failNextPendingRow
<1>3. /\ batch' = [batch EXCEPT ![b].count["failed"] = @ + 1, ![b].due = FALSE]
      /\ UNCHANGED <<points, blamed>>
      BY DEF failNextPendingRow
<1>4. <<b, n>> \in blamed  BY <1>1, <1>2 DEF Inv, FailingOK
<1>5. n \in Imports!Pending(b)  BY <1>2 DEF Pending, Imports!Pending
<1>6. SameFile(b) /\ \A c \in Batches \ {b} : batch'[c] = batch[c]
  <2>1. batch'[b].status = "processing" /\ batch'[b].update = batch[b].update
        /\ \A c \in Batches \ {b} : batch'[c] = batch[c]
    <3>1. batch \in [Batches -> Batch]
          BY DEF Inv, Types
    <3>2. batch[b] \in Batch /\ batch'[b] = [batch[b] EXCEPT !.count["failed"] = @ + 1, !.due = FALSE]
          BY <1>1, <1>3, <3>1
    <3>3. batch'[b].status = batch[b].status /\ batch'[b].update = batch[b].update
          BY <3>2 DEF Batch
    <3>4. \A c \in Batches \ {b} : batch'[c] = batch[c]
          BY <1>1, <1>3, <3>1
    <3>5. QED  BY <1>1, <3>3, <3>4
  <2>2. QED  BY <1>1, <2>1 DEF SameFile, Report, Finished
<1>7. /\ [c \in Batches |-> Phase(batch'[c].status)] = [c \in Batches |-> Phase(batch[c].status)]
      /\ [c \in Batches |-> batch'[c].update] = [c \in Batches |-> batch[c].update]
      /\ [c \in Batches |-> Report(batch'[c])] = [c \in Batches |-> Report(batch[c])]
      BY <1>6 DEF SameFile
<1>8. [c \in Batches |-> Phase(batch[c].status)][b] = "accepted"  BY <1>1, PhaseFacts
<1> HIDE DEF b
<1>9. Imports!Fail(b, n)  BY <1>2, <1>3, <1>4, <1>5, <1>7, <1>8 DEF Imports!Fail, Report
<1>10. QED  BY <1>1, <1>5, <1>9 DEF b

\* What the administrator reads of a finished batch is the tally of its rows.
LEMMA FinishAs ==
    ASSUME Inv, NEW w \in Workers, completeBatch(w), batch' # batch
    PROVE  \E b \in Batches : Imports!Finish(b)
<1>0. PICK b \in Batches : b = job[w].batch
  <2>1. MayComplete(w)  BY DEF completeBatch
  <2>2. QED  BY <2>1 DEF MayComplete, Owns, Inv, Types
<1> DEFINE y == Completed(b)
<1>1. /\ MayComplete(w) /\ batch' = [batch EXCEPT ![b] = y]
      /\ UNCHANGED <<rows, points, blamed>>
      BY <1>0 DEF completeBatch
<1>2. /\ batch[b].status = "processing" /\ batch[b] \in Batch
      /\ Pending(b) = {} /\ BatchOK(batch[b], rows[b], audits[b])
      BY <1>0, <1>1 DEF MayComplete, Owns, Inv, Types
<1>3. y.status \in Finished /\ y.count = batch[b].count /\ y.update = batch[b].update
      BY <1>2 DEF Completed, Batch, Finished
<1>4. batch[b].count = Imports!Tally(b)
  <2>1. batch[b].count = [o \in Outcomes |-> Cardinality(RowsWith(rows[b], o))]
        BY <1>2 DEF BatchOK
  <2>2. Imports!Tally(b) = [o \in Outcomes |-> Imports!Cardinality(RowsWith(rows[b], o))]
        BY DEF Imports!Tally, Imports!Outcomes, Outcomes, RowsWith
  <2>3. \A o \in Outcomes : Imports!Cardinality(RowsWith(rows[b], o)) = Cardinality(RowsWith(rows[b], o))
        BY SameCardinality
  <2>4. QED  BY <2>1, <2>2, <2>3
<1>5. batch'[b] = y /\ \A c \in Batches \ {b} : batch'[c] = batch[c]
      BY <1>1, <1>2 DEF Inv, Types
<1>6. Report(batch'[b]) = Imports!Tally(b)  BY <1>3, <1>4, <1>5 DEF Report
<1>7. Phase(batch'[b].status) = "finished"  BY <1>3, <1>5, PhaseFacts
<1> HIDE DEF y
<1>8. [c \in Batches |-> Phase(batch'[c].status)]
        = [[c \in Batches |-> Phase(batch[c].status)] EXCEPT ![b] = "finished"]
      BY <1>5, <1>7
<1>9. [c \in Batches |-> batch'[c].update] = [c \in Batches |-> batch[c].update]
      BY <1>3, <1>5
<1>10. [c \in Batches |-> Report(batch'[c])]
        = [[c \in Batches |-> Report(batch[c])] EXCEPT ![b] = Imports!Tally(b)]
       BY <1>5, <1>6
<1>11. [c \in Batches |-> Phase(batch[c].status)][b] = "accepted"  BY <1>2, PhaseFacts
<1>12. Imports!Pending(b) = {}  BY <1>2 DEF Pending, Imports!Pending
<1>13. Imports!Finish(b)
       BY <1>1, <1>8, <1>9, <1>10, <1>11, <1>12 DEF Imports!Finish, Report
<1>14. QED  BY <1>13

\* The cleanup forgets the expired previews and keeps the rest.
LEMMA CleanedStays ==
    ASSUME Inv, NEW b \in Batches, batch'[b] = Cleaned(batch)[b], rows'[b] = CleanedRows[b]
    PROVE  Kept(b) \/ Forgotten(b)
<1>1. CASE ExpiredPreview(b)  BY <1>1 DEF Cleaned, CleanedRows, Forgotten
<1>2. CASE ~ExpiredPreview(b)  BY <1>2 DEF Cleaned, CleanedRows, Kept, SameFile
<1>3. QED  BY <1>1, <1>2

\* A batch that is claimed, and one that is taken from a process that gave it
\* up, are accepted before and after.
LEMMA ClaimAs ==
    ASSUME Inv, NEW w \in Workers, claimBatchCommit(w), IndexAdmits(w)
    PROVE  Imports!Forget
<1> DEFINE c == job[w].batch
           g == Cleaned(Requeued)
<1>1. /\ pc[w] = "claiming" /\ rows' = CleanedRows /\ UNCHANGED <<points, blamed>>
      /\ batch' = [g EXCEPT ![c].status = "processing", ![c].due = FALSE, ![c].token = FreshToken]
      BY DEF claimBatchCommit
<1>2. c \in Batches /\ c \in held[w] /\ batch[c].status \in {"queued", "processing"}
      BY <1>1 DEF Inv, ClaimOK, Types
<1>3. Table(g) /\ Table(rows')  BY <1>1 DEF Table, Cleaned, CleanedRows
<1>4. ASSUME NEW b \in Batches, ~ExpiredPreview(b)
      PROVE  /\ g[b].status = batch[b].status \/ {g[b].status, batch[b].status} \subseteq {"queued", "processing"}
             /\ g[b].update = batch[b].update /\ g[b].count = batch[b].count
             /\ g[b] \in Batch
  <2>1. g[b] = Requeued[b] /\ batch[b] \in Batch  BY <1>4 DEF Cleaned, Inv, Types
  <2>2. CASE b \in Abandoned
    <3>1. g[b] = [batch[b] EXCEPT !.status = "queued", !.token = 0, !.due = FALSE]
          BY <2>1, <2>2 DEF Requeued
    <3>2. batch[b].status = "processing"  BY <2>2 DEF Abandoned, With
    <3> HIDE DEF g
    <3>3. QED  BY <2>1, <3>1, <3>2, NoJobType DEF Batch
  <2>3. CASE b \notin Abandoned  BY <2>1, <2>3 DEF Requeued
  <2>4. QED  BY <2>2, <2>3
<1>5. \A b \in Batches : ExpiredPreview(b) => g[b] = Absent /\ b # c
      BY <1>2 DEF Cleaned, ExpiredPreview
<1>6. \A b \in Batches : rows'[b] = IF ExpiredPreview(b) THEN <<>> ELSE rows[b]
      BY <1>1 DEF CleanedRows
<1> HIDE DEF g, c
<1>7. \A b \in Batches \ {c} : batch'[b] = g[b]  BY <1>1, <1>3 DEF Table
<1>8. batch'[c] = [g[c] EXCEPT !.status = "processing", !.due = FALSE, !.token = FreshToken]
      BY <1>1, <1>2, <1>3 DEF Table
<1>9. ASSUME NEW b \in Batches PROVE Kept(b) \/ Forgotten(b)
  <2>1. CASE ExpiredPreview(b)  BY <1>5, <1>6, <1>7, <2>1 DEF Forgotten
  <2>2. CASE ~ExpiredPreview(b) /\ b # c
    <3>1. batch'[b] = g[b] /\ rows'[b] = rows[b]  BY <1>6, <1>7, <2>2
    <3>2. Phase(g[b].status) = Phase(batch[b].status) /\ Report(g[b]) = Report(batch[b])
      <4>1. CASE g[b].status = batch[b].status  BY <1>4, <2>2, <4>1 DEF Report
      <4>2. CASE {g[b].status, batch[b].status} \subseteq {"queued", "processing"}
            BY <4>2, PhaseFacts DEF Report, Finished
      <4>3. QED  BY <1>4, <2>2, <4>1, <4>2
    <3>3. QED  BY <1>4, <2>2, <3>1, <3>2 DEF Kept, SameFile
  <2>3. CASE ~ExpiredPreview(b) /\ b = c
    <3>1. batch'[c].status = "processing" /\ batch'[c].update = batch[c].update
          BY <1>2, <1>4, <1>8, <2>3 DEF Batch
    <3>2. Phase(batch'[c].status) = Phase(batch[c].status) /\ Report(batch'[c]) = Report(batch[c])
          BY <1>2, <3>1, PhaseFacts DEF Report, Finished
    <3>3. QED  BY <1>6, <2>3, <3>1, <3>2 DEF Kept, SameFile
  <2>4. QED  BY <2>1, <2>2, <2>3
<1>10. QED  BY <1>1, <1>3, <1>9, ForgetAs

LEMMA CleanupAs ==
    ASSUME Inv, cleanupExpiredPreviews
    PROVE  Imports!Forget
<1>1. batch' = Cleaned(batch) /\ rows' = CleanedRows /\ UNCHANGED <<points, blamed>>
      BY DEF cleanupExpiredPreviews
<1>2. Table(rows')  BY <1>1 DEF Table, CleanedRows
<1>3. QED  BY <1>1, <1>2, CleanedStays, ForgetAs

LEMMA PreviewAs ==
    ASSUME Inv, NEW b \in Batches, buildImportPreview(b)
    PROVE  Imports!Upload(b)
<1> DEFINE g == Cleaned(batch)
           h == CleanedRows
<1>1. PICK f \in PreviewRows : rows' = [h EXCEPT ![b] = f]  BY DEF buildImportPreview
<1>2. /\ batch[b].status = "none" /\ batch' = [g EXCEPT ![b].status = "preview"]
      /\ UNCHANGED <<points, blamed>>
      BY DEF buildImportPreview
<1>3. g[b] = batch[b] /\ DOMAIN g = Batches /\ DOMAIN h = Batches
      BY <1>2 DEF Cleaned, CleanedRows, ExpiredPreview
<1> HIDE DEF g, h
<1>4. /\ batch'[b] = [batch[b] EXCEPT !.status = "preview"] /\ rows'[b] = f
      /\ \A c \in Batches \ {b} : batch'[c] = g[c] /\ rows'[c] = h[c]
      BY <1>1, <1>2, <1>3
<1>5. Table(rows')  BY <1>1, <1>3 DEF Table
<1>6. OthersStay(b)  BY <1>4, CleanedStays DEF OthersStay, g, h
<1>7. DOMAIN batch[b] = DOMAIN Absent  BY DEF Inv, Types, Batch, Absent
<1>8. QED  BY <1>1, <1>2, <1>4, <1>5, <1>6, <1>7, UploadAs

LEMMA ConfirmAs ==
    ASSUME Inv, NEW b \in Batches, NEW allowUpdate \in BOOLEAN, confirmImport(b, allowUpdate)
    PROVE  Imports!Accept(b)
<1> DEFINE g == Cleaned(batch)
<1>1. /\ batch[b].status = "preview" /\ ~batch[b].due /\ rows' = CleanedRows
      /\ batch' = [g EXCEPT ![b] = Confirmed(b, allowUpdate)] /\ UNCHANGED <<points, blamed>>
      BY DEF confirmImport, MayConfirm
<1>2. Confirmed(b, allowUpdate).status = "queued" /\ Confirmed(b, allowUpdate).update = allowUpdate
  <2>1. batch[b] \in Batch  BY DEF Inv, Types
  <2>2. QED  BY <2>1 DEF Confirmed, Batch
<1>3. rows'[b] = rows[b] /\ Table(rows') /\ DOMAIN g = Batches
      BY <1>1 DEF Cleaned, CleanedRows, ExpiredPreview, Table
<1> HIDE DEF g
<1>4. batch'[b] = Confirmed(b, allowUpdate) /\ \A c \in Batches \ {b} : batch'[c] = g[c]
      BY <1>1, <1>3
<1>5. OthersStay(b)  BY <1>1, <1>4, CleanedStays DEF OthersStay, g
<1>6. QED  BY <1>1, <1>2, <1>3, <1>4, <1>5, AcceptAs

LEMMA DeadlineAs ==
    ASSUME Inv, NEW b \in Batches, deadlinePasses(b)
    PROVE  UNCHANGED Imports!vars
<1>1. batch' = [batch EXCEPT ![b].due = TRUE] /\ UNCHANGED <<rows, points, blamed>>
      BY DEF deadlinePasses
<1>2. batch[b] \in Batch /\ batch \in [Batches -> Batch]  BY DEF Inv, Types
<1>3. \A c \in Batches \ {b} : batch'[c] = batch[c]  BY <1>1, <1>2
<1>4. /\ batch'[b].status = batch[b].status /\ batch'[b].update = batch[b].update
      /\ batch'[b].count = batch[b].count
      BY <1>1, <1>2 DEF Batch
<1>5. \A c \in Batches : Kept(c)  BY <1>1, <1>3, <1>4 DEF Kept, SameFile, Report
<1>6. Table(rows) /\ Table(rows')  BY <1>1 DEF Table, Inv, Types
<1>7. QED  BY <1>1, <1>5, <1>6, QuietAs

\* Steps that change nothing the administrator sees.
LEMMA QuietStep ==
    ASSUME UNCHANGED <<batch, rows, points, blamed>>
    PROVE  UNCHANGED Imports!vars
BY TablesStay DEF Imports!vars

\* In bulk no row is blamed yet: all that a refused statement may show is the
\* light point that somebody created meanwhile.
LEMMA BulkRefusedAs ==
    ASSUME Inv, NEW w \in Workers, RefusedKnown(job[w].batch, Selected(w, ROWS_PER_QUERY)),
           blamed' = blamed
    PROVE  (\E k \in Keys : Imports!Edit(k)) \/ UNCHANGED Imports!vars
<1> DEFINE b == job[w].batch
           s == Selected(w, ROWS_PER_QUERY)
<1>1. UNCHANGED <<batch, rows>>  BY DEF RefusedKnown
<1>2. CASE UNCHANGED points  BY <1>1, <1>2, QuietStep
<1>3. CASE ~UNCHANGED points
  <2>1. PICK n \in s : points' = [points EXCEPT ![rows[b][n].key] = "old"]
        BY <1>3 DEF RefusedKnown, CreatedMeanwhile
  <2>2. rows[b] \in [RowNumbers -> Row] /\ s \subseteq RowsWith(rows[b], "pending")
        BY SelectedOK
  <2>3. rows[b][n].key \in Keys  BY <2>2 DEF RowsWith, Row
  <2> HIDE DEF b, s
  <2>4. Imports!Edit(rows[b][n].key)  BY <1>1, <2>1, <2>3, EditAs
  <2>5. QED  BY <2>3, <2>4
<1>4. QED  BY <1>2, <1>3

\* A step of a process, as the administrator sees it.
LEMMA StepAs ==
    ASSUME Inv, Distinct, NEW w \in Workers, Step(w)
    PROVE  [Imports!Next]_(Imports!vars)
<1> DEFINE b == job[w].batch
<1>1. CASE startImportQueueWorker(w)  BY <1>1, QuietStep DEF startImportQueueWorker
<1>2. CASE claimBatchSelect(w)  BY <1>2, QuietStep DEF claimBatchSelect
<1>3. CASE claimBatchCommit(w)
  <2>1. CASE IndexAdmits(w)  BY <1>3, <2>1, ClaimAs DEF Imports!Next
  <2>2. CASE ~IndexAdmits(w)  BY <1>3, <2>2, QuietStep DEF claimBatchCommit
  <2>3. QED  BY <2>1, <2>2
<1>4. CASE processImportRows(w)
  <2>1. CASE Accepted(b, Selected(w, ROWS_PER_QUERY))
        BY <1>4, <2>1, SettleAs DEF processImportRows, Imports!Next
  <2>2. CASE Untouched \/ RefusedUnknown(b, Selected(w, ROWS_PER_QUERY))
        BY <1>4, <2>2, QuietStep DEF processImportRows, Untouched, RefusedUnknown
  <2>3. CASE RefusedKnown(b, Selected(w, ROWS_PER_QUERY))
        BY <1>4, <2>3, BulkRefusedAs DEF processImportRows, Imports!Next
  <2>4. QED  BY <1>4, <2>1, <2>2, <2>3 DEF processImportRows
<1>5. CASE replayRow(w)
  <2>1. CASE Accepted(b, Selected(w, 1)) /\ UNCHANGED blamed
        BY <2>1, SettleAs DEF Imports!Next
  <2>2. CASE (Untouched \/ RefusedUnknown(b, Selected(w, 1))) /\ UNCHANGED blamed
        BY <2>2, QuietStep DEF Untouched, RefusedUnknown
  <2>3. CASE /\ RefusedKnown(b, Selected(w, 1))
             /\ blamed' = blamed \cup {<<b, n>> : n \in Selected(w, 1)}
        BY <2>3, RefuseAs DEF Imports!Next
  <2>4. QED  BY <1>5, <2>1, <2>2, <2>3 DEF replayRow
<1>6. CASE failNextPendingRow(w)
  <2>1. CASE UNCHANGED <<rows, batch>>  BY <1>6, <2>1, QuietStep DEF failNextPendingRow
  <2>2. CASE ~UNCHANGED <<rows, batch>>  BY <1>6, <2>2, FailAs DEF Imports!Next
  <2>3. QED  BY <2>1, <2>2
<1>7. CASE completeBatch(w)
  <2>1. CASE batch' = batch  BY <1>7, <2>1, QuietStep DEF completeBatch
  <2>2. CASE batch' # batch  BY <1>7, <2>2, FinishAs DEF Imports!Next
  <2>3. QED  BY <2>1, <2>2
<1>8. QED  BY <1>1, <1>2, <1>3, <1>4, <1>5, <1>6, <1>7 DEF Step

LEMMA NextAs ==
    ASSUME Inv, Distinct, [Next]_vars
    PROVE  [Imports!Next]_(Imports!vars)
<1>1. ASSUME NEW b \in Batches, buildImportPreview(b) PROVE [Imports!Next]_(Imports!vars)
      BY <1>1, PreviewAs DEF Imports!Next
<1>2. ASSUME NEW b \in Batches, NEW allowUpdate \in BOOLEAN, confirmImport(b, allowUpdate)
      PROVE  [Imports!Next]_(Imports!vars)
      BY <1>2, ConfirmAs DEF Imports!Next
<1>3. ASSUME NEW b \in Batches, deadlinePasses(b) PROVE [Imports!Next]_(Imports!vars)
      BY <1>3, DeadlineAs
<1>4. CASE cleanupExpiredPreviews  BY <1>4, CleanupAs DEF Imports!Next
<1>5. ASSUME NEW w \in Workers, Step(w) PROVE [Imports!Next]_(Imports!vars)  BY <1>5, StepAs
<1>6. ASSUME NEW w \in Workers, \/ crash(w) \/ stopImportQueueWorker(w) \/ loseSession(w)
                                \/ databaseError(w) \/ confirmedMeanwhile(w)
      PROVE  [Imports!Next]_(Imports!vars)
      BY <1>6, QuietStep
      DEF crash, stopImportQueueWorker, loseSession, databaseError, confirmedMeanwhile, Quits
<1>7. ASSUME NEW k \in Keys, editInventory(k) PROVE [Imports!Next]_(Imports!vars)
      BY <1>7, EditAs DEF editInventory, Imports!Next
<1>8. CASE UNCHANGED vars  BY <1>8, QuietStep DEF vars
<1>9. QED  BY <1>1, <1>2, <1>3, <1>4, <1>5, <1>6, <1>7, <1>8, Zenon DEF Next

\* A file that is uploaded has its waiting rows apart, and nothing makes a row
\* wait again or changes its inventory number.
LEMMA StaysDistinct ==
    ASSUME Inv, Distinct, [Imports!Next]_(Imports!vars)
    PROVE  Distinct'
<1>1. ASSUME NEW old, NEW c \in Batches, NEW t, t = Imports!Without(rows, old, <<>>)
      PROVE  Apart(t[c])
  <2>1. t[c] = rows[c] \/ t[c] = <<>>  BY <1>1 DEF Imports!Without
  <2>2. Apart(<<>>)  BY DEF Apart, RowsWith
  <2>3. QED  BY <2>1, <2>2 DEF Distinct
<1>2. CASE UNCHANGED rows  BY <1>2 DEF Distinct
<1>3. CASE Imports!Forget  BY <1>1, <1>3 DEF Imports!Forget, Distinct
<1>4. ASSUME NEW b \in Batches, Imports!Upload(b) PROVE Distinct'
  <2>1. PICK old \in SUBSET Imports!Previews, f \in PreviewRows :
            rows' = [Imports!Without(rows, old, <<>>) EXCEPT ![b] = f]
        BY <1>4 DEF Imports!Upload
  <2>2. Apart(f)  BY DEF PreviewRows, Apart, RowsWith
  <2> DEFINE t == Imports!Without(rows, old, <<>>)
  <2>3. DOMAIN t = Batches /\ \A c \in Batches : Apart(t[c])  BY <1>1 DEF Imports!Without
  <2> HIDE DEF t
  <2>4. rows' = [t EXCEPT ![b] = f]  BY <2>1 DEF t
  <2>5. QED  BY <2>2, <2>3, <2>4 DEF Distinct
<1>5. ASSUME NEW b \in Batches, Imports!Accept(b) PROVE Distinct'
      BY <1>1, <1>5 DEF Imports!Accept, Distinct
<1>6. ASSUME NEW b \in Batches, \A c \in Batches \ {b} : rows'[c] = rows[c],
             DOMAIN rows'[b] = DOMAIN rows[b],
             \A n \in DOMAIN rows[b] :
                /\ rows'[b][n].key = rows[b][n].key
                /\ rows'[b][n].outcome = "pending" => rows[b][n].outcome = "pending"
      PROVE  Distinct'
      BY <1>6 DEF Distinct, Apart, RowsWith
<1>7. ASSUME NEW b \in Batches, Imports!Settle(b) PROVE Distinct'
  <2>1. PICK S \in SUBSET Imports!Pending(b) :
            rows' = [rows EXCEPT ![b] = [n \in DOMAIN @ |->
                        IF n \in S THEN [@[n] EXCEPT !.outcome = Imports!Becomes(b, n)] ELSE @[n]]]
        BY <1>7 DEF Imports!Settle
  <2>2. rows \in [Batches -> [RowNumbers -> Row] \cup {<<>>}]  BY DEF Inv, Types
  <2>3. rows'[b] = [n \in DOMAIN rows[b] |->
                       IF n \in S THEN [rows[b][n] EXCEPT !.outcome = Imports!Becomes(b, n)]
                                  ELSE rows[b][n]]
        /\ \A c \in Batches \ {b} : rows'[c] = rows[c]
        BY <2>1, <2>2
  <2>4. \A n \in DOMAIN rows[b] : rows[b][n] \in Row
    <3>1. rows[b] \in [RowNumbers -> Row] \/ rows[b] = <<>>  BY <2>2
    <3>2. QED  BY <3>1
  <2>5. \A n \in S : rows[b][n].outcome = "pending"  BY DEF Imports!Pending
  <2>6. \A n \in DOMAIN rows[b] :
            /\ rows'[b][n].key = rows[b][n].key
            /\ rows'[b][n].outcome = "pending" => rows[b][n].outcome = "pending"
        BY <2>3, <2>4, <2>5 DEF Row
  <2>7. DOMAIN rows'[b] = DOMAIN rows[b]  BY <2>3
  <2>8. QED  BY <1>6, <2>3, <2>6, <2>7
<1>8. ASSUME NEW b \in Batches, NEW n \in Imports!Pending(b), Imports!Fail(b, n) PROVE Distinct'
  <2>1. rows' = [rows EXCEPT ![b][n].outcome = "failed"]  BY <1>8 DEF Imports!Fail
  <2>2. rows \in [Batches -> [RowNumbers -> Row] \cup {<<>>}]  BY DEF Inv, Types
  <2>3. rows[b][n] \in Row /\ n \in DOMAIN rows[b]
    <3>1. n \in DOMAIN rows[b]  BY DEF Imports!Pending
    <3>2. rows[b] \in [RowNumbers -> Row] \/ rows[b] = <<>>  BY <2>2
    <3>3. QED  BY <3>1, <3>2
  <2>4. rows'[b] = [rows[b] EXCEPT ![n] = [rows[b][n] EXCEPT !.outcome = "failed"]]
        /\ \A c \in Batches \ {b} : rows'[c] = rows[c]
        BY <2>1, <2>2
  <2>5. /\ DOMAIN rows'[b] = DOMAIN rows[b]
        /\ \A m \in DOMAIN rows[b] \ {n} : rows'[b][m] = rows[b][m]
        /\ rows'[b][n] = [rows[b][n] EXCEPT !.outcome = "failed"]
        BY <2>3, <2>4
  <2>6. rows'[b][n].key = rows[b][n].key /\ rows'[b][n].outcome = "failed"
        BY <2>3, <2>5 DEF Row
  <2>7. QED  BY <1>6, <2>4, <2>5, <2>6
<1>9. ASSUME NEW b \in Batches, Imports!Finish(b) \/ \E n \in Imports!Pending(b) : Imports!Refuse(b, n)
      PROVE  Distinct'
      BY <1>2, <1>9 DEF Imports!Finish, Imports!Refuse
<1>10. ASSUME NEW k \in Keys, Imports!Edit(k) PROVE Distinct'  BY <1>2, <1>10 DEF Imports!Edit
<1>11. CASE UNCHANGED Imports!vars  BY <1>2, <1>11 DEF Imports!vars
<1>12. QED  BY <1>3, <1>4, <1>5, <1>7, <1>8, <1>9, <1>10, <1>11, Zenon DEF Imports!Next

LEMMA InitAs ==
    ASSUME Init
    PROVE  Imports!Init /\ Distinct
<1>1. /\ [b \in Batches |-> Phase(batch[b].status)] = [b \in Batches |-> "none"]
      /\ [b \in Batches |-> batch[b].update] = [b \in Batches |-> FALSE]
      /\ [b \in Batches |-> Report(batch[b])] = [b \in Batches |-> NoCount]
      BY PhaseFacts DEF Init, Absent, Report, Finished
<1>2. NoCount = Imports!NoReport  BY DEF NoCount, Imports!NoReport, Outcomes, Imports!Outcomes
<1>3. Imports!Init  BY <1>1, <1>2 DEF Init, Imports!Init, Report
<1>4. Distinct  BY DEF Init, Distinct, Apart, RowsWith
<1>5. QED  BY <1>3, <1>4

\* Whatever claims, leases, chunks, replays, crashes and successors do to it, a
\* confirmed file is applied row by row, each once and together with its outcome,
\* a row fails only after the database refused it, and the report of a finished
\* file is what became of its rows: for every number of processes, files and rows
\* the queue of importQueueWorker.service.ts implements ImportLedger.
THEOREM QueueImplementsLedger == Spec => ImplementsImports
<1>1. Init => Imports!Init /\ Distinct  BY InitAs
<1>2. Inv /\ Distinct /\ [Next]_vars => [Imports!Next]_(Imports!vars) /\ Distinct'
  <2>1. ASSUME Inv, Distinct, [Next]_vars PROVE [Imports!Next]_(Imports!vars)
        BY <2>1, NextAs
  <2>2. QED  BY <2>1, StaysDistinct
<1>3. QED  BY <1>1, <1>2, Inductive, PTL DEF Spec, ImplementsImports, Imports!Spec

=============================================================================
