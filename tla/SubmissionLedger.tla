-------------------------- MODULE SubmissionLedger --------------------------
(***************************************************************************)
(* What recordSubmission promises its callers, without transactions, locks *)
(* or retries: a report and the spending of the capability that authorised *)
(* it are one indivisible event, no capability is spent twice, and one     *)
(* client attempt is recorded at most once per receipt lifetime.           *)
(***************************************************************************)
EXTENDS Naturals

CONSTANT ReceiptTTL

VARIABLES ledger,   \* the recorded reports: attempt, token and submission time
          spent     \* the capabilities that can authorise nothing any more

Init == ledger = {} /\ spent = {}

Record(e) ==
    /\ e.token \notin spent
    /\ \A f \in ledger : f.attempt = e.attempt => f.at + ReceiptTTL <= e.at
    /\ ledger' = ledger \cup {e}
    /\ spent' = spent \cup {e.token}

\* Whatever report is new in the ledger was recorded by this step.
Next == \E e \in ledger' \ ledger : Record(e)

Spec == Init /\ [][Next]_<<ledger, spent>>

=============================================================================
