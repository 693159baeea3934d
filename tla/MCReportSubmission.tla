------------------------ MODULE MCReportSubmission -------------------------
(* Instances of ReportSubmission for TLC.                                  *)
EXTENDS ReportSubmission, TLC

Symmetry == Permutations(Requests) \cup Permutations(Attempts) \cup Permutations(Tokens)

=============================================================================
