---------------------------- MODULE MCReportJobs ----------------------------
(* ReportJobs for TLC. *)
EXTENDS ReportJobs, TLC

Symmetry == Permutations(Requests) \cup Permutations(Workers)

=============================================================================
