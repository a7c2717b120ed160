--------------------------- MODULE MCInterviewPage ---------------------------
(* InterviewPage for TLC. *)
EXTENDS InterviewPage, TLC

=============================================================================
