----------------------------- MODULE MCInterview -----------------------------
(* Model values and symmetry for the runs of Interview.                    *)
EXTENDS Interview, TLC

\* Workers, jobs and start requests are interchangeable in every safety
\* property; the liveness run uses no symmetry.
Symmetry == Permutations(Workers) \cup Permutations(Jobs) \cup Permutations(Starters)

=============================================================================
