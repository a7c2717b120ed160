--------------------------- MODULE MCSessionAccess ---------------------------
(* SessionAccess for TLC. *)
EXTENDS SessionAccess, TLC

\* Requests are interchangeable, and so are the redemptions whose sessions
\* nobody visits.
Symmetry == Permutations(Requests) \cup Permutations(Claims \ Visited)

=============================================================================
