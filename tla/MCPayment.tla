------------------------------ MODULE MCPayment ------------------------------
(* Model values and symmetry for the runs of Payment.                      *)
EXTENDS Payment, TLC

\* Deliveries are interchangeable, and so are polls.
Symmetry == Permutations(Webhooks) \cup Permutations(Polls)

=============================================================================
