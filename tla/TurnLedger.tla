----------------------------- MODULE TurnLedger -----------------------------
(***************************************************************************)
(* What the interview promises about turns, without jobs, workers, areas   *)
(* or time: turn ids are issued in sequence, at most one is expected at a  *)
(* time, an answer is accepted only for the expected turn, and accepting   *)
(* it stores one row and replaces the expected turn in the same step.      *)
(***************************************************************************)
EXTENDS Naturals

VARIABLES
    expected,   \* the turn id a client must answer, 0 if there is none
    issued,     \* the next turn id
    applied,    \* turns that were answered
    rows        \* how many answers and events were stored

ledgerVars == <<expected, issued, applied, rows>>

Init ==
    /\ expected = 0
    /\ issued = 1
    /\ applied = {}
    /\ rows = 0

\* StartInterview replaces whatever is expected by a new turn.
Issue ==
    /\ expected' = issued
    /\ issued' = issued + 1
    /\ UNCHANGED <<applied, rows>>

Apply ==
    /\ expected # 0
    /\ expected \notin applied
    /\ applied' = applied \cup {expected}
    /\ rows' = rows + 1
    /\ \/ expected' = issued /\ issued' = issued + 1
       \/ expected' = 0 /\ UNCHANGED issued

\* The interview ends; the expected turn is withdrawn unanswered.
Close ==
    /\ expected' = 0
    /\ UNCHANGED <<issued, applied, rows>>

Next == Issue \/ Apply \/ Close

Spec == Init /\ [][Next]_ledgerVars

=============================================================================
