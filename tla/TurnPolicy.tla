----------------------------- MODULE TurnPolicy -----------------------------
(***************************************************************************)
(* The turn policy of the interview package: pure functions that decide,   *)
(* from one AI evaluation, what happens to the current focus area, which   *)
(* area comes next, and how much interview time is left.                   *)
(*                                                                         *)
(* A focus area is the position of its slug in the configured order, so    *)
(* area 1 is AreaConfigs[0].  Times are counted in half seconds: the code  *)
(* converts elapsed time to whole seconds in two places, with two          *)
(* different roundings.                                                    *)
(***************************************************************************)
EXTENDS Integers

CONSTANTS
    NAreas,                 \* number of configured focus areas
    MaxQuestionsPerArea,    \* 6 in the code
    AnswerTimeLimit,        \* seconds a single answer may consume
    InterviewBudget         \* seconds of the whole interview

ASSUME PolicyAssumption ==
    /\ NAreas \in Nat \ {0}
    /\ MaxQuestionsPerArea \in Nat \ {0}
    /\ AnswerTimeLimit \in Nat
    /\ InterviewBudget \in Nat
    /\ AnswerTimeLimit <= InterviewBudget    \* enforced at startup

Areas  == 1 .. NAreas
NoArea == 0              \* the empty slug

\* Statuses of a question_areas row; "absent" is a row not inserted yet.
AreaStatuses ==
    {"absent", "pending", "pre_addressed", "in_progress",
     "complete", "insufficient", "not_assessed"}

Reachable == {"pending", "pre_addressed"}

isAreaUnresolved(st) == st \in {"pending", "pre_addressed", "in_progress"}

Resolved(st) == st \in {"complete", "insufficient", "not_assessed"}

-----------------------------------------------------------------------------
(* One evaluation: decide whether to stay on the area or leave it.         *)

CriterionStatuses == {"sufficient", "partially_sufficient", "insufficient"}
Recommendations   == {"move_on", "follow_up"}

Decisions == [action : {"stay", "next"}, mark : {"", "complete", "insufficient"}]

\* Mutant: the follow-up limit is compared after the fact.
DecideOffByOne(criterion, recommendation, questionsCount) ==
    IF criterion = "sufficient"
    THEN [action |-> "next", mark |-> "complete"]
    ELSE IF recommendation = "move_on" \/ questionsCount > MaxQuestionsPerArea
         THEN [action |-> "next", mark |-> "insufficient"]
         ELSE [action |-> "stay", mark |-> ""]

DecideCriterionTurn(criterion, recommendation, questionsCount) ==
    IF criterion = "sufficient"
    THEN [action |-> "next", mark |-> "complete"]
    ELSE IF recommendation = "move_on" \/ questionsCount >= MaxQuestionsPerArea
         THEN [action |-> "next", mark |-> "insufficient"]
         ELSE [action |-> "stay", mark |-> ""]

\* The first pending or pre-addressed area in configured order, if any.
SelectNextPendingArea(st) ==
    LET open == {a \in Areas : st[a] \in Reachable}
    IN  IF open = {} THEN NoArea
        ELSE CHOOSE a \in open : \A b \in open : a <= b

\* The areas as they will look once the decision is applied: the current area
\* takes its terminal status, flagged pending areas become pre-addressed.
projectAreas(st, current, decision, flags) ==
    [a \in Areas |->
        IF a = current
        THEN IF decision.mark = "" THEN st[a] ELSE decision.mark
        ELSE IF st[a] = "pending" /\ a \in flags THEN "pre_addressed" ELSE st[a]]

DetermineNextAreaAfterCriterionTurn(projected, current, decision) ==
    IF decision.action # "next" THEN current ELSE SelectNextPendingArea(projected)

-----------------------------------------------------------------------------
(* Timing.                                                                 *)

\* Go: int(d.Seconds()) truncates; a negative duration counts as nothing.
wholeSecondsGo(ticks) == IF ticks <= 0 THEN 0 ELSE ticks \div 2

\* Postgres: EXTRACT(EPOCH FROM ...)::int rounds half away from zero.
wholeSecondsSQL(ticks) == IF ticks <= 0 THEN 0 ELSE (ticks + 1) \div 2

AtMostLimit(s) == IF s > AnswerTimeLimit THEN AnswerTimeLimit ELSE s

liveCriterionElapsedSeconds(f, reference) ==
    IF f.step # "criterion" \/ f.turn = 0 THEN 0
    ELSE AtMostLimit(wholeSecondsGo(reference - f.issuedAt))

calcEffectiveTimeRemaining(lapsed, live) ==
    IF InterviewBudget - (lapsed + live) < 0 THEN 0
    ELSE InterviewBudget - (lapsed + live)

\* What one answered criterion question adds to interview_lapsed_seconds.
lapsedIncrement(issuedAt, submittedAt) ==
    AtMostLimit(wholeSecondsSQL(submittedAt - issuedAt))

=============================================================================
