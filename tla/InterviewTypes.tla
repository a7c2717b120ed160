---------------------------- MODULE InterviewTypes ----------------------------
(***************************************************************************)
(* Type correctness of Interview, proved for every number of areas,        *)
(* workers, jobs, start requests and injected failures.  Each lemma takes  *)
(* one part of TypeOK and the actions that touch its variables; the last   *)
(* case of each is the frame: every other action leaves them alone.        *)
(***************************************************************************)
EXTENDS Interview, WellFoundedInduction, TLAPS

\* A worker that is not idle holds a job.
LEMMA HasJob ==
    ASSUME TypeOK, NEW w \in Workers, pc[w] # "idle"
    PROVE  wjob[w] \in Jobs
BY DEF TypeOK, WorkerType, WorkerHas

\* MarkFlowDone and a last turn leave a well-formed flow pointer.
LEMMA DoneFlowType ==
    ASSUME NEW n \in Nat
    PROVE  DoneFlow(n) \in Flow /\ DoneFlow(n + 1) \in Flow
BY DEF DoneFlow, Flow, Steps, NoTurn

\* The fields of a flow pointer have their types.
LEMMA FlowFields ==
    ASSUME NEW f \in Flow
    PROVE  f.step \in Steps /\ f.turn \in Nat /\ f.number \in Nat
           /\ f.area \in Areas \cup {NoArea} /\ f.issuedAt \in Nat
BY DEF Flow

\* So does a turn that issues another criterion question.
LEMMA CriterionFlowType ==
    ASSUME NEW t \in Nat \ {0}, NEW n \in Nat, NEW a \in Areas, NEW i \in Nat
    PROVE  [step |-> "criterion", turn |-> t, number |-> n + 1, area |-> a, issuedAt |-> i] \in Flow
BY DEF Flow, Steps

\* The seconds an answer adds to interview_lapsed_seconds are a natural number.
LEMMA IncrementType ==
    ASSUME NEW i \in Nat, NEW c \in Nat
    PROVE  lapsedIncrement(i, c) \in Nat
BY PolicyAssumption DEF lapsedIncrement, AtMostLimit, wholeSecondsSQL

\* The rows of the session keep their types.
LEMMA SessionTypeStep ==
    ASSUME TypeOK, [Next]_vars
    PROVE  SessionType'
<1> USE PolicyAssumption DEF TypeOK, SessionType
<1>1. ASSUME NEW s \in Starters, StartSession(s) PROVE SessionType'
  BY <1>1 DEF StartSession
<1>2. ASSUME NEW s \in Starters, CreateQuestionArea(s) PROVE SessionType'
  BY <1>2 DEF CreateQuestionArea, AreaStatuses
<1>3. ASSUME NEW s \in Starters, SetAreaInProgress(s) PROVE SessionType'
  BY <1>3 DEF SetAreaInProgress, AreaStatuses
<1>4. ASSUME NEW s \in Starters, PrepareStep(s) PROVE SessionType'
  BY <1>4 DEF PrepareStep, Flow, Steps, StartType
<1>5. ASSUME NEW w \in Workers, AdvanceNonCriterionStep(w) PROVE SessionType'
  <2>1. pc[w] # "idle"
    BY <1>5 DEF AdvanceNonCriterionStep
  <2>2. wjob[w] \in Jobs
    BY <2>1, HasJob
  <2>3. jobs[wjob[w]].turn \in Nat
    BY <2>2 DEF JobType, Job
  <2>4. snap[w] \in Snap /\ plan[w] \in Plan
    BY DEF WorkerType
  <2>5. snap[w].flow \in Flow /\ snap[w].cur \in Areas \cup {NoArea} /\ plan[w].issuedAt \in Nat
    BY <2>4 DEF Snap, Plan
  <2>6. snap[w].flow.step \in Steps /\ snap[w].flow.number \in Nat
    BY <2>5 DEF Flow
  <2>7. events' \in Seq([turn : Nat, type : Steps])
    BY <1>5, <2>3, <2>6 DEF AdvanceNonCriterionStep
  <2>8. flow' \in Flow
    <3>1. CASE snap[w].flow.step = "disclaimer"
      BY <1>5, <2>5, <2>6, <3>1 DEF AdvanceNonCriterionStep, Flow, Steps
    <3>2. CASE snap[w].flow.step # "disclaimer"
      BY <1>5, <2>5, <2>6, <3>2 DEF AdvanceNonCriterionStep, Flow, Steps
    <3> QED
      BY <3>1, <3>2
  <2> QED
    BY <1>5, <2>7, <2>8 DEF AdvanceNonCriterionStep
<1>6. ASSUME NEW w \in Workers, ProcessCriterionTurn(w) PROVE SessionType'
  <2>1. pc[w] = "commit"
    BY <1>6 DEF ProcessCriterionTurn
  <2>2. wjob[w] \in Jobs /\ snap[w].cur \in Areas
    BY <2>1, HasJob DEF WorkerHas
  <2>3. jobs[wjob[w]].turn \in Nat /\ jobs[wjob[w]].createdAt \in Nat
    BY <2>2 DEF JobType, Job
  <2>4. snap[w] \in Snap /\ plan[w] \in Plan
    BY DEF WorkerType
  <2>5. /\ snap[w].flow \in Flow
        /\ plan[w].issuedAt \in Nat
        /\ plan[w].nextArea \in Areas \cup {NoArea}
        /\ plan[w].mark \in {"", "complete", "insufficient"}
    BY <2>4 DEF Snap, Plan
  <2>6. snap[w].flow.number \in Nat /\ flow.number \in Nat
    <3>1. flow \in Flow
      OBVIOUS
    <3> QED
      BY <2>5, <3>1, FlowFields
  <2>7. answers' \in Seq([turn : Nat, area : Areas])
    BY <1>6, <2>2, <2>3 DEF ProcessCriterionTurn
  <2>8. flow' \in Flow
    <3>1. NextFlow(w) \in Flow
      <4>1. CASE plan[w].nextArea = NoArea
        BY <2>6, <4>1, DoneFlowType DEF NextFlow
      <4>2. CASE plan[w].nextArea # NoArea
        BY <2>5, <2>6, <4>2, CriterionFlowType DEF NextFlow
      <4> QED
        BY <4>1, <4>2
    <3> QED
      BY <1>6, <3>1 DEF ProcessCriterionTurn
  <2>9. areaStatus' \in [Areas -> AreaStatuses]
    <3>1. ApplyPlan(areaStatus, snap[w].cur, plan[w]) \in [Areas -> AreaStatuses]
      BY <2>2, <2>5 DEF ApplyPlan, AreaStatuses
    <3> QED
      BY <1>6, <3>1 DEF ProcessCriterionTurn
  <2>10. lapsed' \in Nat
    <3>1. flow.issuedAt \in Nat
      BY DEF Flow
    <3>2. lapsedIncrement(flow.issuedAt, jobs[wjob[w]].createdAt) \in Nat
      BY <2>3, <3>1, IncrementType
    <3> QED
      BY <1>6, <3>2 DEF ProcessCriterionTurn
  <2>11. areaCount' \in [Areas -> Nat]
    BY <1>6, <2>2 DEF ProcessCriterionTurn
  <2>12. nextTurn' \in Nat \ {0}
    BY <1>6 DEF ProcessCriterionTurn
  <2>13. UNCHANGED <<status, events, now>>
    BY <1>6 DEF ProcessCriterionTurn
  <2> QED
    BY <2>7, <2>8, <2>9, <2>10, <2>11, <2>12, <2>13
<1>7. ASSUME NEW w \in Workers, MarkAreaNotAssessed(w) PROVE SessionType'
  BY <1>7 DEF MarkAreaNotAssessed, NotAssessed, AreaStatuses
<1>8. ASSUME NEW w \in Workers, MarkFlowDone(w) PROVE SessionType'
  BY <1>8 DEF MarkFlowDone, DoneFlow, Flow, Steps, NoTurn
<1>9. ASSUME NEW w \in Workers, CompleteSession(w) PROVE SessionType'
  BY <1>9 DEF CompleteSession
<1>10. CASE Tick
  BY <1>10 DEF Tick, sessionVars
<1>11. CASE UNCHANGED <<sessionVars, now>>
  BY <1>11 DEF sessionVars, SessionType
<1> QED
  BY <1>1, <1>2, <1>3, <1>4, <1>5, <1>6, <1>7, <1>8, <1>9, <1>10, <1>11
  DEF Next, vars, StartInterview, WorkerStep, WorkerFault, StartRejected,
      GetAnswerCount, GetFlowState, GetInProgressArea, StartFails,
      SubmitAnswerAsync, ResubmitAnswerAsync, ClaimHinted, ClaimNextQueued,
      ReadSession, ReadFlow, ReadAreas, ReadCurrent, RetryAI, EvaluateAnswer,
      OpeningQuestion, TurnMoved, MarkAnswerJob, ReadFails, TxRolledBack,
      CompleteSessionFails, MarkFails, Abandon, RequeueStale, Restart

\* Counting an attempt keeps the job rows well-formed.
LEMMA JobAttempts ==
    ASSUME NEW j \in Jobs, jobs \in [Jobs -> Job], jobs' = [jobs EXCEPT ![j].attempts = @ + 1]
    PROVE  jobs' \in [Jobs -> Job]
BY DEF Job

\* So does storing a result.
LEMMA JobUpdate ==
    ASSUME NEW j \in Jobs, jobs \in [Jobs -> Job], NEW st \in JobStatuses, NEW p \in Payloads,
           jobs' = [jobs EXCEPT ![j].status = st, ![j].payload = p]
    PROVE  jobs' \in [Jobs -> Job]
BY DEF Job

\* Claiming a job keeps the types of job rows and workers.
LEMMA BeginTypes ==
    ASSUME TypeOK, NEW w \in Workers, NEW j \in Jobs, Begin(w, j)
    PROVE  jobs' \in [Jobs -> Job] /\ WorkerType' /\ WorkerHas'
<1>1. jobs' \in [Jobs -> Job]
  BY DEF TypeOK, JobType, Begin, Job, JobStatuses
<1>2. WorkerType'
  BY DEF TypeOK, WorkerType, Begin, PCs, Outcomes
<1>3. WorkerHas'
  BY InterviewAssumption DEF TypeOK, WorkerHas, WorkerType, Begin
<1> QED
  BY <1>1, <1>2, <1>3

\* The job rows and the hint channel keep their types.
LEMMA JobTypeStep ==
    ASSUME TypeOK, [Next]_vars
    PROVE  JobType'
<1> USE PolicyAssumption, InterviewAssumption DEF TypeOK, JobType
<1>1. ASSUME NEW s \in Starters, StartFails(s) PROVE JobType'
  BY <1>1 DEF StartFails, Fault, jobVars
<1>2. ASSUME NEW j \in Jobs, NEW t \in 0 .. nextTurn - 1, SubmitAnswerAsync(j, t) PROVE JobType'
  BY <1>2 DEF SubmitAnswerAsync, enqueueAsyncAnswerJob, Job, JobStatuses, Payloads, SessionType
<1>3. ASSUME NEW j \in Jobs, ResubmitAnswerAsync(j) PROVE JobType'
  BY <1>3 DEF ResubmitAnswerAsync, enqueueAsyncAnswerJob
<1>4. ASSUME NEW w \in Workers, ClaimHinted(w) PROVE JobType'
  <2>1. Head(hints) \in Jobs /\ hints' \in Seq(Jobs)
    BY <1>4 DEF ClaimHinted
  <2>2. jobs' \in [Jobs -> Job]
    BY <1>4, <2>1, BeginTypes DEF ClaimHinted
  <2> QED
    BY <1>4, <2>1, <2>2 DEF ClaimHinted
<1>5. ASSUME NEW w \in Workers, ClaimNextQueued(w) PROVE JobType'
  <2>1. PICK j \in Jobs : Begin(w, j)
    BY <1>5 DEF ClaimNextQueued
  <2>2. jobs' \in [Jobs -> Job]
    BY <2>1, BeginTypes
  <2> QED
    BY <1>5, <2>2 DEF ClaimNextQueued
<1>6. ASSUME NEW w \in Workers, RetryAI(w) PROVE JobType'
  <2>1. wjob[w] \in Jobs
    BY <1>6, HasJob DEF RetryAI
  <2>2. jobs' \in [Jobs -> Job]
    BY <1>6, <2>1, JobAttempts DEF RetryAI
  <2> QED
    BY <1>6, <2>2 DEF RetryAI
<1>7. ASSUME NEW w \in Workers, AdvanceNonCriterionStep(w) PROVE JobType'
  BY <1>7 DEF AdvanceNonCriterionStep, Committed, Fault, jobVars
<1>8. ASSUME NEW w \in Workers, ProcessCriterionTurn(w) PROVE JobType'
  BY <1>8 DEF ProcessCriterionTurn, Committed, Fault, jobVars
<1>9. ASSUME NEW w \in Workers, MarkAreaNotAssessed(w) PROVE JobType'
  BY <1>9 DEF MarkAreaNotAssessed, Fault, jobVars
<1>10. ASSUME NEW w \in Workers, MarkFlowDone(w) PROVE JobType'
  BY <1>10 DEF MarkFlowDone, Fault, jobVars
<1>11. ASSUME NEW w \in Workers, MarkAnswerJob(w) PROVE JobType'
  <2>1. wjob[w] \in Jobs
    BY <1>11, HasJob DEF MarkAnswerJob
  <2>2. outcome[w] \in {"next", "done", "conflict", "failed", "canceled"}
    BY <1>11 DEF MarkAnswerJob, WorkerType, WorkerHas, Outcomes
  <2>3. jobs' \in [Jobs -> Job]
    <3>1. CASE outcome[w] \in {"next", "done"}
      BY <1>11, <2>1, <3>1, JobUpdate DEF MarkAnswerJob, JobStatuses, Payloads
    <3>2. CASE outcome[w] \notin {"next", "done"}
      <4>1. jobs[wjob[w]].payload \in Payloads /\ outcome[w] \in JobStatuses
        BY <2>1, <2>2, <3>2 DEF Job, JobStatuses
      <4> QED
        BY <1>11, <2>1, <3>2, <4>1, JobUpdate DEF MarkAnswerJob
    <3> QED
      BY <3>1, <3>2
  <2> QED
    BY <1>11, <2>3 DEF MarkAnswerJob
<1>12. ASSUME NEW w \in Workers, ReadFails(w) PROVE JobType'
  BY <1>12 DEF ReadFails, Fault, jobVars
<1>13. ASSUME NEW w \in Workers, TxRolledBack(w) PROVE JobType'
  BY <1>13 DEF TxRolledBack, Fault, jobVars
<1>14. ASSUME NEW w \in Workers, CompleteSessionFails(w) PROVE JobType'
  BY <1>14 DEF CompleteSessionFails, Fault, jobVars
<1>15. ASSUME NEW w \in Workers, MarkFails(w) PROVE JobType'
  BY <1>15 DEF MarkFails, Fault, jobVars
<1>16. ASSUME NEW w \in Workers, Abandon(w) PROVE JobType'
  BY <1>16 DEF Abandon, Fault, jobVars
<1>17. CASE RequeueStale
  <2>1. PICK S \in SUBSET Jobs : jobs' = [j \in Jobs |-> IF j \in S THEN [jobs[j] EXCEPT !.status = "queued"] ELSE jobs[j]]
    BY <1>17 DEF RequeueStale
  <2>2. jobs' \in [Jobs -> Job]
    BY <2>1 DEF Job, JobStatuses
  <2> QED
    BY <1>17, <2>2 DEF RequeueStale, Fault
<1>18. CASE Restart
  BY <1>18 DEF Restart, Fault
<1>19. CASE UNCHANGED <<jobVars, faults>>
  BY <1>19 DEF jobVars, JobType
<1> QED
  BY <1>1, <1>2, <1>3, <1>4, <1>5, <1>6, <1>7, <1>8, <1>9, <1>10, <1>11, <1>12,
  <1>13, <1>14, <1>15, <1>16, <1>17, <1>18, <1>19
  DEF Next, vars, StartInterview, WorkerStep, WorkerFault, StartSession,
      StartRejected, GetAnswerCount, GetFlowState, CreateQuestionArea,
      SetAreaInProgress, GetInProgressArea, PrepareStep, ReadSession, ReadFlow,
      ReadAreas, ReadCurrent, EvaluateAnswer, OpeningQuestion, TurnMoved,
      CompleteSession, Tick

\* The StartInterview requests keep their types.
LEMMA StartTypeStep ==
    ASSUME TypeOK, [Next]_vars
    PROVE  StartType'
<1> USE PolicyAssumption, InterviewAssumption DEF TypeOK, StartType
<1>1. ASSUME NEW s \in Starters, StartSession(s) PROVE StartType'
  BY <1>1 DEF StartSession, SPCs
<1>2. ASSUME NEW s \in Starters, StartRejected(s) PROVE StartType'
  BY <1>2 DEF StartRejected, SPCs
<1>3. ASSUME NEW s \in Starters, GetAnswerCount(s) PROVE StartType'
  BY <1>3 DEF GetAnswerCount, SPCs
<1>4. ASSUME NEW s \in Starters, GetFlowState(s) PROVE StartType'
  BY <1>4 DEF GetFlowState, SPCs
<1>5. ASSUME NEW s \in Starters, CreateQuestionArea(s) PROVE StartType'
  BY <1>5 DEF CreateQuestionArea, SPCs
<1>6. ASSUME NEW s \in Starters, SetAreaInProgress(s) PROVE StartType'
  BY <1>6 DEF SetAreaInProgress, SPCs
<1>7. ASSUME NEW s \in Starters, GetInProgressArea(s) PROVE StartType'
  BY <1>7 DEF GetInProgressArea, CurrentArea, InProgress, SPCs, Areas
<1>8. ASSUME NEW s \in Starters, PrepareStep(s) PROVE StartType'
  BY <1>8 DEF PrepareStep, SPCs
<1>9. ASSUME NEW s \in Starters, StartFails(s) PROVE StartType'
  BY <1>9 DEF StartFails, SPCs
<1>10. CASE Restart
  BY <1>10 DEF Restart, SPCs
<1>11. CASE UNCHANGED startVars
  BY <1>11 DEF startVars, StartType
<1> QED
  BY <1>1, <1>2, <1>3, <1>4, <1>5, <1>6, <1>7, <1>8, <1>9, <1>10, <1>11
  DEF Next, vars, StartInterview, WorkerStep, WorkerFault, SubmitAnswerAsync,
      ResubmitAnswerAsync, ClaimHinted, ClaimNextQueued, ReadSession, ReadFlow,
      ReadAreas, ReadCurrent, RetryAI, EvaluateAnswer, OpeningQuestion,
      AdvanceNonCriterionStep, ProcessCriterionTurn, TurnMoved,
      MarkAreaNotAssessed, MarkFlowDone, CompleteSession, MarkAnswerJob, ReadFails,
      TxRolledBack, CompleteSessionFails, MarkFails, Abandon, RequeueStale, Tick

\* The empty snapshot of an idle worker is a snapshot.
LEMMA NoSnapType == NoSnap \in Snap
BY DEF NoSnap, Snap, DoneFlow, Flow, Steps, NoTurn, AreaStatuses

\* The empty plan of an idle worker is a plan.
LEMMA NoPlanType == NoPlan \in Plan
BY DEF NoPlan, Plan

\* Reading the lapsed seconds keeps the snapshots well-formed.
LEMMA SnapLapsed ==
    ASSUME NEW w \in Workers, NEW t \in Nat, snap \in [Workers -> Snap],
           snap' = [snap EXCEPT ![w].lapsed = t]
    PROVE  snap' \in [Workers -> Snap]
BY DEF Snap

\* Recording the opening question keeps the plans well-formed.
LEMMA PlanOpening ==
    ASSUME NEW w \in Workers, NEW t \in Nat, plan \in [Workers -> Plan], NEW b \in BOOLEAN,
           plan' = [plan EXCEPT ![w].sub = b, ![w].issuedAt = t]
    PROVE  plan' \in [Workers -> Plan]
BY DEF Plan

\* A non-empty set of areas has a first one in configured order.
LEMMA LeastArea ==
    ASSUME NEW S \in SUBSET Areas, S # {}
    PROVE  \E a \in S : \A b \in S : a <= b
<1> DEFINE R == OpToRel(<, Nat)
<1>1. S \subseteq Nat
  BY PolicyAssumption DEF Areas
<1>2. \E x \in S : \A y \in S : ~ (<<y, x>> \in R)
  <2>1. IsWellFoundedOn(R, Nat)
    BY NatLessThanWellFounded
  <2> HIDE DEF R
  <2> QED
  BY <1>1, <2>1, WFMin
<1>3. \A x, y \in Nat : <<y, x>> \in R <=> y < x
  BY DEF OpToRel
<1> HIDE DEF R
<1>4. PICK x \in S : \A y \in S : ~ (<<y, x>> \in R)
  BY <1>2
<1>5. \A y \in S : ~ (y < x)
  BY <1>1, <1>3, <1>4
<1>6. \A y \in S : x <= y
  BY <1>1, <1>5
<1> QED
  BY <1>6

\* SelectNextPendingArea returns a configured area or none.
LEMMA SelectType ==
    ASSUME NEW st
    PROVE  SelectNextPendingArea(st) \in Areas \cup {NoArea}
<1> DEFINE open == {a \in Areas : st[a] \in Reachable}
<1>1. CASE open = {}
  BY <1>1 DEF SelectNextPendingArea
<1>2. CASE open # {}
  <2>1. \E a \in open : \A b \in open : a <= b
    BY <1>2, LeastArea
  <2> QED
    BY <1>2, <2>1 DEF SelectNextPendingArea
<1> QED
  BY <1>1, <1>2

\* DecideCriterionTurn returns a decision, whatever the model answered.
LEMMA DecisionType ==
    ASSUME NEW c, NEW r, NEW n
    PROVE  DecideCriterionTurn(c, r, n) \in Decisions
BY DEF DecideCriterionTurn, Decisions

\* planCriterionTransition returns a plan.
LEMMA PlanTransitionType ==
    ASSUME NEW s \in Snap, NEW ev \in Evaluation, now \in Nat
    PROVE  PlanTransition(s, ev) \in Plan
<1> DEFINE d == DecideCriterionTurn(ev.criterion, ev.recommendation, s.count + 1)
<1>1. d.action \in {"stay", "next"} /\ d.mark \in {"", "complete", "insufficient"}
  BY DecisionType DEF Decisions
<1>2. ev.flags \in SUBSET Areas /\ ev.sub \in BOOLEAN /\ s.cur \in Areas \cup {NoArea}
  BY DEF Evaluation, Snap
<1>3. \A p : DetermineNextAreaAfterCriterionTurn(p, s.cur, d) \in Areas \cup {NoArea}
  BY <1>2, SelectType DEF DetermineNextAreaAfterCriterionTurn
<1> QED
  BY <1>1, <1>2, <1>3 DEF PlanTransition, Plan

\* The snapshot and the step of ReadCurrent when the in-progress area is a.
SnapOf(w, a) ==
    [lapsed |-> snap[w].lapsed, flow |-> snap[w].flow, areas |-> snap[w].areas,
     cur |-> a, count |-> IF a = NoArea THEN 0 ELSE areaCount[a]]

ReadCurrentOf(w, a) ==
    LET s == SnapOf(w, a)
        r == Route(s, jobs[wjob[w]])
    IN  /\ pc[w] = "current"
        /\ a \in CurrentArea
        /\ snap' = [snap EXCEPT ![w] = s]
        /\ pc' = [pc EXCEPT ![w] = r]
        /\ todo' = [todo EXCEPT ![w] = IF r = "timeout" THEN Unresolved(s) ELSE {}]
        /\ outcome' = [outcome EXCEPT ![w] = IF r = "mark" THEN "conflict" ELSE "none"]
        /\ plan' = [plan EXCEPT ![w].issuedAt = IF r = "advance" THEN now ELSE 0]
        /\ UNCHANGED <<sessionVars, now, jobVars, wjob, tries, startVars, faults>>

\* ReadCurrent is ReadCurrentOf some area.
LEMMA ReadCurrentCases ==
    ASSUME NEW w \in Workers, ReadCurrent(w)
    PROVE  \E a \in Areas \cup {NoArea} : ReadCurrentOf(w, a)
BY DEF ReadCurrent, ReadCurrentOf, SnapOf, CurrentArea, InProgress

\* The local variables of the workers keep their types.
LEMMA WorkerTypeStep ==
    ASSUME TypeOK, [Next]_vars
    PROVE  WorkerType'
<1> USE PolicyAssumption, InterviewAssumption DEF TypeOK, WorkerType
<1>1. ASSUME NEW w \in Workers, ClaimHinted(w) PROVE WorkerType'
  <2>1. Head(hints) \in Jobs
    BY <1>1 DEF ClaimHinted, JobType
  <2>2. CASE Begin(w, Head(hints))
    BY <2>1, <2>2, BeginTypes
  <2>3. CASE UNCHANGED workerVars
    BY <2>3 DEF workerVars
  <2> QED
    BY <1>1, <2>2, <2>3 DEF ClaimHinted
<1>2. ASSUME NEW w \in Workers, ClaimNextQueued(w) PROVE WorkerType'
  BY <1>2 DEF ClaimNextQueued, Begin, PCs, Outcomes
<1>3. ASSUME NEW w \in Workers, ReadSession(w) PROVE WorkerType'
  <2>1. snap' \in [Workers -> Snap]
    <3>1. lapsed \in Nat /\ (snap' = snap \/ snap' = [snap EXCEPT ![w].lapsed = lapsed])
      BY <1>3 DEF ReadSession, SessionType
    <3> QED
      BY <3>1, SnapLapsed
  <2>2. pc' \in [Workers -> PCs] /\ outcome' \in [Workers -> Outcomes]
    BY <1>3 DEF ReadSession, Finish, PCs, Outcomes
  <2> QED
    BY <1>3, <2>1, <2>2 DEF ReadSession
<1>4. ASSUME NEW w \in Workers, ReadFlow(w) PROVE WorkerType'
  BY <1>4 DEF ReadFlow, SessionType, Snap, PCs
<1>5. ASSUME NEW w \in Workers, ReadAreas(w) PROVE WorkerType'
  BY <1>5 DEF ReadAreas, SessionType, Snap, PCs
<1>6. ASSUME NEW w \in Workers, ReadCurrent(w) PROVE WorkerType'
  <2>1. PICK a \in Areas \cup {NoArea} : ReadCurrentOf(w, a)
    BY <1>6, ReadCurrentCases
  <2> DEFINE s == SnapOf(w, a)
  <2>2. s \in Snap
    BY DEF SessionType, Snap, SnapOf
  <2>3. Route(s, jobs[wjob[w]]) \in PCs
    BY DEF Route, PCs
  <2>4. Unresolved(s) \subseteq Areas
    BY DEF Unresolved
  <2>5. snap' \in [Workers -> Snap] /\ pc' \in [Workers -> PCs] /\ todo' \in [Workers -> SUBSET Areas]
    BY <2>1, <2>2, <2>3, <2>4 DEF ReadCurrentOf
  <2>6. outcome' \in [Workers -> Outcomes]
    BY <2>1 DEF ReadCurrentOf, Outcomes
  <2>7. plan' \in [Workers -> Plan]
    <3>1. PICK t \in Nat : plan' = [plan EXCEPT ![w].issuedAt = t]
      BY <2>1 DEF ReadCurrentOf, SessionType
    <3> QED
      BY <3>1 DEF Plan
  <2> QED
    BY <2>1, <2>5, <2>6, <2>7 DEF ReadCurrentOf
<1>7. ASSUME NEW w \in Workers, RetryAI(w) PROVE WorkerType'
  BY <1>7 DEF RetryAI
<1>8. ASSUME NEW w \in Workers, EvaluateAnswer(w) PROVE WorkerType'
  <2>1. PICK ev \in Evaluation :
          /\ plan' = [plan EXCEPT ![w] = PlanTransition(snap[w], ev)]
          /\ pc' = [pc EXCEPT ![w] = IF PlanTransition(snap[w], ev).action = "next"
                                        /\ PlanTransition(snap[w], ev).nextArea # NoArea
                                     THEN "opening" ELSE "commit"]
    BY <1>8 DEF EvaluateAnswer
  <2>2. PlanTransition(snap[w], ev) \in Plan
    BY PlanTransitionType DEF SessionType
  <2>3. plan' \in [Workers -> Plan]
    BY <2>1, <2>2
  <2>4. pc' \in [Workers -> PCs] /\ tries' \in [Workers -> Nat]
    BY <1>8, <2>1 DEF EvaluateAnswer, PCs
  <2> QED
    BY <1>8, <2>3, <2>4 DEF EvaluateAnswer
<1>9. ASSUME NEW w \in Workers, OpeningQuestion(w) PROVE WorkerType'
  <2>1. PICK sub \in BOOLEAN : plan' = [plan EXCEPT ![w].sub = @ \/ sub, ![w].issuedAt = now]
    BY <1>9 DEF OpeningQuestion
  <2>2. plan' \in [Workers -> Plan]
    <3> DEFINE b == plan[w].sub \/ sub
    <3>1. plan' = [plan EXCEPT ![w].sub = b, ![w].issuedAt = now]
      BY <2>1
    <3>2. b \in BOOLEAN /\ now \in Nat
      BY DEF SessionType
    <3> HIDE DEF b
    <3> QED
      BY <3>1, <3>2, PlanOpening
  <2>3. pc' \in [Workers -> PCs] /\ tries' \in [Workers -> Nat]
    BY <1>9 DEF OpeningQuestion, PCs
  <2> QED
    BY <1>9, <2>2, <2>3 DEF OpeningQuestion
<1>10. ASSUME NEW w \in Workers, AdvanceNonCriterionStep(w) PROVE WorkerType'
  BY <1>10 DEF AdvanceNonCriterionStep, Committed, Finish, PCs, Outcomes
<1>11. ASSUME NEW w \in Workers, ProcessCriterionTurn(w) PROVE WorkerType'
  BY <1>11 DEF ProcessCriterionTurn, Committed, Finish, PCs, Outcomes
<1>12. ASSUME NEW w \in Workers, TurnMoved(w) PROVE WorkerType'
  BY <1>12 DEF TurnMoved, Finish, PCs, Outcomes
<1>13. ASSUME NEW w \in Workers, MarkAreaNotAssessed(w) PROVE WorkerType'
  BY <1>13 DEF MarkAreaNotAssessed, PCs
<1>14. ASSUME NEW w \in Workers, MarkFlowDone(w) PROVE WorkerType'
  BY <1>14 DEF MarkFlowDone, PCs
<1>15. ASSUME NEW w \in Workers, CompleteSession(w) PROVE WorkerType'
  BY <1>15 DEF CompleteSession, Finish, PCs, Outcomes
<1>16. ASSUME NEW w \in Workers, MarkAnswerJob(w) PROVE WorkerType'
  BY <1>16, NoSnapType, NoPlanType DEF MarkAnswerJob, Release, PCs, Outcomes
<1>17. ASSUME NEW w \in Workers, ReadFails(w) PROVE WorkerType'
  BY <1>17 DEF ReadFails, Finish, PCs, Outcomes
<1>18. ASSUME NEW w \in Workers, TxRolledBack(w) PROVE WorkerType'
  BY <1>18 DEF TxRolledBack, Finish, PCs, Outcomes
<1>19. ASSUME NEW w \in Workers, CompleteSessionFails(w) PROVE WorkerType'
  BY <1>19, NoSnapType, NoPlanType DEF CompleteSessionFails, Release, PCs, Outcomes
<1>20. ASSUME NEW w \in Workers, MarkFails(w) PROVE WorkerType'
  BY <1>20, NoSnapType, NoPlanType DEF MarkFails, Release, PCs, Outcomes
<1>21. ASSUME NEW w \in Workers, Abandon(w) PROVE WorkerType'
  BY <1>21, NoSnapType, NoPlanType DEF Abandon, Release, PCs, Outcomes
<1>22. CASE Restart
  BY <1>22, NoSnapType, NoPlanType DEF Restart, PCs, Outcomes
<1>23. CASE UNCHANGED workerVars
  BY <1>23 DEF workerVars, WorkerType
<1> QED
  BY <1>1, <1>2, <1>3, <1>4, <1>5, <1>6, <1>7, <1>8, <1>9, <1>10, <1>11, <1>12,
  <1>13, <1>14, <1>15, <1>16, <1>17, <1>18, <1>19, <1>20, <1>21, <1>22, <1>23
  DEF Next, vars, StartInterview, WorkerStep, WorkerFault, StartSession,
      StartRejected, GetAnswerCount, GetFlowState, CreateQuestionArea,
      SetAreaInProgress, GetInProgressArea, PrepareStep, StartFails,
      SubmitAnswerAsync, ResubmitAnswerAsync, RequeueStale, Tick

\* A worker past a claim has a job, past the routing an area, before the mark a result.
LEMMA WorkerHasStep ==
    ASSUME TypeOK, [Next]_vars
    PROVE  WorkerHas'
<1> USE PolicyAssumption, InterviewAssumption DEF TypeOK, WorkerHas
<1>1. ASSUME NEW w \in Workers, ClaimHinted(w) PROVE WorkerHas'
  BY <1>1 DEF ClaimHinted, Begin, JobType, WorkerType, workerVars
<1>2. ASSUME NEW w \in Workers, ClaimNextQueued(w) PROVE WorkerHas'
  BY <1>2 DEF ClaimNextQueued, Begin, WorkerType, Outcomes, WorkerType
<1>3. ASSUME NEW w \in Workers, ReadSession(w) PROVE WorkerHas'
  BY <1>3 DEF ReadSession, Finish, WorkerType, Snap
<1>4. ASSUME NEW w \in Workers, ReadFlow(w) PROVE WorkerHas'
  BY <1>4 DEF ReadFlow, Snap, WorkerType, WorkerType
<1>5. ASSUME NEW w \in Workers, ReadAreas(w) PROVE WorkerHas'
  BY <1>5 DEF ReadAreas, Snap, WorkerType, WorkerType
<1>6. ASSUME NEW w \in Workers, ReadCurrent(w) PROVE WorkerHas'
  BY <1>6 DEF ReadCurrent, CurrentArea, InProgress, Route, WorkerType
<1>7. ASSUME NEW w \in Workers, RetryAI(w) PROVE WorkerHas'
  BY <1>7 DEF RetryAI, WorkerType
<1>8. ASSUME NEW w \in Workers, EvaluateAnswer(w) PROVE WorkerHas'
  BY <1>8 DEF EvaluateAnswer, WorkerType, Snap
<1>9. ASSUME NEW w \in Workers, OpeningQuestion(w) PROVE WorkerHas'
  BY <1>9 DEF OpeningQuestion, WorkerType
<1>10. ASSUME NEW w \in Workers, AdvanceNonCriterionStep(w) PROVE WorkerHas'
  BY <1>10 DEF AdvanceNonCriterionStep, Committed, Finish, WorkerType, Outcomes, WorkerType
<1>11. ASSUME NEW w \in Workers, ProcessCriterionTurn(w) PROVE WorkerHas'
  BY <1>11 DEF ProcessCriterionTurn, Committed, Finish, WorkerType, Outcomes, WorkerType
<1>12. ASSUME NEW w \in Workers, TurnMoved(w) PROVE WorkerHas'
  BY <1>12 DEF TurnMoved, Finish, WorkerType, Outcomes, WorkerType
<1>13. ASSUME NEW w \in Workers, MarkAreaNotAssessed(w) PROVE WorkerHas'
  BY <1>13 DEF MarkAreaNotAssessed, WorkerType, WorkerType
<1>14. ASSUME NEW w \in Workers, MarkFlowDone(w) PROVE WorkerHas'
  BY <1>14 DEF MarkFlowDone, WorkerType, WorkerType
<1>15. ASSUME NEW w \in Workers, CompleteSession(w) PROVE WorkerHas'
  BY <1>15 DEF CompleteSession, Finish, WorkerType, Outcomes, WorkerType
<1>16. ASSUME NEW w \in Workers, MarkAnswerJob(w) PROVE WorkerHas'
  BY <1>16 DEF MarkAnswerJob, Release, WorkerType, Outcomes, WorkerType
<1>17. ASSUME NEW w \in Workers, ReadFails(w) PROVE WorkerHas'
  BY <1>17 DEF ReadFails, Finish, WorkerType, Outcomes, WorkerType
<1>18. ASSUME NEW w \in Workers, TxRolledBack(w) PROVE WorkerHas'
  BY <1>18 DEF TxRolledBack, Finish, WorkerType, Outcomes, WorkerType
<1>19. ASSUME NEW w \in Workers, CompleteSessionFails(w) PROVE WorkerHas'
  BY <1>19 DEF CompleteSessionFails, Release, WorkerType, Outcomes, WorkerType
<1>20. ASSUME NEW w \in Workers, MarkFails(w) PROVE WorkerHas'
  BY <1>20 DEF MarkFails, Release, WorkerType, Outcomes, WorkerType
<1>21. ASSUME NEW w \in Workers, Abandon(w) PROVE WorkerHas'
  BY <1>21 DEF Abandon, Release, WorkerType, Outcomes, WorkerType
<1>22. CASE Restart
  BY <1>22 DEF Restart, WorkerType, Outcomes, WorkerType
<1>23. CASE UNCHANGED workerVars
  BY <1>23 DEF workerVars, WorkerHas
<1> QED
  BY <1>1, <1>2, <1>3, <1>4, <1>5, <1>6, <1>7, <1>8, <1>9, <1>10, <1>11, <1>12,
  <1>13, <1>14, <1>15, <1>16, <1>17, <1>18, <1>19, <1>20, <1>21, <1>22, <1>23
  DEF Next, vars, StartInterview, WorkerStep, WorkerFault, StartSession,
      StartRejected, GetAnswerCount, GetFlowState, CreateQuestionArea,
      SetAreaInProgress, GetInProgressArea, PrepareStep, StartFails,
      SubmitAnswerAsync, ResubmitAnswerAsync, RequeueStale, Tick

\* The initial rows have their types.
LEMMA TypeInit == Init => TypeOK
<1> SUFFICES ASSUME Init PROVE TypeOK
  OBVIOUS
<1> USE PolicyAssumption, InterviewAssumption DEF Init
<1>1. SessionType
  BY DEF SessionType, Flow, Steps, NoTurn, AreaStatuses
<1>2. JobType
  BY DEF JobType, Job, JobStatuses, Payloads, NoTurn
<1>3. WorkerType
  BY NoSnapType, NoPlanType DEF WorkerType, PCs, Outcomes
<1>4. StartType
  BY DEF StartType, SPCs
<1>5. WorkerHas
  BY DEF WorkerHas
<1> QED
  BY <1>1, <1>2, <1>3, <1>4, <1>5 DEF TypeOK

\* Every step keeps every part of the type invariant.
LEMMA TypeStep ==
    ASSUME TypeOK, [Next]_vars
    PROVE  TypeOK'
BY SessionTypeStep, JobTypeStep, WorkerTypeStep, StartTypeStep, WorkerHasStep DEF TypeOK

\* Type correctness: no worker ever stores a job it did not claim, an answer
\* without an area, or a result it does not have.
THEOREM TypeCorrect == Spec => []TypeOK
<1>1. Init => TypeOK
  BY TypeInit
<1>2. TypeOK /\ [Next]_vars => TypeOK'
  BY TypeStep
<1> QED
  BY <1>1, <1>2, PTL DEF Spec

=============================================================================
