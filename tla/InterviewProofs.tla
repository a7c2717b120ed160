--------------------------- MODULE InterviewProofs ---------------------------
(***************************************************************************)
(* The safety properties of Interview, proved for every value of its       *)
(* constants.  The argument is about turn ids.  A step either leaves the   *)
(* flow pointer alone, or puts a turn id on it that no job can carry yet,  *)
(* or clears it.  So if a worker's job still answers the expected turn,    *)
(* nothing was committed since the worker read its snapshot, and what it   *)
(* read (lapsed seconds, question count, area in progress) still holds.    *)
(***************************************************************************)
EXTENDS InterviewTypes

\* What a step may do to the expected turn.
FlowKept    == flow' = flow /\ nextTurn' = nextTurn
FlowIssued  == flow'.turn = nextTurn /\ nextTurn' = nextTurn + 1
FlowCleared == flow'.turn = NoTurn /\ nextTurn' = nextTurn

\* A step keeps the flow pointer, issues a fresh turn id on it, or clears it.
LEMMA FlowMoves ==
    ASSUME TypeOK, [Next]_vars
    PROVE  FlowKept \/ FlowIssued \/ FlowCleared
<1>1. ASSUME NEW s \in Starters, PrepareStep(s) PROVE FlowIssued
  BY <1>1 DEF PrepareStep, FlowIssued
<1>2. ASSUME NEW w \in Workers, AdvanceNonCriterionStep(w) PROVE FlowIssued
  BY <1>2 DEF AdvanceNonCriterionStep, FlowIssued
<1>3. ASSUME NEW w \in Workers, ProcessCriterionTurn(w) PROVE FlowIssued \/ FlowCleared
  BY <1>3 DEF ProcessCriterionTurn, NextFlow, DoneFlow, FlowIssued, FlowCleared
<1>4. ASSUME NEW w \in Workers, MarkFlowDone(w) PROVE FlowKept \/ FlowCleared
  BY <1>4 DEF MarkFlowDone, DoneFlow, FlowKept, FlowCleared
<1>5. CASE UNCHANGED <<flow, nextTurn>>
  BY <1>5 DEF FlowKept
<1> QED
  BY <1>1, <1>2, <1>3, <1>4, <1>5
  DEF Next, vars, sessionVars, StartInterview, WorkerStep, WorkerFault,
      StartSession, StartRejected, GetAnswerCount, GetFlowState, CreateQuestionArea,
      SetAreaInProgress, GetInProgressArea, StartFails, SubmitAnswerAsync,
      ResubmitAnswerAsync, ClaimHinted, ClaimNextQueued, ReadSession, ReadFlow, ReadAreas,
      ReadCurrent, RetryAI, EvaluateAnswer, OpeningQuestion, TurnMoved, MarkAreaNotAssessed,
      CompleteSession, MarkAnswerJob, ReadFails, TxRolledBack, CompleteSessionFails,
      MarkFails, Abandon, RequeueStale, Restart, Tick

\* A submitted job keeps its turn id and its creation time for ever, and no
\* step makes a row unsubmitted.
JobKept(j) ==
    /\ jobs'[j].turn = jobs[j].turn
    /\ jobs'[j].createdAt = jobs[j].createdAt
    /\ jobs'[j].status # "none"

\* Every action that writes a job row keeps what was submitted.
LEMMA JobStable ==
    ASSUME TypeOK, [Next]_vars, NEW k \in Jobs, jobs[k].status # "none"
    PROVE  JobKept(k)
<1> USE DEF JobKept
<1>1. ASSUME NEW j \in Jobs, NEW t \in 0 .. nextTurn - 1, SubmitAnswerAsync(j, t) PROVE JobKept(k)
  BY <1>1 DEF SubmitAnswerAsync, TypeOK, JobType
<1>2. ASSUME NEW w \in Workers, NEW j \in Jobs, Begin(w, j) PROVE JobKept(k)
  BY <1>2 DEF Begin, TypeOK, JobType, Job
<1>3. ASSUME NEW w \in Workers, ClaimHinted(w) PROVE JobKept(k)
  BY <1>2, <1>3 DEF ClaimHinted, TypeOK, JobType
<1>4. ASSUME NEW w \in Workers, ClaimNextQueued(w) PROVE JobKept(k)
  BY <1>2, <1>4 DEF ClaimNextQueued
<1>5. ASSUME NEW w \in Workers, RetryAI(w) PROVE JobKept(k)
  BY <1>5 DEF RetryAI, TypeOK, JobType, Job
<1>6. ASSUME NEW w \in Workers, MarkAnswerJob(w) PROVE JobKept(k)
  BY <1>6 DEF MarkAnswerJob, TypeOK, JobType, Job, WorkerHas
<1>7. CASE RequeueStale
  BY <1>7 DEF RequeueStale, TypeOK, JobType, Job
<1>8. CASE UNCHANGED jobs
  BY <1>8
<1> QED
  BY <1>1, <1>3, <1>4, <1>5, <1>6, <1>7, <1>8
  DEF Next, vars, jobVars, StartInterview, WorkerStep, WorkerFault,
      StartSession, StartRejected, GetAnswerCount, GetFlowState, CreateQuestionArea,
      SetAreaInProgress, GetInProgressArea, PrepareStep, StartFails,
      ResubmitAnswerAsync, ReadSession, ReadFlow, ReadAreas, ReadCurrent, EvaluateAnswer,
      OpeningQuestion, AdvanceNonCriterionStep, ProcessCriterionTurn, TurnMoved,
      MarkAreaNotAssessed, MarkFlowDone, CompleteSession, ReadFails, TxRolledBack,
      CompleteSessionFails, MarkFails, Abandon, Restart, Tick

\* What worker v knows is the same before and after the step.
ViewKept(v) ==
    /\ pc'[v] = pc[v]
    /\ wjob'[v] = wjob[v]
    /\ snap'[v] = snap[v]
    /\ plan'[v] = plan[v]

\* The steps by which worker v comes to know more about its job.
Learns(v) ==
    ReadSession(v) \/ ReadFlow(v) \/ ReadAreas(v) \/ ReadCurrent(v)
        \/ EvaluateAnswer(v) \/ OpeningQuestion(v)

\* A step of anyone leaves what v knows alone, or v learns, or v is done
\* with its snapshot.
LEMMA ViewMoves ==
    ASSUME TypeOK, [Next]_vars, NEW v \in Workers
    PROVE  ViewKept(v) \/ Learns(v) \/ ~Holding(v)'
<1> DEFINE Goal == ViewKept(v) \/ Learns(v) \/ ~Holding(v)'
<1> USE DEF TypeOK, WorkerType
<1>1. ASSUME NEW w \in Workers, NEW j, Begin(w, j) PROVE ViewKept(v) \/ ~Holding(v)'
  BY <1>1 DEF Begin, ViewKept, Holding
<1>2. ASSUME NEW w \in Workers, ClaimHinted(w) PROVE ViewKept(v) \/ ~Holding(v)'
  <2>1. CASE \E j \in Jobs : Begin(w, j)
    BY <1>1, <2>1
  <2>2. CASE UNCHANGED workerVars
    BY <2>2 DEF workerVars, ViewKept
  <2> QED
    BY <1>2, <2>1, <2>2 DEF ClaimHinted, JobType
<1>3. ASSUME NEW w \in Workers, ClaimNextQueued(w) PROVE ViewKept(v) \/ ~Holding(v)'
  BY <1>1, <1>3 DEF ClaimNextQueued
<1>4. ASSUME NEW w \in Workers, Release(w) PROVE ViewKept(v) \/ ~Holding(v)'
  BY <1>4 DEF Release, ViewKept, Holding
<1>5. ASSUME NEW w \in Workers,
             MarkAnswerJob(w) \/ CompleteSessionFails(w) \/ MarkFails(w) \/ Abandon(w)
      PROVE  ViewKept(v) \/ ~Holding(v)'
  BY <1>4, <1>5 DEF MarkAnswerJob, CompleteSessionFails, MarkFails, Abandon
<1>6. ASSUME NEW w \in Workers, NEW o, Finish(w, o), UNCHANGED <<wjob, snap, plan>>
      PROVE  ViewKept(v) \/ ~Holding(v)'
  BY <1>6 DEF Finish, ViewKept, Holding
<1>7. ASSUME NEW w \in Workers,
             TurnMoved(w) \/ CompleteSession(w) \/ ReadFails(w) \/ TxRolledBack(w)
      PROVE  ViewKept(v) \/ ~Holding(v)'
  BY <1>6, <1>7 DEF TurnMoved, CompleteSession, ReadFails, TxRolledBack
<1>8. ASSUME NEW w \in Workers, NEW n \in {"mark", "complete"}, Committed(w, n),
             UNCHANGED <<wjob, snap, plan>>
      PROVE  ViewKept(v) \/ ~Holding(v)'
  BY <1>6, <1>8 DEF Committed, ViewKept, Holding
<1>9. ASSUME NEW w \in Workers, AdvanceNonCriterionStep(w) \/ ProcessCriterionTurn(w)
      PROVE  ViewKept(v) \/ ~Holding(v)'
  BY <1>8, <1>9 DEF AdvanceNonCriterionStep, ProcessCriterionTurn
<1>10. ASSUME NEW w \in Workers, MarkAreaNotAssessed(w) \/ MarkFlowDone(w)
      PROVE  ViewKept(v) \/ ~Holding(v)'
  BY <1>10 DEF MarkAreaNotAssessed, MarkFlowDone, ViewKept, Holding
<1>11. ASSUME NEW w \in Workers, w # v, Learns(w) PROVE ViewKept(v)
  <2>1. CASE ReadSession(w)
    BY <1>11, <2>1 DEF ReadSession, Finish, ViewKept
  <2>2. CASE ReadFlow(w)
    BY <1>11, <2>2 DEF ReadFlow, ViewKept
  <2>3. CASE ReadAreas(w)
    BY <1>11, <2>3 DEF ReadAreas, ViewKept
  <2>4. CASE ReadCurrent(w)
    <3>1. PICK a : ReadCurrentOf(w, a)
      BY <2>4, ReadCurrentCases
    <3> QED
      BY <1>11, <3>1 DEF ReadCurrentOf, ViewKept
  <2>5. CASE EvaluateAnswer(w)
    BY <1>11, <2>5 DEF EvaluateAnswer, ViewKept
  <2>6. CASE OpeningQuestion(w)
    BY <1>11, <2>6 DEF OpeningQuestion, ViewKept
  <2> QED
    BY <1>11, <2>1, <2>2, <2>3, <2>4, <2>5, <2>6 DEF Learns
<1>12. ASSUME NEW w \in Workers, Learns(w) PROVE ViewKept(v) \/ Learns(v)
  BY <1>11, <1>12
<1>13. ASSUME NEW w \in Workers, RetryAI(w) PROVE ViewKept(v)
  BY <1>13 DEF RetryAI, ViewKept
<1>14. CASE Restart
  BY <1>14 DEF Restart, Holding
<1>15. CASE UNCHANGED workerVars
  BY <1>15 DEF workerVars, ViewKept
<1>16. ASSUME NEW w \in Workers, WorkerStep(w) PROVE Goal
  BY <1>2, <1>3, <1>5, <1>7, <1>9, <1>10, <1>12, <1>13, <1>16 DEF WorkerStep, Learns
<1>17. ASSUME NEW w \in Workers, WorkerFault(w) PROVE Goal
  BY <1>5, <1>7, <1>17 DEF WorkerFault
<1>18. ASSUME NEW s \in Starters, StartInterview(s) PROVE UNCHANGED workerVars
  BY <1>18
  DEF StartInterview, StartSession, StartRejected, GetAnswerCount, GetFlowState,
      CreateQuestionArea, SetAreaInProgress, GetInProgressArea, PrepareStep, StartFails
<1> QED
  BY <1>14, <1>15, <1>16, <1>17, <1>18
  DEF Next, vars, SubmitAnswerAsync, ResubmitAnswerAsync, RequeueStale, Tick

-----------------------------------------------------------------------------
\* A worker that is not idle holds a submitted job, and its job keeps its turn
\* id and creation time while the worker holds it.
LEMMA HeldJobKept ==
    ASSUME IInv, [Next]_vars, NEW v \in Workers, pc[v] # "idle"
    PROVE  wjob[v] \in Jobs /\ JobKept(wjob[v])
<1>1. TypeOK
  BY DEF IInv
<1>2. wjob[v] \in Jobs
  BY <1>1, HasJob
<1>3. jobs[wjob[v]].status # "none"
  BY DEF IInv, TurnInv
<1> QED
  BY <1>1, <1>2, <1>3, JobStable

\* If a worker's job answers the expected turn after a step that left the
\* worker's view alone, it did before, and the step left the flow alone.
LEMMA StaysFresh ==
    ASSUME IInv, [Next]_vars, NEW v \in Workers, pc[v] # "idle", wjob'[v] = wjob[v], Fresh(v)'
    PROVE  Fresh(v) /\ flow' = flow
<1>1. wjob[v] \in Jobs /\ jobs'[wjob[v]].turn = jobs[wjob[v]].turn
  BY HeldJobKept DEF JobKept
<1>2. jobs[wjob[v]].turn < nextTurn /\ jobs[wjob[v]].turn \in Nat /\ nextTurn \in Nat
  BY <1>1 DEF IInv, TurnInv, TypeOK, JobType, Job, SessionType
<1>3. flow'.turn # NoTurn /\ flow'.turn = jobs[wjob[v]].turn
  BY <1>1 DEF Fresh
<1>4. flow' = flow
  BY <1>2, <1>3, FlowMoves DEF FlowKept, FlowIssued, FlowCleared, IInv
<1> QED
  BY <1>1, <1>3, <1>4 DEF Fresh

\* What the worker that commits a criterion turn knows to be true of the rows.
LEMMA CommitFacts ==
    ASSUME IInv, NEW w \in Workers, ProcessCriterionTurn(w)
    PROVE  /\ wjob[w] \in Jobs
           /\ Fresh(w) /\ flow.step = "criterion" /\ snap[w].flow = flow
           /\ snap[w].cur \in Areas
           /\ areaStatus[snap[w].cur] = "in_progress"
           /\ flow.area = snap[w].cur
           /\ snap[w].count = areaCount[snap[w].cur]
           /\ snap[w].lapsed = lapsed
           /\ ~TimeUp(snap[w], jobs[wjob[w]])
           /\ plan[w] \in Plan
           /\ IF plan[w].action = "next" THEN plan[w].mark # ""
              ELSE /\ plan[w].mark = ""
                   /\ plan[w].nextArea = snap[w].cur
                   /\ snap[w].count + 1 < MaxQuestionsPerArea
<1>1. pc[w] = "commit" /\ flow.step = "criterion" /\ flow.turn = jobs[wjob[w]].turn
  BY DEF ProcessCriterionTurn, LockFlow
<1>2. wjob[w] \in Jobs /\ snap[w].cur \in Areas /\ plan[w] \in Plan
  BY <1>1, HasJob DEF IInv, TypeOK, WorkerHas, WorkerType
<1>3. Routed(w) /\ Holding(w)
  BY <1>1 DEF Routed, Holding
<1>4. /\ ~TurnConflict(snap[w], jobs[wjob[w]])
      /\ ~TimeUp(snap[w], jobs[wjob[w]])
      /\ IF plan[w].action = "next" THEN plan[w].mark # ""
         ELSE /\ plan[w].mark = ""
              /\ plan[w].nextArea = snap[w].cur
              /\ snap[w].count + 1 < MaxQuestionsPerArea
  BY <1>1, <1>3 DEF IInv, PlanInv
<1>5. Fresh(w)
  BY <1>1, <1>4 DEF Fresh, TurnConflict
<1>6. /\ snap[w].lapsed = lapsed
      /\ snap[w].flow = flow
      /\ areaStatus[snap[w].cur] = "in_progress"
      /\ snap[w].count = areaCount[snap[w].cur]
  BY <1>1, <1>3, <1>5 DEF IInv, SnapInv
<1>7. flow.area = snap[w].cur
  BY <1>1, <1>2, <1>6 DEF IInv, AreaInv, InProgress
<1> QED
  BY <1>1, <1>2, <1>4, <1>5, <1>6, <1>7

\* What the worker that commits a disclaimer or readiness turn knows.
LEMMA AdvanceFacts ==
    ASSUME IInv, NEW w \in Workers, AdvanceNonCriterionStep(w)
    PROVE  /\ wjob[w] \in Jobs
           /\ Fresh(w) /\ snap[w].flow = flow
           /\ snap[w].cur \in Areas
           /\ areaStatus[snap[w].cur] = "in_progress"
<1>1. pc[w] = "advance" /\ flow.turn = jobs[wjob[w]].turn
  BY DEF AdvanceNonCriterionStep, LockFlow
<1>2. wjob[w] \in Jobs /\ snap[w].cur \in Areas
  BY <1>1, HasJob DEF IInv, TypeOK, WorkerHas
<1>3. Routed(w) /\ Holding(w)
  BY <1>1 DEF Routed, Holding
<1>4. ~TurnConflict(snap[w], jobs[wjob[w]])
  BY <1>3 DEF IInv, PlanInv
<1>5. Fresh(w)
  BY <1>1, <1>4 DEF Fresh, TurnConflict
<1>6. snap[w].flow = flow /\ areaStatus[snap[w].cur] = "in_progress"
  BY <1>1, <1>3, <1>5 DEF IInv, SnapInv
<1> QED
  BY <1>2, <1>5, <1>6

\* A step that leaves the flow pointer alone leaves the lapsed seconds and
\* the question counts alone, and takes no area out of progress.
LEMMA QuietRows ==
    ASSUME IInv, [Next]_vars, flow' = flow
    PROVE  /\ lapsed' = lapsed
           /\ areaCount' = areaCount
           /\ \A a \in Areas : areaStatus[a] = "in_progress" => areaStatus'[a] = "in_progress"
<1> DEFINE Goal == /\ lapsed' = lapsed
                   /\ areaCount' = areaCount
                   /\ \A a \in Areas : areaStatus[a] = "in_progress" => areaStatus'[a] = "in_progress"
<1>1. ASSUME NEW s \in Starters, CreateQuestionArea(s) PROVE Goal
  BY <1>1 DEF CreateQuestionArea, IInv, TypeOK, SessionType
<1>2. ASSUME NEW s \in Starters, SetAreaInProgress(s) PROVE Goal
  BY <1>2 DEF SetAreaInProgress, IInv, TypeOK, SessionType
<1>3. ASSUME NEW w \in Workers, MarkAreaNotAssessed(w) PROVE Goal
  BY <1>3 DEF MarkAreaNotAssessed, NotAssessed, Reachable, IInv, TypeOK, SessionType
<1>4. ASSUME NEW w \in Workers, ProcessCriterionTurn(w) PROVE FALSE
  <2>1. flow.turn # NoTurn /\ flow.turn < nextTurn /\ flow.turn \in Nat /\ nextTurn \in Nat
    BY <1>4, CommitFacts DEF Fresh, IInv, TurnInv, TypeOK, SessionType, Flow
  <2>2. flow'.turn = NoTurn \/ flow'.turn = nextTurn
    BY <1>4 DEF ProcessCriterionTurn, NextFlow, DoneFlow
  <2> QED
    BY <2>1, <2>2
<1>5. CASE UNCHANGED <<lapsed, areaCount, areaStatus>>
  BY <1>5
<1> QED
  BY <1>1, <1>2, <1>3, <1>4, <1>5
  DEF Next, vars, sessionVars, StartInterview, WorkerStep, WorkerFault,
      StartSession, StartRejected, GetAnswerCount, GetFlowState, GetInProgressArea,
      PrepareStep, StartFails, SubmitAnswerAsync, ResubmitAnswerAsync, ClaimHinted,
      ClaimNextQueued, ReadSession, ReadFlow, ReadAreas, ReadCurrent, RetryAI,
      EvaluateAnswer, OpeningQuestion, AdvanceNonCriterionStep, TurnMoved, MarkFlowDone,
      CompleteSession, MarkAnswerJob, ReadFails, TxRolledBack, CompleteSessionFails,
      MarkFails, Abandon, RequeueStale, Restart, Tick

-----------------------------------------------------------------------------
\* What a step may do to the rows of answers and interview_events: nothing, or
\* one of the two transactions appends one row with the turn it answers.
RowsKept == answers' = answers /\ events' = events

Answered(w, r) == answers' = Append(answers, r) /\ events' = events /\ r.turn = flow.turn
Recorded(w, r) == events' = Append(events, r) /\ answers' = answers /\ r.turn = flow.turn

\* The two transactions are the only steps that store a row, and the row
\* carries the turn that is expected at that moment, which they replace.
LEMMA RowsMove ==
    ASSUME IInv, [Next]_vars
    PROVE  \/ RowsKept
           \/ /\ flow.turn # NoTurn /\ flow.turn \in Nat
              /\ FlowIssued \/ FlowCleared
              /\ \/ \E w \in Workers : \E r \in [turn : Nat, area : Areas] : Answered(w, r)
                 \/ \E w \in Workers : \E r \in [turn : Nat, type : Steps] : Recorded(w, r)
<1> DEFINE Stores ==
      /\ flow.turn # NoTurn /\ flow.turn \in Nat
      /\ FlowIssued \/ FlowCleared
      /\ \/ \E w \in Workers : \E r \in [turn : Nat, area : Areas] : Answered(w, r)
         \/ \E w \in Workers : \E r \in [turn : Nat, type : Steps] : Recorded(w, r)
<1>1. ASSUME NEW w \in Workers, ProcessCriterionTurn(w) PROVE Stores
  <2>1. flow.turn # NoTurn /\ flow.turn = jobs[wjob[w]].turn /\ snap[w].cur \in Areas
    BY <1>1, CommitFacts DEF Fresh
  <2>2. flow.turn \in Nat
    BY DEF IInv, TypeOK, SessionType, Flow
  <2>3. FlowIssued \/ FlowCleared
    BY <1>1 DEF ProcessCriterionTurn, NextFlow, DoneFlow, FlowIssued, FlowCleared
  <2>4. Answered(w, [turn |-> jobs[wjob[w]].turn, area |-> snap[w].cur])
    BY <1>1, <2>1 DEF ProcessCriterionTurn, Answered
  <2> QED
    BY <2>1, <2>2, <2>3, <2>4
<1>2. ASSUME NEW w \in Workers, AdvanceNonCriterionStep(w) PROVE Stores
  <2>1. flow.turn # NoTurn /\ flow.turn = jobs[wjob[w]].turn /\ snap[w].flow = flow
    BY <1>2, AdvanceFacts DEF Fresh
  <2>2. flow.turn \in Nat /\ flow.step \in Steps
    BY DEF IInv, TypeOK, SessionType, Flow
  <2>3. FlowIssued
    BY <1>2 DEF AdvanceNonCriterionStep, FlowIssued
  <2>4. Recorded(w, [turn |-> jobs[wjob[w]].turn, type |-> snap[w].flow.step])
    BY <1>2, <2>1 DEF AdvanceNonCriterionStep, Recorded
  <2> QED
    BY <2>1, <2>2, <2>3, <2>4
<1>3. ASSUME UNCHANGED <<answers, events>> PROVE RowsKept
  BY <1>3 DEF RowsKept
<1> HIDE DEF Stores
<1>4. RowsKept \/ Stores
  BY <1>1, <1>2, <1>3
  DEF Next, vars, sessionVars, StartInterview, WorkerStep, WorkerFault,
      StartSession, StartRejected, GetAnswerCount, GetFlowState, CreateQuestionArea,
      SetAreaInProgress, GetInProgressArea, PrepareStep, StartFails, SubmitAnswerAsync,
      ResubmitAnswerAsync, ClaimHinted, ClaimNextQueued, ReadSession, ReadFlow, ReadAreas,
      ReadCurrent, RetryAI, EvaluateAnswer, OpeningQuestion, TurnMoved, MarkAreaNotAssessed,
      MarkFlowDone, CompleteSession, MarkAnswerJob, ReadFails, TxRolledBack,
      CompleteSessionFails, MarkFails, Abandon, RequeueStale, Restart, Tick
<1> QED
  BY <1>4 DEF Stores

\* Appending a row: the old rows stay where they are, the new one is last.
LEMMA AppendRows ==
    ASSUME NEW S, NEW q \in Seq(S), NEW r \in S
    PROVE  /\ DOMAIN Append(q, r) = DOMAIN q \cup {Len(q) + 1}
           /\ \A i \in DOMAIN q : Append(q, r)[i] = q[i] /\ i # Len(q) + 1
           /\ Append(q, r)[Len(q) + 1] = r
OBVIOUS

\* Rows carry turns that were issued and are no longer expected.
RowTurns ==
    /\ flow.turn < nextTurn
    /\ \A i \in DOMAIN answers : answers[i].turn \in 1 .. nextTurn - 1 /\ answers[i].turn # flow.turn
    /\ \A i \in DOMAIN events : events[i].turn \in 1 .. nextTurn - 1 /\ events[i].turn # flow.turn

\* Storing a row and replacing the expected turn in one transaction keeps the
\* stored turns apart from each other and from the expected one.
LEMMA RowTurnsStep ==
    ASSUME IInv, [Next]_vars
    PROVE  RowTurns' /\ TurnAppliedOnce'
<1>1. /\ RowTurns /\ TurnAppliedOnce
      /\ answers \in Seq([turn : Nat, area : Areas]) /\ events \in Seq([turn : Nat, type : Steps])
      /\ nextTurn \in Nat \ {0} /\ flow.turn \in Nat
  BY DEF IInv, TurnInv, RowTurns, TypeOK, SessionType, Flow
<1>2. FlowKept \/ FlowIssued \/ FlowCleared
  BY FlowMoves DEF IInv
<1>3. CASE RowsKept
  <2>1. RowTurns'
    BY <1>1, <1>2, <1>3 DEF RowsKept, RowTurns, FlowKept, FlowIssued, FlowCleared, NoTurn
  <2>2. TurnAppliedOnce'
    BY <1>1, <1>3 DEF RowsKept, TurnAppliedOnce
  <2> QED
    BY <2>1, <2>2
<1>4. ASSUME NEW w \in Workers, NEW r \in [turn : Nat, area : Areas], Answered(w, r),
             flow.turn # NoTurn, FlowIssued \/ FlowCleared
      PROVE  RowTurns' /\ TurnAppliedOnce'
  <2>1. /\ DOMAIN answers' = DOMAIN answers \cup {Len(answers) + 1}
        /\ \A i \in DOMAIN answers : answers'[i] = answers[i] /\ i # Len(answers) + 1
        /\ answers'[Len(answers) + 1].turn = flow.turn
        /\ events' = events
    BY <1>1, <1>4, AppendRows DEF Answered
  <2>2. RowTurns'
    <3>1. \/ flow'.turn = nextTurn /\ nextTurn' = nextTurn + 1
          \/ flow'.turn = 0 /\ nextTurn' = nextTurn
      BY <1>4 DEF FlowIssued, FlowCleared, NoTurn
    <3>2. flow'.turn < nextTurn'
      BY <1>1, <3>1
    <3>3. ASSUME NEW t \in 1 .. nextTurn - 1
          PROVE  t \in 1 .. nextTurn' - 1 /\ t # flow'.turn
      BY <1>1, <3>1
    <3>4. flow.turn \in 1 .. nextTurn - 1
      BY <1>1, <1>4 DEF RowTurns, NoTurn
    <3>5. \A i \in DOMAIN answers' : answers'[i].turn \in 1 .. nextTurn - 1
      BY <1>1, <2>1, <3>4 DEF RowTurns
    <3>6. \A i \in DOMAIN events' : events'[i].turn \in 1 .. nextTurn - 1
      BY <1>1, <2>1 DEF RowTurns
    <3> QED
      BY <3>2, <3>3, <3>5, <3>6 DEF RowTurns
  <2>3. TurnAppliedOnce'
    BY <1>1, <2>1 DEF RowTurns, TurnAppliedOnce
  <2> QED
    BY <2>2, <2>3
<1>5. ASSUME NEW w \in Workers, NEW r \in [turn : Nat, type : Steps], Recorded(w, r),
             flow.turn # NoTurn, FlowIssued \/ FlowCleared
      PROVE  RowTurns' /\ TurnAppliedOnce'
  <2>1. /\ DOMAIN events' = DOMAIN events \cup {Len(events) + 1}
        /\ \A i \in DOMAIN events : events'[i] = events[i] /\ i # Len(events) + 1
        /\ events'[Len(events) + 1].turn = flow.turn
        /\ answers' = answers
    BY <1>1, <1>5, AppendRows DEF Recorded
  <2>2. RowTurns'
    <3>1. \/ flow'.turn = nextTurn /\ nextTurn' = nextTurn + 1
          \/ flow'.turn = 0 /\ nextTurn' = nextTurn
      BY <1>5 DEF FlowIssued, FlowCleared, NoTurn
    <3>2. flow'.turn < nextTurn'
      BY <1>1, <3>1
    <3>3. ASSUME NEW t \in 1 .. nextTurn - 1
          PROVE  t \in 1 .. nextTurn' - 1 /\ t # flow'.turn
      BY <1>1, <3>1
    <3>4. flow.turn \in 1 .. nextTurn - 1
      BY <1>1, <1>5 DEF RowTurns, NoTurn
    <3>5. \A i \in DOMAIN events' : events'[i].turn \in 1 .. nextTurn - 1
      BY <1>1, <2>1, <3>4 DEF RowTurns
    <3>6. \A i \in DOMAIN answers' : answers'[i].turn \in 1 .. nextTurn - 1
      BY <1>1, <2>1 DEF RowTurns
    <3> QED
      BY <3>2, <3>3, <3>5, <3>6 DEF RowTurns
  <2>3. TurnAppliedOnce'
    BY <1>1, <2>1 DEF RowTurns, TurnAppliedOnce
  <2> QED
    BY <2>2, <2>3
<1> QED
  BY <1>3, <1>4, <1>5, RowsMove

\* A row that is not submitted gets a turn id only from a submission.
LEMMA UnsubmittedJob ==
    ASSUME IInv, [Next]_vars, NEW k \in Jobs, jobs[k].status = "none"
    PROVE  jobs'[k].turn = jobs[k].turn \/ jobs'[k].turn \in 0 .. nextTurn - 1
<1> DEFINE Goal == jobs'[k].turn = jobs[k].turn \/ jobs'[k].turn \in 0 .. nextTurn - 1
<1> USE DEF IInv, TypeOK
<1>1. ASSUME NEW j \in Jobs, NEW t \in 0 .. nextTurn - 1, SubmitAnswerAsync(j, t) PROVE Goal
  BY <1>1 DEF SubmitAnswerAsync, JobType
<1>2. ASSUME NEW w \in Workers, NEW j \in Jobs, Begin(w, j) PROVE Goal
  BY <1>2 DEF Begin, JobType, Job
<1>3. ASSUME NEW w \in Workers, ClaimHinted(w) PROVE Goal
  BY <1>2, <1>3 DEF ClaimHinted, JobType
<1>4. ASSUME NEW w \in Workers, ClaimNextQueued(w) PROVE Goal
  BY <1>2, <1>4 DEF ClaimNextQueued
<1>5. ASSUME NEW w \in Workers, RetryAI(w) PROVE Goal
  BY <1>5 DEF RetryAI, JobType, Job
<1>6. ASSUME NEW w \in Workers, MarkAnswerJob(w) PROVE Goal
  BY <1>6 DEF MarkAnswerJob, JobType, Job
<1>7. CASE RequeueStale
  BY <1>7 DEF RequeueStale, JobType, Job
<1>8. CASE UNCHANGED jobs
  BY <1>8
<1> QED
  BY <1>1, <1>3, <1>4, <1>5, <1>6, <1>7, <1>8
  DEF Next, vars, jobVars, StartInterview, WorkerStep, WorkerFault,
      StartSession, StartRejected, GetAnswerCount, GetFlowState, CreateQuestionArea,
      SetAreaInProgress, GetInProgressArea, PrepareStep, StartFails,
      ResubmitAnswerAsync, ReadSession, ReadFlow, ReadAreas, ReadCurrent, EvaluateAnswer,
      OpeningQuestion, AdvanceNonCriterionStep, ProcessCriterionTurn, TurnMoved,
      MarkAreaNotAssessed, MarkFlowDone, CompleteSession, ReadFails, TxRolledBack,
      CompleteSessionFails, MarkFails, Abandon, Restart, Tick

\* Who holds what: a worker keeps its job, has none, or claimed a queued one.
LEMMA ClaimMoves ==
    ASSUME TypeOK, [Next]_vars, NEW v \in Workers
    PROVE  \/ wjob'[v] = wjob[v] /\ (pc'[v] # "idle" => pc[v] # "idle")
           \/ pc'[v] = "idle"
           \/ \E j \in Jobs : jobs[j].status = "queued" /\ wjob'[v] = j
<1> DEFINE Goal == \/ wjob'[v] = wjob[v] /\ (pc'[v] # "idle" => pc[v] # "idle")
                   \/ pc'[v] = "idle"
                   \/ \E j \in Jobs : jobs[j].status = "queued" /\ wjob'[v] = j
<1> USE DEF TypeOK, WorkerType
<1>1. ASSUME NEW w \in Workers, NEW j \in Jobs, jobs[j].status = "queued", Begin(w, j) PROVE Goal
  BY <1>1 DEF Begin
<1>2. ASSUME NEW w \in Workers, ClaimHinted(w) PROVE Goal
  <2>1. Head(hints) \in Jobs
    BY <1>2 DEF ClaimHinted, JobType
  <2> QED
    BY <1>1, <1>2, <2>1 DEF ClaimHinted, workerVars
<1>3. ASSUME NEW w \in Workers, ClaimNextQueued(w) PROVE Goal
  BY <1>1, <1>3 DEF ClaimNextQueued
<1>4. ASSUME NEW w \in Workers, Release(w) PROVE Goal
  BY <1>4 DEF Release
<1>5. ASSUME NEW w \in Workers,
             MarkAnswerJob(w) \/ CompleteSessionFails(w) \/ MarkFails(w) \/ Abandon(w)
      PROVE  Goal
  BY <1>4, <1>5 DEF MarkAnswerJob, CompleteSessionFails, MarkFails, Abandon
<1>6. ASSUME NEW w \in Workers, wjob' = wjob, pc[w] # "idle", NEW x, pc' = [pc EXCEPT ![w] = x]
      PROVE  Goal
  BY <1>6
<1>7. ASSUME NEW w \in Workers,
             TurnMoved(w) \/ CompleteSession(w) \/ ReadFails(w) \/ TxRolledBack(w)
      PROVE  Goal
  BY <1>6, <1>7 DEF TurnMoved, CompleteSession, ReadFails, TxRolledBack, Finish
<1>8. ASSUME NEW w \in Workers, AdvanceNonCriterionStep(w) \/ ProcessCriterionTurn(w) PROVE Goal
  BY <1>6, <1>8 DEF AdvanceNonCriterionStep, ProcessCriterionTurn, Committed, Finish
<1>9. ASSUME NEW w \in Workers, MarkAreaNotAssessed(w) \/ MarkFlowDone(w) PROVE Goal
  BY <1>6, <1>9 DEF MarkAreaNotAssessed, MarkFlowDone
<1>10. ASSUME NEW w \in Workers, ReadSession(w) \/ ReadFlow(w) \/ ReadAreas(w) PROVE Goal
  BY <1>6, <1>10 DEF ReadSession, ReadFlow, ReadAreas, Finish
<1>11. ASSUME NEW w \in Workers, ReadCurrent(w) PROVE Goal
  <2>1. PICK a : ReadCurrentOf(w, a)
    BY <1>11, ReadCurrentCases
  <2> QED
    BY <1>6, <2>1 DEF ReadCurrentOf
<1>12. ASSUME NEW w \in Workers, EvaluateAnswer(w) \/ OpeningQuestion(w) PROVE Goal
  BY <1>6, <1>12 DEF EvaluateAnswer, OpeningQuestion
<1>13. ASSUME NEW w \in Workers, RetryAI(w) PROVE Goal
  BY <1>13 DEF RetryAI
<1>14. CASE Restart
  BY <1>14 DEF Restart
<1>15. CASE UNCHANGED workerVars
  BY <1>15 DEF workerVars
<1>16. ASSUME NEW w \in Workers, WorkerStep(w) PROVE Goal
  BY <1>2, <1>3, <1>5, <1>7, <1>8, <1>9, <1>10, <1>11, <1>12, <1>13, <1>16 DEF WorkerStep
<1>17. ASSUME NEW w \in Workers, WorkerFault(w) PROVE Goal
  BY <1>5, <1>7, <1>17 DEF WorkerFault
<1>18. ASSUME NEW s \in Starters, StartInterview(s) PROVE UNCHANGED workerVars
  BY <1>18
  DEF StartInterview, StartSession, StartRejected, GetAnswerCount, GetFlowState,
      CreateQuestionArea, SetAreaInProgress, GetInProgressArea, PrepareStep, StartFails
<1> QED
  BY <1>14, <1>15, <1>16, <1>17, <1>18
  DEF Next, vars, SubmitAnswerAsync, ResubmitAnswerAsync, RequeueStale, Tick

\* A worker that holds a job after a step holds a submitted one.
LEMMA HeldIsSubmitted ==
    ASSUME IInv, [Next]_vars, NEW v \in Workers, pc'[v] # "idle"
    PROVE  jobs'[wjob'[v]].status # "none"
<1>1. TypeOK
  BY DEF IInv
<1>2. CASE wjob'[v] = wjob[v] /\ pc[v] # "idle"
  BY <1>2, HeldJobKept DEF JobKept
<1>3. ASSUME NEW j \in Jobs, jobs[j].status = "queued", wjob'[v] = j
      PROVE  jobs'[wjob'[v]].status # "none"
  BY <1>1, <1>3, JobStable DEF JobKept
<1> QED
  BY <1>1, <1>2, <1>3, ClaimMoves

\* No job carries a turn id that was not issued, and a held job is submitted.
LEMMA TurnInvStep ==
    ASSUME IInv, [Next]_vars
    PROVE  TurnInv'
<1>1. TypeOK /\ TypeOK'
  BY TypeStep DEF IInv
<1>2. ASSUME NEW k \in Jobs PROVE jobs'[k].turn < nextTurn'
  <2>1. jobs[k].turn < nextTurn /\ jobs[k].turn \in Nat /\ nextTurn \in Nat \ {0}
    BY <1>1 DEF IInv, TurnInv, TypeOK, JobType, Job, SessionType
  <2>3. nextTurn' = nextTurn \/ nextTurn' = nextTurn + 1
    BY <1>1, FlowMoves DEF FlowKept, FlowIssued, FlowCleared
  <2>2. jobs'[k].turn = jobs[k].turn \/ jobs'[k].turn \in 0 .. nextTurn - 1
    <3>1. CASE jobs[k].status # "none"
      BY <1>1, <3>1, JobStable DEF JobKept
    <3>2. CASE jobs[k].status = "none"
      BY <1>1, <3>2, UnsubmittedJob
    <3> QED
      BY <3>1, <3>2
  <2> QED
    BY <2>1, <2>2, <2>3
<1>3. ASSUME NEW v \in Workers, pc'[v] # "idle" PROVE jobs'[wjob'[v]].status # "none"
  BY <1>3, HeldIsSubmitted
<1> QED
  BY <1>2, <1>3, RowTurnsStep DEF TurnInv, RowTurns

-----------------------------------------------------------------------------
\* What worker v's snapshot says of the rows, while its turn is expected.
SnapTrue(v) ==
    /\ snap[v].lapsed = lapsed
    /\ pc[v] # "flow" => snap[v].flow = flow
    /\ Routed(v) => /\ areaStatus[snap[v].cur] = "in_progress"
                    /\ snap[v].count = areaCount[snap[v].cur]

\* The snapshot of a worker whose turn is still expected stays true, whatever
\* the others do between its reads and its transaction.
LEMMA SnapInvStep ==
    ASSUME IInv, [Next]_vars
    PROVE  SnapInv'
<1>1. TypeOK /\ TypeOK'
  BY TypeStep DEF IInv
<1> SUFFICES ASSUME NEW v \in Workers, Holding(v)', Fresh(v)'
             PROVE  SnapTrue(v)'
  BY DEF SnapInv, SnapTrue
<1>2. Holding(v) /\ Fresh(v) => SnapTrue(v)
  BY DEF IInv, SnapInv, SnapTrue
<1>3. CASE ViewKept(v)
  <2>1. Holding(v) /\ pc[v] # "idle"
    BY <1>3 DEF ViewKept, Holding
  <2>2. Fresh(v) /\ flow' = flow
    BY <1>3, <2>1, StaysFresh DEF ViewKept
  <2>3. SnapTrue(v) /\ (Routed(v) => snap[v].cur \in Areas)
    BY <1>1, <1>2, <2>1, <2>2 DEF TypeOK, WorkerHas, Routed
  <2> QED
    BY <1>3, <2>2, <2>3, QuietRows DEF ViewKept, SnapTrue, Routed
<1>4. CASE Learns(v)
  <2>0. pc[v] # "idle" /\ wjob'[v] = wjob[v]
    BY <1>4, ReadCurrentCases
    DEF Learns, ReadSession, ReadFlow, ReadAreas, ReadCurrent, EvaluateAnswer, OpeningQuestion
  <2>1. Fresh(v) /\ flow' = flow
    BY <2>0, StaysFresh
  <2>2. UNCHANGED <<lapsed, areaStatus, areaCount>>
    BY <1>4
    DEF Learns, ReadSession, ReadFlow, ReadAreas, ReadCurrent, EvaluateAnswer, OpeningQuestion, sessionVars
  <2>3. CASE ReadSession(v)
    BY <1>1, <2>2, <2>3 DEF ReadSession, Finish, SnapTrue, Holding, Routed, TypeOK, WorkerType, Snap
  <2>4. CASE ReadFlow(v)
    BY <1>1, <1>2, <2>1, <2>2, <2>4 DEF ReadFlow, SnapTrue, Holding, Routed, TypeOK, WorkerType, Snap
  <2>5. CASE ReadAreas(v)
    BY <1>1, <1>2, <2>1, <2>2, <2>5 DEF ReadAreas, SnapTrue, Holding, Routed, TypeOK, WorkerType, Snap
  <2>6. CASE ReadCurrent(v)
    <3>1. PICK a \in Areas \cup {NoArea} : ReadCurrentOf(v, a)
      BY <2>6, ReadCurrentCases
    <3>2. SnapTrue(v) /\ pc[v] = "current"
      BY <1>2, <2>1, <3>1 DEF ReadCurrentOf, Holding
    <3>3. snap'[v] = SnapOf(v, a) /\ pc'[v] = Route(SnapOf(v, a), jobs[wjob[v]]) /\ a \in CurrentArea
      BY <1>1, <3>1 DEF ReadCurrentOf, TypeOK, WorkerType
    <3>4. Routed(v)' => a # NoArea
      BY <3>3 DEF Routed, Route, SnapOf
    <3>5. a # NoArea => areaStatus[a] = "in_progress"
      BY <3>3 DEF CurrentArea, InProgress
    <3> QED
      BY <2>1, <2>2, <3>2, <3>3, <3>4, <3>5 DEF SnapTrue, SnapOf, Routed
  <2>7. CASE EvaluateAnswer(v)
    BY <1>1, <1>2, <2>1, <2>2, <2>7 DEF EvaluateAnswer, SnapTrue, Holding, Routed
  <2>8. CASE OpeningQuestion(v)
    BY <1>1, <1>2, <2>1, <2>2, <2>8 DEF OpeningQuestion, SnapTrue, Holding, Routed
  <2> QED
    BY <1>4, <2>3, <2>4, <2>5, <2>6, <2>7, <2>8 DEF Learns
<1> QED
  BY <1>1, <1>3, <1>4, ViewMoves

\* What worker v has established about its job and its plan.
PlanTrue(v) ==
    /\ ~TurnConflict(snap[v], jobs[wjob[v]])
    /\ ~TimeUp(snap[v], jobs[wjob[v]])
    /\ pc[v] \in {"evaluate", "commit"} => snap[v].flow.step = "criterion"
    /\ pc[v] = "advance" => snap[v].flow.step \in {"disclaimer", "readiness"}
    /\ pc[v] = "opening" => snap[v].flow.step \in {"readiness", "criterion"}
    /\ pc[v] = "commit" \/ (pc[v] = "opening" /\ snap[v].flow.step = "criterion") =>
          IF plan[v].action = "next" THEN plan[v].mark # ""
          ELSE /\ plan[v].mark = ""
               /\ plan[v].nextArea = snap[v].cur
               /\ snap[v].count + 1 < MaxQuestionsPerArea

\* A plan that stays on the area has room for another question there, and one
\* that leaves it gives it a verdict.
LEMMA PlanShape ==
    ASSUME NEW s \in Snap, NEW ev \in Evaluation
    PROVE  LET p == PlanTransition(s, ev)
           IN  IF p.action = "next" THEN p.mark # ""
               ELSE p.mark = "" /\ p.nextArea = s.cur /\ s.count + 1 < MaxQuestionsPerArea
<1> DEFINE d == DecideCriterionTurn(ev.criterion, ev.recommendation, s.count + 1)
<1>1. s.count \in Nat
  BY DEF Snap
<1>2. IF d.action = "next" THEN d.mark # "" ELSE d.mark = "" /\ s.count + 1 < MaxQuestionsPerArea
  BY <1>1, PolicyAssumption DEF DecideCriterionTurn
<1> QED
  BY <1>2 DEF PlanTransition, DetermineNextAreaAfterCriterionTurn

\* What the routing established about a job holds until the worker is done
\* with it.
LEMMA PlanInvStep ==
    ASSUME IInv, [Next]_vars
    PROVE  PlanInv'
<1>1. TypeOK /\ TypeOK'
  BY TypeStep DEF IInv
<1> SUFFICES ASSUME NEW v \in Workers, Routed(v)'
             PROVE  PlanTrue(v)'
  BY DEF PlanInv, PlanTrue
<1>2. Routed(v) => PlanTrue(v)
  BY DEF IInv, PlanInv, PlanTrue
<1>3. Holding(v)'
  BY DEF Routed, Holding
<1>4. ASSUME pc[v] # "idle", wjob'[v] = wjob[v], snap'[v] = snap[v]
      PROVE  /\ TurnConflict(snap[v], jobs[wjob[v]])' = TurnConflict(snap[v], jobs[wjob[v]])
             /\ TimeUp(snap[v], jobs[wjob[v]])' = TimeUp(snap[v], jobs[wjob[v]])
  BY <1>4, HeldJobKept DEF JobKept, TurnConflict, TimeUp
<1>5. CASE ViewKept(v)
  <2>1. Routed(v) /\ pc[v] # "idle"
    BY <1>5 DEF ViewKept, Routed
  <2>2. PlanTrue(v)
    BY <1>2, <2>1
  <2> QED
    BY <1>4, <1>5, <2>1, <2>2 DEF ViewKept, PlanTrue
<1>6. CASE ReadSession(v) \/ ReadFlow(v) \/ ReadAreas(v)
  BY <1>1, <1>6 DEF ReadSession, ReadFlow, ReadAreas, Finish, Routed, TypeOK, WorkerType
<1>7. CASE ReadCurrent(v)
  <2>1. PICK a \in Areas \cup {NoArea} : ReadCurrentOf(v, a)
    BY <1>7, ReadCurrentCases
  <2>2. snap'[v] = SnapOf(v, a) /\ pc'[v] = Route(SnapOf(v, a), jobs[wjob[v]])
        /\ jobs' = jobs /\ wjob' = wjob
    BY <1>1, <2>1 DEF ReadCurrentOf, jobVars, TypeOK, WorkerType
  <2>3. ~TurnConflict(SnapOf(v, a), jobs[wjob[v]]) /\ ~TimeUp(SnapOf(v, a), jobs[wjob[v]])
    BY <2>2 DEF Routed, Route
  <2>4. SnapOf(v, a).flow.step \in Steps
    BY <1>1 DEF SnapOf, TypeOK, WorkerType, Snap, Flow
  <2>5. /\ pc'[v] # "commit"
        /\ pc'[v] = "evaluate" => SnapOf(v, a).flow.step = "criterion"
        /\ pc'[v] = "advance" => SnapOf(v, a).flow.step = "disclaimer"
        /\ pc'[v] = "opening" => SnapOf(v, a).flow.step = "readiness"
    BY <2>2, <2>4 DEF Routed, Route, Steps
  <2> QED
    BY <2>2, <2>3, <2>5 DEF PlanTrue
<1>8. CASE EvaluateAnswer(v)
  <2>1. pc[v] = "evaluate" /\ wjob'[v] = wjob[v] /\ snap'[v] = snap[v]
    BY <1>8 DEF EvaluateAnswer
  <2>2. PlanTrue(v)
    BY <1>2, <2>1 DEF Routed
  <2>3. PICK ev \in Evaluation :
          /\ plan'[v] = PlanTransition(snap[v], ev)
          /\ pc'[v] \in {"opening", "commit"}
    BY <1>1, <1>8 DEF EvaluateAnswer, TypeOK, WorkerType
  <2>4. snap[v] \in Snap
    BY <1>1 DEF TypeOK, WorkerType
  <2>5. IF plan'[v].action = "next" THEN plan'[v].mark # ""
        ELSE /\ plan'[v].mark = ""
             /\ plan'[v].nextArea = snap[v].cur
             /\ snap[v].count + 1 < MaxQuestionsPerArea
    BY <2>3, <2>4, PlanShape
  <2> QED
    BY <1>4, <2>1, <2>2, <2>3, <2>5 DEF PlanTrue
<1>9. CASE OpeningQuestion(v)
  <2>1. pc[v] = "opening" /\ wjob'[v] = wjob[v] /\ snap'[v] = snap[v]
    BY <1>9 DEF OpeningQuestion
  <2>2. PlanTrue(v)
    BY <1>2, <2>1 DEF Routed
  <2>3. /\ plan'[v].action = plan[v].action
        /\ plan'[v].mark = plan[v].mark
        /\ plan'[v].nextArea = plan[v].nextArea
        /\ pc'[v] = IF snap[v].flow.step = "readiness" THEN "advance" ELSE "commit"
    <3>1. PICK sub \in BOOLEAN : plan' = [plan EXCEPT ![v].sub = @ \/ sub, ![v].issuedAt = now]
      BY <1>9 DEF OpeningQuestion
    <3> DEFINE b == plan[v].sub \/ sub
    <3>2. plan' = [plan EXCEPT ![v].sub = b, ![v].issuedAt = now]
      BY <3>1
    <3> HIDE DEF b
    <3>3. plan \in [Workers -> Plan]
      BY <1>1 DEF TypeOK, WorkerType
    <3>4. /\ plan'[v].action = plan[v].action
          /\ plan'[v].mark = plan[v].mark
          /\ plan'[v].nextArea = plan[v].nextArea
      BY <3>2, <3>3 DEF Plan
    <3>5. pc'[v] = IF snap[v].flow.step = "readiness" THEN "advance" ELSE "commit"
      BY <1>1, <1>9 DEF OpeningQuestion, TypeOK, WorkerType
    <3> QED
      BY <3>4, <3>5
  <2> QED
    BY <1>4, <2>1, <2>2, <2>3 DEF PlanTrue
<1> QED
  BY <1>1, <1>3, <1>5, <1>6, <1>7, <1>8, <1>9, ViewMoves DEF Learns

-----------------------------------------------------------------------------
AreaEffect(old, new, a, cur, p) ==
    IF a = cur THEN IF p.action = "next" THEN new = p.mark ELSE new = "in_progress"
    ELSE \/ new = old
         \/ old = "pending" /\ new = "pre_addressed"
         \/ old \in Reachable /\ new = "in_progress" /\ p.action = "next" /\ a = p.nextArea

\* The areas after a criterion turn: the current one gets its verdict, the
\* planned one is promoted if it is still reachable, nothing else enters or
\* leaves progress or becomes reachable.
LEMMA ApplyPlanEffect ==
    ASSUME NEW st \in [Areas -> AreaStatuses], NEW cur \in Areas, NEW p \in Plan,
           st[cur] = "in_progress",
           IF p.action = "next" THEN p.mark # "" ELSE p.mark = ""
    PROVE  \A a \in Areas : AreaEffect(st[a], ApplyPlan(st, cur, p)[a], a, cur, p)
<1>1. p.action \in {"stay", "next"} /\ p.mark \in {"", "complete", "insufficient"}
  BY DEF Plan
<1> QED
  BY <1>1 DEF ApplyPlan, Reachable, AreaEffect

\* What a step may do to the areas.
AreasKept     == areaStatus' = areaStatus
Inserted(s)   == areaStatus' = [areaStatus EXCEPT ![snext[s]] = IF @ = "absent" THEN "pending" ELSE @]
FirstOpened   == areaStatus' = [areaStatus EXCEPT ![1] = IF @ \in Reachable THEN "in_progress" ELSE @]
GivenUp(a)    == areaStatus' = [areaStatus EXCEPT ![a] = IF @ \in Reachable THEN "not_assessed" ELSE @]

\* Only StartInterview, a criterion turn and a timeout write areas.
LEMMA AreasMove ==
    ASSUME TypeOK, [Next]_vars
    PROVE  \/ AreasKept /\ areaCount' = areaCount
           \/ \E s \in Starters : CreateQuestionArea(s) /\ Inserted(s) /\ areaCount' = areaCount
           \/ \E s \in Starters : SetAreaInProgress(s) /\ FirstOpened /\ areaCount' = areaCount
           \/ \E w \in Workers, a \in Areas : MarkAreaNotAssessed(w) /\ GivenUp(a) /\ areaCount' = areaCount
           \/ \E w \in Workers : ProcessCriterionTurn(w)
<1>1. ASSUME NEW s \in Starters, CreateQuestionArea(s) PROVE Inserted(s) /\ areaCount' = areaCount
  BY <1>1 DEF CreateQuestionArea, Inserted
<1>2. ASSUME NEW s \in Starters, SetAreaInProgress(s) PROVE FirstOpened /\ areaCount' = areaCount
  BY <1>2 DEF SetAreaInProgress, FirstOpened
<1>3. ASSUME NEW w \in Workers, MarkAreaNotAssessed(w)
      PROVE  (\E a \in Areas : GivenUp(a) /\ areaCount' = areaCount) \/ (AreasKept /\ areaCount' = areaCount)
  BY <1>3 DEF MarkAreaNotAssessed, NotAssessed, GivenUp, AreasKept, TypeOK, WorkerType
<1>4. ASSUME UNCHANGED <<areaStatus, areaCount>> PROVE AreasKept /\ areaCount' = areaCount
  BY <1>4 DEF AreasKept
<1> QED
  BY <1>1, <1>2, <1>3, <1>4
  DEF Next, vars, sessionVars, StartInterview, WorkerStep, WorkerFault,
      StartSession, StartRejected, GetAnswerCount, GetFlowState, GetInProgressArea,
      PrepareStep, StartFails, SubmitAnswerAsync, ResubmitAnswerAsync, ClaimHinted,
      ClaimNextQueued, ReadSession, ReadFlow, ReadAreas, ReadCurrent, RetryAI,
      EvaluateAnswer, OpeningQuestion, AdvanceNonCriterionStep, TurnMoved, MarkFlowDone,
      CompleteSession, MarkAnswerJob, ReadFails, TxRolledBack, CompleteSessionFails,
      MarkFails, Abandon, RequeueStale, Restart, Tick

\* What a criterion turn does to the areas and their counts.
LEMMA TurnAreas ==
    ASSUME IInv, NEW w \in Workers, ProcessCriterionTurn(w)
    PROVE  LET cur == snap[w].cur
           IN  /\ cur \in Areas /\ areaStatus[cur] = "in_progress"
               /\ areaCount'[cur] = areaCount[cur] + 1
               /\ \A a \in Areas \ {cur} : areaCount'[a] = areaCount[a]
               /\ plan[w].action = "next" => areaStatus'[cur] \in {"complete", "insufficient"}
               /\ plan[w].action # "next" =>
                     /\ areaStatus'[cur] = "in_progress"
                     /\ areaCount[cur] + 1 < MaxQuestionsPerArea
                     /\ plan[w].nextArea = cur
               /\ \A a \in Areas \ {cur} :
                     \/ areaStatus'[a] = areaStatus[a]
                     \/ areaStatus[a] = "pending" /\ areaStatus'[a] = "pre_addressed"
                     \/ areaStatus[a] \in Reachable /\ areaStatus'[a] = "in_progress"
                          /\ plan[w].action = "next" /\ a = plan[w].nextArea
<1>1. /\ snap[w].cur \in Areas /\ areaStatus[snap[w].cur] = "in_progress"
      /\ plan[w] \in Plan /\ snap[w].count = areaCount[snap[w].cur]
      /\ IF plan[w].action = "next" THEN plan[w].mark # ""
         ELSE /\ plan[w].mark = ""
              /\ plan[w].nextArea = snap[w].cur
              /\ snap[w].count + 1 < MaxQuestionsPerArea
  BY CommitFacts
<1>2. areaStatus \in [Areas -> AreaStatuses] /\ areaCount \in [Areas -> Nat]
  BY DEF IInv, TypeOK, SessionType
<1>3. areaStatus' = ApplyPlan(areaStatus, snap[w].cur, plan[w])
      /\ areaCount' = [areaCount EXCEPT ![snap[w].cur] = @ + 1]
  BY DEF ProcessCriterionTurn
<1>4. plan[w].mark \in {"", "complete", "insufficient"}
  BY <1>1 DEF Plan
<1>5. \A a \in Areas : AreaEffect(areaStatus[a], areaStatus'[a], a, snap[w].cur, plan[w])
  <2>1. IF plan[w].action = "next" THEN plan[w].mark # "" ELSE plan[w].mark = ""
    BY <1>1
  <2> QED
    BY <1>1, <1>2, <1>3, <2>1, ApplyPlanEffect
<1> QED
  BY <1>1, <1>2, <1>3, <1>4, <1>5 DEF AreaEffect

\* One area at a time: a turn promotes the next area only as it closes the
\* current one, and StartInterview opens the first area only if none ever was.
LEMMA OneInProgressStep ==
    ASSUME IInv, [Next]_vars
    PROVE  OneInProgress'
<1>1. TypeOK /\ OneInProgress /\ areaStatus \in [Areas -> AreaStatuses]
  BY DEF IInv, TypeOK, SessionType
<1> SUFFICES ASSUME NEW a \in Areas, NEW b \in Areas,
                    areaStatus'[a] = "in_progress", areaStatus'[b] = "in_progress"
             PROVE  a = b
  BY DEF OneInProgress, InProgress
<1>2. areaStatus[a] = "in_progress" /\ areaStatus[b] = "in_progress" => a = b
  BY <1>1 DEF OneInProgress, InProgress
<1>3. CASE AreasKept
  BY <1>2, <1>3 DEF AreasKept
<1>4. ASSUME NEW s \in Starters, Inserted(s) PROVE a = b
  BY <1>1, <1>2, <1>4 DEF Inserted
<1>5. CASE FirstOpened
  <2>1. (\E c \in Areas : areaStatus[c] = "in_progress") => areaStatus[1] \notin Reachable
    BY DEF IInv, OpenInv, Opened, InProgress, Reachable
  <2>2. 1 \in Areas
    BY PolicyAssumption DEF Areas
  <2> QED
    BY <1>1, <1>2, <1>5, <2>1, <2>2 DEF FirstOpened
<1>6. ASSUME NEW c \in Areas, GivenUp(c) PROVE a = b
  BY <1>1, <1>2, <1>6 DEF GivenUp
<1>7. ASSUME NEW w \in Workers, ProcessCriterionTurn(w) PROVE a = b
  <2>1. \A c \in Areas : areaStatus[c] = "in_progress" => c = snap[w].cur
    BY <1>1, <1>7, TurnAreas DEF OneInProgress, InProgress
  <2> QED
    BY <1>7, <2>1, TurnAreas
<1> QED
  BY <1>1, <1>3, <1>4, <1>5, <1>6, <1>7, AreasMove

\* Once the first area was opened it is never reachable again.
LEMMA OpenedStays ==
    ASSUME IInv, [Next]_vars, Opened
    PROVE  Opened'
<1>1. TypeOK /\ areaStatus \in [Areas -> AreaStatuses] /\ 1 \in Areas
  BY PolicyAssumption DEF IInv, TypeOK, SessionType, Areas
<1>2. CASE AreasKept
  BY <1>2 DEF AreasKept, Opened
<1>3. ASSUME NEW s \in Starters, Inserted(s) PROVE Opened'
  BY <1>1, <1>3 DEF Inserted, Opened
<1>4. CASE FirstOpened
  BY <1>1, <1>4 DEF FirstOpened, Opened
<1>5. ASSUME NEW c \in Areas, GivenUp(c) PROVE Opened'
  BY <1>1, <1>5 DEF GivenUp, Opened
<1>6. ASSUME NEW w \in Workers, ProcessCriterionTurn(w) PROVE Opened'
  BY <1>1, <1>6, TurnAreas DEF Opened, Reachable
<1> QED
  BY <1>1, <1>2, <1>3, <1>4, <1>5, <1>6, AreasMove

\* The flow pointer in v's snapshot is the same, and v did not just start to
\* end the interview.
FlowSeen(v) ==
    /\ snap'[v].flow = snap[v].flow
    /\ pc'[v] \in {"timeout", "flowdone"} => pc[v] \in {"timeout", "flowdone"}

Forgets(v) == snap'[v] = NoSnap /\ pc'[v] = "idle"

\* Only the second and the fourth read change either.
LEMMA SeenMoves ==
    ASSUME TypeOK, [Next]_vars, NEW v \in Workers
    PROVE  FlowSeen(v) \/ Forgets(v) \/ ReadFlow(v) \/ ReadCurrent(v)
<1> DEFINE Goal == FlowSeen(v) \/ Forgets(v) \/ ReadFlow(v) \/ ReadCurrent(v)
<1> USE DEF TypeOK, WorkerType
<1>1. ASSUME snap' = snap, NEW w \in Workers, NEW x, pc' = [pc EXCEPT ![w] = x],
             x \notin {"timeout", "flowdone"} \/ pc[w] \in {"timeout", "flowdone"}
      PROVE  Goal
  BY <1>1 DEF FlowSeen
<1>2. CASE UNCHANGED workerVars
  BY <1>2 DEF workerVars, FlowSeen
<1>3. ASSUME NEW w \in Workers, ClaimHinted(w) \/ ClaimNextQueued(w) PROVE Goal
  BY <1>1, <1>2, <1>3 DEF ClaimHinted, ClaimNextQueued, Begin
<1>4. ASSUME NEW w \in Workers, Release(w) PROVE Goal
  BY <1>4 DEF Release, Forgets, FlowSeen
<1>5. ASSUME NEW w \in Workers,
             MarkAnswerJob(w) \/ CompleteSessionFails(w) \/ MarkFails(w) \/ Abandon(w)
      PROVE  Goal
  BY <1>4, <1>5 DEF MarkAnswerJob, CompleteSessionFails, MarkFails, Abandon
<1>6. ASSUME NEW w \in Workers,
             TurnMoved(w) \/ CompleteSession(w) \/ ReadFails(w) \/ TxRolledBack(w)
      PROVE  Goal
  BY <1>1, <1>6 DEF TurnMoved, CompleteSession, ReadFails, TxRolledBack, Finish
<1>7. ASSUME NEW w \in Workers, AdvanceNonCriterionStep(w) \/ ProcessCriterionTurn(w) PROVE Goal
  <2>1. Committed(w, "mark") \/ Committed(w, "complete")
    BY <1>7 DEF AdvanceNonCriterionStep, ProcessCriterionTurn
  <2>2. snap' = snap
    BY <1>7 DEF AdvanceNonCriterionStep, ProcessCriterionTurn
  <2> QED
    BY <1>1, <2>1, <2>2 DEF Committed, Finish
<1>8. ASSUME NEW w \in Workers, MarkAreaNotAssessed(w) \/ MarkFlowDone(w) PROVE Goal
  BY <1>1, <1>8 DEF MarkAreaNotAssessed, MarkFlowDone
<1>9. ASSUME NEW w \in Workers, ReadSession(w) \/ ReadAreas(w) PROVE FlowSeen(v)
  BY <1>9 DEF ReadSession, ReadAreas, Finish, FlowSeen, Snap
<1>10. ASSUME NEW w \in Workers, w # v, ReadFlow(w) PROVE FlowSeen(v)
  BY <1>10 DEF ReadFlow, FlowSeen
<1>11. ASSUME NEW w \in Workers, w # v, ReadCurrent(w) PROVE FlowSeen(v)
  <2>1. PICK a : ReadCurrentOf(w, a)
    BY <1>11, ReadCurrentCases
  <2> QED
    BY <1>11, <2>1 DEF ReadCurrentOf, FlowSeen
<1>12. ASSUME NEW w \in Workers, EvaluateAnswer(w) \/ OpeningQuestion(w) PROVE Goal
  BY <1>1, <1>12 DEF EvaluateAnswer, OpeningQuestion
<1>13. ASSUME NEW w \in Workers, RetryAI(w) PROVE FlowSeen(v)
  BY <1>13 DEF RetryAI, FlowSeen
<1>14. CASE Restart
  BY <1>14 DEF Restart, Forgets
<1>15. ASSUME NEW w \in Workers, WorkerStep(w) \/ WorkerFault(w) PROVE Goal
  BY <1>3, <1>5, <1>6, <1>7, <1>8, <1>9, <1>10, <1>11, <1>12, <1>13, <1>15 DEF WorkerStep, WorkerFault
<1>16. ASSUME NEW s \in Starters, StartInterview(s) PROVE UNCHANGED workerVars
  BY <1>16
  DEF StartInterview, StartSession, StartRejected, GetAnswerCount, GetFlowState,
      CreateQuestionArea, SetAreaInProgress, GetInProgressArea, PrepareStep, StartFails
<1> QED
  BY <1>2, <1>14, <1>15, <1>16
  DEF Next, vars, SubmitAnswerAsync, ResubmitAnswerAsync, RequeueStale, Tick

\* A question is only ever issued once the first area was opened, and a
\* StartInterview request that opened it is not undone by another.
LEMMA OpenInvStep ==
    ASSUME IInv, [Next]_vars
    PROVE  OpenInv'
<1>1. /\ TypeOK /\ OpenInv /\ 1 \in Areas
      /\ areaStatus \in [Areas -> AreaStatuses]
      /\ spc \in [Starters -> SPCs] /\ snext \in [Starters -> Nat \ {0}]
  BY PolicyAssumption DEF IInv, TypeOK, SessionType, StartType, Areas
<1>2. Opened => Opened'
  BY OpenedStays
<1>3. ASSUME NEW a \in Areas, areaStatus'[a] = "in_progress" PROVE Opened'
  <2>1. CASE areaStatus[a] = "in_progress"
    BY <1>1, <1>2, <2>1 DEF OpenInv, InProgress
  <2>2. CASE FirstOpened
    <3>1. areaStatus[1] = "absent" => areaStatus' = areaStatus
      BY <1>1, <2>2 DEF FirstOpened, Reachable
    <3> QED
      BY <1>1, <1>2, <1>3, <2>2, <3>1 DEF FirstOpened, Opened, Reachable, OpenInv, InProgress
  <2>3. ASSUME NEW w \in Workers, ProcessCriterionTurn(w) PROVE Opened'
    BY <1>1, <1>2, <2>3, TurnAreas DEF OpenInv, InProgress
  <2>4. CASE AreasKept
    BY <1>3, <2>1, <2>4 DEF AreasKept
  <2>5. ASSUME NEW s \in Starters, Inserted(s) PROVE Opened'
    BY <1>1, <1>3, <2>1, <2>5 DEF Inserted
  <2>6. ASSUME NEW c \in Areas, GivenUp(c) PROVE Opened'
    BY <1>1, <1>3, <2>1, <2>6 DEF GivenUp
  <2> QED
    BY <1>1, <2>2, <2>3, <2>4, <2>5, <2>6, AreasMove
<1>4. areaStatus[1] # "absent" => areaStatus'[1] # "absent"
  <2>1. CASE AreasKept
    BY <2>1 DEF AreasKept
  <2>2. ASSUME NEW s \in Starters, Inserted(s), areaStatus[1] # "absent" PROVE areaStatus'[1] # "absent"
    BY <1>1, <2>2 DEF Inserted
  <2>3. ASSUME FirstOpened, areaStatus[1] # "absent" PROVE areaStatus'[1] # "absent"
    BY <1>1, <2>3 DEF FirstOpened
  <2>4. ASSUME NEW c \in Areas, GivenUp(c), areaStatus[1] # "absent" PROVE areaStatus'[1] # "absent"
    BY <1>1, <2>4 DEF GivenUp
  <2>5. ASSUME NEW w \in Workers, ProcessCriterionTurn(w), areaStatus[1] # "absent"
        PROVE  areaStatus'[1] # "absent"
    BY <1>1, <2>5, TurnAreas
  <2> QED
    BY <1>1, <2>1, <2>2, <2>3, <2>4, <2>5, AreasMove
<1>5. flow'.turn # NoTurn \/ flow'.step # "disclaimer" => Opened'
  <2>1. ASSUME NEW s \in Starters, PrepareStep(s) PROVE Opened'
    BY <1>1, <1>2, <2>1 DEF PrepareStep, OpenInv
  <2>2. ASSUME NEW w \in Workers, ProcessCriterionTurn(w) PROVE Opened'
    BY <1>1, <1>2, <2>2, CommitFacts DEF OpenInv
  <2>3. ASSUME NEW w \in Workers, AdvanceNonCriterionStep(w) PROVE Opened'
    BY <1>1, <1>2, <2>3, AdvanceFacts DEF OpenInv, Fresh
  <2>4. ASSUME NEW w \in Workers, MarkFlowDone(w) PROVE flow' = flow \/ Opened'
    <3>1. pc[w] = "flowdone"
      BY <2>4 DEF MarkFlowDone
    <3>2. Opened
      BY <1>1, <3>1 DEF IInv, OpenInv
    <3> QED
      BY <1>2, <3>2
  <2>5. ASSUME flow' = flow, flow'.turn # NoTurn \/ flow'.step # "disclaimer" PROVE Opened'
    BY <1>1, <1>2, <2>5 DEF OpenInv
  <2> QED
    BY <2>1, <2>2, <2>3, <2>4, <2>5
    DEF Next, vars, sessionVars, StartInterview, WorkerStep, WorkerFault,
      StartSession, StartRejected, GetAnswerCount, GetFlowState, CreateQuestionArea,
      SetAreaInProgress, GetInProgressArea, StartFails, SubmitAnswerAsync,
      ResubmitAnswerAsync, ClaimHinted, ClaimNextQueued, ReadSession, ReadFlow, ReadAreas,
      ReadCurrent, RetryAI, EvaluateAnswer, OpeningQuestion, TurnMoved, MarkAreaNotAssessed,
      CompleteSession, MarkAnswerJob, ReadFails, TxRolledBack, CompleteSessionFails,
      MarkFails, Abandon, RequeueStale, Restart, Tick
<1>6. ASSUME NEW v \in Workers,
             snap'[v].flow.turn # NoTurn \/ pc'[v] \in {"timeout", "flowdone"}
      PROVE  Opened'
  <2>1. CASE FlowSeen(v)
    BY <1>1, <1>2, <1>6, <2>1 DEF OpenInv, FlowSeen
  <2>2. CASE Forgets(v)
    BY <1>6, <2>2 DEF Forgets, NoSnap, DoneFlow
  <2>3. CASE ReadFlow(v)
    <3>1. snap'[v].flow = flow /\ pc'[v] = "areas"
      BY <1>1, <2>3 DEF ReadFlow, TypeOK, WorkerType, Snap
    <3> QED
      BY <1>1, <1>2, <1>6, <3>1 DEF OpenInv
  <2>4. CASE ReadCurrent(v)
    <3>1. PICK a \in Areas \cup {NoArea} : ReadCurrentOf(v, a)
      BY <2>4, ReadCurrentCases
    <3>2. snap'[v] = SnapOf(v, a) /\ pc'[v] = Route(SnapOf(v, a), jobs[wjob[v]])
      BY <1>1, <3>1 DEF ReadCurrentOf, TypeOK, WorkerType
    <3>3. snap'[v].flow = snap[v].flow
      BY <3>2 DEF SnapOf
    <3>4. pc'[v] \in {"timeout", "flowdone"} => ~TurnConflict(SnapOf(v, a), jobs[wjob[v]])
      BY <3>2 DEF Route
    <3>5. pc'[v] \in {"timeout", "flowdone"} => snap[v].flow.turn # NoTurn
      BY <3>4 DEF TurnConflict, SnapOf
    <3> QED
      BY <1>1, <1>2, <1>6, <3>3, <3>5 DEF OpenInv
  <2> QED
    BY <1>1, <2>1, <2>2, <2>3, <2>4, SeenMoves
<1>7. ASSUME NEW s \in Starters
      PROVE  /\ spc'[s] \in {"current", "prepare"} => Opened'
             /\ spc'[s] = "create" => snext'[s] \in Areas
             /\ spc'[s] = "first" \/ (spc'[s] = "create" /\ snext'[s] > 1) => areaStatus'[1] # "absent"
             /\ spc'[s] \in {"new", "count", "flow"} => snext'[s] = 1
  <2> DEFINE Goal == /\ spc'[s] \in {"current", "prepare"} => Opened'
                     /\ spc'[s] = "create" => snext'[s] \in Areas
                     /\ spc'[s] = "first" \/ (spc'[s] = "create" /\ snext'[s] > 1) => areaStatus'[1] # "absent"
                     /\ spc'[s] \in {"new", "count", "flow"} => snext'[s] = 1
  <2>1. CASE spc'[s] = spc[s] /\ snext'[s] = snext[s]
    BY <1>1, <1>2, <1>4, <2>1 DEF OpenInv
  <2>2. ASSUME NEW t \in Starters, t # s, StartInterview(t) PROVE Goal
    BY <1>1, <2>1, <2>2
    DEF StartInterview, StartSession, StartRejected, GetAnswerCount, GetFlowState,
        CreateQuestionArea, SetAreaInProgress, GetInProgressArea, PrepareStep, StartFails
  <2>3. CASE spc'[s] = "ended"
    BY <2>3
  <2>4. CASE StartSession(s) \/ GetAnswerCount(s)
    BY <1>1, <2>4 DEF StartSession, GetAnswerCount, OpenInv
  <2>5. CASE StartRejected(s) \/ StartFails(s) \/ PrepareStep(s)
    BY <1>1, <2>3, <2>5 DEF StartRejected, StartFails, PrepareStep
  <2>6. CASE GetFlowState(s)
    BY <1>1, <2>6, PolicyAssumption DEF GetFlowState, OpenInv, Areas
  <2>7. CASE CreateQuestionArea(s)
    <3>1. spc[s] = "create" /\ snext[s] \in Areas /\ snext'[s] = snext[s] + 1
          /\ spc'[s] = IF snext[s] = NAreas THEN "first" ELSE "create"
      BY <1>1, <2>7 DEF CreateQuestionArea, OpenInv
    <3>2. areaStatus'[1] # "absent"
      <4>1. CASE snext[s] = 1
        BY <1>1, <2>7, <4>1 DEF CreateQuestionArea
      <4>2. CASE snext[s] # 1
        BY <1>1, <1>4, <3>1, <4>2 DEF OpenInv, Areas
      <4> QED
        BY <4>1, <4>2
    <3>3. snext[s] # NAreas => snext'[s] \in Areas
      BY <3>1, PolicyAssumption DEF Areas
    <3> QED
      BY <3>1, <3>2, <3>3
  <2>8. CASE SetAreaInProgress(s)
    <3>1. areaStatus[1] # "absent" /\ spc'[s] = "current"
      BY <1>1, <2>8 DEF SetAreaInProgress, OpenInv
    <3>2. Opened'
      BY <1>1, <2>8, <3>1 DEF SetAreaInProgress, Opened, Reachable
    <3> QED
      BY <3>1, <3>2
  <2>9. CASE GetInProgressArea(s)
    BY <1>1, <1>2, <2>9 DEF GetInProgressArea, OpenInv
  <2>10. ASSUME NEW t \in Starters, StartInterview(t) PROVE Goal
    BY <2>2, <2>4, <2>5, <2>6, <2>7, <2>8, <2>9, <2>10 DEF StartInterview
  <2>11. CASE Restart
    BY <1>1, <2>1, <2>3, <2>11 DEF Restart
  <2>12. CASE UNCHANGED startVars
    BY <2>1, <2>12 DEF startVars
  <2>13. ASSUME NEW w \in Workers, WorkerStep(w) \/ WorkerFault(w) PROVE UNCHANGED startVars
    BY <2>13
    DEF WorkerStep, WorkerFault, ClaimHinted, ClaimNextQueued, ReadSession, ReadFlow,
        ReadAreas, ReadCurrent, RetryAI, EvaluateAnswer, OpeningQuestion,
        AdvanceNonCriterionStep, ProcessCriterionTurn, TurnMoved, MarkAreaNotAssessed,
        MarkFlowDone, CompleteSession, MarkAnswerJob, ReadFails, TxRolledBack,
        CompleteSessionFails, MarkFails, Abandon
  <2> QED
    BY <2>10, <2>11, <2>12, <2>13
    DEF Next, vars, SubmitAnswerAsync, ResubmitAnswerAsync, RequeueStale, Tick
<1> QED
  BY <1>3, <1>5, <1>6, <1>7 DEF OpenInv, InProgress

\* An area that can still be asked about has questions left, and no area gets
\* more than MaxQuestionsPerArea: the count the worker decided on is the count
\* the transaction increments.
LEMMA CountsStep ==
    ASSUME IInv, [Next]_vars
    PROVE  /\ QuestionsCapped'
           /\ \A a \in Areas :
                 /\ areaStatus'[a] \in {"absent", "pending", "pre_addressed"} => areaCount'[a] = 0
                 /\ areaStatus'[a] = "in_progress" => areaCount'[a] < MaxQuestionsPerArea
<1> DEFINE Fits(a) == /\ areaCount'[a] <= MaxQuestionsPerArea
                      /\ areaStatus'[a] \in {"absent", "pending", "pre_addressed"} => areaCount'[a] = 0
                      /\ areaStatus'[a] = "in_progress" => areaCount'[a] < MaxQuestionsPerArea
<1> SUFFICES ASSUME NEW a \in Areas PROVE Fits(a)
  BY DEF QuestionsCapped
<1>1. /\ TypeOK /\ areaStatus \in [Areas -> AreaStatuses] /\ areaCount \in [Areas -> Nat]
      /\ MaxQuestionsPerArea \in Nat \ {0}
      /\ areaCount[a] <= MaxQuestionsPerArea
      /\ areaStatus[a] \in {"absent", "pending", "pre_addressed"} => areaCount[a] = 0
      /\ areaStatus[a] = "in_progress" => areaCount[a] < MaxQuestionsPerArea
  BY PolicyAssumption DEF IInv, TypeOK, SessionType, QuestionsCapped, AreaInv
<1>2. ASSUME AreasKept, areaCount' = areaCount PROVE Fits(a)
  BY <1>1, <1>2 DEF AreasKept
<1>3. ASSUME NEW s \in Starters, Inserted(s), areaCount' = areaCount PROVE Fits(a)
  BY <1>1, <1>3 DEF Inserted
<1>4. ASSUME FirstOpened, areaCount' = areaCount PROVE Fits(a)
  BY <1>1, <1>4 DEF FirstOpened, Reachable
<1>5. ASSUME NEW c \in Areas, GivenUp(c), areaCount' = areaCount PROVE Fits(a)
  BY <1>1, <1>5 DEF GivenUp, Reachable
<1>6. ASSUME NEW w \in Workers, ProcessCriterionTurn(w) PROVE Fits(a)
  <2>1. CASE a = snap[w].cur
    BY <1>1, <1>6, <2>1, TurnAreas
  <2>2. CASE a # snap[w].cur
    <3>1. areaCount'[a] = areaCount[a]
      BY <1>6, <2>2, TurnAreas
    <3>2. \/ areaStatus'[a] = areaStatus[a]
          \/ areaStatus[a] = "pending" /\ areaStatus'[a] = "pre_addressed"
          \/ areaStatus[a] \in Reachable /\ areaStatus'[a] = "in_progress"
      BY <1>6, <2>2, TurnAreas
    <3> QED
      BY <1>1, <3>1, <3>2 DEF Reachable
  <2> QED
    BY <2>1, <2>2
<1> QED
  BY <1>1, <1>2, <1>3, <1>4, <1>5, <1>6, AreasMove

\* In the criterion step only the area of the question is in progress.
LEMMA CriterionAreaStep ==
    ASSUME IInv, [Next]_vars, flow'.step = "criterion", NEW a \in Areas, areaStatus'[a] = "in_progress"
    PROVE  a = flow'.area
<1>1. /\ TypeOK /\ areaStatus \in [Areas -> AreaStatuses] /\ OneInProgress
      /\ flow.step = "criterion" => InProgress \subseteq {flow.area}
  BY DEF IInv, TypeOK, SessionType, AreaInv
<1>2. ASSUME flow' = flow PROVE a = flow'.area
  <2>1. areaStatus[a] = "in_progress" => a = flow.area
    BY <1>1, <1>2 DEF InProgress
  <2>2. CASE AreasKept
    BY <1>2, <2>1, <2>2 DEF AreasKept
  <2>3. ASSUME NEW s \in Starters, Inserted(s) PROVE a = flow'.area
    BY <1>1, <1>2, <2>1, <2>3 DEF Inserted
  <2>4. CASE FirstOpened
    <3>1. areaStatus[1] \notin Reachable
      BY <1>2 DEF IInv, OpenInv, Opened, Reachable
    <3> QED
      BY <1>1, <1>2, <2>1, <2>4, <3>1 DEF FirstOpened
  <2>5. ASSUME NEW c \in Areas, GivenUp(c) PROVE a = flow'.area
    BY <1>1, <1>2, <2>1, <2>5 DEF GivenUp
  <2>6. ASSUME NEW w \in Workers, ProcessCriterionTurn(w) PROVE FALSE
    <3>1. flow.turn # NoTurn /\ flow.turn < nextTurn /\ flow.turn \in Nat /\ nextTurn \in Nat
      BY <2>6, CommitFacts DEF Fresh, IInv, TurnInv, TypeOK, SessionType, Flow
    <3>2. flow'.turn = NoTurn \/ flow'.turn = nextTurn
      BY <2>6 DEF ProcessCriterionTurn, NextFlow, DoneFlow
    <3> QED
      BY <1>2, <3>1, <3>2
  <2> QED
    BY <1>1, <2>2, <2>3, <2>4, <2>5, <2>6, AreasMove
<1>3. ASSUME NEW s \in Starters, PrepareStep(s) PROVE FALSE
  BY <1>3 DEF PrepareStep
<1>4. ASSUME NEW w \in Workers, AdvanceNonCriterionStep(w) PROVE a = flow'.area
  <2>1. snap[w].cur \in Areas /\ areaStatus[snap[w].cur] = "in_progress"
    BY <1>4, AdvanceFacts
  <2>2. areaStatus' = areaStatus /\ flow'.area = snap[w].cur
    BY <1>4 DEF AdvanceNonCriterionStep
  <2> QED
    BY <1>1, <2>1, <2>2 DEF OneInProgress, InProgress
<1>5. ASSUME NEW w \in Workers, ProcessCriterionTurn(w) PROVE a = flow'.area
  <2>1. flow'.area = plan[w].nextArea
    BY <1>5 DEF ProcessCriterionTurn, NextFlow, DoneFlow
  <2>2. areaStatus[a] = "in_progress" => a = snap[w].cur
    BY <1>1, <1>5, TurnAreas DEF OneInProgress, InProgress
  <2> QED
    BY <1>5, <2>1, <2>2, TurnAreas
<1>6. ASSUME NEW w \in Workers, MarkFlowDone(w) PROVE flow' = flow
  BY <1>6 DEF MarkFlowDone, DoneFlow
<1> QED
  BY <1>2, <1>3, <1>4, <1>5, <1>6
  DEF Next, vars, sessionVars, StartInterview, WorkerStep, WorkerFault,
      StartSession, StartRejected, GetAnswerCount, GetFlowState, CreateQuestionArea,
      SetAreaInProgress, GetInProgressArea, StartFails, SubmitAnswerAsync,
      ResubmitAnswerAsync, ClaimHinted, ClaimNextQueued, ReadSession, ReadFlow, ReadAreas,
      ReadCurrent, RetryAI, EvaluateAnswer, OpeningQuestion, TurnMoved, MarkAreaNotAssessed,
      CompleteSession, MarkAnswerJob, ReadFails, TxRolledBack, CompleteSessionFails,
      MarkFails, Abandon, RequeueStale, Restart, Tick

\* The seconds Postgres adds exceed the seconds Go checked by one at most.
LEMMA Roundings ==
    ASSUME NEW i \in Nat, NEW c \in Nat
    PROVE  /\ AtMostLimit(wholeSecondsGo(c - i)) \in Nat
           /\ lapsedIncrement(i, c) \in Nat
           /\ lapsedIncrement(i, c) <= AtMostLimit(wholeSecondsGo(c - i)) + 1
BY PolicyAssumption DEF lapsedIncrement, AtMostLimit, wholeSecondsGo, wholeSecondsSQL

\* A turn that passes the budget check fits in the budget: the lapsed seconds
\* the check used are those the transaction adds to.
LEMMA LapsedStep ==
    ASSUME IInv, [Next]_vars
    PROVE  LapsedWithinBudget'
<1>1. lapsed \in Nat /\ lapsed <= InterviewBudget /\ InterviewBudget \in Nat
  BY PolicyAssumption DEF IInv, TypeOK, SessionType, LapsedWithinBudget
<1>2. ASSUME NEW w \in Workers, ProcessCriterionTurn(w) PROVE lapsed' <= InterviewBudget
  <2> DEFINE c == jobs[wjob[w]].createdAt
             i == flow.issuedAt
  <2>1. wjob[w] \in Jobs /\ snap[w].lapsed = lapsed /\ snap[w].flow = flow
        /\ flow.step = "criterion" /\ flow.turn # 0 /\ ~TimeUp(snap[w], jobs[wjob[w]])
    BY <1>2, CommitFacts DEF Fresh, NoTurn
  <2>2. c \in Nat /\ i \in Nat
    BY <2>1 DEF IInv, TypeOK, JobType, Job, SessionType, Flow
  <2>3. ~(calcEffectiveTimeRemaining(lapsed, AtMostLimit(wholeSecondsGo(c - i))) <= 0)
    BY <2>1 DEF TimeUp, liveCriterionElapsedSeconds
  <2>4. lapsed' = lapsed + lapsedIncrement(i, c)
    BY <1>2 DEF ProcessCriterionTurn
  <2> HIDE DEF c, i
  <2>5. AtMostLimit(wholeSecondsGo(c - i)) \in Nat /\ lapsedIncrement(i, c) \in Nat
        /\ lapsedIncrement(i, c) <= AtMostLimit(wholeSecondsGo(c - i)) + 1
    BY <2>2, Roundings
  <2>6. lapsed + AtMostLimit(wholeSecondsGo(c - i)) < InterviewBudget
    BY <1>1, <2>3, <2>5 DEF calcEffectiveTimeRemaining
  <2> QED
    BY <1>1, <2>4, <2>5, <2>6
<1>3. ASSUME lapsed' = lapsed PROVE lapsed' <= InterviewBudget
  BY <1>1, <1>3
<1>4. lapsed' <= InterviewBudget
  BY <1>2, <1>3
  DEF Next, vars, sessionVars, StartInterview, WorkerStep, WorkerFault,
      StartSession, StartRejected, GetAnswerCount, GetFlowState, CreateQuestionArea,
      SetAreaInProgress, GetInProgressArea, PrepareStep, StartFails, SubmitAnswerAsync,
      ResubmitAnswerAsync, ClaimHinted, ClaimNextQueued, ReadSession, ReadFlow, ReadAreas,
      ReadCurrent, RetryAI, EvaluateAnswer, OpeningQuestion, AdvanceNonCriterionStep,
      TurnMoved, MarkAreaNotAssessed, MarkFlowDone, CompleteSession, MarkAnswerJob,
      ReadFails, TxRolledBack, CompleteSessionFails, MarkFails, Abandon, RequeueStale,
      Restart, Tick
<1> QED
  BY <1>4 DEF LapsedWithinBudget

-----------------------------------------------------------------------------
\* A created session, before anyone started the interview.
LEMMA IInvInit == Init => IInv
<1> SUFFICES ASSUME Init PROVE IInv
  OBVIOUS
<1>1. TypeOK
  BY TypeInit
<1>2. TurnInv /\ TurnAppliedOnce
  BY DEF Init, TurnInv, TurnAppliedOnce, NoTurn
<1>3. SnapInv /\ PlanInv
  BY DEF Init, SnapInv, PlanInv, Holding, Routed
<1>4. OneInProgress /\ AreaInv /\ QuestionsCapped /\ LapsedWithinBudget
  BY PolicyAssumption DEF Init, OneInProgress, InProgress, AreaInv, QuestionsCapped, LapsedWithinBudget
<1>5. OpenInv
  BY DEF Init, OpenInv, InProgress, NoSnap, DoneFlow
<1> QED
  BY <1>1, <1>2, <1>3, <1>4, <1>5 DEF IInv

\* Every step keeps the inductive invariant.
LEMMA IInvStep ==
    ASSUME IInv, [Next]_vars
    PROVE  IInv'
<1>1. TypeOK'
  BY TypeStep DEF IInv
<1>2. AreaInv'
  BY CountsStep, CriterionAreaStep DEF AreaInv, InProgress
<1> QED
  BY <1>1, <1>2, TurnInvStep, RowTurnsStep, SnapInvStep, PlanInvStep, OpenInvStep,
     OneInProgressStep, CountsStep, LapsedStep
  DEF IInv

\* The inductive invariant holds in every reachable state.
THEOREM Inductive == Spec => []IInv
<1>1. Init => IInv
  BY IInvInit
<1>2. IInv /\ [Next]_vars => IInv'
  BY IInvStep
<1> QED
  BY <1>1, <1>2, PTL DEF Spec

\* However many jobs carry a turn id, and however often each is run, retried
\* or requeued, the turn is stored once.
THEOREM TurnIsAppliedOnce == Spec => []TurnAppliedOnce
<1>1. IInv => TurnAppliedOnce
  BY DEF IInv
<1> QED
  BY <1>1, Inductive, PTL

\* Overlapping starts, turns and timeouts never leave two areas in progress.
THEOREM OneAreaInProgress == Spec => []OneInProgress
<1>1. IInv => OneInProgress
  BY DEF IInv
<1> QED
  BY <1>1, Inductive, PTL

\* No area is asked more than MaxQuestionsPerArea questions.
THEOREM QuestionsStayCapped == Spec => []QuestionsCapped
<1>1. IInv => QuestionsCapped
  BY DEF IInv
<1> QED
  BY <1>1, Inductive, PTL

\* The stored lapsed seconds stay within the budget although they are rounded
\* and the check truncates.
THEOREM LapsedStaysWithinBudget == Spec => []LapsedWithinBudget
<1>1. IInv => LapsedWithinBudget
  BY DEF IInv
<1> QED
  BY <1>1, Inductive, PTL

-----------------------------------------------------------------------------
\* A verdict on an area is never reopened or rewritten: the only unguarded
\* status write, the verdict of a criterion turn, hits an area in progress.
THEOREM VerdictsAreFinal == Spec => VerdictIsFinal
<1>1. ASSUME IInv, [Next]_vars, NEW a \in Areas, Resolved(areaStatus[a])
      PROVE  areaStatus'[a] = areaStatus[a]
  <2>1. TypeOK /\ areaStatus \in [Areas -> AreaStatuses]
        /\ areaStatus[a] \notin {"absent", "pending", "pre_addressed", "in_progress"}
    BY <1>1 DEF IInv, TypeOK, SessionType, Resolved
  <2>2. CASE AreasKept
    BY <2>2 DEF AreasKept
  <2>3. ASSUME NEW s \in Starters, Inserted(s) PROVE areaStatus'[a] = areaStatus[a]
    BY <2>1, <2>3 DEF Inserted
  <2>4. CASE FirstOpened
    BY <2>1, <2>4 DEF FirstOpened, Reachable
  <2>5. ASSUME NEW c \in Areas, GivenUp(c) PROVE areaStatus'[a] = areaStatus[a]
    BY <2>1, <2>5 DEF GivenUp, Reachable
  <2>6. ASSUME NEW w \in Workers, ProcessCriterionTurn(w) PROVE areaStatus'[a] = areaStatus[a]
    BY <1>1, <2>1, <2>6, TurnAreas DEF Reachable
  <2> QED
    BY <1>1, <2>1, <2>2, <2>3, <2>4, <2>5, <2>6, AreasMove
<1>2. IInv /\ [Next]_vars
      => [\A a \in Areas : Resolved(areaStatus[a]) => areaStatus'[a] = areaStatus[a]]_vars
  BY <1>1
<1> QED
  BY <1>2, Inductive, PTL DEF Spec, VerdictIsFinal

\* Only a criterion turn stores an answer.
LEMMA AnswersMove ==
    ASSUME [Next]_vars
    PROVE  answers' = answers \/ \E w \in Workers : ProcessCriterionTurn(w)
BY DEF Next, vars, sessionVars, StartInterview, WorkerStep, WorkerFault,
      StartSession, StartRejected, GetAnswerCount, GetFlowState, CreateQuestionArea,
      SetAreaInProgress, GetInProgressArea, PrepareStep, StartFails, SubmitAnswerAsync,
      ResubmitAnswerAsync, ClaimHinted, ClaimNextQueued, ReadSession, ReadFlow, ReadAreas,
      ReadCurrent, RetryAI, EvaluateAnswer, OpeningQuestion, AdvanceNonCriterionStep,
      TurnMoved, MarkAreaNotAssessed, MarkFlowDone, CompleteSession, MarkAnswerJob,
      ReadFails, TxRolledBack, CompleteSessionFails, MarkFails, Abandon, RequeueStale,
      Restart, Tick

\* An answer is stored under the area its question was about, and that area is
\* still in progress when the turn commits.
THEOREM AnswersGoToTheirArea == Spec => AnswerStoredUnderItsArea
<1>1. ASSUME IInv, [Next]_vars, NEW i \in DOMAIN answers' \ DOMAIN answers
      PROVE  answers'[i].area = flow.area /\ areaStatus[flow.area] = "in_progress"
  <2>1. PICK w \in Workers : ProcessCriterionTurn(w)
    BY <1>1, AnswersMove
  <2>2. snap[w].cur \in Areas /\ areaStatus[snap[w].cur] = "in_progress" /\ flow.area = snap[w].cur
        /\ wjob[w] \in Jobs
    BY <1>1, <2>1, CommitFacts
  <2>3. answers' = Append(answers, [turn |-> jobs[wjob[w]].turn, area |-> snap[w].cur])
    BY <2>1 DEF ProcessCriterionTurn
  <2>4. answers \in Seq([turn : Nat, area : Areas]) /\ jobs[wjob[w]].turn \in Nat
    BY <1>1, <2>2 DEF IInv, TypeOK, SessionType, JobType, Job
  <2>5. answers'[i].area = snap[w].cur
    BY <1>1, <2>2, <2>3, <2>4, AppendRows
  <2> QED
    BY <2>2, <2>5
<1>2. IInv /\ [Next]_vars
      => [\A i \in DOMAIN answers' \ DOMAIN answers :
            answers'[i].area = flow.area /\ areaStatus[flow.area] = "in_progress"]_vars
  BY <1>1
<1> QED
  BY <1>2, Inductive, PTL DEF Spec, AnswerStoredUnderItsArea

-----------------------------------------------------------------------------
\* A step that stores no row leaves the applied turns alone.
LEMMA RowsKeptLedger ==
    ASSUME RowsKept
    PROVE  AppliedTurns' = AppliedTurns /\ (Len(answers) + Len(events))' = Len(answers) + Len(events)
BY DEF RowsKept, AppliedTurns

\* A step that stores a row adds the expected turn to the applied ones.
LEMMA RowStoredLedger ==
    ASSUME TypeOK, NEW w \in Workers,
           \/ \E r \in [turn : Nat, area : Areas] : Answered(w, r)
           \/ \E r \in [turn : Nat, type : Steps] : Recorded(w, r)
    PROVE  /\ AppliedTurns' = AppliedTurns \cup {flow.turn}
           /\ (Len(answers) + Len(events))' = Len(answers) + Len(events) + 1
<1>1. answers \in Seq([turn : Nat, area : Areas]) /\ events \in Seq([turn : Nat, type : Steps])
  BY DEF TypeOK, SessionType
<1>2. ASSUME NEW r \in [turn : Nat, area : Areas], Answered(w, r)
      PROVE  /\ AppliedTurns' = AppliedTurns \cup {flow.turn}
             /\ (Len(answers) + Len(events))' = Len(answers) + Len(events) + 1
  <2>1. /\ DOMAIN answers' = DOMAIN answers \cup {Len(answers) + 1}
        /\ \A i \in DOMAIN answers : answers'[i] = answers[i]
        /\ answers'[Len(answers) + 1].turn = flow.turn
        /\ events' = events
    BY <1>1, <1>2, AppendRows DEF Answered
  <2>2. Len(answers') = Len(answers) + 1 /\ Len(answers) \in Nat /\ Len(events) \in Nat
    BY <1>1, <1>2 DEF Answered
  <2> QED
    BY <2>1, <2>2 DEF AppliedTurns
<1>3. ASSUME NEW r \in [turn : Nat, type : Steps], Recorded(w, r)
      PROVE  /\ AppliedTurns' = AppliedTurns \cup {flow.turn}
             /\ (Len(answers) + Len(events))' = Len(answers) + Len(events) + 1
  <2>1. /\ DOMAIN events' = DOMAIN events \cup {Len(events) + 1}
        /\ \A i \in DOMAIN events : events'[i] = events[i]
        /\ events'[Len(events) + 1].turn = flow.turn
        /\ answers' = answers
    BY <1>1, <1>3, AppendRows DEF Recorded
  <2>2. Len(events') = Len(events) + 1 /\ Len(answers) \in Nat /\ Len(events) \in Nat
    BY <1>1, <1>3 DEF Recorded
  <2> QED
    BY <2>1, <2>2 DEF AppliedTurns
<1> QED
  BY <1>2, <1>3

\* Jobs, workers, retries, timeouts and restarts together implement the turn
\* ledger: an answer is accepted for the expected turn only, once, and the
\* same step replaces the expected turn.
THEOREM InterviewImplementsLedger == Spec => ImplementsLedger
<1>1. Init => Ledger!Init
  BY DEF Init, Ledger!Init, AppliedTurns, NoTurn
<1>2. ASSUME IInv, [Next]_vars PROVE [Ledger!Next]_(Ledger!ledgerVars)
  <2>1. TypeOK /\ (FlowKept \/ FlowIssued \/ FlowCleared)
    BY <1>2, FlowMoves DEF IInv
  <2>2. CASE RowsKept
    <3>1. AppliedTurns' = AppliedTurns /\ (Len(answers) + Len(events))' = Len(answers) + Len(events)
      BY <2>2, RowsKeptLedger
    <3>2. CASE FlowKept
      BY <3>1, <3>2 DEF FlowKept, Ledger!ledgerVars
    <3>3. CASE FlowIssued
      BY <3>1, <3>3 DEF FlowIssued, Ledger!Next, Ledger!Issue
    <3>4. CASE FlowCleared
      BY <3>1, <3>4 DEF FlowCleared, Ledger!Next, Ledger!Close, NoTurn
    <3> QED
      BY <2>1, <3>2, <3>3, <3>4
  <2>3. ASSUME NEW w \in Workers, flow.turn # NoTurn, FlowIssued \/ FlowCleared,
               \/ \E r \in [turn : Nat, area : Areas] : Answered(w, r)
               \/ \E r \in [turn : Nat, type : Steps] : Recorded(w, r)
        PROVE  Ledger!Apply
    <3>1. /\ AppliedTurns' = AppliedTurns \cup {flow.turn}
          /\ (Len(answers) + Len(events))' = Len(answers) + Len(events) + 1
      BY <2>1, <2>3, RowStoredLedger
    <3>2. flow.turn \notin AppliedTurns
      BY <1>2 DEF IInv, TurnInv, AppliedTurns
    <3> QED
      BY <2>3, <3>1, <3>2 DEF Ledger!Apply, FlowIssued, FlowCleared, NoTurn
  <2>4. CASE ~RowsKept
    BY <1>2, <2>3, <2>4, RowsMove DEF Ledger!Next
  <2> QED
    BY <2>2, <2>4
<1> QED
  BY <1>1, <1>2, Inductive, PTL DEF Spec, ImplementsLedger, Ledger!Spec

=============================================================================
