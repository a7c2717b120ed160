-------------------------- MODULE InterviewOutcomes --------------------------
(***************************************************************************)
(* What the user is told, proved for every value of the constants: the      *)
(* question number and the counts per area agree with the rows, and a job    *)
(* reported as succeeded has done what it reports.                         *)
(*                                                                         *)
(* Both rest on the inductive invariant of InterviewProofs.  The counters    *)
(* are computed from the worker's snapshot, which is true while its turn is  *)
(* expected.  A success is earned by the transaction that takes the expected  *)
(* turn off the flow pointer, so no two jobs can earn the same turn.         *)
(***************************************************************************)
EXTENDS InterviewProofs, FiniteSetTheorems

-----------------------------------------------------------------------------
(* Counters.                                                               *)

AnswersOf(a) == {i \in DOMAIN answers : answers[i].area = a}
Readied      == {i \in DOMAIN events : events[i].type = "readiness"}

\* The positions of a sequence are finitely many.
LEMMA PositionsFinite ==
    ASSUME NEW S, NEW q \in Seq(S), NEW T \in SUBSET DOMAIN q
    PROVE  IsFiniteSet(T) /\ Cardinality(T) \in Nat
<1>1. DOMAIN q = 1 .. Len(q) /\ Len(q) \in Nat
  OBVIOUS
<1>2. IsFiniteSet(DOMAIN q)
  BY <1>1, FS_Interval
<1> QED
  BY <1>2, FS_Subset, FS_CardinalityType

\* A step that counts nothing.
CountersKept ==
    /\ flow'.number = flow.number
    /\ answers' = answers /\ events' = events /\ areaCount' = areaCount

\* Only the two transactions count, and both add to the rows.
LEMMA CountersMove ==
    ASSUME [Next]_vars
    PROVE  \/ CountersKept
           \/ \E w \in Workers : ProcessCriterionTurn(w) \/ AdvanceNonCriterionStep(w)
<1>1. ASSUME NEW s \in Starters, PrepareStep(s) PROVE CountersKept
  BY <1>1 DEF PrepareStep, CountersKept
<1>2. ASSUME NEW w \in Workers, MarkFlowDone(w) PROVE CountersKept
  BY <1>2 DEF MarkFlowDone, DoneFlow, CountersKept
<1>3. CASE UNCHANGED <<flow, answers, events, areaCount>>
  BY <1>3 DEF CountersKept
<1> QED
  BY <1>1, <1>2, <1>3
  DEF Next, vars, sessionVars, StartInterview, WorkerStep, WorkerFault,
      StartSession, StartRejected, GetAnswerCount, GetFlowState, CreateQuestionArea,
      SetAreaInProgress, GetInProgressArea, StartFails, SubmitAnswerAsync,
      ResubmitAnswerAsync, ClaimHinted, ClaimNextQueued, ReadSession, ReadFlow, ReadAreas,
      ReadCurrent, RetryAI, EvaluateAnswer, OpeningQuestion, TurnMoved, MarkAreaNotAssessed,
      CompleteSession, MarkAnswerJob, ReadFails, TxRolledBack, CompleteSessionFails,
      MarkFails, Abandon, RequeueStale, Restart, Tick

\* An answered criterion question counts once, for its area and in the number.
LEMMA CriterionCounts ==
    ASSUME IInv, CountersMatchRows, NEW w \in Workers, ProcessCriterionTurn(w)
    PROVE  CountersMatchRows'
<1> DEFINE c == snap[w].cur
           r == [turn |-> jobs[wjob[w]].turn, area |-> c]
<1>1. /\ wjob[w] \in Jobs /\ c \in Areas /\ snap[w].flow = flow
  BY CommitFacts
<1>2. /\ answers \in Seq([turn : Nat, area : Areas]) /\ events \in Seq([turn : Nat, type : Steps])
      /\ areaCount \in [Areas -> Nat] /\ flow \in Flow /\ jobs[wjob[w]].turn \in Nat
  BY <1>1 DEF IInv, TypeOK, SessionType, JobType, Job
<1>3. /\ answers' = Append(answers, r) /\ events' = events
      /\ areaCount' = [areaCount EXCEPT ![c] = @ + 1]
      /\ flow'.number = flow.number + 1
  BY <1>1 DEF ProcessCriterionTurn, NextFlow, DoneFlow
<1>4. r \in [turn : Nat, area : Areas] /\ r.area = c
  BY <1>1, <1>2
<1> HIDE DEF r
<1>5. /\ DOMAIN answers' = DOMAIN answers \cup {Len(answers) + 1}
      /\ \A i \in DOMAIN answers : answers'[i] = answers[i] /\ i # Len(answers) + 1
      /\ answers'[Len(answers) + 1] = r
      /\ Len(answers') = Len(answers) + 1 /\ Len(answers) \in Nat
  BY <1>2, <1>3, <1>4, AppendRows
<1>6. ASSUME NEW a \in Areas PROVE areaCount'[a] = Cardinality(AnswersOf(a)')
  <2>1. areaCount[a] = Cardinality(AnswersOf(a))
    BY DEF CountersMatchRows, AnswersOf
  <2>2. IsFiniteSet(AnswersOf(a))
    BY <1>2, PositionsFinite DEF AnswersOf
  <2>3. CASE a = c
    <3>1. AnswersOf(a)' = AnswersOf(a) \cup {Len(answers) + 1} /\ Len(answers) + 1 \notin AnswersOf(a)
      BY <1>4, <1>5, <2>3 DEF AnswersOf
    <3>2. Cardinality(AnswersOf(a)') = Cardinality(AnswersOf(a)) + 1
      BY <2>2, <3>1, FS_AddElement
    <3> QED
      BY <1>1, <1>2, <1>3, <2>1, <2>3, <3>2
  <2>4. CASE a # c
    <3>1. AnswersOf(a)' = AnswersOf(a)
      BY <1>4, <1>5, <2>4 DEF AnswersOf
    <3> QED
      BY <1>1, <1>2, <1>3, <2>1, <2>4, <3>1
  <2> QED
    BY <2>3, <2>4
<1>7. flow'.number = 1 + Len(answers') + Cardinality(Readied')
  <2>1. Readied' = Readied /\ flow.number = 1 + Len(answers) + Cardinality(Readied)
    BY <1>3 DEF CountersMatchRows, Readied
  <2>2. Cardinality(Readied) \in Nat
    BY <1>2, PositionsFinite DEF Readied
  <2> QED
    BY <1>3, <1>5, <2>1, <2>2
<1> QED
  BY <1>6, <1>7 DEF CountersMatchRows, AnswersOf, Readied

\* A readiness turn counts once in the number, a disclaimer turn nowhere.
LEMMA AdvanceCounts ==
    ASSUME IInv, CountersMatchRows, NEW w \in Workers, AdvanceNonCriterionStep(w)
    PROVE  CountersMatchRows'
<1> DEFINE r == [turn |-> jobs[wjob[w]].turn, type |-> flow.step]
<1>1. /\ wjob[w] \in Jobs /\ snap[w].flow = flow
  BY AdvanceFacts
<1>2. /\ answers \in Seq([turn : Nat, area : Areas]) /\ events \in Seq([turn : Nat, type : Steps])
      /\ flow \in Flow /\ jobs[wjob[w]].turn \in Nat /\ flow.step \in Steps
  BY <1>1 DEF IInv, TypeOK, SessionType, JobType, Job, Flow
<1>3. flow.step \in {"disclaimer", "readiness"}
  <2>1. pc[w] = "advance"
    BY DEF AdvanceNonCriterionStep
  <2> QED
    BY <1>1, <2>1 DEF IInv, PlanInv, Routed
<1>4. /\ events' = Append(events, r) /\ answers' = answers /\ areaCount' = areaCount
      /\ flow'.number = IF flow.step = "disclaimer" THEN flow.number ELSE flow.number + 1
  BY <1>1 DEF AdvanceNonCriterionStep
<1>5. r \in [turn : Nat, type : Steps] /\ r.type = flow.step
  BY <1>2
<1> HIDE DEF r
<1>6. /\ DOMAIN events' = DOMAIN events \cup {Len(events) + 1}
      /\ \A i \in DOMAIN events : events'[i] = events[i] /\ i # Len(events) + 1
      /\ events'[Len(events) + 1] = r
  BY <1>2, <1>4, <1>5, AppendRows
<1>7. IsFiniteSet(Readied) /\ Cardinality(Readied) \in Nat
  BY <1>2, PositionsFinite DEF Readied
<1>8. flow.number = 1 + Len(answers) + Cardinality(Readied) /\ Len(answers) \in Nat
  BY <1>2 DEF CountersMatchRows, Readied
<1>9. CASE flow.step = "disclaimer"
  <2>1. Readied' = Readied
    BY <1>5, <1>6, <1>9 DEF Readied
  <2> QED
    BY <1>4, <1>8, <1>9, <2>1 DEF CountersMatchRows, Readied
<1>10. CASE flow.step = "readiness"
  <2>1. Readied' = Readied \cup {Len(events) + 1} /\ Len(events) + 1 \notin Readied
    BY <1>5, <1>6, <1>10 DEF Readied
  <2>2. Cardinality(Readied') = Cardinality(Readied) + 1
    BY <1>7, <2>1, FS_AddElement
  <2>3. flow'.number = 1 + Len(answers') + Cardinality(Readied')
    BY <1>4, <1>7, <1>8, <1>10, <2>2
  <2> QED
    BY <1>4, <2>3 DEF CountersMatchRows, Readied
<1> QED
  BY <1>3, <1>9, <1>10

\* The question number shown to the user and the counts that cap an area agree
\* with the stored rows, although both are written from a worker's snapshot.
THEOREM CountersAgree == Spec => []CountersMatchRows
<1>1. Init => CountersMatchRows
  <2> SUFFICES ASSUME Init PROVE CountersMatchRows
    OBVIOUS
  <2>1. /\ \A a \in Areas : AnswersOf(a) = {} /\ areaCount[a] = 0
        /\ Readied = {} /\ Len(answers) = 0 /\ flow.number = 1
    BY DEF Init, AnswersOf, Readied
  <2>2. Cardinality({}) = 0
    BY FS_EmptySet
  <2>3. \A a \in Areas : areaCount[a] = Cardinality(AnswersOf(a))
    BY <2>1, <2>2
  <2>4. flow.number = 1 + Len(answers) + Cardinality(Readied)
    BY <2>1, <2>2
  <2> QED
    BY <2>3, <2>4 DEF CountersMatchRows, AnswersOf, Readied
<1>2. IInv /\ CountersMatchRows /\ [Next]_vars => CountersMatchRows'
  <2> SUFFICES ASSUME IInv, CountersMatchRows, [Next]_vars PROVE CountersMatchRows'
    OBVIOUS
  <2>1. CASE CountersKept
    BY <2>1 DEF CountersKept, CountersMatchRows
  <2> QED
    BY <2>1, CountersMove, CriterionCounts, AdvanceCounts
<1> QED
  BY <1>1, <1>2, Inductive, PTL DEF Spec

-----------------------------------------------------------------------------
(* What a succeeded job reports.                                           *)

\* The row of job j reports o; worker w is about to store outcome o.
Reports(j, o) == jobs[j].status = "succeeded" /\ jobs[j].payload = o
Ends(w, o)    == pc[w] = "mark" /\ outcome[w] = o

\* Job j has stored its turn, and will say so or has said so.
Earned(j) == Reports(j, "next") \/ \E w \in Workers : Ends(w, "next") /\ wjob[w] = j

\* Nobody starts or answers before the session is interviewing.
Untouched ==
    /\ flow.turn = NoTurn /\ flow.step = "disclaimer"
    /\ \A s \in Starters : spc[s] \in {"new", "ended"}
    /\ \A w \in Workers :
          /\ pc[w] \in {"idle", "session", "flow", "areas", "current", "mark"}
          /\ pc[w] \in {"areas", "current"} =>
                snap[w].flow.turn = NoTurn /\ snap[w].flow.step = "disclaimer"
          /\ ~Ends(w, "done")

OutcomeInv ==
    /\ status = "created" => Untouched
    /\ \A w \in Workers : Ends(w, "done") => status = "completed"
    /\ \A j \in Jobs : Reports(j, "done") => status = "completed"
    /\ \A j \in Jobs : Earned(j) => jobs[j].turn \in AppliedTurns /\ jobs[j].status # "none"
    /\ \A j, k \in Jobs : Earned(j) /\ Earned(k) /\ j # k => jobs[j].turn # jobs[k].turn

\* A row comes to report o only from a worker that ends with o.
LEMMA ReportsMove ==
    ASSUME TypeOK, [Next]_vars, NEW j \in Jobs, NEW o \in {"next", "done"}, Reports(j, o)'
    PROVE  Reports(j, o) \/ \E w \in Workers : Ends(w, o) /\ wjob[w] = j
<1> DEFINE Goal == Reports(j, o) \/ \E w \in Workers : Ends(w, o) /\ wjob[w] = j
<1> USE DEF TypeOK, JobType, Job, Reports
<1>1. ASSUME NEW k \in Jobs, NEW t \in 0 .. nextTurn - 1, SubmitAnswerAsync(k, t) PROVE Goal
  BY <1>1 DEF SubmitAnswerAsync
<1>2. ASSUME NEW w \in Workers, NEW k \in Jobs, Begin(w, k) PROVE Goal
  BY <1>2 DEF Begin
<1>3. ASSUME NEW w \in Workers, ClaimHinted(w) PROVE Goal
  BY <1>2, <1>3 DEF ClaimHinted
<1>4. ASSUME NEW w \in Workers, ClaimNextQueued(w) PROVE Goal
  BY <1>2, <1>4 DEF ClaimNextQueued
<1>5. ASSUME NEW w \in Workers, RetryAI(w) PROVE Goal
  BY <1>5 DEF RetryAI
<1>6. ASSUME NEW w \in Workers, MarkAnswerJob(w) PROVE Goal
  <2>1. pc[w] = "mark" /\ pc[w] # "idle"
    BY <1>6 DEF MarkAnswerJob
  <2>2. wjob[w] \in Jobs
    BY <2>1, HasJob
  <2>3. CASE wjob[w] = j
    <3>1. outcome[w] = o
      <4>1. outcome[w] \in {"next", "done"}
        BY <1>6, <2>3 DEF MarkAnswerJob, WorkerType, Outcomes
      <4> QED
        BY <1>6, <2>3, <4>1 DEF MarkAnswerJob
    <3> QED
      BY <2>1, <2>3, <3>1 DEF Ends
  <2>4. CASE wjob[w] # j
    BY <1>6, <2>2, <2>4 DEF MarkAnswerJob
  <2> QED
    BY <2>3, <2>4
<1>7. CASE RequeueStale
  BY <1>7 DEF RequeueStale
<1>8. CASE UNCHANGED jobs
  BY <1>8
<1> QED
  BY <1>1, <1>3, <1>4, <1>5, <1>6, <1>7, <1>8
  DEF Next, vars, jobVars, StartInterview, WorkerStep, WorkerFault,
      StartSession, StartRejected, GetAnswerCount, GetFlowState, CreateQuestionArea,
      SetAreaInProgress, GetInProgressArea, PrepareStep, StartFails,
      ResubmitAnswerAsync, ReadSession, ReadFlow, ReadAreas, ReadCurrent, EvaluateAnswer,
      OpeningQuestion, AdvanceNonCriterionStep, ProcessCriterionTurn, TurnMoved,
      MarkAreaNotAssessed, MarkFlowDone, CompleteSession, ReadFails, TxRolledBack,
      CompleteSessionFails, MarkFails, Abandon, Restart, Tick

\* A worker comes to end with "next" only by storing its turn, with "done" only
\* by completing the session.
LEMMA EndsMove ==
    ASSUME TypeOK, [Next]_vars, NEW v \in Workers, NEW o \in {"next", "done"}, Ends(v, o)'
    PROVE  \/ Ends(v, o) /\ wjob'[v] = wjob[v]
           \/ /\ o = "next" /\ wjob'[v] = wjob[v]
              /\ ProcessCriterionTurn(v) \/ AdvanceNonCriterionStep(v)
           \/ o = "done" /\ CompleteSession(v)
<1> DEFINE Goal == \/ Ends(v, o) /\ wjob'[v] = wjob[v]
                   \/ /\ o = "next" /\ wjob'[v] = wjob[v]
                      /\ ProcessCriterionTurn(v) \/ AdvanceNonCriterionStep(v)
                   \/ o = "done" /\ CompleteSession(v)
<1> USE DEF TypeOK, WorkerType, Ends
<1>1. ASSUME NEW w \in Workers, NEW j, Begin(w, j) PROVE Ends(v, o) /\ wjob'[v] = wjob[v]
  BY <1>1 DEF Begin
<1>2. ASSUME NEW w \in Workers, ClaimHinted(w) PROVE Goal
  BY <1>1, <1>2 DEF ClaimHinted, workerVars
<1>3. ASSUME NEW w \in Workers, ClaimNextQueued(w) PROVE Goal
  BY <1>1, <1>3 DEF ClaimNextQueued
<1>4. ASSUME NEW w \in Workers, Release(w) PROVE Ends(v, o) /\ wjob'[v] = wjob[v]
  BY <1>4 DEF Release
<1>5. ASSUME NEW w \in Workers,
             MarkAnswerJob(w) \/ CompleteSessionFails(w) \/ MarkFails(w) \/ Abandon(w)
      PROVE  Goal
  BY <1>4, <1>5 DEF MarkAnswerJob, CompleteSessionFails, MarkFails, Abandon
<1>6. ASSUME NEW w \in Workers, NEW x \in {"conflict", "failed"}, Finish(w, x), UNCHANGED wjob
      PROVE  Ends(v, o) /\ wjob'[v] = wjob[v]
  BY <1>6 DEF Finish
<1>7. ASSUME NEW w \in Workers, TurnMoved(w) \/ ReadFails(w) \/ TxRolledBack(w) PROVE Goal
  BY <1>6, <1>7 DEF TurnMoved, ReadFails, TxRolledBack
<1>8. ASSUME NEW w \in Workers, CompleteSession(w) PROVE Goal
  BY <1>8 DEF CompleteSession, Finish
<1>9. ASSUME NEW w \in Workers, NEW n \in {"mark", "complete"}, Committed(w, n), UNCHANGED wjob
      PROVE  (Ends(v, o) /\ wjob'[v] = wjob[v]) \/ (w = v /\ o = "next" /\ wjob'[v] = wjob[v])
  BY <1>9 DEF Committed, Finish
<1>10. ASSUME NEW w \in Workers, AdvanceNonCriterionStep(w) PROVE Goal
  <2>1. Committed(w, "mark") /\ UNCHANGED wjob
    BY <1>10 DEF AdvanceNonCriterionStep
  <2> QED
    BY <1>9, <1>10, <2>1
<1>11. ASSUME NEW w \in Workers, ProcessCriterionTurn(w) PROVE Goal
  <2>1. \E n \in {"mark", "complete"} : Committed(w, n) /\ UNCHANGED wjob
    BY <1>11 DEF ProcessCriterionTurn
  <2> QED
    BY <1>9, <1>11, <2>1
<1>12. ASSUME NEW w \in Workers, MarkAreaNotAssessed(w) \/ MarkFlowDone(w) PROVE Goal
  BY <1>12 DEF MarkAreaNotAssessed, MarkFlowDone
<1>13. ASSUME NEW w \in Workers, ReadSession(w) \/ ReadFlow(w) \/ ReadAreas(w) PROVE Goal
  BY <1>13 DEF ReadSession, ReadFlow, ReadAreas, Finish
<1>14. ASSUME NEW w \in Workers, ReadCurrent(w) PROVE Goal
  <2>1. PICK a : ReadCurrentOf(w, a)
    BY <1>14, ReadCurrentCases
  <2> QED
    BY <2>1 DEF ReadCurrentOf
<1>15. ASSUME NEW w \in Workers, EvaluateAnswer(w) \/ OpeningQuestion(w) PROVE Goal
  BY <1>15 DEF EvaluateAnswer, OpeningQuestion
<1>16. ASSUME NEW w \in Workers, RetryAI(w) PROVE Goal
  BY <1>16 DEF RetryAI
<1>17. CASE Restart
  BY <1>17 DEF Restart
<1>18. CASE UNCHANGED workerVars
  BY <1>18 DEF workerVars
<1>19. ASSUME NEW w \in Workers, WorkerStep(w) PROVE Goal
  BY <1>2, <1>3, <1>5, <1>7, <1>8, <1>10, <1>11, <1>12, <1>13, <1>14, <1>15, <1>16, <1>19 DEF WorkerStep
<1>20. ASSUME NEW w \in Workers, WorkerFault(w) PROVE Goal
  BY <1>5, <1>7, <1>20 DEF WorkerFault
<1>21. ASSUME NEW s \in Starters, StartInterview(s) PROVE UNCHANGED workerVars
  BY <1>21
  DEF StartInterview, StartSession, StartRejected, GetAnswerCount, GetFlowState,
      CreateQuestionArea, SetAreaInProgress, GetInProgressArea, PrepareStep, StartFails
<1> QED
  BY <1>17, <1>18, <1>19, <1>20, <1>21
  DEF Next, vars, SubmitAnswerAsync, ResubmitAnswerAsync, RequeueStale, Tick

\* The status of the session goes from created to interviewing to completed.
LEMMA StatusMoves ==
    ASSUME [Next]_vars
    PROVE  \/ status' = status
           \/ \E s \in Starters : StartSession(s)
           \/ status' = "completed" /\ status = "interviewing"
<1>1. ASSUME NEW w \in Workers, CompleteSession(w)
      PROVE  status' = status \/ (status' = "completed" /\ status = "interviewing")
  BY <1>1 DEF CompleteSession
<1> QED
  BY <1>1
  DEF Next, vars, sessionVars, StartInterview, WorkerStep, WorkerFault,
      StartRejected, GetAnswerCount, GetFlowState, CreateQuestionArea,
      SetAreaInProgress, GetInProgressArea, PrepareStep, StartFails, SubmitAnswerAsync,
      ResubmitAnswerAsync, ClaimHinted, ClaimNextQueued, ReadSession, ReadFlow, ReadAreas,
      ReadCurrent, RetryAI, EvaluateAnswer, OpeningQuestion, AdvanceNonCriterionStep,
      ProcessCriterionTurn, TurnMoved, MarkAreaNotAssessed,
      MarkFlowDone, MarkAnswerJob, ReadFails, TxRolledBack, CompleteSessionFails,
      MarkFails, Abandon, RequeueStale, Restart, Tick

\* A completed session stays completed, and a session that was touched is not
\* created any more.
LEMMA StatusStays ==
    ASSUME [Next]_vars
    PROVE  /\ status = "completed" => status' = "completed"
           /\ status' = "created" => status = "created"
BY StatusMoves DEF StartSession

\* What a worker of an untouched session does.
LEMMA UntouchedWorkers ==
    ASSUME TypeOK, Untouched, [Next]_vars, NEW v \in Workers
    PROVE  /\ pc'[v] \in {"idle", "session", "flow", "areas", "current", "mark"}
           /\ pc'[v] \in {"areas", "current"} =>
                 snap'[v].flow.turn = NoTurn /\ snap'[v].flow.step = "disclaimer"
           /\ ~Ends(v, "done")'
<1> DEFINE Goal == /\ pc'[v] \in {"idle", "session", "flow", "areas", "current", "mark"}
                   /\ pc'[v] \in {"areas", "current"} =>
                         snap'[v].flow.turn = NoTurn /\ snap'[v].flow.step = "disclaimer"
                   /\ ~Ends(v, "done")'
<1> USE DEF TypeOK, WorkerType, Untouched, Ends
<1>1. ASSUME NEW w \in Workers, NEW j, Begin(w, j) PROVE Goal
  BY <1>1 DEF Begin
<1>2. ASSUME NEW w \in Workers, ClaimHinted(w) PROVE Goal
  BY <1>1, <1>2 DEF ClaimHinted, workerVars
<1>3. ASSUME NEW w \in Workers, ClaimNextQueued(w) PROVE Goal
  BY <1>1, <1>3 DEF ClaimNextQueued
<1>4. ASSUME NEW w \in Workers, Release(w) PROVE Goal
  BY <1>4 DEF Release
<1>5. ASSUME NEW w \in Workers,
             MarkAnswerJob(w) \/ CompleteSessionFails(w) \/ MarkFails(w) \/ Abandon(w)
      PROVE  Goal
  BY <1>4, <1>5 DEF MarkAnswerJob, CompleteSessionFails, MarkFails, Abandon
<1>6. ASSUME NEW w \in Workers, NEW x \in {"conflict", "failed"}, Finish(w, x), UNCHANGED snap
      PROVE  Goal
  BY <1>6 DEF Finish
<1>7. ASSUME NEW w \in Workers, TurnMoved(w) \/ ReadFails(w) \/ TxRolledBack(w) PROVE Goal
  BY <1>6, <1>7 DEF TurnMoved, ReadFails, TxRolledBack
<1>8. ASSUME NEW w \in Workers,
             \/ CompleteSession(w) \/ AdvanceNonCriterionStep(w) \/ ProcessCriterionTurn(w)
             \/ MarkAreaNotAssessed(w) \/ MarkFlowDone(w) \/ EvaluateAnswer(w)
             \/ OpeningQuestion(w) \/ RetryAI(w)
      PROVE  FALSE
  BY <1>8 DEF CompleteSession, AdvanceNonCriterionStep, ProcessCriterionTurn,
              MarkAreaNotAssessed, MarkFlowDone, EvaluateAnswer, OpeningQuestion, RetryAI
<1>9. ASSUME NEW w \in Workers, ReadSession(w) PROVE Goal
  <2>1. CASE SessionOpen
    BY <1>9, <2>1 DEF ReadSession
  <2>2. CASE ~SessionOpen
    BY <1>6, <1>9, <2>2 DEF ReadSession
  <2> QED
    BY <2>1, <2>2
<1>10. ASSUME NEW w \in Workers, ReadFlow(w) PROVE Goal
  BY <1>10 DEF ReadFlow, Snap
<1>11. ASSUME NEW w \in Workers, ReadAreas(w) PROVE Goal
  BY <1>11 DEF ReadAreas, Snap
<1>12. ASSUME NEW w \in Workers, ReadCurrent(w) PROVE Goal
  <2>1. PICK a : ReadCurrentOf(w, a)
    BY <1>12, ReadCurrentCases
  <2>2. pc[w] = "current" /\ snap[w].flow.turn = NoTurn /\ snap[w].flow.step = "disclaimer"
    BY <2>1 DEF ReadCurrentOf
  <2>3. Route(SnapOf(w, a), jobs[wjob[w]]) = "mark"
    BY <2>2 DEF Route, SnapOf, TurnConflict
  <2>4. /\ pc' = [pc EXCEPT ![w] = "mark"] /\ outcome' = [outcome EXCEPT ![w] = "conflict"]
        /\ \A u \in Workers \ {w} : snap'[u] = snap[u]
    BY <2>1, <2>3 DEF ReadCurrentOf
  <2> QED
    BY <2>4
<1>13. CASE Restart
  BY <1>13 DEF Restart
<1>14. CASE UNCHANGED workerVars
  BY <1>14 DEF workerVars
<1>15. ASSUME NEW w \in Workers, WorkerStep(w) PROVE Goal
  BY <1>2, <1>3, <1>5, <1>7, <1>8, <1>9, <1>10, <1>11, <1>12, <1>15 DEF WorkerStep
<1>16. ASSUME NEW w \in Workers, WorkerFault(w) PROVE Goal
  BY <1>5, <1>7, <1>16 DEF WorkerFault
<1>17. ASSUME NEW s \in Starters, StartInterview(s) PROVE UNCHANGED workerVars
  BY <1>17
  DEF StartInterview, StartSession, StartRejected, GetAnswerCount, GetFlowState,
      CreateQuestionArea, SetAreaInProgress, GetInProgressArea, PrepareStep, StartFails
<1> QED
  BY <1>13, <1>14, <1>15, <1>16, <1>17
  DEF Next, vars, SubmitAnswerAsync, ResubmitAnswerAsync, RequeueStale, Tick

\* Nothing but the first start touches a created session.
LEMMA UntouchedStep ==
    ASSUME TypeOK, Untouched, [Next]_vars, ~\E s \in Starters : StartSession(s)
    PROVE  Untouched'
<1>1. ASSUME NEW s \in Starters, StartInterview(s)
      PROVE  UNCHANGED flow /\ \A u \in Starters : spc'[u] \in {"new", "ended"}
  BY <1>1 DEF Untouched, TypeOK, StartType, StartInterview, StartRejected, GetAnswerCount,
              GetFlowState, CreateQuestionArea, SetAreaInProgress, GetInProgressArea,
              PrepareStep, StartFails, sessionVars
<1>2. ASSUME NEW w \in Workers,
             \/ CompleteSession(w) \/ AdvanceNonCriterionStep(w) \/ ProcessCriterionTurn(w)
             \/ MarkAreaNotAssessed(w) \/ MarkFlowDone(w)
      PROVE  FALSE
  BY <1>2 DEF CompleteSession, AdvanceNonCriterionStep, ProcessCriterionTurn,
              MarkAreaNotAssessed, MarkFlowDone, Untouched
<1>3. UNCHANGED flow /\ \A u \in Starters : spc'[u] \in {"new", "ended"}
  <2>1. CASE UNCHANGED <<sessionVars, startVars>>
    BY <2>1 DEF sessionVars, startVars, Untouched
  <2>2. CASE Restart
    BY <2>2 DEF Restart, Untouched, sessionVars
  <2> QED
    BY <1>1, <1>2, <2>1, <2>2
    DEF Next, vars, WorkerStep, WorkerFault, SubmitAnswerAsync, ResubmitAnswerAsync,
        ClaimHinted, ClaimNextQueued, ReadSession, ReadFlow, ReadAreas, ReadCurrent, RetryAI,
        EvaluateAnswer, OpeningQuestion, TurnMoved, MarkAnswerJob, ReadFails, TxRolledBack,
        CompleteSessionFails, MarkFails, Abandon, RequeueStale, Tick
<1>4. ASSUME NEW v \in Workers
      PROVE  /\ pc'[v] \in {"idle", "session", "flow", "areas", "current", "mark"}
             /\ pc'[v] \in {"areas", "current"} =>
                   snap'[v].flow.turn = NoTurn /\ snap'[v].flow.step = "disclaimer"
             /\ ~Ends(v, "done")'
  BY UntouchedWorkers
<1>5. flow'.turn = NoTurn /\ flow'.step = "disclaimer"
  BY <1>3 DEF Untouched
<1> QED
  BY <1>3, <1>4, <1>5 DEF Untouched

\* The transaction of a turn adds the expected turn, the turn of the worker's
\* job, to the applied ones, where it was not.
LEMMA TurnEarned ==
    ASSUME IInv, NEW w \in Workers, ProcessCriterionTurn(w) \/ AdvanceNonCriterionStep(w)
    PROVE  /\ wjob[w] \in Jobs /\ pc[w] # "idle"
           /\ jobs[wjob[w]].turn \notin AppliedTurns
           /\ AppliedTurns' = AppliedTurns \cup {jobs[wjob[w]].turn}
<1>1. TypeOK
  BY DEF IInv
<1>2. flow.turn \notin AppliedTurns
  BY DEF IInv, TurnInv, AppliedTurns
<1>3. CASE ProcessCriterionTurn(w)
  <2> DEFINE r == [turn |-> jobs[wjob[w]].turn, area |-> snap[w].cur]
  <2>1. wjob[w] \in Jobs /\ snap[w].cur \in Areas /\ flow.turn = jobs[wjob[w]].turn /\ pc[w] = "commit"
    BY <1>3, CommitFacts DEF ProcessCriterionTurn, LockFlow
  <2>2. flow.turn \in Nat
    BY <1>1 DEF TypeOK, SessionType, Flow
  <2>3. r \in [turn : Nat, area : Areas] /\ Answered(w, r)
    BY <1>3, <2>1, <2>2 DEF ProcessCriterionTurn, Answered
  <2> HIDE DEF r
  <2> QED
    BY <1>1, <1>2, <2>1, <2>3, RowStoredLedger
<1>4. CASE AdvanceNonCriterionStep(w)
  <2> DEFINE r == [turn |-> jobs[wjob[w]].turn, type |-> snap[w].flow.step]
  <2>1. wjob[w] \in Jobs /\ snap[w].flow = flow /\ flow.turn = jobs[wjob[w]].turn /\ pc[w] = "advance"
    BY <1>4, AdvanceFacts DEF AdvanceNonCriterionStep, LockFlow
  <2>2. flow.turn \in Nat /\ flow.step \in Steps
    BY <1>1 DEF TypeOK, SessionType, Flow
  <2>3. r \in [turn : Nat, type : Steps] /\ Recorded(w, r)
    BY <1>4, <2>1, <2>2 DEF AdvanceNonCriterionStep, Recorded
  <2> HIDE DEF r
  <2> QED
    BY <1>1, <1>2, <2>1, <2>3, RowStoredLedger
<1> QED
  BY <1>3, <1>4

\* A step is the transaction of one worker at most.
LEMMA OneTransaction ==
    ASSUME TypeOK, NEW w \in Workers, NEW v \in Workers,
           ProcessCriterionTurn(w) \/ AdvanceNonCriterionStep(w),
           ProcessCriterionTurn(v) \/ AdvanceNonCriterionStep(v)
    PROVE  v = w
<1>1. pc[w] \in {"commit", "advance"} /\ pc[v] \in {"commit", "advance"}
  BY DEF ProcessCriterionTurn, AdvanceNonCriterionStep
<1>2. PICK x \in {"mark", "complete"} : pc' = [pc EXCEPT ![w] = x]
  BY DEF ProcessCriterionTurn, AdvanceNonCriterionStep, Committed, Finish
<1>3. PICK y \in {"mark", "complete"} : pc' = [pc EXCEPT ![v] = y]
  BY DEF ProcessCriterionTurn, AdvanceNonCriterionStep, Committed, Finish
<1> QED
  BY <1>1, <1>2, <1>3 DEF TypeOK, WorkerType

\* A job earns its turn by its worker's transaction and in no other way.
LEMMA EarnedMoves ==
    ASSUME IInv, [Next]_vars, NEW j \in Jobs, Earned(j)'
    PROVE  \/ Earned(j)
           \/ \E w \in Workers : wjob[w] = j /\ (ProcessCriterionTurn(w) \/ AdvanceNonCriterionStep(w))
<1>1. TypeOK
  BY DEF IInv
<1>2. CASE Reports(j, "next")'
  BY <1>1, <1>2, ReportsMove DEF Earned
<1>3. ASSUME NEW v \in Workers, Ends(v, "next")', wjob'[v] = j
      PROVE  \/ Earned(j)
             \/ \E w \in Workers : wjob[w] = j /\ (ProcessCriterionTurn(w) \/ AdvanceNonCriterionStep(w))
  <2>1. \/ Ends(v, "next") /\ wjob'[v] = wjob[v]
        \/ wjob'[v] = wjob[v] /\ (ProcessCriterionTurn(v) \/ AdvanceNonCriterionStep(v))
    BY <1>1, <1>3, EndsMove
  <2> QED
    BY <1>3, <2>1 DEF Earned
<1> QED
  BY <1>2, <1>3 DEF Earned

\* Applied turns stay applied.
LEMMA AppliedStays ==
    ASSUME IInv, [Next]_vars
    PROVE  AppliedTurns \subseteq AppliedTurns'
BY RowsMove, RowsKeptLedger, RowStoredLedger DEF IInv

\* Every step keeps what is known of outcomes and counters.
LEMMA OutcomeStep ==
    ASSUME IInv, OutcomeInv, [Next]_vars
    PROVE  OutcomeInv'
<1>1. TypeOK
  BY DEF IInv
<1>2. ASSUME status' = "created" PROVE Untouched'
  <2>1. status = "created" /\ Untouched
    BY <1>2, StatusStays DEF OutcomeInv
  <2>2. ~\E s \in Starters : StartSession(s)
    BY <1>2 DEF StartSession
  <2> QED
    BY <1>1, <2>1, <2>2, UntouchedStep
<1>3. ASSUME NEW w \in Workers, Ends(w, "done")' PROVE status' = "completed"
  <2>1. CASE Ends(w, "done")
    BY <2>1, StatusStays DEF OutcomeInv
  <2>2. CASE CompleteSession(w)
    <3>1. pc[w] = "complete" /\ status' = IF status = "interviewing" THEN "completed" ELSE status
      BY <2>2 DEF CompleteSession
    <3>2. status # "created"
      BY <3>1 DEF OutcomeInv, Untouched
    <3> QED
      BY <1>1, <3>1, <3>2 DEF TypeOK, SessionType
  <2> QED
    BY <1>1, <1>3, <2>1, <2>2, EndsMove
<1>4. ASSUME NEW j \in Jobs, Reports(j, "done")' PROVE status' = "completed"
  <2>1. Reports(j, "done") \/ \E w \in Workers : Ends(w, "done") /\ wjob[w] = j
    BY <1>1, <1>4, ReportsMove
  <2> QED
    BY <2>1, StatusStays DEF OutcomeInv
<1>5. ASSUME NEW j \in Jobs, Earned(j)'
      PROVE  /\ jobs'[j].turn = jobs[j].turn /\ jobs'[j].status # "none"
             /\ jobs'[j].turn \in AppliedTurns'
             /\ \/ Earned(j)
                \/ \E w \in Workers : /\ wjob[w] = j
                                      /\ ProcessCriterionTurn(w) \/ AdvanceNonCriterionStep(w)
  <2>1. CASE Earned(j)
    <3>1. jobs[j].turn \in AppliedTurns /\ jobs[j].status # "none"
      BY <2>1 DEF OutcomeInv
    <3> QED
      BY <1>1, <2>1, <3>1, AppliedStays, JobStable DEF JobKept
  <2>2. ASSUME NEW w \in Workers, wjob[w] = j, ProcessCriterionTurn(w) \/ AdvanceNonCriterionStep(w)
        PROVE  /\ jobs'[j].turn = jobs[j].turn /\ jobs'[j].status # "none"
               /\ jobs'[j].turn \in AppliedTurns'
    BY <2>2, TurnEarned, HeldJobKept DEF JobKept
  <2> QED
    BY <1>5, <2>1, <2>2, EarnedMoves
<1>6. ASSUME NEW j \in Jobs, NEW k \in Jobs, Earned(j)', Earned(k)', j # k
      PROVE  jobs'[j].turn # jobs'[k].turn
  <2>1. jobs'[j].turn = jobs[j].turn /\ jobs'[k].turn = jobs[k].turn
    BY <1>5, <1>6
  <2>2. CASE Earned(j) /\ Earned(k)
    BY <1>6, <2>1, <2>2 DEF OutcomeInv
  <2>3. ASSUME NEW x \in Jobs, NEW y \in Jobs, Earned(x), NEW w \in Workers, wjob[w] = y,
               ProcessCriterionTurn(w) \/ AdvanceNonCriterionStep(w)
        PROVE  jobs[x].turn # jobs[y].turn
    BY <2>3, TurnEarned DEF OutcomeInv
  <2>4. ASSUME NEW w \in Workers, wjob[w] = j, ProcessCriterionTurn(w) \/ AdvanceNonCriterionStep(w),
               NEW v \in Workers, wjob[v] = k, ProcessCriterionTurn(v) \/ AdvanceNonCriterionStep(v)
        PROVE  FALSE
    BY <1>1, <1>6, <2>4, OneTransaction
  <2> QED
    BY <1>5, <1>6, <2>1, <2>2, <2>3, <2>4
<1> QED
  BY <1>2, <1>3, <1>4, <1>5, <1>6 DEF OutcomeInv

\* A new session has no outcome and no counter.
LEMMA OutcomeInit == Init => OutcomeInv
<1> SUFFICES ASSUME Init PROVE OutcomeInv
  OBVIOUS
<1>1. \A w \in Workers : pc[w] = "idle" /\ ~Ends(w, "next") /\ ~Ends(w, "done")
  BY DEF Init, Ends
<1>2. \A j \in Jobs : ~Reports(j, "next") /\ ~Reports(j, "done")
  BY DEF Init, Reports
<1>3. Untouched
  BY <1>1 DEF Init, Untouched
<1> QED
  BY <1>1, <1>2, <1>3 DEF OutcomeInv, Earned

\* The invariant behind what jobs report holds in every reachable state.
THEOREM OutcomeInductive == Spec => []OutcomeInv
<1>1. Init => OutcomeInv
  BY OutcomeInit
<1>2. IInv /\ OutcomeInv /\ [Next]_vars => OutcomeInv'
  BY OutcomeStep
<1> QED
  BY <1>1, <1>2, Inductive, PTL DEF Spec

\* A job that reports a next question has stored its turn, and it alone reports
\* that turn; a job that reports the end has a completed session behind it:
\* through stale workers on the same job, lost replies and jobs run twice.
THEOREM SuccessIsTrue == Spec => []SucceededIsTrue
<1>1. OutcomeInv => SucceededIsTrue
  <2> SUFFICES ASSUME OutcomeInv, NEW j \in Jobs, jobs[j].status = "succeeded"
               PROVE  /\ jobs[j].payload = "done" => status = "completed"
                      /\ jobs[j].payload = "next" =>
                            /\ \/ \E i \in DOMAIN answers : answers[i].turn = jobs[j].turn
                               \/ \E i \in DOMAIN events : events[i].turn = jobs[j].turn
                            /\ \A k \in Jobs \ {j} : jobs[k].status = "succeeded" /\ jobs[k].payload = "next"
                                                     => jobs[k].turn # jobs[j].turn
    BY DEF SucceededIsTrue
  <2>1. jobs[j].payload = "done" => status = "completed"
    BY DEF OutcomeInv, Reports
  <2>2. ASSUME jobs[j].payload = "next"
        PROVE  /\ \/ \E i \in DOMAIN answers : answers[i].turn = jobs[j].turn
                  \/ \E i \in DOMAIN events : events[i].turn = jobs[j].turn
               /\ \A k \in Jobs \ {j} : jobs[k].status = "succeeded" /\ jobs[k].payload = "next"
                                        => jobs[k].turn # jobs[j].turn
    <3>1. Earned(j)
      BY <2>2 DEF Earned, Reports
    <3>2. jobs[j].turn \in AppliedTurns
      BY <3>1 DEF OutcomeInv
    <3>3. ASSUME NEW k \in Jobs \ {j}, jobs[k].status = "succeeded", jobs[k].payload = "next"
          PROVE  jobs[k].turn # jobs[j].turn
      <4>1. Earned(k)
        BY <3>3 DEF Earned, Reports
      <4> QED
        BY <3>1, <4>1 DEF OutcomeInv
    <3> QED
      BY <3>2, <3>3 DEF AppliedTurns
  <2> QED
    BY <2>1, <2>2
<1> QED
  BY <1>1, OutcomeInductive, PTL

=============================================================================
