------------------------------ MODULE Interview ------------------------------
(***************************************************************************)
(* One interview session of the backend: the session row with its flow     *)
(* pointer, the question_areas, answers and interview_events rows, the     *)
(* durable answer jobs with their in-memory queue of hints, the worker     *)
(* goroutines that run a job, the recovery loop, and the HTTP requests     *)
(* that start (or resume) the interview and submit answers.                *)
(*                                                                         *)
(* Every database statement or transaction is one step.  What a goroutine  *)
(* read in an earlier statement is kept in its snapshot (snap), so that    *)
(* anything may happen between a read and the write that relies on it.     *)
(* Turn ids are drawn from a counter: they are random in the code, never   *)
(* reused and unknown to clients before they are stored.                   *)
(***************************************************************************)
EXTENDS TurnPolicy, Sequences, FiniteSets

CONSTANTS
    Workers,        \* async answer worker goroutines
    Jobs,           \* client_request_ids, hence answer jobs of this session
    Starters,       \* POST /interview/start requests
    NoJob,          \* what an idle worker holds
    QueueSize,      \* capacity of asyncAnswerQueue
    MaxAttempts,    \* maxAsyncAnswerJobAttempts, 5 in the code
    AIRetries,      \* len(aiRetryBackoffs), 2 in the code
    ExpiresAt,      \* expires_at of the session, in half seconds
    MaxNow,         \* bound: the clock stops here
    FaultKinds,     \* which failures the environment may inject
    MaxFaults       \* bound: how many of them in one behaviour

AllFaults == {"read", "tx", "complete", "mark", "crash", "stale"}

ASSUME InterviewAssumption ==
    /\ NoJob \notin Jobs
    /\ QueueSize \in Nat
    /\ MaxAttempts \in Nat
    /\ AIRetries \in Nat
    /\ ExpiresAt \in Nat
    /\ MaxNow \in Nat
    /\ MaxFaults \in Nat
    /\ FaultKinds \subseteq AllFaults

VARIABLES
    status,      \* sessions.status
    flow,        \* the flow pointer and active question of the sessions row
    lapsed,      \* sessions.interview_lapsed_seconds
    areaStatus,  \* question_areas.status
    areaCount,   \* question_areas.questions_count
    answers,     \* rows of answers, each with the turn id it was submitted for
    events,      \* rows of interview_events, with their turn ids
    nextTurn,    \* the next turn id to be generated
    now,         \* the clock, in half seconds
    jobs,        \* rows of interview_answer_jobs
    hints,       \* the channel asyncAnswerQueue
    pc, wjob, snap, plan, todo, outcome, tries,   \* workers
    spc, sarea, sresume, snext,                   \* start requests
    faults       \* failures injected so far

sessionVars == <<status, flow, lapsed, areaStatus, areaCount, answers, events, nextTurn>>
jobVars     == <<jobs, hints>>
workerVars  == <<pc, wjob, snap, plan, todo, outcome, tries>>
startVars   == <<spc, sarea, sresume, snext>>
vars == <<sessionVars, now, jobVars, workerVars, startVars, faults>>

NoTurn == 0     \* expected_turn_id IS NULL, hence no active question

Steps == {"disclaimer", "readiness", "criterion", "done"}
Flow  == [step : Steps, turn : Nat, number : Nat, area : Areas \cup {NoArea}, issuedAt : Nat]

JobStatuses == {"none", "queued", "running", "succeeded", "failed", "conflict", "canceled"}
Terminal    == {"succeeded", "failed", "conflict", "canceled"}
Payloads    == {"none", "next", "done"}
Job == [status : JobStatuses, turn : Nat, createdAt : Nat, attempts : Nat, payload : Payloads]

PCs == {"idle", "session", "flow", "areas", "current", "evaluate", "opening", "advance",
        "commit", "timeout", "flowdone", "complete", "mark"}
Outcomes == {"none", "next", "done", "conflict", "failed", "canceled"}

Snap == [lapsed : Nat, flow : Flow, areas : [Areas -> AreaStatuses],
         cur : Areas \cup {NoArea}, count : Nat]
Plan == [action : {"stay", "next"}, mark : {"", "complete", "insufficient"},
         flags : SUBSET Areas, nextArea : Areas \cup {NoArea}, sub : BOOLEAN, issuedAt : Nat]

DoneFlow(n) == [step |-> "done", turn |-> NoTurn, number |-> n, area |-> NoArea, issuedAt |-> 0]

NoSnap == [lapsed |-> 0, flow |-> DoneFlow(0), areas |-> [a \in Areas |-> "absent"],
           cur |-> NoArea, count |-> 0]
NoPlan == [action |-> "stay", mark |-> "", flags |-> {}, nextArea |-> NoArea,
           sub |-> FALSE, issuedAt |-> 0]

SPCs == {"new", "count", "flow", "create", "first", "current", "prepare", "ended"}

-----------------------------------------------------------------------------
Init ==
    /\ status = "created"
    /\ flow = [step |-> "disclaimer", turn |-> NoTurn, number |-> 1, area |-> NoArea, issuedAt |-> 0]
    /\ lapsed = 0
    /\ areaStatus = [a \in Areas |-> "absent"]
    /\ areaCount = [a \in Areas |-> 0]
    /\ answers = <<>>
    /\ events = <<>>
    /\ nextTurn = 1
    /\ now = 0
    /\ jobs = [j \in Jobs |-> [status |-> "none", turn |-> NoTurn, createdAt |-> 0,
                               attempts |-> 0, payload |-> "none"]]
    /\ hints = <<>>
    /\ pc = [w \in Workers |-> "idle"]
    /\ wjob = [w \in Workers |-> NoJob]
    /\ snap = [w \in Workers |-> NoSnap]
    /\ plan = [w \in Workers |-> NoPlan]
    /\ todo = [w \in Workers |-> {}]
    /\ outcome = [w \in Workers |-> "none"]
    /\ tries = [w \in Workers |-> 0]
    /\ spc = [s \in Starters |-> "new"]
    /\ sarea = [s \in Starters |-> NoArea]
    /\ sresume = [s \in Starters |-> FALSE]
    /\ snext = [s \in Starters |-> 1]
    /\ faults = 0

Fault(kind) ==
    /\ kind \in FaultKinds
    /\ faults < MaxFaults
    /\ faults' = faults + 1

\* GetInProgressArea: one in-progress row, or none.
InProgress  == {a \in Areas : areaStatus[a] = "in_progress"}
CurrentArea == IF InProgress = {} THEN {NoArea} ELSE InProgress

-----------------------------------------------------------------------------
(* StartInterview: a sequence of separate statements, none of them locked. *)

SessionOpen == now <= ExpiresAt

\* StartSession accepts a session that is already interviewing (a reconnect).
StartSession(s) ==
    /\ spc[s] = "new"
    /\ SessionOpen
    /\ status \in {"created", "interviewing"}
    /\ status' = "interviewing"
    /\ spc' = [spc EXCEPT ![s] = "count"]
    /\ UNCHANGED <<flow, lapsed, areaStatus, areaCount, answers, events, nextTurn, now,
                   jobVars, workerVars, sarea, sresume, snext, faults>>

\* ErrSessionExpired, or ErrConflict for a completed session.
StartRejected(s) ==
    /\ spc[s] = "new"
    /\ ~SessionOpen \/ status = "completed"
    /\ spc' = [spc EXCEPT ![s] = "ended"]
    /\ UNCHANGED <<sessionVars, now, jobVars, workerVars, sarea, sresume, snext, faults>>

GetAnswerCount(s) ==
    /\ spc[s] = "count"
    /\ sresume' = [sresume EXCEPT ![s] = Len(answers) > 0]
    /\ spc' = [spc EXCEPT ![s] = "flow"]
    /\ UNCHANGED <<sessionVars, now, jobVars, workerVars, sarea, snext, faults>>

\* An active question is returned as it is; otherwise a new one is issued.
GetFlowState(s) ==
    /\ spc[s] = "flow"
    /\ sresume' = [sresume EXCEPT ![s] = @ \/ flow.step # "disclaimer"]
    /\ spc' = [spc EXCEPT ![s] = IF flow.turn # NoTurn THEN "ended" ELSE "create"]
    /\ UNCHANGED <<sessionVars, now, jobVars, workerVars, sarea, snext, faults>>

\* INSERT ... ON CONFLICT DO NOTHING, one area after another.
CreateQuestionArea(s) ==
    /\ spc[s] = "create"
    /\ areaStatus' = [areaStatus EXCEPT ![snext[s]] = IF @ = "absent" THEN "pending" ELSE @]
    /\ snext' = [snext EXCEPT ![s] = @ + 1]
    /\ spc' = [spc EXCEPT ![s] = IF snext[s] = NAreas THEN "first" ELSE "create"]
    /\ UNCHANGED <<status, flow, lapsed, areaCount, answers, events, nextTurn, now,
                   jobVars, workerVars, sarea, sresume, faults>>

SetAreaInProgress(s) ==
    /\ spc[s] = "first"
    /\ areaStatus' = [areaStatus EXCEPT ![1] = IF @ \in Reachable THEN "in_progress" ELSE @]
    /\ spc' = [spc EXCEPT ![s] = "current"]
    /\ UNCHANGED <<status, flow, lapsed, areaCount, answers, events, nextTurn, now,
                   jobVars, workerVars, sarea, sresume, snext, faults>>

GetInProgressArea(s) ==
    /\ spc[s] = "current"
    /\ \E a \in CurrentArea :
          sarea' = [sarea EXCEPT ![s] = IF a = NoArea THEN 1 ELSE a]
    /\ spc' = [spc EXCEPT ![s] = "prepare"]
    /\ UNCHANGED <<sessionVars, now, jobVars, workerVars, sresume, snext, faults>>

\* PrepareReadinessStep / PrepareDisclaimerStep overwrite the flow pointer
\* whatever it holds by now; the question number is kept.
PrepareStep(s) ==
    /\ spc[s] = "prepare"
    /\ flow' = [step |-> IF sresume[s] THEN "readiness" ELSE "disclaimer",
                turn |-> nextTurn, number |-> flow.number, area |-> sarea[s], issuedAt |-> now]
    /\ nextTurn' = nextTurn + 1
    /\ spc' = [spc EXCEPT ![s] = "ended"]
    /\ UNCHANGED <<status, lapsed, areaStatus, areaCount, answers, events, now,
                   jobVars, workerVars, sarea, sresume, snext, faults>>

\* A statement fails or the client goes away: the handler returns.
StartFails(s) ==
    /\ spc[s] \notin {"new", "ended"}
    /\ Fault("read")
    /\ spc' = [spc EXCEPT ![s] = "ended"]
    /\ UNCHANGED <<sessionVars, now, jobVars, workerVars, sarea, sresume, snext>>

StartInterview(s) ==
    \/ StartSession(s)
    \/ StartRejected(s)
    \/ GetAnswerCount(s)
    \/ GetFlowState(s)
    \/ CreateQuestionArea(s)
    \/ SetAreaInProgress(s)
    \/ GetInProgressArea(s)
    \/ PrepareStep(s)
    \/ StartFails(s)

-----------------------------------------------------------------------------
(* Submitting an answer and the hint channel.                              *)

\* Non-blocking send: a full channel drops the hint, the row stays queued.
enqueueAsyncAnswerJob(j) == IF Len(hints) < QueueSize THEN Append(hints, j) ELSE hints

\* First submission of a client_request_id.  A client may answer any turn it
\* was ever given (an old tab, a retry); NoTurn stands for an unknown id.
SubmitAnswerAsync(j, t) ==
    /\ SessionOpen
    /\ jobs[j].status = "none"
    /\ jobs' = [jobs EXCEPT ![j] = [status |-> "queued", turn |-> t, createdAt |-> now,
                                    attempts |-> 0, payload |-> "none"]]
    /\ hints' = enqueueAsyncAnswerJob(j)
    /\ UNCHANGED <<sessionVars, now, workerVars, startVars, faults>>

\* The same request again: the row is kept, a queued job is hinted again.
ResubmitAnswerAsync(j) ==
    /\ SessionOpen
    /\ jobs[j].status = "queued"
    /\ hints' = enqueueAsyncAnswerJob(j)
    /\ hints' # hints
    /\ UNCHANGED <<sessionVars, now, jobs, workerVars, startVars, faults>>

-----------------------------------------------------------------------------
(* Claiming a job.                                                         *)

Begin(w, j) ==
    /\ wjob' = [wjob EXCEPT ![w] = j]
    /\ jobs' = [jobs EXCEPT ![j].status = "running", ![j].attempts = @ + 1]
    /\ IF jobs[j].attempts + 1 > MaxAttempts
       THEN /\ pc' = [pc EXCEPT ![w] = "mark"]
            /\ outcome' = [outcome EXCEPT ![w] = "failed"]
       ELSE /\ pc' = [pc EXCEPT ![w] = "session"]
            /\ UNCHANGED outcome
    /\ UNCHANGED <<snap, plan, todo, tries>>

\* A hint for a job that is no longer queued is dropped.
ClaimHinted(w) ==
    /\ pc[w] = "idle"
    /\ hints # <<>>
    /\ hints' = Tail(hints)
    /\ \/ /\ jobs[Head(hints)].status = "queued"
          /\ Begin(w, Head(hints))
       \/ /\ jobs[Head(hints)].status # "queued"
          /\ UNCHANGED <<jobs, workerVars>>
    /\ UNCHANGED <<sessionVars, now, startVars, faults>>

\* The idle tick: the oldest queued job, FOR UPDATE SKIP LOCKED.
ClaimNextQueued(w) ==
    /\ pc[w] = "idle"
    /\ \E j \in Jobs :
          /\ jobs[j].status = "queued"
          /\ \A k \in Jobs : jobs[k].status = "queued" => jobs[j].createdAt <= jobs[k].createdAt
          /\ Begin(w, j)
    /\ UNCHANGED <<sessionVars, now, hints, startVars, faults>>

-----------------------------------------------------------------------------
(* Leaving a job.                                                          *)

\* The worker forgets the job and goes back to its select loop.
Release(w) ==
    /\ pc' = [pc EXCEPT ![w] = "idle"]
    /\ wjob' = [wjob EXCEPT ![w] = NoJob]
    /\ snap' = [snap EXCEPT ![w] = NoSnap]
    /\ plan' = [plan EXCEPT ![w] = NoPlan]
    /\ todo' = [todo EXCEPT ![w] = {}]
    /\ outcome' = [outcome EXCEPT ![w] = "none"]
    /\ tries' = [tries EXCEPT ![w] = 0]

Finish(w, o) ==
    /\ pc' = [pc EXCEPT ![w] = "mark"]
    /\ outcome' = [outcome EXCEPT ![w] = o]

\* MarkAnswerJobSucceeded / MarkAnswerJobFailed: by id, whatever the status.
MarkAnswerJob(w) ==
    /\ pc[w] = "mark"
    /\ jobs' = [jobs EXCEPT
          ![wjob[w]].status  = IF outcome[w] \in {"next", "done"} THEN "succeeded" ELSE outcome[w],
          ![wjob[w]].payload = IF outcome[w] \in {"next", "done"} THEN outcome[w] ELSE @]
    /\ Release(w)
    /\ UNCHANGED <<sessionVars, now, hints, startVars, faults>>

\* The update fails: logged only, the row stays as it is.
MarkFails(w) ==
    /\ pc[w] = "mark"
    /\ Fault("mark")
    /\ Release(w)
    /\ UNCHANGED <<sessionVars, now, jobVars, startVars>>

\* The job context expires, or the instance dies, while a job is being run.
Abandon(w) ==
    /\ pc[w] # "idle"
    /\ Fault("crash")
    /\ Release(w)
    /\ UNCHANGED <<sessionVars, now, jobVars, startVars>>

-----------------------------------------------------------------------------
(* buildTurnSnapshot: four reads.                                          *)

ReadSession(w) ==
    /\ pc[w] = "session"
    /\ IF SessionOpen
       THEN /\ snap' = [snap EXCEPT ![w].lapsed = lapsed]
            /\ pc' = [pc EXCEPT ![w] = "flow"]
            /\ UNCHANGED outcome
       ELSE /\ Finish(w, "failed")
            /\ UNCHANGED snap
    /\ UNCHANGED <<sessionVars, now, jobVars, wjob, plan, todo, tries, startVars, faults>>

ReadFlow(w) ==
    /\ pc[w] = "flow"
    /\ snap' = [snap EXCEPT ![w].flow = flow]
    /\ pc' = [pc EXCEPT ![w] = "areas"]
    /\ UNCHANGED <<sessionVars, now, jobVars, wjob, plan, todo, outcome, tries, startVars, faults>>

ReadAreas(w) ==
    /\ pc[w] = "areas"
    /\ snap' = [snap EXCEPT ![w].areas = areaStatus]
    /\ pc' = [pc EXCEPT ![w] = "current"]
    /\ UNCHANGED <<sessionVars, now, jobVars, wjob, plan, todo, outcome, tries, startVars, faults>>

\* Mutant: the budget check lets a turn through with nothing left.
TimeUpLate(s, job) ==
    InterviewBudget - (s.lapsed + liveCriterionElapsedSeconds(s.flow, job.createdAt)) < 0

\* The job's creation time, not the time of the worker, is what counts.
TimeUp(s, job) ==
    calcEffectiveTimeRemaining(s.lapsed, liveCriterionElapsedSeconds(s.flow, job.createdAt)) <= 0

Unresolved(s) == {a \in Areas : isAreaUnresolved(s.areas[a])}

TurnConflict(s, job) == job.turn = NoTurn \/ job.turn # s.flow.turn

\* Mutant: running out of time completes the session and leaves the question open.
RouteNoFlowDone(s, job) ==
    CASE s.flow.step = "done"                              -> "complete"
      [] s.flow.step # "done" /\ TurnConflict(s, job)      -> "mark"
      [] s.flow.step # "done" /\ ~TurnConflict(s, job) /\ TimeUp(s, job) -> "complete"
      [] OTHER ->
            IF s.cur = NoArea THEN "complete"
            ELSE IF s.flow.step = "disclaimer" THEN "advance"
            ELSE IF s.flow.step = "readiness"  THEN "opening" ELSE "evaluate"

\* processTurnCore and the head of the three step handlers: what the worker
\* does next, once it has its snapshot s of the job's session.
Route(s, job) ==
    CASE s.flow.step = "done"                              -> "complete"
      [] s.flow.step # "done" /\ TurnConflict(s, job)      -> "mark"
      [] s.flow.step # "done" /\ ~TurnConflict(s, job) /\ TimeUp(s, job) ->
            IF Unresolved(s) = {} THEN "flowdone" ELSE "timeout"
      [] OTHER ->
            IF s.cur = NoArea
            THEN IF s.flow.step = "criterion" THEN "flowdone" ELSE "complete"
            ELSE IF s.flow.step = "disclaimer" THEN "advance"
            ELSE IF s.flow.step = "readiness"  THEN "opening" ELSE "evaluate"

ReadCurrent(w) ==
    /\ pc[w] = "current"
    /\ \E a \in CurrentArea :
          LET s == [lapsed |-> snap[w].lapsed, flow |-> snap[w].flow, areas |-> snap[w].areas,
                    cur |-> a, count |-> IF a = NoArea THEN 0 ELSE areaCount[a]]
              r == Route(s, jobs[wjob[w]])
          IN  /\ snap' = [snap EXCEPT ![w] = s]
              /\ pc' = [pc EXCEPT ![w] = r]
              /\ todo' = [todo EXCEPT ![w] = IF r = "timeout" THEN Unresolved(s) ELSE {}]
              /\ outcome' = [outcome EXCEPT ![w] = IF r = "mark" THEN "conflict" ELSE "none"]
              /\ plan' = [plan EXCEPT ![w].issuedAt = IF r = "advance" THEN now ELSE 0]
    /\ UNCHANGED <<sessionVars, now, jobVars, wjob, tries, startVars, faults>>

\* Any of these reads, or loading the answers for the prompt, fails.
ReadFails(w) ==
    /\ pc[w] \in {"session", "flow", "areas", "current", "evaluate", "opening"}
    /\ Fault("read")
    /\ Finish(w, "failed")
    /\ UNCHANGED <<sessionVars, now, jobVars, wjob, snap, plan, todo, tries, startVars>>

-----------------------------------------------------------------------------
(* The AI calls.                                                           *)

\* A failed attempt that will be retried counts against the job's attempts.
RetryAI(w) ==
    /\ pc[w] \in {"evaluate", "opening"}
    /\ tries[w] < AIRetries
    /\ tries' = [tries EXCEPT ![w] = @ + 1]
    /\ jobs' = [jobs EXCEPT ![wjob[w]].attempts = @ + 1]
    /\ UNCHANGED <<sessionVars, now, hints, pc, wjob, snap, plan, todo, outcome, startVars, faults>>

Evaluation == [criterion : CriterionStatuses, recommendation : Recommendations,
               flags : SUBSET Areas, sub : BOOLEAN]

\* Used when retries are exhausted or the model judged another criterion.
fallbackEvaluation == [criterion |-> "partially_sufficient", recommendation |-> "follow_up",
                       flags |-> {}, sub |-> TRUE]

\* planCriterionTransition.
PlanTransition(s, ev) ==
    LET decision  == DecideCriterionTurn(ev.criterion, ev.recommendation, s.count + 1)
        projected == projectAreas(s.areas, s.cur, decision, ev.flags)
    IN  [action |-> decision.action, mark |-> decision.mark, flags |-> ev.flags,
         nextArea |-> DetermineNextAreaAfterCriterionTurn(projected, s.cur, decision),
         sub |-> ev.sub, issuedAt |-> now]

\* A sound evaluation with an empty follow-up question is substituted too.
EvaluateAnswer(w) ==
    /\ pc[w] = "evaluate"
    /\ \E ev \in Evaluation :
          /\ ev.sub => \/ ev = fallbackEvaluation
                       \/ PlanTransition(snap[w], ev).action = "stay"
          /\ LET p == PlanTransition(snap[w], ev)
             IN  /\ plan' = [plan EXCEPT ![w] = p]
                 /\ pc' = [pc EXCEPT ![w] = IF p.action = "next" /\ p.nextArea # NoArea
                                            THEN "opening" ELSE "commit"]
    /\ tries' = [tries EXCEPT ![w] = 0]
    /\ UNCHANGED <<sessionVars, now, jobVars, wjob, snap, todo, outcome, startVars, faults>>

\* selectOpeningQuestion, for the first question or for the next area's.
OpeningQuestion(w) ==
    /\ pc[w] = "opening"
    /\ \E sub \in BOOLEAN :
          plan' = [plan EXCEPT ![w].sub = @ \/ sub, ![w].issuedAt = now]
    /\ pc' = [pc EXCEPT ![w] = IF snap[w].flow.step = "readiness" THEN "advance" ELSE "commit"]
    /\ tries' = [tries EXCEPT ![w] = 0]
    /\ UNCHANGED <<sessionVars, now, jobVars, wjob, snap, todo, outcome, startVars, faults>>

-----------------------------------------------------------------------------
(* The two transactions that apply a turn.  Both lock the session row and  *)
(* compare step and turn id with what the worker expects.                  *)

\* Mutant: the transaction trusts the step it locked and not the turn id.
LockStepOnly(w, step) == flow.step = step

LockFlow(w, step) == flow.step = step /\ flow.turn = jobs[wjob[w]].turn

\* How the worker ends after a committed turn: normally, or not knowing it
\* committed (the reply of COMMIT, or the refresh after it, is an error).
Committed(w, next) ==
    \/ /\ next = "mark"
       /\ Finish(w, IF plan[w].sub THEN "canceled" ELSE "next")
       /\ UNCHANGED faults
    \/ /\ next # "mark"
       /\ pc' = [pc EXCEPT ![w] = next]
       /\ UNCHANGED <<outcome, faults>>
    \/ /\ Fault("tx")
       /\ Finish(w, "failed")

AdvanceNonCriterionStep(w) ==
    /\ pc[w] = "advance"
    /\ LockFlow(w, snap[w].flow.step)
    /\ events' = Append(events, [turn |-> jobs[wjob[w]].turn, type |-> snap[w].flow.step])
    /\ flow' = [step   |-> IF snap[w].flow.step = "disclaimer" THEN "readiness" ELSE "criterion",
                turn   |-> nextTurn,
                number |-> IF snap[w].flow.step = "disclaimer" THEN snap[w].flow.number ELSE snap[w].flow.number + 1,
                area   |-> snap[w].cur, issuedAt |-> plan[w].issuedAt]
    /\ nextTurn' = nextTurn + 1
    /\ Committed(w, "mark")
    /\ UNCHANGED <<status, lapsed, areaStatus, areaCount, answers, now, jobVars,
                   wjob, snap, plan, todo, tries, startVars>>

\* Mutant: the next area is promoted but the current one is never closed.
ApplyPlanKeepCurrent(st, cur, p) ==
    [a \in Areas |-> IF p.action = "next" /\ a = p.nextArea /\ st[a] \in Reachable
                     THEN "in_progress" ELSE st[a]]

\* Terminal status of the current area, then the pre-addressed flags, then
\* the promotion of the next area; each UPDATE has its own status guard.
ApplyPlan(st, cur, p) ==
    LET marked  == [st EXCEPT ![cur] = IF p.mark = "" THEN @ ELSE p.mark]
        flagged == [a \in Areas |-> IF a \in p.flags /\ marked[a] = "pending"
                                    THEN "pre_addressed" ELSE marked[a]]
    IN  [a \in Areas |-> IF p.action = "next" /\ a = p.nextArea /\ flagged[a] \in Reachable
                         THEN "in_progress" ELSE flagged[a]]

\* Mutant: the snapshot's number is reused instead of advanced.
NextFlowSameNumber(w) ==
    IF plan[w].nextArea = NoArea
    THEN DoneFlow(flow.number)
    ELSE [step |-> "criterion", turn |-> nextTurn, number |-> snap[w].flow.number,
          area |-> plan[w].nextArea, issuedAt |-> plan[w].issuedAt]

NextFlow(w) ==
    IF plan[w].nextArea = NoArea
    THEN DoneFlow(flow.number + 1)
    ELSE [step |-> "criterion", turn |-> nextTurn, number |-> snap[w].flow.number + 1,
          area |-> plan[w].nextArea, issuedAt |-> plan[w].issuedAt]

ProcessCriterionTurn(w) ==
    /\ pc[w] = "commit"
    /\ LockFlow(w, "criterion")
    /\ answers' = Append(answers, [turn |-> jobs[wjob[w]].turn, area |-> snap[w].cur])
    /\ lapsed' = lapsed + lapsedIncrement(flow.issuedAt, jobs[wjob[w]].createdAt)
    /\ areaCount' = [areaCount EXCEPT ![snap[w].cur] = @ + 1]
    /\ areaStatus' = ApplyPlan(areaStatus, snap[w].cur, plan[w])
    /\ flow' = NextFlow(w)
    /\ nextTurn' = IF plan[w].nextArea = NoArea THEN nextTurn ELSE nextTurn + 1
    /\ Committed(w, IF plan[w].nextArea = NoArea THEN "complete" ELSE "mark")
    /\ UNCHANGED <<status, events, now, jobVars, wjob, snap, plan, todo, tries, startVars>>

\* Mutant: a turn another job has answered counts as answered by this one.
TurnMovedIsSuccess(w) ==
    /\ \/ pc[w] = "advance" /\ ~LockFlow(w, snap[w].flow.step)
       \/ pc[w] = "commit"  /\ ~LockFlow(w, "criterion")
    /\ Finish(w, "next")
    /\ UNCHANGED <<sessionVars, now, jobVars, wjob, snap, plan, todo, tries, startVars, faults>>

\* The locked row holds another step or turn: ErrTurnConflict, rolled back.
TurnMoved(w) ==
    /\ \/ pc[w] = "advance" /\ ~LockFlow(w, snap[w].flow.step)
       \/ pc[w] = "commit"  /\ ~LockFlow(w, "criterion")
    /\ Finish(w, "conflict")
    /\ UNCHANGED <<sessionVars, now, jobVars, wjob, snap, plan, todo, tries, startVars, faults>>

\* A statement of the transaction fails and it is rolled back.
TxRolledBack(w) ==
    /\ pc[w] \in {"advance", "commit"}
    /\ Fault("tx")
    /\ Finish(w, "failed")
    /\ UNCHANGED <<sessionVars, now, jobVars, wjob, snap, plan, todo, tries, startVars>>

-----------------------------------------------------------------------------
(* Ending the interview.                                                   *)

\* Mutant: the guard on the row's status is lost.
NotAssessedAlways(st) == "not_assessed"

\* MarkAreaNotAssessed updates pending and pre-addressed rows only.
NotAssessed(st) == IF st \in Reachable THEN "not_assessed" ELSE st

\* markRemainingNotAssessed: one UPDATE per unresolved area of the snapshot;
\* an error is logged and the loop goes on.
MarkAreaNotAssessed(w) ==
    /\ pc[w] = "timeout"
    /\ \E a \in todo[w] :
          /\ todo' = [todo EXCEPT ![w] = @ \ {a}]
          /\ pc' = [pc EXCEPT ![w] = IF todo[w] = {a} THEN "flowdone" ELSE "timeout"]
          /\ \/ /\ areaStatus' = [areaStatus EXCEPT ![a] = NotAssessed(@)]
                /\ UNCHANGED faults
             \/ /\ Fault("mark")
                /\ UNCHANGED areaStatus
    /\ UNCHANGED <<status, flow, lapsed, areaCount, answers, events, nextTurn, now, jobVars,
                   wjob, snap, plan, outcome, tries, startVars>>

\* MarkFlowDone neither locks nor compares the turn; an error is logged only.
MarkFlowDone(w) ==
    /\ pc[w] = "flowdone"
    /\ pc' = [pc EXCEPT ![w] = "complete"]
    /\ \/ /\ flow' = DoneFlow(flow.number)
          /\ UNCHANGED faults
       \/ /\ Fault("mark")
          /\ UNCHANGED flow
    /\ UNCHANGED <<status, lapsed, areaStatus, areaCount, answers, events, nextTurn, now, jobVars,
                   wjob, snap, plan, todo, outcome, tries, startVars>>

\* finishSession: CompleteSession touches an interviewing session only.
CompleteSession(w) ==
    /\ pc[w] = "complete"
    /\ status' = IF status = "interviewing" THEN "completed" ELSE status
    /\ Finish(w, "done")
    /\ UNCHANGED <<flow, lapsed, areaStatus, areaCount, answers, events, nextTurn, now, jobVars,
                   wjob, snap, plan, todo, tries, startVars, faults>>

\* Mutant: the error is terminal like any other, so nothing is tried again.
CompleteSessionFailsForGood(w) ==
    /\ pc[w] = "complete"
    /\ Fault("complete")
    /\ Finish(w, "failed")
    /\ UNCHANGED <<sessionVars, now, jobVars, wjob, snap, plan, todo, tries, startVars>>

\* ErrSessionCompleteFailed: the job is left running for the recovery loop.
CompleteSessionFails(w) ==
    /\ pc[w] = "complete"
    /\ Fault("complete")
    /\ Release(w)
    /\ UNCHANGED <<sessionVars, now, jobVars, startVars>>

-----------------------------------------------------------------------------
(* Recovery, restart and time.                                             *)

Held(j) == \E w \in Workers : wjob[w] = j

\* Mutant: only a job on its first attempt is picked up again.
RequeueStaleFirstAttempt ==
    /\ \E S \in SUBSET {j \in Jobs : jobs[j].status = "running" /\ jobs[j].attempts < 2} :
          /\ S # {}
          /\ \A j \in S : ~Held(j)
          /\ jobs' = [j \in Jobs |-> IF j \in S THEN [jobs[j] EXCEPT !.status = "queued"]
                                     ELSE jobs[j]]
    /\ UNCHANGED <<sessionVars, now, hints, workerVars, startVars, faults>>

\* RequeueStaleRunningAnswerJobs.  Staleness is measured from the claim, with
\* StaleAfter >= JobTimeout: rows that no worker runs any more, and, when the
\* two are equal (their defaults are) and the clocks of application and
\* database differ, a row whose worker has not yet reached its deadline.
RequeueStale ==
    /\ \E S \in SUBSET {j \in Jobs : jobs[j].status = "running"} :
          /\ S # {}
          /\ \/ /\ \A j \in S : ~Held(j)
                /\ UNCHANGED faults
             \/ /\ \E j \in S : Held(j)
                /\ Fault("stale")
          /\ jobs' = [j \in Jobs |-> IF j \in S THEN [jobs[j] EXCEPT !.status = "queued"]
                                     ELSE jobs[j]]
    /\ UNCHANGED <<sessionVars, now, hints, workerVars, startVars>>

\* The process dies: the channel and every goroutine are gone.
Restart ==
    /\ Fault("crash")
    /\ hints' = <<>>
    /\ pc' = [w \in Workers |-> "idle"]
    /\ wjob' = [w \in Workers |-> NoJob]
    /\ snap' = [w \in Workers |-> NoSnap]
    /\ plan' = [w \in Workers |-> NoPlan]
    /\ todo' = [w \in Workers |-> {}]
    /\ outcome' = [w \in Workers |-> "none"]
    /\ tries' = [w \in Workers |-> 0]
    /\ spc' = [s \in Starters |-> IF spc[s] = "new" THEN "new" ELSE "ended"]
    /\ UNCHANGED <<sessionVars, now, jobs, sarea, sresume, snext>>

Tick ==
    /\ now < MaxNow
    /\ now' = now + 1
    /\ UNCHANGED <<sessionVars, jobVars, workerVars, startVars, faults>>

-----------------------------------------------------------------------------
\* Steps a healthy worker takes by itself.
WorkerStep(w) ==
    \/ ClaimHinted(w)
    \/ ClaimNextQueued(w)
    \/ ReadSession(w)
    \/ ReadFlow(w)
    \/ ReadAreas(w)
    \/ ReadCurrent(w)
    \/ RetryAI(w)
    \/ EvaluateAnswer(w)
    \/ OpeningQuestion(w)
    \/ AdvanceNonCriterionStep(w)
    \/ ProcessCriterionTurn(w)
    \/ TurnMoved(w)
    \/ MarkAreaNotAssessed(w)
    \/ MarkFlowDone(w)
    \/ CompleteSession(w)
    \/ MarkAnswerJob(w)

WorkerFault(w) ==
    \/ ReadFails(w)
    \/ TxRolledBack(w)
    \/ CompleteSessionFails(w)
    \/ MarkFails(w)
    \/ Abandon(w)

Next ==
    \/ \E s \in Starters : StartInterview(s)
    \/ \E j \in Jobs, t \in 0 .. nextTurn - 1 : SubmitAnswerAsync(j, t)
    \/ \E j \in Jobs : ResubmitAnswerAsync(j)
    \/ \E w \in Workers : WorkerStep(w)
    \/ \E w \in Workers : WorkerFault(w)
    \/ RequeueStale
    \/ Restart
    \/ Tick

Spec == Init /\ [][Next]_vars

\* Workers poll the database every two seconds and the recovery loop runs
\* periodically, so each of them takes a step it can take; users and the
\* clock promise nothing.
Fairness ==
    /\ \A w \in Workers : WF_vars(WorkerStep(w))
    /\ WF_vars(RequeueStale)

FairSpec == Spec /\ Fairness

-----------------------------------------------------------------------------
(* Safety.                                                                 *)

SessionType ==
    /\ status \in {"created", "interviewing", "completed"}
    /\ flow \in Flow
    /\ lapsed \in Nat
    /\ areaStatus \in [Areas -> AreaStatuses]
    /\ areaCount \in [Areas -> Nat]
    /\ answers \in Seq([turn : Nat, area : Areas])
    /\ events \in Seq([turn : Nat, type : Steps])
    /\ nextTurn \in Nat \ {0}
    /\ now \in Nat

JobType ==
    /\ jobs \in [Jobs -> Job]
    /\ hints \in Seq(Jobs)
    /\ faults \in Nat

WorkerType ==
    /\ pc \in [Workers -> PCs]
    /\ wjob \in [Workers -> Jobs \cup {NoJob}]
    /\ snap \in [Workers -> Snap]
    /\ plan \in [Workers -> Plan]
    /\ todo \in [Workers -> SUBSET Areas]
    /\ outcome \in [Workers -> Outcomes]
    /\ tries \in [Workers -> Nat]

StartType ==
    /\ spc \in [Starters -> SPCs]
    /\ sarea \in [Starters -> Areas \cup {NoArea}]
    /\ sresume \in [Starters -> BOOLEAN]
    /\ snext \in [Starters -> Nat \ {0}]

\* What a worker has at each point: a job once it claimed one, an area once it
\* was routed, an outcome when it is about to store one.
WorkerHas ==
    \A w \in Workers :
        /\ (pc[w] # "idle") <=> (wjob[w] # NoJob)
        /\ pc[w] \in {"evaluate", "opening", "advance", "commit"} => snap[w].cur \in Areas
        /\ pc[w] = "mark" => outcome[w] # "none"

\* Every variable keeps its type, and no worker writes a job, an area or an
\* outcome it does not have.
TypeOK == SessionType /\ JobType /\ WorkerType /\ StartType /\ WorkerHas

\* A turn is answered at most once, however many jobs carry its id and
\* however often each of them runs: no two rows of answers and
\* interview_events come from one turn (the lock of ProcessCriterionTurn and
\* AdvanceNonCriterionStep).
TurnAppliedOnce ==
    /\ \A i, k \in DOMAIN answers : i # k => answers[i].turn # answers[k].turn
    /\ \A i, k \in DOMAIN events : i # k => events[i].turn # events[k].turn
    /\ \A i \in DOMAIN answers, k \in DOMAIN events : answers[i].turn # events[k].turn

\* At most one focus area is in progress, whatever StartInterview requests,
\* turns and timeouts overlap: GetInProgressArea's LIMIT 1 never has a choice.
OneInProgress == \A a, b \in InProgress : a = b

\* No area is asked more than MaxQuestionsPerArea questions, although the
\* worker decides from a count it read long before the turn commits.
QuestionsCapped == \A a \in Areas : areaCount[a] <= MaxQuestionsPerArea

\* questions_count and question_number agree with the rows they count: the
\* number shown to the user is one more than the readiness events and the
\* answers stored, even though it is computed from the worker's snapshot.
CountersMatchRows ==
    /\ \A a \in Areas : areaCount[a] = Cardinality({i \in DOMAIN answers : answers[i].area = a})
    /\ flow.number = 1 + Len(answers)
                       + Cardinality({i \in DOMAIN events : events[i].type = "readiness"})

\* interview_lapsed_seconds never exceeds the budget: the check truncates the
\* answer's seconds (Go), the UPDATE rounds them (Postgres), and a turn that
\* passes the check with one second left still fits.
LapsedWithinBudget == lapsed <= InterviewBudget

\* What the status endpoint reports of a succeeded job is true: a job with a
\* next question stored its turn and no other job claims that turn; a job that
\* reports the end has a completed session behind it.
SucceededIsTrue ==
    \A j \in Jobs : jobs[j].status = "succeeded" =>
        /\ jobs[j].payload = "done" => status = "completed"
        /\ jobs[j].payload = "next" =>
              /\ \/ \E i \in DOMAIN answers : answers[i].turn = jobs[j].turn
                 \/ \E i \in DOMAIN events : events[i].turn = jobs[j].turn
              /\ \A k \in Jobs \ {j} : jobs[k].status = "succeeded" /\ jobs[k].payload = "next"
                                       => jobs[k].turn # jobs[j].turn

\* An answer is stored under the area its question was about: when a turn
\* commits, the area the worker read is the one on the flow pointer and is
\* still in progress.
AnswerStoredUnderItsArea ==
    [][\A i \in DOMAIN answers' \ DOMAIN answers :
          answers'[i].area = flow.area /\ areaStatus[flow.area] = "in_progress"]_vars

\* A verdict on an area is final: no restart of the interview, late turn or
\* timeout reopens or rewrites a complete, insufficient or not-assessed area.
VerdictIsFinal ==
    [][\A a \in Areas : Resolved(areaStatus[a]) => areaStatus'[a] = areaStatus[a]]_vars

\* After the session is completed no question is issued and no answer stored.
CompletedIsQuiet ==
    [][status = "completed" => UNCHANGED <<answers, events, nextTurn>>]_vars

\* The end of the interview leaves no focus area open: what was not assessed
\* by then is marked not assessed (markRemainingNotAssessed hands every
\* unresolved area to MarkAreaNotAssessed).
NothingLeftInProgress == status = "completed" => InProgress = {}

\* Turns: issued, expected, and answered.
AppliedTurns == {answers[i].turn : i \in DOMAIN answers} \cup {events[i].turn : i \in DOMAIN events}

Ledger == INSTANCE TurnLedger
    WITH expected <- flow.turn, issued <- nextTurn,
         applied <- AppliedTurns, rows <- Len(answers) + Len(events)

\* The whole machinery of jobs, workers, retries and restarts implements the
\* turn ledger: an answer is accepted only for the turn that is expected, once.
ImplementsLedger == Ledger!Spec

-----------------------------------------------------------------------------
(* The inductive invariant behind the safety properties.                   *)

\* The worker relies on its snapshot from here on.
Holding(w) == pc[w] \in {"flow", "areas", "current", "evaluate", "opening", "advance", "commit"}
Routed(w)  == pc[w] \in {"evaluate", "opening", "advance", "commit"}

\* The worker's job answers the turn that is still expected.
Fresh(w) == flow.turn # NoTurn /\ jobs[wjob[w]].turn = flow.turn

\* Turn ids are below the counter; an answered turn is not expected again.
TurnInv ==
    /\ flow.turn < nextTurn
    /\ \A j \in Jobs : jobs[j].turn < nextTurn
    /\ \A i \in DOMAIN answers : answers[i].turn \in 1 .. nextTurn - 1 /\ answers[i].turn # flow.turn
    /\ \A i \in DOMAIN events : events[i].turn \in 1 .. nextTurn - 1 /\ events[i].turn # flow.turn
    /\ \A w \in Workers : pc[w] # "idle" => jobs[wjob[w]].status # "none"

\* While its turn is still expected, what a worker read is what the rows say.
SnapInv ==
    \A w \in Workers : Holding(w) /\ Fresh(w) =>
        /\ snap[w].lapsed = lapsed
        /\ pc[w] # "flow" => snap[w].flow = flow
        /\ Routed(w) =>
              /\ areaStatus[snap[w].cur] = "in_progress"
              /\ snap[w].count = areaCount[snap[w].cur]

\* What a worker past the routing has established about its job and plan.
PlanInv ==
    \A w \in Workers : Routed(w) =>
        /\ ~TurnConflict(snap[w], jobs[wjob[w]])
        /\ ~TimeUp(snap[w], jobs[wjob[w]])
        /\ pc[w] \in {"evaluate", "commit"} => snap[w].flow.step = "criterion"
        /\ pc[w] = "advance" => snap[w].flow.step \in {"disclaimer", "readiness"}
        /\ pc[w] = "opening" => snap[w].flow.step \in {"readiness", "criterion"}
        /\ pc[w] = "commit" \/ (pc[w] = "opening" /\ snap[w].flow.step = "criterion") =>
              IF plan[w].action = "next" THEN plan[w].mark # ""
              ELSE /\ plan[w].mark = ""
                   /\ plan[w].nextArea = snap[w].cur
                   /\ snap[w].count + 1 < MaxQuestionsPerArea

\* The first area was opened, and from then on it is never reachable again.
Opened == areaStatus[1] \notin {"absent", "pending", "pre_addressed"}

OpenInv ==
    /\ InProgress # {} \/ flow.turn # NoTurn \/ flow.step # "disclaimer" => Opened
    /\ \A s \in Starters :
          /\ spc[s] \in {"current", "prepare"} => Opened
          /\ spc[s] = "create" => snext[s] \in Areas
          /\ spc[s] = "first" \/ (spc[s] = "create" /\ snext[s] > 1) => areaStatus[1] # "absent"
          /\ spc[s] \in {"new", "count", "flow"} => snext[s] = 1
    /\ \A w \in Workers : snap[w].flow.turn # NoTurn \/ pc[w] \in {"timeout", "flowdone"} => Opened

\* In the criterion step only the area of the question can be in progress,
\* and an area that is or may be in progress has questions left.
AreaInv ==
    /\ flow.step = "criterion" => InProgress \subseteq {flow.area}
    /\ \A a \in Areas :
          /\ areaStatus[a] \in {"absent", "pending", "pre_addressed"} => areaCount[a] = 0
          /\ areaStatus[a] = "in_progress" => areaCount[a] < MaxQuestionsPerArea

\* The properties proved, and what makes them inductive.
IInv ==
    /\ TypeOK
    /\ TurnInv /\ TurnAppliedOnce
    /\ SnapInv /\ PlanInv
    /\ OpenInv /\ OneInProgress
    /\ AreaInv /\ QuestionsCapped
    /\ LapsedWithinBudget

-----------------------------------------------------------------------------
(* Liveness.                                                               *)

\* A submitted answer is not forgotten: its job reaches a terminal status,
\* through dropped hints, crashes and failed updates.
JobsTerminate == \A j \in Jobs : (jobs[j].status = "queued") ~> (jobs[j].status \in Terminal)

\* An interview whose flow ended is completed, so that a report can be asked
\* for, although CompleteSession runs after the turn's transaction and may fail;
\* only a job that has used its last attempt may leave it uncompleted.
EndedIsCompleted ==
    (flow.step = "done") ~> \/ status = "completed"
                            \/ \E j \in Jobs : /\ jobs[j].status = "failed"
                                               /\ jobs[j].attempts >= MaxAttempts

=============================================================================
