----------------------------- MODULE ReportJobs -----------------------------
(***************************************************************************)
(* The report of one session: the reports row, the requests that ask for   *)
(* it, the workers that generate it, and the recovery loop.  Reports of    *)
(* other sessions share the workers and the channel only, so a hint may    *)
(* always be dropped and the channel's contents are a number of hints.     *)
(*                                                                         *)
(* Every statement on the database is a step.  The interview appears as    *)
(* the number of answers it stored and whether the session is completed;   *)
(* a completed session may still be given answers (CompletedIsQuiet of     *)
(* Interview fails), so the report is held to those it had at its end.     *)
(***************************************************************************)
EXTENDS Integers

CONSTANTS
    Requests,       \* concurrent POST /report/{code}/generate
    Workers,        \* async report workers, of all instances
    QueueSize,      \* capacity of the hint channel
    MaxAttempts,    \* maxReportJobAttempts, 5 in the code
    AIAttempts,     \* reportAIMaxAttempts, 3 in the code
    MaxAnswers,     \* bound: answers stored by the interview, late ones included
    FaultKinds,     \* which failures happen: "db", "reply", "crash", "stale"
    MaxFaults       \* bound: failures injected in one behaviour

ASSUME ReportAssumption ==
    /\ QueueSize \in Nat
    /\ MaxAttempts \in Nat
    /\ AIAttempts \in Nat \ {0}
    /\ MaxAnswers \in Nat
    /\ MaxFaults \in Nat

VARIABLES
    completed,  \* sessions.status = 'completed'
    answered,   \* rows of interview_answers of this session
    atEnd,      \* history: the answers there were when the session was completed
    row,        \* the reports row
    hints,      \* hints for this report in the channel
    rpc,        \* where each request is
    wpc,        \* where each worker is with this report
    input,      \* reportGenerationInput of the worker: how many answers each read saw
    tries,      \* failed AI calls of the worker
    faults

vars == <<completed, answered, atEnd, row, hints, rpc, wpc, input, tries, faults>>

\* What a report is made of: the areas, the answers and the count of the answers
\* are three reads, and each sees the answers stored so far.
Reads   == [areas : Nat, answers : Nat, count : Nat]
NoReads == [areas |-> 0, answers |-> 0, count |-> 0]

Statuses  == {"none", "generating", "queued", "running", "ready", "failed"}
Row       == [status : Statuses, attempts : Nat, content : Reads]

RequestPCs == {"idle", "session", "read", "touch", "requeue", "legacy", "create"}
WorkerPCs  == {"idle", "session", "areas", "answers", "count", "ai", "ready", "fail"}

-----------------------------------------------------------------------------
\* No row yet, or one an older release left as 'generating'.
Init ==
    /\ \/ completed = FALSE /\ answered = 0
          /\ row = [status |-> "none", attempts |-> 0, content |-> NoReads]
       \/ completed = TRUE /\ answered \in 0 .. MaxAnswers
          /\ row = [status |-> "generating", attempts |-> 0, content |-> NoReads]
    /\ atEnd = answered
    /\ hints = 0
    /\ rpc = [r \in Requests |-> "idle"]
    /\ wpc = [w \in Workers |-> "idle"]
    /\ input = [w \in Workers |-> NoReads]
    /\ tries = [w \in Workers |-> 0]
    /\ faults = 0

Fault(kind) ==
    /\ kind \in FaultKinds
    /\ faults < MaxFaults
    /\ faults' = faults + 1

\* The hint is dropped when the channel is full, with whatever reports.
enqueueReport == hints' \in {hints, hints + 1} /\ hints' <= QueueSize

GotoR(r, place) == rpc' = [rpc EXCEPT ![r] = place]
GotoW(w, place) == wpc' = [wpc EXCEPT ![w] = place]

\* The worker lets go of what it has read.
Leave(w, place) ==
    /\ GotoW(w, place)
    /\ input' = [input EXCEPT ![w] = NoReads]
    /\ tries' = [tries EXCEPT ![w] = 0]

-----------------------------------------------------------------------------
(* The interview.                                                          *)

\* ProcessCriterionTurn does not look at the status of the session.
StoreAnswer ==
    /\ answered < MaxAnswers
    /\ answered' = answered + 1
    /\ UNCHANGED <<completed, atEnd, row, hints, rpc, wpc, input, tries, faults>>

CompleteSession ==
    /\ ~completed
    /\ completed' = TRUE
    /\ atEnd' = answered
    /\ UNCHANGED <<answered, row, hints, rpc, wpc, input, tries, faults>>

-----------------------------------------------------------------------------
(* GenerateReportAsync.                                                    *)

\* Mutant: the status of the session is not looked at.
getAnySession == TRUE

getCompletedSession == completed

GenerateReportAsync(r) ==
    /\ rpc[r] = "idle"
    /\ GotoR(r, "session")
    /\ UNCHANGED <<completed, answered, atEnd, row, hints, wpc, input, tries, faults>>

CheckSession(r) ==
    /\ rpc[r] = "session"
    /\ GotoR(r, IF getCompletedSession THEN "read" ELSE "idle")
    /\ UNCHANGED <<completed, answered, atEnd, row, hints, wpc, input, tries, faults>>

\* What the request does about the row it read.
AfterRead(status) ==
    CASE status = "none"                  -> "create"
      [] status = "generating"            -> "legacy"
      [] status \in {"queued", "running"} -> "touch"
      [] status = "failed"                -> "requeue"
      [] status = "ready"                 -> "idle"

GetReportBySession(r) ==
    /\ rpc[r] = "read"
    /\ GotoR(r, AfterRead(row.status))
    /\ UNCHANGED <<completed, answered, atEnd, row, hints, wpc, input, tries, faults>>

SetReportLastRequestID(r) ==
    /\ rpc[r] = "touch"
    /\ enqueueReport
    /\ GotoR(r, "idle")
    /\ UNCHANGED <<completed, answered, atEnd, row, wpc, input, tries, faults>>

\* The status the request read is not compared again.
Requeue(r) ==
    /\ rpc[r] \in {"requeue", "legacy"}
    /\ row' = [status |-> "queued", content |-> row.content,
               attempts |-> IF rpc[r] = "requeue" THEN 0 ELSE row.attempts]

SetReportQueued(r) ==
    /\ Requeue(r)
    /\ enqueueReport
    /\ GotoR(r, "idle")
    /\ UNCHANGED <<completed, answered, atEnd, wpc, input, tries, faults>>

Insert(r) ==
    /\ rpc[r] = "create"
    /\ row.status = "none"
    /\ row' = [status |-> "queued", attempts |-> 0, content |-> NoReads]

\* The INSERT of a second request fails on the key: it reads the row again
\* and goes on like a request that found it.
CreateReport(r) ==
    /\ \/ Insert(r) /\ enqueueReport /\ GotoR(r, "idle")
       \/ /\ rpc[r] = "create"
          /\ row.status # "none"
          /\ GotoR(r, "touch")
          /\ UNCHANGED <<row, hints>>
    /\ UNCHANGED <<completed, answered, atEnd, wpc, input, tries, faults>>

\* The write is done and its reply lost: SetReportQueued gives up without a
\* hint, CreateReport finds the row it inserted.
RequestReplyLost(r) ==
    /\ Fault("reply")
    /\ \/ Requeue(r) /\ GotoR(r, "idle")
       \/ Insert(r) /\ GotoR(r, "touch")
    /\ UNCHANGED <<completed, answered, atEnd, hints, wpc, input, tries>>

\* A statement fails or the client goes away.
RequestFails(r) ==
    /\ rpc[r] # "idle"
    /\ Fault("db")
    /\ GotoR(r, "idle")
    /\ UNCHANGED <<completed, answered, atEnd, row, hints, wpc, input, tries>>

-----------------------------------------------------------------------------
(* The workers.                                                            *)

\* The claim and the check of the attempts that follows it.
Begin(w) ==
    /\ row.status = "queued"
    /\ row' = [status |-> "running", attempts |-> row.attempts + 1, content |-> row.content]
    /\ GotoW(w, IF row.attempts + 1 > MaxAttempts THEN "fail" ELSE "session")

ClaimQueuedReport(w) ==
    /\ wpc[w] = "idle"
    /\ hints > 0
    /\ hints' = hints - 1
    /\ \/ Begin(w)
       \/ row.status # "queued" /\ UNCHANGED <<row, wpc>>
    /\ UNCHANGED <<completed, answered, atEnd, rpc, input, tries, faults>>

\* Mutant: the fallback serves only reports nobody has started.
ClaimNextUnstarted(w) ==
    /\ wpc[w] = "idle"
    /\ row.attempts = 0
    /\ Begin(w)
    /\ UNCHANGED <<completed, answered, atEnd, hints, rpc, input, tries, faults>>

ClaimNextQueuedReport(w) ==
    /\ wpc[w] = "idle"
    /\ Begin(w)
    /\ UNCHANGED <<completed, answered, atEnd, hints, rpc, input, tries, faults>>

\* The UPDATE is done and its reply lost: running, and nobody on it.
ClaimLost ==
    /\ row.status = "queued"
    /\ Fault("reply")
    /\ row' = [status |-> "running", attempts |-> row.attempts + 1, content |-> row.content]
    /\ UNCHANGED <<completed, answered, atEnd, hints, rpc, wpc, input, tries>>

CheckCompleted(w) ==
    /\ wpc[w] = "session"
    /\ GotoW(w, IF getCompletedSession THEN "areas" ELSE "fail")
    /\ UNCHANGED <<completed, answered, atEnd, row, hints, rpc, input, tries, faults>>

GetAreasBySession(w) ==
    /\ wpc[w] = "areas"
    /\ input' = [input EXCEPT ![w].areas = answered]
    /\ GotoW(w, "answers")
    /\ UNCHANGED <<completed, answered, atEnd, row, hints, rpc, tries, faults>>

GetAnswersBySession(w) ==
    /\ wpc[w] = "answers"
    /\ input' = [input EXCEPT ![w].answers = answered]
    /\ GotoW(w, "count")
    /\ UNCHANGED <<completed, answered, atEnd, row, hints, rpc, tries, faults>>

GetAnswerCount(w) ==
    /\ wpc[w] = "count"
    /\ input' = [input EXCEPT ![w].count = answered]
    /\ GotoW(w, "ai")
    /\ UNCHANGED <<completed, answered, atEnd, row, hints, rpc, tries, faults>>

buildReportInput(w) ==
    \/ GetAreasBySession(w)
    \/ GetAnswersBySession(w)
    \/ GetAnswerCount(w)

\* generateReportWithRetry: one call of the AI.
GenerateReport(w) ==
    /\ wpc[w] = "ai"
    /\ \/ GotoW(w, "ready") /\ UNCHANGED <<input, tries>>
       \/ /\ tries[w] + 1 < AIAttempts
          /\ tries' = [tries EXCEPT ![w] = @ + 1]
          /\ UNCHANGED <<wpc, input>>
       \/ tries[w] + 1 = AIAttempts /\ Leave(w, "fail")
    /\ UNCHANGED <<completed, answered, atEnd, row, hints, rpc, faults>>

\* A read fails, or the job's deadline passes: markReportFailed, which writes
\* with a context of its own.
ProcessFails(w) ==
    /\ wpc[w] \in {"session", "areas", "answers", "count", "ai"}
    /\ Fault("db")
    /\ Leave(w, "fail")
    /\ UNCHANGED <<completed, answered, atEnd, row, hints, rpc>>

StoreReady(w) == row' = [status |-> "ready", attempts |-> row.attempts, content |-> input[w]]

MarkReportReady(w) ==
    /\ wpc[w] = "ready"
    /\ StoreReady(w)
    /\ Leave(w, "idle")
    /\ UNCHANGED <<completed, answered, atEnd, hints, rpc, faults>>

\* The error of MarkReportReady leads to MarkReportFailed, although with a
\* lost reply the report is stored.
MarkReadyFails(w) ==
    /\ wpc[w] = "ready"
    /\ \/ Fault("db") /\ UNCHANGED row
       \/ Fault("reply") /\ StoreReady(w)
    /\ Leave(w, "fail")
    /\ UNCHANGED <<completed, answered, atEnd, hints, rpc>>

MarkReportFailed(w) ==
    /\ wpc[w] = "fail"
    /\ row' = [status |-> "failed", attempts |-> row.attempts, content |-> row.content]
    /\ GotoW(w, "idle")
    /\ UNCHANGED <<completed, answered, atEnd, hints, rpc, input, tries, faults>>

\* The terminal update fails, or shutdown cancels the job, which is left for
\* recovery: the row stays running.
LeaveRunning(w) ==
    /\ wpc[w] # "idle"
    /\ Fault(IF wpc[w] = "fail" THEN "db" ELSE "crash")
    /\ Leave(w, "idle")
    /\ UNCHANGED <<completed, answered, atEnd, row, hints, rpc>>

-----------------------------------------------------------------------------
(* Recovery and restart.                                                   *)

\* A worker outlives StaleAfter >= JobTimeout only while it stores the
\* outcome: that update is not bound by the job's deadline.
RequeueStale ==
    /\ row.status = "running"
    /\ \/ (\A w \in Workers : wpc[w] = "idle") /\ UNCHANGED faults
       \/ /\ \E w \in Workers : wpc[w] # "idle"
          /\ \A w \in Workers : wpc[w] \in {"idle", "ready", "fail"}
          /\ Fault("stale")
    /\ row' = [status |-> "queued", attempts |-> row.attempts, content |-> row.content]
    /\ UNCHANGED <<completed, answered, atEnd, hints, rpc, wpc, input, tries>>

Restart ==
    /\ Fault("crash")
    /\ hints' = 0
    /\ rpc' = [r \in Requests |-> "idle"]
    /\ wpc' = [w \in Workers |-> "idle"]
    /\ input' = [w \in Workers |-> NoReads]
    /\ tries' = [w \in Workers |-> 0]
    /\ UNCHANGED <<completed, answered, atEnd, row>>

-----------------------------------------------------------------------------
RequestStep(r) ==
    \/ CheckSession(r)
    \/ GetReportBySession(r)
    \/ SetReportLastRequestID(r)
    \/ SetReportQueued(r)
    \/ CreateReport(r)

WorkerStep(w) ==
    \/ ClaimQueuedReport(w)
    \/ ClaimNextQueuedReport(w)
    \/ CheckCompleted(w)
    \/ buildReportInput(w)
    \/ GenerateReport(w)
    \/ MarkReportReady(w)
    \/ MarkReportFailed(w)

Next ==
    \/ StoreAnswer
    \/ CompleteSession
    \/ \E r \in Requests : GenerateReportAsync(r) \/ RequestStep(r) \/ RequestFails(r)
                          \/ RequestReplyLost(r)
    \/ \E w \in Workers : WorkerStep(w) \/ ProcessFails(w) \/ MarkReadyFails(w) \/ LeaveRunning(w)
    \/ ClaimLost
    \/ RequeueStale
    \/ Restart

Spec == Init /\ [][Next]_vars

\* Workers poll the table when they are idle and run what they claimed; the
\* recovery loop has a ticker.
Fairness ==
    /\ \A w \in Workers : WF_vars(WorkerStep(w))
    /\ WF_vars(RequeueStale)

FairSpec == Spec /\ Fairness

-----------------------------------------------------------------------------
TypeOK ==
    /\ completed \in BOOLEAN
    /\ answered \in Nat /\ atEnd \in Nat
    /\ row \in Row
    /\ hints \in Nat
    /\ rpc \in [Requests -> RequestPCs]
    /\ wpc \in [Workers -> WorkerPCs]
    /\ input \in [Workers -> Reads]
    /\ tries \in [Workers -> Nat]
    /\ faults \in Nat

\* What a report rests on: areas, answers and count were read in this order,
\* none of them before the session was completed.
Covers(reads) ==
    /\ atEnd <= reads.areas
    /\ reads.areas <= reads.answers
    /\ reads.answers <= reads.count
    /\ reads.count <= answered

\* A ready report is about the whole interview: what went into it was read when
\* the session had been completed, so it misses no answer the session had at
\* that moment, though answers are still stored meanwhile (getCompletedSession
\* before buildReportInput).  A late answer may be missing, or be counted and
\* not be in the text.
ReadyCoversInterview == row.status = "ready" => completed /\ Covers(row.content)

\* Once ready a report stays ready: no request queues it again and no worker
\* marks it failed.
ReadyIsFinal == [][row.status = "ready" => row'.status = "ready"]_vars

\* A report that was asked for comes to an end, with the hint dropped, its
\* worker gone or its status update lost.
ReportsTerminate == (row.status = "queued") ~> (row.status \in {"ready", "failed"})

\* What a worker has read so far, by its place in buildReportInput.
Reading(w) ==
    /\ wpc[w] \in {"areas", "answers", "count", "ai", "ready"} => completed
    /\ wpc[w] \in {"answers", "count"} => atEnd <= input[w].areas /\ input[w].areas <= answered
    /\ wpc[w] = "count" => input[w].areas <= input[w].answers /\ input[w].answers <= answered
    /\ wpc[w] \in {"ai", "ready"} => Covers(input[w])

\* The inductive invariant behind ReadyCoversInterview: a worker past the check
\* of the session reads no less than there was at its end.
ReportInv ==
    /\ TypeOK
    /\ ReadyCoversInterview
    /\ atEnd <= answered
    /\ \A w \in Workers : Reading(w)

=============================================================================
