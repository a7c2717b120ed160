---------------------------- MODULE InterviewPage ----------------------------
(***************************************************************************)
(* The interview page of one browser tab                                    *)
(* (frontend/src/app/interview/[code]): the phases of the page, the answer   *)
(* it keeps in localStorage until its job is settled, and the asynchronous   *)
(* routine that submits an answer, polls its job and recovers after a        *)
(* reload.  The server is what the page can see of it: the turn it asks for  *)
(* and the table of answer jobs (their life is the module Interview).        *)
(*                                                                         *)
(* A routine runs between two awaits without interruption.  The page may be  *)
(* reloaded at any moment; a request it had sent may then still arrive.      *)
(***************************************************************************)
EXTENDS Integers, FiniteSets

CONSTANTS
    NTurns,             \* answers the interview takes
    MaxSubmits,         \* bound of the answers given, and of their request ids
    BreakerFailures,    \* ASYNC_POLL_CIRCUIT_BREAKER_FAILURES
    MaxFaults           \* bound of lost calls, refusals, reloads and lapses

ASSUME PageAssumption ==
    /\ NTurns \in Nat \ {0} /\ MaxSubmits \in Nat
    /\ BreakerFailures \in Nat \ {0} /\ MaxFaults \in Nat

VARIABLES
    turn,       \* server: the turn it has issued last, 0 before the first start
    left,       \* server: answers still to come, 0 once completed
    jobs,       \* server: the answer jobs by request id
    expired,    \* server: the session is past its expiry
    access,     \* whether the auth cookie is still accepted
    wire,       \* answers sent by a routine that is gone, still to arrive
    lateStarts, \* how many start requests of such a routine are unread, and have read
    pending,    \* localStorage: the pending answer
    drafts,     \* localStorage: the turns with a draft
    phase,      \* the page: state.phase, state.question, state.code
    question,
    code,
    text,       \* the page: the text box of the question shown is not empty
    run,        \* the page: the asynchronous routine under way
    lastRid,    \* request ids given out
    faults,
    forced      \* history: a pending answer was given up for want of access

serverVars  == <<turn, left, jobs, expired, access>>
wireVars    == <<wire, lateStarts>>
storageVars == <<pending, drafts>>
pageVars    == <<phase, question, code, text>>
vars == <<serverVars, wireVars, storageVars, pageVars, run, lastRid, faults, forced>>

\* A turn is issued by the first start, by an answer, and by a start that did not
\* know of another.  Over stands for the end of the interview.
Turns == 1 .. MaxSubmits + MaxFaults + 1
Over  == MaxSubmits + MaxFaults + 2
Rids  == 1 .. MaxSubmits

Phases   == {"guard", "loading", "active", "submitting", "done", "error"}
Statuses == {"none", "queued", "succeeded", "conflict", "canceled", "failed"}
NoCode   == "NONE"   \* no error code: no reply came, or no refusal
Codes    == {NoCode, "UNAUTHORIZED", "SESSION_EXPIRED", "TURN_CONFLICT", "AI_RETRY_EXHAUSTED",
             "ASYNC_POLL_TIMEOUT", "ASYNC_POLL_CIRCUIT_OPEN", "INTERNAL_ERROR"}

\* jobId is reduced to whether it is known; next is the turn of the result.
Pending   == [rid : 0 .. MaxSubmits, turn : Turns \cup {0}, jobId : BOOLEAN]
NoPending == [rid |-> 0, turn |-> 0, jobId |-> FALSE]

Job   == [turn : Turns \cup {0}, status : Statuses, next : 0 .. Over]
NoJob == [turn |-> 0, status |-> "none", next |-> 0]

\* The routine: its kind, what it awaits, the answer it is about, the terminal
\* code of a recovery, the consecutive failed polls, whether it has polled, and
\* the reply of start: a turn, or 0 with the code of a refusal.
Routine == [kind : {"none", "boot", "submit"}, await : {"none", "post", "poll", "start", "issue", "reply"},
            job : Pending, recoveryTerminalCode : Codes, failures : 0 .. BreakerFailures,
            polled : BOOLEAN, reply : 0 .. Over, refusal : Codes]
NoRoutine == [kind |-> "none", await |-> "none", job |-> NoPending, recoveryTerminalCode |-> NoCode,
              failures |-> 0, polled |-> FALSE, reply |-> 0, refusal |-> NoCode]

Init ==
    /\ turn = 0 /\ left = NTurns /\ jobs = [r \in Rids |-> NoJob]
    /\ expired = FALSE /\ access = TRUE
    /\ wire = {} /\ lateStarts = [sent |-> 0, read |-> 0] /\ pending = NoPending /\ drafts = {}
    /\ phase = "guard" /\ question = 0 /\ code = NoCode /\ text = FALSE
    /\ run = NoRoutine
    /\ lastRid = 0 /\ faults = 0 /\ forced = FALSE

Fault == faults < MaxFaults /\ faults' = faults + 1

-----------------------------------------------------------------------------
(* The server, as the page sees it.                                        *)

\* UpsertAnswerJob and enqueue: a known request id keeps its job.
Upserted(r, t) ==
    IF jobs[r].status = "none"
    THEN [jobs EXCEPT ![r] = [turn |-> t, status |-> "queued", next |-> 0]]
    ELSE jobs

\* Only a success has a result.
Settle(r, s, next) ==
    jobs' = [jobs EXCEPT ![r].status = s, ![r].next = IF s = "succeeded" THEN next ELSE 0]

\* The turn is committed, whatever the job is then said to have come to: a
\* question was substituted, or a statement after the commit failed.  A flow that
\* is not done goes on behind a completed session (a late start put it back, or
\* MarkFlowDone failed at the time-out).
CommitTurn(r) ==
    /\ jobs[r].turn = turn /\ ~expired
    /\ \E s \in {"succeeded", "conflict", "canceled", "failed"} :
         Settle(r, s, IF left = 1 THEN Over ELSE turn + 1)
    /\ turn' = turn + 1
    /\ left' = IF left = 0 THEN 0 ELSE left - 1

\* The time is up, or no area is left: done, and the turn stays.
finishOnTimeout(r) ==
    /\ jobs[r].turn = turn /\ ~expired
    /\ \E s \in {"succeeded", "failed"} : Settle(r, s, Over)
    /\ left' = 0
    /\ UNCHANGED turn

\* The flow is done already, whatever turn the answer is for.
FlowDone(r) ==
    /\ left = 0 /\ ~expired
    /\ \E s \in {"succeeded", "failed"} : Settle(r, s, Over)
    /\ UNCHANGED <<turn, left>>

\* A stale turn, retries of the AI used up, an expired session, a failed statement.
NotApplied(r) ==
    /\ \/ jobs[r].turn # turn /\ ~expired /\ Settle(r, "conflict", 0)
       \/ jobs[r].turn = turn /\ ~expired /\ Settle(r, "canceled", 0)
       \/ Settle(r, "failed", 0)
    /\ UNCHANGED <<turn, left>>

\* processTurnCore and the outcome that the job's worker stores.
ProcessJob(r) ==
    /\ jobs[r].status = "queued"
    /\ \/ CommitTurn(r)
       \/ finishOnTimeout(r)
       \/ FlowDone(r)
       \/ NotApplied(r)
    /\ UNCHANGED <<expired, access, wireVars, storageVars, pageVars, run, lastRid, faults, forced>>

\* A request of a routine that is gone arrives, at any time or never.
LateAnswer(a) ==
    /\ a \in wire
    /\ wire' = wire \ {a}
    /\ jobs' = IF access /\ ~expired THEN Upserted(a.rid, a.turn) ELSE jobs
    /\ UNCHANGED <<turn, left, expired, access, lateStarts, storageVars, pageVars, run, lastRid, faults, forced>>

\* The same for a start: one that reads no active question forces the flow to
\* the disclaimer and issues its question, whatever has been issued or answered
\* since it read (PrepareDisclaimerStep is unconditional).
LateStart ==
    /\ \/ /\ lateStarts.sent > 0 /\ turn = 0 /\ access /\ ~expired
          /\ lateStarts' = [sent |-> lateStarts.sent - 1, read |-> lateStarts.read + 1]
          /\ UNCHANGED <<turn, left>>
       \/ /\ lateStarts.read > 0
          /\ lateStarts' = [lateStarts EXCEPT !.read = @ - 1]
          /\ turn' = turn + 1
          /\ left' = IF left = 0 THEN 0 ELSE NTurns
    /\ UNCHANGED <<jobs, expired, access, wire, storageVars, pageVars, run, lastRid, faults, forced>>

CookieLapses ==
    /\ access /\ Fault
    /\ access' = FALSE
    /\ UNCHANGED <<turn, left, jobs, expired, wireVars, storageVars, pageVars, run, lastRid, forced>>

SessionExpires ==
    /\ ~expired /\ Fault
    /\ expired' = TRUE
    /\ UNCHANGED <<turn, left, jobs, access, wireVars, storageVars, pageVars, run, lastRid, forced>>

-----------------------------------------------------------------------------
(* Ends of a routine.                                                      *)

shouldClearPendingAnswerOnError(c) ==
    c \in {"TURN_CONFLICT", "SESSION_EXPIRED", "UNAUTHORIZED"}

\* Mutant: an exhausted retry is not a reason to start again.
AttemptStartOnConflictOnly(c) == c = "TURN_CONFLICT"

shouldAttemptStartAfterRecoveryError(c) == c \in {"TURN_CONFLICT", "AI_RETRY_EXHAUSTED"}

isPendingRecoveryRetryableErrorCode(c) ==
    c \in {NoCode, "ASYNC_POLL_TIMEOUT", "ASYNC_POLL_CIRCUIT_OPEN"}

isReloadRecoveryErrorCode(c) ==
    c \in {"TURN_CONFLICT", "AI_RETRY_EXHAUSTED", "ASYNC_POLL_TIMEOUT", "ASYNC_POLL_CIRCUIT_OPEN"}

canRetryPendingRecovery ==
    phase = "error" /\ pending # NoPending /\ isPendingRecoveryRetryableErrorCode(code)

\* What the page shows next; no text box survives it.
Show(p, q, c) == phase' = p /\ question' = q /\ code' = c /\ text' = FALSE

\* Mutant: giving up a pending answer drops its draft as well.
ThrowsWithDraft(c) ==
    /\ pending' = IF shouldClearPendingAnswerOnError(c) THEN NoPending ELSE pending
    /\ drafts' = IF shouldClearPendingAnswerOnError(c) THEN drafts \ {run.job.turn} ELSE drafts
    /\ forced' = (forced \/ c \in {"SESSION_EXPIRED", "UNAUTHORIZED"})
    /\ IF run.kind = "boot" /\ shouldAttemptStartAfterRecoveryError(c)
       THEN /\ run' = [run EXCEPT !.await = "start", !.recoveryTerminalCode = c]
            /\ UNCHANGED pageVars
       ELSE run' = NoRoutine /\ Show("error", 0, c)

\* Mutant: every error lets go of the pending answer.
ThrowsForgetting(c) ==
    /\ pending' = NoPending
    /\ forced' = (forced \/ c \in {"SESSION_EXPIRED", "UNAUTHORIZED"})
    /\ IF run.kind = "boot" /\ shouldAttemptStartAfterRecoveryError(c)
       THEN /\ run' = [run EXCEPT !.await = "start", !.recoveryTerminalCode = c]
            /\ UNCHANGED pageVars
       ELSE run' = NoRoutine /\ Show("error", 0, c)
    /\ UNCHANGED drafts

\* submitPendingAnswerJob throws: the boot may go on with start, a submission
\* is over.
Throws(c) ==
    /\ pending' = IF shouldClearPendingAnswerOnError(c) THEN NoPending ELSE pending
    /\ forced' = (forced \/ c \in {"SESSION_EXPIRED", "UNAUTHORIZED"})
    /\ IF run.kind = "boot" /\ shouldAttemptStartAfterRecoveryError(c)
       THEN /\ run' = [run EXCEPT !.await = "start", !.recoveryTerminalCode = c]
            /\ UNCHANGED pageVars
       ELSE run' = NoRoutine /\ Show("error", 0, c)
    /\ UNCHANGED drafts

\* A question is shown, and its effects run on a text box still empty: the drafts
\* of other turns are cleared as stale, its own draft is read back into the box,
\* and is cleared with the box still empty, until the box is rendered with it.
Ask(t, kept) ==
    /\ phase' = "active" /\ question' = t /\ code' = NoCode
    /\ text' = (t \in kept)
    /\ drafts' = {}

\* Mutant: the routine is not laid to rest.
ReturnsStillRunning(next) ==
    /\ pending' = NoPending
    /\ IF next = Over
       THEN Show("done", 0, NoCode) /\ drafts' = drafts \ {run.job.turn}
       ELSE Ask(next, drafts \ {run.job.turn})
    /\ UNCHANGED <<run, forced>>

\* submitPendingAnswerJob returns: the same for a boot and a submission.
Returns(next) ==
    /\ pending' = NoPending
    /\ run' = NoRoutine
    /\ IF next = Over
       THEN Show("done", 0, NoCode) /\ drafts' = drafts \ {run.job.turn}
       ELSE Ask(next, drafts \ {run.job.turn})
    /\ UNCHANGED forced

-----------------------------------------------------------------------------
(* The page is opened, reloaded or told to retry: the boot effect.         *)

InFlight == IF run.await = "post" THEN {[rid |-> run.job.rid, turn |-> run.job.turn]} ELSE {}

\* A start that will find a question is of no account any more.
StartsInFlight ==
    [sent |-> IF run.await = "start" /\ turn = 0 THEN 1 ELSE 0,
     read |-> IF run.await = "issue" THEN 1 ELSE 0]

CutOff ==
    /\ wire' = wire \cup InFlight
    /\ lateStarts' = [k \in {"sent", "read"} |-> lateStarts[k] + StartsInFlight[k]]

\* Mutant: the boot starts without looking after the pending answer.
BootStartsFirst ==
    /\ Show("loading", 0, NoCode)
    /\ run' = [NoRoutine EXCEPT !.kind = "boot", !.job = pending, !.await = "start"]
    /\ CutOff

Boot ==
    /\ Show("loading", 0, NoCode)
    /\ run' = [NoRoutine EXCEPT !.kind = "boot", !.job = pending,
                 !.await = IF pending = NoPending THEN "start"
                           ELSE IF pending.jobId THEN "poll" ELSE "post"]
    /\ CutOff

\* The guard page, and the error page where it offers neither a retry nor a
\* reload, lead through the session page, where the PIN is verified.
Open ==
    /\ \/ phase = "guard"
       \/ phase = "error" /\ ~canRetryPendingRecovery /\ ~isReloadRecoveryErrorCode(code)
    /\ ~expired
    /\ access' = TRUE
    /\ Boot
    /\ UNCHANGED <<turn, left, jobs, expired, storageVars, lastRid, faults, forced>>

retryPendingRecovery ==
    /\ canRetryPendingRecovery
    /\ Boot
    /\ UNCHANGED <<serverVars, storageVars, lastRid, faults, forced>>

\* handleReloadPage, the error page's own button: nothing is under way.
ReloadAfterError ==
    /\ phase = "error"
    /\ canRetryPendingRecovery \/ isReloadRecoveryErrorCode(code)
    /\ Boot
    /\ UNCHANGED <<serverVars, storageVars, lastRid, faults, forced>>

\* The visitor reloads, or the browser crashes and comes back.
Reload ==
    /\ phase \in {"loading", "active", "submitting", "error"} /\ Fault
    /\ Boot
    /\ UNCHANGED <<serverVars, storageVars, lastRid, forced>>

-----------------------------------------------------------------------------
(* Answering.                                                              *)

\* The persist effect on the text that the mount has put into the box.
PersistDraft ==
    /\ phase = "active" /\ text /\ question \notin drafts
    /\ drafts' = drafts \cup {question}
    /\ UNCHANGED <<serverVars, wireVars, pending, pageVars, run, lastRid, faults, forced>>

\* The visitor types: the draft is saved.
Type ==
    /\ phase = "active" /\ ~text
    /\ text' = TRUE /\ drafts' = drafts \cup {question}
    /\ UNCHANGED <<serverVars, wireVars, pending, phase, question, code, run, lastRid, faults, forced>>

\* The visitor empties the box: so is the draft.
Erase ==
    /\ phase = "active" /\ text /\ question \in drafts
    /\ text' = FALSE /\ drafts' = drafts \ {question}
    /\ UNCHANGED <<serverVars, wireVars, pending, phase, question, code, run, lastRid, faults, forced>>

\* requestSubmit by button or by the timeout dialog, and the effect that
\* stores the pending answer before anything is sent.  What the visitor clicks
\* on was rendered with the text that is in the box.
requestSubmit ==
    /\ phase = "active" /\ lastRid < MaxSubmits
    /\ text => question \in drafts
    /\ LET p == [rid |-> lastRid + 1, turn |-> question, jobId |-> FALSE]
       IN /\ pending' = p
          /\ run' = [NoRoutine EXCEPT !.kind = "submit", !.await = "post", !.job = p]
    /\ lastRid' = lastRid + 1
    /\ phase' = "submitting" /\ text' = FALSE
    /\ UNCHANGED <<serverVars, wireVars, drafts, question, code, faults, forced>>

Refusal == IF ~access THEN "UNAUTHORIZED" ELSE "SESSION_EXPIRED"

\* POST answer-async is accepted: the job id is stored with the answer.
submitPendingAnswerJob ==
    /\ run.await = "post" /\ access /\ ~expired
    /\ jobs' = Upserted(run.job.rid, run.job.turn)
    /\ pending' = [run.job EXCEPT !.jobId = TRUE]
    /\ run' = [run EXCEPT !.await = "poll", !.job.jobId = TRUE]
    /\ UNCHANGED <<turn, left, expired, access, wireVars, drafts, pageVars, lastRid, faults, forced>>

PostRefused ==
    /\ run.await = "post" /\ (~access \/ expired)
    /\ Throws(Refusal)
    /\ UNCHANGED <<serverVars, wireVars, lastRid, faults>>

\* No reply (no code), or an error of the server; the request may yet arrive.
PostFails ==
    /\ run.await = "post" /\ Fault
    /\ CutOff
    /\ \E c \in {NoCode, "INTERNAL_ERROR"} : Throws(c)
    /\ UNCHANGED <<serverVars, lastRid>>

JobOfRun == jobs[run.job.rid]

\* One round of pollAsyncAnswerJob with a reply.
pollAsyncAnswerJob ==
    /\ run.await = "poll"
    /\ \/ /\ ~access
          /\ Throws("UNAUTHORIZED")
       \/ /\ access /\ JobOfRun.status = "queued"
          /\ run' = [run EXCEPT !.failures = 0, !.polled = TRUE]
          /\ UNCHANGED <<storageVars, pageVars, forced>>
       \/ /\ access /\ JobOfRun.status = "succeeded"
          /\ Returns(JobOfRun.next)
       \/ /\ access /\ JobOfRun.status = "canceled"
          /\ Throws("AI_RETRY_EXHAUSTED")
       \/ /\ access /\ JobOfRun.status = "conflict"
          /\ Throws("TURN_CONFLICT")
       \/ /\ access /\ JobOfRun.status = "failed"
          /\ Throws("INTERNAL_ERROR")
    /\ UNCHANGED <<serverVars, wireVars, lastRid, faults>>

\* 429, a server error, a network error or a timeout of the call.
PollFails ==
    /\ run.await = "poll" /\ Fault
    /\ IF run.failures + 1 >= BreakerFailures
       THEN Throws("ASYNC_POLL_CIRCUIT_OPEN")
       ELSE /\ run' = [run EXCEPT !.failures = @ + 1, !.polled = TRUE]
            /\ UNCHANGED <<storageVars, pageVars, forced>>
    /\ UNCHANGED <<serverVars, wireVars, lastRid>>

\* Mutant: the clock of the polling starts again.
PollTimeoutAgain ==
    /\ run.await = "poll" /\ run.polled
    /\ run' = [run EXCEPT !.polled = FALSE]
    /\ UNCHANGED <<serverVars, wireVars, storageVars, pageVars, lastRid, faults, forced>>

\* ASYNC_POLL_TIMEOUT_MS have passed; the first poll comes before that.
PollTimeout ==
    /\ run.await = "poll" /\ run.polled
    /\ Throws("ASYNC_POLL_TIMEOUT")
    /\ UNCHANGED <<serverVars, wireVars, lastRid, faults>>

-----------------------------------------------------------------------------
(* POST start, at the end of a boot without an answer to recover.          *)

Asked == IF left = 0 THEN Over ELSE turn

\* StartInterview up to its look at the active question.
HandleStart ==
    /\ run.await = "start"
    /\ run' = IF ~access \/ expired THEN [run EXCEPT !.await = "reply", !.refusal = Refusal]
              ELSE IF turn = 0 THEN [run EXCEPT !.await = "issue"]
              ELSE [run EXCEPT !.await = "reply", !.reply = Asked]
    /\ UNCHANGED <<serverVars, wireVars, storageVars, pageVars, lastRid, faults, forced>>

\* persistStartIssuePlan: there was no active question.
PrepareStep ==
    /\ run.await = "issue"
    /\ turn' = turn + 1
    /\ run' = [run EXCEPT !.await = "reply", !.reply = turn + 1]
    /\ UNCHANGED <<left, jobs, expired, access, wireVars, storageVars, pageVars, lastRid, faults, forced>>

StartFails ==
    /\ run.await \in {"start", "issue", "reply"} /\ Fault
    /\ CutOff
    /\ run' = NoRoutine
    /\ \E c \in {NoCode, "INTERNAL_ERROR"} : Show("error", 0, c)
    /\ UNCHANGED <<serverVars, storageVars, lastRid, forced>>

\* The reply of start, which the server may have overtaken since.
StartReplies ==
    /\ run.await = "reply"
    /\ run' = NoRoutine
    /\ \/ /\ run.refusal = "UNAUTHORIZED"
          /\ pending' = IF run.job # NoPending THEN NoPending ELSE pending
          /\ forced' = (forced \/ run.job # NoPending)
          /\ Show("guard", 0, NoCode)
          /\ UNCHANGED drafts
       \/ /\ run.refusal = "SESSION_EXPIRED"
          /\ Show("error", 0, "SESSION_EXPIRED")
          /\ UNCHANGED <<storageVars, forced>>
       \/ /\ run.refusal = NoCode /\ run.reply = Over
          /\ pending' = IF run.job # NoPending THEN NoPending ELSE pending
          /\ drafts' = drafts \ {run.job.turn}
          /\ Show("done", 0, NoCode)
          /\ UNCHANGED forced
       \/ /\ run.refusal = NoCode /\ run.reply # Over
          /\ pending' = IF run.job # NoPending /\ (run.reply # run.job.turn \/ run.recoveryTerminalCode # NoCode)
                        THEN NoPending ELSE pending
          /\ Ask(run.reply, drafts)
          /\ UNCHANGED forced
    /\ UNCHANGED <<serverVars, wireVars, lastRid, faults>>

-----------------------------------------------------------------------------
RoutineStep ==
    \/ submitPendingAnswerJob
    \/ PostRefused
    \/ pollAsyncAnswerJob
    \/ HandleStart
    \/ PrepareStep
    \/ StartReplies

NetworkFault ==
    \/ PostFails
    \/ PollFails
    \/ StartFails
    \/ CookieLapses
    \/ SessionExpires

Visitor ==
    \/ Reload
    \/ PersistDraft
    \/ Type
    \/ Erase
    \/ requestSubmit

\* What the error page and the guard page offer.
Recover ==
    \/ Open
    \/ retryPendingRecovery
    \/ ReloadAfterError

Next ==
    \/ RoutineStep
    \/ PollTimeout
    \/ NetworkFault
    \/ Visitor
    \/ Recover
    \/ \E r \in Rids : ProcessJob(r)
    \/ \E a \in wire : LateAnswer(a)
    \/ LateStart

Spec == Init /\ [][Next]_vars

\* A call is answered or times out, polling ends when its time is up, and a
\* visitor in front of an error or a guard page follows what it offers.
FairSpec ==
    /\ Spec
    /\ WF_vars(RoutineStep)
    /\ WF_vars(PollTimeout)
    /\ WF_vars(Open) /\ WF_vars(retryPendingRecovery \/ ReloadAfterError)

-----------------------------------------------------------------------------
(* Properties.                                                             *)

\* The types of the variables; a page without a routine is at rest, and the
\* phases that wait have one.
TypeOK ==
    /\ turn \in 0 .. Over /\ left \in 0 .. NTurns /\ jobs \in [Rids -> Job]
    /\ expired \in BOOLEAN /\ access \in BOOLEAN
    /\ wire \subseteq [rid : Rids, turn : Turns]
    /\ lateStarts \in [sent : 0 .. MaxFaults, read : 0 .. MaxFaults]
    /\ pending \in Pending /\ drafts \subseteq Turns
    /\ phase \in Phases /\ question \in Turns \cup {0} /\ code \in Codes /\ text \in BOOLEAN
    /\ run \in Routine
    /\ lastRid \in 0 .. MaxSubmits /\ faults \in 0 .. MaxFaults /\ forced \in BOOLEAN
    /\ (run.kind = "boot") = (phase = "loading")
    /\ (run.kind = "submit") = (phase = "submitting")

\* The answers of a turn that the server has yet to settle, or may yet receive.
OpenAnswers(t) ==
    {r \in Rids : \/ jobs[r].status = "queued" /\ jobs[r].turn = t
                  \/ jobs[r].status = "none" /\ [rid |-> r, turn |-> t] \in wire}

\* However calls are lost, delayed or repeated and the page reloaded, a turn
\* has one answer on its way to a verdict at a time: the pending answer comes
\* back under its own request id.  Only a page that lost its access lets go of
\* an answer whose fate it does not know.
OneAnswerInFlight ==
    forced \/ \A t \in Turns : Cardinality(OpenAnswers(t)) <= 1

\* A pending answer with a job id names a job of the server for its turn, and a
\* page that asks a question has no answer pending: one is kept only while the
\* routine or a later recovery has still to find out what became of it.
PendingIsKnown ==
    /\ pending.jobId => jobs[pending.rid].status # "none" /\ jobs[pending.rid].turn = pending.turn
    /\ phase = "active" => pending = NoPending

\* What the visitor typed for a turn, in localStorage or in the text box.
Typed(t) == t \in drafts \/ (phase = "active" /\ question = t /\ text)

\* What the visitor typed for the turn that the server still waits for is not lost,
\* whatever is lost, delayed or repeated: it is in the text box of the turn or in
\* localStorage.  Two exceptions are the code's own: the visitor empties the box,
\* and a reload strikes after a mount has cleared the draft it read and before the
\* box, rendered with it, stores it again.
DraftKept ==
    [][\A t \in Turns : Typed(t) =>
          \/ Typed(t)'
          \/ turn > t
          \/ left = 0
          \/ Erase
          \/ (Reload /\ t \notin drafts)]_vars

\* Submitting, polling and booting come to an end, whatever the server does:
\* the page never waits for ever.
RoutinesEnd == phase \in {"loading", "submitting"} ~> phase \notin {"loading", "submitting"}

\* The pending answer of a job that failed: no recovery gets past it.
DeadPending == pending.jobId /\ jobs[pending.rid].status = "failed"

\* Where the server settles every job, a visitor who follows what the page
\* offers gets from an error to a question or to the end of the interview,
\* unless the session expires or the pending answer belongs to a failed job.
EventuallyUsable ==
    (\A r \in Rids : []<>(jobs[r].status # "queued")) =>
        (phase = "error" ~> (phase \in {"active", "done"} \/ expired \/ DeadPending))

=============================================================================
