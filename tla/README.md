# A TLA+ model of Afirmativo

Afirmativo runs practice interviews for asylum seekers.  A user pays (or redeems a
coupon), gets a session code and a PIN, answers questions chosen by an AI, and asks
for a report.  A Go backend keeps everything in PostgreSQL; a Next.js frontend talks
to it.  This directory models the parts where requests, worker goroutines, recovery
loops, Stripe, a page that is reloaded and crashes meet on shared rows, tables in memory
and local storage.

- [The system](#the-system)
- [Modules and the code they model](#modules-and-the-code-they-model)
- [Runs](#runs)
- [Fairness](#fairness)
- [Proofs](#proofs)
- [Where the code and its documentation disagree](#where-the-code-and-its-documentation-disagree)
- [What is not modelled](#what-is-not-modelled)
- [Plan](#plan)

Paths below are relative to `src/backend/internal/` unless they start with `frontend/`.

## The system

| Component | State | Operations | Talks to |
|---|---|---|---|
| Interview flow (`interview/service*.go`, `postgres_flow.go`, `postgres_criterion.go`, `postgres_areas.go`) | `sessions` row: status, flow step, expected turn id, active question, question number, lapsed seconds; `question_areas`; `answers`; `interview_events` | start or resume, apply a turn (four steps: disclaimer, readiness, criterion, done), finish, time out | session service, AI client, job workers |
| Answer jobs (`interview/service_async_*.go`, `postgres_async.go`) | `interview_answer_jobs` rows, the hint channel, worker goroutines | submit (idempotent by client request id), claim by hint or from the table, retry, mark, recover | interview flow, browser polls |
| Turn policy (`interview/domain.go`, `service_turn_policy.go`, `service_timing.go`) | none | stay or leave an area, next area, time left | interview flow |
| Payments (`payment/`) | `payments` row under `FOR UPDATE`, sessions and coupons created from it | checkout, webhook, poll, provision, reveal the PIN | Stripe, browser, session store |
| Reports (`report/`) | `reports` row, hint channel, workers | request, claim, generate, mark, recover | session and interview stores, AI client |
| Sessions and PINs (`session/`) | `sessions`, `coupons` | claim a coupon, create, verify the PIN, start, complete | lockout limiter, tokens |
| Rate limits and tokens (`shared/ratelimit.go`, `shared/auth.go`) | in-memory tables behind a mutex; JWTs in cookies | allow, register a failure, reset, evict; mint, check | every handler |
| Admin cleanup (`admin/`) | none of its own | delete old sessions | sessions and all their rows |
| Interview page (`frontend/src/app/interview/[code]/`) | reducer state, one asynchronous routine, pending answer and drafts in local storage | boot, recover, answer, poll, give up, retry | answer jobs |
| Vertex client (`vertexai/`, `report/aiclient_vertex.go`, `interview/aiclient_vertex.go`) | access token behind a mutex, record of the cached content behind a lock, singleflight group | obtain a token, see to the cached content, generate | report and answer workers, Google's API |
| Voice (`voice/`, recorder hooks) | recorder state machine | record, transcribe | interview page |
| Configuration, server wiring, generated bindings | | | |

What is hard about it:

- **Reads and writes of a turn are far apart.**  A worker reads the session, the flow
  pointer, the areas and the current area in four statements, calls an AI for seconds,
  and then commits a plan made from that snapshot.  Only the commit is locked.
- **Starting is not atomic.**  `StartInterview` is a sequence of unlocked statements
  that ends with an unconditional update of the flow pointer; a reload runs two of them.
- **Jobs run more than once.**  Hints are dropped, workers die, a job is requeued as
  stale while its worker is still storing the outcome, terminal updates are keyed by id
  only, and three things compete for one attempt counter.
- **Finishing is several statements** (areas, flow, session), each of which can fail
  alone; some errors are only logged.
- **Time is rounded twice**, downwards in Go for the check and to the nearest second
  in SQL for the account.
- **Stripe repeats itself**, and its webhook races the customer's success page; the
  PIN must be shown once, and COMMIT replies get lost.
- **The lockout is three critical sections** (allow, register, reset) with a database
  read and a slow hash between them; the access check after it reads no row at all.
- **The page forgets everything but its local storage** at a reload, while what it sent
  is still on its way.
- **The Vertex cache has four clocks in it**: the API's, the server's, the margin, and
  the time a call takes.

The hazards are listed one by one, with their lines and the properties that
watch them, in `PROJECT.json`.

## Modules and the code they model

| Module | Models | Notes |
|---|---|---|
| `TurnPolicy` | the pure decisions of `interview/domain.go` and the timing helpers | an area is its position in the configured order; times are half seconds, so the two roundings differ |
| `Interview` | one session: flow, areas, answers, jobs, hints, workers, start requests, recovery, restart | one step per database statement or transaction; `snap` holds what a worker read |
| `TurnLedger` | what the interview promises about turns | abstract: issue, apply, close |
| `Payment` | one payment: row and lock, checkout request, Stripe, deliveries, polls | a transaction that reads under the lock and then writes takes two steps |
| `ReportJobs` | one session's report: row, requests, workers, recovery | the interview appears as a number of answers, which grows before and after its end, and a completed flag; a worker's three reads are three steps |
| `RateLimit` | the lockout table and the token bucket, as functions of a table, a key and a time | used by `SessionAccess` |
| `SessionAccess` | one coupon and the sessions made from it, verify requests, both limiters, cookies, the administrator's cleanup | one step per statement or critical section |
| `InterviewPage` | one browser tab, what it keeps in local storage, and the server as the tab sees it | one step from await to await |
| `VertexClient` | the token source, the cached content of one prompt, the callers | the API is external |
| `InterviewTypes`, `InterviewProofs`, `InterviewOutcomes`, `PaymentProofs`, `ReportProofs`, `SessionProofs`, `PageProofs`, `VertexProofs` | theorems and proofs | |
| `MCInterview`, `MCPayment`, `MCReportJobs`, `MCSessionAccess`, `MCInterviewPage`, `MCVertexClient` | symmetry sets for TLC | |

### Interview

The row variables are `status`, `flow` (step, expected turn, question number, area,
issue time), `lapsed`, `areaStatus`, `areaCount`, `answers` and `events`; the job table
is `jobs`, the channel `hints`.  A worker has a program counter `pc`, its job, its
snapshot, its plan, the areas it still has to mark (`todo`) and its outcome; a start
request has `spc` and what it read.  A turn id is a number from the counter `nextTurn`:
the code draws random ids that never repeat.

A worker goes `idle -> session -> flow -> areas -> current` (`buildTurnSnapshot`), is
routed by `processTurnCore` (turn conflict, time-out, no current area, or the handler of
its step), goes through `evaluate` and `opening` (AI calls with retries), and commits in
`advance` (`AdvanceNonCriterionStep`) or `commit` (`ProcessCriterionTurn`), which
compare the locked row with the turn id once more.  `timeout`, `flowdone` and `complete`
are the statements of `finishOnTimeout` and `finishSession`; `mark` is the terminal
update of the job.

Failures are injected under a kind: `read` (a SELECT or a request fails), `tx` (a
transaction rolls back, or its reply is lost), `complete` (`CompleteSession` fails),
`mark` (a terminal update, or `MarkFlowDone`, fails), `crash` (a worker or the process
dies, or its job's deadline passes: the terminal update shares that deadline, so the
row stays running), `stale` (a job is requeued under a worker that still runs it: the
configuration only enforces `StaleAfter >= JobTimeout`, both default to 180 s, and one
is measured by the database's clock and the other by the server's).  The AI may
always fail.  `FaultKinds` and `MaxFaults` bound them.

### Payment

The customer may pay the stored amount or another one; Stripe may deliver the event
several times, concurrently with polls.  `Unlocked` is the `FOR UPDATE` lock: an update
of the row waits for it too.  `MarkPaymentFailed` ignores its own error in
`CreateCheckout`, which the model keeps.

### ReportJobs

Answers do not stop when the session is completed: `ProcessCriterionTurn` locks the flow
and looks at the turn, never at the session's status, and the run `restart` shows how an
answer gets there late.  So `StoreAnswer` has no guard but its bound.  `buildReportInput`
reads the areas, the answers and the number of answers in three statements, each of which
sees what was stored so far (`Reads`).  What a ready report promises is therefore relative to
the end (`atEnd`): it misses no answer the session had when it was completed, and the
three reads never see fewer answers than the one before.  A late answer may be missing
from the report, or be counted and not be in its text.  A row in the legacy status
`generating` is one of the initial states.

### SessionAccess

`uses` is the committed count of the coupon, `holder` the transaction that has locked
its row, `sessions` the rows made from it.  A verify request goes through the token
bucket (`Wrap`), the lockout (`allowVerifyAttempt`), the row and the PIN
(`VerifySession`), and then registers a failure, or resets the table and mints a token.
Between any two of these other requests run, the clock ticks, the server restarts (its
tables are in memory) or the administrator deletes the session.  The reply may be lost,
so that a cookie is minted and never set.

`evictStaleLocked` may delete entries without failures and without a lock; which, and
when, is left open.  `NothingToEvict` shows that there are none: every call leaves an
entry with something in it, or deletes it.  The eviction therefore never frees room
when the table is full of recent failures, and it cannot forget a lock.

`recent` and `quota` are history: they say what the limiters are measured against and
no action reads them.  `recent` holds the wrong PINs of a key over the last `Span` ticks,
the shorter of the window and the lock; nothing in `config.go:329-335` relates the two
settings, and where the lock is the shorter one a single window may hold the failures of
several.  A right PIN empties it, as `resetVerifyAttempt` empties the table, and so does a
restart.  `GuessesBounded` is about the stretches between these.

The code keeps the failures of a key in a slice, filters it by time and looks at its
length.  The model keeps a bag of times: a set of stamps `<<t, n>>`, the n-th failure of
tick t (`Stamped`, `Since`).  A filter over a sequence would be recursive, and nothing
could be proved of it.

### InterviewPage

The page is its phase, its question and its error code.  `run` is the asynchronous
routine under way, `boot` or `submit`, with what it awaits: `post` (answer-async),
`poll` (the job), `start`, `issue` (start has read that no question is active), or the
`reply` of start on its way back.  A reload throws the routine away; an answer it had
sent goes to `wire`, a start to `lateStarts`, and arrives later or never.

The server settles each job once, with one of the outcomes of `processTurnCore`
(`ProcessJob`): the turn is committed (`CommitTurn`), whatever the job is then said to
have come to; the time is up or no area is left, and a job succeeds with the end of the
interview while its turn stays (`finishOnTimeout`); the flow is done already (`FlowDone`);
or nothing is applied (`NotApplied`).  A stale requeue that settles a job a second time is
`Interview`'s subject and is not in the page's server.

`text` says that the text box of the question is not empty, `drafts` which turns have a
draft.  The effects of `useAnswerDraft` follow the box.  When a question is mounted (`Ask`)
they run on a box that is still empty: other turns' drafts are cleared as stale, the own
draft is read into the box, and is cleared because the box has not been rendered yet.
`PersistDraft` stores it again with the next rendering; a reload between the two loses it.
`Type` and `Erase` are the visitor's.  The disclaimer is a panel without a box and
without these effects; the model gives a box to every question.

What the error page offers depends on the code (`InterviewErrorState`): a retry or a reload
for a pending answer that may be recovered, a reload for a code that a reload gets past,
and otherwise the way through the PIN (`retryPendingRecovery`, `ReloadAfterError`,
`Open`).  The browser's own reload is there always and counts as a fault (`Reload`).

Turns are numbered as they are issued: by the first start, by each answer, and by a start
that was cut off after it had read that there was none (`LateStart`).  Such a start forces
the flow back to the disclaimer, so the page may show a question nobody expects any
more, and its answer ends in a conflict from which the page must find its way.

The error codes are those the page tells apart; `NoCode` is the empty string of
`extractErrorCode`.  A submission with the same request id
twice is the same job (`UpsertAnswerJob`).

### VertexClient

A caller is one `GenerateReport` or `GenerateTurn`.  Its call goes `lookup` (the record),
`do` (the singleflight group: lead or `wait`), then for each HTTP request `auth` (the
mutex), `exchange` and `issued` (a new token on its way), `sent` and `served` (the
answer on its way).  `token` keeps two expiries, the one the client believes in and the
one the token was issued with; `contents` holds when the API will really drop a content.
Time does not pass the timeout of an outstanding call.

The assumption `HttpTimeout <= TokenMargin` holds for the defaults (the timeout of the
HTTP client is `AI_TIMEOUT_SECONDS`, 30, and the margin 30 s).  The timeout can be
configured to be longer, and then `TokenOutlivesExchange` does not hold for an exchange
that takes longer than the margin.

## Runs

| Run | Asks | Bounds |
|---|---|---|
| `flow` | Over a whole interview, do question number and per-area counts agree with the rows? Is the question cap kept? | two areas of two questions, five jobs: enough to follow up, leave an area, fill the next one and finish; one worker |
| `race` | Are turns applied once, areas exclusive, answers stored where they belong, succeeded jobs truthful? Is `IInv` invariant? Does the machinery implement `TurnLedger`? | two workers, two starters, three jobs, two areas, one failure of any kind; no clock |
| `overrun` | Is the budget kept with both roundings, a completed interview quiet, a verdict final, when the time runs out under two workers? | two areas of one question, four jobs, a budget of one half-second instant, the session expires |
| `live` | Do jobs end, also without attempts left, and are finished interviews completed? | three jobs for the three steps, AI retries, two attempts, one failure of completion, marking, a crash or a stale requeue |
| `fulfilment` | Is a payment fulfilled once, only if paid, finally, and its PIN shown once? Is everyone who paid served? | one webhook with its redeliveries, two polls, two failures, the PIN's deadline passes |
| `report` | Does a ready report cover the interview? Do reports end? | two requests, two workers, two failures of any kind; one answer, stored before the end, after it, or between two reads |
| `access` | Is the coupon overdrawn? How many PINs can be tried, how many requests admitted? Does a lockout stand, does access end with the session? | two redemptions for one use, two requests of one address, two failures lock for two ticks, five instants, restarts |
| `page` | Does an answer travel under one request id at a time, is the pending answer what the page thinks, are drafts kept, do waits end, is there a way out of every error? | two answers to complete the interview, three submissions, three faults among lost calls, reloads, a lapsed cookie, an expired session |
| `vertex` | Is nothing expired used, nothing created twice, nobody left waiting? | two callers of the report and of the interview, five instants in which token and content expire, two contents, one failing call |
| `left_open`, `restart`, `report_requeued` | see [below](#where-the-code-and-its-documentation-disagree) | the smallest instances that show it |

Two of each actor are enough for the properties that compare two actors; the theorems
remove the bound for the properties they cover.  For the others (see the end of
[Proofs](#proofs)) the instance is all that is shown.  `MaxAttempts` is smaller than in
the code (5), so that exhaustion is within reach; the circuit breaker of `page` opens
after two failed polls.  In `access` a second of the code is a tick in which the bucket
regains one request, and the window and the lockout are two ticks: the shortest in which
a window can end while a lock stands (`GuessesBounded` was also checked with window and
lock of 3 and 2, 1 and 3, and 3 and 1 ticks).  In `vertex` the margins are one tick and the
lives two and three, so that each is crossed within the five instants, also by a call
that takes as long as it may.

`access` and `vertex` check for deadlock.  The other runs do not: a session may stop for
good when the user does, and the bounds stop the model.

The mutants in `PROJECT.json` replace one definition by a plausible mistake (a dropped
turn comparison, an off-by-one in the follow-up limit, the wrong rounding, a claim that
forgets started jobs, a lock not taken...), and each breaks the property it is listed for.

## Fairness

- Interview: weak fairness of each worker's own steps and of the recovery loop.  The
  code polls the table every two seconds (`asyncAnswerIdleClaimEvery`) whether or not
  it got a hint, and recovery has a ticker.  The AI call ends: it has a deadline.
  Users, start requests, the clock and failures promise nothing.
- Payment: strong fairness of each request's steps (PostgreSQL grants a row lock to a
  waiter, although the lock is taken and released many times), and weak fairness of
  redelivery as long as Stripe has not seen a 200.  Stripe retries for days.
  Customers, polls and failures promise nothing.
- Reports: weak fairness of each worker and of recovery, as for the interview.
- Page: weak fairness of the routine's own steps (a call is answered or times out) and
  of the end of polling, which the code measures; weak fairness of the visitor at an
  error or guard page, who does one of the things it offers.  Typing, submitting,
  reloading and faults promise nothing.  `EventuallyUsable` assumes that the server
  settles jobs, which is `JobsTerminate` of `Interview`.
- Vertex: strong fairness of each caller that has begun.  The mutex is taken and
  released while others wait; Go's mutex hands over to a waiter that has starved for a
  millisecond, and each HTTP call has a timeout.

A fault is never fair, and there are finitely many in a behaviour: the liveness
properties say that the system recovers once failures stop.

## Proofs

TLAPS proves, for every value of the constants that satisfies the `ASSUME`s (any number
of areas, workers, jobs, requests, retries and failures):

| Theorem | Statement |
|---|---|
| `TypeCorrect` (`InterviewTypes`) | `TypeOK`, with what a worker must hold at each point |
| `Inductive` | `IInv` |
| `TurnIsAppliedOnce`, `OneAreaInProgress`, `QuestionsStayCapped`, `LapsedStaysWithinBudget` | the invariants of the runs, from `IInv` |
| `VerdictsAreFinal`, `AnswersGoToTheirArea` | the action properties |
| `InterviewImplementsLedger` | `Spec => Ledger!Spec` |
| `CountersAgree`, `OutcomeInductive`, `SuccessIsTrue` (`InterviewOutcomes`) | counters agree with rows; a succeeded job did what it reports |
| `PaymentInductive`, `PaymentFulfilledOnce`, `PaymentFulfilledIfPaid`, `PinIsRevealedOnce`, `PaymentIsFinal` (`PaymentProofs`) | the payment's safety |
| `ReportInductive`, `ReadyReportsAreWhole` (`ReportProofs`) | a ready report misses nothing that was there at the end |
| `CouponInductive`, `CouponIsNotOverdrawn` (`SessionProofs`) | a coupon has as many sessions as uses, at most its limit |
| `TrailInductive`, `CookiesEndWithSession` | access ends with the session |
| `AdmissionIsRated`, `LocksAreServed` | what the bucket admits; a lock stands |
| `TableInductive`, `EvictionFindsNothing`, `AccessTyped` | the lockout table; nothing to evict; `TypeOK` |
| `GuessInductive`, `WrongPinsAreBounded` | wrong PINs in a span, whatever stalls |
| `PageInductive`, `PageTyped`, `OneAnswer`, `PendingKnown`, `DraftsKept` (`PageProofs`) | the page's safety |
| `VertexInductive`, `VertexTypes`, `TokensAreAlive`, `NamesAreAlive`, `CreationWhenStale` (`VertexProofs`) | the Vertex client's safety |

**The interview's argument is about turn ids.**  A step either leaves the flow pointer
alone, puts an id on it that no job can carry yet, or clears it (`FlowMoves`).  So if
a worker's job still answers the expected turn, nothing was committed since the worker
read its snapshot (`SnapInv`): lapsed seconds, question count and area in progress are
what it read, although none of them is locked.  `PlanInv` records what the routing
established before the AI was called, `OpenInv` that the first area is opened once and
never becomes reachable again (this is why a restart cannot open a second area),
`AreaInv` that an area in progress has questions left.  The safety properties are
not inductive alone: `QuestionsCapped` needs the snapshot to be current when the turn
commits, and that needs the turn ids.  The budget theorem also uses the arithmetic
of the two roundings: an answer that passes the truncating check leaves at least one
second, and rounding adds at most that, whatever the answer limit.

**The counters and outcomes rest on that.**  A worker computes the question number and
the count of an area from its snapshot.  `CountersAgree` needs no invariant of its own:
when the transaction commits its turn is expected, so the snapshot is true, and one is
added to a number that agrees.  `OutcomeInv` says that a success is earned: a job that has
succeeded, or a worker about to mark it so, has the turn's row behind it, and the
transaction that stored the row took the turn off the flow pointer.  Two jobs cannot
earn the same turn, and a job that reports the end has seen the session completed.
A stale worker that overwrites the status of a job with an outcome of its own is covered:
what it overwrites with was earned too.

**The payment's argument is about the lock.**  `LockInv`: the request between its two
steps holds the lock, and the row it read is still the row.  `PaidInv`: a request past
the amount check, and a row past `pending`, have a checkout paid in full behind them.

**The report's argument is an order** (`ReportInv`): answers only become more, their number
at the end is fixed when the session is completed, and a worker finds the session completed
before it reads the areas, the areas before the answers, and the answers before their
count.  So each read sees at least what the one before it saw, and the first at least what
there was at the end.

**The coupon's argument is the row lock**: while a redemption holds it nobody else
commits, so the count it read is the count it adds one to.  `Created` grows with `uses`,
and a new session takes a number none has.

**The argument for access is a trail** (`TrailInv`): the expiry of a row is set before
the row exists and never again, not even by its deletion; a request that is past the PIN
carries that expiry or an earlier one, and so does every cookie.  The theorem for the
bucket relates the tokens to what a full bucket would have after all that was admitted;
it multiplies constants, so its arithmetic is in lemmas of its own.  The theorem for
locks needs nothing of the table: it goes through what each operation does to an entry
that is locked now.

**The argument for wrong PINs counts requests by where they stall** (`GuessInv`, over
`TableInv`).  Let there be R requests, so R - 1 others.  While a key is unlocked, the wrong
PINs since any moment are at most the failures since that moment that the table holds,
the requests that have compared and are about to be counted, and R - 1 more, for those
that had passed an earlier lock's check and were never counted.  It has to hold for every
moment, not for the span alone, because the window moves and pruning forgets failures:
the time of a comparison is never later than that of its count.  When a failure locks the
key, everyone else is at most R - 1 requests between check and count, and while the key
is locked only these can compare (`Ahead`).  When the lock ends the span has left behind
everything from before it, for it is no longer than the lock, so that what remains is the
R - 1 of the next period.  Nor is it longer than the window, so the table has pruned
no failure that still counts.  Together: `MaxFailures + 2 (R - 1)`.

**The page's argument is that the pending answer is the one that matters** (`PageInv`).
While the routine submits or polls, its job is the pending answer.  What lets go of it is a
verdict, or the loss of access (`forced`), so an answer that is still open at the server
or on the wire is the pending one (`OpenInv`), through reloads, late posts and late
starts.  Nothing that the page shows, keeps or is told is of a turn beyond the last one
issued (`QuestionInv`), and a job that succeeded has moved the server past its turn or ended
the interview (`JobsInv`).  So a reply makes the page forget only drafts behind the server;
the one of the turn it shows is in the box, and what can be lost there is what the
visitor erases and what a reload strikes before it is stored again: `DraftsKept` shows that
these exceptions, which `DraftKept` names, are all there are.  `CountInv` bounds
the turns by the answers with a verdict and the faults spent, which keeps `turn` within
the type the model gives it.

**The Vertex client's argument is about lateness**: what the client believes of an
expiry is late by at most the time since the call began, and that is at most
`HttpTimeout`.  For the token the margin covers it; for cached content the answer says
when it ends.  `VertexInv` keeps these bounds for the record, the token and every answer
on its way, and that a flight is led only while the record is stale, so that the one who
creates is the only one who could have made the record fresh.

Assumptions on constants are sets of naturals and `AnswerTimeLimit <= InterviewBudget`,
which the configuration enforces at startup; for sessions also that there is a
finite, positive number of requests (window and lockout are any positive numbers); for
the Vertex client the timeouts named above.

Only model-checked: every liveness property (`JobsTerminate`, `EndedIsCompleted`,
`PaidIsProvisioned`, `ReportsTerminate`, `RoutinesEnd`, `EventuallyUsable`,
`CallsReturn`), since the prover has no fairness or `ENABLED`; and `CompletedIsQuiet`,
which does not hold in general (the run `restart` shows one exception, and an
injected failure of `MarkFlowDone` would be another).  Every other property of a passing
run is a theorem.  The inductive invariants were checked by TLC before they were proved:
`IInv` by the run `race`, the payment's and the report's by their runs, and the others
(`OutcomeInv`, `GuessInv` with `TableInv`, `PageInv`, `VertexInv`, `CouponInv`, `TrailInv`)
at the bounds of the runs `race`, `access`, `page` and `vertex`; `GuessInv` also with three
requests.

## Where the code and its documentation disagree

1. **An area stays in progress after a time-out** (`left_open`).  `finishOnTimeout`
   hands every unresolved area to `MarkAreaNotAssessed`; the SQL skips the one in
   progress.  `service_control_flow_test.go:135` expects it to be marked, on a fake store.
2. **A slow start reopens a completed interview** (`restart`).  The start checks the
   status first and updates the flow pointer last, unconditionally.
3. **A ready report is queued again** (`report_requeued`).  `SetReportQueued` does not
   compare the status; two requests that both read a failed or legacy row can requeue a
   report that became ready in between.

Seen while modelling, with no run of their own: `finishOnTimeout` completes the session
even when `MarkFlowDone` failed, so an answer submitted in time and processed later is
stored on a completed session (the `overrun` run injects no failure); a failure
after the last turn committed leaves the session open until the user sends another
answer (the `live` run leaves it out); the comment of `StartSession` in
`session/store.go:22` says it returns `ErrConflict` unless the session is `created`,
while the query also accepts `interviewing` and `active`, which reconnects rely on.

On the page: the pending answer of a job that failed (`INTERNAL_ERROR`, `FLOW_INVALID`)
is neither cleared nor followed by a start, so every reload polls the same failed job
and shows the same error.  `EventuallyUsable` names this exception (`DeadPending`); the
visitor is stuck on that browser until the session expires.  And a page that loses its
access gives up an answer whose fate it does not know, so that after a new login a
second answer of the same turn may be sent while the first is still being processed;
`OneAnswerInFlight` names it (`forced`), and the turn id makes one of the two a conflict.
Finally a mount clears the draft it has just read until the text is rendered
(`useAnswerDraft.ts:61`, on a box still empty); a reload or a crash of the browser at that
moment loses a draft whose turn is still open, which `DraftKept` excepts.

In a report: `StoreAnswer` has no guard, so an answer that a late worker stores after the
end may be missing from a report that was ready by then, or be in its count and not in its
text; no new report is made on account of it.

In the Vertex client: `parseExpireTime` falls back to a time reckoned from the arrival of
the answer if the API sends none or one it cannot parse; the record would then overstate
the content's life by up to the HTTP timeout, which is longer than the margin of 15 s.
The model takes the API's time.

## What is not modelled

- The text of prompts, questions, answers and reports, and the parsing of AI replies:
  the AI is a free choice of evaluation or failure.
- HTTP, JSON, cookies, JWT encoding, bcrypt, Stripe's signature check: library code.
- Other sessions.  They share workers and channels only, which is why hints may always
  be dropped; liveness does not depend on hints.
- `GET` endpoints that only read (`GetReport`, job status, session summary).
- Several server processes, except that workers may belong to any of them; a restart
  stops all of them at once, `Abandon` stops one.
- PDF export (not implemented in the code), configuration, telemetry.
- The page's countdown (an answer may be submitted at any time, as by the time-out
  dialog), a second tab of the same session, a full localStorage (the stores then clear
  everything of the interview and try once more), the voice recorder, and the polling of
  the report, which keeps nothing over a reload.
- The Vertex client with an API key, which takes no token, and prompts beyond one: their
  records and flights are independent.
- The children of a session that the administrator's cleanup deletes with it.

## Plan

1. The voice recorder's state machine (`useVoiceRecorder`, `useMediaRecorderCore`,
   `useWarmStream`), with the answer timer that completes a recording.
2. `InterviewPage` on top of `Interview` itself: the page's view of the server as a
   refinement of the job table, so that `ProcessJob` is no longer a module's own choice.
3. Proofs: with step 2, that the page's server is implemented by `Interview`; abstract
   specifications of the payment (paid, provisioned, revealed) and of the lockout (a
   counter of guesses), and that `Payment` and `SessionAccess` implement them.
4. Admin cleanup against running jobs and reports.
