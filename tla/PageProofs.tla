------------------------------ MODULE PageProofs ------------------------------
(***************************************************************************)
(* What the interview page never loses, proved for every value of the        *)
(* constants: an answer has one request on its way to a verdict, a pending    *)
(* answer with a job id names that job, and what was typed stays until the    *)
(* server has moved past its turn, the visitor erases it or a reload strikes   *)
(* between the mount of a question and its first rendering with the draft.    *)
(*                                                                         *)
(* The argument: while the routine sends or polls, the pending answer in       *)
(* localStorage is the answer it is about, and only a verdict of its job (or   *)
(* the loss of the access, which forced records) lets go of it.  So whatever    *)
(* answer is still open is the pending one.  Nothing the page holds is of a     *)
(* turn later than the last one issued, so what a stale reply makes the page    *)
(* forget belongs to a turn that the server has left behind.               *)
(***************************************************************************)
EXTENDS InterviewPage, FiniteSetTheorems, TLAPS

-----------------------------------------------------------------------------
(* The inductive invariant.                                                *)

\* The job has come to its end, whatever it is.
Verdict(r) == jobs[r].status \notin {"none", "queued"}

Settled == {r \in Rids : Verdict(r)}

\* What the routine holds at each of its awaits: the pending answer while it
\* sends and polls, an answer with a verdict or none when it goes on to start.
RoutineInv ==
    /\ run.kind = "none" => run = NoRoutine
    /\ run.kind = "boot" => run.await # "none"
    /\ run.kind = "submit" => run.await \in {"post", "poll"}
    /\ run.await \in {"post", "poll"} =>
         /\ pending = run.job
         /\ run.job.rid \in Rids /\ run.job.turn \in Turns
         /\ run.await = "poll" => run.job.jobId
    /\ run.await \in {"start", "issue", "reply"} =>
         /\ run.recoveryTerminalCode = NoCode => run.job = NoPending
         /\ run.job # NoPending => run.job.rid \in Rids /\ Verdict(run.job.rid)
         /\ pending \in {NoPending, run.job}

\* The pending answer is one that was given, for a turn that was asked; the
\* server and the wire know it under the same turn, and drafts are of no other.
PendingInv ==
    /\ pending # NoPending =>
         /\ pending.rid \in 1 .. lastRid
         /\ pending.turn \in Turns /\ pending.turn <= turn
         /\ drafts \subseteq {pending.turn}
         /\ jobs[pending.rid].status # "none" => jobs[pending.rid].turn = pending.turn
         /\ pending.jobId => jobs[pending.rid].status # "none"
         /\ \A a \in wire : a.rid = pending.rid => a.turn = pending.turn
    /\ phase = "active" => pending = NoPending

\* What the page shows, keeps or has been told is of a turn that was asked, and
\* a reply of start is not older than the drafts.
QuestionInv ==
    /\ phase = "active" => question \in Turns /\ question <= turn /\ drafts \subseteq {question}
    /\ \A t \in drafts : t <= turn
    /\ run.await = "reply" /\ run.refusal = NoCode =>
         \/ run.reply = Over /\ left = 0
         \/ run.reply \in Turns /\ run.reply <= turn /\ \A t \in drafts : t <= run.reply
    /\ turn = 0 \/ run.await = "issue" => lastRid = 0 /\ left > 0

\* Jobs and late answers are of request ids that were given out and of turns
\* that were asked; a success has moved the server past its turn or ended the interview.
JobsInv ==
    /\ \A r \in Rids : jobs[r].status # "none" =>
         r <= lastRid /\ jobs[r].turn \in Turns /\ jobs[r].turn <= turn
    /\ \A r \in Rids : jobs[r].status = "succeeded" =>
         /\ jobs[r].turn < turn \/ left = 0
         /\ jobs[r].next = Over \/ (jobs[r].next \in Turns /\ jobs[r].next <= turn)
    /\ \A a \in wire : a.rid <= lastRid /\ a.turn <= turn

\* An answer that is still open is the pending one.
OpenInv ==
    ~forced => \A t \in Turns, r \in Rids : r \in OpenAnswers(t) => r = pending.rid

\* Every turn was issued by an answer, by a start that a fault cut off, or by
\* the one start that found none.
CountInv ==
    /\ lateStarts.sent + lateStarts.read <= faults
    /\ turn + lateStarts.sent + lateStarts.read
         + (IF turn = 0 \/ run.await = "issue" THEN 1 ELSE 0)
         <= faults + Cardinality(Settled) + 1

PageInv ==
    /\ TypeOK
    /\ RoutineInv
    /\ PendingInv
    /\ QuestionInv
    /\ JobsInv
    /\ OpenInv
    /\ CountInv

-----------------------------------------------------------------------------
(* Jobs that have a verdict.                                               *)

\* As many jobs can be settled as request ids are given out.
LEMMA RidsFinite ==
    ASSUME NEW S \in SUBSET Rids
    PROVE  IsFiniteSet(S) /\ Cardinality(S) \in Nat /\ Cardinality(S) <= MaxSubmits
<1>1. IsFiniteSet(Rids) /\ Cardinality(Rids) = MaxSubmits
  BY FS_Interval, PageAssumption DEF Rids
<1> QED
  BY <1>1, FS_Subset, FS_CardinalityType

\* A turn number is never out of its bounds.
LEMMA TurnBounded ==
    ASSUME TypeOK, CountInv PROVE turn <= Over - 1 /\ (turn # 0 => turn \in Turns)
<1>1. Cardinality(Settled) \in Nat /\ Cardinality(Settled) <= MaxSubmits
  BY RidsFinite DEF Settled
<1>2. lateStarts.sent \in Nat /\ lateStarts.read \in Nat /\ faults \in Nat /\ faults <= MaxFaults
      /\ turn \in Nat
  BY PageAssumption DEF TypeOK, Over
<1> QED
  BY <1>1, <1>2, PageAssumption DEF CountInv, Over, Turns

\* Queueing a job settles none, settling one adds it.
LEMMA SettledQueued ==
    ASSUME TypeOK, NEW r \in Rids, NEW t, jobs' = Upserted(r, t)
    PROVE  Settled' = Settled
<1>1. ASSUME NEW q \in Rids PROVE Verdict(q)' <=> Verdict(q)
  BY DEF Verdict, TypeOK, Upserted, Job
<1> QED
  BY <1>1 DEF Settled

\* What every outcome of a job has in common: one verdict, on that job; a turn
\* issued, or none; and an interview that is over stays so.
LEMMA JobSettled ==
    ASSUME TypeOK, NEW r \in Rids, ProcessJob(r)
    PROVE  /\ jobs[r].status = "queued"
           /\ \E s \in {"succeeded", "conflict", "canceled", "failed"}, n \in 0 .. Over + 1 :
                /\ jobs' = [jobs EXCEPT ![r].status = s, ![r].next = n]
                /\ s # "succeeded" => n = 0
                /\ s = "succeeded" =>
                     \/ n = Over /\ jobs[r].turn = turn /\ turn' = turn + 1
                     \/ n = Over /\ left' = 0
                     \/ n = turn + 1 /\ jobs[r].turn = turn /\ turn' = turn + 1
           /\ turn' \in {turn, turn + 1}
           /\ left' \in {left, left - 1, 0} /\ (left = 0 => left' = 0)
           /\ UNCHANGED <<expired, access, wire, lateStarts, pending, drafts, phase, question, code,
                          text, run, lastRid, faults, forced>>
<1> USE PageAssumption
<1>1. /\ jobs[r].status = "queued"
      /\ UNCHANGED <<expired, access, wire, lateStarts, pending, drafts, phase, question, code,
                     text, run, lastRid, faults, forced>>
  BY DEF ProcessJob, wireVars, storageVars, pageVars
<1>2. jobs \in [Rids -> Job] /\ turn \in 0 .. Over /\ left \in Nat /\ Over \in Nat
  BY DEF TypeOK, Over
<1>3. ASSUME NEW s, NEW m \in 0 .. Over + 1, Settle(r, s, m)
      PROVE  \E n \in 0 .. Over + 1 :
               /\ jobs' = [jobs EXCEPT ![r].status = s, ![r].next = n]
               /\ s # "succeeded" => n = 0
               /\ s = "succeeded" => n = m
  <2>1. CASE s = "succeeded"
    <3>1. jobs' = [jobs EXCEPT ![r].status = s, ![r].next = m]
      BY <1>3, <2>1 DEF Settle
    <3> QED
      BY <2>1, <3>1
  <2>2. CASE s # "succeeded"
    <3>1. jobs' = [jobs EXCEPT ![r].status = s, ![r].next = 0] /\ 0 \in 0 .. Over + 1
      BY <1>2, <1>3, <2>2 DEF Settle
    <3> QED
      BY <2>2, <3>1
  <2> QED
    BY <2>1, <2>2
<1>4. CASE CommitTurn(r)
  <2> DEFINE m == IF left = 1 THEN Over ELSE turn + 1
  <2>1. PICK s \in {"succeeded", "conflict", "canceled", "failed"} : Settle(r, s, m)
    BY <1>4 DEF CommitTurn
  <2>2. jobs[r].turn = turn /\ turn' = turn + 1 /\ left' = IF left = 0 THEN 0 ELSE left - 1
    BY <1>4 DEF CommitTurn
  <2>3. m \in 0 .. Over + 1 /\ (m = Over \/ m = turn + 1)
    BY <1>2
  <2> HIDE DEF m
  <2>4. PICK n \in 0 .. Over + 1 :
          /\ jobs' = [jobs EXCEPT ![r].status = s, ![r].next = n]
          /\ s # "succeeded" => n = 0
          /\ s = "succeeded" => n = m
    BY <1>3, <2>1, <2>3
  <2>5. left' \in {left, left - 1, 0} /\ (left = 0 => left' = 0)
    BY <2>2
  <2> QED
    BY <1>1, <2>2, <2>3, <2>4, <2>5
<1>5. CASE finishOnTimeout(r) \/ FlowDone(r)
  <2>1. PICK s \in {"succeeded", "failed"} : Settle(r, s, Over)
    BY <1>5 DEF finishOnTimeout, FlowDone
  <2>2. turn' = turn /\ left' = 0
    BY <1>5 DEF finishOnTimeout, FlowDone
  <2>3. Over \in 0 .. Over + 1
    BY <1>2
  <2>4. PICK n \in 0 .. Over + 1 :
          /\ jobs' = [jobs EXCEPT ![r].status = s, ![r].next = n]
          /\ s # "succeeded" => n = 0
          /\ s = "succeeded" => n = Over
    BY <1>3, <2>1, <2>3
  <2> QED
    BY <1>1, <2>2, <2>4
<1>6. CASE NotApplied(r)
  <2>1. PICK s \in {"conflict", "canceled", "failed"} : Settle(r, s, 0)
    BY <1>6 DEF NotApplied
  <2>2. turn' = turn /\ left' = left
    BY <1>6 DEF NotApplied
  <2>3. 0 \in 0 .. Over + 1
    BY <1>2
  <2>4. PICK n \in 0 .. Over + 1 :
          /\ jobs' = [jobs EXCEPT ![r].status = s, ![r].next = n]
          /\ s # "succeeded" => n = 0
    BY <1>3, <2>1, <2>3
  <2> QED
    BY <1>1, <2>1, <2>2, <2>4
<1> QED
  BY <1>4, <1>5, <1>6 DEF ProcessJob

\* A verdict on a job is one verdict more.
LEMMA SettledMore ==
    ASSUME TypeOK, NEW r \in Rids, ProcessJob(r)
    PROVE  Cardinality(Settled') = Cardinality(Settled) + 1
<1>1. Settled' = Settled \cup {r} /\ r \notin Settled
  <2>1. PICK s \in {"succeeded", "conflict", "canceled", "failed"}, n \in 0 .. Over + 1 :
          jobs' = [jobs EXCEPT ![r].status = s, ![r].next = n]
    BY JobSettled
  <2>2. jobs[r].status = "queued"
    BY JobSettled
  <2>3. ~Verdict(r) /\ Verdict(r)'
    BY <2>1, <2>2 DEF Verdict, TypeOK, Job
  <2>4. ASSUME NEW q \in Rids, q # r PROVE Verdict(q)' <=> Verdict(q)
    BY <2>1, <2>4 DEF Verdict, TypeOK
  <2> QED
    BY <2>3, <2>4 DEF Settled
<1> QED
  BY <1>1, RidsFinite, FS_AddElement DEF Settled

-----------------------------------------------------------------------------
(* The server's steps.                                                     *)

\* The worker settles a job.
LEMMA ProcessJobStep ==
    ASSUME PageInv, NEW r \in Rids, ProcessJob(r) PROVE PageInv'
<1> USE PageAssumption
<1>1. /\ Cardinality(Settled) \in Nat /\ Cardinality(Settled') \in Nat
      /\ Cardinality(Settled') <= MaxSubmits
  <2>1. Settled \subseteq Rids /\ Settled' \subseteq Rids
    BY DEF Settled
  <2> QED
    BY <2>1, RidsFinite
<1>2. /\ jobs[r].status = "queued"
      /\ turn' \in {turn, turn + 1}
      /\ left' \in {left, left - 1, 0} /\ (left = 0 => left' = 0)
      /\ UNCHANGED <<expired, access, wire, lateStarts, pending, drafts, phase, question, code,
                     text, run, lastRid, faults, forced>>
  BY JobSettled DEF PageInv
<1>3. turn \in Nat /\ left \in 0 .. NTurns /\ faults \in 0 .. MaxFaults
      /\ lateStarts.sent \in Nat /\ lateStarts.read \in Nat /\ run.await = run'.await
  BY <1>2 DEF PageInv, TypeOK, Over
<1>4. ~(turn = 0 \/ run.await = "issue") /\ jobs[r].turn \in Turns
  <2>1. r <= lastRid /\ r >= 1 /\ jobs[r].turn \in Turns
    BY <1>2 DEF PageInv, JobsInv, Rids
  <2> QED
    BY <2>1 DEF PageInv, QuestionInv, Rids
<1>5. PICK u \in Nat : turn' = u /\ u \in {turn, turn + 1} /\ turn <= u
  BY <1>2, <1>3
<1>6. PICK l \in 0 .. NTurns : left' = l /\ (left = 0 => l = 0)
  BY <1>2, <1>3
<1>7. Cardinality(Settled') = Cardinality(Settled) + 1
  BY SettledMore DEF PageInv
<1>8. /\ lateStarts.sent + lateStarts.read <= faults
      /\ turn + lateStarts.sent + lateStarts.read + 0 <= faults + Cardinality(Settled) + 1
  BY <1>4 DEF PageInv, CountInv
<1>9. u <= Over - 1
  BY <1>1, <1>3, <1>5, <1>7, <1>8 DEF Over
<1>10. CountInv'
  <2>1. u # 0
    BY <1>3, <1>4, <1>5
  <2>2. u + lateStarts.sent + lateStarts.read <= faults + Cardinality(Settled') + 1
    BY <1>1, <1>3, <1>5, <1>7, <1>8
  <2> QED
    BY <1>1, <1>2, <1>3, <1>4, <1>5, <1>8, <2>1, <2>2 DEF CountInv
<1>11. PICK s \in {"succeeded", "conflict", "canceled", "failed"}, n \in 0 .. Over + 1 :
         /\ jobs' = [jobs EXCEPT ![r].status = s, ![r].next = n]
         /\ s # "succeeded" => n = 0
         /\ s = "succeeded" =>
              \/ n = Over /\ jobs[r].turn = turn /\ turn' = turn + 1
              \/ n = Over /\ left' = 0
              \/ n = turn + 1 /\ jobs[r].turn = turn /\ turn' = turn + 1
         /\ n \in 0 .. Over
  <2>1. PICK s \in {"succeeded", "conflict", "canceled", "failed"}, n \in 0 .. Over + 1 :
         /\ jobs' = [jobs EXCEPT ![r].status = s, ![r].next = n]
         /\ s # "succeeded" => n = 0
         /\ s = "succeeded" =>
              \/ n = Over /\ jobs[r].turn = turn /\ turn' = turn + 1
              \/ n = Over /\ left' = 0
              \/ n = turn + 1 /\ jobs[r].turn = turn /\ turn' = turn + 1
    BY JobSettled DEF PageInv
  <2>2. n \in 0 .. Over
    <3>1. CASE s = "succeeded"
      <4>1. n = Over \/ (n = turn + 1 /\ turn' = turn + 1)
        BY <2>1, <3>1
      <4> QED
        BY <1>3, <1>5, <1>9, <4>1 DEF Over
    <3>2. CASE s # "succeeded"
      BY <2>1, <3>2 DEF Over
    <3> QED
      BY <3>1, <3>2
  <2> QED
    BY <2>1, <2>2
<1>12. ASSUME NEW q \in Rids
       PROVE  /\ jobs'[q].turn = jobs[q].turn
              /\ jobs'[q].status = "none" <=> jobs[q].status = "none"
              /\ q # r => jobs'[q] = jobs[q]
  BY <1>2, <1>11 DEF PageInv, TypeOK, Job
<1>13. TypeOK'
  <2>1. jobs' \in [Rids -> Job]
    BY <1>11 DEF PageInv, TypeOK, Job, Statuses
  <2>2. turn' \in 0 .. Over /\ left' \in 0 .. NTurns
    BY <1>5, <1>6, <1>9 DEF Over
  <2> QED
    BY <1>2, <2>1, <2>2 DEF PageInv, TypeOK
<1>14. RoutineInv'
  <2>1. ASSUME NEW q \in Rids, Verdict(q) PROVE Verdict(q)'
    BY <1>2, <1>12, <2>1 DEF Verdict
  <2> QED
    BY <1>2, <2>1 DEF PageInv, RoutineInv
<1>15. PendingInv'
  <2>1. pending.turn \in Int
    BY DEF PageInv, TypeOK, Pending, Turns
  <2>2. pending # NoPending => pending.rid \in Rids /\ pending.turn <= u
    BY <1>3, <1>5, <2>1 DEF PageInv, PendingInv, TypeOK, Rids
  <2> QED
    BY <1>2, <1>5, <1>12, <2>2 DEF PageInv, PendingInv
<1>16. QuestionInv'
  <2>1. drafts \subseteq Int /\ question \in Int /\ run.reply \in Int
    BY DEF PageInv, TypeOK, Routine, Turns, Over
  <2>2. u # 0 /\ run'.await # "issue"
    BY <1>2, <1>3, <1>4, <1>5
  <2>3. \A t \in drafts : t <= u
    BY <1>3, <1>5, <2>1 DEF PageInv, QuestionInv
  <2>4. phase = "active" => question \in Turns /\ question <= u /\ drafts \subseteq {question}
    BY <1>3, <1>5, <2>1 DEF PageInv, QuestionInv
  <2>5. run.await = "reply" /\ run.refusal = NoCode =>
          \/ run.reply = Over /\ l = 0
          \/ run.reply \in Turns /\ run.reply <= u /\ \A t \in drafts : t <= run.reply
    BY <1>3, <1>5, <1>6, <2>1 DEF PageInv, QuestionInv
  <2> QED
    BY <1>2, <1>5, <1>6, <2>2, <2>3, <2>4, <2>5 DEF QuestionInv
<1>17. JobsInv'
  <2>1. ASSUME NEW q \in Rids, jobs'[q].status # "none"
        PROVE  q <= lastRid /\ jobs'[q].turn \in Turns /\ jobs'[q].turn <= u
    <3>1. q <= lastRid /\ jobs[q].turn \in Turns /\ jobs[q].turn <= turn
      BY <1>12, <2>1 DEF PageInv, JobsInv
    <3> QED
      BY <1>3, <1>5, <1>12, <3>1 DEF Turns
  <2>2. ASSUME NEW q \in Rids, jobs'[q].status = "succeeded"
        PROVE  /\ jobs'[q].turn < u \/ l = 0
               /\ jobs'[q].next = Over \/ (jobs'[q].next \in Turns /\ jobs'[q].next <= u)
    <3>1. CASE q # r
      <4>1. jobs'[q] = jobs[q] /\ jobs[q].status = "succeeded"
        BY <1>12, <2>2, <3>1
      <4>2. /\ jobs[q].turn \in Turns /\ (jobs[q].turn < turn \/ left = 0)
            /\ jobs[q].next = Over \/ (jobs[q].next \in Turns /\ jobs[q].next <= turn)
        BY <4>1 DEF PageInv, JobsInv
      <4> QED
        BY <1>3, <1>5, <1>6, <4>1, <4>2 DEF Turns
    <3>2. CASE q = r
      <4>1. s = "succeeded" /\ jobs'[r].turn = jobs[r].turn /\ jobs'[r].next = n
        BY <1>11, <2>2, <3>2 DEF PageInv, TypeOK
      <4>2. \/ n = Over /\ jobs[r].turn = turn /\ u = turn + 1
            \/ n = Over /\ l = 0
            \/ n = turn + 1 /\ jobs[r].turn = turn /\ u = turn + 1
        BY <1>5, <1>6, <1>11, <4>1
      <4>3. turn + 1 = u => u \in Turns
        BY <1>3, <1>9 DEF Turns, Over
      <4> QED
        BY <1>3, <3>2, <4>1, <4>2, <4>3
    <3> QED
      BY <3>1, <3>2
  <2>3. ASSUME NEW a \in wire PROVE a.rid <= lastRid /\ a.turn <= u
    <3>1. a.turn \in Int
      BY DEF PageInv, TypeOK, Turns
    <3> QED
      BY <1>3, <1>5, <3>1 DEF PageInv, JobsInv
  <2> QED
    BY <1>2, <1>5, <1>6, <2>1, <2>2, <2>3 DEF JobsInv
<1>18. OpenInv'
  <2> SUFFICES ASSUME ~forced, NEW t \in Turns, NEW q \in Rids, q \in OpenAnswers(t)'
               PROVE  q = pending.rid
    BY <1>2 DEF OpenInv
  <2>1. q # r
    BY <1>11 DEF OpenAnswers, PageInv, TypeOK
  <2>2. q \in OpenAnswers(t)
    BY <1>2, <1>12, <2>1 DEF OpenAnswers
  <2> QED
    BY <2>2 DEF PageInv, OpenInv
<1> QED
  BY <1>10, <1>13, <1>14, <1>15, <1>16, <1>17, <1>18 DEF PageInv

\* A late answer is queued under the turn it was sent for, or comes to nothing.
LEMMA LateAnswerStep ==
    ASSUME PageInv, NEW a \in wire, LateAnswer(a) PROVE PageInv'
<1> USE PageAssumption
<1>1. a.rid \in Rids /\ a.turn \in Turns /\ a = [rid |-> a.rid, turn |-> a.turn]
      /\ a.rid <= lastRid /\ a.turn <= turn
  BY DEF PageInv, TypeOK, JobsInv
<1>2. CASE jobs' = Upserted(a.rid, a.turn)
  <2>1. UNCHANGED <<turn, left, expired, access, lateStarts, storageVars, pageVars, run, lastRid,
                    faults, forced>> /\ wire' = wire \ {a}
    BY DEF LateAnswer
  <2>2. TypeOK'
    BY <1>1, <1>2, <2>1
    DEF PageInv, TypeOK, Upserted, storageVars, pageVars, Job, Statuses, Over
  <2>3. Settled' = Settled
    BY <1>1, <1>2, SettledQueued DEF PageInv
  <2>4. RoutineInv'
    <3>1. ASSUME NEW q \in Rids, Verdict(q) PROVE Verdict(q)'
      BY <1>1, <1>2, <3>1 DEF PageInv, Verdict, TypeOK, Upserted, Job
    <3> QED
      BY <2>1, <3>1 DEF PageInv, RoutineInv, storageVars, pageVars
  <2>5. ASSUME NEW q \in Rids
        PROVE  /\ jobs[q].status # "none" => jobs'[q] = jobs[q]
               /\ q # a.rid => jobs'[q] = jobs[q]
               /\ jobs[a.rid].status = "none" =>
                    jobs'[a.rid] = [turn |-> a.turn, status |-> "queued", next |-> 0]
    BY <1>1, <1>2 DEF PageInv, TypeOK, Upserted, Job
  <2>6. PendingInv'
    <3>1. pending # NoPending => pending.rid \in Rids
      BY DEF PageInv, PendingInv, TypeOK, Rids
    <3>2. turn' = turn
      BY <2>1
    <3> QED
      BY <1>1, <2>1, <2>5, <3>1, <3>2 DEF PageInv, PendingInv, storageVars, pageVars
  <2>7. QuestionInv'
    BY <2>1 DEF PageInv, QuestionInv, storageVars, pageVars
  <2>8. JobsInv'
    BY <1>1, <2>1, <2>5 DEF PageInv, JobsInv
  <2>9. OpenInv'
    <3> SUFFICES ASSUME ~forced', NEW t \in Turns, NEW r \in Rids, r \in OpenAnswers(t)'
                 PROVE  r = pending'.rid
      BY DEF OpenInv
    <3>1. CASE r = a.rid /\ jobs[r].status = "none"
      <4>1. r \in OpenAnswers(a.turn)
        BY <1>1, <3>1 DEF OpenAnswers
      <4> QED
        BY <1>1, <2>1, <4>1 DEF PageInv, OpenInv, storageVars
    <3>2. CASE ~(r = a.rid /\ jobs[r].status = "none")
      <4>1. r \in OpenAnswers(t)
        BY <2>1, <2>5, <3>2 DEF OpenAnswers
      <4> QED
        BY <2>1, <4>1 DEF PageInv, OpenInv, storageVars
    <3> QED
      BY <3>1, <3>2
  <2>10. CountInv'
    BY <2>1, <2>3 DEF PageInv, CountInv
  <2> QED
    BY <2>2, <2>4, <2>6, <2>7, <2>8, <2>9, <2>10 DEF PageInv
<1>3. CASE jobs' = jobs
  <2>1. UNCHANGED <<turn, left, jobs, expired, access, lateStarts, storageVars, pageVars, run,
                    lastRid, faults, forced>> /\ wire' = wire \ {a}
    BY <1>3 DEF LateAnswer
  <2>2. TypeOK' /\ RoutineInv' /\ PendingInv'
    BY <2>1 DEF PageInv, TypeOK, RoutineInv, PendingInv, Verdict, storageVars, pageVars
  <2>3. QuestionInv' /\ JobsInv'
    BY <2>1 DEF PageInv, QuestionInv, JobsInv, storageVars, pageVars
  <2>4. OpenInv'
    BY <2>1 DEF PageInv, OpenInv, OpenAnswers, storageVars
  <2>5. CountInv'
    BY <2>1 DEF PageInv, CountInv, Settled, Verdict
  <2> QED
    BY <2>2, <2>3, <2>4, <2>5 DEF PageInv
<1> QED
  BY <1>2, <1>3 DEF LateAnswer

\* The server issues turns and touches nothing else that the page knows of.
LEMMA TurnsIssued ==
    ASSUME PageInv, CountInv',
           UNCHANGED <<jobs, expired, access, wire, pending, drafts, phase, question, code, text, lastRid,
                       faults, forced, run>>,
           lateStarts' \in [sent : Nat, read : Nat],
           NEW t \in Nat, turn' = t, turn <= t,
           NEW l \in 0 .. NTurns, left' = l, left = 0 <=> l = 0
    PROVE  PageInv'
<1> USE PageAssumption
<1>1. turn' <= Over - 1
  <2>1. Cardinality(Settled') \in Nat /\ Cardinality(Settled') <= MaxSubmits
    <3>1. Settled' \subseteq Rids
      BY DEF Settled
    <3> QED
      BY <3>1, RidsFinite
  <2> QED
    BY <2>1 DEF PageInv, TypeOK, CountInv, Over
<1>2. lateStarts' \in [sent : 0 .. MaxFaults, read : 0 .. MaxFaults]
  BY DEF PageInv, TypeOK, CountInv
<1>3. TypeOK'
  BY <1>1, <1>2 DEF PageInv, TypeOK, storageVars, pageVars, Over
<1>4. turn \in Int /\ turn' \in Int /\ turn <= turn'
  <2>1. turn \in Int
    BY DEF PageInv, TypeOK
  <2> QED
    BY <2>1
<1>5. RoutineInv'
  BY DEF PageInv, RoutineInv, Verdict, storageVars, pageVars
<1>6. PendingInv'
  <2>1. pending.turn \in Int
    BY DEF PageInv, TypeOK, Pending, Turns
  <2> QED
    BY <1>4, <2>1 DEF PageInv, PendingInv, storageVars, pageVars
<1>7. QuestionInv'
  <2>1. drafts \subseteq Int /\ question \in Int /\ run.reply \in Int
    BY DEF PageInv, TypeOK, Routine, Turns, Over
  <2>2. phase = "active" => question \in Turns /\ question <= turn' /\ drafts \subseteq {question}
    BY <1>4, <2>1 DEF PageInv, QuestionInv
  <2>3. run.await = "reply" /\ run.refusal = NoCode =>
          \/ run.reply = Over /\ left' = 0
          \/ run.reply \in Turns /\ run.reply <= turn' /\ \A d \in drafts : d <= run.reply
    BY <1>4, <2>1 DEF PageInv, QuestionInv
  <2>4. turn' = 0 \/ run.await = "issue" => lastRid = 0 /\ left' > 0
    BY DEF PageInv, QuestionInv, TypeOK
  <2>5. \A d \in drafts : d <= turn'
    BY <1>4, <2>1 DEF PageInv, QuestionInv
  <2> QED
    BY <2>2, <2>3, <2>4, <2>5 DEF QuestionInv, storageVars, pageVars
<1>8. JobsInv'
  <2>1. ASSUME NEW q \in Rids, jobs[q].status # "none"
        PROVE  q <= lastRid /\ jobs[q].turn \in Turns /\ jobs[q].turn <= turn'
    BY <1>4, <2>1 DEF PageInv, JobsInv, Turns
  <2>2. ASSUME NEW q \in Rids, jobs[q].status = "succeeded"
        PROVE  /\ jobs[q].turn < turn' \/ left' = 0
               /\ jobs[q].next = Over \/ (jobs[q].next \in Turns /\ jobs[q].next <= turn')
    <3>1. turn \in Int /\ jobs[q].turn \in Turns
      BY <2>2 DEF PageInv, JobsInv, TypeOK
    <3> QED
      BY <1>4, <2>2, <3>1 DEF PageInv, JobsInv, Turns
  <2>3. ASSUME NEW a \in wire PROVE a.rid <= lastRid /\ a.turn <= turn'
    <3>1. a.turn \in Int
      BY DEF PageInv, TypeOK, Turns
    <3> QED
      BY <1>4, <3>1 DEF PageInv, JobsInv
  <2> QED
    BY <2>1, <2>2, <2>3 DEF JobsInv
<1>9. OpenInv'
  BY DEF PageInv, OpenInv, OpenAnswers, storageVars
<1> QED
  BY <1>3, <1>5, <1>6, <1>7, <1>8, <1>9 DEF PageInv

\* A start that was cut off, or that lost its reply, takes effect when nobody waits for it.
LEMMA LateStartStep ==
    ASSUME PageInv, LateStart PROVE PageInv'
<1> USE PageAssumption
<1>1. Settled' = Settled
  BY DEF LateStart, Settled, Verdict
<1>2. Cardinality(Settled) \in Nat
  BY RidsFinite DEF Settled
<1>3. CountInv'
  BY <1>1, <1>2 DEF PageInv, CountInv, TypeOK, LateStart, Over
<1>4. lateStarts' \in [sent : Nat, read : Nat]
  BY DEF PageInv, TypeOK, LateStart
<1>5. PICK t \in Nat, l \in 0 .. NTurns :
        turn' = t /\ left' = l /\ turn <= t /\ (left = 0 <=> l = 0)
  <2>1. turn \in Nat /\ left \in 0 .. NTurns
    BY DEF PageInv, TypeOK, Over
  <2>2. CASE turn' = turn /\ left' = left
    BY <2>1, <2>2
  <2>3. CASE turn' = turn + 1 /\ left' = (IF left = 0 THEN 0 ELSE NTurns)
    BY <2>1, <2>3
  <2> QED
    BY <2>2, <2>3 DEF LateStart
<1>6. UNCHANGED <<jobs, expired, access, wire, pending, drafts, phase, question, code, text, lastRid,
                  faults, forced, run>>
  BY DEF LateStart, storageVars, pageVars
<1> QED
  BY <1>3, <1>4, <1>5, <1>6, TurnsIssued

\* The cookie lapses or the session expires.
LEMMA LapseStep ==
    ASSUME PageInv, CookieLapses \/ SessionExpires PROVE PageInv'
<1> USE PageAssumption
<1>1. /\ UNCHANGED <<turn, left, jobs, wireVars, storageVars, pageVars, run, lastRid, forced>>
      /\ access' \in BOOLEAN /\ expired' \in BOOLEAN /\ faults' = faults + 1 /\ faults < MaxFaults
  BY DEF PageInv, TypeOK, CookieLapses, SessionExpires, Fault
<1>2. TypeOK' /\ RoutineInv' /\ PendingInv'
  BY <1>1 DEF PageInv, TypeOK, RoutineInv, PendingInv, Verdict, storageVars, pageVars, wireVars
<1>3. QuestionInv' /\ JobsInv' /\ OpenInv'
  BY <1>1 DEF PageInv, QuestionInv, JobsInv, OpenInv, OpenAnswers, storageVars, pageVars, wireVars
<1>4. Settled' = Settled /\ Cardinality(Settled) \in Nat
  BY <1>1, RidsFinite DEF Settled, Verdict
<1>5. CountInv'
  BY <1>1, <1>4 DEF PageInv, CountInv, TypeOK, wireVars, Over
<1> QED
  BY <1>2, <1>3, <1>5 DEF PageInv

-----------------------------------------------------------------------------
(* What the page's steps are made of.                                      *)

\* A step that issues no turn and settles no job keeps the count.
LEMMA CountKept ==
    ASSUME PageInv, UNCHANGED <<turn, jobs, lateStarts>>,
           NEW f \in Nat, faults' = f, faults <= f,
           run'.await = "issue" => turn = 0 \/ run.await = "issue"
    PROVE  CountInv'
<1>1. Settled' = Settled /\ Cardinality(Settled) \in Nat
  BY RidsFinite DEF Settled, Verdict
<1>2. turn \in Nat /\ faults \in Nat /\ lateStarts.sent \in Nat /\ lateStarts.read \in Nat
  BY DEF PageInv, TypeOK
<1> QED
  BY <1>1, <1>2 DEF PageInv, CountInv

\* The requests of a routine that is cut off: its answer is the pending one, and
\* its start is paid for by the fault that cut it off.
LEMMA CutOffKeeps ==
    ASSUME PageInv, CutOff, UNCHANGED <<turn, jobs>>, run'.await # "issue",
           NEW f \in 0 .. MaxFaults, faults' = f,
           f = faults + 1 \/ (f = faults /\ run.await = "none")
    PROVE  /\ wire' \subseteq [rid : Rids, turn : Turns]
           /\ \A a \in wire' : a \in wire \/ (/\ pending # NoPending
                                              /\ a.rid = pending.rid /\ a.turn = pending.turn)
           /\ lateStarts' \in [sent : 0 .. MaxFaults, read : 0 .. MaxFaults]
           /\ CountInv'
<1> USE PageAssumption
<1>1. run.await = "post" => /\ run.job = pending /\ run.job.rid \in Rids /\ run.job.turn \in Turns
                            /\ pending # NoPending
  BY DEF PageInv, RoutineInv, NoPending, Rids
<1>2. wire' \subseteq [rid : Rids, turn : Turns]
  BY <1>1 DEF PageInv, TypeOK, CutOff, InFlight
<1>3. \A a \in wire' : a \in wire \/ (/\ pending # NoPending
                                     /\ a.rid = pending.rid /\ a.turn = pending.turn)
  BY <1>1 DEF CutOff, InFlight
<1>4. PICK m \in Nat, n \in Nat :
        /\ lateStarts' = [sent |-> m, read |-> n]
        /\ m = lateStarts.sent + (IF run.await = "start" /\ turn = 0 THEN 1 ELSE 0)
        /\ n = lateStarts.read + (IF run.await = "issue" THEN 1 ELSE 0)
  BY DEF PageInv, TypeOK, CutOff, StartsInFlight
<1>5. Settled' = Settled /\ Cardinality(Settled) \in Nat
  BY RidsFinite DEF Settled, Verdict
<1>6. turn \in Nat /\ faults \in Nat /\ lateStarts.sent \in Nat /\ lateStarts.read \in Nat
  BY DEF PageInv, TypeOK, Over
<1>7. m + n <= f
  BY <1>4, <1>6 DEF PageInv, CountInv
<1>8. turn + m + n + (IF turn = 0 THEN 1 ELSE 0) <= f + Cardinality(Settled) + 1
  BY <1>4, <1>5, <1>6 DEF PageInv, CountInv
<1>9. CountInv'
  BY <1>4, <1>5, <1>7, <1>8 DEF CountInv
<1> QED
  BY <1>2, <1>3, <1>4, <1>7, <1>9

\* What a routine at rest looks like, and one that goes on to start.
LEMMA NoRoutineTyped ==
    /\ NoRoutine \in Routine /\ NoPending \in Pending
    /\ NoRoutine.kind = "none" /\ NoRoutine.await = "none"
<1>1. NoPending \in Pending
  BY PageAssumption DEF NoPending, Pending
<1>2. 0 \in 0 .. BreakerFailures /\ 0 \in 0 .. Over /\ NoCode \in Codes
  BY PageAssumption DEF Over, Codes
<1> QED
  BY <1>1, <1>2 DEF NoRoutine, Routine

\* A recovery that goes on to start keeps its kind.
LEMMA GoesOnToStart ==
    ASSUME NEW r \in Routine, NEW c \in Codes
    PROVE  LET s == [r EXCEPT !.await = "start", !.recoveryTerminalCode = c]
           IN /\ s \in Routine /\ s.kind = r.kind /\ s.await = "start" /\ s.job = r.job
              /\ s.recoveryTerminalCode = c
BY DEF Routine

\* A routine that throws lets go of the pending answer only with a verdict or
\* for want of access, and otherwise leaves it to a recovery.
LEMMA ThrowsKeeps ==
    ASSUME PageInv, NEW c \in Codes, Throws(c), run.await \in {"post", "poll"},
           UNCHANGED <<turn, left, jobs, expired, access, lastRid>>,
           wire' \subseteq [rid : Rids, turn : Turns],
           \A a \in wire' : a \in wire \/ (/\ pending # NoPending
                                           /\ a.rid = pending.rid /\ a.turn = pending.turn),
           lateStarts' \in [sent : 0 .. MaxFaults, read : 0 .. MaxFaults],
           faults' \in 0 .. MaxFaults, CountInv',
           c \in {"TURN_CONFLICT", "AI_RETRY_EXHAUSTED"} => Verdict(run.job.rid)
    PROVE  PageInv'
<1>1. /\ pending = run.job /\ pending \in Pending /\ run \in Routine
      /\ pending.rid \in Rids /\ pending # NoPending
  BY DEF PageInv, TypeOK, RoutineInv, NoPending, Rids
<1>2. /\ pending' \in {pending, NoPending} /\ NoPending \in Pending
      /\ pending' # pending => forced' \/ Verdict(pending.rid)
      /\ forced' \in BOOLEAN /\ (forced => forced')
  <2>1. forced' = (forced \/ c \in {"SESSION_EXPIRED", "UNAUTHORIZED"})
    BY DEF Throws
  <2>2. forced' \in BOOLEAN /\ (forced => forced')
    BY <2>1 DEF PageInv, TypeOK
  <2>3. pending' # pending => c \in {"TURN_CONFLICT", "SESSION_EXPIRED", "UNAUTHORIZED"}
    BY DEF Throws, shouldClearPendingAnswerOnError
  <2>4. c = "TURN_CONFLICT" => Verdict(pending.rid)
    BY <1>1
  <2>5. pending' \in {pending, NoPending}
    BY DEF Throws
  <2> QED
    BY <2>1, <2>2, <2>3, <2>4, <2>5, NoRoutineTyped
<1>3. \/ /\ run.kind = "boot" /\ c \in {"TURN_CONFLICT", "AI_RETRY_EXHAUSTED"}
         /\ UNCHANGED <<phase, question, code, text>>
         /\ run' \in Routine /\ run'.kind = "boot" /\ run'.await = "start"
         /\ run'.job = run.job /\ run'.recoveryTerminalCode = c
      \/ /\ run' = NoRoutine /\ phase' = "error" /\ question' = 0 /\ code' = c /\ text' = FALSE
  <2>1. CASE run.kind = "boot" /\ c \in {"TURN_CONFLICT", "AI_RETRY_EXHAUSTED"}
    <3>1. run' = [run EXCEPT !.await = "start", !.recoveryTerminalCode = c]
          /\ UNCHANGED <<phase, question, code, text>>
      BY <2>1 DEF Throws, shouldAttemptStartAfterRecoveryError, pageVars
    <3> QED
      BY <1>1, <2>1, <3>1, GoesOnToStart
  <2>2. CASE ~(run.kind = "boot" /\ c \in {"TURN_CONFLICT", "AI_RETRY_EXHAUSTED"})
    BY <2>2 DEF Throws, Show, shouldAttemptStartAfterRecoveryError
  <2> QED
    BY <2>1, <2>2
<1>4. drafts' = drafts
  BY DEF Throws
<1>5. TypeOK'
  <2>1. run' \in Routine
    BY <1>1, <1>3, NoRoutineTyped
  <2>2. phase' \in Phases /\ question' \in Turns \cup {0} /\ code' \in Codes /\ text' \in BOOLEAN
    BY <1>3 DEF PageInv, TypeOK, Phases
  <2>3. (run'.kind = "boot") = (phase' = "loading") /\ (run'.kind = "submit") = (phase' = "submitting")
    <3>1. CASE run' = NoRoutine /\ phase' = "error"
      BY <3>1, NoRoutineTyped
    <3>2. CASE run'.kind = "boot" /\ run.kind = "boot" /\ phase' = phase
      BY <3>2 DEF PageInv, TypeOK
    <3> QED
      BY <1>3, <3>1, <3>2
  <2> QED
    BY <1>1, <1>2, <1>4, <2>1, <2>2, <2>3 DEF PageInv, TypeOK
<1>6. RoutineInv'
  <2>1. CASE run' = NoRoutine
    BY <2>1 DEF RoutineInv, NoRoutine
  <2>2. CASE run' # NoRoutine
    <3>1. /\ run'.kind = "boot" /\ run'.await = "start" /\ run'.job = run.job
          /\ run'.recoveryTerminalCode # NoCode
      BY <1>3, <2>2 DEF NoCode
    <3>2. Verdict(run.job.rid)'
      BY <1>3, <2>2 DEF Verdict
    <3> QED
      BY <1>1, <1>2, <3>1, <3>2 DEF RoutineInv, Verdict
  <2> QED
    BY <2>1, <2>2
<1>7. PendingInv'
  <2>1. phase' # "active"
    BY <1>3 DEF PageInv, TypeOK
  <2>2. turn' = turn
    OBVIOUS
  <2> QED
    BY <1>1, <1>2, <1>4, <2>1, <2>2 DEF PageInv, PendingInv
<1>8. QuestionInv'
  <2>1. phase' # "active"
    BY <1>3 DEF PageInv, TypeOK
  <2>2. run'.await \in {"none", "start"}
    BY <1>1, <1>3, NoRoutineTyped
  <2>3. UNCHANGED <<drafts, turn, left, lastRid>> /\ turn' = turn
    BY <1>4
  <2> QED
    BY <2>1, <2>2, <2>3 DEF PageInv, QuestionInv
<1>9. JobsInv'
  <2>1. turn' = turn
    OBVIOUS
  <2>2. pending.rid <= lastRid /\ pending.turn <= turn
    BY <1>1 DEF PageInv, PendingInv
  <2> QED
    BY <2>1, <2>2 DEF PageInv, JobsInv
<1>10. OpenInv'
  <2> SUFFICES ASSUME ~forced', NEW t \in Turns, NEW r \in Rids, r \in OpenAnswers(t)'
               PROVE  r = pending'.rid
    BY DEF OpenInv
  <2>1. r = pending.rid
    <3>1. CASE r \in OpenAnswers(t)
      BY <1>2, <3>1 DEF PageInv, OpenInv
    <3>2. CASE r \notin OpenAnswers(t)
      <4>1. [rid |-> r, turn |-> t] \in wire' /\ [rid |-> r, turn |-> t] \notin wire
        BY <3>2 DEF OpenAnswers
      <4> QED
        BY <4>1
    <3> QED
      BY <3>1, <3>2
  <2>2. ~Verdict(r)
    BY DEF OpenAnswers, Verdict
  <2> QED
    BY <1>2, <2>1, <2>2
<1> QED
  BY <1>5, <1>6, <1>7, <1>8, <1>9, <1>10 DEF PageInv

\* A routine that returns has the verdict of the pending answer, which was the
\* last one open.
LEMMA ReturnsKeeps ==
    ASSUME PageInv, run.await = "poll", jobs[run.job.rid].status = "succeeded",
           Returns(jobs[run.job.rid].next),
           UNCHANGED <<serverVars, wireVars, lastRid, faults>>
    PROVE  PageInv'
<1> DEFINE next == jobs[run.job.rid].next
<1>1. /\ pending = run.job /\ pending \in Pending /\ run.job.rid \in Rids
      /\ pending # NoPending /\ run.job.turn \in Turns
  BY DEF PageInv, TypeOK, RoutineInv, NoPending, Rids
<1>2. /\ next = Over \/ (next \in Turns /\ next <= turn)
      /\ drafts \subseteq {run.job.turn}
  BY <1>1 DEF PageInv, JobsInv, PendingInv
<1>3. /\ pending' = NoPending /\ run' = NoRoutine /\ forced' = forced /\ drafts' = {}
      /\ \/ phase' = "done" /\ question' = 0 /\ next = Over
         \/ phase' = "active" /\ question' = next /\ next # Over
      /\ code' = NoCode /\ text' \in BOOLEAN
  <2>1. CASE next = Over
    <3>1. Show("done", 0, NoCode) /\ drafts' = drafts \ {run.job.turn}
      BY <2>1 DEF Returns
    <3>2. text' \in BOOLEAN
      BY <3>1, Zenon DEF Show
    <3> QED
      BY <1>2, <2>1, <3>1, <3>2 DEF Returns, Show
  <2>2. CASE next # Over
    <3>1. Ask(next, drafts \ {run.job.turn})
      BY <2>2 DEF Returns
    <3>2. CASE next \in drafts \ {run.job.turn}
      BY <2>2, <3>1, <3>2 DEF Returns, Ask
    <3>3. CASE next \notin drafts \ {run.job.turn}
      BY <2>2, <3>1, <3>3 DEF Returns, Ask
    <3> QED
      BY <3>2, <3>3
  <2> QED
    BY <2>1, <2>2
<1>4. UNCHANGED <<turn, left, jobs, expired, access, wire, lateStarts, lastRid, faults>> /\ turn' = turn
  BY DEF serverVars, wireVars
<1> HIDE DEF next
<1>5. TypeOK'
  BY <1>2, <1>3, <1>4, NoRoutineTyped DEF PageInv, TypeOK, Phases, Codes
<1>6. RoutineInv' /\ PendingInv'
  BY <1>3, NoRoutineTyped DEF RoutineInv, PendingInv
<1>7. QuestionInv'
  BY <1>2, <1>3, <1>4, NoRoutineTyped DEF PageInv, QuestionInv
<1>8. JobsInv'
  BY <1>4 DEF PageInv, JobsInv
<1>9. OpenInv'
  <2> SUFFICES ASSUME ~forced', NEW t \in Turns, NEW r \in Rids, r \in OpenAnswers(t)'
               PROVE  FALSE
    BY DEF OpenInv
  <2>1. r \in OpenAnswers(t)
    BY <1>4 DEF OpenAnswers
  <2>2. r = run.job.rid
    BY <1>1, <1>3, <2>1 DEF PageInv, OpenInv
  <2> QED
    BY <2>1, <2>2 DEF OpenAnswers
<1>10. CountInv'
  <2>1. faults \in Nat /\ faults' = faults /\ faults <= faults
    BY <1>4, PageAssumption DEF PageInv, TypeOK
  <2> QED
    BY <1>3, <1>4, <2>1, NoRoutineTyped, CountKept
<1> QED
  BY <1>5, <1>6, <1>7, <1>8, <1>9, <1>10 DEF PageInv

\* A boot looks at the pending answer as the last routine left it.
LEMMA BootKeeps ==
    ASSUME PageInv, Boot,
           UNCHANGED <<turn, left, jobs, expired, pending, drafts, lastRid, forced>>,
           access' \in {access, TRUE}, NEW f \in 0 .. MaxFaults, faults' = f,
           f = faults + 1 \/ (f = faults /\ run.await = "none")
    PROVE  PageInv'
<1>1. /\ phase' = "loading" /\ question' = 0 /\ code' = NoCode /\ text' = FALSE
      /\ run' = [NoRoutine EXCEPT !.kind = "boot", !.job = pending,
                   !.await = IF pending = NoPending THEN "start"
                             ELSE IF pending.jobId THEN "poll" ELSE "post"]
      /\ CutOff
  BY DEF Boot, Show
<1>2. /\ run' \in Routine /\ run'.kind = "boot" /\ run'.job = pending
      /\ run'.recoveryTerminalCode = NoCode
      /\ run'.await = IF pending = NoPending THEN "start"
                      ELSE IF pending.jobId THEN "poll" ELSE "post"
  BY <1>1, NoRoutineTyped DEF PageInv, TypeOK, Routine, NoRoutine
<1>3. /\ wire' \subseteq [rid : Rids, turn : Turns]
      /\ \A a \in wire' : a \in wire \/ (/\ pending # NoPending
                                         /\ a.rid = pending.rid /\ a.turn = pending.turn)
      /\ lateStarts' \in [sent : 0 .. MaxFaults, read : 0 .. MaxFaults]
      /\ CountInv'
  BY <1>1, <1>2, CutOffKeeps
<1>4. turn' = turn
  OBVIOUS
<1>5. TypeOK'
  BY <1>1, <1>2, <1>3 DEF PageInv, TypeOK, Phases, Codes
<1>6. RoutineInv'
  <2>1. pending # NoPending => /\ pending.rid \in Rids /\ pending.turn \in Turns
    BY PageAssumption DEF PageInv, PendingInv, TypeOK, Rids
  <2> QED
    BY <1>2, <2>1 DEF RoutineInv
<1>7. PendingInv'
  BY <1>1, <1>3, <1>4 DEF PageInv, PendingInv
<1>8. QuestionInv'
  BY <1>1, <1>2, <1>4 DEF PageInv, QuestionInv
<1>9. JobsInv'
  <2>1. pending # NoPending => pending.rid <= lastRid /\ pending.turn <= turn
    BY DEF PageInv, PendingInv, TypeOK
  <2> QED
    BY <1>3, <1>4, <2>1 DEF PageInv, JobsInv
<1>10. OpenInv'
  <2> SUFFICES ASSUME ~forced', NEW t \in Turns, NEW r \in Rids, r \in OpenAnswers(t)'
               PROVE  r = pending.rid
    BY DEF OpenInv
  <2>1. CASE r \in OpenAnswers(t)
    BY <2>1 DEF PageInv, OpenInv
  <2>2. CASE r \notin OpenAnswers(t)
    <3>1. [rid |-> r, turn |-> t] \in wire' /\ [rid |-> r, turn |-> t] \notin wire
      BY <2>2 DEF OpenAnswers
    <3> QED
      BY <1>3, <3>1
  <2> QED
    BY <2>1, <2>2
<1> QED
  BY <1>3, <1>5, <1>6, <1>7, <1>8, <1>9, <1>10 DEF PageInv

-----------------------------------------------------------------------------
(* The steps of the page.                                                  *)

\* Opening, reloading and retrying.
LEMMA BootStep ==
    ASSUME PageInv, Open \/ retryPendingRecovery \/ ReloadAfterError \/ Reload PROVE PageInv'
<1>1. /\ Boot
      /\ UNCHANGED <<turn, left, jobs, expired, pending, drafts, lastRid, forced>>
  BY DEF Open, retryPendingRecovery, ReloadAfterError, Reload, serverVars, storageVars
<1>2. access' \in {access, TRUE}
  BY DEF Open, retryPendingRecovery, ReloadAfterError, Reload, serverVars
<1>3. PICK f \in 0 .. MaxFaults :
        faults' = f /\ (f = faults + 1 \/ (f = faults /\ run.await = "none"))
  <2>1. CASE Reload
    BY <2>1, PageAssumption DEF PageInv, TypeOK, Reload, Fault
  <2>2. CASE Open \/ retryPendingRecovery \/ ReloadAfterError
    <3>1. phase \notin {"loading", "submitting"} /\ faults' = faults
      BY <2>2 DEF Open, retryPendingRecovery, canRetryPendingRecovery, ReloadAfterError
    <3>2. run.kind = "none"
      BY <3>1 DEF PageInv, TypeOK, Routine
    <3> QED
      BY <3>1, <3>2, NoRoutineTyped DEF PageInv, TypeOK, RoutineInv
  <2> QED
    BY <2>1, <2>2
<1> QED
  BY <1>1, <1>2, <1>3, BootKeeps

\* What the text box does to the drafts, all of the question shown.
LEMMA TextStep ==
    ASSUME PageInv, PersistDraft \/ Type \/ Erase PROVE PageInv'
<1>1. /\ phase = "active" /\ drafts' \subseteq drafts \cup {question} /\ text' \in BOOLEAN
      /\ UNCHANGED <<turn, left, jobs, expired, access, wire, lateStarts, pending, phase, question,
                     code, run, lastRid, faults, forced>>
  BY DEF PersistDraft, Type, Erase, PageInv, TypeOK, serverVars, wireVars, pageVars
<1>2. turn' = turn /\ question \in Turns /\ question <= turn
  BY <1>1 DEF PageInv, QuestionInv
<1>3. TypeOK'
  BY <1>1, <1>2 DEF PageInv, TypeOK
<1>4. RoutineInv' /\ PendingInv'
  BY <1>1 DEF PageInv, RoutineInv, PendingInv, Verdict
<1>5. QuestionInv'
  <2>1. run.await = "none"
    BY <1>1, NoRoutineTyped DEF PageInv, TypeOK, RoutineInv, Routine
  <2> QED
    BY <1>1, <1>2, <2>1 DEF PageInv, QuestionInv
<1>6. JobsInv' /\ OpenInv' /\ CountInv'
  BY <1>1, <1>2 DEF PageInv, JobsInv, OpenInv, OpenAnswers, CountInv, Settled, Verdict
<1> QED
  BY <1>3, <1>4, <1>5, <1>6 DEF PageInv

\* A request id never used before makes the new answer the only open one: the
\* page asks only when nothing is pending.
LEMMA SubmitStep ==
    ASSUME PageInv, requestSubmit PROVE PageInv'
<1> DEFINE p == [rid |-> lastRid + 1, turn |-> question, jobId |-> FALSE]
<1>1. /\ phase = "active" /\ lastRid < MaxSubmits /\ pending' = p
      /\ run' = [NoRoutine EXCEPT !.kind = "submit", !.await = "post", !.job = p]
      /\ lastRid' = lastRid + 1 /\ phase' = "submitting" /\ text' = FALSE
      /\ UNCHANGED <<turn, left, jobs, expired, access, wire, lateStarts, drafts, question, code,
                     faults, forced>>
  BY DEF requestSubmit, serverVars, wireVars
<1>2. /\ question \in Turns /\ question <= turn /\ drafts \subseteq {question} /\ pending = NoPending
      /\ lastRid \in Nat /\ turn \in Nat /\ left \in Nat
  BY <1>1, PageAssumption DEF PageInv, QuestionInv, PendingInv, TypeOK, Over
<1>3. /\ p \in Pending /\ p.rid = lastRid + 1 /\ p.turn = question /\ p.jobId = FALSE
      /\ p.rid \in Rids /\ p # NoPending
  BY <1>1, <1>2, PageAssumption DEF Pending, Rids, NoPending
<1> HIDE DEF p
<1>4. /\ run' \in Routine /\ run'.kind = "submit" /\ run'.await = "post" /\ run'.job = p
  BY <1>1, <1>3, NoRoutineTyped DEF Routine, NoRoutine
<1>5. turn' = turn
  BY <1>1
<1>6. /\ jobs[p.rid].status = "none"
      /\ \A a \in wire : a.rid # p.rid
  <2>1. ~(p.rid <= lastRid)
    BY <1>2, <1>3
  <2> QED
    BY <1>3, <2>1 DEF PageInv, JobsInv
<1>7. TypeOK'
  <2>1. lastRid' \in 0 .. MaxSubmits
    BY <1>1, <1>2, PageAssumption
  <2> QED
    BY <1>1, <1>3, <1>4, <2>1 DEF PageInv, TypeOK, Phases
<1>8. RoutineInv'
  BY <1>1, <1>2, <1>3, <1>4 DEF RoutineInv
<1>9. PendingInv'
  <2>1. p.rid \in 1 .. lastRid'
    BY <1>1, <1>2, <1>3
  <2> QED
    BY <1>1, <1>2, <1>3, <1>5, <1>6, <2>1 DEF PendingInv
<1>10. QuestionInv'
  <2>1. turn # 0
    BY <1>2 DEF Turns
  <2> QED
    BY <1>1, <1>4, <1>5, <2>1 DEF PageInv, QuestionInv
<1>11. JobsInv'
  <2>1. \A r \in Rids : r <= lastRid => r <= lastRid'
    BY <1>1, <1>2 DEF Rids
  <2>2. \A a \in wire : a.rid <= lastRid => a.rid <= lastRid'
    BY <1>1, <1>2 DEF PageInv, TypeOK, Rids
  <2> QED
    BY <1>1, <1>5, <2>1, <2>2 DEF PageInv, JobsInv
<1>12. OpenInv'
  <2> SUFFICES ASSUME ~forced, NEW t \in Turns, NEW r \in Rids, r \in OpenAnswers(t)
               PROVE  FALSE
    BY <1>1 DEF OpenInv, OpenAnswers
  <2>1. r = 0
    BY <1>2 DEF PageInv, OpenInv, NoPending
  <2> QED
    BY <2>1 DEF Rids
<1>13. CountInv'
  <2>1. faults \in Nat /\ faults' = faults /\ faults <= faults
    BY <1>1, PageAssumption DEF PageInv, TypeOK
  <2> QED
    BY <1>1, <1>4, <2>1, CountKept
<1> QED
  BY <1>7, <1>8, <1>9, <1>10, <1>11, <1>12, <1>13 DEF PageInv

\* The server takes the answer, and the page notes its job.
LEMMA AcceptedStep ==
    ASSUME PageInv, submitPendingAnswerJob PROVE PageInv'
<1> DEFINE p == [run.job EXCEPT !.jobId = TRUE]
<1>1. /\ run.await = "post" /\ jobs' = Upserted(run.job.rid, run.job.turn) /\ pending' = p
      /\ run' = [run EXCEPT !.await = "poll", !.job.jobId = TRUE]
      /\ UNCHANGED <<turn, left, expired, access, wire, lateStarts, drafts, phase, question, code, text,
                     lastRid, faults, forced>>
  BY DEF submitPendingAnswerJob, wireVars, pageVars
<1>2. /\ pending = run.job /\ pending \in Pending /\ pending.rid \in Rids /\ pending.turn \in Turns
      /\ pending # NoPending /\ run \in Routine
  BY <1>1 DEF PageInv, TypeOK, RoutineInv, NoPending, Rids
<1>3. /\ p \in Pending /\ p.rid = pending.rid /\ p.turn = pending.turn /\ p.jobId = TRUE
      /\ p # NoPending
  BY <1>2 DEF Pending, NoPending
<1>4. /\ run' \in Routine /\ run'.kind = run.kind /\ run'.await = "poll" /\ run'.job = p
  BY <1>1, <1>2, <1>3 DEF Routine
<1> HIDE DEF p
<1>5. turn' = turn /\ pending.rid <= lastRid /\ pending.turn <= turn
  BY <1>1, <1>2 DEF PageInv, PendingInv, TypeOK
<1>6. /\ \A q \in Rids : jobs[q].status # "none" => jobs'[q] = jobs[q]
      /\ \A q \in Rids : q # pending.rid => jobs'[q] = jobs[q]
      /\ jobs[pending.rid].status = "none" =>
           jobs'[pending.rid] = [turn |-> pending.turn, status |-> "queued", next |-> 0]
  BY <1>1, <1>2 DEF PageInv, TypeOK, Upserted, Job
<1>7. Settled' = Settled
  BY <1>1, <1>2, SettledQueued DEF PageInv
<1>8. TypeOK'
  <2>1. jobs' \in [Rids -> Job]
    BY <1>1, <1>2, PageAssumption DEF PageInv, TypeOK, Upserted, Job, Statuses, Over
  <2> QED
    BY <1>1, <1>3, <1>4, <2>1 DEF PageInv, TypeOK
<1>9. RoutineInv'
  <2>1. run.kind # "none"
    BY <1>1, NoRoutineTyped DEF PageInv, RoutineInv
  <2> QED
    BY <1>1, <1>2, <1>3, <1>4, <2>1 DEF RoutineInv
<1>10. PendingInv'
  <2>1. phase # "active"
    BY <1>2 DEF PageInv, PendingInv
  <2>2. jobs'[pending.rid].status # "none" /\ jobs'[pending.rid].turn = pending.turn
    BY <1>2, <1>6 DEF PageInv, PendingInv
  <2> QED
    BY <1>1, <1>2, <1>3, <1>5, <2>1, <2>2 DEF PageInv, PendingInv
<1>11. QuestionInv'
  BY <1>1, <1>4, <1>5 DEF PageInv, QuestionInv
<1>12. JobsInv'
  <2>1. ASSUME NEW q \in Rids, jobs'[q].status # "none"
        PROVE  q <= lastRid' /\ jobs'[q].turn \in Turns /\ jobs'[q].turn <= turn'
    BY <1>1, <1>2, <1>5, <1>6, <2>1 DEF PageInv, JobsInv
  <2>2. ASSUME NEW q \in Rids, jobs'[q].status = "succeeded"
        PROVE  jobs'[q] = jobs[q]
    BY <1>2, <1>6, <2>2
  <2> QED
    BY <1>1, <1>5, <2>1, <2>2 DEF PageInv, JobsInv
<1>13. OpenInv'
  <2> SUFFICES ASSUME ~forced, NEW t \in Turns, NEW r \in Rids, r \in OpenAnswers(t)'
               PROVE  r = pending.rid
    BY <1>1, <1>3 DEF OpenInv
  <2>1. CASE r # pending.rid
    <3>1. r \in OpenAnswers(t)
      BY <1>1, <1>6, <2>1 DEF OpenAnswers
    <3> QED
      BY <3>1 DEF PageInv, OpenInv
  <2> QED
    BY <2>1
<1>14. CountInv'
  BY <1>1, <1>4, <1>7 DEF PageInv, CountInv
<1> QED
  BY <1>8, <1>9, <1>10, <1>11, <1>12, <1>13, <1>14 DEF PageInv

\* A refusal of the answer, and a call that fails.
LEMMA RefusedStep ==
    ASSUME PageInv, PostRefused PROVE PageInv'
<1>1. /\ run.await = "post" /\ Throws(Refusal) /\ Refusal \in {"UNAUTHORIZED", "SESSION_EXPIRED"}
      /\ UNCHANGED <<turn, left, jobs, expired, access, wire, lateStarts, lastRid, faults>>
  BY DEF PostRefused, Refusal, serverVars, wireVars
<1>2. Refusal \in Codes /\ Refusal \notin {"TURN_CONFLICT", "AI_RETRY_EXHAUSTED"}
  BY <1>1 DEF Codes
<1>3. run'.await # "issue" \/ run.await = "issue"
  BY <1>1, NoRoutineTyped DEF Throws, PageInv, TypeOK, Routine
<1>4. CountInv'
  <2>1. faults \in Nat /\ faults' = faults /\ faults <= faults
    BY <1>1, PageAssumption DEF PageInv, TypeOK
  <2> QED
    BY <1>1, <1>3, <2>1, CountKept
<1>5. /\ wire' \subseteq [rid : Rids, turn : Turns]
      /\ lateStarts' \in [sent : 0 .. MaxFaults, read : 0 .. MaxFaults]
      /\ faults' \in 0 .. MaxFaults
  BY <1>1 DEF PageInv, TypeOK
<1> QED
  BY <1>1, <1>2, <1>4, <1>5, ThrowsKeeps

\* A submission is refused, or its call or reply is lost.
LEMMA PostFailsStep ==
    ASSUME PageInv, PostFails PROVE PageInv'
<1>1. PICK c \in {NoCode, "INTERNAL_ERROR"} : Throws(c)
  BY DEF PostFails
<1>2. /\ run.await = "post" /\ CutOff /\ faults < MaxFaults /\ faults' = faults + 1
      /\ UNCHANGED <<turn, left, jobs, expired, access, lastRid>>
  BY DEF PostFails, Fault, serverVars
<1>3. c \in Codes /\ c \notin {"TURN_CONFLICT", "AI_RETRY_EXHAUSTED"}
  BY DEF Codes, NoCode
<1>4. run'.await # "issue"
  BY <1>1, <1>2, NoRoutineTyped DEF Throws, PageInv, TypeOK, Routine
<1>5. PICK f \in 0 .. MaxFaults : faults' = f /\ f = faults + 1
  BY <1>2, PageAssumption DEF PageInv, TypeOK
<1>6. /\ wire' \subseteq [rid : Rids, turn : Turns]
      /\ \A a \in wire' : a \in wire \/ (/\ pending # NoPending
                                         /\ a.rid = pending.rid /\ a.turn = pending.turn)
      /\ lateStarts' \in [sent : 0 .. MaxFaults, read : 0 .. MaxFaults]
      /\ CountInv'
  BY <1>2, <1>4, <1>5, CutOffKeeps
<1>7. faults' \in 0 .. MaxFaults
  BY <1>5
<1> QED
  BY <1>1, <1>2, <1>3, <1>6, <1>7, ThrowsKeeps

\* A poll that ends the routine with an error.
LEMMA PollThrows ==
    ASSUME PageInv, run.await = "poll", NEW c \in Codes, Throws(c),
           UNCHANGED <<turn, left, jobs, expired, access, wire, lateStarts, lastRid>>,
           NEW f \in 0 .. MaxFaults, faults' = f, faults <= f,
           c \in {"TURN_CONFLICT", "AI_RETRY_EXHAUSTED"} => Verdict(run.job.rid)
    PROVE  PageInv'
<1>1. run'.await # "issue"
  BY NoRoutineTyped DEF Throws, PageInv, TypeOK, Routine
<1>2. CountInv'
  BY <1>1, CountKept, PageAssumption
<1>3. /\ wire' \subseteq [rid : Rids, turn : Turns]
      /\ \A a \in wire' : a \in wire
      /\ lateStarts' \in [sent : 0 .. MaxFaults, read : 0 .. MaxFaults]
      /\ faults' \in 0 .. MaxFaults
  BY DEF PageInv, TypeOK
<1> QED
  BY <1>2, <1>3, ThrowsKeeps

\* A poll after which the routine polls on.
LEMMA PollsOn ==
    ASSUME PageInv, run.await = "poll", NEW n \in 0 .. BreakerFailures,
           run' = [run EXCEPT !.failures = n, !.polled = TRUE],
           UNCHANGED <<serverVars, wireVars, storageVars, pageVars, lastRid, forced>>,
           NEW f \in 0 .. MaxFaults, faults' = f, faults <= f
    PROVE  PageInv'
<1>1. UNCHANGED <<turn, left, jobs, expired, access, wire, lateStarts, pending, drafts, phase,
                  question, code, text, lastRid, forced>>
  BY DEF serverVars, wireVars, storageVars, pageVars
<1>2. /\ run' \in Routine /\ run'.kind = run.kind /\ run'.await = "poll" /\ run'.job = run.job
  BY DEF PageInv, TypeOK, Routine
<1>3. turn' = turn
  BY <1>1
<1>4. TypeOK'
  BY <1>1, <1>2 DEF PageInv, TypeOK
<1>5. RoutineInv'
  <2>1. run.kind # "none"
    BY NoRoutineTyped DEF PageInv, RoutineInv
  <2> QED
    BY <1>1, <1>2, <2>1 DEF PageInv, RoutineInv
<1>6. PendingInv' /\ JobsInv'
  BY <1>1, <1>3 DEF PageInv, PendingInv, JobsInv
<1>7. QuestionInv'
  BY <1>1, <1>2, <1>3 DEF PageInv, QuestionInv
<1>8. OpenInv'
  BY <1>1 DEF PageInv, OpenInv, OpenAnswers
<1>9. CountInv'
  BY <1>1, <1>2, CountKept, PageAssumption
<1> QED
  BY <1>4, <1>5, <1>6, <1>7, <1>8, <1>9 DEF PageInv

\* A poll brings a verdict, or none yet.
LEMMA PollStep ==
    ASSUME PageInv, pollAsyncAnswerJob PROVE PageInv'
<1>1. /\ run.await = "poll"
      /\ UNCHANGED <<turn, left, jobs, expired, access, wire, lateStarts, lastRid, faults>>
  BY DEF pollAsyncAnswerJob, serverVars, wireVars
<1>2. faults \in 0 .. MaxFaults /\ faults' = faults /\ faults <= faults /\ 0 \in 0 .. BreakerFailures
  BY <1>1, PageAssumption DEF PageInv, TypeOK
<1>3. CASE Throws("UNAUTHORIZED") \/ Throws("INTERNAL_ERROR")
  BY <1>1, <1>2, <1>3, PollThrows DEF Codes
<1>4. CASE JobOfRun.status = "canceled" /\ Throws("AI_RETRY_EXHAUSTED")
  BY <1>1, <1>2, <1>4, PollThrows DEF Codes, Verdict, JobOfRun
<1>5. CASE JobOfRun.status = "conflict" /\ Throws("TURN_CONFLICT")
  BY <1>1, <1>2, <1>5, PollThrows DEF Codes, Verdict, JobOfRun
<1>6. CASE JobOfRun.status = "succeeded" /\ Returns(JobOfRun.next)
  BY <1>1, <1>6, ReturnsKeeps DEF JobOfRun, serverVars, wireVars
<1>7. CASE /\ run' = [run EXCEPT !.failures = 0, !.polled = TRUE]
           /\ UNCHANGED <<storageVars, pageVars, forced>>
  BY <1>1, <1>2, <1>7, PollsOn DEF serverVars, wireVars
<1> QED
  BY <1>3, <1>4, <1>5, <1>6, <1>7 DEF pollAsyncAnswerJob

\* A poll is refused or lost.
LEMMA PollFailsStep ==
    ASSUME PageInv, PollFails PROVE PageInv'
<1>1. /\ run.await = "poll" /\ faults < MaxFaults /\ faults' = faults + 1
      /\ UNCHANGED <<serverVars, wireVars, lastRid>>
      /\ UNCHANGED <<turn, left, jobs, expired, access, wire, lateStarts, lastRid>>
  BY DEF PollFails, Fault, serverVars, wireVars
<1>2. PICK f \in 0 .. MaxFaults : faults' = f /\ faults <= f
  BY <1>1, PageAssumption DEF PageInv, TypeOK
<1>3. CASE run.failures + 1 >= BreakerFailures
  BY <1>1, <1>2, <1>3, PollThrows DEF PollFails, Codes
<1>4. CASE ~(run.failures + 1 >= BreakerFailures)
  <2>1. run.failures + 1 \in 0 .. BreakerFailures
    BY <1>4, PageAssumption DEF PageInv, TypeOK, Routine
  <2>2. run' = [run EXCEPT !.failures = run.failures + 1, !.polled = TRUE]
        /\ UNCHANGED <<storageVars, pageVars, forced>>
    BY <1>4 DEF PollFails
  <2> QED
    BY <1>1, <1>2, <2>1, <2>2, PollsOn
<1> QED
  BY <1>3, <1>4

\* Polling ends by the clock or by the circuit breaker.
LEMMA PollTimeoutStep ==
    ASSUME PageInv, PollTimeout PROVE PageInv'
<1>1. /\ run.await = "poll" /\ Throws("ASYNC_POLL_TIMEOUT")
      /\ UNCHANGED <<turn, left, jobs, expired, access, wire, lateStarts, lastRid, faults>>
  BY DEF PollTimeout, serverVars, wireVars
<1>2. faults \in 0 .. MaxFaults /\ faults' = faults /\ faults <= faults
  BY <1>1, PageAssumption DEF PageInv, TypeOK
<1> QED
  BY <1>1, <1>2, PollThrows DEF Codes

\* A start that is on its way: nothing changes but what the server has issued
\* and what the routine knows of it.
LEMMA StartGoesOn ==
    ASSUME PageInv, run.await \in {"start", "issue"}, CountInv',
           UNCHANGED <<left, jobs, expired, access, wire, lateStarts, pending, drafts, phase,
                       question, code, text, lastRid, faults, forced>>,
           NEW t \in 0 .. Over - 1, turn' = t, turn <= t,
           run' \in Routine, run'.kind = run.kind, run'.await \in {"issue", "reply"},
           run'.job = run.job, run'.recoveryTerminalCode = run.recoveryTerminalCode,
           run'.await = "issue" => turn = 0 /\ t = 0,
           run'.await = "reply" /\ run'.refusal = NoCode =>
              \/ run'.reply = Over /\ left = 0
              \/ run'.reply = t /\ t # 0 /\ left > 0
    PROVE  PageInv'
<1> USE PageAssumption
<1>1. turn \in Nat /\ left \in Nat /\ drafts \subseteq Turns
  BY DEF PageInv, TypeOK, Over
<1>2. run.kind = "boot"
  BY NoRoutineTyped DEF PageInv, TypeOK, RoutineInv, Routine
<1>3. phase = "loading"
  BY <1>2 DEF PageInv, TypeOK
<1>4. TypeOK'
  BY DEF PageInv, TypeOK, Over
<1>5. RoutineInv'
  BY <1>2 DEF PageInv, RoutineInv, Verdict
<1>6. PendingInv'
  <2>1. pending.turn \in Int
    BY DEF PageInv, TypeOK, Pending, Turns
  <2>2. pending # NoPending => pending.turn <= t
    BY <1>1, <2>1 DEF PageInv, PendingInv
  <2> QED
    BY <1>3, <2>2 DEF PageInv, PendingInv
<1>7. QuestionInv'
  <2>1. \A d \in drafts : d <= turn /\ d <= t
    BY <1>1 DEF PageInv, QuestionInv, Turns
  <2>2. turn' = 0 \/ run'.await = "issue" => lastRid = 0 /\ left > 0
    BY <1>1 DEF PageInv, QuestionInv
  <2>3. run'.await = "reply" /\ run'.refusal = NoCode =>
          \/ run'.reply = Over /\ left = 0
          \/ run'.reply \in Turns /\ run'.reply <= t /\ \A d \in drafts : d <= run'.reply
    <3>1. t # 0 => t \in Turns
      BY DEF Turns, Over
    <3> QED
      BY <2>1, <3>1
  <2> QED
    BY <1>3, <2>1, <2>2, <2>3 DEF QuestionInv
<1>8. JobsInv'
  <2>1. ASSUME NEW q \in Rids, jobs[q].status # "none"
        PROVE  q <= lastRid /\ jobs[q].turn \in Turns /\ jobs[q].turn <= t
    BY <1>1, <2>1 DEF PageInv, JobsInv, Turns
  <2>2. ASSUME NEW q \in Rids, jobs[q].status = "succeeded"
        PROVE  /\ jobs[q].turn < t \/ left = 0
               /\ jobs[q].next = Over \/ (jobs[q].next \in Turns /\ jobs[q].next <= t)
    <3>1. jobs[q].turn \in Turns
      BY <2>2 DEF PageInv, JobsInv
    <3> QED
      BY <1>1, <2>2, <3>1 DEF PageInv, JobsInv, Turns
  <2>3. ASSUME NEW a \in wire PROVE a.rid <= lastRid /\ a.turn <= t
    <3>1. a.turn \in Int
      BY DEF PageInv, TypeOK, Turns
    <3> QED
      BY <1>1, <3>1 DEF PageInv, JobsInv
  <2> QED
    BY <2>1, <2>2, <2>3 DEF JobsInv
<1>9. OpenInv'
  BY DEF PageInv, OpenInv, OpenAnswers
<1> QED
  BY <1>4, <1>5, <1>6, <1>7, <1>8, <1>9 DEF PageInv

\* The server looks for an active question.
LEMMA HandleStartStep ==
    ASSUME PageInv, HandleStart PROVE PageInv'
<1> USE PageAssumption
<1>1. /\ run.await = "start" /\ run \in Routine
      /\ UNCHANGED <<turn, left, jobs, expired, access, wire, lateStarts, pending, drafts, phase,
                     question, code, text, lastRid, faults, forced>>
  BY DEF HandleStart, PageInv, TypeOK, serverVars, wireVars, storageVars, pageVars
<1>2. turn \in 0 .. Over - 1 /\ turn' = turn /\ turn <= turn /\ left \in Nat
  BY <1>1, TurnBounded DEF PageInv, TypeOK
<1>3. Refusal \in Codes /\ Refusal # NoCode
  BY DEF Refusal, Codes, NoCode
<1>4. CASE run' = [run EXCEPT !.await = "reply", !.refusal = Refusal]
  <2>1. /\ run' \in Routine /\ run'.kind = run.kind /\ run'.await = "reply" /\ run'.job = run.job
        /\ run'.recoveryTerminalCode = run.recoveryTerminalCode /\ run'.refusal # NoCode
    BY <1>1, <1>3, <1>4 DEF Routine
  <2>2. CountInv'
    BY <1>1, <1>2, <2>1, CountKept DEF PageInv, TypeOK
  <2> QED
    BY <1>1, <1>2, <2>1, <2>2, StartGoesOn
<1>5. CASE turn = 0 /\ run' = [run EXCEPT !.await = "issue"]
  <2>1. /\ run' \in Routine /\ run'.kind = run.kind /\ run'.await = "issue" /\ run'.job = run.job
        /\ run'.recoveryTerminalCode = run.recoveryTerminalCode
    BY <1>1, <1>5 DEF Routine
  <2>2. CountInv'
    BY <1>1, <1>2, <1>5, CountKept DEF PageInv, TypeOK
  <2> QED
    BY <1>1, <1>2, <1>5, <2>1, <2>2, StartGoesOn
<1>6. CASE turn # 0 /\ run' = [run EXCEPT !.await = "reply", !.reply = Asked]
  <2>1. Asked \in 0 .. Over /\ ((Asked = Over /\ left = 0) \/ (Asked = turn /\ left > 0))
    BY <1>2 DEF Asked, Over
  <2>2. /\ run' \in Routine /\ run'.kind = run.kind /\ run'.await = "reply" /\ run'.job = run.job
        /\ run'.recoveryTerminalCode = run.recoveryTerminalCode /\ run'.reply = Asked
    BY <1>1, <1>6, <2>1 DEF Routine
  <2>3. CountInv'
    BY <1>1, <1>2, <2>2, CountKept DEF PageInv, TypeOK
  <2> QED
    BY <1>1, <1>2, <1>6, <2>1, <2>2, <2>3, StartGoesOn
<1> QED
  BY <1>4, <1>5, <1>6 DEF HandleStart

\* A start that found no question issues one.
LEMMA PrepareStepStep ==
    ASSUME PageInv, PrepareStep PROVE PageInv'
<1> USE PageAssumption
<1>1. /\ run.await = "issue" /\ run \in Routine /\ turn' = turn + 1
      /\ run' = [run EXCEPT !.await = "reply", !.reply = turn + 1]
      /\ UNCHANGED <<left, jobs, expired, access, wire, lateStarts, pending, drafts, phase,
                     question, code, text, lastRid, faults, forced>>
  BY DEF PrepareStep, PageInv, TypeOK, wireVars, storageVars, pageVars
<1>2. Settled' = Settled /\ Cardinality(Settled) \in Nat /\ Cardinality(Settled) <= MaxSubmits
  BY <1>1, RidsFinite DEF Settled, Verdict
<1>3. /\ turn \in Nat /\ faults \in 0 .. MaxFaults
      /\ lateStarts.sent \in Nat /\ lateStarts.read \in Nat
  BY DEF PageInv, TypeOK, Over
<1>4. turn + 1 \in 0 .. Over - 1
  BY <1>1, <1>2, <1>3 DEF PageInv, CountInv, Over
<1>5. /\ run' \in Routine /\ run'.kind = run.kind /\ run'.await = "reply" /\ run'.job = run.job
      /\ run'.recoveryTerminalCode = run.recoveryTerminalCode /\ run'.reply = turn + 1
  <2>1. turn + 1 \in 0 .. Over
    BY <1>4 DEF Over
  <2> QED
    BY <1>1, <2>1 DEF Routine
<1>6. CountInv'
  BY <1>1, <1>2, <1>3, <1>5 DEF PageInv, CountInv
<1>7. left > 0 /\ turn <= turn + 1 /\ turn + 1 # 0
  BY <1>1, <1>3 DEF PageInv, QuestionInv
<1> QED
  BY <1>1, <1>4, <1>5, <1>6, <1>7, StartGoesOn

\* The end of a routine that had no answer open: the page asks, ends, or shows
\* an error or the guard, and may drop what was pending.
LEMMA StartEnds ==
    ASSUME PageInv, run.await \in {"start", "issue", "reply"}, CountInv', run' = NoRoutine,
           UNCHANGED <<turn, left, jobs, expired, access, lastRid>>,
           wire' \subseteq [rid : Rids, turn : Turns], \A a \in wire' : a \in wire,
           lateStarts' \in [sent : 0 .. MaxFaults, read : 0 .. MaxFaults],
           faults' \in 0 .. MaxFaults, forced' \in BOOLEAN, forced => forced',
           pending' \in {pending, NoPending}, drafts' \subseteq drafts,
           code' \in Codes, text' \in BOOLEAN,
           \/ phase' \in {"guard", "error", "done"} /\ question' = 0
           \/ /\ phase' = "active" /\ question' \in Turns /\ question' <= turn
              /\ drafts' \subseteq {question'} /\ pending' = NoPending
    PROVE  PageInv'
<1>1. turn' = turn
  OBVIOUS
<1>2. pending \in {NoPending, run.job} /\ (run.job # NoPending => Verdict(run.job.rid))
  BY DEF PageInv, RoutineInv
<1>3. pending \in Pending /\ pending' \in Pending
  BY NoRoutineTyped DEF PageInv, TypeOK
<1>4. TypeOK'
  BY <1>3, NoRoutineTyped DEF PageInv, TypeOK, Phases
<1>5. RoutineInv'
  BY NoRoutineTyped DEF RoutineInv
<1>6. PendingInv'
  BY <1>1 DEF PageInv, PendingInv
<1>7. QuestionInv'
  BY <1>1, NoRoutineTyped DEF PageInv, QuestionInv
<1>8. JobsInv'
  BY <1>1 DEF PageInv, JobsInv
<1>9. OpenInv'
  <2> SUFFICES ASSUME ~forced', NEW t \in Turns, NEW r \in Rids, r \in OpenAnswers(t)'
               PROVE  r = pending'.rid
    BY DEF OpenInv
  <2>1. r \in OpenAnswers(t)
    BY DEF OpenAnswers
  <2>2. r = pending.rid
    BY <2>1 DEF PageInv, OpenInv
  <2>3. pending # NoPending => Verdict(pending.rid)
    BY <1>2
  <2>4. ~Verdict(r)
    BY <2>1 DEF OpenAnswers, Verdict
  <2> QED
    BY <2>2, <2>3, <2>4
<1> QED
  BY <1>4, <1>5, <1>6, <1>7, <1>8, <1>9 DEF PageInv

\* A start is refused or lost.
LEMMA StartFailsStep ==
    ASSUME PageInv, StartFails PROVE PageInv'
<1>1. /\ run.await \in {"start", "issue", "reply"} /\ faults < MaxFaults /\ faults' = faults + 1
      /\ CutOff /\ run' = NoRoutine /\ phase' = "error" /\ question' = 0 /\ text' = FALSE
      /\ code' \in {NoCode, "INTERNAL_ERROR"}
      /\ UNCHANGED <<turn, left, jobs, expired, access, lastRid, pending, drafts, forced>>
  BY DEF StartFails, Fault, Show, serverVars, storageVars
<1>2. PICK f \in 0 .. MaxFaults : faults' = f /\ f = faults + 1
  BY <1>1, PageAssumption DEF PageInv, TypeOK
<1>3. /\ wire' \subseteq [rid : Rids, turn : Turns]
      /\ \A a \in wire' : a \in wire \/ (/\ pending # NoPending
                                         /\ a.rid = pending.rid /\ a.turn = pending.turn)
      /\ lateStarts' \in [sent : 0 .. MaxFaults, read : 0 .. MaxFaults]
      /\ CountInv'
  BY <1>1, <1>2, NoRoutineTyped, CutOffKeeps
<1>4. wire' = wire
  BY <1>1 DEF CutOff, InFlight
<1>5. faults' \in 0 .. MaxFaults /\ code' \in Codes /\ forced' \in BOOLEAN
  BY <1>1, <1>2 DEF Codes, PageInv, TypeOK
<1> QED
  BY <1>1, <1>3, <1>4, <1>5, StartEnds

\* A reply of start: the answer it was about has a verdict, and the turn it asks
\* is no older than the drafts.
LEMMA StartRepliesStep ==
    ASSUME PageInv, StartReplies PROVE PageInv'
<1>1. /\ run.await = "reply" /\ run' = NoRoutine
      /\ UNCHANGED <<turn, left, jobs, expired, access, lastRid, wire, lateStarts, faults>>
  BY DEF StartReplies, serverVars, wireVars
<1>2. /\ wire' \subseteq [rid : Rids, turn : Turns] /\ \A a \in wire' : a \in wire
      /\ lateStarts' \in [sent : 0 .. MaxFaults, read : 0 .. MaxFaults]
      /\ faults' \in 0 .. MaxFaults /\ faults \in Nat /\ faults <= faults
      /\ {NoCode, "SESSION_EXPIRED"} \subseteq Codes
  BY <1>1, PageAssumption DEF PageInv, TypeOK, Codes
<1>3. CountInv'
  BY <1>1, <1>2, NoRoutineTyped, CountKept
<1>4. CASE /\ phase' \in {"guard", "error", "done"} /\ question' = 0 /\ text' = FALSE
           /\ code' \in {NoCode, "SESSION_EXPIRED"} /\ pending' \in {pending, NoPending}
           /\ drafts' \subseteq drafts
  <2>1. forced' = forced \/ forced' = (forced \/ run.job # NoPending)
    BY DEF StartReplies
  <2>2. forced' \in BOOLEAN /\ (forced => forced')
    BY <2>1 DEF PageInv, TypeOK
  <2> QED
    BY <1>1, <1>2, <1>3, <1>4, <2>2, StartEnds
<1>5. CASE /\ run.refusal = NoCode /\ run.reply # Over
           /\ pending' = IF run.job # NoPending /\ (run.reply # run.job.turn \/ run.recoveryTerminalCode # NoCode)
                         THEN NoPending ELSE pending
           /\ Ask(run.reply, drafts) /\ forced' = forced
  <2>1. /\ phase' = "active" /\ question' = run.reply /\ code' = NoCode
        /\ drafts' = {} /\ text' \in BOOLEAN
    BY <1>5 DEF Ask
  <2>2. run.reply \in Turns /\ run.reply <= turn
    BY <1>1, <1>5 DEF PageInv, QuestionInv
  <2>3. pending' = NoPending
    BY <1>1, <1>5 DEF PageInv, RoutineInv
  <2>4. forced' \in BOOLEAN /\ (forced => forced')
    BY <1>5 DEF PageInv, TypeOK
  <2> QED
    BY <1>1, <1>2, <1>3, <2>1, <2>2, <2>3, <2>4, StartEnds
<1>6. CASE run.refusal = "UNAUTHORIZED" \/ run.refusal = "SESSION_EXPIRED" \/ run.reply = Over
  <2>1. \/ /\ phase' \in {"guard", "error", "done"} /\ question' = 0 /\ text' = FALSE
           /\ code' \in {NoCode, "SESSION_EXPIRED"} /\ pending' \in {pending, NoPending}
           /\ drafts' \subseteq drafts
    BY <1>6 DEF StartReplies, Show, storageVars, NoCode
  <2> QED
    BY <1>4, <2>1
<1> QED
  BY <1>5, <1>6 DEF StartReplies

-----------------------------------------------------------------------------
(* The theorems.                                                           *)

\* An empty browser and a new interview.
LEMMA PageInit ==
    ASSUME Init PROVE PageInv
<1> USE PageAssumption
<1>1. \A r \in Rids : jobs[r] = NoJob /\ ~Verdict(r)
  BY DEF Init, NoJob, Verdict
<1>2. NoJob \in Job
  BY DEF NoJob, Job, Statuses, Over
<1>3. TypeOK
  <2>1. turn \in 0 .. Over /\ left \in 0 .. NTurns /\ jobs \in [Rids -> Job]
    BY <1>2 DEF Init, Over
  <2>2. /\ wire \subseteq [rid : Rids, turn : Turns]
        /\ lateStarts \in [sent : 0 .. MaxFaults, read : 0 .. MaxFaults]
        /\ pending \in Pending /\ drafts \subseteq Turns
    BY NoRoutineTyped DEF Init
  <2>3. /\ phase \in Phases /\ question \in Turns \cup {0} /\ code \in Codes
        /\ run \in Routine
        /\ lastRid \in 0 .. MaxSubmits /\ faults \in 0 .. MaxFaults
    BY NoRoutineTyped DEF Init, Phases, Codes
  <2>4. expired \in BOOLEAN /\ access \in BOOLEAN /\ forced \in BOOLEAN /\ text \in BOOLEAN
    BY Zenon DEF Init
  <2>5. run.kind = "none" /\ phase = "guard"
    BY NoRoutineTyped DEF Init
  <2> QED
    BY <2>1, <2>2, <2>3, <2>4, <2>5 DEF TypeOK
<1>4. RoutineInv /\ PendingInv /\ QuestionInv
  BY NoRoutineTyped DEF Init, RoutineInv, PendingInv, QuestionInv
<1>5. JobsInv /\ OpenInv
  BY <1>1 DEF Init, JobsInv, OpenInv, OpenAnswers, NoJob
<1>6. CountInv
  <2>1. Settled = {}
    BY <1>1 DEF Settled
  <2> QED
    BY <2>1, FS_EmptySet DEF Init, CountInv, NoRoutine
<1> QED
  BY <1>3, <1>4, <1>5, <1>6 DEF PageInv

\* A step that changes nothing.
LEMMA PageStutter ==
    ASSUME PageInv, UNCHANGED vars PROVE PageInv'
<1>1. UNCHANGED <<turn, left, jobs, expired, access, wire, lateStarts, pending, drafts, phase,
                  question, code, text, run, lastRid, faults, forced>>
  BY DEF vars, serverVars, wireVars, storageVars, pageVars
<1> QED
  BY <1>1 DEF PageInv, TypeOK, RoutineInv, PendingInv, QuestionInv, JobsInv, OpenInv, OpenAnswers,
              CountInv, Settled, Verdict

\* Every step keeps the invariant.
LEMMA PageStep ==
    ASSUME PageInv, [Next]_vars PROVE PageInv'
<1>1. CASE RoutineStep
  BY <1>1, AcceptedStep, RefusedStep, PollStep, HandleStartStep, PrepareStepStep, StartRepliesStep
  DEF RoutineStep
<1>2. CASE PollTimeout
  BY <1>2, PollTimeoutStep
<1>3. CASE NetworkFault
  BY <1>3, PostFailsStep, PollFailsStep, StartFailsStep, LapseStep DEF NetworkFault
<1>4. CASE Visitor
  BY <1>4, BootStep, TextStep, SubmitStep DEF Visitor
<1>5. CASE Recover
  BY <1>5, BootStep DEF Recover
<1>6. ASSUME NEW r \in Rids, ProcessJob(r) PROVE PageInv'
  BY <1>6, ProcessJobStep
<1>7. ASSUME NEW a \in wire, LateAnswer(a) PROVE PageInv'
  BY <1>7, LateAnswerStep
<1>8. CASE LateStart
  BY <1>8, LateStartStep
<1>9. CASE UNCHANGED vars
  BY <1>9, PageStutter
<1> QED
  BY <1>1, <1>2, <1>3, <1>4, <1>5, <1>6, <1>7, <1>8, <1>9 DEF Next

\* The invariant holds in every state the page, the wire and the server reach.
THEOREM PageInductive == Spec => []PageInv
<1>1. Init => PageInv
  BY PageInit
<1>2. PageInv /\ [Next]_vars => PageInv'
  BY PageStep
<1> QED
  BY <1>1, <1>2, PTL DEF Spec

\* The variables have their types; the page is at rest when no routine is under
\* way, and the turn numbers stay within the submissions and the faults.
THEOREM PageTyped == Spec => []TypeOK
<1>1. PageInv => TypeOK
  BY DEF PageInv
<1> QED
  BY <1>1, PageInductive, PTL

\* However calls are lost, delayed or repeated, a turn has at most one answer
\* that may still be settled (the request id kept in localStorage).
THEOREM OneAnswer == Spec => []OneAnswerInFlight
<1>1. PageInv => OneAnswerInFlight
  <2> SUFFICES ASSUME PageInv, ~forced, NEW t \in Turns
               PROVE  Cardinality(OpenAnswers(t)) <= 1
    BY DEF OneAnswerInFlight
  <2>1. OpenAnswers(t) \subseteq {pending.rid}
    BY DEF PageInv, OpenInv, OpenAnswers
  <2>2. IsFiniteSet({pending.rid}) /\ Cardinality({pending.rid}) = 1
    BY FS_Singleton
  <2>3. Cardinality(OpenAnswers(t)) <= Cardinality({pending.rid})
    BY <2>1, <2>2, FS_Subset
  <2> QED
    BY <2>2, <2>3
<1> QED
  BY <1>1, PageInductive, PTL

\* A pending answer with a job id names its job on the server, and a page that
\* asks a question has no answer pending.
THEOREM PendingKnown == Spec => []PendingIsKnown
<1>1. PageInv => PendingIsKnown
  BY DEF PageInv, PendingInv, PendingIsKnown, NoPending
<1> QED
  BY <1>1, PageInductive, PTL

-----------------------------------------------------------------------------
(* Drafts.                                                                 *)

\* A page that asks a question has no routine under way.
LEMMA AsksAtRest ==
    ASSUME PageInv PROVE run.await # "none" => phase # "active"
BY NoRoutineTyped DEF PageInv, TypeOK, RoutineInv, Routine

\* A job that succeeded lets go of the drafts of its own turn.
LEMMA PollForgets ==
    ASSUME PageInv, pollAsyncAnswerJob, NEW t \in drafts, t \notin drafts'
    PROVE  turn > t \/ left = 0
<1>1. run.await = "poll" /\ JobOfRun.status = "succeeded"
  BY DEF pollAsyncAnswerJob, Throws, storageVars
<1>2. pending = run.job /\ run.job.rid \in Rids /\ pending # NoPending
  BY <1>1 DEF PageInv, RoutineInv, NoPending, Rids
<1>3. /\ jobs[run.job.rid].turn < turn \/ left = 0
      /\ jobs[run.job.rid].turn = pending.turn
  BY <1>1, <1>2 DEF PageInv, JobsInv, PendingInv, JobOfRun
<1>4. t = pending.turn
  BY <1>2 DEF PageInv, PendingInv
<1>5. turn \in Nat /\ t \in Nat
  BY PageAssumption DEF PageInv, TypeOK, Turns, Over
<1> QED
  BY <1>3, <1>4, <1>5

\* A start that asks for a turn moves its draft into the box and lets go of those
\* of earlier turns; one that finds nothing to ask ends the interview.
LEMMA StartForgets ==
    ASSUME PageInv, StartReplies, NEW t \in drafts, ~Typed(t)'
    PROVE  turn > t \/ left = 0
<1>1. run.await = "reply"
  BY DEF StartReplies
<1>2. t \notin drafts'
  BY DEF Typed
<1>3. CASE run.refusal = NoCode /\ run.reply = Over
  BY <1>1, <1>3, PageAssumption DEF PageInv, QuestionInv, Turns, Over
<1>4. CASE run.refusal = NoCode /\ run.reply # Over
  <2>1. phase' = "active" /\ question' = run.reply /\ text' = (run.reply \in drafts)
    BY <1>4 DEF StartReplies, Ask, NoCode
  <2>2. t # run.reply
    BY <2>1 DEF Typed
  <2>3. run.reply \in Turns /\ run.reply <= turn /\ t <= run.reply
    BY <1>1, <1>4, PageAssumption DEF PageInv, QuestionInv, Turns, Over
  <2>4. turn \in Nat /\ t \in Nat
    BY PageAssumption DEF PageInv, TypeOK, Turns, Over
  <2> QED
    BY <2>2, <2>3, <2>4 DEF Turns
<1>5. CASE run.refusal = "UNAUTHORIZED" \/ run.refusal = "SESSION_EXPIRED"
  BY <1>2, <1>5 DEF StartReplies, storageVars, NoCode
<1> QED
  BY <1>3, <1>4, <1>5 DEF StartReplies

\* What stays of a text when neither a reply nor the visitor touches it: all.
LEMMA OthersKeep ==
    ASSUME PageInv, [Next]_vars, ~pollAsyncAnswerJob, ~StartReplies, ~Erase,
           NEW t \in Turns, Typed(t), ~Typed(t)'
    PROVE  Reload /\ t \notin drafts
<1>1. drafts \subseteq drafts'
  BY DEF Next, RoutineStep, NetworkFault, Visitor, Recover, vars, storageVars,
     submitPendingAnswerJob, PostRefused, HandleStart, PrepareStep, PollTimeout, PostFails,
     PollFails, StartFails, Throws, CookieLapses, SessionExpires, Reload, PersistDraft, Type,
     requestSubmit, Open, retryPendingRecovery, ReloadAfterError, ProcessJob, LateAnswer, LateStart
<1>2. t \notin drafts /\ phase = "active" /\ question = t /\ text
  BY <1>1 DEF Typed
<1>3. run.await = "none"
  BY <1>2, AsksAtRest
<1>4. ~(phase' = "active" /\ question' = t /\ text')
  BY DEF Typed
<1>5. ~UNCHANGED pageVars
  BY <1>2, <1>4 DEF pageVars
<1>6. ~Open /\ ~retryPendingRecovery /\ ~ReloadAfterError /\ ~requestSubmit /\ ~Type
  BY <1>2 DEF Open, retryPendingRecovery, canRetryPendingRecovery, ReloadAfterError, requestSubmit,
              Type
<1>7. ~RoutineStep /\ ~PollTimeout /\ ~PostFails /\ ~PollFails /\ ~StartFails
  BY <1>3 DEF RoutineStep, submitPendingAnswerJob, PostRefused, pollAsyncAnswerJob, HandleStart,
              PrepareStep, StartReplies, PollTimeout, PostFails, PollFails, StartFails
<1>8. ~CookieLapses /\ ~SessionExpires /\ ~PersistDraft /\ ~LateStart
  BY <1>5 DEF CookieLapses, SessionExpires, PersistDraft, LateStart
<1>9. /\ \A r \in Rids : ~ProcessJob(r)
      /\ \A a \in wire : ~LateAnswer(a)
      /\ ~UNCHANGED vars
  BY <1>5 DEF ProcessJob, LateAnswer, vars
<1> QED
  BY <1>2, <1>6, <1>7, <1>8, <1>9 DEF Next, NetworkFault, Visitor, Recover

\* The exceptions are all there are.
LEMMA ForgottenDrafts ==
    ASSUME PageInv, [Next]_vars, NEW t \in Turns, Typed(t), ~Typed(t)'
    PROVE  turn > t \/ left = 0 \/ Erase \/ (Reload /\ t \notin drafts)
<1>1. run.await # "none" => t \in drafts
  BY AsksAtRest DEF Typed
<1>2. CASE pollAsyncAnswerJob
  <2>1. run.await = "poll"
    BY <1>2 DEF pollAsyncAnswerJob
  <2>2. t \in drafts /\ t \notin drafts'
    BY <1>1, <2>1 DEF Typed
  <2> QED
    BY <1>2, <2>2, PollForgets
<1>3. CASE StartReplies
  <2>1. run.await = "reply"
    BY <1>3 DEF StartReplies
  <2> QED
    BY <1>1, <1>3, <2>1, StartForgets
<1>4. CASE ~pollAsyncAnswerJob /\ ~StartReplies /\ ~Erase
  BY <1>4, OthersKeep
<1> QED
  BY <1>2, <1>3, <1>4

\* What was typed for the turn the server asks stays in the box or in localStorage
\* through submissions, errors, reloads and stale replies, but for the visitor who
\* erases it and a reload before the mounted draft has been stored again.
THEOREM DraftsKept == Spec => DraftKept
<1>1. PageInv /\ [Next]_vars =>
        [\A t \in Turns : Typed(t) =>
            \/ Typed(t)'
            \/ turn > t
            \/ left = 0
            \/ Erase
            \/ (Reload /\ t \notin drafts)]_vars
  BY ForgottenDrafts
<1> QED
  BY <1>1, PageInductive, PTL DEF Spec, DraftKept

=============================================================================
