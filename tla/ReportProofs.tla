---------------------------- MODULE ReportProofs ----------------------------
(***************************************************************************)
(* A ready report covers the whole interview, for any number of requests,  *)
(* workers and failures, and whatever answers are stored after its end.    *)
(*                                                                         *)
(* The answers only grow in number, and a worker reads them after it found *)
(* the session completed: each read sees at least what the one before saw, *)
(* and the first at least what there was at the end.                       *)
(***************************************************************************)
EXTENDS ReportJobs, TLAPS

\* The initial states satisfy the invariant.
LEMMA ReportInit == Init => ReportInv
<1> SUFFICES ASSUME Init PROVE ReportInv
  OBVIOUS
<1>0. NoReads \in Reads
  BY DEF NoReads, Reads
<1>1. row \in Row /\ answered \in Nat /\ atEnd = answered
  BY <1>0, ReportAssumption DEF Init, Row, Statuses
<1>2. completed \in BOOLEAN
  BY Zenon DEF Init
<1>3. /\ rpc \in [Requests -> RequestPCs]
      /\ wpc \in [Workers -> WorkerPCs]
      /\ input \in [Workers -> Reads]
      /\ tries \in [Workers -> Nat]
      /\ hints \in Nat
      /\ faults \in Nat
  BY <1>0 DEF Init, RequestPCs, WorkerPCs
<1>4. TypeOK
  BY <1>1, <1>2, <1>3 DEF TypeOK
<1>5. ReadyCoversInterview
  BY DEF Init, ReadyCoversInterview
<1> QED
  BY <1>1, <1>4, <1>5 DEF ReportInv, Reading, Init

\* What holds of the reads of a worker at a place holds at any place that has
\* read no more, as long as the answers have not become fewer.
LEMMA ReadsKeep ==
    ASSUME ReportInv, NEW w \in Workers,
           atEnd' = atEnd, completed => completed', answered' \in Nat, answered <= answered',
           \/ wpc'[w] = wpc[w] /\ input'[w] = input[w]
           \/ wpc'[w] \in {"idle", "session", "fail"}
    PROVE  Reading(w)'
<1>1. /\ input[w] \in Reads /\ answered \in Nat /\ atEnd \in Nat
  BY DEF ReportInv, TypeOK
<1>2. Reading(w)
  BY DEF ReportInv
<1> QED
  BY <1>1, <1>2 DEF Reading, Covers, Reads

\* Steps that store no report and read no answers.
LEMMA ReportFrame ==
    ASSUME ReportInv, TypeOK',
           atEnd' = atEnd, completed => completed', answered <= answered',
           row'.status = "ready" => row' = row,
           \A w \in Workers : \/ wpc'[w] = wpc[w] /\ input'[w] = input[w]
                              \/ wpc'[w] \in {"idle", "session", "fail"}
    PROVE  ReportInv'
<1>1. answered \in Nat /\ answered' \in Nat /\ atEnd \in Nat /\ row \in Row
  BY DEF ReportInv, TypeOK
<1>2. ReadyCoversInterview'
  BY <1>1 DEF ReportInv, ReadyCoversInterview, Covers, Row, Reads
<1>3. (atEnd <= answered)'
  BY <1>1 DEF ReportInv
<1>4. \A w \in Workers : Reading(w)'
  BY <1>1, ReadsKeep
<1> QED
  BY <1>2, <1>3, <1>4 DEF ReportInv

\* One read of a worker sees all the answers there are.
LEMMA ReadStep ==
    ASSUME ReportInv, NEW w \in Workers, buildReportInput(w)
    PROVE  ReportInv'
<1>1. UNCHANGED <<completed, answered, atEnd, row, hints, rpc, tries, faults>>
  BY DEF buildReportInput, GetAreasBySession, GetAnswersBySession, GetAnswerCount
<1>2. /\ input[w] \in Reads /\ answered \in Nat /\ atEnd \in Nat /\ atEnd <= answered
      /\ wpc \in [Workers -> WorkerPCs] /\ input \in [Workers -> Reads] /\ Reading(w)
  BY DEF ReportInv, TypeOK
<1>3. /\ wpc' \in [Workers -> WorkerPCs] /\ input' \in [Workers -> Reads]
      /\ \A v \in Workers \ {w} : wpc'[v] = wpc[v] /\ input'[v] = input[v]
  BY <1>2 DEF buildReportInput, GetAreasBySession, GetAnswersBySession, GetAnswerCount, GotoW,
              WorkerPCs, Reads
<1>4. TypeOK'
  BY <1>1, <1>3 DEF ReportInv, TypeOK
<1>5. Reading(w)'
  <2>1. CASE GetAreasBySession(w)
    BY <1>1, <1>2, <2>1 DEF GetAreasBySession, GotoW, Reading, Reads
  <2>2. CASE GetAnswersBySession(w)
    BY <1>1, <1>2, <2>2 DEF GetAnswersBySession, GotoW, Reading, Reads
  <2>3. CASE GetAnswerCount(w)
    BY <1>1, <1>2, <2>3 DEF GetAnswerCount, GotoW, Reading, Covers, Reads
  <2> QED
    BY <2>1, <2>2, <2>3 DEF buildReportInput
<1>6. \A v \in Workers : Reading(v)'
  <2> SUFFICES ASSUME NEW v \in Workers, v # w PROVE Reading(v)'
    BY <1>5
  <2>1. wpc'[v] = wpc[v] /\ input'[v] = input[v]
    BY <1>3
  <2> QED
    BY <1>1, <1>2, <2>1, ReadsKeep
<1> QED
  BY <1>1, <1>4, <1>6 DEF ReportInv, ReadyCoversInterview, Covers

\* Every step keeps the invariant: only a worker that found the session
\* completed reads answers, and from then on they do not become fewer.
LEMMA ReportStep == ReportInv /\ [Next]_vars => ReportInv'
<1> SUFFICES ASSUME ReportInv, [Next]_vars PROVE ReportInv'
  OBVIOUS
<1> USE ReportAssumption
<1>0. /\ atEnd \in Nat /\ answered \in Nat /\ row \in Row /\ NoReads \in Reads
      /\ wpc \in [Workers -> WorkerPCs] /\ input \in [Workers -> Reads]
  BY DEF ReportInv, TypeOK, NoReads, Reads
<1>1. CASE StoreAnswer
  <2>1. TypeOK' /\ answered <= answered'
    BY <1>0, <1>1 DEF StoreAnswer, ReportInv, TypeOK
  <2> QED
    BY <1>1, <2>1, ReportFrame DEF StoreAnswer
<1>2. CASE CompleteSession
  <2>1. /\ ~completed /\ completed' = TRUE /\ atEnd' = answered
        /\ UNCHANGED <<answered, row, hints, rpc, wpc, input, tries, faults>>
    BY <1>2 DEF CompleteSession
  <2>2. TypeOK'
    BY <1>0, <2>1 DEF ReportInv, TypeOK
  <2>3. \A w \in Workers : Reading(w)'
    BY <2>1 DEF ReportInv, Reading
  <2>4. ReadyCoversInterview'
    BY <2>1 DEF ReportInv, ReadyCoversInterview
  <2> QED
    BY <1>0, <2>1, <2>2, <2>3, <2>4 DEF ReportInv
<1>3. ASSUME NEW r \in Requests,
             \/ GenerateReportAsync(r) \/ CheckSession(r) \/ GetReportBySession(r)
             \/ SetReportLastRequestID(r) \/ RequestFails(r)
      PROVE  ReportInv'
  <2>1. rpc' \in [Requests -> RequestPCs]
    BY <1>3 DEF GenerateReportAsync, CheckSession, GetReportBySession, AfterRead,
                SetReportLastRequestID, RequestFails, GotoR, ReportInv, TypeOK, RequestPCs,
                Row, Statuses
  <2>2. hints' \in Nat /\ faults' \in Nat
    BY <1>3 DEF GenerateReportAsync, CheckSession, GetReportBySession, enqueueReport,
                SetReportLastRequestID, RequestFails, Fault, ReportInv, TypeOK
  <2>3. UNCHANGED <<completed, answered, atEnd, row, wpc, input, tries>>
    BY <1>3 DEF GenerateReportAsync, CheckSession, GetReportBySession,
                SetReportLastRequestID, RequestFails
  <2>4. TypeOK'
    BY <2>1, <2>2, <2>3 DEF ReportInv, TypeOK
  <2> QED
    BY <1>0, <2>3, <2>4, ReportFrame
<1>4. ASSUME NEW r \in Requests, SetReportQueued(r) \/ CreateReport(r) \/ RequestReplyLost(r)
      PROVE  ReportInv'
  <2>1. rpc' \in [Requests -> RequestPCs]
    BY <1>4 DEF SetReportQueued, CreateReport, RequestReplyLost, GotoR, ReportInv, TypeOK, RequestPCs
  <2>2. hints' \in Nat /\ faults' \in Nat
    BY <1>4 DEF SetReportQueued, CreateReport, RequestReplyLost, enqueueReport, Fault, ReportInv, TypeOK
  <2>3. row' \in Row /\ (row'.status = "ready" => row' = row)
    BY <1>0, <1>4 DEF SetReportQueued, CreateReport, RequestReplyLost, Requeue, Insert, Row, Statuses
  <2>4. UNCHANGED <<completed, answered, atEnd, wpc, input, tries>>
    BY <1>4 DEF SetReportQueued, CreateReport, RequestReplyLost
  <2>5. TypeOK'
    BY <2>1, <2>2, <2>3, <2>4 DEF ReportInv, TypeOK
  <2> QED
    BY <1>0, <2>3, <2>4, <2>5, ReportFrame
<1>5. ASSUME NEW w \in Workers, ClaimQueuedReport(w) \/ ClaimNextQueuedReport(w)
      PROVE  ReportInv'
  <2>1. wpc' \in [Workers -> WorkerPCs] /\ \A v \in Workers : wpc'[v] \in {wpc[v], "fail", "session"}
    BY <1>0, <1>5 DEF ClaimQueuedReport, ClaimNextQueuedReport, Begin, GotoW, WorkerPCs
  <2>2. hints' \in Nat
    BY <1>5 DEF ClaimQueuedReport, ClaimNextQueuedReport, ReportInv, TypeOK
  <2>3. row' \in Row /\ (row'.status = "ready" => row' = row)
    BY <1>0, <1>5 DEF ClaimQueuedReport, ClaimNextQueuedReport, Begin, Row, Statuses
  <2>4. UNCHANGED <<completed, answered, atEnd, rpc, input, tries, faults>>
    BY <1>5 DEF ClaimQueuedReport, ClaimNextQueuedReport
  <2>5. TypeOK'
    BY <2>1, <2>2, <2>3, <2>4 DEF ReportInv, TypeOK
  <2> QED
    BY <1>0, <2>1, <2>3, <2>4, <2>5, ReportFrame
<1>6. ASSUME NEW w \in Workers, CheckCompleted(w)
      PROVE  ReportInv'
  <2>1. UNCHANGED <<completed, answered, atEnd, row, hints, rpc, input, tries, faults>>
    BY <1>6 DEF CheckCompleted
  <2>2. /\ wpc' \in [Workers -> WorkerPCs]
        /\ wpc'[w] \in {"areas", "fail"} /\ (wpc'[w] = "areas" => completed)
        /\ \A v \in Workers \ {w} : wpc'[v] = wpc[v]
    BY <1>0, <1>6 DEF CheckCompleted, getCompletedSession, GotoW, WorkerPCs
  <2>3. TypeOK'
    BY <2>1, <2>2 DEF ReportInv, TypeOK
  <2>4. \A v \in Workers : Reading(v)'
    BY <2>1, <2>2 DEF ReportInv, Reading, Covers
  <2> QED
    BY <2>1, <2>3, <2>4 DEF ReportInv, ReadyCoversInterview, Covers
<1>7. ASSUME NEW w \in Workers, buildReportInput(w)
      PROVE  ReportInv'
  BY <1>7, ReadStep
<1>8. ASSUME NEW w \in Workers, GenerateReport(w)
      PROVE  ReportInv'
  <2>1. UNCHANGED <<completed, answered, atEnd, row, hints, rpc, faults>> /\ wpc[w] = "ai"
    BY <1>8 DEF GenerateReport
  <2>2. /\ wpc' \in [Workers -> WorkerPCs] /\ input' \in [Workers -> Reads]
        /\ \/ wpc'[w] \in {"ai", "ready"} /\ input'[w] = input[w]
           \/ wpc'[w] = "fail"
        /\ \A v \in Workers \ {w} : wpc'[v] = wpc[v] /\ input'[v] = input[v]
    BY <1>0, <1>8, <2>1 DEF GenerateReport, Leave, GotoW, WorkerPCs
  <2>3. tries' \in [Workers -> Nat]
    BY <1>8 DEF GenerateReport, Leave, ReportInv, TypeOK
  <2>4. TypeOK'
    BY <2>1, <2>2, <2>3 DEF ReportInv, TypeOK
  <2>5. \A v \in Workers : Reading(v)'
    BY <2>1, <2>2 DEF ReportInv, Reading, Covers
  <2> QED
    BY <2>1, <2>4, <2>5 DEF ReportInv, ReadyCoversInterview, Covers
<1>9. ASSUME NEW w \in Workers, MarkReportReady(w) \/ MarkReadyFails(w)
      PROVE  ReportInv'
  <2>1. wpc[w] = "ready" /\ completed /\ Covers(input[w])
    BY <1>9 DEF MarkReportReady, MarkReadyFails, ReportInv, Reading
  <2>2. row' \in Row /\ (row' = row \/ row'.content = input[w])
    BY <1>0, <1>9 DEF MarkReportReady, MarkReadyFails, StoreReady, Row, Statuses
  <2>3. /\ wpc' \in [Workers -> WorkerPCs] /\ input' \in [Workers -> Reads]
        /\ wpc'[w] \in {"idle", "fail"}
        /\ \A v \in Workers \ {w} : wpc'[v] = wpc[v] /\ input'[v] = input[v]
    BY <1>0, <1>9 DEF MarkReportReady, MarkReadyFails, Leave, GotoW, WorkerPCs
  <2>4. faults' \in Nat /\ tries' \in [Workers -> Nat]
    BY <1>9 DEF MarkReportReady, MarkReadyFails, Leave, Fault, ReportInv, TypeOK
  <2>5. UNCHANGED <<completed, answered, atEnd, hints, rpc>>
    BY <1>9 DEF MarkReportReady, MarkReadyFails
  <2>6. TypeOK'
    BY <2>2, <2>3, <2>4, <2>5 DEF ReportInv, TypeOK
  <2>7. ReadyCoversInterview'
    BY <2>1, <2>2, <2>5 DEF ReportInv, ReadyCoversInterview, Covers
  <2>8. \A v \in Workers : Reading(v)'
    BY <2>3, <2>5 DEF ReportInv, Reading, Covers
  <2> QED
    BY <2>5, <2>6, <2>7, <2>8 DEF ReportInv
<1>10. ASSUME NEW w \in Workers, MarkReportFailed(w) \/ ProcessFails(w) \/ LeaveRunning(w)
       PROVE  ReportInv'
  <2>1. /\ wpc' \in [Workers -> WorkerPCs] /\ input' \in [Workers -> Reads]
        /\ wpc'[w] \in {"idle", "fail"}
        /\ \A v \in Workers \ {w} : wpc'[v] = wpc[v] /\ input'[v] = input[v]
    BY <1>0, <1>10 DEF MarkReportFailed, ProcessFails, LeaveRunning, Leave, GotoW, WorkerPCs
  <2>2. row' \in Row /\ (row'.status = "ready" => row' = row)
    BY <1>0, <1>10 DEF MarkReportFailed, ProcessFails, LeaveRunning, Row, Statuses
  <2>3. faults' \in Nat /\ tries' \in [Workers -> Nat]
    BY <1>10 DEF MarkReportFailed, ProcessFails, LeaveRunning, Leave, Fault, ReportInv, TypeOK
  <2>4. UNCHANGED <<completed, answered, atEnd, hints, rpc>>
    BY <1>10 DEF MarkReportFailed, ProcessFails, LeaveRunning
  <2>5. TypeOK'
    BY <2>1, <2>2, <2>3, <2>4 DEF ReportInv, TypeOK
  <2> QED
    BY <1>0, <2>1, <2>2, <2>4, <2>5, ReportFrame
<1>11. CASE ClaimLost \/ RequeueStale
  <2>1. row' \in Row /\ row'.status # "ready"
    BY <1>0, <1>11 DEF ClaimLost, RequeueStale, Row, Statuses
  <2>2. faults' \in Nat
    BY <1>11 DEF ClaimLost, RequeueStale, Fault, ReportInv, TypeOK
  <2>3. UNCHANGED <<completed, answered, atEnd, hints, rpc, wpc, input, tries>>
    BY <1>11 DEF ClaimLost, RequeueStale
  <2>4. TypeOK'
    BY <2>1, <2>2, <2>3 DEF ReportInv, TypeOK
  <2> QED
    BY <1>0, <2>1, <2>3, <2>4, ReportFrame
<1>12. CASE Restart
  <2>1. TypeOK'
    BY <1>0, <1>12 DEF Restart, Fault, ReportInv, TypeOK, RequestPCs, WorkerPCs
  <2>2. UNCHANGED <<completed, answered, atEnd, row>> /\ \A w \in Workers : wpc'[w] = "idle"
    BY <1>12 DEF Restart
  <2> QED
    BY <1>0, <2>1, <2>2, ReportFrame
<1>13. CASE UNCHANGED vars
  <2>1. TypeOK'
    BY <1>13 DEF vars, ReportInv, TypeOK
  <2> QED
    BY <1>0, <1>13, <2>1, ReportFrame DEF vars
<1> QED
  BY <1>1, <1>2, <1>3, <1>4, <1>5, <1>6, <1>7, <1>8, <1>9, <1>10, <1>11, <1>12, <1>13
  DEF Next, RequestStep, WorkerStep

\* The invariant holds in every reachable state.
THEOREM ReportInductive == Spec => []ReportInv
  BY ReportInit, ReportStep, PTL DEF Spec

\* A ready report misses no answer that its session had when it was completed,
\* and its areas, answers and count are no older one than the other, however
\* requests, workers, recovery and late answers overlap and fail
\* (getCompletedSession before buildReportInput in processClaimedReport).
THEOREM ReadyReportsAreWhole == Spec => []ReadyCoversInterview
<1>1. ReportInv => ReadyCoversInterview
  BY DEF ReportInv
<1> QED
  BY <1>1, ReportInductive, PTL

=============================================================================
