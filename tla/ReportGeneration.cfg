SPECIFICATION FairSpec
CONSTANTS
    Requests = {r1, r2}
    Workers = {w1, w2}
    QueueSize = 1
    MaxAttempts = 2
    AIAttempts = 2
    MaxAnswers = 1
    FaultKinds = {"db", "reply", "crash", "stale"}
    MaxFaults = 2
INVARIANTS
    ReportInv
    ReadyCoversInterview
PROPERTIES
    ReportsTerminate
CHECK_DEADLOCK FALSE
