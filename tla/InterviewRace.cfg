SPECIFICATION Spec
CONSTANTS
    NAreas = 2
    MaxQuestionsPerArea = 1
    AnswerTimeLimit = 1
    InterviewBudget = 2
    Workers = {w1, w2}
    Jobs = {j1, j2, j3}
    Starters = {s1, s2}
    NoJob = NoJob
    QueueSize = 0
    MaxAttempts = 2
    AIRetries = 0
    ExpiresAt = 0
    MaxNow = 0
    FaultKinds = {"read", "tx", "complete", "mark", "crash", "stale"}
    MaxFaults = 1
SYMMETRY Symmetry
INVARIANTS
    TurnAppliedOnce
    OneInProgress
    SucceededIsTrue
    IInv
PROPERTIES
    AnswerStoredUnderItsArea
    ImplementsLedger
CHECK_DEADLOCK FALSE
