SPECIFICATION Spec
CONSTANTS
    NAreas = 2
    MaxQuestionsPerArea = 1
    AnswerTimeLimit = 1
    InterviewBudget = 1
    Workers = {w1}
    Jobs = {j1, j2, j3}
    Starters = {s1}
    NoJob = NoJob
    QueueSize = 0
    MaxAttempts = 1
    AIRetries = 0
    ExpiresAt = 2
    MaxNow = 2
    FaultKinds = {}
    MaxFaults = 0
SYMMETRY Symmetry
INVARIANTS
    NothingLeftInProgress
CHECK_DEADLOCK FALSE
