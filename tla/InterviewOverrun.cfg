SPECIFICATION Spec
CONSTANTS
    NAreas = 2
    MaxQuestionsPerArea = 1
    AnswerTimeLimit = 1
    InterviewBudget = 1
    Workers = {w1, w2}
    Jobs = {j1, j2, j3, j4}
    Starters = {s1}
    NoJob = NoJob
    QueueSize = 0
    MaxAttempts = 2
    AIRetries = 0
    ExpiresAt = 2
    MaxNow = 2
    FaultKinds = {}
    MaxFaults = 0
SYMMETRY Symmetry
INVARIANTS
    LapsedWithinBudget
PROPERTIES
    CompletedIsQuiet
    VerdictIsFinal
CHECK_DEADLOCK FALSE
