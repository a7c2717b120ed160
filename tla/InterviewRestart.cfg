SPECIFICATION Spec
CONSTANTS
    NAreas = 1
    MaxQuestionsPerArea = 1
    AnswerTimeLimit = 1
    InterviewBudget = 2
    Workers = {w1}
    Jobs = {j1, j2, j3}
    Starters = {s1, s2}
    NoJob = NoJob
    QueueSize = 0
    MaxAttempts = 1
    AIRetries = 0
    ExpiresAt = 0
    MaxNow = 0
    FaultKinds = {}
    MaxFaults = 0
SYMMETRY Symmetry
PROPERTIES
    CompletedIsQuiet
CHECK_DEADLOCK FALSE
