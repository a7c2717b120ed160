SPECIFICATION Spec
CONSTANTS
    NAreas = 2
    MaxQuestionsPerArea = 2
    AnswerTimeLimit = 1
    InterviewBudget = 2
    Workers = {w1}
    Jobs = {j1, j2, j3, j4, j5}
    Starters = {s1}
    NoJob = NoJob
    QueueSize = 1
    MaxAttempts = 2
    AIRetries = 0
    ExpiresAt = 0
    MaxNow = 1
    FaultKinds = {}
    MaxFaults = 0
SYMMETRY Symmetry
INVARIANTS
    CountersMatchRows
    QuestionsCapped
CHECK_DEADLOCK FALSE
