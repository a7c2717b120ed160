SPECIFICATION FairSpec
CONSTANTS
    NAreas = 1
    MaxQuestionsPerArea = 1
    AnswerTimeLimit = 1
    InterviewBudget = 2
    Workers = {w1}
    Jobs = {j1, j2, j3}
    Starters = {s1}
    NoJob = NoJob
    QueueSize = 1
    MaxAttempts = 2
    AIRetries = 1
    ExpiresAt = 0
    MaxNow = 0
    FaultKinds = {"complete", "mark", "crash", "stale"}
    MaxFaults = 1
PROPERTIES
    JobsTerminate
    EndedIsCompleted
CHECK_DEADLOCK FALSE
