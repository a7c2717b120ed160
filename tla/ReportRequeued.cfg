SPECIFICATION Spec
CONSTANTS
    Requests = {r1, r2}
    Workers = {w1}
    QueueSize = 1
    MaxAttempts = 2
    AIAttempts = 1
    MaxAnswers = 1
    FaultKinds = {}
    MaxFaults = 0
SYMMETRY Symmetry
PROPERTIES
    ReadyIsFinal
CHECK_DEADLOCK FALSE
