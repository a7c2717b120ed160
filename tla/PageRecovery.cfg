SPECIFICATION FairSpec
CONSTANTS
    NTurns = 2
    MaxSubmits = 3
    BreakerFailures = 2
    MaxFaults = 3
INVARIANTS
    TypeOK
    OneAnswerInFlight
    PendingIsKnown
PROPERTIES
    DraftKept
    RoutinesEnd
    EventuallyUsable
CHECK_DEADLOCK FALSE
