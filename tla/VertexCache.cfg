SPECIFICATION FairSpec
CONSTANTS
    Callers = {c1, c2}
    NoOne = NoOne
    TokenLife = 2
    TokenMargin = 1
    TTL = 3
    CacheMargin = 1
    HttpTimeout = 1
    MaxContents = 2
    MaxFaults = 1
    MaxNow = 5
INVARIANTS
    TypeOK
    TokenOutlivesExchange
    NameOutlivesMargin
PROPERTIES
    CreateOnlyWhenStale
    CallsReturn
