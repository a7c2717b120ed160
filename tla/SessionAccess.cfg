SPECIFICATION Spec
CONSTANTS
    Claims = {c1, c2}
    Requests = {r1, r2}
    Clients = {i1}
    Visited = {c1}
    NoOne = NoOne
    MaxUses = 1
    CouponExpiresAt = 1
    SessionTTL = 2
    AuthMaxTTL = 1
    ClockSkew = 1
    MaxNow = 4
    MaxFailures = 2
    Window = 2
    Lockout = 2
    RequestsPerMinute = 1
    Cost = 1
    Burst = 3
SYMMETRY Symmetry
INVARIANTS
    TypeOK
    CouponNotOverdrawn
    GuessesBounded
    AdmittedWithinRate
    AccessEndsWithSession
    NothingToEvict
PROPERTIES
    LockoutIsServed
