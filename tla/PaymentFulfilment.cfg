SPECIFICATION FairSpec
CONSTANTS
    Webhooks = {h1}
    Polls = {q1, q2}
    NoRequest = NoRequest
    RevealTTL = 1
    MaxNow = 2
    MaxFaults = 2
INVARIANTS
    PaymentInv
    FulfilledOnce
    FulfilledOnlyIfPaid
    PinRevealedOnce
PROPERTIES
    FulfilmentIsFinal
    PaidIsProvisioned
CHECK_DEADLOCK FALSE
