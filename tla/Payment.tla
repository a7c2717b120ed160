------------------------------- MODULE Payment -------------------------------
(***************************************************************************)
(* One payment: the payments row with its FOR UPDATE lock, the checkout    *)
(* request that creates it, the Stripe checkout session, the deliveries of *)
(* Stripe's webhook and the polls of the success page.  Webhook and poll   *)
(* may both fulfil the payment: they create a session with a one-time PIN, *)
(* or a coupon.                                                            *)
(*                                                                         *)
(* A transaction that reads the locked row and then writes it takes two    *)
(* steps; a statement that only updates the row waits for the lock too.    *)
(***************************************************************************)
EXTENDS Integers, FiniteSets

CONSTANTS
    Webhooks,       \* concurrent deliveries of checkout.session.completed
    Polls,          \* concurrent GET /payment/checkout-sessions/{id}
    NoRequest,      \* nobody holds the row lock
    RevealTTL,      \* how long the PIN may be read, 10 minutes in the code
    MaxNow,         \* bound: the clock stops here
    MaxFaults       \* bound: failures injected in one behaviour

Requests == Webhooks \cup Polls

ASSUME PaymentAssumption ==
    /\ Webhooks \cap Polls = {}
    /\ NoRequest \notin Requests
    /\ RevealTTL \in Nat \ {0}
    /\ MaxNow \in Nat
    /\ MaxFaults \in Nat

VARIABLES
    row,        \* the payments row
    sessions,   \* session codes created for it
    coupons,    \* coupon codes created for it
    nextCode,   \* the next code to be generated
    lock,       \* the request whose transaction holds the row lock
    cpc,        \* the checkout request
    checkout,   \* Stripe's checkout session
    amountOk,   \* amount and currency paid are the stored ones
    acked,      \* Stripe saw a 200 for its event
    rpc, at,    \* webhook and poll requests: where they are, when they arrived
    seen,       \* the row as the request read it under the lock
    revealed,   \* how many replies carried the PIN
    now, faults

vars == <<row, sessions, coupons, nextCode, lock, cpc, checkout, amountOk, acked,
          rpc, at, seen, revealed, now, faults>>

Products == {"direct_session", "coupon_pack_10"}
Statuses == {"absent", "pending", "paid_unprovisioned", "provisioned", "failed"}
NoCode   == 0

Row == [status : Statuses, product : Products, attached : BOOLEAN, code : Nat,
        until : Nat, consumed : BOOLEAN]

CheckoutPCs == {"new", "stripe", "attach", "failcreate", "faillink", "returned", "ended"}
RequestPCs  == {"idle", "get", "mismatch", "paid", "lock", "resolve", "provfail"}

-----------------------------------------------------------------------------
NewRow(status, p) == [status |-> status, product |-> p, attached |-> FALSE,
                      code |-> NoCode, until |-> 0, consumed |-> FALSE]

Init ==
    /\ row = NewRow("absent", "direct_session")
    /\ sessions = {}
    /\ coupons = {}
    /\ nextCode = 1
    /\ lock = NoRequest
    /\ cpc = "new"
    /\ checkout = "none"
    /\ amountOk = TRUE
    /\ acked = FALSE
    /\ rpc = [r \in Requests |-> "idle"]
    /\ at = [r \in Requests |-> 0]
    /\ seen = [r \in Requests |-> NewRow("absent", "direct_session")]
    /\ revealed = 0
    /\ now = 0
    /\ faults = 0

Fault ==
    /\ faults < MaxFaults
    /\ faults' = faults + 1

\* Mutant: the row is read without FOR UPDATE.
UnlockedAlways == TRUE

\* A statement on the row waits until no other transaction holds its lock.
Unlocked == lock = NoRequest

\* withLockedPayment attaches the checkout session id if the row has none.
WithCheckout(known) == IF known THEN [row EXCEPT !.attached = TRUE] ELSE row

Goto(r, place) == rpc' = [rpc EXCEPT ![r] = place]

-----------------------------------------------------------------------------
(* CreateCheckout.                                                         *)

CreatePendingPayment(p) ==
    /\ cpc = "new"
    /\ row' = NewRow("pending", p)
    /\ cpc' = "stripe"
    /\ UNCHANGED <<sessions, coupons, nextCode, lock, checkout, amountOk, acked,
                   rpc, at, seen, revealed, now, faults>>

CreateCheckoutSession ==
    /\ cpc = "stripe"
    /\ \/ /\ checkout' = "open"
          /\ cpc' = "attach"
          /\ UNCHANGED faults
       \/ /\ Fault                              \* with or without a session at Stripe
          /\ checkout' \in {"none", "open"}
          /\ cpc' = "failcreate"
    /\ UNCHANGED <<row, sessions, coupons, nextCode, lock, amountOk, acked,
                   rpc, at, seen, revealed, now>>

\* Only now does the customer get the URL of the hosted checkout page.
AttachCheckoutSessionID ==
    /\ cpc = "attach"
    /\ Unlocked
    /\ row' = [row EXCEPT !.attached = TRUE]
    /\ cpc' = "returned"
    /\ UNCHANGED <<sessions, coupons, nextCode, lock, checkout, amountOk, acked,
                   rpc, at, seen, revealed, now, faults>>

\* The update fails, or its reply is lost.
AttachFails ==
    /\ cpc = "attach"
    /\ Fault
    /\ \E written \in BOOLEAN : row' = WithCheckout(written)
    /\ cpc' = "faillink"
    /\ UNCHANGED <<sessions, coupons, nextCode, lock, checkout, amountOk, acked,
                   rpc, at, seen, revealed, now>>

\* The result of this MarkPaymentFailed is ignored: the row may stay pending.
CheckoutFailed ==
    /\ cpc \in {"failcreate", "faillink"}
    /\ Unlocked
    /\ \/ /\ row' = [WithCheckout(cpc = "faillink") EXCEPT !.status = "failed"]
          /\ UNCHANGED faults
       \/ /\ Fault
          /\ UNCHANGED row
    /\ cpc' = "ended"
    /\ UNCHANGED <<sessions, coupons, nextCode, lock, checkout, amountOk, acked,
                   rpc, at, seen, revealed, now>>

-----------------------------------------------------------------------------
(* Stripe and the customer.                                                *)

CustomerPays ==
    /\ cpc = "returned"
    /\ checkout = "open"
    /\ checkout' = "paid"
    /\ amountOk' \in BOOLEAN
    /\ UNCHANGED <<row, sessions, coupons, nextCode, lock, cpc, acked,
                   rpc, at, seen, revealed, now, faults>>

\* At least once: redelivered until acknowledged, and sometimes after that.
DeliverWebhook(h) ==
    /\ checkout = "paid"
    /\ rpc[h] = "idle"
    /\ Goto(h, "get")
    /\ at' = [at EXCEPT ![h] = now]
    /\ UNCHANGED <<row, sessions, coupons, nextCode, lock, cpc, checkout, amountOk, acked,
                   seen, revealed, now, faults>>

StartPoll(q) ==
    /\ cpc = "returned"
    /\ rpc[q] = "idle"
    /\ Goto(q, "lock")
    /\ at' = [at EXCEPT ![q] = now]
    /\ UNCHANGED <<row, sessions, coupons, nextCode, lock, cpc, checkout, amountOk, acked,
                   seen, revealed, now, faults>>

-----------------------------------------------------------------------------
(* HandleWebhook: three transactions.                                      *)

\* Mutant: the amount that was paid is not looked at.
GetPaymentAnyAmount(h) ==
    /\ rpc[h] = "get"
    /\ Unlocked
    /\ row' = WithCheckout(TRUE)
    /\ Goto(h, "paid")
    /\ UNCHANGED <<sessions, coupons, nextCode, lock, cpc, checkout, amountOk, acked,
                   at, seen, revealed, now, faults>>

GetPayment(h) ==
    /\ rpc[h] = "get"
    /\ Unlocked
    /\ row' = WithCheckout(TRUE)
    /\ Goto(h, IF amountOk THEN "paid" ELSE "mismatch")
    /\ UNCHANGED <<sessions, coupons, nextCode, lock, cpc, checkout, amountOk, acked,
                   at, seen, revealed, now, faults>>

\* Whatever the status is: the row becomes failed.
MarkPaymentFailed(h) ==
    /\ rpc[h] = "mismatch"
    /\ Unlocked
    /\ row' = [row EXCEPT !.status = "failed"]
    /\ acked' = TRUE
    /\ Goto(h, "idle")
    /\ UNCHANGED <<sessions, coupons, nextCode, lock, cpc, checkout, amountOk,
                   at, seen, revealed, now, faults>>

\* Mutant: the update is unconditional.
PaidStatusAlways(status) == "paid_unprovisioned"

PaidStatus(status) == IF status = "pending" THEN "paid_unprovisioned" ELSE status

MarkPaymentPaid(h) ==
    /\ rpc[h] = "paid"
    /\ Unlocked
    /\ row' = [row EXCEPT !.status = PaidStatus(row.status)]
    /\ IF row'.status = "paid_unprovisioned"
       THEN /\ Goto(h, "lock")
            /\ UNCHANGED acked
       ELSE /\ Goto(h, "idle")
            /\ acked' = TRUE
    /\ UNCHANGED <<sessions, coupons, nextCode, lock, cpc, checkout, amountOk,
                   at, seen, revealed, now, faults>>

-----------------------------------------------------------------------------
(* resolveCheckoutSession: the transaction both webhook and poll run.      *)

GetPaymentForUpdate(r) ==
    /\ rpc[r] = "lock"
    /\ Unlocked
    /\ lock' = r
    /\ seen' = [seen EXCEPT ![r] = row]
    /\ Goto(r, "resolve")
    /\ UNCHANGED <<row, sessions, coupons, nextCode, cpc, checkout, amountOk, acked,
                   at, revealed, now, faults>>

\* provisionLockedPayment: the code, the PIN and its deadline are new.
Provisioned(rw) ==
    [status |-> "provisioned", product |-> rw.product, attached |-> rw.attached,
     code |-> nextCode, consumed |-> FALSE,
     until |-> IF rw.product = "direct_session" THEN now + RevealTTL ELSE 0]

provisionLockedPayment(rw) ==
    /\ nextCode' = nextCode + 1
    /\ IF rw.product = "direct_session"
       THEN sessions' = sessions \cup {nextCode} /\ UNCHANGED coupons
       ELSE coupons' = coupons \cup {nextCode} /\ UNCHANGED sessions

\* What the transaction writes for the row rw it has locked.
Resolve(rw) ==
    IF rw.status = "paid_unprovisioned"
    THEN row' = Provisioned(rw) /\ provisionLockedPayment(rw)
    ELSE UNCHANGED <<row, sessions, coupons, nextCode>>

\* Mutant: the PIN is returned and not marked as read.
ConsumeNothing(rw) == rw

ConsumePaymentReveal(rw) == [rw EXCEPT !.consumed = TRUE]

\* A poll that arrived in time reveals the PIN of a direct session nobody read.
Reveals(q, rw) ==
    /\ rw.product = "direct_session"
    /\ \/ rw.status = "paid_unprovisioned"
       \/ rw.status = "provisioned" /\ ~rw.consumed /\ at[q] < rw.until

\* The same transaction for a poll: the PIN is handed out and consumed.
\* ErrRevealConsumed and ErrRevealExpired roll back, with nothing written.
ResolveForPoll(q, rw) ==
    IF Reveals(q, rw)
    THEN IF rw.status = "paid_unprovisioned"
         THEN row' = ConsumePaymentReveal(Provisioned(rw)) /\ provisionLockedPayment(rw)
         ELSE row' = ConsumePaymentReveal(rw) /\ UNCHANGED <<sessions, coupons, nextCode>>
    ELSE Resolve(rw)

ProvisionIfNeeded(h) ==
    /\ h \in Webhooks
    /\ rpc[h] = "resolve"
    /\ Resolve(seen[h])
    /\ acked' = TRUE
    /\ lock' = NoRequest
    /\ Goto(h, "idle")
    /\ UNCHANGED <<cpc, checkout, amountOk, at, seen, revealed, now, faults>>

\* The reply carries the PIN exactly when the row's reveal was consumed here.
ResolveCheckoutSessionForPoll(q) ==
    /\ q \in Polls
    /\ rpc[q] = "resolve"
    /\ ResolveForPoll(q, seen[q])
    /\ revealed' = IF Reveals(q, seen[q]) THEN revealed + 1 ELSE revealed
    /\ lock' = NoRequest
    /\ Goto(q, "idle")
    /\ UNCHANGED <<cpc, checkout, amountOk, acked, at, seen, now, faults>>

\* The transaction fails and is rolled back, or commits and the reply is lost.
ResolveFails(r) ==
    /\ rpc[r] = "resolve"
    /\ Fault
    /\ \/ UNCHANGED <<row, sessions, coupons, nextCode>>
       \/ r \in Webhooks /\ Resolve(seen[r])
       \/ r \in Polls /\ ResolveForPoll(r, seen[r])
    /\ lock' = NoRequest
    /\ Goto(r, "provfail")
    /\ UNCHANGED <<cpc, checkout, amountOk, acked, at, seen, revealed, now>>

\* Mutant: the webhook answers 200 once the failure is noted.
AckProvisionFailure(r) ==
    /\ rpc[r] = "provfail"
    /\ Unlocked
    /\ acked' = (acked \/ r \in Webhooks)
    /\ Goto(r, "idle")
    /\ UNCHANGED <<row, sessions, coupons, nextCode, lock, cpc, checkout, amountOk,
                   at, seen, revealed, now, faults>>

\* MarkProvisionFailure notes a failure code on a paid row, nothing more; the
\* poll answers pending, the webhook an error.
MarkProvisionFailure(r) ==
    /\ rpc[r] = "provfail"
    /\ Unlocked
    /\ Goto(r, "idle")
    /\ UNCHANGED <<row, sessions, coupons, nextCode, lock, cpc, checkout, amountOk, acked,
                   at, seen, revealed, now, faults>>

\* A statement fails, the client goes away, or the process dies: the lock is
\* released and the request ends without a success.
RequestDies(r) ==
    /\ rpc[r] # "idle"
    /\ Fault
    /\ lock' = IF lock = r THEN NoRequest ELSE lock
    /\ Goto(r, "idle")
    /\ UNCHANGED <<row, sessions, coupons, nextCode, cpc, checkout, amountOk, acked,
                   at, seen, revealed, now>>

CheckoutDies ==
    /\ cpc \notin {"returned", "ended"}
    /\ Fault
    /\ cpc' = "ended"
    /\ UNCHANGED <<row, sessions, coupons, nextCode, lock, checkout, amountOk, acked,
                   rpc, at, seen, revealed, now>>

Tick ==
    /\ now < MaxNow
    /\ now' = now + 1
    /\ UNCHANGED <<row, sessions, coupons, nextCode, lock, cpc, checkout, amountOk, acked,
                   rpc, at, seen, revealed, faults>>

-----------------------------------------------------------------------------
CreateCheckout ==
    \/ \E p \in Products : CreatePendingPayment(p)
    \/ CreateCheckoutSession
    \/ AttachCheckoutSessionID
    \/ AttachFails
    \/ CheckoutFailed
    \/ CheckoutDies

\* What a request does by itself once it has arrived.
RequestStep(r) ==
    \/ GetPayment(r)
    \/ MarkPaymentFailed(r)
    \/ MarkPaymentPaid(r)
    \/ GetPaymentForUpdate(r)
    \/ ProvisionIfNeeded(r)
    \/ ResolveCheckoutSessionForPoll(r)
    \/ MarkProvisionFailure(r)

Next ==
    \/ CreateCheckout
    \/ CustomerPays
    \/ \E h \in Webhooks : DeliverWebhook(h)
    \/ \E q \in Polls : StartPoll(q)
    \/ \E r \in Requests : RequestStep(r)
    \/ \E r \in Requests : ResolveFails(r) \/ RequestDies(r)
    \/ Tick

Spec == Init /\ [][Next]_vars

\* Requests run; the row lock is granted in turn, so a request that waits for
\* it is not overtaken for ever; Stripe redelivers until it sees a 200.
Fairness ==
    /\ \A r \in Requests : SF_vars(RequestStep(r))
    /\ \A h \in Webhooks : WF_vars(~acked /\ DeliverWebhook(h))

FairSpec == Spec /\ Fairness

-----------------------------------------------------------------------------
TypeOK ==
    /\ row \in Row
    /\ sessions \in SUBSET Nat
    /\ coupons \in SUBSET Nat
    /\ nextCode \in Nat \ {0}
    /\ lock \in Requests \cup {NoRequest}
    /\ cpc \in CheckoutPCs
    /\ checkout \in {"none", "open", "paid"}
    /\ amountOk \in BOOLEAN
    /\ acked \in BOOLEAN
    /\ rpc \in [Requests -> RequestPCs]
    /\ at \in [Requests -> Nat]
    /\ seen \in [Requests -> Row]
    /\ revealed \in Nat
    /\ now \in Nat
    /\ faults \in Nat

\* A payment is fulfilled at most once, however webhook deliveries, their
\* redeliveries and polls overlap and fail: FOR UPDATE in
\* resolveCheckoutSession prevents double provisioning.  What was created is
\* what the row says, and a row that is not provisioned created nothing.
FulfilledOnce ==
    sessions \cup coupons = IF row.status = "provisioned" THEN {row.code} ELSE {}

\* Nothing is handed out that was not paid for in full.
FulfilledOnlyIfPaid ==
    sessions \cup coupons # {} => checkout = "paid" /\ amountOk

\* The PIN leaves the system at most once, and only as the reply that
\* consumed it (ConsumePaymentReveal in resolvePollResult).
PinRevealedOnce == revealed <= IF row.consumed THEN 1 ELSE 0

\* Once provisioned a payment keeps its status and its code: no late webhook,
\* amount check or failure note takes them back.
FulfilmentIsFinal ==
    [][row.status = "provisioned" => row'.status = "provisioned" /\ row'.code = row.code]_vars

\* The invariant behind the four: who holds the lock has read the row as it
\* is, a request that got past the amount check has a paid checkout behind it,
\* and a failed checkout request never gave the customer a page to pay on.
LockInv ==
    \A r \in Requests : /\ (rpc[r] = "resolve") <=> (lock = r)
                        /\ rpc[r] = "resolve" => seen[r] = row

PaidInv ==
    /\ checkout = "paid" \/ (\E r \in Requests : rpc[r] # "idle") => cpc = "returned"
    /\ row.status \in {"paid_unprovisioned", "provisioned"} => checkout = "paid" /\ amountOk
    /\ \A r \in Requests : /\ rpc[r] \in {"get", "mismatch", "paid"} => checkout = "paid"
                           /\ rpc[r] = "paid" => amountOk
                           /\ rpc[r] = "mismatch" => ~amountOk
    /\ row.status # "provisioned" => ~row.consumed
    /\ cpc = "new" => row.status = "absent"

PaymentInv == TypeOK /\ LockInv /\ PaidInv /\ FulfilledOnce /\ FulfilledOnlyIfPaid /\ PinRevealedOnce

\* A customer who paid the right amount is served, by the webhook's retries or
\* by a poll, although any of their transactions may fail.
PaidIsProvisioned == (checkout = "paid" /\ amountOk) ~> (row.status = "provisioned")

=============================================================================
