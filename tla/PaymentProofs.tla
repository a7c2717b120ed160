---------------------------- MODULE PaymentProofs ----------------------------
(***************************************************************************)
(* The safety properties of Payment, proved for every number of webhook    *)
(* deliveries and polls, every time to live and any number of failures.    *)
(* The argument is about the row lock: what the holder read is what the    *)
(* row says, so only a holder that read paid_unprovisioned provisions, and *)
(* it leaves the row provisioned.                                          *)
(***************************************************************************)
EXTENDS Payment, TLAPS

\* Every action keeps the type of every variable.
LEMMA PaymentTypes == ASSUME TypeOK, [Next]_vars PROVE TypeOK'
<1> USE PaymentAssumption DEF TypeOK, Row, Statuses, Products, CheckoutPCs, RequestPCs
<1>row. \A rw \in Row, st \in Statuses : [rw EXCEPT !.status = st] \in Row
  OBVIOUS
<1>att. \A b \in BOOLEAN : WithCheckout(b) \in Row
  BY DEF WithCheckout
<1>pro. ASSUME NEW rw \in Row PROVE Provisioned(rw) \in Row /\ ConsumePaymentReveal(rw) \in Row
  <2> DEFINE u == IF rw.product = "direct_session" THEN now + RevealTTL ELSE 0
  <2>1. u \in Nat /\ rw.product \in Products /\ rw.attached \in BOOLEAN /\ nextCode \in Nat
    OBVIOUS
  <2>2. Provisioned(rw) = [status |-> "provisioned", product |-> rw.product,
                           attached |-> rw.attached, code |-> nextCode,
                           consumed |-> FALSE, until |-> u]
    BY DEF Provisioned
  <2> HIDE DEF u
  <2>3. Provisioned(rw) \in Row
    BY <2>1, <2>2
  <2>4. ConsumePaymentReveal(rw) \in Row
    BY DEF ConsumePaymentReveal
  <2> QED BY <2>3, <2>4
<1>prv. ASSUME NEW rw \in Row, provisionLockedPayment(rw)
        PROVE  /\ sessions' \in SUBSET Nat /\ coupons' \in SUBSET Nat
               /\ nextCode' \in Nat \ {0}
  <2>1. nextCode' \in Nat \ {0}
    BY <1>prv DEF provisionLockedPayment
  <2>2. CASE rw.product = "direct_session"
    BY <1>prv, <2>1, <2>2 DEF provisionLockedPayment
  <2>3. CASE rw.product # "direct_session"
    BY <1>prv, <2>1, <2>3 DEF provisionLockedPayment
  <2> QED BY <2>2, <2>3
<1>res. ASSUME NEW rw \in Row, Resolve(rw)
        PROVE  /\ row' \in Row /\ sessions' \in SUBSET Nat
               /\ coupons' \in SUBSET Nat /\ nextCode' \in Nat \ {0}
  <2>1. row' \in Row
    BY <1>res, <1>pro DEF Resolve
  <2>2. sessions' \in SUBSET Nat /\ coupons' \in SUBSET Nat /\ nextCode' \in Nat \ {0}
    BY <1>res, <1>prv DEF Resolve
  <2> QED BY <2>1, <2>2
<1>pol. ASSUME NEW q \in Polls, NEW rw \in Row, ResolveForPoll(q, rw)
        PROVE  /\ row' \in Row /\ sessions' \in SUBSET Nat
               /\ coupons' \in SUBSET Nat /\ nextCode' \in Nat \ {0}
  <2>1. CASE ~Reveals(q, rw)
    BY <1>pol, <1>res, <2>1 DEF ResolveForPoll
  <2>2. CASE Reveals(q, rw) /\ rw.status = "paid_unprovisioned"
    <3>1. row' = ConsumePaymentReveal(Provisioned(rw)) /\ provisionLockedPayment(rw)
      BY <1>pol, <2>2 DEF ResolveForPoll
    <3>2. row' \in Row
      BY <3>1, <1>pro
    <3> QED BY <3>1, <3>2, <1>prv
  <2>3. CASE Reveals(q, rw) /\ rw.status # "paid_unprovisioned"
    BY <1>pol, <1>pro, <2>3 DEF ResolveForPoll
  <2> QED BY <2>1, <2>2, <2>3
<1>1. ASSUME CreateCheckout PROVE TypeOK'
  <2>1. ASSUME NEW p \in Products, CreatePendingPayment(p) PROVE TypeOK'
    BY <2>1 DEF CreatePendingPayment, NewRow, NoCode
  <2>2. CASE CreateCheckoutSession
    BY <2>2 DEF CreateCheckoutSession, Fault
  <2>3. CASE AttachCheckoutSessionID
    BY <2>3, <1>att DEF AttachCheckoutSessionID, WithCheckout
  <2>4. CASE AttachFails
    BY <2>4, <1>att DEF AttachFails, Fault
  <2>5. CASE CheckoutFailed
    <3>1. WithCheckout(cpc = "faillink") \in Row
      BY <1>att
    <3>2. row' \in Row
      <4>1. [WithCheckout(cpc = "faillink") EXCEPT !.status = "failed"] \in Row
        BY <3>1, <1>row
      <4> QED BY <2>5, <4>1 DEF CheckoutFailed
    <3> QED BY <2>5, <3>2 DEF CheckoutFailed, Fault
  <2>6. CASE CheckoutDies
    BY <2>6 DEF CheckoutDies, Fault
  <2> QED BY <1>1, <2>1, <2>2, <2>3, <2>4, <2>5, <2>6 DEF CreateCheckout
<1>2. CASE CustomerPays
  BY <1>2 DEF CustomerPays
<1>3. ASSUME NEW r \in Requests, DeliverWebhook(r) \/ StartPoll(r) PROVE TypeOK'
  <2>1. CASE DeliverWebhook(r)
    BY <2>1 DEF DeliverWebhook, Goto
  <2>2. CASE StartPoll(r)
    BY <2>2 DEF StartPoll, Goto
  <2> QED BY <1>3, <2>1, <2>2
<1>4. ASSUME NEW r \in Requests, RequestStep(r) PROVE TypeOK'
  <2>1. CASE GetPayment(r)
    BY <2>1, <1>att DEF GetPayment, Goto
  <2>2. CASE MarkPaymentFailed(r)
    BY <2>2, <1>row DEF MarkPaymentFailed, Goto
  <2>3. CASE MarkPaymentPaid(r)
    <3>1. row' \in Row
      BY <2>3, <1>row DEF MarkPaymentPaid, PaidStatus
    <3> QED BY <2>3, <3>1 DEF MarkPaymentPaid, Goto
  <2>4. CASE GetPaymentForUpdate(r)
    BY <2>4 DEF GetPaymentForUpdate, Goto
  <2>5. CASE ProvisionIfNeeded(r)
    BY <2>5, <1>res DEF ProvisionIfNeeded, Goto
  <2>6. CASE ResolveCheckoutSessionForPoll(r)
    BY <2>6, <1>pol DEF ResolveCheckoutSessionForPoll, Goto
  <2>7. CASE MarkProvisionFailure(r)
    BY <2>7 DEF MarkProvisionFailure, Goto
  <2> QED BY <1>4, <2>1, <2>2, <2>3, <2>4, <2>5, <2>6, <2>7 DEF RequestStep
<1>5. ASSUME NEW r \in Requests, ResolveFails(r) PROVE TypeOK'
  <2>1. row' \in Row /\ sessions' \in SUBSET Nat /\ coupons' \in SUBSET Nat /\ nextCode' \in Nat \ {0}
    BY <1>5, <1>res, <1>pol DEF ResolveFails
  <2> QED BY <1>5, <2>1 DEF ResolveFails, Fault, Goto
<1>6. ASSUME NEW r \in Requests, RequestDies(r) PROVE TypeOK'
  BY <1>6 DEF RequestDies, Fault, Goto
<1>7. CASE Tick
  BY <1>7 DEF Tick
<1>8. CASE UNCHANGED vars
  BY <1>8 DEF vars
<1> QED
  BY <1>1, <1>2, <1>3, <1>4, <1>5, <1>6, <1>7, <1>8 DEF Next, Requests

\* What a locked transaction writes: the row stays as it was read, is
\* provisioned with the only code, or has its PIN consumed.
Kept(rw)   == row' = rw /\ UNCHANGED <<sessions, coupons, nextCode>>
Served(rw) ==
    /\ rw.status = "paid_unprovisioned"
    /\ row'.status = "provisioned"
    /\ row'.product = rw.product
    /\ row'.code = nextCode
    /\ sessions' \cup coupons' = sessions \cup coupons \cup {nextCode}
Read(rw)   ==
    /\ rw.status = "provisioned"
    /\ ~rw.consumed
    /\ row' = [rw EXCEPT !.consumed = TRUE]
    /\ UNCHANGED <<sessions, coupons, nextCode>>

\* The two forms of resolveCheckoutSession do one of the three.
LEMMA ResolveCases ==
    ASSUME TypeOK, NEW rw \in Row, rw = row
    PROVE  /\ Resolve(rw) => Kept(rw) \/ (Served(rw) /\ ~row'.consumed)
           /\ \A q \in Polls : ResolveForPoll(q, rw) =>
                 IF Reveals(q, rw) THEN (Served(rw) /\ row'.consumed) \/ Read(rw)
                 ELSE Kept(rw) \/ (Served(rw) /\ ~row'.consumed)
<1> USE DEF Kept, Served, Read
<1>1. ASSUME provisionLockedPayment(rw)
      PROVE  sessions' \cup coupons' = sessions \cup coupons \cup {nextCode}
  BY <1>1 DEF provisionLockedPayment
<1>2. /\ Provisioned(rw).status = "provisioned"
      /\ Provisioned(rw).product = rw.product
      /\ Provisioned(rw).code = nextCode
      /\ Provisioned(rw).consumed = FALSE
  BY DEF Provisioned
<1>3. Resolve(rw) => Kept(rw) \/ (Served(rw) /\ ~row'.consumed)
  BY <1>1, <1>2 DEF Resolve
<1>4. ASSUME NEW q \in Polls, ResolveForPoll(q, rw)
      PROVE  IF Reveals(q, rw) THEN (Served(rw) /\ row'.consumed) \/ Read(rw)
             ELSE Kept(rw) \/ (Served(rw) /\ ~row'.consumed)
  <2>1. CASE ~Reveals(q, rw)
    BY <1>3, <1>4, <2>1 DEF ResolveForPoll
  <2>2. CASE Reveals(q, rw) /\ rw.status = "paid_unprovisioned"
    <3>1. row' = ConsumePaymentReveal(Provisioned(rw)) /\ provisionLockedPayment(rw)
      BY <1>4, <2>2 DEF ResolveForPoll
    <3>2. /\ row'.status = "provisioned" /\ row'.product = rw.product
          /\ row'.code = nextCode /\ row'.consumed
      BY <3>1 DEF ConsumePaymentReveal, Provisioned
    <3> QED BY <1>1, <2>2, <3>1, <3>2
  <2>3. CASE Reveals(q, rw) /\ rw.status # "paid_unprovisioned"
    <3>1. rw.status = "provisioned" /\ ~rw.consumed
      BY <2>3 DEF Reveals
    <3> QED BY <1>4, <2>3, <3>1 DEF ResolveForPoll, ConsumePaymentReveal
  <2> QED BY <2>1, <2>2, <2>3
<1> QED BY <1>3, <1>4

\* The transaction that ends request r, whose reply counts n more reveals.
Ends(r, n) ==
    /\ rpc[r] = "resolve"
    /\ \/ Kept(row) /\ n = 0
       \/ Served(row) /\ (n = 1 => row'.consumed)
       \/ Read(row)
    /\ \E place \in {"idle", "provfail"} : rpc' = [rpc EXCEPT ![r] = place]
    /\ lock' = NoRequest
    /\ revealed' = revealed + n
    /\ UNCHANGED <<cpc, checkout, amountOk, seen>>

\* Webhook, poll and failed transaction end a request in this way.
LEMMA ResolveEnds ==
    ASSUME PaymentInv, NEW r \in Requests,
           ProvisionIfNeeded(r) \/ ResolveCheckoutSessionForPoll(r) \/ ResolveFails(r)
    PROVE  Ends(r, 0) \/ Ends(r, 1)
<1> USE DEF PaymentInv, TypeOK
<1>1. rpc[r] = "resolve" /\ seen[r] = row /\ row \in Row
  BY DEF LockInv, ProvisionIfNeeded, ResolveCheckoutSessionForPoll, ResolveFails
<1>2. CASE ProvisionIfNeeded(r)
  <2>1. Kept(row) \/ Served(row)
    BY <1>1, <1>2, ResolveCases DEF ProvisionIfNeeded
  <2> QED BY <1>1, <1>2, <2>1 DEF ProvisionIfNeeded, Goto, Ends
<1>3. CASE ResolveCheckoutSessionForPoll(r)
  <2>1. IF Reveals(r, row) THEN (Served(row) /\ row'.consumed) \/ Read(row)
        ELSE Kept(row) \/ (Served(row) /\ ~row'.consumed)
    BY <1>1, <1>3, ResolveCases DEF ResolveCheckoutSessionForPoll
  <2> QED BY <1>1, <1>3, <2>1 DEF ResolveCheckoutSessionForPoll, Goto, Ends
<1>4. CASE ResolveFails(r)
  <2>1. Kept(row) \/ Served(row) \/ Read(row)
    BY <1>1, <1>4, ResolveCases DEF ResolveFails, Kept
  <2> QED BY <1>1, <1>4, <2>1 DEF ResolveFails, Goto, Ends
<1> QED BY <1>2, <1>3, <1>4

\* A request ends with the lock released and the row consistent.
LEMMA EndsKeepsInv ==
    ASSUME PaymentInv, TypeOK', NEW r \in Requests, NEW n \in {0, 1}, Ends(r, n)
    PROVE  PaymentInv'
<1> USE DEF PaymentInv, Ends
<1>1. LockInv'
  BY PaymentAssumption DEF LockInv, TypeOK
<1>2. row.status # "paid_unprovisioned" => ~Served(row)
  BY DEF Served
<1>3. CASE Kept(row) /\ n = 0
  BY <1>1, <1>3 DEF Kept, PaidInv, FulfilledOnce, FulfilledOnlyIfPaid, PinRevealedOnce, TypeOK
<1>4. CASE Served(row) /\ (n = 1 => row'.consumed)
  <2>1. sessions \cup coupons = {} /\ checkout = "paid" /\ amountOk /\ revealed = 0
    BY <1>4 DEF Served, PaidInv, FulfilledOnce, PinRevealedOnce, TypeOK
  <2>2. FulfilledOnce' /\ FulfilledOnlyIfPaid'
    BY <1>4, <2>1 DEF Served, FulfilledOnce, FulfilledOnlyIfPaid
  <2>3. PinRevealedOnce'
    BY <1>4, <2>1 DEF PinRevealedOnce
  <2>4. PaidInv'
    BY <1>4, <2>1 DEF Served, PaidInv, TypeOK
  <2> QED BY <1>1, <2>2, <2>3, <2>4
<1>5. CASE Read(row)
  <2>1. row'.status = row.status /\ row'.code = row.code /\ row'.consumed
    BY <1>5 DEF Read, TypeOK, Row
  <2>2. FulfilledOnce' /\ FulfilledOnlyIfPaid'
    BY <1>5, <2>1 DEF Read, FulfilledOnce, FulfilledOnlyIfPaid
  <2>3. PinRevealedOnce'
    BY <1>5, <2>1 DEF Read, PinRevealedOnce, TypeOK
  <2>4. PaidInv'
    BY <1>5, <2>1 DEF Read, PaidInv, TypeOK
  <2> QED BY <1>1, <2>2, <2>3, <2>4
<1> QED BY <1>3, <1>4, <1>5

\* Every step keeps the invariant.
LEMMA PaymentStep == ASSUME PaymentInv, [Next]_vars PROVE PaymentInv'
<1> USE DEF PaymentInv
<1>ty. TypeOK'
  BY PaymentTypes
<1>1. ASSUME CreateCheckout PROVE PaymentInv'
  <2>1. /\ cpc # "returned" /\ checkout # "paid" /\ \A r \in Requests : rpc[r] = "idle"
        /\ UNCHANGED <<sessions, coupons, lock, amountOk, rpc, seen, revealed>>
        /\ checkout' # "paid"
    BY <1>1 DEF PaidInv, CreateCheckout, CreatePendingPayment, CreateCheckoutSession,
                AttachCheckoutSessionID, AttachFails, CheckoutFailed, CheckoutDies
  <2>2. row.status \in {"absent", "pending", "failed"} /\ ~row.consumed
    BY <2>1 DEF PaidInv, TypeOK, Row, Statuses
  <2> DEFINE Untouched == row.status \in {"absent", "pending", "failed"} /\ ~row.consumed
  <2>3. Untouched'
    <3>1. \A b \in BOOLEAN : /\ WithCheckout(b).status = row.status
                             /\ WithCheckout(b).consumed = row.consumed
                             /\ WithCheckout(b) \in Row
      BY DEF WithCheckout, TypeOK, Row
    <3>2. ASSUME NEW p \in Products, CreatePendingPayment(p) PROVE Untouched'
      BY <3>2 DEF CreatePendingPayment, NewRow
    <3>3. ASSUME CheckoutFailed PROVE Untouched'
      BY <2>2, <3>1, <3>3 DEF CheckoutFailed, Row
    <3>4. ASSUME AttachFails \/ AttachCheckoutSessionID PROVE Untouched'
      BY <2>2, <3>1, <3>4 DEF AttachFails, AttachCheckoutSessionID, WithCheckout, TypeOK, Row
    <3> QED
      BY <1>1, <2>2, <3>2, <3>3, <3>4 DEF CreateCheckout, CreateCheckoutSession, CheckoutDies
  <2>4. (cpc' = "new") => (row'.status = "absent")
    BY <1>1 DEF PaidInv, CreateCheckout, CreatePendingPayment, CreateCheckoutSession,
                AttachCheckoutSessionID, AttachFails, CheckoutFailed, CheckoutDies
  <2>5. LockInv' /\ PaidInv'
    BY <2>1, <2>3, <2>4 DEF LockInv, PaidInv
  <2>6. FulfilledOnce' /\ FulfilledOnlyIfPaid' /\ PinRevealedOnce'
    BY <2>1, <2>2, <2>3 DEF FulfilledOnce, FulfilledOnlyIfPaid, PinRevealedOnce
  <2> QED BY <1>ty, <2>5, <2>6
<1>2. CASE CustomerPays
  <2>1. LockInv' /\ FulfilledOnce' /\ PinRevealedOnce'
    BY <1>2 DEF CustomerPays, LockInv, FulfilledOnce, PinRevealedOnce
  <2>2. checkout # "paid" /\ row.status \notin {"paid_unprovisioned", "provisioned"}
    BY <1>2 DEF CustomerPays, PaidInv
  <2>3. FulfilledOnlyIfPaid'
    BY <1>2, <2>2 DEF CustomerPays, FulfilledOnce, FulfilledOnlyIfPaid
  <2>4. PaidInv'
    BY <1>2, <2>2 DEF CustomerPays, PaidInv
  <2> QED BY <1>ty, <2>1, <2>3, <2>4
<1>3. ASSUME NEW r \in Requests, DeliverWebhook(r) \/ StartPoll(r) PROVE PaymentInv'
  <2>1. LockInv' /\ FulfilledOnce' /\ FulfilledOnlyIfPaid' /\ PinRevealedOnce'
    BY <1>3, PaymentAssumption
    DEF DeliverWebhook, StartPoll, Goto, LockInv, FulfilledOnce, FulfilledOnlyIfPaid,
        PinRevealedOnce, TypeOK
  <2>2. PaidInv'
    BY <1>3 DEF DeliverWebhook, StartPoll, Goto, PaidInv, TypeOK
  <2> QED BY <1>ty, <2>1, <2>2
<1>4. ASSUME NEW r \in Requests, GetPayment(r) PROVE PaymentInv'
  <2>1. row'.status = row.status /\ row'.consumed = row.consumed /\ row'.code = row.code
    BY <1>4 DEF GetPayment, WithCheckout, TypeOK, Row
  <2>2. \A x \in Requests : rpc'[x] # "resolve" /\ rpc[x] # "resolve"
    BY <1>4, PaymentAssumption DEF GetPayment, Goto, LockInv, Unlocked, TypeOK
  <2>3. LockInv'
    BY <1>4, <2>2 DEF GetPayment, LockInv
  <2>4. FulfilledOnce' /\ FulfilledOnlyIfPaid' /\ PinRevealedOnce'
    BY <1>4, <2>1 DEF GetPayment, FulfilledOnce, FulfilledOnlyIfPaid, PinRevealedOnce
  <2>5. PaidInv'
    BY <1>4, <2>1 DEF GetPayment, Goto, PaidInv, TypeOK
  <2> QED BY <1>ty, <2>3, <2>4, <2>5
<1>5. ASSUME NEW r \in Requests, MarkPaymentFailed(r) PROVE PaymentInv'
  <2>1. row.status \notin {"paid_unprovisioned", "provisioned"} /\ checkout = "paid"
    BY <1>5 DEF MarkPaymentFailed, PaidInv
  <2>2. row'.status = "failed" /\ row'.consumed = row.consumed
    BY <1>5 DEF MarkPaymentFailed, TypeOK, Row
  <2>3. \A x \in Requests : rpc'[x] # "resolve" /\ rpc[x] # "resolve"
    BY <1>5, PaymentAssumption DEF MarkPaymentFailed, Goto, LockInv, Unlocked, TypeOK
  <2>4. LockInv'
    BY <1>5, <2>3 DEF MarkPaymentFailed, LockInv
  <2>5. FulfilledOnce' /\ FulfilledOnlyIfPaid' /\ PinRevealedOnce'
    BY <1>5, <2>1, <2>2 DEF MarkPaymentFailed, FulfilledOnce, FulfilledOnlyIfPaid, PinRevealedOnce
  <2>6. PaidInv'
    BY <1>5, <2>1, <2>2 DEF MarkPaymentFailed, Goto, PaidInv, TypeOK
  <2> QED BY <1>ty, <2>4, <2>5, <2>6
<1>6. ASSUME NEW r \in Requests, MarkPaymentPaid(r) PROVE PaymentInv'
  <2>1. checkout = "paid" /\ amountOk /\ cpc = "returned"
    BY <1>6 DEF MarkPaymentPaid, PaidInv
  <2>2. /\ row'.status = IF row.status = "pending" THEN "paid_unprovisioned" ELSE row.status
        /\ row'.consumed = row.consumed /\ row'.code = row.code
    BY <1>6 DEF MarkPaymentPaid, PaidStatus, TypeOK, Row
  <2>3. \A x \in Requests : rpc'[x] # "resolve" /\ rpc[x] # "resolve"
    BY <1>6, PaymentAssumption DEF MarkPaymentPaid, Goto, LockInv, Unlocked, TypeOK
  <2>4. LockInv'
    BY <1>6, <2>3 DEF MarkPaymentPaid, LockInv
  <2>5. FulfilledOnce' /\ FulfilledOnlyIfPaid' /\ PinRevealedOnce'
    BY <1>6, <2>1, <2>2 DEF MarkPaymentPaid, FulfilledOnce, FulfilledOnlyIfPaid, PinRevealedOnce
  <2>6. PaidInv'
    BY <1>6, <2>1, <2>2 DEF MarkPaymentPaid, Goto, PaidInv, TypeOK
  <2> QED BY <1>ty, <2>4, <2>5, <2>6
<1>7. ASSUME NEW r \in Requests, GetPaymentForUpdate(r) PROVE PaymentInv'
  <2>1. LockInv'
    BY <1>7, PaymentAssumption DEF GetPaymentForUpdate, Goto, LockInv, Unlocked, TypeOK
  <2>2. FulfilledOnce' /\ FulfilledOnlyIfPaid' /\ PinRevealedOnce'
    BY <1>7 DEF GetPaymentForUpdate, FulfilledOnce, FulfilledOnlyIfPaid, PinRevealedOnce
  <2>3. PaidInv'
    BY <1>7 DEF GetPaymentForUpdate, Goto, PaidInv, TypeOK
  <2> QED BY <1>ty, <2>1, <2>2, <2>3
<1>8. ASSUME NEW r \in Requests,
             ProvisionIfNeeded(r) \/ ResolveCheckoutSessionForPoll(r) \/ ResolveFails(r)
      PROVE  PaymentInv'
  BY <1>8, <1>ty, ResolveEnds, EndsKeepsInv
<1>9. ASSUME NEW r \in Requests, MarkProvisionFailure(r) \/ RequestDies(r) PROVE PaymentInv'
  <2>1. LockInv'
    BY <1>9, PaymentAssumption DEF MarkProvisionFailure, RequestDies, Goto, LockInv, TypeOK
  <2>2. FulfilledOnce' /\ FulfilledOnlyIfPaid' /\ PinRevealedOnce'
    BY <1>9 DEF MarkProvisionFailure, RequestDies, FulfilledOnce, FulfilledOnlyIfPaid, PinRevealedOnce
  <2>3. PaidInv'
    BY <1>9 DEF MarkProvisionFailure, RequestDies, Goto, PaidInv, TypeOK
  <2> QED BY <1>ty, <2>1, <2>2, <2>3
<1>10. CASE Tick \/ UNCHANGED vars
  BY <1>ty, <1>10 DEF Tick, vars, LockInv, PaidInv, FulfilledOnce, FulfilledOnlyIfPaid, PinRevealedOnce
<1> QED
  BY <1>1, <1>2, <1>3, <1>4, <1>5, <1>6, <1>7, <1>8, <1>9, <1>10
  DEF Next, RequestStep, Requests

\* The invariant holds from the start and in every reachable state.
THEOREM PaymentInductive == Spec => []PaymentInv
<1>1. Init => PaymentInv
  <2> SUFFICES ASSUME Init PROVE PaymentInv
    OBVIOUS
  <2>1. NewRow("absent", "direct_session") \in Row
    BY DEF NewRow, Row, Statuses, Products, NoCode
  <2>2. TypeOK
    <3>1. row \in Row /\ seen \in [Requests -> Row]
      BY <2>1 DEF Init
    <3>2. rpc \in [Requests -> RequestPCs] /\ at \in [Requests -> Nat]
      BY DEF Init, RequestPCs
    <3>3. /\ sessions \in SUBSET Nat
          /\ coupons \in SUBSET Nat
          /\ lock \in Requests \cup {NoRequest}
          /\ amountOk \in BOOLEAN
          /\ acked \in BOOLEAN
      BY Zenon DEF Init
    <3>4. /\ nextCode \in Nat \ {0}
          /\ cpc \in CheckoutPCs
          /\ checkout \in {"none", "open", "paid"}
          /\ revealed \in Nat
          /\ now \in Nat
          /\ faults \in Nat
      BY DEF Init, CheckoutPCs
    <3> QED BY <3>1, <3>2, <3>3, <3>4 DEF TypeOK
  <2>3. LockInv /\ PaidInv
    BY PaymentAssumption DEF Init, NewRow, LockInv, PaidInv
  <2>4. FulfilledOnce /\ FulfilledOnlyIfPaid /\ PinRevealedOnce
    BY DEF Init, NewRow, FulfilledOnce, FulfilledOnlyIfPaid, PinRevealedOnce
  <2> QED BY <2>2, <2>3, <2>4 DEF PaymentInv
<1>2. PaymentInv /\ [Next]_vars => PaymentInv'
  BY PaymentStep
<1> QED
  BY <1>1, <1>2, PTL DEF Spec

\* FOR UPDATE prevents double provisioning: whatever deliveries, redeliveries
\* and polls overlap, a payment creates one session or one coupon, the one its
\* row names.
THEOREM PaymentFulfilledOnce == Spec => []FulfilledOnce
<1>1. PaymentInv => FulfilledOnce
  BY DEF PaymentInv
<1> QED
  BY <1>1, PaymentInductive, PTL

\* Nothing is created before Stripe reported the stored amount as paid.
THEOREM PaymentFulfilledIfPaid == Spec => []FulfilledOnlyIfPaid
<1>1. PaymentInv => FulfilledOnlyIfPaid
  BY DEF PaymentInv
<1> QED
  BY <1>1, PaymentInductive, PTL

\* At most one poll is answered with the PIN.
THEOREM PinIsRevealedOnce == Spec => []PinRevealedOnce
<1>1. PaymentInv => PinRevealedOnce
  BY DEF PaymentInv
<1> QED
  BY <1>1, PaymentInductive, PTL

\* A provisioned payment is never failed, paid again or given another code.
THEOREM PaymentIsFinal == Spec => FulfilmentIsFinal
<1> DEFINE Final == row.status = "provisioned" => row'.status = "provisioned" /\ row'.code = row.code
<1>1. PaymentInv /\ [Next]_vars => [Final]_vars
  <2> SUFFICES ASSUME PaymentInv, [Next]_vars, row.status = "provisioned"
               PROVE  row'.status = "provisioned" /\ row'.code = row.code
    OBVIOUS
  <2> USE DEF PaymentInv
  <2>1. amountOk /\ cpc = "returned" /\ row \in Row
    BY DEF PaidInv, TypeOK
  <2>2. ASSUME NEW r \in Requests, GetPayment(r) \/ MarkPaymentFailed(r) \/ MarkPaymentPaid(r)
        PROVE  row'.status = "provisioned" /\ row'.code = row.code
    BY <2>1, <2>2
    DEF GetPayment, MarkPaymentFailed, MarkPaymentPaid, PaidStatus, WithCheckout, PaidInv, Row
  <2>3. ASSUME NEW r \in Requests,
               ProvisionIfNeeded(r) \/ ResolveCheckoutSessionForPoll(r) \/ ResolveFails(r)
        PROVE  row'.status = "provisioned" /\ row'.code = row.code
    BY <2>1, <2>3, ResolveEnds DEF Ends, Kept, Served, Read, Row
  <2>4. ASSUME UNCHANGED row PROVE row'.status = "provisioned" /\ row'.code = row.code
    BY <2>4
  <2> QED
    BY <2>1, <2>2, <2>3, <2>4
    DEF Next, vars, CreateCheckout, CreatePendingPayment, CreateCheckoutSession,
        AttachCheckoutSessionID, AttachFails, CheckoutFailed, CheckoutDies, CustomerPays,
        DeliverWebhook, StartPoll, RequestStep, GetPaymentForUpdate, MarkProvisionFailure,
        RequestDies, Tick
<1>2. []PaymentInv /\ [][Next]_vars => [][Final]_vars
  BY <1>1, PTL
<1> QED
  BY <1>2, PaymentInductive, PTL DEF Spec, FulfilmentIsFinal

=============================================================================
