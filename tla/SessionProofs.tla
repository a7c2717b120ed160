---------------------------- MODULE SessionProofs ----------------------------
(***************************************************************************)
(* The coupon, the cookie, the token bucket and the lockout, for any number  *)
(* of claims, requests and browsers.                                       *)
(*                                                                         *)
(* CouponInv: only the holder of the row lock is between its UPDATE and its   *)
(* COMMIT, and it found a use left.  TrailInv follows a session's expiry from  *)
(* the row through the request to the cookie: no later step makes it later.    *)
(* BucketInv relates a bucket, as of its last refill, to the quota.  TableInv  *)
(* says what an entry of the lockout table can be, and GuessInv what the table *)
(* and the requests in flight leave open: while a key is locked, those about  *)
(* to compare a PIN; while it is not, the failures that are not counted yet.  *)
(***************************************************************************)
EXTENDS SessionAccess, FiniteSetTheorems, TLAPS

CouponTypes ==
    /\ now \in Nat /\ uses \in Nat /\ holder \in Claims \cup {NoOne}
    /\ cpc \in [Claims -> ClaimStates]
    /\ sessions \in [Claims -> Row]

CouponInv ==
    /\ CouponTypes
    /\ \A c \in Claims : (holder = c) = (cpc[c] = "claimed")
    /\ \A c \in Claims : cpc[c] # "done" => sessions[c].row = "none"
    /\ holder # NoOne => uses < MaxUses
    /\ uses <= MaxUses
    /\ Cardinality(Created) = uses
    /\ \A c \in Created : sessions[c].number \in 1 .. uses
    /\ \A c, d \in Created : c # d => sessions[c].number # sessions[d].number

\* There are as many sessions as claims at most.
LEMMA CreatedFinite == IsFiniteSet(Created)
<1>1. IsFiniteSet(Claims) /\ Created \subseteq Claims
  BY AccessAssumption DEF Created
<1> QED
  BY <1>1, FS_Subset

-----------------------------------------------------------------------------
(* The coupon.                                                             *)

\* A coupon nobody has used.
LEMMA InitCoupon == Init => CouponInv
<1> SUFFICES ASSUME Init PROVE CouponInv
  OBVIOUS
<1> USE AccessAssumption
<1>1. Created = {}
  BY DEF Init, Created, NoRow
<1>2. Cardinality(Created) = 0
  BY <1>1, FS_EmptySet
<1>3. CouponTypes
  BY DEF Init, CouponTypes, ClaimStates, NoRow, Row
<1>4. \A c \in Claims : holder # c /\ cpc[c] # "claimed" /\ sessions[c].row = "none"
  BY DEF Init, NoRow
<1> QED
  BY <1>1, <1>2, <1>3, <1>4 DEF Init, CouponInv

\* A step after which the same sessions exist.
LEMMA CouponFrame ==
    ASSUME CouponInv, CouponTypes', UNCHANGED uses,
           \A c \in Claims : (holder' = c) = (cpc'[c] = "claimed"),
           \A c \in Claims : cpc'[c] # "done" => sessions'[c].row = "none",
           holder' # NoOne => uses < MaxUses,
           \A c \in Claims : /\ (sessions'[c].row = "none") = (sessions[c].row = "none")
                             /\ sessions[c].row # "none" => sessions'[c].number = sessions[c].number
    PROVE  CouponInv'
<1>1. Created' = Created
  BY DEF Created
<1>2. \A c \in Created : c \in Claims /\ sessions'[c].number = sessions[c].number
  BY DEF Created
<1>3. Cardinality(Created)' = uses'
  BY <1>1 DEF CouponInv
<1>4. \A c \in Created' : sessions'[c].number \in 1 .. uses'
  BY <1>1, <1>2 DEF CouponInv
<1>5. \A c, d \in Created' : c # d => sessions'[c].number # sessions'[d].number
  BY <1>1, <1>2 DEF CouponInv
<1>6. uses' <= MaxUses /\ (holder' # NoOne => uses' < MaxUses)
  BY DEF CouponInv
<1> QED
  BY <1>3, <1>4, <1>5, <1>6 DEF CouponInv

\* Every step keeps the count of the coupon.
LEMMA NextCoupon == CouponInv /\ [Next]_vars => CouponInv'
<1> SUFFICES ASSUME CouponInv, [Next]_vars PROVE CouponInv'
  OBVIOUS
<1> USE AccessAssumption
<1>0. CouponTypes
  BY DEF CouponInv
<1>1. ASSUME NEW c \in Claims, ValidateCoupon(c) PROVE CouponInv'
  <2>1. now + SessionTTL \in Nat
    BY <1>0 DEF CouponTypes
  <2>2. CouponTypes'
    BY <1>0, <1>1, <2>1 DEF CouponTypes, ClaimStates, Row, ValidateCoupon
  <2>3. \A d \in Claims : sessions'[d].row = sessions[d].row /\ sessions'[d].number = sessions[d].number
    BY <1>0, <1>1 DEF CouponTypes, Row, ValidateCoupon
  <2>4. /\ UNCHANGED <<uses, holder>> /\ cpc'[c] = "begun" /\ cpc[c] = "idle"
        /\ \A d \in Claims \ {c} : cpc'[d] = cpc[d]
    BY <1>0, <1>1 DEF CouponTypes, ValidateCoupon
  <2> QED
    BY <2>2, <2>3, <2>4, CouponFrame DEF CouponInv
<1>2. ASSUME NEW c \in Claims, ClaimCoupon(c) PROVE CouponInv'
  <2>1. /\ UNCHANGED <<now, uses, sessions>> /\ holder = NoOne /\ holder' = c /\ uses < MaxUses
        /\ cpc' = [cpc EXCEPT ![c] = "claimed"] /\ cpc[c] = "begun"
    BY <1>2 DEF ClaimCoupon, CouponUsable
  <2>2. CouponTypes'
    BY <1>0, <2>1 DEF CouponTypes, ClaimStates
  <2>3. \A d \in Claims : (holder' = d) = (cpc'[d] = "claimed")
    BY <1>0, <2>1 DEF CouponInv, CouponTypes
  <2>4. \A d \in Claims : cpc'[d] # "done" => sessions'[d].row = "none"
    BY <1>0, <2>1 DEF CouponInv, CouponTypes
  <2> QED
    BY <2>1, <2>2, <2>3, <2>4, CouponFrame
<1>3. ASSUME NEW c \in Claims, CouponInvalid(c) \/ RollbackClaim(c) PROVE CouponInv'
  <2>1. /\ UNCHANGED <<now, uses>> /\ cpc[c] \in {"begun", "claimed"}
        /\ holder' = IF holder = c THEN NoOne ELSE holder
        /\ cpc' = [cpc EXCEPT ![c] = "done"] /\ sessions' = [sessions EXCEPT ![c] = NoRow]
    BY <1>3 DEF CouponInvalid, RollbackClaim
  <2>2. NoRow \in Row /\ NoRow.row = "none"
    BY DEF NoRow, Row
  <2>3. CouponTypes'
    BY <1>0, <2>1, <2>2 DEF CouponTypes, ClaimStates
  <2>4. \A d \in Claims : (holder' = d) = (cpc'[d] = "claimed")
    BY <1>0, <2>1 DEF CouponInv, CouponTypes
  <2>5. sessions[c].row = "none" /\ sessions'[c].row = "none" /\ \A d \in Claims \ {c} : sessions'[d] = sessions[d]
    BY <1>0, <2>1, <2>2 DEF CouponInv, CouponTypes
  <2>6. \A d \in Claims : cpc'[d] # "done" => sessions'[d].row = "none"
    BY <1>0, <2>1, <2>5 DEF CouponInv, CouponTypes
  <2>7. holder' # NoOne => uses < MaxUses
    BY <2>1 DEF CouponInv
  <2> QED
    BY <2>1, <2>3, <2>4, <2>5, <2>6, <2>7, CouponFrame
<1>4. ASSUME NEW c \in Claims, CreateSession(c) PROVE CouponInv'
  <2>1. /\ now' = now /\ uses' = uses + 1 /\ holder' = NoOne /\ holder = c
        /\ sessions' = [sessions EXCEPT ![c].row = "live", ![c].number = uses + 1]
        /\ cpc' = [cpc EXCEPT ![c] = "done"] /\ cpc[c] = "claimed"
    BY <1>4 DEF CreateSession, CouponInv
  <2>2. uses \in Nat /\ uses < MaxUses /\ MaxUses \in Nat
    BY <1>0, <2>1 DEF CouponTypes, CouponInv
  <2>3. CouponTypes'
    <3>1. /\ sessions \in [Claims -> Row] /\ cpc \in [Claims -> ClaimStates] /\ now \in Nat
          /\ "done" \in ClaimStates /\ uses + 1 \in Nat
      BY <1>0, <2>2 DEF CouponTypes, ClaimStates
    <3>2. [sessions EXCEPT ![c].row = "live", ![c].number = uses + 1] \in [Claims -> Row]
      BY <3>1 DEF Row
    <3>3. sessions' \in [Claims -> Row]
      BY <2>1, <3>2, Zenon
    <3>4. cpc' \in [Claims -> ClaimStates]
      BY <2>1, <3>1
    <3> QED
      BY <2>1, <3>1, <3>3, <3>4 DEF CouponTypes
  <2>4. sessions'[c].row = "live" /\ sessions'[c].number = uses + 1 /\ \A d \in Claims \ {c} : sessions'[d] = sessions[d]
    BY <1>0, <2>1 DEF CouponTypes, Row
  <2>5. Created' = Created \cup {c} /\ c \notin Created
    <3>1. sessions[c].row = "none"
      BY <2>1 DEF CouponInv
    <3> QED
      BY <2>4, <3>1 DEF Created
  <2>6. Cardinality(Created') = uses'
    BY <2>1, <2>5, CreatedFinite, FS_AddElement DEF CouponInv
  <2>7. \A d \in Claims : (holder' = d) = (cpc'[d] = "claimed")
    BY <1>0, <2>1 DEF CouponInv, CouponTypes
  <2>8. \A d \in Claims : cpc'[d] # "done" => sessions'[d].row = "none"
    BY <1>0, <2>1, <2>4 DEF CouponInv, CouponTypes
  <2>9. \A d \in Created : sessions[d].number \in 1 .. uses /\ d # c /\ d \in Claims
    BY <2>5 DEF CouponInv, Created
  <2>10. \A d \in Created' : sessions'[d].number \in 1 .. uses'
    <3>1. uses + 1 \in 1 .. uses' /\ \A n \in 1 .. uses : n \in 1 .. uses'
      BY <2>1, <2>2
    <3> QED
      BY <2>4, <2>5, <2>9, <3>1
  <2>11. \A d, e \in Created' : d # e => sessions'[d].number # sessions'[e].number
    BY <2>2, <2>4, <2>5, <2>9 DEF CouponInv
  <2> QED
    <3>1. uses' <= MaxUses /\ holder' = NoOne
      BY <2>1, <2>2
    <3>2. Cardinality(Created)' = uses'
      BY <2>6
    <3> QED
      BY <2>3, <2>7, <2>8, <2>10, <2>11, <3>1, <3>2 DEF CouponInv
<1>5. ASSUME NEW c \in Claims, CleanupDB(c) PROVE CouponInv'
  <2>1. /\ UNCHANGED <<now, uses, holder, cpc>> /\ sessions[c].row = "live"
        /\ sessions' = [sessions EXCEPT ![c].row = "deleted"]
    BY <1>5 DEF CleanupDB
  <2>2. CouponTypes'
    BY <1>0, <2>1 DEF CouponTypes, Row
  <2>3. /\ sessions'[c].row = "deleted" /\ sessions'[c].number = sessions[c].number
        /\ \A d \in Claims \ {c} : sessions'[d] = sessions[d]
    BY <1>0, <2>1 DEF CouponTypes, Row
  <2> QED
    BY <2>1, <2>2, <2>3, CouponFrame DEF CouponInv
<1>6. CASE Tick
  <2>1. UNCHANGED couponVars /\ now' = now + 1
    BY <1>6 DEF Tick
  <2>2. CouponTypes'
    BY <1>0, <2>1 DEF CouponTypes, couponVars
  <2> QED
    BY <2>1, <2>2, CouponFrame DEF CouponInv, couponVars
<1>7. ASSUME UNCHANGED <<now, couponVars>> PROVE CouponInv'
  BY <1>0, <1>7, CouponFrame DEF CouponInv, CouponTypes, couponVars
<1>8. ASSUME NEW r \in Requests, VerifyStep(r) PROVE UNCHANGED <<now, couponVars>>
  BY <1>8 DEF VerifyStep, Wrap, allowVerifyAttempt, VerifySession, handleVerifyFailure,
              resetVerifyAttempt, MintToken
<1> QED
  BY <1>1, <1>2, <1>3, <1>4, <1>5, <1>6, <1>7, <1>8 DEF Next, ClaimStep, Restart, vars

\* The invariant of the coupon and its sessions, for any number of claims.
THEOREM CouponInductive == Spec => []CouponInv
<1>1. Init => CouponInv
  BY InitCoupon
<1>2. CouponInv /\ [Next]_vars => CouponInv'
  BY NextCoupon
<1> QED
  BY <1>1, <1>2, PTL DEF Spec

\* As many sessions as uses, at most MaxUses, each told a count of its own
\* (ClaimCouponAndCreateSession).
THEOREM CouponIsNotOverdrawn == Spec => []CouponNotOverdrawn
<1>1. CouponInv => CouponNotOverdrawn
  BY DEF CouponInv, CouponNotOverdrawn
<1> QED
  BY <1>1, CouponInductive, PTL

-----------------------------------------------------------------------------
(* The trail of a session's expiry.                                        *)

Busy == {"allow", "read", "count", "refuse", "reset", "mint"}

TrailTypes ==
    /\ vpc \in [Requests -> VerifyStates]
    /\ req \in [Requests -> Request]
    /\ cookie \in [Clients -> [code : Claims \cup {NoOne}, exp : Nat]]

TrailInv ==
    /\ TrailTypes
    /\ \A r \in Requests : vpc[r] \in Busy => req[r].code \in Visited /\ req[r].ip \in Clients
    /\ \A r \in Requests : vpc[r] \in {"reset", "mint"} =>
         req[r].code \in Created /\ req[r].exp <= sessions[req[r].code].expiresAt
    /\ \A i \in Clients : cookie[i].code # NoOne =>
         cookie[i].code \in Created /\ cookie[i].exp <= sessions[cookie[i].code].expiresAt

\* At the start nothing carries an expiry.
LEMMA InitTrail == Init => TrailInv
<1> SUFFICES ASSUME Init PROVE TrailInv
  OBVIOUS
<1>1. NoRequest \in Request
  <2>1. FALSE \in BOOLEAN
    BY Zenon
  <2> QED
    BY <2>1 DEF NoRequest, Request
<1>2. TrailTypes
  BY <1>1 DEF Init, TrailTypes, VerifyStates, NoCookie
<1>3. /\ \A r \in Requests : vpc[r] \notin Busy
      /\ \A i \in Clients : cookie[i].code = NoOne
  BY DEF Init, Busy, NoCookie
<1> QED
  BY <1>2, <1>3 DEF TrailInv, Busy

\* A session that exists keeps its expiry, and goes on counting as created.
LEMMA SessionsKeep ==
    ASSUME CouponInv, [Next]_vars
    PROVE  \A c \in Created : c \in Created' /\ sessions'[c].expiresAt = sessions[c].expiresAt
<1> USE AccessAssumption
<1>0. sessions \in [Claims -> Row] /\ \A d \in Created : d \in Claims /\ sessions[d].row # "none"
  BY DEF CouponInv, CouponTypes, Created
<1>1. ASSUME NEW c \in Claims, cpc[c] # "done", \A d \in Claims \ {c} : sessions'[d] = sessions[d]
      PROVE  \A d \in Created : sessions'[d] = sessions[d]
  <2>1. c \notin Created
    BY <1>1 DEF CouponInv, Created
  <2> QED
    BY <1>0, <1>1, <2>1
<1>2. ASSUME NEW c \in Claims, ValidateCoupon(c) \/ CouponInvalid(c) \/ RollbackClaim(c) \/ CreateSession(c)
      PROVE  \A d \in Created : sessions'[d] = sessions[d]
  <2>1. cpc[c] # "done" /\ \A d \in Claims \ {c} : sessions'[d] = sessions[d]
    BY <1>0, <1>2 DEF ValidateCoupon, CouponInvalid, RollbackClaim, CreateSession
  <2> QED
    BY <1>1, <2>1
<1>3. ASSUME NEW c \in Claims, CleanupDB(c)
      PROVE  \A d \in Created : sessions'[d].row # "none" /\ sessions'[d].expiresAt = sessions[d].expiresAt
  BY <1>0, <1>3 DEF CleanupDB, Row
<1>4. ASSUME UNCHANGED sessions PROVE \A d \in Created : sessions'[d] = sessions[d]
  BY <1>4
<1>5. ASSUME NEW r \in Requests, VerifyStep(r) PROVE UNCHANGED sessions
  BY <1>5 DEF VerifyStep, Wrap, allowVerifyAttempt, VerifySession, handleVerifyFailure,
              resetVerifyAttempt, MintToken, couponVars
<1>6. \A d \in Created : sessions'[d].row # "none" /\ sessions'[d].expiresAt = sessions[d].expiresAt
  BY <1>0, <1>2, <1>3, <1>4, <1>5 DEF Next, ClaimStep, ClaimCoupon, Restart, Tick, vars, couponVars
<1> QED
  BY <1>0, <1>6 DEF Created

\* What the invariant says of one request, and of one cookie; x is a request in
\* state st, k a cookie.
Traced(st, x) ==
    \/ st = "idle"
    \/ /\ st \in Busy /\ x.code \in Visited /\ x.ip \in Clients
       /\ st \in {"reset", "mint"} => x.code \in Created /\ x.exp <= sessions[x.code].expiresAt

Backed(k) == k.code = NoOne \/ (k.code \in Created /\ k.exp <= sessions[k.code].expiresAt)

\* The invariant, of one request and of one cookie.
LEMMA TrailTraced ==
    ASSUME TrailInv
    PROVE  /\ \A r \in Requests : Traced(vpc[r], req[r])
           /\ \A i \in Clients : Backed(cookie[i])
  BY DEF TrailInv, TrailTypes, VerifyStates, Traced, Backed, Busy

\* What a step may do to one request and to the cookies.
LEMMA TrailFrame ==
    ASSUME CouponInv, TrailInv, [Next]_vars, TrailTypes',
           \A r \in Requests : Traced(vpc'[r], req'[r]),
           \A i \in Clients : Backed(cookie'[i])
    PROVE  TrailInv'
<1>1. \A c \in Created : c \in Created' /\ sessions'[c].expiresAt = sessions[c].expiresAt
  BY SessionsKeep
<1>2. \A r \in Requests : vpc'[r] \in Busy => req'[r].code \in Visited /\ req'[r].ip \in Clients
  BY DEF Busy, Traced
<1>3. \A r \in Requests : vpc'[r] \in {"reset", "mint"} =>
        req'[r].code \in Created' /\ req'[r].exp <= sessions'[req'[r].code].expiresAt
  BY <1>1 DEF Traced
<1>4. \A i \in Clients : cookie'[i].code # NoOne =>
        cookie'[i].code \in Created' /\ cookie'[i].exp <= sessions'[cookie'[i].code].expiresAt
  BY <1>1 DEF Backed
<1> QED
  BY <1>2, <1>3, <1>4 DEF TrailInv

\* Every step hands on an expiry that is no later.
LEMMA NextTrail == CouponInv /\ TrailInv /\ [Next]_vars => TrailInv'
<1> SUFFICES ASSUME CouponInv, TrailInv, [Next]_vars PROVE TrailInv'
  OBVIOUS
<1> USE AccessAssumption
<1>0. TrailTypes
  BY DEF TrailInv
<1>1. /\ \A r \in Requests : Traced(vpc[r], req[r])
      /\ \A i \in Clients : Backed(cookie[i])
  BY TrailTraced
<1>2. NoRequest \in Request /\ Backed(NoCookie)
  <2>1. FALSE \in BOOLEAN
    BY Zenon
  <2> QED
    BY <2>1 DEF NoRequest, Request, NoCookie, Backed
\* A step that does this to one request and to one cookie at most.
<1>3. ASSUME NEW r \in Requests, NEW st \in VerifyStates, NEW x \in Request, Traced(st, x),
             vpc' = [vpc EXCEPT ![r] = st], req' = [req EXCEPT ![r] = x],
             NEW i \in Clients, NEW k \in [code : Claims \cup {NoOne}, exp : Nat], Backed(k),
             UNCHANGED cookie \/ cookie' = [cookie EXCEPT ![i] = k]
      PROVE  TrailInv'
  <2>1. TrailTypes'
    BY <1>0, <1>3 DEF TrailTypes
  <2>2. \A q \in Requests : Traced(vpc'[q], req'[q])
    <3>1. vpc'[r] = st /\ req'[r] = x /\ \A q \in Requests \ {r} : vpc'[q] = vpc[q] /\ req'[q] = req[q]
      BY <1>0, <1>3 DEF TrailTypes
    <3> HIDE DEF Traced
    <3> QED
      BY <1>1, <1>3, <3>1
  <2>3. \A j \in Clients : Backed(cookie'[j])
    <3>1. \A j \in Clients : cookie'[j] = cookie[j] \/ cookie'[j] = k
      BY <1>0, <1>3 DEF TrailTypes
    <3> QED
      BY <1>1, <1>3, <3>1
  <2> QED
    BY <2>1, <2>2, <2>3, TrailFrame
<1>4. ASSUME NEW r \in Requests, vpc[r] # "idle"
      PROVE  /\ vpc[r] \in Busy /\ req[r] \in Request
             /\ req[r].code \in Visited /\ req[r].ip \in Clients /\ req[r].exp \in Nat
             /\ vpc[r] \in {"reset", "mint"} =>
                  req[r].code \in Created /\ req[r].exp <= sessions[req[r].code].expiresAt
  BY <1>0, <1>1, <1>4 DEF Traced, TrailTypes, Request
<1>5. ASSUME NEW r \in Requests, Finish(r), vpc[r] # "idle",
             NEW k \in [code : Claims \cup {NoOne}, exp : Nat], Backed(k),
             UNCHANGED cookie \/ cookie' = [cookie EXCEPT ![req[r].ip] = k]
      PROVE  TrailInv'
  <2>1. "idle" \in VerifyStates /\ Traced("idle", NoRequest)
    BY DEF VerifyStates, Traced
  <2>2. req[r].ip \in Clients
    BY <1>4, <1>5
  <2> QED
    BY <1>2, <1>3, <1>5, <2>1, <2>2 DEF Finish
<1>6. NoCookie \in [code : Claims \cup {NoOne}, exp : Nat]
  BY DEF NoCookie
<1>7. ASSUME NEW r \in Requests, NEW i \in Clients, NEW c \in Visited, NEW right \in BOOLEAN, Wrap(r, i, c, right)
      PROVE  TrailInv'
  <2>1. CASE Admits(buckets, i, now)
    <3>1. /\ vpc' = [vpc EXCEPT ![r] = "allow"] /\ UNCHANGED cookie
          /\ req' = [req EXCEPT ![r] = [code |-> c, ip |-> i, right |-> right, exp |-> 0]]
      BY <1>7, <2>1 DEF Wrap
    <3>2. [code |-> c, ip |-> i, right |-> right, exp |-> 0] \in Request
      BY <1>7 DEF Request
    <3>3. Traced("allow", [code |-> c, ip |-> i, right |-> right, exp |-> 0]) /\ "allow" \in VerifyStates
      BY DEF Traced, Busy, VerifyStates
    <3> QED
      BY <1>2, <1>3, <1>6, <3>1, <3>2, <3>3
  <2>2. CASE ~Admits(buckets, i, now)
    <3>1. UNCHANGED <<vpc, req, cookie>>
      BY <1>7, <2>2 DEF Wrap
    <3> QED
      BY <1>0, <1>1, <3>1, TrailFrame DEF TrailTypes
  <2> QED
    BY <2>1, <2>2
<1>8. ASSUME NEW r \in Requests, allowVerifyAttempt(r) PROVE TrailInv'
  <2>1. CASE Allowed(states, Key(r), now)
    <3>1. vpc' = [vpc EXCEPT ![r] = "read"] /\ UNCHANGED <<req, cookie>> /\ vpc[r] = "allow"
      BY <1>8, <2>1 DEF allowVerifyAttempt
    <3>2. req' = [req EXCEPT ![r] = req[r]]
      BY <1>0, <3>1 DEF TrailTypes
    <3>3. req[r] \in Request /\ Traced("read", req[r]) /\ "read" \in VerifyStates
      BY <1>4, <3>1 DEF Traced, Busy, VerifyStates
    <3>4. req[r].ip \in Clients
      BY <1>4, <3>1
    <3> QED
      BY <1>2, <1>3, <1>6, <3>1, <3>2, <3>3, <3>4
  <2>2. CASE ~Allowed(states, Key(r), now)
    <3>1. Finish(r) /\ UNCHANGED cookie /\ vpc[r] # "idle"
      BY <1>8, <2>2 DEF allowVerifyAttempt
    <3> QED
      BY <1>2, <1>5, <1>6, <3>1
  <2> QED
    BY <2>1, <2>2
<1>9. ASSUME NEW r \in Requests, VerifySession(r) PROVE TrailInv'
  <2> DEFINE c == req[r].code
  <2>1. vpc[r] = "read" /\ UNCHANGED cookie
    BY <1>9 DEF VerifySession
  <2>2. PICK v \in {Verdict(sessions[c], req[r].right), "refuse"} :
          /\ vpc' = [vpc EXCEPT ![r] = v]
          /\ req' = [req EXCEPT ![r].right = FALSE,
                                ![r].exp = IF v = "reset" THEN sessions[c].expiresAt ELSE 0]
    BY <1>9 DEF VerifySession
  <2>3. c \in Claims /\ c \in Visited /\ req[r] \in Request /\ req[r].ip \in Clients
    BY <1>4, <2>1
  <2>4. sessions[c].row \in {"none", "live", "deleted"} /\ sessions[c].expiresAt \in Nat
    BY <2>3 DEF CouponInv, CouponTypes, Row
  <2>5. v \in {"count", "refuse", "reset"} /\ (v = "reset" => sessions[c].row = "live")
    BY <2>2, <2>4 DEF Verdict, CouponInv, CouponTypes
  <2> DEFINE e == IF v = "reset" THEN sessions[c].expiresAt ELSE 0
             x == [code |-> c, ip |-> req[r].ip, right |-> FALSE, exp |-> e]
  <2>6. e \in Nat /\ (v = "reset" => e = sessions[c].expiresAt)
    BY <2>4
  <2>7. x \in Request
    <3>1. FALSE \in BOOLEAN
      BY Zenon
    <3> HIDE DEF e
    <3> QED
      BY <2>3, <2>6, <3>1 DEF Request
  <2>8. req' = [req EXCEPT ![r] = x]
    <3>1. req' = [req EXCEPT ![r].right = FALSE, ![r].exp = e]
      BY <2>2
    <3> HIDE DEF e
    <3>2. req \in [Requests -> Request] /\ FALSE \in BOOLEAN /\ e \in Nat
      <4>1. FALSE \in BOOLEAN
        BY Zenon
      <4> QED
        BY <1>0, <2>6, <4>1 DEF TrailTypes
    <3>3. [req EXCEPT ![r].right = FALSE, ![r].exp = e] \in [Requests -> Request]
      BY <3>2 DEF Request
    <3>4. req'[r] \in Request /\ \A q \in Requests \ {r} : req'[q] = req[q]
      BY <3>1, <3>2, <3>3
    <3>5. /\ req'[r].code = c /\ req'[r].ip = req[r].ip /\ req'[r].exp = e
      BY <3>1, <3>2 DEF Request
    <3>6. req'[r].right = FALSE
      BY <3>1, <3>2 DEF Request
    <3>7. req'[r] = x
      BY <3>4, <3>5, <3>6 DEF Request
    <3> HIDE DEF x
    <3> QED
      BY <3>1, <3>2, <3>3, <3>4, <3>7
  <2>9. Traced(v, x)
    <3>1. v = "reset" => c \in Created
      BY <2>3, <2>5 DEF Created
    <3>2. x.code = c /\ x.ip = req[r].ip /\ x.exp = e
      OBVIOUS
    <3> HIDE DEF x, e
    <3> QED
      BY <2>3, <2>4, <2>5, <2>6, <3>1, <3>2 DEF Traced, Busy
  <2>10. v \in VerifyStates
    BY <2>5 DEF VerifyStates
  <2> HIDE DEF x
  <2> QED
    BY <1>2, <1>3, <1>6, <2>1, <2>2, <2>3, <2>7, <2>8, <2>9, <2>10
<1>10. ASSUME NEW r \in Requests, handleVerifyFailure(r) PROVE TrailInv'
  <2>1. /\ vpc[r] # "idle" /\ Finish(r)
        /\ UNCHANGED cookie \/ cookie' = [cookie EXCEPT ![req[r].ip] = NoCookie]
    BY <1>10 DEF handleVerifyFailure
  <2> QED
    BY <1>2, <1>5, <1>6, <2>1
<1>11. ASSUME NEW r \in Requests, resetVerifyAttempt(r) PROVE TrailInv'
  <2>1. vpc' = [vpc EXCEPT ![r] = "mint"] /\ UNCHANGED <<req, cookie>> /\ vpc[r] = "reset"
    BY <1>11 DEF resetVerifyAttempt
  <2>2. req' = [req EXCEPT ![r] = req[r]]
    BY <1>0, <2>1 DEF TrailTypes
  <2>3. req[r] \in Request /\ Traced("mint", req[r]) /\ "mint" \in VerifyStates /\ req[r].ip \in Clients
    BY <1>4, <2>1 DEF Traced, Busy, VerifyStates
  <2> QED
    BY <1>2, <1>3, <1>6, <2>1, <2>2, <2>3
<1>12. ASSUME NEW r \in Requests, MintToken(r) PROVE TrailInv'
  <2> DEFINE k == [code |-> req[r].code, exp |-> TokenExpiry(req[r].exp)]
  <2>1. /\ vpc[r] = "mint" /\ Finish(r)
        /\ UNCHANGED cookie \/ cookie' = [cookie EXCEPT ![req[r].ip] = k]
    BY <1>12 DEF MintToken
  <2>2. /\ req[r].code \in Created /\ req[r].code \in Visited
        /\ req[r].exp \in Nat /\ req[r].exp <= sessions[req[r].code].expiresAt
    BY <1>4, <2>1
  <2>3. now \in Nat /\ sessions[req[r].code].expiresAt \in Nat
    BY <2>2 DEF CouponInv, CouponTypes, Row
  <2>4. TokenExpiry(req[r].exp) \in Nat /\ TokenExpiry(req[r].exp) <= req[r].exp
    BY <2>2, <2>3 DEF TokenExpiry, Lesser
  <2>5. k \in [code : Claims \cup {NoOne}, exp : Nat]
    BY <2>2, <2>4
  <2>6. Backed(k)
    BY <2>2, <2>3, <2>4 DEF Backed
  <2> HIDE DEF k
  <2> QED
    BY <1>5, <2>1, <2>5, <2>6
<1>13. CASE Restart
  <2>1. /\ vpc' = [r \in Requests |-> "idle"] /\ req' = [r \in Requests |-> NoRequest]
        /\ UNCHANGED cookie
    BY <1>13 DEF Restart
  <2>2. TrailTypes'
    BY <1>0, <1>2, <2>1 DEF TrailTypes, VerifyStates
  <2>3. \A r \in Requests : Traced(vpc'[r], req'[r])
    BY <2>1 DEF Traced
  <2> QED
    BY <1>1, <2>1, <2>2, <2>3, TrailFrame
<1>14. ASSUME UNCHANGED verifyVars PROVE TrailInv'
  <2>1. UNCHANGED <<vpc, req, cookie>>
    BY <1>14 DEF verifyVars
  <2> QED
    BY <1>0, <1>1, <2>1, TrailFrame DEF TrailTypes
<1>15. ASSUME NEW c \in Claims, ClaimStep(c) PROVE UNCHANGED verifyVars
  BY <1>15 DEF ClaimStep, ValidateCoupon, ClaimCoupon, CouponInvalid, CreateSession, RollbackClaim
<1> QED
  BY <1>7, <1>8, <1>9, <1>10, <1>11, <1>12, <1>13, <1>14, <1>15
     DEF Next, VerifyStep, CleanupDB, Tick, vars

\* The expiry of a session bounds what is known of it everywhere.
THEOREM TrailInductive == Spec => []TrailInv
<1>1. Init => TrailInv
  BY InitTrail
<1>2. CouponInv /\ TrailInv /\ [Next]_vars => TrailInv'
  BY NextTrail
<1> QED
  BY <1>1, <1>2, CouponInductive, PTL DEF Spec

\* A cookie opens only a created session, and not beyond its end and the skew
\* (MintToken, RequireSessionAuth).
THEOREM CookiesEndWithSession == Spec => []AccessEndsWithSession
<1>1. CouponInv /\ TrailInv => AccessEndsWithSession
  <2> SUFFICES ASSUME CouponInv, TrailInv, NEW i \in Clients, NEW c \in Claims, AccessGranted(i, c)
               PROVE  c \in Created /\ now < sessions[c].expiresAt + ClockSkew
    BY DEF AccessEndsWithSession
  <2>1. cookie[i].code = c /\ now < cookie[i].exp + ClockSkew /\ c # NoOne
    BY AccessAssumption DEF AccessGranted
  <2>2. c \in Created /\ cookie[i].exp <= sessions[c].expiresAt
    BY <2>1 DEF TrailInv
  <2>3. now \in Nat /\ cookie[i].exp \in Nat /\ sessions[c].expiresAt \in Nat /\ ClockSkew \in Nat
    BY AccessAssumption DEF CouponInv, CouponTypes, Row, TrailInv, TrailTypes
  <2> QED
    BY <2>1, <2>2, <2>3
<1> QED
  BY <1>1, CouponInductive, TrailInductive, PTL

-----------------------------------------------------------------------------
(* The token bucket.                                                       *)

\* What an address may still be granted covers what its bucket holds and what
\* it has gained since its last refill; a new bucket would be full.
BucketInv ==
    /\ now \in Nat /\ quota \in [Clients -> Int]
    /\ \A i \in DOMAIN buckets :
         /\ i \in Clients
         /\ buckets[i].tokens \in Nat /\ buckets[i].lastRefill \in Nat
         /\ buckets[i].tokens <= Capacity /\ buckets[i].lastRefill <= now
         /\ quota[i] >= buckets[i].tokens + (now - buckets[i].lastRefill) * RequestsPerMinute
    /\ \A i \in Clients \ DOMAIN buckets : quota[i] >= Capacity

\* What the rates are.
LEMMA CapacityNat == Capacity \in Nat /\ RequestsPerMinute \in Nat /\ Cost \in Nat
  BY LimitsAssumption DEF Capacity

\* The empty table.
LEMMA NoBuckets == DOMAIN <<>> = {}
  OBVIOUS

\* Before the first request.
LEMMA InitBucket == Init => BucketInv
<1> SUFFICES ASSUME Init PROVE BucketInv
  OBVIOUS
<1>1. now \in Nat /\ buckets = <<>> /\ quota = [i \in Clients |-> Capacity]
  BY DEF Init
<1> QED
  BY <1>1, CapacityNat, NoBuckets DEF BucketInv

\* A tick's refill, with the product in one piece.
LEMMA TickProduct ==
    ASSUME NEW t \in Nat, NEW l \in Nat, NEW rate \in Nat
    PROVE  ((t + 1) - l) * rate = (t - l) * rate + rate
  OBVIOUS

\* The arithmetic of a refill.
LEMMA Products ==
    ASSUME NEW a \in Nat, NEW rate \in Nat
    PROVE  a * rate \in Nat
  OBVIOUS

\* No time, no refill.
LEMMA ZeroProduct == ASSUME NEW t \in Nat, NEW rate \in Nat PROVE (t - t) * rate = 0
  OBVIOUS

\* The bucket Refilled returns is as full as the quota covers, as of now.
LEMMA RefilledBucket ==
    ASSUME BucketInv, NEW i \in Clients
    PROVE  LET b == Refilled(buckets, i, now)
           IN /\ b.tokens \in Nat /\ b.tokens <= Capacity
              /\ b.lastRefill = now
              /\ quota[i] >= b.tokens
<1> DEFINE b == Refilled(buckets, i, now)
<1>1. CASE i \notin DOMAIN buckets
  BY <1>1, CapacityNat DEF BucketInv, Refilled
<1>2. CASE i \in DOMAIN buckets /\ now <= buckets[i].lastRefill
  <2>1. b = buckets[i] /\ buckets[i].lastRefill = now
    BY <1>2 DEF Refilled, BucketInv
  <2>2. quota[i] >= buckets[i].tokens + (now - now) * RequestsPerMinute
    BY <1>2, <2>1 DEF BucketInv
  <2>3. quota[i] >= buckets[i].tokens
    BY <1>2, <2>2, ZeroProduct, CapacityNat DEF BucketInv
  <2> QED
    BY <1>2, <2>1, <2>3 DEF BucketInv
<1>3. CASE i \in DOMAIN buckets /\ ~(now <= buckets[i].lastRefill)
  <2> DEFINE gain == (now - buckets[i].lastRefill) * RequestsPerMinute
  <2>1. /\ b.tokens = Lesser(Capacity, buckets[i].tokens + gain) /\ b.lastRefill = now
    BY <1>3 DEF Refilled
  <2>2. gain \in Nat
    <3>1. now - buckets[i].lastRefill \in Nat
      BY <1>3 DEF BucketInv
    <3> QED
      BY <3>1, Products, CapacityNat
  <2>3. quota[i] \in Int /\ buckets[i].tokens \in Nat /\ quota[i] >= buckets[i].tokens + gain
    BY <1>3 DEF BucketInv
  <2> HIDE DEF gain, b
  <2> QED
    BY <2>1, <2>2, <2>3, CapacityNat DEF Lesser, b
<1> QED
  BY <1>1, <1>2, <1>3

\* Every step keeps the quota above the bucket.
LEMMA NextBucket == BucketInv /\ [Next]_vars => BucketInv'
<1> SUFFICES ASSUME BucketInv, [Next]_vars PROVE BucketInv'
  OBVIOUS
<1>1. ASSUME NEW r \in Requests, NEW i \in Clients, NEW c \in Visited, NEW right \in BOOLEAN, Wrap(r, i, c, right)
      PROVE  BucketInv'
  <2> DEFINE b == Refilled(buckets, i, now)
             d == IF b.tokens < Cost THEN b ELSE [tokens |-> b.tokens - Cost, lastRefill |-> b.lastRefill]
  <2>1. b.tokens \in Nat /\ b.tokens <= Capacity /\ b.lastRefill = now /\ quota[i] >= b.tokens
    BY RefilledBucket
  <2>2. now' = now /\ buckets' = [x \in DOMAIN buckets \cup {i} |-> IF x = i THEN d ELSE buckets[x]]
    BY <1>1 DEF Wrap, allow, Put
  <2>3. /\ b.tokens >= Cost => quota' = [quota EXCEPT ![i] = @ - Cost]
        /\ b.tokens < Cost => quota' = quota
    BY <1>1, <2>1, CapacityNat DEF Wrap, Admits
  <2>4. now \in Nat /\ quota \in [Clients -> Int]
    BY DEF BucketInv
  <2> HIDE DEF b
  <2>5. /\ d.tokens \in Nat /\ d.tokens <= Capacity /\ d.lastRefill = now
        /\ quota' \in [Clients -> Int] /\ quota'[i] >= d.tokens
        /\ \A j \in Clients \ {i} : quota'[j] = quota[j]
    <3>1. CASE b.tokens < Cost
      BY <2>1, <2>3, <2>4, <3>1
    <3>2. CASE b.tokens >= Cost
      BY <2>1, <2>3, <2>4, <3>2, CapacityNat
    <3> QED
      BY <2>1, <3>1, <3>2, CapacityNat
  <2> HIDE DEF d
  <2>6. DOMAIN buckets' = DOMAIN buckets \cup {i} /\ buckets'[i] = d
        /\ \A j \in DOMAIN buckets \ {i} : buckets'[j] = buckets[j]
    BY <2>2
  <2>7. quota'[i] >= buckets'[i].tokens + (now' - buckets'[i].lastRefill) * RequestsPerMinute
    <3>1. (now - now) * RequestsPerMinute = 0
      BY <2>4, ZeroProduct, CapacityNat
    <3>2. quota'[i] \in Int
      BY <2>5
    <3> QED
      BY <2>2, <2>4, <2>5, <2>6, <3>1, <3>2
  <2>8. \A j \in DOMAIN buckets' \ {i} :
         /\ j \in Clients
         /\ buckets'[j].tokens \in Nat /\ buckets'[j].lastRefill \in Nat
         /\ buckets'[j].tokens <= Capacity /\ buckets'[j].lastRefill <= now'
         /\ quota'[j] >= buckets'[j].tokens + (now' - buckets'[j].lastRefill) * RequestsPerMinute
    BY <2>2, <2>5, <2>6 DEF BucketInv
  <2>9. \A j \in Clients \ DOMAIN buckets' : quota'[j] >= Capacity
    BY <2>5, <2>6 DEF BucketInv
  <2>10. \A j \in DOMAIN buckets' :
         /\ j \in Clients
         /\ buckets'[j].tokens \in Nat /\ buckets'[j].lastRefill \in Nat
         /\ buckets'[j].tokens <= Capacity /\ buckets'[j].lastRefill <= now'
         /\ quota'[j] >= buckets'[j].tokens + (now' - buckets'[j].lastRefill) * RequestsPerMinute
    <3>1. buckets'[i].tokens \in Nat /\ buckets'[i].lastRefill = now' /\ buckets'[i].tokens <= Capacity
      BY <2>2, <2>5, <2>6
    <3>2. now' \in Nat /\ now' <= now'
      BY <2>2, <2>4
    <3> QED
      BY <2>7, <2>8, <3>1, <3>2
  <2> QED
    BY <2>2, <2>4, <2>5, <2>9, <2>10 DEF BucketInv, Capacity
<1>2. CASE Restart
  <2>1. now' = now /\ buckets' = <<>> /\ quota' = [i \in Clients |-> Capacity]
    BY <1>2 DEF Restart
  <2> QED
    BY <2>1, CapacityNat, NoBuckets DEF BucketInv, Capacity
<1>3. CASE Tick
  <2>1. now' = now + 1 /\ buckets' = buckets /\ quota' = [i \in Clients |-> quota[i] + RequestsPerMinute]
    BY <1>3 DEF Tick
  <2>2. now' \in Nat /\ quota' \in [Clients -> Int]
    BY <2>1, CapacityNat DEF BucketInv
  <2>3. ASSUME NEW i \in DOMAIN buckets
        PROVE  /\ i \in Clients
               /\ buckets'[i].tokens \in Nat /\ buckets'[i].lastRefill \in Nat
               /\ buckets'[i].tokens <= Capacity /\ buckets'[i].lastRefill <= now'
               /\ quota'[i] >= buckets'[i].tokens + (now' - buckets'[i].lastRefill) * RequestsPerMinute
    <3> DEFINE gain == (now - buckets[i].lastRefill) * RequestsPerMinute
    <3>1. /\ now \in Nat /\ i \in Clients /\ buckets[i].tokens \in Nat /\ buckets[i].lastRefill \in Nat
          /\ buckets[i].tokens <= Capacity /\ buckets[i].lastRefill <= now
          /\ quota[i] \in Int /\ quota[i] >= buckets[i].tokens + gain
      BY <2>3 DEF BucketInv
    <3>2. (now' - buckets'[i].lastRefill) * RequestsPerMinute = gain + RequestsPerMinute
      BY <2>1, <3>1, TickProduct, CapacityNat
    <3>3. gain \in Nat
      <4>1. now - buckets[i].lastRefill \in Nat
        BY <3>1
      <4> QED
        BY <4>1, Products, CapacityNat
    <3>4. quota'[i] = quota[i] + RequestsPerMinute
      BY <2>1, <3>1
    <3> HIDE DEF gain
    <3>5. quota[i] + RequestsPerMinute >= buckets[i].tokens + (gain + RequestsPerMinute)
      BY <3>1, <3>3, CapacityNat
    <3> QED
      BY <2>1, <3>1, <3>2, <3>4, <3>5
  <2>4. \A i \in Clients \ DOMAIN buckets' : quota'[i] >= Capacity
    BY <2>1, CapacityNat DEF BucketInv
  <2> QED
    BY <2>1, <2>2, <2>3, <2>4 DEF BucketInv, Capacity
<1>4. ASSUME UNCHANGED <<now, buckets, quota>> PROVE BucketInv'
  BY <1>4 DEF BucketInv, Capacity
<1>5. ASSUME NEW c \in Claims, ClaimStep(c) \/ CleanupDB(c) PROVE UNCHANGED <<now, buckets, quota>>
  BY <1>5 DEF ClaimStep, ValidateCoupon, ClaimCoupon, CouponInvalid, CreateSession, RollbackClaim,
              CleanupDB, limitVars
<1>6. ASSUME NEW r \in Requests,
             \/ allowVerifyAttempt(r) \/ VerifySession(r) \/ handleVerifyFailure(r)
             \/ resetVerifyAttempt(r) \/ MintToken(r)
      PROVE  UNCHANGED <<now, buckets, quota>>
  BY <1>6 DEF allowVerifyAttempt, VerifySession, handleVerifyFailure, resetVerifyAttempt, MintToken, limitVars
<1>7. CASE UNCHANGED vars
  BY <1>4, <1>7 DEF vars, limitVars
<1> QED
  BY <1>1, <1>2, <1>3, <1>4, <1>5, <1>6, <1>7 DEF Next, VerifyStep

\* An address gets through no more than a full bucket and the refill of the time
\* since the server started, whatever the delays (TokenBucketRateLimiter.allow).
THEOREM AdmissionIsRated == Spec => []AdmittedWithinRate
<1>1. Init => BucketInv
  BY InitBucket
<1>2. BucketInv /\ [Next]_vars => BucketInv'
  BY NextBucket
<1>3. BucketInv => AdmittedWithinRate
  <2> SUFFICES ASSUME BucketInv PROVE AdmittedWithinRate
    OBVIOUS
  <2>1. ASSUME NEW i \in Clients PROVE quota[i] >= 0
    <3>1. CASE i \in DOMAIN buckets
      <4>1. /\ now - buckets[i].lastRefill \in Nat /\ buckets[i].tokens \in Nat /\ quota[i] \in Int
        BY <3>1 DEF BucketInv
      <4>2. (now - buckets[i].lastRefill) * RequestsPerMinute \in Nat
        BY <4>1, Products, CapacityNat
      <4>3. quota[i] >= buckets[i].tokens + (now - buckets[i].lastRefill) * RequestsPerMinute
        BY <3>1 DEF BucketInv
      <4> QED
        BY <4>1, <4>2, <4>3
    <3>2. CASE i \notin DOMAIN buckets
      BY <3>2, CapacityNat DEF BucketInv
    <3> QED
      BY <3>1, <3>2
  <2>2. \A i \in DOMAIN buckets : buckets[i].tokens <= Capacity
    BY DEF BucketInv
  <2> QED
    BY <2>1, <2>2 DEF AdmittedWithinRate
<1> QED
  BY <1>1, <1>2, <1>3, PTL DEF Spec

-----------------------------------------------------------------------------
(* The lockout.                                                            *)

\* The entry of k, locked at t, is the same in another table.
Stands(table, other, k) == k \in DOMAIN other /\ other[k].lockoutUntil = table[k].lockoutUntil

\* A check leaves every lock.
LEMMA AllowKeepsLocks ==
    ASSUME NEW table, NEW k \in DOMAIN table, NEW t \in Nat, t < table[k].lockoutUntil, NEW key
    PROVE  Stands(table, Allow(table, key, t), k)
<1>1. CASE key = k
  <2>1. LockedAt(StateOf(table, key), t) /\ StateOf(table, key) = table[k]
    BY <1>1 DEF LockedAt, StateOf
  <2>2. Allow(table, key, t) = Put(table, key, table[k])
    BY <2>1 DEF Allow
  <2> QED
    BY <1>1, <2>2 DEF Stands, Put
<1>2. CASE key # k
  <2>1. \/ Allow(table, key, t) = Delete(table, key)
        \/ \E v : Allow(table, key, t) = Put(table, key, v)
    <3> DEFINE kept == pruneFailures(StateOf(table, key).failures, t)
    <3>1. CASE LockedAt(StateOf(table, key), t)
      BY <3>1 DEF Allow
    <3>2. CASE ~LockedAt(StateOf(table, key), t) /\ kept = {}
      BY <3>2 DEF Allow
    <3>3. CASE ~LockedAt(StateOf(table, key), t) /\ kept # {}
      BY <3>3 DEF Allow
    <3> QED
      BY <3>1, <3>2, <3>3
  <2> QED
    BY <1>2, <2>1 DEF Stands, Put, Delete
<1> QED
  BY <1>1, <1>2

\* A failure leaves every lock.
LEMMA RegisterKeepsLocks ==
    ASSUME NEW table, NEW k \in DOMAIN table, NEW t \in Nat, t < table[k].lockoutUntil, NEW key
    PROVE  Stands(table, RegisterFailure(table, key, t), k)
<1>1. CASE key = k
  <2>1. LockedAt(StateOf(table, key), t) /\ StateOf(table, key) = table[k]
    BY <1>1 DEF LockedAt, StateOf
  <2>2. RegisterFailure(table, key, t) = Put(table, key, table[k])
    BY <2>1 DEF RegisterFailure
  <2> QED
    BY <1>1, <2>2 DEF Stands, Put
<1>2. CASE key # k
  <2>1. \E v : RegisterFailure(table, key, t) = Put(table, key, v)
    BY DEF RegisterFailure
  <2> QED
    BY <1>2, <2>1 DEF Stands, Put
<1> QED
  BY <1>1, <1>2

\* Every step leaves every lock, but for a right PIN and a restart.
LEMMA LocksStand ==
    CouponInv /\ TrailInv /\ [Next]_vars =>
      [\A k \in Keys : Locked(k) =>
          \/ k \in DOMAIN states' /\ states'[k].lockoutUntil = states[k].lockoutUntil
          \/ ProvesPin(k)
          \/ buckets' = <<>>]_vars
<1> SUFFICES ASSUME CouponInv, TrailInv, [Next]_vars, NEW k \in Keys, Locked(k)
             PROVE  Stands(states, states', k) \/ ProvesPin(k) \/ buckets' = <<>>
  BY DEF Stands
<1>1. now \in Nat /\ k \in DOMAIN states /\ now < states[k].lockoutUntil
  BY DEF CouponInv, CouponTypes, Locked
<1>2. ASSUME UNCHANGED states PROVE Stands(states, states', k)
  BY <1>1, <1>2 DEF Stands
<1>3. ASSUME NEW r \in Requests, allowVerifyAttempt(r) PROVE Stands(states, states', k)
  <2>1. states' = Allow(states, Key(r), now)
    BY <1>3 DEF allowVerifyAttempt
  <2> QED
    BY <1>1, <2>1, AllowKeepsLocks
<1>4. ASSUME NEW r \in Requests, handleVerifyFailure(r), vpc[r] = "count" PROVE Stands(states, states', k)
  <2> DEFINE after == RegisterFailure(states, Key(r), now)
  <2>1. PICK gone \in SUBSET Evictable(after) : states' = Evict(after, gone)
    BY <1>4 DEF handleVerifyFailure
  <2>2. Stands(states, after, k)
    BY <1>1, RegisterKeepsLocks
  <2> HIDE DEF after
  <2>3. k \notin gone
    BY <1>1, <2>1, <2>2 DEF Evictable, Stands
  <2> QED
    BY <2>1, <2>2, <2>3 DEF Stands, Evict
<1>5. ASSUME NEW r \in Requests, handleVerifyFailure(r), vpc[r] # "count" PROVE UNCHANGED states
  BY <1>5 DEF handleVerifyFailure
<1>6. ASSUME NEW r \in Requests, resetVerifyAttempt(r)
      PROVE  Stands(states, states', k) \/ ProvesPin(k)
  <2>1. vpc[r] = "reset" /\ vpc' = [vpc EXCEPT ![r] = "mint"] /\ states' = Delete(states, Key(r))
    BY <1>6 DEF resetVerifyAttempt
  <2>2. CASE Key(r) = k
    BY <2>1, <2>2 DEF ProvesPin, TrailInv, TrailTypes
  <2>3. CASE Key(r) # k
    BY <1>1, <2>1, <2>3 DEF Stands, Delete
  <2> QED
    BY <2>2, <2>3
<1>7. ASSUME NEW c \in Claims, ClaimStep(c) \/ CleanupDB(c) PROVE UNCHANGED states
  BY <1>7 DEF ClaimStep, ValidateCoupon, ClaimCoupon, CouponInvalid, CreateSession, RollbackClaim,
              CleanupDB, limitVars
<1>8. ASSUME NEW r \in Requests,
             \/ \E i \in Clients, c \in Visited, right \in BOOLEAN : Wrap(r, i, c, right)
             \/ VerifySession(r) \/ MintToken(r)
      PROVE  UNCHANGED states
  BY <1>8 DEF Wrap, VerifySession, MintToken, limitVars
<1>9. ASSUME Tick \/ UNCHANGED vars PROVE UNCHANGED states
  BY <1>9 DEF Tick, vars, limitVars
<1>10. ASSUME Restart PROVE buckets' = <<>>
  BY <1>10 DEF Restart
<1> QED
  BY <1>2, <1>3, <1>4, <1>5, <1>6, <1>7, <1>8, <1>9, <1>10 DEF Next, VerifyStep

\* No failure, request or eviction lifts or extends a lock (Allow,
\* RegisterFailure, evictStaleLocked).
THEOREM LocksAreServed == Spec => LockoutIsServed
<1>1. CouponInv /\ TrailInv /\ [Next]_vars =>
      [\A k \in Keys : Locked(k) =>
          \/ k \in DOMAIN states' /\ states'[k].lockoutUntil = states[k].lockoutUntil
          \/ ProvesPin(k)
          \/ buckets' = <<>>]_vars
  BY LocksStand
<1> QED
  BY <1>1, CouponInductive, TrailInductive, PTL DEF Spec, LockoutIsServed

-----------------------------------------------------------------------------
(* Stamps: times that may repeat.                                          *)

\* The stamps of a tick are numbered below their number, so the next is new.
Tally(times) ==
    /\ times \in Stamps /\ IsFiniteSet(times)
    /\ \A m \in times : m[2] < Cardinality(Of(times, m[1]))

\* The stamps of a tick, and those since a tick, are among them all.
LEMMA OfFinite ==
    ASSUME NEW times, IsFiniteSet(times), NEW t
    PROVE  /\ IsFiniteSet(Of(times, t)) /\ Cardinality(Of(times, t)) \in Nat
           /\ IsFiniteSet(Since(times, t)) /\ Cardinality(Since(times, t)) \in Nat
           /\ Cardinality(Since(times, t)) <= Cardinality(times)
<1>1. Of(times, t) \subseteq times /\ Since(times, t) \subseteq times
  BY DEF Of, Since
<1> QED
  BY <1>1, FS_Subset, FS_CardinalityType

\* No stamps at all.
LEMMA EmptyTally == Tally({}) /\ Cardinality({}) = 0 /\ \A t : Since({}, t) = {}
<1>1. IsFiniteSet({}) /\ Cardinality({}) = 0
  BY FS_EmptySet
<1>2. \A t : Since({}, t) = {}
  BY DEF Since
<1> QED
  BY <1>1, <1>2 DEF Tally, Stamps

\* Pruning keeps or drops a tick as a whole.
LEMMA SinceTally ==
    ASSUME NEW times, Tally(times), NEW s \in Int
    PROVE  Tally(Since(times, s))
<1>1. IsFiniteSet(Since(times, s)) /\ Since(times, s) \subseteq times
  BY OfFinite DEF Tally, Since
<1>2. \A m \in Since(times, s) : Of(Since(times, s), m[1]) = Of(times, m[1])
  BY DEF Of, Since
<1>3. Since(times, s) \in Stamps
  BY <1>1 DEF Tally, Stamps
<1>4. \A m \in Since(times, s) : m[2] < Cardinality(Of(Since(times, s), m[1]))
  BY <1>1, <1>2 DEF Tally
<1> QED
  BY <1>1, <1>3, <1>4 DEF Tally

\* A new stamp is one more, and one more of those since any moment up to its own.
LEMMA StampedTally ==
    ASSUME NEW times, Tally(times), NEW t \in Nat
    PROVE  /\ Tally(Stamped(times, t))
           /\ Cardinality(Stamped(times, t)) = Cardinality(times) + 1
           /\ \A s \in Int : s <= t =>
                Cardinality(Since(Stamped(times, t), s)) = Cardinality(Since(times, s)) + 1
           /\ \A m \in Stamped(times, t) : m \in times \/ m[1] = t
<1> DEFINE c == Cardinality(Of(times, t))
           new == <<t, c>>
<1>1. IsFiniteSet(times) /\ times \in SUBSET (Nat \X Nat) /\ c \in Nat
  BY OfFinite DEF Tally, Stamps
<1>2. new[1] = t /\ new[2] = c /\ new \in Nat \X Nat
  BY <1>1
<1>3. Stamped(times, t) = times \cup {new}
  BY DEF Stamped
<1>4. new \notin times
  <2> SUFFICES ASSUME new \in times PROVE FALSE
    OBVIOUS
  <2>1. new[2] < Cardinality(Of(times, new[1]))
    BY DEF Tally
  <2> QED
    BY <1>1, <1>2, <2>1
<1> HIDE DEF new
<1>5. IsFiniteSet(Stamped(times, t)) /\ Cardinality(Stamped(times, t)) = Cardinality(times) + 1
  BY <1>1, <1>3, <1>4, FS_AddElement
<1>6. ASSUME NEW s \in Int, s <= t
      PROVE  Cardinality(Since(Stamped(times, t), s)) = Cardinality(Since(times, s)) + 1
  <2>1. Since(Stamped(times, t), s) = Since(times, s) \cup {new} /\ new \notin Since(times, s)
    BY <1>2, <1>3, <1>4, <1>6 DEF Since
  <2> QED
    BY <1>1, <2>1, OfFinite, FS_AddElement
<1>7. Of(Stamped(times, t), t) = Of(times, t) \cup {new} /\ new \notin Of(times, t)
  BY <1>2, <1>3, <1>4 DEF Of
<1>8. Cardinality(Of(Stamped(times, t), t)) = c + 1
  BY <1>1, <1>7, OfFinite, FS_AddElement
<1>9. \A m \in times : m[1] # t => Of(Stamped(times, t), m[1]) = Of(times, m[1])
  BY <1>2, <1>3 DEF Of
<1>10. ASSUME NEW m \in Stamped(times, t)
       PROVE  m[2] < Cardinality(Of(Stamped(times, t), m[1]))
  <2>1. CASE m = new
    BY <1>1, <1>2, <1>8, <2>1
  <2>2. CASE m \in times /\ m[1] = t
    <3>1. m[2] < c /\ m[2] \in Nat
      BY <1>1, <2>2 DEF Tally
    <3> HIDE DEF c
    <3> QED
      BY <1>1, <1>8, <2>2, <3>1
  <2>3. CASE m \in times /\ m[1] # t
    BY <1>9, <2>3 DEF Tally
  <2> QED
    BY <1>3, <2>1, <2>2, <2>3
<1>11. Stamped(times, t) \in Stamps
  BY <1>1, <1>2, <1>3 DEF Stamps
<1>12. \A m \in Stamped(times, t) : m \in times \/ m[1] = t
  BY <1>2, <1>3
<1> QED
  BY <1>5, <1>6, <1>10, <1>11, <1>12 DEF Tally

-----------------------------------------------------------------------------
(* The lockout table.                                                      *)

\* An entry holds fewer failures than lock the key, or a lock, and never both.
SoundEntry(s) ==
    /\ s \in Entry /\ Tally(s.failures)
    /\ Cardinality(s.failures) < MaxFailures
    /\ (s.lockoutUntil = 0) = (s.failures # {})

SoundTable(table) ==
    DOMAIN table \subseteq Keys /\ \A k \in DOMAIN table : SoundEntry(table[k])

\* What StateOf reads: an entry, or nothing to remember.
SoundState(s) ==
    /\ s \in Entry /\ Tally(s.failures)
    /\ Cardinality(s.failures) < MaxFailures
    /\ s.lockoutUntil # 0 => s.failures = {}

\* An absent key has nothing to remember.
LEMMA StateIsSound ==
    ASSUME NEW table, SoundTable(table), NEW k
    PROVE  /\ SoundState(StateOf(table, k))
           /\ k \in DOMAIN table => StateOf(table, k) = table[k] /\ SoundEntry(StateOf(table, k))
<1>1. CASE k \in DOMAIN table
  BY <1>1 DEF SoundTable, SoundEntry, SoundState, StateOf
<1>2. CASE k \notin DOMAIN table
  <2>1. StateOf(table, k) = NoState /\ NoState.failures = {} /\ NoState.lockoutUntil = 0
    BY <1>2 DEF StateOf, NoState
  <2>2. NoState \in Entry
    BY DEF NoState, Entry, Stamps
  <2> QED
    BY <1>2, <2>1, <2>2, EmptyTally, LimitsAssumption DEF SoundState
<1> QED
  BY <1>1, <1>2

\* One entry is replaced.
LEMMA PutState ==
    ASSUME NEW table, SoundTable(table), NEW k \in Keys, NEW v, SoundEntry(v)
    PROVE  /\ StateOf(Put(table, k, v), k) = v /\ SoundTable(Put(table, k, v))
           /\ \A j : j # k => StateOf(Put(table, k, v), j) = StateOf(table, j)
<1>1. DOMAIN Put(table, k, v) = DOMAIN table \cup {k} /\ Put(table, k, v)[k] = v
  BY DEF Put
<1>2. \A j \in DOMAIN table : j # k => Put(table, k, v)[j] = table[j]
  BY DEF Put
<1> QED
  BY <1>1, <1>2 DEF StateOf, SoundTable

\* One entry is gone.
LEMMA DeleteState ==
    ASSUME NEW table, NEW k
    PROVE  /\ StateOf(Delete(table, k), k) = NoState
           /\ \A j : j # k => StateOf(Delete(table, k), j) = StateOf(table, j)
           /\ SoundTable(table) => SoundTable(Delete(table, k))
<1>1. DOMAIN Delete(table, k) = DOMAIN table \ {k} /\ \A j \in DOMAIN table \ {k} : Delete(table, k)[j] = table[j]
  BY DEF Delete
<1> QED
  BY <1>1 DEF StateOf, SoundTable

\* Allow looks at one entry: it leaves a lock, or prunes and forgets a lock that is over.
LEMMA AllowState ==
    ASSUME NEW table, SoundTable(table), NEW k \in Keys, NEW t \in Nat
    PROVE  LET s == StateOf(table, k)
               z == StateOf(Allow(table, k, t), k)
           IN /\ SoundTable(Allow(table, k, t))
              /\ \A j : j # k => StateOf(Allow(table, k, t), j) = StateOf(table, j)
              /\ LockedAt(s, t) => z = s
              /\ ~LockedAt(s, t) => z = [failures |-> pruneFailures(s.failures, t), lockoutUntil |-> 0]
<1> DEFINE s == StateOf(table, k)
           kept == pruneFailures(s.failures, t)
<1>1. SoundState(s) /\ (k \in DOMAIN table => SoundEntry(s))
  BY StateIsSound
<1>2. CASE LockedAt(s, t)
  <2>1. Allow(table, k, t) = Put(table, k, s)
    BY <1>2 DEF Allow
  <2>2. SoundEntry(s)
    BY <1>1, <1>2 DEF LockedAt, StateOf, NoState
  <2>3. /\ StateOf(Put(table, k, s), k) = s /\ SoundTable(Put(table, k, s))
        /\ \A j : j # k => StateOf(Put(table, k, s), j) = StateOf(table, j)
    BY <2>2, PutState
  <2> HIDE DEF s
  <2> QED
    BY <1>2, <2>1, <2>3 DEF s
<1>3. CASE ~LockedAt(s, t) /\ kept = {}
  <2>1. Allow(table, k, t) = Delete(table, k)
    BY <1>3 DEF Allow
  <2> QED
    BY <1>3, <2>1, DeleteState DEF NoState
<1>4. CASE ~LockedAt(s, t) /\ kept # {}
  <2> DEFINE v == [failures |-> kept, lockoutUntil |-> 0]
  <2>1. Allow(table, k, t) = Put(table, k, v)
    BY <1>4 DEF Allow
  <2>2. t - Window \in Int /\ MaxFailures \in Nat
    BY LimitsAssumption
  <2>3. Tally(kept) /\ Cardinality(kept) <= Cardinality(s.failures) /\ Cardinality(s.failures) < MaxFailures
    BY <1>1, <2>2, SinceTally, OfFinite DEF pruneFailures, SoundState, Tally
  <2>4. Cardinality(kept) \in Nat /\ Cardinality(s.failures) \in Nat
    BY <1>1, <2>3, FS_CardinalityType DEF SoundState, Tally
  <2>5. v \in Entry
    BY <2>3 DEF Tally, Entry
  <2>6. SoundEntry(v)
    BY <1>4, <2>2, <2>3, <2>4, <2>5 DEF SoundEntry
  <2> QED
    <3>1. /\ StateOf(Put(table, k, v), k) = v /\ SoundTable(Put(table, k, v))
          /\ \A j : j # k => StateOf(Put(table, k, v), j) = StateOf(table, j)
      BY <2>6, PutState
    <3> QED
      BY <1>4, <2>1, <3>1
<1> QED
  BY <1>2, <1>3, <1>4

\* RegisterFailure counts one more, and the one that fills the window locks.
LEMMA RegisterState ==
    ASSUME NEW table, SoundTable(table), NEW k \in Keys, NEW t \in Nat
    PROVE  LET s   == StateOf(table, k)
               z   == StateOf(RegisterFailure(table, k, t), k)
               all == Stamped(pruneFailures(s.failures, t), t)
           IN /\ SoundTable(RegisterFailure(table, k, t))
              /\ \A j : j # k => StateOf(RegisterFailure(table, k, t), j) = StateOf(table, j)
              /\ LockedAt(s, t) => z = s
              /\ ~LockedAt(s, t) =>
                   \/ z = [failures |-> all, lockoutUntil |-> 0]
                   \/ z = [failures |-> {}, lockoutUntil |-> t + Lockout]
<1> DEFINE s   == StateOf(table, k)
           all == Stamped(pruneFailures(s.failures, t), t)
<1>1. SoundState(s) /\ (k \in DOMAIN table => SoundEntry(s))
  BY StateIsSound
<1>2. CASE LockedAt(s, t)
  <2>1. RegisterFailure(table, k, t) = Put(table, k, s)
    BY <1>2 DEF RegisterFailure
  <2>2. SoundEntry(s)
    BY <1>1, <1>2 DEF LockedAt, StateOf, NoState
  <2>3. /\ StateOf(Put(table, k, s), k) = s /\ SoundTable(Put(table, k, s))
        /\ \A j : j # k => StateOf(Put(table, k, s), j) = StateOf(table, j)
    BY <2>2, PutState
  <2> QED
    BY <1>2, <2>1, <2>3
<1>3. CASE ~LockedAt(s, t)
  <2> DEFINE v == IF Cardinality(all) >= MaxFailures
                  THEN [failures |-> {}, lockoutUntil |-> t + Lockout]
                  ELSE [failures |-> all, lockoutUntil |-> 0]
  <2>1. s.failures = IF s.lockoutUntil # 0 THEN {} ELSE s.failures
    BY <1>1 DEF SoundState
  <2>2. RegisterFailure(table, k, t) = Put(table, k, v)
    BY <1>3, <2>1 DEF RegisterFailure
  <2>3. t - Window \in Int /\ MaxFailures \in Nat \ {0} /\ Lockout \in Nat \ {0}
    BY LimitsAssumption
  <2>4. Tally(pruneFailures(s.failures, t))
    BY <1>1, <2>3, SinceTally DEF pruneFailures, SoundState
  <2>5. Tally(all) /\ Cardinality(all) = Cardinality(pruneFailures(s.failures, t)) + 1
    BY <2>4, StampedTally
  <2>6. Cardinality(pruneFailures(s.failures, t)) \in Nat /\ IsFiniteSet(all)
    BY <2>4, <2>5, FS_CardinalityType DEF Tally
  <2>7. all # {} /\ Cardinality(all) \in Nat
    BY <2>5, <2>6, FS_EmptySet
  <2> HIDE DEF all
  <2>8. CASE Cardinality(all) >= MaxFailures
    <3>1. v = [failures |-> {}, lockoutUntil |-> t + Lockout]
      BY <2>8
    <3>2. v \in Entry /\ v.failures = {} /\ v.lockoutUntil = t + Lockout /\ t + Lockout # 0
      BY <2>3, <3>1 DEF Entry, Stamps
    <3>3. SoundEntry(v)
      BY <2>3, <3>2, EmptyTally DEF SoundEntry
    <3> HIDE DEF v
    <3>4. /\ StateOf(Put(table, k, v), k) = v /\ SoundTable(Put(table, k, v))
          /\ \A j : j # k => StateOf(Put(table, k, v), j) = StateOf(table, j)
      BY <3>3, PutState
    <3> QED
      BY <1>3, <2>2, <3>1, <3>4
  <2>9. CASE ~(Cardinality(all) >= MaxFailures)
    <3>1. v = [failures |-> all, lockoutUntil |-> 0]
      BY <2>9
    <3>2. v \in Entry /\ v.failures = all /\ v.lockoutUntil = 0
      <4>1. all \in Stamps
        BY <2>5 DEF Tally
      <4> QED
        BY <3>1, <4>1 DEF Entry
    <3>3. SoundEntry(v)
      BY <2>3, <2>5, <2>7, <2>9, <3>2 DEF SoundEntry
    <3> HIDE DEF v
    <3>4. /\ StateOf(Put(table, k, v), k) = v /\ SoundTable(Put(table, k, v))
          /\ \A j : j # k => StateOf(Put(table, k, v), j) = StateOf(table, j)
      BY <3>3, PutState
    <3> QED
      BY <1>3, <2>2, <3>1, <3>4 DEF all
  <2> QED
    BY <2>8, <2>9
<1> QED
  BY <1>2, <1>3

\* An eviction finds nothing, and so changes nothing that is read.
LEMMA EvictState ==
    ASSUME NEW table, SoundTable(table), NEW gone \in SUBSET Evictable(table)
    PROVE  /\ Evictable(table) = {} /\ SoundTable(Evict(table, gone))
           /\ \A j : StateOf(Evict(table, gone), j) = StateOf(table, j)
<1>1. Evictable(table) = {} /\ gone = {}
  BY DEF Evictable, SoundTable, SoundEntry
<1>2. /\ DOMAIN Evict(table, gone) = DOMAIN table
      /\ \A j \in DOMAIN table : Evict(table, gone)[j] = table[j]
  BY <1>1 DEF Evict
<1> QED
  BY <1>1, <1>2 DEF StateOf, SoundTable

-----------------------------------------------------------------------------
(* The types, and the table that needs no eviction.                        *)

\* A span is no longer than a window, nor than a lock.
LEMMA SpanFacts == Span \in Nat \ {0} /\ Span <= Window /\ Span <= Lockout
  BY LimitsAssumption DEF Span, Lesser

\* The history holds the wrong PINs of the last span and no other.
SoundHistory(hist, t) ==
    /\ hist \in [Keys -> Stamps]
    /\ \A k \in Keys : /\ Tally(hist[k])
                       /\ \A m \in hist[k] : m[1] > t - Span /\ m[1] <= t

TableInv == SoundTable(states) /\ SoundHistory(recent, now)

\* A request past the first check has a key.
LEMMA KeyTyped ==
    ASSUME TrailInv, NEW r \in Requests, vpc[r] # "idle"
    PROVE  Key(r) \in Keys
  BY DEF TrailInv, TrailTypes, VerifyStates, Busy, Key, Keys

\* At the start both are empty.
LEMMA InitTable == Init => TableInv
<1> SUFFICES ASSUME Init PROVE TableInv
  OBVIOUS
<1>1. states = <<>> /\ recent = [k \in Keys |-> {}]
  BY DEF Init
<1>2. {} \in Stamps
  BY DEF Stamps
<1> QED
  BY <1>1, <1>2, EmptyTally, NoBuckets DEF TableInv, SoundTable, SoundHistory

\* One more wrong PIN of this tick.
LEMMA HistoryGrows ==
    ASSUME NEW t \in Nat, NEW hist, SoundHistory(hist, t), NEW k \in Keys
    PROVE  SoundHistory([hist EXCEPT ![k] = Stamped(@, t)], t)
<1> DEFINE new == Stamped(hist[k], t)
<1>1. Tally(new) /\ \A m \in new : m \in hist[k] \/ m[1] = t
  BY StampedTally DEF SoundHistory
<1>2. \A m \in new : m[1] > t - Span /\ m[1] <= t
  BY <1>1, SpanFacts DEF SoundHistory
<1>3. new \in Stamps
  BY <1>1 DEF Tally
<1>4. [hist EXCEPT ![k] = Stamped(@, t)] = [hist EXCEPT ![k] = new]
  BY DEF SoundHistory
<1> HIDE DEF new
<1> QED
  BY <1>1, <1>2, <1>3, <1>4 DEF SoundHistory

\* The span moves on by a tick.
LEMMA HistoryAges ==
    ASSUME NEW t \in Nat, NEW hist, SoundHistory(hist, t)
    PROVE  SoundHistory([k \in Keys |-> Since(hist[k], (t + 1) + 1 - Span)], t + 1)
<1> DEFINE s == (t + 1) + 1 - Span
<1>0. s \in Int /\ Span \in Nat \ {0}
  BY SpanFacts
<1>1. ASSUME NEW k \in Keys
      PROVE  /\ Tally(Since(hist[k], s)) /\ Since(hist[k], s) \in Stamps
             /\ \A m \in Since(hist[k], s) : m[1] > (t + 1) - Span /\ m[1] <= t + 1
  <2>1. Tally(hist[k]) /\ \A m \in hist[k] : m[1] <= t
    BY DEF SoundHistory
  <2>2. Tally(Since(hist[k], s))
    BY <1>0, <2>1, SinceTally
  <2>3. \A m \in Since(hist[k], s) : m \in hist[k] /\ m \in Nat \X Nat /\ m[1] >= s
    BY <2>1 DEF Since, Tally, Stamps
  <2>4. \A m \in Since(hist[k], s) : m[1] \in Nat
    BY <2>3
  <2> QED
    BY <1>0, <2>1, <2>2, <2>3, <2>4 DEF Tally
<1> QED
  BY <1>1 DEF SoundHistory

\* Every step keeps the table and the history.
LEMMA NextTable == CouponInv /\ TrailInv /\ TableInv /\ [Next]_vars => TableInv'
<1> SUFFICES ASSUME CouponInv, TrailInv, TableInv, [Next]_vars
             PROVE  SoundTable(states') /\ SoundHistory(recent', now')
  BY DEF TableInv
<1>0. now \in Nat /\ SoundTable(states) /\ SoundHistory(recent, now)
  BY DEF CouponInv, CouponTypes, TableInv
<1>1. ASSUME UNCHANGED <<now, states, recent>>
      PROVE  SoundTable(states') /\ SoundHistory(recent', now')
  BY <1>0, <1>1
<1>2. ASSUME NEW r \in Requests, allowVerifyAttempt(r)
      PROVE  SoundTable(states') /\ SoundHistory(recent', now')
  <2>1. states' = Allow(states, Key(r), now) /\ UNCHANGED <<now, recent>> /\ vpc[r] # "idle"
    BY <1>2 DEF allowVerifyAttempt
  <2>2. SoundTable(Allow(states, Key(r), now))
    BY <1>0, <2>1, KeyTyped, AllowState
  <2> QED
    BY <1>0, <2>1, <2>2
<1>3. ASSUME NEW r \in Requests, VerifySession(r)
      PROVE  SoundTable(states') /\ SoundHistory(recent', now')
  <2>1. /\ UNCHANGED <<now, states>> /\ vpc[r] # "idle"
        /\ recent' = recent \/ recent' = [recent EXCEPT ![Key(r)] = Stamped(@, now)]
    BY <1>3 DEF VerifySession
  <2>2. SoundHistory([recent EXCEPT ![Key(r)] = Stamped(@, now)], now)
    BY <1>0, <2>1, KeyTyped, HistoryGrows
  <2> QED
    BY <1>0, <2>1, <2>2
<1>4. ASSUME NEW r \in Requests, handleVerifyFailure(r)
      PROVE  SoundTable(states') /\ SoundHistory(recent', now')
  <2>1. UNCHANGED <<now, recent>> /\ vpc[r] # "idle"
    BY <1>4 DEF handleVerifyFailure
  <2>2. CASE vpc[r] = "count"
    <3> DEFINE after == RegisterFailure(states, Key(r), now)
    <3>1. PICK gone \in SUBSET Evictable(after) : states' = Evict(after, gone)
      BY <1>4, <2>2 DEF handleVerifyFailure
    <3>2. SoundTable(after)
      BY <1>0, <2>1, KeyTyped, RegisterState
    <3> HIDE DEF after
    <3>3. SoundTable(Evict(after, gone))
      BY <3>2, EvictState
    <3> QED
      BY <1>0, <2>1, <3>1, <3>3
  <2>3. CASE vpc[r] # "count"
    <3>1. UNCHANGED states
      BY <1>4, <2>3 DEF handleVerifyFailure
    <3> QED
      BY <1>1, <2>1, <3>1
  <2> QED
    BY <2>2, <2>3
<1>5. ASSUME NEW r \in Requests, resetVerifyAttempt(r)
      PROVE  SoundTable(states') /\ SoundHistory(recent', now')
  <2>1. /\ states' = Delete(states, Key(r)) /\ now' = now
        /\ recent' = [recent EXCEPT ![Key(r)] = {}]
    BY <1>5 DEF resetVerifyAttempt
  <2>2. {} \in Stamps
    BY DEF Stamps
  <2>3. SoundHistory(recent', now)
    BY <1>0, <2>1, <2>2, EmptyTally DEF SoundHistory
  <2> QED
    BY <1>0, <2>1, <2>3, DeleteState
<1>6. ASSUME Restart PROVE SoundTable(states') /\ SoundHistory(recent', now')
  <2>1. states' = <<>> /\ recent' = [k \in Keys |-> {}]
    BY <1>6 DEF Restart
  <2>2. {} \in Stamps
    BY DEF Stamps
  <2> QED
    BY <2>1, <2>2, EmptyTally, NoBuckets DEF SoundTable, SoundHistory
<1>7. ASSUME Tick PROVE SoundTable(states') /\ SoundHistory(recent', now')
  <2>1. /\ states' = states /\ now' = now + 1
        /\ recent' = [k \in Keys |-> Since(recent[k], (now + 1) + 1 - Span)]
    BY <1>7 DEF Tick
  <2>2. SoundHistory(recent', now + 1)
    BY <1>0, <2>1, HistoryAges
  <2> QED
    BY <1>0, <2>1, <2>2
<1>8. ASSUME NEW c \in Claims, ClaimStep(c) \/ CleanupDB(c) PROVE UNCHANGED <<now, states, recent>>
  BY <1>8 DEF ClaimStep, ValidateCoupon, ClaimCoupon, CouponInvalid, CreateSession, RollbackClaim,
              CleanupDB, limitVars
<1>9. ASSUME NEW r \in Requests,
             \/ \E i \in Clients, c \in Visited, right \in BOOLEAN : Wrap(r, i, c, right)
             \/ MintToken(r)
      PROVE  UNCHANGED <<now, states, recent>>
  BY <1>9 DEF Wrap, MintToken, limitVars
<1>10. ASSUME UNCHANGED vars PROVE UNCHANGED <<now, states, recent>>
  BY <1>10 DEF vars, limitVars
<1> QED
  BY <1>1, <1>2, <1>3, <1>4, <1>5, <1>6, <1>7, <1>8, <1>9, <1>10 DEF Next, VerifyStep

\* Every entry of the lockout table holds a lock or too few failures for one.
THEOREM TableInductive == Spec => []TableInv
<1>1. Init => TableInv
  BY InitTable
<1>2. CouponInv /\ TrailInv /\ TableInv /\ [Next]_vars => TableInv'
  BY NextTable
<1> QED
  BY <1>1, <1>2, CouponInductive, TrailInductive, PTL DEF Spec

\* Allow and RegisterFailure leave no entry that evictStaleLocked could delete.
THEOREM EvictionFindsNothing == Spec => []NothingToEvict
<1>1. TableInv => NothingToEvict
  BY EvictState DEF TableInv, NothingToEvict
<1> QED
  BY <1>1, TableInductive, PTL

\* The token bucket's invariant holds throughout.
LEMMA BucketInductive == Spec => []BucketInv
<1>1. Init => BucketInv
  BY InitBucket
<1>2. BucketInv /\ [Next]_vars => BucketInv'
  BY NextBucket
<1> QED
  BY <1>1, <1>2, PTL DEF Spec

BucketTypes(table) == DOMAIN table \subseteq Clients /\ \A i \in DOMAIN table : table[i] \in Bucket

\* A bucket that is charged, or only refilled, is still a bucket.
LEMMA ChargedTypes ==
    ASSUME BucketInv, BucketTypes(buckets), NEW i \in Clients
    PROVE  BucketTypes(allow(buckets, i, now))
<1> DEFINE b == Refilled(buckets, i, now)
           d == IF b.tokens < Cost THEN b ELSE [tokens |-> b.tokens - Cost, lastRefill |-> b.lastRefill]
<1>1. b.tokens \in Nat /\ b.lastRefill = now /\ now \in Nat
  BY RefilledBucket DEF BucketInv
<1>2. \/ b \in Bucket
      \/ \E n : b = [tokens |-> n, lastRefill |-> now]
  BY DEF Refilled, BucketTypes
<1> HIDE DEF b
<1>3. b \in Bucket
  BY <1>1, <1>2 DEF Bucket
<1>4. d \in Bucket
  BY <1>1, <1>3, CapacityNat DEF Bucket
<1>5. allow(buckets, i, now) = Put(buckets, i, d)
  BY DEF allow, b
<1> HIDE DEF d
<1> QED
  BY <1>4, <1>5 DEF BucketTypes, Put

\* Buckets are charged and refilled, and stay buckets.
LEMMA BucketsTyped == Spec => []BucketTypes(buckets)
<1>1. Init => BucketTypes(buckets)
  BY NoBuckets DEF Init, BucketTypes
<1>2. BucketInv /\ BucketTypes(buckets) /\ [Next]_vars => BucketTypes(buckets)'
  <2> SUFFICES ASSUME BucketInv, BucketTypes(buckets), [Next]_vars PROVE BucketTypes(buckets')
    OBVIOUS
  <2>1. ASSUME NEW r \in Requests, NEW i \in Clients, NEW c \in Visited, NEW right \in BOOLEAN, Wrap(r, i, c, right)
        PROVE  BucketTypes(buckets')
    BY <2>1, ChargedTypes DEF Wrap
  <2>2. CASE Restart
    BY <2>2, NoBuckets DEF Restart, BucketTypes
  <2>3. ASSUME NEW c \in Claims, ClaimStep(c) \/ CleanupDB(c) PROVE UNCHANGED buckets
    BY <2>3 DEF ClaimStep, ValidateCoupon, ClaimCoupon, CouponInvalid, CreateSession, RollbackClaim,
                CleanupDB, limitVars
  <2>4. ASSUME NEW r \in Requests,
               \/ allowVerifyAttempt(r) \/ VerifySession(r) \/ handleVerifyFailure(r)
               \/ resetVerifyAttempt(r) \/ MintToken(r)
        PROVE  UNCHANGED buckets
    BY <2>4 DEF allowVerifyAttempt, VerifySession, handleVerifyFailure, resetVerifyAttempt, MintToken, limitVars
  <2>5. CASE Tick \/ UNCHANGED vars
    BY <2>5 DEF Tick, vars, limitVars
  <2> QED
    BY <2>1, <2>2, <2>3, <2>4, <2>5 DEF Next, VerifyStep
<1> QED
  BY <1>1, <1>2, BucketInductive, PTL DEF Spec

\* The types of the sessions, the requests, the cookies and both tables.
THEOREM AccessTyped == Spec => []TypeOK
<1>1. CouponInv /\ TrailInv /\ TableInv /\ BucketInv /\ BucketTypes(buckets) => TypeOK
  <2> SUFFICES ASSUME CouponInv, TrailInv, TableInv, BucketInv, BucketTypes(buckets) PROVE TypeOK
    OBVIOUS
  <2>1. /\ now \in Nat /\ uses \in Nat /\ holder \in Claims \cup {NoOne}
        /\ cpc \in [Claims -> ClaimStates] /\ sessions \in [Claims -> Row]
    BY DEF CouponInv, CouponTypes
  <2>2. /\ vpc \in [Requests -> VerifyStates] /\ req \in [Requests -> Request]
        /\ cookie \in [Clients -> [code : Claims \cup {NoOne}, exp : Nat]]
    BY DEF TrailInv, TrailTypes
  <2>3. /\ DOMAIN states \subseteq Keys /\ \A k \in DOMAIN states : states[k] \in Entry
        /\ recent \in [Keys -> Stamps]
    BY DEF TableInv, SoundTable, SoundEntry, SoundHistory
  <2>4. /\ DOMAIN buckets \subseteq Clients /\ \A i \in DOMAIN buckets : buckets[i] \in Bucket
        /\ quota \in [Clients -> Int]
    BY DEF BucketInv, BucketTypes
  <2> QED
    BY <2>1, <2>2, <2>3, <2>4 DEF TypeOK
<1> QED
  BY <1>1, CouponInductive, TrailInductive, TableInductive, BucketInductive, BucketsTyped, PTL

-----------------------------------------------------------------------------
(* How many wrong PINs a span can see.                                     *)

Others == Cardinality(Requests) - 1

\* The requests of key k that are in state st.
In(pc, rq, st, k) == {r \in Requests : pc[r] = st /\ <<rq[r].code, rq[r].ip>> = k}

\* Unlocked: since any moment, the wrong PINs are those the table has counted,
\* those about to be counted, and one for each other request that had stalled
\* when an earlier lock fell.
Within(times, failures, counting) ==
    \A b \in Int : Cardinality(Since(times, b)) <= Others + Cardinality(Since(failures, b)) + counting

\* Locked: only the requests that are about to compare can still add to them, and
\* since the lock fell no other has.
Ahead(times, until, reading) ==
    /\ Cardinality(times) + reading <= MaxFailures + 2 * Others
    /\ Cardinality(Since(times, (until - Lockout) + 1)) + reading <= Others

Bounded(s, times, t, reading, counting) ==
    /\ LockedAt(s, t) => Ahead(times, s.lockoutUntil, reading)
    /\ ~LockedAt(s, t) => Within(times, s.failures, counting)

GuessInv ==
    \A k \in Keys : Bounded(StateOf(states, k), recent[k], now,
                            Cardinality(In(vpc, req, "read", k)),
                            Cardinality(In(vpc, req, "count", k)))

\* There is a request.
LEMMA OthersNat == Others \in Nat /\ Cardinality(Requests) = Others + 1
<1>1. Cardinality(Requests) \in Nat /\ Cardinality(Requests) # 0
  BY AccessAssumption, FS_CardinalityType, FS_EmptySet
<1> QED
  BY <1>1 DEF Others

\* What the constants are.
LEMMA Limits ==
    /\ MaxFailures \in Nat \ {0} /\ Window \in Nat \ {0} /\ Lockout \in Nat \ {0}
    /\ Span \in Nat \ {0} /\ Span <= Window /\ Span <= Lockout
  BY LimitsAssumption, SpanFacts

\* A group of requests is finite.
LEMMA InFinite ==
    ASSUME NEW pc, NEW rq, NEW st, NEW k
    PROVE  IsFiniteSet(In(pc, rq, st, k)) /\ Cardinality(In(pc, rq, st, k)) \in Nat
<1>1. In(pc, rq, st, k) \subseteq Requests
  BY DEF In
<1> QED
  BY <1>1, AccessAssumption, FS_Subset, FS_CardinalityType

\* Two disjoint groups of requests, both without r, are at most the others.
LEMMA RoomForOthers ==
    ASSUME NEW A, NEW B, NEW r \in Requests,
           A \subseteq Requests \ {r}, B \subseteq Requests \ {r}, A \cap B = {}
    PROVE  Cardinality(A) + Cardinality(B) <= Others
<1>1. IsFiniteSet(Requests \ {r}) /\ Cardinality(Requests \ {r}) = Others
  BY AccessAssumption, FS_RemoveElement, FS_CardinalityType DEF Others
<1>2. A \cup B \subseteq Requests \ {r}
  OBVIOUS
<1>3. /\ IsFiniteSet(A) /\ IsFiniteSet(B) /\ IsFiniteSet(A \cup B)
      /\ Cardinality(A \cup B) <= Others
  BY <1>1, <1>2, FS_Subset
<1>4. Cardinality(A \cup B) = Cardinality(A) + Cardinality(B) - Cardinality(A \cap B)
  BY <1>3, FS_Union
<1>5. Cardinality(A \cap B) = 0 /\ Cardinality(A) \in Nat /\ Cardinality(B) \in Nat
  BY <1>3, FS_EmptySet, FS_CardinalityType
<1> QED
  BY <1>3, <1>4, <1>5

\* A set of stamps, what is known of its counts.
LEMMA SinceFacts ==
    ASSUME NEW times, Tally(times)
    PROVE  /\ Cardinality(times) \in Nat
           /\ \A b : Cardinality(Since(times, b)) \in Nat /\ Cardinality(Since(times, b)) <= Cardinality(times)
           /\ \A b : (\A m \in times : m[1] >= b) => Since(times, b) = times
           /\ \A b : (\A m \in times : ~(m[1] >= b)) => Since(times, b) = {}
<1>1. IsFiniteSet(times)
  BY DEF Tally
<1>2. \A b : (\A m \in times : m[1] >= b) => Since(times, b) = times
  BY DEF Since
<1>3. \A b : (\A m \in times : ~(m[1] >= b)) => Since(times, b) = {}
  BY DEF Since
<1> QED
  BY <1>1, <1>2, <1>3, OfFinite, FS_CardinalityType

\* What a history of the last span says of the two ends of it.
LEMMA StretchFacts ==
    ASSUME NEW times, Tally(times), NEW t \in Nat,
           \A m \in times : m[1] > t - Span /\ m[1] <= t
    PROVE  /\ \A b \in Int : b <= t - Span + 1 => Since(times, b) = times
           /\ \A b \in Int : b > t => Since(times, b) = {}
<1>1. \A m \in times : m[1] \in Nat
  BY DEF Tally, Stamps
<1>2. \A b \in Int : b <= t - Span + 1 => \A m \in times : m[1] >= b
  BY <1>1, Limits
<1>3. \A b \in Int : b > t => \A m \in times : ~(m[1] >= b)
  BY <1>1
<1> QED
  BY <1>2, <1>3, SinceFacts

\* Between two requests' steps the bound is what a run can see.
LEMMA BoundedBounds ==
    ASSUME NEW s, SoundState(s), NEW times, Tally(times), NEW t \in Nat,
           \A m \in times : m[1] > t - Span /\ m[1] <= t,
           NEW reading \in Nat, NEW counting \in Nat, counting <= Others + 1,
           Bounded(s, times, t, reading, counting)
    PROVE  Cardinality(times) <= MaxFailures + 2 * Others
<1> USE OthersNat, Limits
<1>1. Cardinality(times) \in Nat /\ Cardinality(s.failures) \in Nat /\ Cardinality(s.failures) < MaxFailures
  BY SinceFacts DEF SoundState
<1>2. CASE LockedAt(s, t)
  BY <1>1, <1>2 DEF Bounded, Ahead
<1>3. CASE ~LockedAt(s, t)
  <2> DEFINE b == t - Span + 1
  <2>1. b \in Int /\ b <= t - Span + 1
    OBVIOUS
  <2>2. Since(times, b) = times
    BY <2>1, StretchFacts
  <2>3. Cardinality(Since(times, b)) <= Others + Cardinality(Since(s.failures, b)) + counting
    BY <1>3, <2>1 DEF Bounded, Within
  <2>4. Cardinality(Since(s.failures, b)) \in Nat /\ Cardinality(Since(s.failures, b)) <= Cardinality(s.failures)
    BY SinceFacts DEF SoundState
  <2> HIDE DEF b
  <2> QED
    BY <1>1, <2>2, <2>3, <2>4
<1> QED
  BY <1>2, <1>3

\* Pruning forgets no failure that a wrong PIN of the span led to.
LEMMA WithinPruned ==
    ASSUME NEW failures, Tally(failures), NEW times, Tally(times), NEW t \in Nat,
           \A m \in times : m[1] > t - Span /\ m[1] <= t,
           NEW counting \in Nat, Within(times, failures, counting)
    PROVE  Within(times, pruneFailures(failures, t), counting)
<1> DEFINE w == t - Window
           kept == Since(failures, w)
<1>0. w \in Int /\ w <= t - Span + 1 /\ \A m \in failures : m[1] \in Nat
  BY Limits DEF Tally, Stamps
<1>1. Since(times, w) = times
  BY <1>0, StretchFacts
<1>2. ASSUME NEW b \in Int
      PROVE  Cardinality(Since(times, b)) <= Others + Cardinality(Since(kept, b)) + counting
  <2>1. CASE b >= w
    <3>1. Since(kept, b) = Since(failures, b)
      BY <1>0, <2>1 DEF Since
    <3> QED
      BY <3>1 DEF Within
  <2>2. CASE ~(b >= w)
    <3>1. Since(kept, b) = Since(failures, w)
      BY <1>0, <2>2 DEF Since
    <3>2. b <= t - Span + 1
      BY <1>0, <2>2, Limits
    <3>3. Since(times, b) = times
      BY <3>2, StretchFacts
    <3>4. Cardinality(Since(times, w)) <= Others + Cardinality(Since(failures, w)) + counting
      BY <1>0 DEF Within
    <3> HIDE DEF w
    <3> QED
      BY <1>1, <3>1, <3>3, <3>4
  <2> QED
    BY <2>1, <2>2
<1> QED
  BY <1>2 DEF Within, pruneFailures

\* A wrong PIN: the request that was about to compare is about to be counted.
LEMMA CompareBounded ==
    ASSUME NEW s, SoundState(s), NEW times, Tally(times), NEW t \in Nat,
           \A m \in times : m[1] > t - Span /\ m[1] <= t,
           NEW reading \in Nat, NEW counting \in Nat,
           Bounded(s, times, t, reading + 1, counting)
    PROVE  Bounded(s, Stamped(times, t), t, reading, counting + 1)
<1> USE OthersNat, Limits
<1> DEFINE new == Stamped(times, t)
<1>1. /\ Tally(new) /\ Cardinality(new) = Cardinality(times) + 1
      /\ \A b \in Int : b <= t => Cardinality(Since(new, b)) = Cardinality(Since(times, b)) + 1
      /\ \A m \in new : m[1] <= t
  BY StampedTally
<1>2. /\ Cardinality(times) \in Nat
      /\ \A b : Cardinality(Since(times, b)) \in Nat /\ Cardinality(Since(s.failures, b)) \in Nat
  BY SinceFacts DEF SoundState
<1>3. \A b \in Int : b > t => Cardinality(Since(new, b)) = 0
  <2>1. \A m \in new : m[1] \in Nat
    BY <1>1 DEF Tally, Stamps
  <2>2. \A b \in Int : b > t => \A m \in new : ~(m[1] >= b)
    BY <1>1, <2>1
  <2> HIDE DEF new
  <2>3. \A b \in Int : b > t => Since(new, b) = {}
    BY <1>1, <2>2, SinceFacts
  <2> QED
    BY <2>3, EmptyTally
<1> HIDE DEF new
<1>4. CASE LockedAt(s, t)
  <2> DEFINE l == (s.lockoutUntil - Lockout) + 1
  <2>1. l \in Int
    BY DEF SoundState, Entry
  <2>2. /\ Cardinality(times) + (reading + 1) <= MaxFailures + 2 * Others
        /\ Cardinality(Since(times, l)) + (reading + 1) <= Others
    BY <1>4 DEF Bounded, Ahead
  <2> HIDE DEF l
  <2>3. Cardinality(Since(new, l)) <= Cardinality(Since(times, l)) + 1 /\ Cardinality(Since(new, l)) \in Nat
    BY <1>1, <1>2, <1>3, <2>1
  <2>4. Cardinality(new) + reading <= MaxFailures + 2 * Others
    BY <1>1, <1>2, <2>2
  <2>5. Cardinality(Since(new, l)) + reading <= Others
    BY <1>2, <2>2, <2>3
  <2> QED
    BY <1>4, <2>4, <2>5 DEF Bounded, Ahead, new, l
<1>5. CASE ~LockedAt(s, t)
  <2>1. ASSUME NEW b \in Int
        PROVE  Cardinality(Since(new, b)) <= Others + Cardinality(Since(s.failures, b)) + (counting + 1)
    <3>1. Cardinality(Since(times, b)) <= Others + Cardinality(Since(s.failures, b)) + counting
      BY <1>5 DEF Bounded, Within
    <3> QED
      BY <1>1, <1>2, <1>3, <3>1
  <2> QED
    BY <1>5, <2>1 DEF Bounded, Within, new
<1> QED
  BY <1>4, <1>5

\* A request that was about to compare is not any more.
LEMMA LeaveBounded ==
    ASSUME NEW s, NEW times, Tally(times), NEW t \in Nat, NEW reading \in Nat, NEW counting \in Nat,
           Bounded(s, times, t, reading + 1, counting)
    PROVE  Bounded(s, times, t, reading, counting)
<1> USE OthersNat, Limits
<1> DEFINE n == Cardinality(Since(times, (s.lockoutUntil - Lockout) + 1))
<1>1. Cardinality(times) \in Nat /\ n \in Nat
  BY SinceFacts
<1>2. CASE LockedAt(s, t)
  <2>1. Cardinality(times) + (reading + 1) <= MaxFailures + 2 * Others /\ n + (reading + 1) <= Others
    BY <1>2 DEF Bounded, Ahead
  <2> HIDE DEF n
  <2>2. Cardinality(times) + reading <= MaxFailures + 2 * Others /\ n + reading <= Others
    BY <1>1, <2>1
  <2> QED
    BY <1>2, <2>2 DEF Bounded, Ahead, n
<1> QED
  BY <1>2 DEF Bounded

\* A failure of an unlocked key is counted, or locks it with at most Others
\* requests of the key between its check and its count.
LEMMA RegisterBounded ==
    ASSUME NEW s, SoundState(s), NEW times, Tally(times), NEW t \in Nat,
           \A m \in times : m[1] > t - Span /\ m[1] <= t,
           NEW reading \in Nat, NEW counting \in Nat, counting + reading <= Others,
           ~LockedAt(s, t), Bounded(s, times, t, reading, counting + 1),
           NEW z, \/ z = [failures |-> Stamped(pruneFailures(s.failures, t), t), lockoutUntil |-> 0]
                  \/ z = [failures |-> {}, lockoutUntil |-> t + Lockout]
    PROVE  Bounded(z, times, t, reading, counting)
<1> USE OthersNat, Limits
<1> DEFINE kept == pruneFailures(s.failures, t)
           all  == Stamped(kept, t)
           w    == t - Window
<1>1. Within(times, kept, counting + 1)
  BY WithinPruned DEF Bounded, SoundState
<1>2. w \in Int /\ w <= t - Span + 1 /\ w <= t
  OBVIOUS
<1>3. Tally(kept) /\ Cardinality(kept) <= Cardinality(s.failures) /\ Cardinality(s.failures) < MaxFailures
  BY <1>2, SinceTally, SinceFacts DEF pruneFailures, SoundState
<1>4. /\ Cardinality(times) \in Nat /\ Cardinality(kept) \in Nat /\ Cardinality(s.failures) \in Nat
      /\ \A b : Cardinality(Since(times, b)) \in Nat /\ Cardinality(Since(kept, b)) \in Nat
      /\ \A b : Cardinality(Since(kept, b)) <= Cardinality(kept)
  BY <1>3, SinceFacts DEF SoundState
<1>5. /\ Tally(all)
      /\ \A b \in Int : b <= t => Cardinality(Since(all, b)) = Cardinality(Since(kept, b)) + 1
  BY <1>3, StampedTally
<1>6. \A b \in Int : b > t => Cardinality(Since(times, b)) = 0
  BY StretchFacts, EmptyTally
<1>7. CASE z = [failures |-> all, lockoutUntil |-> 0]
  <2>1. ~LockedAt(z, t) /\ z.failures = all
    BY <1>7 DEF LockedAt
  <2>2. \A b : Cardinality(Since(all, b)) \in Nat
    BY <1>5, SinceFacts
  <2> HIDE DEF all, kept
  <2>3. ASSUME NEW b \in Int
        PROVE  Cardinality(Since(times, b)) <= Others + Cardinality(Since(all, b)) + counting
    <3>1. Cardinality(Since(times, b)) <= Others + Cardinality(Since(kept, b)) + (counting + 1)
      BY <1>1 DEF Within
    <3>2. CASE b <= t
      <4>1. Cardinality(Since(all, b)) = Cardinality(Since(kept, b)) + 1
        BY <1>5, <3>2
      <4> QED
        BY <1>4, <2>2, <3>1, <4>1
    <3>3. CASE ~(b <= t)
      <4>1. Cardinality(Since(times, b)) = 0
        BY <1>6, <3>3
      <4> QED
        BY <2>2, <4>1
    <3> QED
      BY <3>2, <3>3
  <2> QED
    BY <2>1, <2>3 DEF Bounded, Within
<1>8. CASE z = [failures |-> {}, lockoutUntil |-> t + Lockout]
  <2>1. z.lockoutUntil = t + Lockout /\ LockedAt(z, t)
    BY <1>8 DEF LockedAt
  <2>2. (z.lockoutUntil - Lockout) + 1 = t + 1 /\ t + 1 \in Int /\ t + 1 > t
    BY <2>1
  <2>3. Cardinality(Since(times, t + 1)) = 0
    BY <1>6, <2>2
  <2>4. Since(times, w) = times
    BY <1>2, StretchFacts
  <2>5. Cardinality(Since(times, w)) <= Others + Cardinality(Since(kept, w)) + (counting + 1)
    BY <1>1, <1>2 DEF Within
  <2>6. Cardinality(Since(kept, w)) \in Nat /\ Cardinality(Since(kept, w)) <= Cardinality(kept)
    BY <1>4
  <2> HIDE DEF kept, w
  <2>7. Cardinality(times) + reading <= MaxFailures + 2 * Others
    BY <1>3, <1>4, <2>4, <2>5, <2>6
  <2>8. Cardinality(Since(times, (z.lockoutUntil - Lockout) + 1)) + reading <= Others
    BY <2>2, <2>3
  <2> QED
    BY <2>1, <2>7, <2>8 DEF Bounded, Ahead
<1> QED
  BY <1>7, <1>8

\* A tick drops what has left the span, and may end a lock.
LEMMA TickBounded ==
    ASSUME NEW s, SoundState(s), NEW times, Tally(times), NEW t \in Nat,
           NEW reading \in Nat, NEW counting \in Nat,
           Bounded(s, times, t, reading, counting)
    PROVE  Bounded(s, Since(times, (t + 1) + 1 - Span), t + 1, reading, counting)
<1> USE OthersNat, Limits
<1> DEFINE w == (t + 1) + 1 - Span
           left == Since(times, w)
           l == (s.lockoutUntil - Lockout) + 1
<1>0. w \in Int /\ l \in Int /\ s.lockoutUntil \in Nat /\ Tally(s.failures)
  BY DEF SoundState, Entry
<1>1. Tally(left)
  BY <1>0, SinceTally
<1>2. \A m \in times : m[1] \in Nat
  BY DEF Tally, Stamps
<1>3. \A b \in Int : Since(left, b) \subseteq Since(times, b) /\ left \subseteq times
  BY DEF Since
<1>4. /\ Cardinality(left) \in Nat /\ Cardinality(times) \in Nat /\ Cardinality(left) <= Cardinality(times)
      /\ \A b : Cardinality(Since(left, b)) \in Nat /\ Cardinality(Since(times, b)) \in Nat
      /\ \A b : Cardinality(Since(left, b)) <= Cardinality(left)
      /\ \A b : Cardinality(Since(s.failures, b)) \in Nat
  BY <1>0, <1>1, SinceFacts
<1>5. \A b \in Int : Cardinality(Since(left, b)) <= Cardinality(Since(times, b))
  <2>1. \A b \in Int : IsFiniteSet(Since(times, b))
    BY OfFinite DEF Tally
  <2> QED
    BY <1>3, <2>1, FS_Subset
<1>6. CASE LockedAt(s, t)
  <2>1. Cardinality(times) + reading <= MaxFailures + 2 * Others /\ Cardinality(Since(times, l)) + reading <= Others
    BY <1>6 DEF Bounded, Ahead
  <2>2. CASE LockedAt(s, t + 1)
    <3> HIDE DEF left
    <3>1. Cardinality(left) + reading <= MaxFailures + 2 * Others
      BY <1>4, <2>1
    <3>2. Cardinality(Since(left, l)) <= Cardinality(Since(times, l))
      BY <1>0, <1>5
    <3>3. Cardinality(Since(left, l)) \in Nat /\ Cardinality(Since(times, l)) \in Nat
      BY <1>4
    <3> HIDE DEF l
    <3>4. Cardinality(Since(left, l)) + reading <= Others
      BY <2>1, <3>2, <3>3
    <3> QED
      BY <2>2, <3>1, <3>4 DEF Bounded, Ahead, l, left
  <2>3. CASE ~LockedAt(s, t + 1)
    <3>1. l <= w
      BY <1>0, <1>6, <2>3 DEF LockedAt
    <3>2. left \subseteq Since(times, l)
      BY <1>0, <1>2, <3>1 DEF Since
    <3>3. IsFiniteSet(Since(times, l))
      BY OfFinite DEF Tally
    <3>4. Cardinality(left) <= Cardinality(Since(times, l))
      BY <3>2, <3>3, FS_Subset
    <3> HIDE DEF left, l
    <3>5. \A b \in Int : Cardinality(Since(left, b)) <= Others + Cardinality(Since(s.failures, b)) + counting
      BY <1>4, <2>1, <3>4
    <3> QED
      BY <2>3, <3>5 DEF Bounded, Within, left
  <2> QED
    BY <2>2, <2>3
<1>7. CASE ~LockedAt(s, t)
  <2>1. ~LockedAt(s, t + 1)
    BY <1>0, <1>7 DEF LockedAt
  <2> HIDE DEF left
  <2>2. \A b \in Int : Cardinality(Since(left, b)) <= Others + Cardinality(Since(s.failures, b)) + counting
    <3> TAKE b \in Int
    <3>1. Cardinality(Since(times, b)) <= Others + Cardinality(Since(s.failures, b)) + counting
      BY <1>7 DEF Bounded, Within
    <3> QED
      BY <1>4, <1>5, <3>1
  <2> QED
    BY <2>1, <2>2 DEF Bounded, Within, left
<1> QED
  BY <1>6, <1>7

\* What a step of request r does to the groups of requests by state and key.
LEMMA Moves ==
    ASSUME NEW r \in Requests, NEW k, k = Key(r),
           \A q \in Requests \ {r} : vpc'[q] = vpc[q] /\ req'[q] = req[q],
           vpc'[r] \in {"read", "count"} => <<req'[r].code, req'[r].ip>> = k,
           NEW st \in {"read", "count"}
    PROVE  /\ \A j : j # k => In(vpc', req', st, j) = In(vpc, req, st, j)
           /\ vpc[r] # st /\ vpc'[r] # st => In(vpc', req', st, k) = In(vpc, req, st, k)
           /\ vpc[r] = st /\ vpc'[r] # st =>
                Cardinality(In(vpc, req, st, k)) = Cardinality(In(vpc', req', st, k)) + 1
           /\ vpc[r] # st /\ vpc'[r] = st =>
                Cardinality(In(vpc', req', st, k)) = Cardinality(In(vpc, req, st, k)) + 1
<1>1. ASSUME NEW j, j # k PROVE In(vpc', req', st, j) = In(vpc, req, st, j)
  BY <1>1 DEF In, Key
<1>2. ASSUME vpc[r] # st, vpc'[r] # st PROVE In(vpc', req', st, k) = In(vpc, req, st, k)
  BY <1>2 DEF In, Key
<1>3. ASSUME vpc[r] = st, vpc'[r] # st
      PROVE  Cardinality(In(vpc, req, st, k)) = Cardinality(In(vpc', req', st, k)) + 1
  <2>1. In(vpc, req, st, k) = In(vpc', req', st, k) \cup {r} /\ r \notin In(vpc', req', st, k)
    BY <1>3 DEF In, Key
  <2> QED
    BY <2>1, InFinite, FS_AddElement
<1>4. ASSUME vpc[r] # st, vpc'[r] = st
      PROVE  Cardinality(In(vpc', req', st, k)) = Cardinality(In(vpc, req, st, k)) + 1
  <2>1. In(vpc', req', st, k) = In(vpc, req, st, k) \cup {r} /\ r \notin In(vpc, req, st, k)
    BY <1>4 DEF In, Key
  <2> QED
    BY <2>1, InFinite, FS_AddElement
<1> QED
  BY <1>1, <1>2, <1>3, <1>4

\* A step that keeps the time and says nothing about the other keys.
LEMMA GuessFrame ==
    ASSUME GuessInv, now' = now, NEW k \in Keys,
           Bounded(StateOf(states', k), recent'[k], now,
                   Cardinality(In(vpc', req', "read", k)), Cardinality(In(vpc', req', "count", k))),
           \A j \in Keys : j # k =>
             /\ StateOf(states', j) = StateOf(states, j) /\ recent'[j] = recent[j]
             /\ In(vpc', req', "read", j) = In(vpc, req, "read", j)
             /\ In(vpc', req', "count", j) = In(vpc, req, "count", j)
    PROVE  GuessInv'
  BY DEF GuessInv

\* A step that touches no key.
LEMMA GuessSame ==
    ASSUME GuessInv, UNCHANGED <<now, states, recent>>,
           \A j \in Keys : /\ In(vpc', req', "read", j) = In(vpc, req, "read", j)
                           /\ In(vpc', req', "count", j) = In(vpc, req, "count", j)
    PROVE  GuessInv'
  BY DEF GuessInv

\* Nothing to remember and no wrong PIN: a key as after a right one.
LEMMA BlankBounded ==
    ASSUME NEW t, NEW reading, NEW counting \in Nat
    PROVE  Bounded(NoState, {}, t, reading, counting)
<1>1. ~LockedAt(NoState, t) /\ NoState.failures = {}
  BY DEF NoState, LockedAt
<1>2. \A b \in Int : Cardinality(Since({}, b)) = 0
  BY EmptyTally
<1> QED
  BY <1>1, <1>2, OthersNat DEF Bounded, Within

\* Empty tables and an empty history are within every bound.
LEMMA BlankGuess ==
    ASSUME NEW st, st = <<>>, NEW hist, hist = [k \in Keys |-> {}], NEW t,
           NEW pc, NEW rq
    PROVE  \A k \in Keys : Bounded(StateOf(st, k), hist[k], t,
                                   Cardinality(In(pc, rq, "read", k)),
                                   Cardinality(In(pc, rq, "count", k)))
<1>1. \A k : StateOf(st, k) = NoState
  BY NoBuckets DEF StateOf
<1> QED
  BY <1>1, BlankBounded, InFinite

\* At the start no key has anything to remember.
LEMMA InitGuess == Init => GuessInv
  BY BlankGuess DEF Init, GuessInv

\* The lockout check: a refused request leaves, an allowed one is about to compare.
LEMMA AllowGuess ==
    ASSUME CouponInv, TrailInv, TableInv, GuessInv, NEW r \in Requests, allowVerifyAttempt(r)
    PROVE  GuessInv'
<1> DEFINE k == Key(r)
           s == StateOf(states, k)
<1>0. /\ now \in Nat /\ SoundTable(states) /\ SoundHistory(recent, now)
      /\ vpc \in [Requests -> VerifyStates] /\ req \in [Requests -> Request]
  BY DEF CouponInv, CouponTypes, TableInv, TrailInv, TrailTypes
<1>1. vpc[r] = "allow" /\ states' = Allow(states, k, now) /\ UNCHANGED <<now, recent>>
  BY DEF allowVerifyAttempt
<1>2. k \in Keys
  BY <1>1, KeyTyped
<1>3. /\ SoundState(s) /\ Tally(recent[k]) /\ \A m \in recent[k] : m[1] > now - Span /\ m[1] <= now
      /\ Bounded(s, recent[k], now, Cardinality(In(vpc, req, "read", k)), Cardinality(In(vpc, req, "count", k)))
  BY <1>0, <1>2, StateIsSound DEF SoundHistory, GuessInv
<1>4. /\ \A j : j # k => StateOf(states', j) = StateOf(states, j)
      /\ LockedAt(s, now) => StateOf(states', k) = s
      /\ ~LockedAt(s, now) =>
           StateOf(states', k) = [failures |-> pruneFailures(s.failures, now), lockoutUntil |-> 0]
  BY <1>0, <1>1, <1>2, AllowState
<1>5. CASE Allowed(states, k, now)
  <2>1. ~LockedAt(s, now) /\ vpc' = [vpc EXCEPT ![r] = "read"] /\ req' = req
    BY <1>5 DEF Allowed, allowVerifyAttempt
  <2>2. vpc'[r] = "read" /\ \A q \in Requests \ {r} : vpc'[q] = vpc[q] /\ req'[q] = req[q]
    BY <1>0, <2>1
  <2>9. <<req'[r].code, req'[r].ip>> = k
    BY <2>1 DEF Key
  <2>3. /\ \A j : j # k => In(vpc', req', "read", j) = In(vpc, req, "read", j)
        /\ \A j : j # k => In(vpc', req', "count", j) = In(vpc, req, "count", j)
        /\ In(vpc', req', "count", k) = In(vpc, req, "count", k)
    BY <1>1, <2>1, <2>2, <2>9, Moves
  <2>4. Within(recent[k], s.failures, Cardinality(In(vpc, req, "count", k)))
    BY <1>3, <2>1 DEF Bounded
  <2>5. Within(recent[k], pruneFailures(s.failures, now), Cardinality(In(vpc, req, "count", k)))
    BY <1>0, <1>3, <2>4, WithinPruned, InFinite DEF SoundState
  <2> DEFINE z == [failures |-> pruneFailures(s.failures, now), lockoutUntil |-> 0]
  <2>6. ~LockedAt(z, now) /\ z.failures = pruneFailures(s.failures, now)
    BY DEF LockedAt
  <2>7. StateOf(states', k) = z
    BY <1>4, <2>1
  <2> HIDE DEF z, s
  <2>8. Bounded(z, recent[k], now, Cardinality(In(vpc', req', "read", k)), Cardinality(In(vpc', req', "count", k)))
    BY <2>3, <2>5, <2>6 DEF Bounded
  <2> HIDE DEF k
  <2> QED
    BY <1>1, <1>2, <1>4, <2>3, <2>7, <2>8, GuessFrame
<1>6. CASE ~Allowed(states, k, now)
  <2>1. LockedAt(s, now) /\ Finish(r)
    BY <1>6 DEF Allowed, allowVerifyAttempt
  <2>2. vpc'[r] = "idle" /\ \A q \in Requests \ {r} : vpc'[q] = vpc[q] /\ req'[q] = req[q]
    BY <1>0, <2>1 DEF Finish
  <2>3. /\ \A j : j # k => In(vpc', req', "read", j) = In(vpc, req, "read", j)
        /\ \A j : j # k => In(vpc', req', "count", j) = In(vpc, req, "count", j)
        /\ In(vpc', req', "read", k) = In(vpc, req, "read", k)
        /\ In(vpc', req', "count", k) = In(vpc, req, "count", k)
    BY <1>1, <2>2, Moves
  <2>4. StateOf(states', k) = s
    BY <1>4, <2>1
  <2> HIDE DEF s, k
  <2> QED
    BY <1>1, <1>2, <1>3, <1>4, <2>3, <2>4, GuessFrame
<1> QED
  BY <1>5, <1>6

\* The comparison: a wrong PIN is about to be counted, any other is not.
LEMMA CompareGuess ==
    ASSUME CouponInv, TrailInv, TableInv, GuessInv, NEW r \in Requests, VerifySession(r)
    PROVE  GuessInv'
<1> DEFINE k == Key(r)
           s == StateOf(states, k)
           reading == Cardinality(In(vpc', req', "read", k))
           counting == Cardinality(In(vpc, req, "count", k))
<1>0. /\ now \in Nat /\ SoundTable(states) /\ SoundHistory(recent, now)
      /\ vpc \in [Requests -> VerifyStates] /\ req \in [Requests -> Request]
  BY DEF CouponInv, CouponTypes, TableInv, TrailInv, TrailTypes
<1>1. vpc[r] = "read" /\ UNCHANGED <<now, states>>
  BY DEF VerifySession
<1>2. k \in Keys
  BY <1>1, KeyTyped
<1>3. PICK v \in {Verdict(sessions[req[r].code], req[r].right), "refuse"} :
        /\ vpc' = [vpc EXCEPT ![r] = v]
        /\ req' = [req EXCEPT ![r].right = FALSE,
                              ![r].exp = IF v = "reset" THEN sessions[req[r].code].expiresAt ELSE 0]
        /\ recent' = IF v = "count" THEN [recent EXCEPT ![k] = Stamped(@, now)] ELSE recent
  BY DEF VerifySession
<1>4. v \in {"count", "refuse", "reset"}
  <2>1. sessions[req[r].code].row \in {"none", "live", "deleted"} /\ sessions[req[r].code].expiresAt \in Nat
    BY <1>1, <1>2, AccessAssumption DEF CouponInv, CouponTypes, Row, Key, Keys
  <2> QED
    BY <1>0, <1>3, <2>1 DEF Verdict
<1>5. /\ vpc'[r] = v /\ \A q \in Requests \ {r} : vpc'[q] = vpc[q] /\ req'[q] = req[q]
      /\ req'[r].code = req[r].code /\ req'[r].ip = req[r].ip
  BY <1>0, <1>3 DEF Request
<1>6. <<req'[r].code, req'[r].ip>> = k
  BY <1>5 DEF Key
<1>7. /\ \A j : j # k => In(vpc', req', "read", j) = In(vpc, req, "read", j)
      /\ \A j : j # k => In(vpc', req', "count", j) = In(vpc, req, "count", j)
      /\ Cardinality(In(vpc, req, "read", k)) = reading + 1
      /\ v = "count" => Cardinality(In(vpc', req', "count", k)) = counting + 1
      /\ v # "count" => In(vpc', req', "count", k) = In(vpc, req, "count", k)
  BY <1>1, <1>4, <1>5, <1>6, Moves
<1>8. reading \in Nat /\ counting \in Nat
  BY InFinite
<1>9. /\ SoundState(s) /\ Tally(recent[k]) /\ \A m \in recent[k] : m[1] > now - Span /\ m[1] <= now
      /\ Bounded(s, recent[k], now, Cardinality(In(vpc, req, "read", k)), counting)
  BY <1>0, <1>2, StateIsSound DEF SoundHistory, GuessInv
<1>10. Bounded(s, recent[k], now, reading + 1, counting)
  BY <1>7, <1>9
<1>11. recent \in [Keys -> Stamps]
  BY <1>0 DEF SoundHistory
<1> HIDE DEF reading, counting, k, s
<1>12. CASE v = "count"
  <2>1. /\ recent'[k] = Stamped(recent[k], now)
        /\ \A j \in Keys : j # k => recent'[j] = recent[j]
    BY <1>2, <1>3, <1>11, <1>12
  <2>2. Bounded(s, Stamped(recent[k], now), now, reading, counting + 1)
    BY <1>0, <1>8, <1>9, <1>10, CompareBounded
  <2>3. Bounded(StateOf(states', k), recent'[k], now,
                Cardinality(In(vpc', req', "read", k)), Cardinality(In(vpc', req', "count", k)))
    BY <1>1, <1>7, <1>12, <2>1, <2>2 DEF s, reading
  <2> QED
    BY <1>1, <1>2, <1>7, <2>1, <2>3, GuessFrame
<1>13. CASE v # "count"
  <2>1. recent' = recent
    BY <1>3, <1>13
  <2>2. Bounded(s, recent[k], now, reading, counting)
    BY <1>0, <1>8, <1>9, <1>10, LeaveBounded
  <2>3. Bounded(StateOf(states', k), recent'[k], now,
                Cardinality(In(vpc', req', "read", k)), Cardinality(In(vpc', req', "count", k)))
    BY <1>1, <1>7, <1>13, <2>1, <2>2 DEF s, reading, counting
  <2> QED
    BY <1>1, <1>2, <1>7, <2>1, <2>3, GuessFrame
<1> QED
  BY <1>12, <1>13

\* The count: the failure is added, fills the window and locks, or meets a lock.
LEMMA FailureGuess ==
    ASSUME CouponInv, TrailInv, TableInv, GuessInv, NEW r \in Requests, handleVerifyFailure(r)
    PROVE  GuessInv'
<1> DEFINE k == Key(r)
           s == StateOf(states, k)
           reading == Cardinality(In(vpc', req', "read", k))
           counting == Cardinality(In(vpc', req', "count", k))
<1>0. /\ now \in Nat /\ SoundTable(states) /\ SoundHistory(recent, now)
      /\ vpc \in [Requests -> VerifyStates] /\ req \in [Requests -> Request]
  BY DEF CouponInv, CouponTypes, TableInv, TrailInv, TrailTypes
<1>1. vpc[r] \in {"count", "refuse"} /\ UNCHANGED <<now, recent>> /\ Finish(r)
  BY DEF handleVerifyFailure
<1>2. k \in Keys
  BY <1>1, KeyTyped
<1>3. vpc'[r] = "idle" /\ \A q \in Requests \ {r} : vpc'[q] = vpc[q] /\ req'[q] = req[q]
  BY <1>0, <1>1 DEF Finish
<1>4. /\ \A j : j # k => In(vpc', req', "read", j) = In(vpc, req, "read", j)
      /\ \A j : j # k => In(vpc', req', "count", j) = In(vpc, req, "count", j)
      /\ In(vpc', req', "read", k) = In(vpc, req, "read", k)
      /\ vpc[r] = "count" => Cardinality(In(vpc, req, "count", k)) = counting + 1
      /\ vpc[r] # "count" => In(vpc', req', "count", k) = In(vpc, req, "count", k)
  BY <1>1, <1>3, Moves
<1>5. reading \in Nat /\ counting \in Nat
  BY InFinite
<1>6. /\ SoundState(s) /\ Tally(recent[k]) /\ \A m \in recent[k] : m[1] > now - Span /\ m[1] <= now
      /\ Bounded(s, recent[k], now, reading, Cardinality(In(vpc, req, "count", k)))
  BY <1>0, <1>2, <1>4, StateIsSound DEF SoundHistory, GuessInv
<1>7. CASE vpc[r] # "count"
  <2>1. states' = states
    BY <1>7 DEF handleVerifyFailure
  <2>2. \A j \in Keys : /\ In(vpc', req', "read", j) = In(vpc, req, "read", j)
                        /\ In(vpc', req', "count", j) = In(vpc, req, "count", j)
    <3> HIDE DEF k
    <3> QED
      BY <1>4, <1>7
  <2> QED
    BY <1>1, <2>1, <2>2, GuessSame
<1>8. CASE vpc[r] = "count"
  <2> DEFINE after == RegisterFailure(states, k, now)
             z == StateOf(after, k)
  <2>1. PICK gone \in SUBSET Evictable(after) : states' = Evict(after, gone)
    BY <1>8 DEF handleVerifyFailure
  <2>2. /\ SoundTable(after)
        /\ \A j : j # k => StateOf(after, j) = StateOf(states, j)
        /\ LockedAt(s, now) => z = s
        /\ ~LockedAt(s, now) =>
             \/ z = [failures |-> Stamped(pruneFailures(s.failures, now), now), lockoutUntil |-> 0]
             \/ z = [failures |-> {}, lockoutUntil |-> now + Lockout]
    BY <1>0, <1>2, RegisterState
  <2> HIDE DEF after
  <2>3. \A j : StateOf(states', j) = StateOf(after, j)
    BY <2>1, <2>2, EvictState
  <2>4. Bounded(s, recent[k], now, reading, counting + 1)
    BY <1>4, <1>6, <1>8
  <2>5. counting + reading <= Others
    <3> DEFINE A == In(vpc', req', "count", k)
               B == In(vpc', req', "read", k)
    <3>1. A \subseteq Requests \ {r} /\ B \subseteq Requests \ {r} /\ A \cap B = {}
      BY <1>3 DEF In
    <3> HIDE DEF A, B
    <3>2. Cardinality(A) + Cardinality(B) <= Others
      BY <3>1, RoomForOthers
    <3> QED
      BY <3>2 DEF A, B
  <2> HIDE DEF reading, counting, k, s, z
  <2>6. Bounded(z, recent[k], now, reading, counting)
    <3>1. CASE LockedAt(s, now)
      <4>1. z = s
        BY <2>2, <3>1
      <4>2. Bounded(s, recent[k], now, reading, counting)
        BY <2>4, <3>1 DEF Bounded
      <4> QED
        BY <4>1, <4>2
    <3>2. CASE ~LockedAt(s, now)
      BY <1>0, <1>5, <1>6, <2>2, <2>4, <2>5, <3>2, RegisterBounded
    <3> QED
      BY <3>1, <3>2
  <2>7. Bounded(StateOf(states', k), recent'[k], now,
                Cardinality(In(vpc', req', "read", k)), Cardinality(In(vpc', req', "count", k)))
    BY <1>1, <2>3, <2>6 DEF z, reading, counting
  <2>8. \A j \in Keys : j # k => StateOf(states', j) = StateOf(states, j) /\ recent'[j] = recent[j]
    BY <1>1, <2>2, <2>3
  <2> QED
    BY <1>1, <1>2, <1>4, <2>7, <2>8, GuessFrame
<1> QED
  BY <1>7, <1>8

\* The other steps of a request, which neither compare a PIN nor count a failure.
LEMMA QuietGuess ==
    ASSUME CouponInv, TrailInv, TableInv, GuessInv, NEW r \in Requests,
           \/ \E i \in Clients, c \in Visited, right \in BOOLEAN : Wrap(r, i, c, right)
           \/ resetVerifyAttempt(r)
           \/ MintToken(r)
    PROVE  GuessInv'
<1> DEFINE k == Key(r)
<1>0. /\ vpc \in [Requests -> VerifyStates] /\ req \in [Requests -> Request]
      /\ recent \in [Keys -> Stamps]
  BY DEF TrailInv, TrailTypes, TableInv, SoundHistory
<1>1. ASSUME vpc[r] \notin {"read", "count"}, vpc'[r] \notin {"read", "count"},
             \A q \in Requests \ {r} : vpc'[q] = vpc[q] /\ req'[q] = req[q]
      PROVE  \A j : /\ In(vpc', req', "read", j) = In(vpc, req, "read", j)
                    /\ In(vpc', req', "count", j) = In(vpc, req, "count", j)
  BY <1>1 DEF In
<1>2. ASSUME NEW i \in Clients, NEW c \in Visited, NEW right \in BOOLEAN, Wrap(r, i, c, right)
      PROVE  GuessInv'
  <2>1. /\ UNCHANGED <<now, states, recent>> /\ vpc[r] = "idle"
        /\ \/ UNCHANGED <<vpc, req>>
           \/ /\ vpc' = [vpc EXCEPT ![r] = "allow"]
              /\ req' = [req EXCEPT ![r] = [code |-> c, ip |-> i, right |-> right, exp |-> 0]]
    BY <1>2 DEF Wrap
  <2>2. vpc'[r] \in {"idle", "allow"} /\ \A q \in Requests \ {r} : vpc'[q] = vpc[q] /\ req'[q] = req[q]
    BY <1>0, <2>1
  <2> QED
    BY <1>1, <2>1, <2>2, GuessSame
<1>3. CASE MintToken(r)
  <2>1. UNCHANGED <<now, states, recent>> /\ vpc[r] = "mint" /\ Finish(r)
    BY <1>3 DEF MintToken, limitVars
  <2>2. vpc'[r] = "idle" /\ \A q \in Requests \ {r} : vpc'[q] = vpc[q] /\ req'[q] = req[q]
    BY <1>0, <2>1 DEF Finish
  <2> QED
    BY <1>1, <2>1, <2>2, GuessSame
<1>4. CASE resetVerifyAttempt(r)
  <2>1. /\ now' = now /\ req' = req /\ vpc[r] = "reset" /\ vpc' = [vpc EXCEPT ![r] = "mint"]
        /\ states' = Delete(states, k) /\ recent' = [recent EXCEPT ![k] = {}]
    BY <1>4 DEF resetVerifyAttempt
  <2>2. k \in Keys
    BY <2>1, KeyTyped
  <2>3. vpc'[r] = "mint" /\ \A q \in Requests \ {r} : vpc'[q] = vpc[q] /\ req'[q] = req[q]
    BY <1>0, <2>1
  <2>4. StateOf(states', k) = NoState /\ \A j : j # k => StateOf(states', j) = StateOf(states, j)
    BY <2>1, DeleteState
  <2>5. recent'[k] = {} /\ \A j \in Keys : j # k => recent'[j] = recent[j]
    BY <1>0, <2>1, <2>2
  <2>6. \A j : /\ In(vpc', req', "read", j) = In(vpc, req, "read", j)
               /\ In(vpc', req', "count", j) = In(vpc, req, "count", j)
    BY <1>1, <2>1, <2>3
  <2>7. Bounded(StateOf(states', k), recent'[k], now,
                Cardinality(In(vpc', req', "read", k)), Cardinality(In(vpc', req', "count", k)))
    BY <2>4, <2>5, BlankBounded, InFinite
  <2> HIDE DEF k
  <2> QED
    BY <2>1, <2>2, <2>4, <2>5, <2>6, <2>7, GuessFrame
<1> QED
  BY <1>2, <1>3, <1>4

\* The clock: wrong PINs leave the span, and a lock may end.
LEMMA TickGuess ==
    ASSUME CouponInv, TableInv, GuessInv, Tick
    PROVE  GuessInv'
<1>1. /\ now \in Nat /\ now' = now + 1 /\ UNCHANGED <<states, vpc, req>>
      /\ recent' = [k \in Keys |-> Since(recent[k], (now + 1) + 1 - Span)]
  BY DEF Tick, CouponInv, CouponTypes, verifyVars
<1>2. ASSUME NEW k \in Keys
      PROVE  Bounded(StateOf(states, k), Since(recent[k], (now + 1) + 1 - Span), now + 1,
                     Cardinality(In(vpc, req, "read", k)), Cardinality(In(vpc, req, "count", k)))
  <2>1. SoundState(StateOf(states, k)) /\ Tally(recent[k])
    BY StateIsSound DEF TableInv, SoundHistory
  <2>2. Bounded(StateOf(states, k), recent[k], now,
                Cardinality(In(vpc, req, "read", k)), Cardinality(In(vpc, req, "count", k)))
    BY DEF GuessInv
  <2> QED
    BY <1>1, <2>1, <2>2, TickBounded, InFinite
<1>3. \A k \in Keys : recent'[k] = Since(recent[k], (now + 1) + 1 - Span)
  BY <1>1
<1> QED
  BY <1>1, <1>2, <1>3 DEF GuessInv

\* Every step keeps the bound.
LEMMA NextGuess == CouponInv /\ TrailInv /\ TableInv /\ GuessInv /\ [Next]_vars => GuessInv'
<1> SUFFICES ASSUME CouponInv, TrailInv, TableInv, GuessInv, [Next]_vars PROVE GuessInv'
  OBVIOUS
<1>1. ASSUME NEW r \in Requests, VerifyStep(r) PROVE GuessInv'
  BY <1>1, AllowGuess, CompareGuess, FailureGuess, QuietGuess DEF VerifyStep
<1>2. ASSUME UNCHANGED <<now, states, recent, vpc, req>> PROVE GuessInv'
  BY <1>2 DEF GuessInv
<1>3. CASE Restart
  BY <1>3, BlankGuess DEF Restart, GuessInv
<1>4. CASE Tick
  BY <1>4, TickGuess
<1>5. ASSUME NEW c \in Claims, ClaimStep(c) \/ CleanupDB(c)
      PROVE  UNCHANGED <<now, states, recent, vpc, req>>
  BY <1>5 DEF ClaimStep, ValidateCoupon, ClaimCoupon, CouponInvalid, CreateSession, RollbackClaim,
              CleanupDB, limitVars, verifyVars
<1>6. ASSUME UNCHANGED vars PROVE UNCHANGED <<now, states, recent, vpc, req>>
  BY <1>6 DEF vars, limitVars, verifyVars
<1> QED
  BY <1>1, <1>2, <1>3, <1>4, <1>5, <1>6 DEF Next

\* The bound on what a lock lets through and on what it has let through holds
\* throughout.
THEOREM GuessInductive == Spec => []GuessInv
<1>1. Init => GuessInv
  BY InitGuess
<1>2. CouponInv /\ TrailInv /\ TableInv /\ GuessInv /\ [Next]_vars => GuessInv'
  BY NextGuess
<1> QED
  BY <1>1, <1>2, CouponInductive, TrailInductive, TableInductive, PTL DEF Spec

\* Between two right PINs of a session from an address, and between two starts of
\* the server, the shorter of a window and a lock sees at most MaxFailures wrong
\* PINs, and two for each other request, whatever stalls between Allow and
\* RegisterFailure, and whether the window or the lock is the longer one.
THEOREM WrongPinsAreBounded == Spec => []GuessesBounded
<1>1. CouponInv /\ TableInv /\ GuessInv => GuessesBounded
  <2> SUFFICES ASSUME CouponInv, TableInv, GuessInv, NEW k \in Keys
               PROVE  Cardinality(recent[k]) <= MaxFailures + 2 * Others
    BY DEF GuessesBounded, Others
  <2> DEFINE reading == Cardinality(In(vpc, req, "read", k))
             counting == Cardinality(In(vpc, req, "count", k))
  <2>1. /\ now \in Nat /\ SoundState(StateOf(states, k)) /\ Tally(recent[k])
        /\ \A m \in recent[k] : m[1] > now - Span /\ m[1] <= now
        /\ Bounded(StateOf(states, k), recent[k], now, reading, counting)
    BY StateIsSound DEF CouponInv, CouponTypes, TableInv, SoundHistory, GuessInv
  <2>2. reading \in Nat /\ counting \in Nat
    BY InFinite
  <2>3. counting <= Others + 1
    <3>1. In(vpc, req, "count", k) \subseteq Requests
      BY DEF In
    <3> QED
      BY <3>1, AccessAssumption, FS_Subset, OthersNat
  <2> HIDE DEF reading, counting
  <2> QED
    BY <2>1, <2>2, <2>3, BoundedBounds
<1> QED
  BY <1>1, CouponInductive, TableInductive, GuessInductive, PTL

=============================================================================
