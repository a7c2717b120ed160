---------------------------- MODULE SessionAccess ----------------------------
(***************************************************************************)
(* How a visitor gets a session and gets into it: a coupon is redeemed for  *)
(* a session (internal/session), the session's PIN is verified behind two   *)
(* limiters (internal/shared/ratelimit.go), and a signed cookie carries the  *)
(* result (internal/shared/auth.go).  The administrator's cleanup deletes    *)
(* old sessions under all of this (internal/admin).                         *)
(*                                                                         *)
(* One coupon; each redemption creates the session that bears its name.     *)
(* Requests run concurrently, one statement or critical section at a time.  *)
(***************************************************************************)
EXTENDS RateLimit

CONSTANTS
    Claims,         \* coupon redemptions, and the codes of their sessions
    Requests,       \* verify requests that can be in flight at once
    Clients,        \* browsers, each with its own address
    Visited,        \* the session codes the visitors type in
    NoOne,          \* no holder of the coupon's row lock
    MaxUses,        \* max_uses of the coupon
    CouponExpiresAt,\* expires_at of the coupon
    SessionTTL,     \* SESSION_EXPIRY_HOURS
    AuthMaxTTL,     \* SESSION_AUTH_MAX_TTL
    ClockSkew,      \* sessionAuthClockSkew
    MaxNow          \* bound of the clock

ASSUME AccessAssumption ==
    /\ Visited \subseteq Claims /\ IsFiniteSet(Claims)
    /\ IsFiniteSet(Requests) /\ Requests # {}
    /\ NoOne \notin Claims /\ NoOne \notin Clients
    /\ MaxUses \in Nat /\ CouponExpiresAt \in Nat
    /\ SessionTTL \in Nat \ {0} /\ AuthMaxTTL \in Nat \ {0}
    /\ ClockSkew \in Nat /\ MaxNow \in Nat

VARIABLES
    now,
    uses,       \* current_uses, committed
    holder,     \* the redemption whose transaction has locked the coupon's row
    cpc,        \* where each redemption is
    sessions,   \* the row of each session
    buckets,    \* session_verify_ip
    states,     \* the lockout table, by code and address
    vpc,        \* where each verify request is
    req,        \* what it was sent, and what it has read
    cookie,     \* the auth cookie of each browser
    recent,     \* history: times of the wrong PINs of the last Span that came after
                \* the key's last right PIN and the server's last start, by key
    quota       \* history: a full bucket and the refill of the time since the
                \* server started, less what was admitted, by address

couponVars == <<uses, holder, cpc, sessions>>
limitVars  == <<buckets, states, recent, quota>>
verifyVars == <<vpc, req, cookie>>
vars == <<now, couponVars, limitVars, verifyVars>>

Keys == Visited \X Clients

\* The stretch of time over which wrong PINs are counted: nothing relates the two
\* settings to each other, and where the lock is the shorter one, the failures of
\* one window may lock the key more than once.
Span == Lesser(Window, Lockout)

ClaimStates  == {"idle", "begun", "claimed", "done"}
VerifyStates == {"idle", "allow", "read", "count", "refuse", "reset", "mint"}

\* A row of sessions, as far as access goes; number is
\* coupon_current_uses_at_claim.
Row   == [row : {"none", "live", "deleted"}, expiresAt : Nat, number : Nat]
NoRow == [row |-> "none", expiresAt |-> 0, number |-> 0]

NoCookie == [code |-> NoOne, exp |-> 0]

Request == [code : Visited \cup {NoOne}, ip : Clients \cup {NoOne}, right : BOOLEAN, exp : Nat]
NoRequest == [code |-> NoOne, ip |-> NoOne, right |-> FALSE, exp |-> 0]

Init ==
    /\ now = 0
    /\ uses = 0 /\ holder = NoOne
    /\ cpc = [c \in Claims |-> "idle"]
    /\ sessions = [c \in Claims |-> NoRow]
    /\ buckets = <<>> /\ states = <<>>
    /\ vpc = [r \in Requests |-> "idle"]
    /\ req = [r \in Requests |-> NoRequest]
    /\ cookie = [i \in Clients |-> NoCookie]
    /\ recent = [k \in Keys |-> {}]
    /\ quota = [i \in Clients |-> Capacity]

-----------------------------------------------------------------------------
(* HandleValidateCoupon: one transaction, the coupon's row locked by its    *)
(* UPDATE until COMMIT or ROLLBACK.                                         *)

\* The expiry is computed just before the transaction begins.
ValidateCoupon(c) ==
    /\ cpc[c] = "idle"
    /\ cpc' = [cpc EXCEPT ![c] = "begun"]
    /\ sessions' = [sessions EXCEPT ![c].expiresAt = now + SessionTTL]
    /\ UNCHANGED <<now, uses, holder, limitVars, verifyVars>>

\* now() of the transaction: the moment it began, however long it waited.
Began(c) == sessions[c].expiresAt - SessionTTL

\* Mutant: the last use can be claimed once more.
CouponUsableOffByOne(c) == uses <= MaxUses /\ CouponExpiresAt > Began(c)

CouponUsable(c) == uses < MaxUses /\ CouponExpiresAt > Began(c)

\* The UPDATE waits for the row lock and looks at the row as last committed.
ClaimCoupon(c) ==
    /\ cpc[c] = "begun" /\ holder = NoOne /\ CouponUsable(c)
    /\ holder' = c
    /\ cpc' = [cpc EXCEPT ![c] = "claimed"]
    /\ UNCHANGED <<now, uses, sessions, limitVars, verifyVars>>

CouponInvalid(c) ==
    /\ cpc[c] = "begun" /\ holder = NoOne /\ ~CouponUsable(c)
    /\ cpc' = [cpc EXCEPT ![c] = "done"]
    /\ sessions' = [sessions EXCEPT ![c] = NoRow]
    /\ UNCHANGED <<now, uses, holder, limitVars, verifyVars>>

\* The INSERT and COMMIT: the new count and the new row appear together; whether
\* the reply of COMMIT arrives decides what the visitor sees, and only that.
CreateSession(c) ==
    /\ cpc[c] = "claimed"
    /\ uses' = uses + 1 /\ holder' = NoOne
    /\ sessions' = [sessions EXCEPT ![c].row = "live", ![c].number = uses + 1]
    /\ cpc' = [cpc EXCEPT ![c] = "done"]
    /\ UNCHANGED <<now, limitVars, verifyVars>>

\* A statement fails or the connection dies: deferred Rollback.
RollbackClaim(c) ==
    /\ cpc[c] \in {"begun", "claimed"}
    /\ holder' = IF holder = c THEN NoOne ELSE holder
    /\ cpc' = [cpc EXCEPT ![c] = "done"]
    /\ sessions' = [sessions EXCEPT ![c] = NoRow]
    /\ UNCHANGED <<now, uses, limitVars, verifyVars>>

-----------------------------------------------------------------------------
(* HandleVerifySession.                                                    *)

Key(r) == <<req[r].code, req[r].ip>>

\* The token bucket of the address comes before the handler.
Wrap(r, i, c, right) ==
    /\ vpc[r] = "idle"
    /\ buckets' = allow(buckets, i, now)
    /\ IF Admits(buckets, i, now)
       THEN /\ vpc' = [vpc EXCEPT ![r] = "allow"]
            /\ req' = [req EXCEPT ![r] = [code |-> c, ip |-> i, right |-> right, exp |-> 0]]
            /\ quota' = [quota EXCEPT ![i] = @ - Cost]
       ELSE UNCHANGED <<vpc, req, quota>>
    /\ UNCHANGED <<now, couponVars, states, recent, cookie>>

Finish(r) ==
    /\ vpc' = [vpc EXCEPT ![r] = "idle"]
    /\ req' = [req EXCEPT ![r] = NoRequest]

allowVerifyAttempt(r) ==
    /\ vpc[r] = "allow"
    /\ states' = Allow(states, Key(r), now)
    /\ IF Allowed(states, Key(r), now)
       THEN vpc' = [vpc EXCEPT ![r] = "read"] /\ UNCHANGED req
       ELSE Finish(r)
    /\ UNCHANGED <<now, couponVars, buckets, recent, quota, cookie>>

\* What follows from the row that was read: an unknown code and a wrong PIN are
\* counted, an expired session is refused.
Verdict(s, right) ==
    CASE s.row # "live"                    -> "count"
      [] s.row = "live" /\ now > s.expiresAt -> "refuse"
      [] s.row = "live" /\ now <= s.expiresAt -> IF right THEN "reset" ELSE "count"

\* GetSessionByCode, the expiry and the PIN's hash; a read that fails refuses.
VerifySession(r) ==
    /\ vpc[r] = "read"
    /\ LET s == sessions[req[r].code]
       IN \E v \in {Verdict(s, req[r].right), "refuse"} :
            /\ vpc' = [vpc EXCEPT ![r] = v]
            /\ req' = [req EXCEPT ![r].right = FALSE,
                                  ![r].exp = IF v = "reset" THEN s.expiresAt ELSE 0]
            /\ recent' = IF v = "count" THEN [recent EXCEPT ![Key(r)] = Stamped(@, now)] ELSE recent
    /\ UNCHANGED <<now, couponVars, buckets, states, quota, cookie>>

\* The cookie is cleared, if the reply arrives, and the failure counted.
handleVerifyFailure(r) ==
    /\ vpc[r] \in {"count", "refuse"}
    /\ IF vpc[r] = "count"
       THEN LET after == RegisterFailure(states, Key(r), now)
            IN \E gone \in SUBSET Evictable(after) : states' = Evict(after, gone)
       ELSE UNCHANGED states
    /\ \E reached \in BOOLEAN :
         cookie' = IF reached THEN [cookie EXCEPT ![req[r].ip] = NoCookie] ELSE cookie
    /\ Finish(r)
    /\ UNCHANGED <<now, couponVars, buckets, recent, quota>>

\* A right PIN clears failures and lock, whoever caused them meanwhile.
resetVerifyAttempt(r) ==
    /\ vpc[r] = "reset"
    /\ states' = Delete(states, Key(r))
    /\ recent' = [recent EXCEPT ![Key(r)] = {}]
    /\ vpc' = [vpc EXCEPT ![r] = "mint"]
    /\ UNCHANGED <<now, couponVars, buckets, quota, req, cookie>>

\* Mutant: the session's own expiry is forgotten.
TokenExpiryMax(exp) == now + AuthMaxTTL

TokenExpiry(exp) == Lesser(exp, now + AuthMaxTTL)

\* MintToken refuses an expiry that is not in the future.
MintToken(r) ==
    /\ vpc[r] = "mint"
    /\ LET exp == TokenExpiry(req[r].exp)
       IN \E reached \in BOOLEAN :
            cookie' = IF exp > now /\ reached
                      THEN [cookie EXCEPT ![req[r].ip] = [code |-> req[r].code, exp |-> exp]]
                      ELSE cookie
    /\ Finish(r)
    /\ UNCHANGED <<now, couponVars, limitVars>>

\* The server restarts: requests and both tables are gone, rows and cookies stay.
Restart ==
    /\ buckets # <<>>
    /\ buckets' = <<>> /\ states' = <<>>
    /\ vpc' = [r \in Requests |-> "idle"]
    /\ req' = [r \in Requests |-> NoRequest]
    /\ recent' = [k \in Keys |-> {}]
    /\ quota' = [i \in Clients |-> Capacity]
    /\ UNCHANGED <<now, couponVars, cookie>>

\* What RequireSessionAuth and RequireSessionCodeMatch let through: the cookie
\* alone decides, the session's row is not read.
AccessGranted(i, c) == cookie[i].code = c /\ now < cookie[i].exp + ClockSkew

-----------------------------------------------------------------------------
(* Administration and time.                                                *)

\* CleanUpOlderThan deletes the sessions created before a cutoff the
\* administrator chooses; the age of a session is left out, so any may be old.
CleanupDB(c) ==
    /\ sessions[c].row = "live"
    /\ sessions' = [sessions EXCEPT ![c].row = "deleted"]
    /\ UNCHANGED <<now, uses, holder, cpc, limitVars, verifyVars>>

\* The history keeps the wrong PINs that a span ending now still covers.
Tick ==
    /\ now < MaxNow
    /\ now' = now + 1
    /\ recent' = [k \in Keys |-> Since(recent[k], now' + 1 - Span)]
    /\ quota' = [i \in Clients |-> quota[i] + RequestsPerMinute]
    /\ UNCHANGED <<couponVars, buckets, states, verifyVars>>

ClaimStep(c) ==
    \/ ValidateCoupon(c)
    \/ ClaimCoupon(c)
    \/ CouponInvalid(c)
    \/ CreateSession(c)
    \/ RollbackClaim(c)

VerifyStep(r) ==
    \/ \E i \in Clients, c \in Visited, right \in BOOLEAN : Wrap(r, i, c, right)
    \/ allowVerifyAttempt(r)
    \/ VerifySession(r)
    \/ handleVerifyFailure(r)
    \/ resetVerifyAttempt(r)
    \/ MintToken(r)

Next ==
    \/ \E c \in Claims : ClaimStep(c)
    \/ \E r \in Requests : VerifyStep(r)
    \/ Restart
    \/ \E c \in Claims : CleanupDB(c)
    \/ Tick

Spec == Init /\ [][Next]_vars

-----------------------------------------------------------------------------
(* Properties.                                                             *)

Stamps == SUBSET (Nat \X Nat)
Entry  == [failures : Stamps, lockoutUntil : Nat]
Bucket == [tokens : Nat, lastRefill : Nat]

\* The types of the variables; the tables of the limiters have one entry for
\* each key that has been seen and not been forgotten.
TypeOK ==
    /\ now \in Nat
    /\ uses \in Nat /\ holder \in Claims \cup {NoOne}
    /\ cpc \in [Claims -> ClaimStates]
    /\ sessions \in [Claims -> Row]
    /\ DOMAIN buckets \subseteq Clients /\ \A i \in DOMAIN buckets : buckets[i] \in Bucket
    /\ DOMAIN states \subseteq Keys /\ \A k \in DOMAIN states : states[k] \in Entry
    /\ vpc \in [Requests -> VerifyStates]
    /\ req \in [Requests -> Request]
    /\ cookie \in [Clients -> [code : Claims \cup {NoOne}, exp : Nat]]
    /\ recent \in [Keys -> Stamps]
    /\ quota \in [Clients -> Int]

Created == {c \in Claims : sessions[c].row # "none"}

\* Concurrent redemptions, rollbacks and lost replies leave as many sessions
\* as the coupon has uses, at most MaxUses, and no two sessions were told the
\* same count (ClaimCoupon's UPDATE and CreateSession in one transaction).
CouponNotOverdrawn ==
    /\ uses <= MaxUses
    /\ Cardinality(Created) = uses
    /\ \A c, d \in Created : c # d => sessions[c].number # sessions[d].number

\* In any stretch of time no longer than the window and than a lock, the PIN of a
\* session is compared with at most MaxFailures wrong ones from one address, and
\* with one more for each other request that was past the lockout check when a lock
\* fell, at the stretch's start and again at its end: Allow and RegisterFailure are
\* two critical sections with the comparison between them, and a request may stall
\* in between.  Two things begin the count anew, as they do in the code: the right
\* PIN of the session from that address (resetVerifyAttempt), and a restart of the
\* server, whose table is in memory.
GuessesBounded ==
    \A k \in Keys : Cardinality(recent[k]) <= MaxFailures + 2 * (Cardinality(Requests) - 1)

Locked(k) == k \in DOMAIN states /\ now < states[k].lockoutUntil

ProvesPin(k) == \E r \in Requests : vpc[r] = "reset" /\ Key(r) = k /\ vpc'[r] = "mint"

\* A lock stands unchanged until its time is up: further failures, requests of
\* other keys and the eviction of old entries neither lift nor extend it, only
\* a right PIN that was already being compared, or a restart of the server.
LockoutIsServed ==
    [][\A k \in Keys : Locked(k) =>
          \/ k \in DOMAIN states' /\ states'[k].lockoutUntil = states[k].lockoutUntil
          \/ ProvesPin(k)
          \/ buckets' = <<>>]_vars

\* From the start of the server on, an address gets no more requests through
\* than a full bucket and the refill of the time since, and waiting never saves
\* up more than Burst, so that the same holds from any later moment.
AdmittedWithinRate ==
    /\ \A i \in Clients : quota[i] >= 0
    /\ \A i \in DOMAIN buckets : buckets[i].tokens <= Capacity

\* A cookie opens only a session that was created, and no longer than the
\* session itself lasts and the accepted clock skew, although the access
\* check never reads the session's row.
AccessEndsWithSession ==
    \A i \in Clients, c \in Claims :
        AccessGranted(i, c) => c \in Created /\ now < sessions[c].expiresAt + ClockSkew

\* Every entry of the lockout table holds a failure or a lock, so the entries
\* evictStaleLocked looks for when the table is full do not exist.
NothingToEvict == Evictable(states) = {}

=============================================================================
