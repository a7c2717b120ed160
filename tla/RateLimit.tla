------------------------------ MODULE RateLimit ------------------------------
(***************************************************************************)
(* The two in-memory limiters of internal/shared/ratelimit.go.  Each call  *)
(* holds its limiter's mutex from start to end, so it is a function from a  *)
(* table and a time to a new table.  The time is read just before the mutex *)
(* is taken: in the same tick.  A zero time.Time is 0.                      *)
(***************************************************************************)
EXTENDS Integers, FiniteSets

CONSTANTS
    MaxFailures,        \* failures within Window that lock a key
    Window,             \* how long a failure counts
    Lockout,            \* how long a lock lasts
    RequestsPerMinute,  \* what a bucket regains per tick
    Cost,               \* what a request takes from a bucket (60 for a tick of a second)
    Burst               \* requests a full bucket serves

ASSUME LimitsAssumption ==
    /\ MaxFailures \in Nat \ {0}
    /\ Window \in Nat \ {0}
    /\ Lockout \in Nat \ {0}
    /\ RequestsPerMinute \in Nat \ {0}
    /\ Cost \in Nat \ {0}
    /\ Burst \in Nat \ {0}

-----------------------------------------------------------------------------
(* Maps with absent keys.                                                  *)

Put(table, k, v) == [x \in DOMAIN table \cup {k} |-> IF x = k THEN v ELSE table[x]]

Delete(table, k) == [x \in DOMAIN table \ {k} |-> table[x]]

-----------------------------------------------------------------------------
(* FailedAttemptLockoutLimiter.                                            *)

(* Times that may repeat: the n-th of a tick t, from 0, is the stamp <<t, n>>. *)
(* The code's slice is asked only for its length and for what is recent.   *)

Of(times, t) == {m \in times : m[1] = t}

Since(times, t) == {m \in times : m[1] >= t}

Stamped(times, t) == times \cup {<<t, Cardinality(Of(times, t))>>}

NoState == [failures |-> {}, lockoutUntil |-> 0]

StateOf(states, k) == IF k \in DOMAIN states THEN states[k] ELSE NoState

LockedAt(s, t) == s.lockoutUntil # 0 /\ t < s.lockoutUntil

pruneFailures(times, t) == Since(times, t - Window)

Allowed(states, k, t) == ~LockedAt(StateOf(states, k), t)

\* Mutant: a key without failures is dropped, locked or not.
AllowForgetsLock(states, k, t) ==
    LET s    == StateOf(states, k)
        kept == pruneFailures(s.failures, t)
    IN IF kept = {} THEN Delete(states, k)
       ELSE Put(states, k, [failures |-> kept, lockoutUntil |-> s.lockoutUntil])

\* Mutant: an entry with nothing to remember is kept.
AllowKeepsEmpty(states, k, t) ==
    LET s    == StateOf(states, k)
        kept == pruneFailures(s.failures, t)
    IN Put(states, k, IF LockedAt(s, t) THEN s ELSE [failures |-> kept, lockoutUntil |-> 0])

\* A lock that has run out is cleared; an entry with nothing to say goes.
Allow(states, k, t) ==
    LET s    == StateOf(states, k)
        kept == pruneFailures(s.failures, t)
    IN CASE LockedAt(s, t)                    -> Put(states, k, s)
         [] ~LockedAt(s, t) /\ kept = {}    -> Delete(states, k)
         [] ~LockedAt(s, t) /\ kept # {}    -> Put(states, k, [failures |-> kept, lockoutUntil |-> 0])

\* Mutant: a failure while locked starts the lock again.
RegisterFailureExtends(states, k, t) ==
    LET s   == StateOf(states, k)
        now == Stamped(pruneFailures(s.failures, t), t)
    IN Put(states, k, IF LockedAt(s, t) \/ Cardinality(now) >= MaxFailures
                      THEN [failures |-> {}, lockoutUntil |-> t + Lockout]
                      ELSE [failures |-> now, lockoutUntil |-> 0])

\* A failure while locked is not counted; the one that fills the window locks.
RegisterFailure(states, k, t) ==
    LET s   == StateOf(states, k)
        old == IF s.lockoutUntil # 0 THEN {} ELSE s.failures
        now == Stamped(pruneFailures(old, t), t)
    IN IF LockedAt(s, t) THEN Put(states, k, s)
       ELSE Put(states, k, IF Cardinality(now) >= MaxFailures
                           THEN [failures |-> {}, lockoutUntil |-> t + Lockout]
                           ELSE [failures |-> now, lockoutUntil |-> 0])

\* The entries evictStaleLocked may delete; which of them, and when, depends
\* on the size of the table and on lastSeen, which nothing else reads.
Evictable(states) ==
    {k \in DOMAIN states : states[k].lockoutUntil = 0 /\ states[k].failures = {}}

Evict(states, gone) == [k \in DOMAIN states \ gone |-> states[k]]

-----------------------------------------------------------------------------
(* TokenBucketRateLimiter.  Tokens are counted in units of 1/Cost, so that  *)
(* the refill of a tick is a whole number.                                  *)

Capacity == Burst * Cost

Lesser(a, b) == IF a <= b THEN a ELSE b

\* Mutant: a refill is not remembered, and is granted again.
RefilledAgain(buckets, k, t) ==
    IF k \notin DOMAIN buckets THEN [tokens |-> Capacity, lastRefill |-> t]
    ELSE [buckets[k] EXCEPT !.tokens =
            Lesser(Capacity, @ + (t - buckets[k].lastRefill) * RequestsPerMinute)]

\* A new key starts full; a time before the last refill adds nothing.
Refilled(buckets, k, t) ==
    IF k \notin DOMAIN buckets THEN [tokens |-> Capacity, lastRefill |-> t]
    ELSE IF t <= buckets[k].lastRefill THEN buckets[k]
    ELSE [tokens |-> Lesser(Capacity,
                            buckets[k].tokens + (t - buckets[k].lastRefill) * RequestsPerMinute),
          lastRefill |-> t]

Admits(buckets, k, t) == Refilled(buckets, k, t).tokens >= Cost

\* Mutant: a refused request is charged too.
allowOverdrawn(buckets, k, t) ==
    LET b == Refilled(buckets, k, t)
    IN Put(buckets, k, [tokens |-> b.tokens - Cost, lastRefill |-> b.lastRefill])

\* A request that finds less than its cost is refused and takes nothing.
allow(buckets, k, t) ==
    LET b == Refilled(buckets, k, t)
    IN Put(buckets, k, IF b.tokens < Cost THEN b
                       ELSE [tokens |-> b.tokens - Cost, lastRefill |-> b.lastRefill])

=============================================================================
