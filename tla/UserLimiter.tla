----------------------------- MODULE UserLimiter -----------------------------
(***************************************************************************)
(* The per-user request rate limiter of internal/ratelimit/user_limiter.go:*)
(* a bounded map of token buckets, shared fallback buckets for the users   *)
(* that find no room in it, and the removal of idle entries by a ticker    *)
(* and by requests that find the map full.                                 *)
(*                                                                         *)
(* A request goes through three steps, as its goroutine does: it reads the *)
(* time (allow), works on the registry under l.mu (allowAt), and asks the  *)
(* bucket it found for a token after it has released l.mu.  Other requests *)
(* and the ticker run between them, and a request whose time is older may  *)
(* come to the registry later.                                             *)
(***************************************************************************)
EXTENDS TokenBucket, FiniteSets

CONSTANTS
    Users,
    Requests,         \* goroutines; each serves one request after another
    Rpms,             \* user.RPM of an authenticated request: 0 is unlimited
    FallbackBuckets,
    FallbackIndexOf,  \* maphash of the user ID
    MaximumEntries,
    EntryIdleTTL,
    Lags,             \* the delays, in ticks, a run may have between the clock and the bucket
    MaxTime           \* bound on the clock

ASSUME UserLimiterAssumption ==
    /\ IsFiniteSet(Users)
    /\ Rpms \subseteq Nat
    /\ FallbackIndexOf \in [Users -> FallbackBuckets]
    /\ MaximumEntries \in Nat \ {0}
    /\ \E rpm \in Rpms : \A other \in Rpms : other <= rpm
    /\ EntryIdleTTL \in Nat \ {0}
    /\ 2 * Minute <= EntryIdleTTL   \* 30 minutes
    /\ \A lag \in Lags : lag \in Nat /\ 2 * lag < EntryIdleTTL
    /\ MaxTime \in Nat

VARIABLES
    maxLag,           \* a request reaches its bucket within maxLag ticks
    clock,
    entries,          \* user -> bucket and lastSeen; its domain are the map's keys
    fallback,         \* the fallback buckets
    nextExpiryCheck,  \* 0 is the zero time, which lies before every other
    req,              \* request -> where its goroutine is
    userMeter,        \* history: grants of a user beyond its rate, in parts
    bucketMeter       \* history: the same of a fallback bucket, since it was last replaced or made stricter

limiterVars ==
    <<maxLag, clock, entries, fallback, nextExpiryCheck, req, userMeter, bucketMeter>>

Times == 0..MaxTime
PositiveRpms == Rpms \ {0}

Idle == [pc |-> "idle"]

\* The zero userLimiterFallbackBucket: no limiter yet.
NoLimiter == [parts |-> 0, last |-> 0, rpm |-> 0]
EmptyFallback == [bucket |-> NoLimiter, lastSeen |-> 0]

UserLimiterInit ==
    /\ maxLag \in Lags
    /\ clock = 1
    /\ entries = [u \in {} |-> EmptyFallback]
    /\ fallback = [b \in FallbackBuckets |-> EmptyFallback]
    /\ nextExpiryCheck = 0
    /\ req = [r \in Requests |-> Idle]
    /\ userMeter = [u \in Users |-> 0]
    /\ bucketMeter = [b \in FallbackBuckets |-> 0]

-----------------------------------------------------------------------------
(* The history meters.  A meter holds the largest amount, over every       *)
(* window that ends now, by which the grants of the window exceed what the *)
(* rate refills during it.  It gains a token with each grant and loses the *)
(* refill of a tick, never below zero.                                     *)

MaxRpm == CHOOSE rpm \in Rpms : \A other \in Rpms : other <= rpm

Drained(meter, rpm) == IF meter <= rpm THEN 0 ELSE meter - rpm

-----------------------------------------------------------------------------
(* The registry, under l.mu.                                               *)

Expired(seen, now) == seen + EntryIdleTTL <= now

Expiries(map) == {map[u].lastSeen + EntryIdleTTL : u \in DOMAIN map}

\* The earliest of some times, or the zero time: a set of one element.
Earliest(times) ==
    IF times = {} THEN {0} ELSE {t \in times : \A other \in times : t <= other}

\* cleanupExpiredEntriesLocked: what it leaves, and the expiry it finds next.
Unexpired(map, now) ==
    [u \in {v \in DOMAIN map : ~Expired(map[v].lastSeen, now)} |-> map[u]]

NextAfterCleanup(left, now) == Earliest(Expiries(left))

\* recordPotentialExpiryLocked.
RecordPotentialExpiry(next, seen) ==
    IF next = 0 \/ seen + EntryIdleTTL < next THEN seen + EntryIdleTTL ELSE next

With(map, u, entry) == [v \in DOMAIN map \cup {u} |-> IF v = u THEN entry ELSE map[v]]

\* Mutant: the check waits until its time has passed.
ShouldCheck_After(now) == nextExpiryCheck = 0 \/ now > nextExpiryCheck

\* The expired entries are looked for only when one can have expired.
ShouldCheck(now) == nextExpiryCheck = 0 \/ now >= nextExpiryCheck

\* Mutant: an entry that comes back keeps the expiry check it was given first.
NextOnHit_Kept(seen) == nextExpiryCheck

NextOnHit(seen) == RecordPotentialExpiry(nextExpiryCheck, seen)

\* The lastSeen of an entry that is used again.
SeenOnHit(entry, now) == now

\* Mutant: a changed RPM starts a new bucket.
DedicatedBucket_Fresh(entry, rpm, now) ==
    IF entry.bucket.rpm # rpm THEN FullBucket(rpm, now) ELSE entry.bucket

\* The limiter of an existing entry, under the RPM of this request.
DedicatedBucket(entry, rpm, now) ==
    IF entry.bucket.rpm # rpm THEN SetRpm(entry.bucket, rpm, now) ELSE entry.bucket

\* The shared bucket is replaced or made stricter: its history starts again.
Restarts(shared, rpm, now) ==
    shared.bucket.rpm = 0 \/ Expired(shared.lastSeen, now) \/ rpm < shared.bucket.rpm

\* The limiter of a shared bucket: new, made stricter, or as it is.
FallbackBucket(shared, rpm, now) ==
    IF shared.bucket.rpm = 0 \/ Expired(shared.lastSeen, now)
    THEN FullBucket(rpm, now)
    ELSE IF rpm < shared.bucket.rpm THEN SetRpm(shared.bucket, rpm, now) ELSE shared.bucket

-----------------------------------------------------------------------------
(* A request.                                                              *)

\* UserMiddleware: an RPM of zero passes the request on.
Limited(rpm) == rpm # 0

\* UserMiddleware and allow: a limited tools/call reads the time.  Every other
\* request is passed on without touching the limiter.
Arrive(r) ==
    /\ req[r].pc = "idle"
    /\ \E u \in Users, rpm \in Rpms :
          /\ Limited(rpm)
          /\ req' = [req EXCEPT ![r] = [pc |-> "lock", user |-> u, rpm |-> rpm, now |-> clock]]
    /\ UNCHANGED <<clock, entries, fallback, nextExpiryCheck, userMeter, bucketMeter>>

\* The bucket is found and l.mu released.
Found(r, via) ==
    req' = [req EXCEPT ![r] = [pc |-> "allow", user |-> req[r].user, now |-> req[r].now, via |-> via]]

\* allowAt for a user that has an entry.
AllowAtHit(r) ==
    /\ req[r].pc = "lock"
    /\ LET u == req[r].user
           now == req[r].now
       IN  /\ u \in DOMAIN entries
           /\ entries' = [entries EXCEPT ![u] =
                 [bucket |-> DedicatedBucket(entries[u], req[r].rpm, now),
                  lastSeen |-> SeenOnHit(entries[u], now)]]
           /\ nextExpiryCheck' = NextOnHit(now)
    /\ Found(r, "entry")
    /\ UNCHANGED <<clock, fallback, userMeter, bucketMeter>>

\* The registry a user without an entry finds: swept first when it is full and
\* an entry can have expired.
Swept(now) == Cardinality(DOMAIN entries) >= MaximumEntries /\ ShouldCheck(now)
RegistryFor(now) == IF Swept(now) THEN Unexpired(entries, now) ELSE entries
NextCheckFor(now) ==
    IF Swept(now) THEN NextAfterCleanup(RegistryFor(now), now) ELSE {nextExpiryCheck}

\* allowAt for a user without an entry, with room for one.
AllowAtAdmit(r) ==
    /\ req[r].pc = "lock"
    /\ LET u == req[r].user
           now == req[r].now
       IN  /\ u \notin DOMAIN entries
           /\ Cardinality(DOMAIN RegistryFor(now)) < MaximumEntries
           /\ entries' = With(RegistryFor(now), u,
                 [bucket |-> FullBucket(req[r].rpm, now), lastSeen |-> now])
           /\ \E next \in NextCheckFor(now) : nextExpiryCheck' = RecordPotentialExpiry(next, now)
    /\ Found(r, "entry")
    /\ UNCHANGED <<clock, fallback, userMeter, bucketMeter>>

\* allowAt for a user without an entry when the registry is full.
AllowAtFallback(r) ==
    /\ req[r].pc = "lock"
    /\ LET u == req[r].user
           now == req[r].now
           b == FallbackIndexOf[u]
           bucket == FallbackBucket(fallback[b], req[r].rpm, now)
       IN  /\ u \notin DOMAIN entries
           /\ Cardinality(DOMAIN RegistryFor(now)) >= MaximumEntries
           /\ entries' = RegistryFor(now)
           /\ nextExpiryCheck' \in NextCheckFor(now)
           /\ fallback' = [fallback EXCEPT ![b] = [bucket |-> bucket, lastSeen |-> now]]
           /\ bucketMeter' = [bucketMeter EXCEPT ![b] =
                 IF Restarts(fallback[b], req[r].rpm, now) THEN 0 ELSE @]
    /\ Found(r, "fallback")
    /\ UNCHANGED <<clock, userMeter>>

\* tokenBucket.AllowN(now, 1) on the bucket of the user's entry.
AllowDedicated(r) ==
    /\ req[r].pc = "allow" /\ req[r].via = "entry"
    /\ LET u == req[r].user
           now == req[r].now
           bucket == entries[u].bucket
       IN  IF Allows(bucket, now)
           THEN /\ entries' = [entries EXCEPT ![u] =
                      [bucket |-> AfterGrant(bucket, now), lastSeen |-> @.lastSeen]]
                /\ userMeter' = [userMeter EXCEPT ![u] = @ + Minute]
           ELSE UNCHANGED <<entries, userMeter>>
    /\ req' = [req EXCEPT ![r] = Idle]
    /\ UNCHANGED <<clock, fallback, nextExpiryCheck, bucketMeter>>

\* tokenBucket.AllowN(now, 1) on a shared bucket.
AllowShared(r) ==
    /\ req[r].pc = "allow" /\ req[r].via = "fallback"
    /\ LET u == req[r].user
           now == req[r].now
           b == FallbackIndexOf[u]
           bucket == fallback[b].bucket
       IN  IF Allows(bucket, now)
           THEN /\ fallback' = [fallback EXCEPT ![b].bucket = AfterGrant(bucket, now)]
                /\ userMeter' = [userMeter EXCEPT ![u] = @ + Minute]
                /\ bucketMeter' = [bucketMeter EXCEPT ![b] = @ + Minute]
           ELSE UNCHANGED <<fallback, userMeter, bucketMeter>>
    /\ req' = [req EXCEPT ![r] = Idle]
    /\ UNCHANGED <<clock, entries, nextExpiryCheck>>

-----------------------------------------------------------------------------
\* cleanupLoop: one tick of its ticker, whose time may be a little old.
Cleanup ==
    /\ \E lag \in 0..maxLag :
          LET now == clock - lag
          IN  /\ lag < clock
              /\ entries' = Unexpired(entries, now)
              /\ nextExpiryCheck' \in NextAfterCleanup(entries', now)
    /\ UNCHANGED <<clock, fallback, req, userMeter, bucketMeter>>

\* Time passes.  A request in flight ends within maxLag.
Tick ==
    /\ clock < MaxTime
    /\ \A r \in Requests : req[r].pc # "idle" => clock < req[r].now + maxLag
    /\ clock' = clock + 1
    /\ userMeter' = [u \in Users |-> Drained(userMeter[u], MaxRpm)]
    /\ bucketMeter' = [b \in FallbackBuckets |-> Drained(bucketMeter[b], fallback[b].bucket.rpm)]
    /\ UNCHANGED <<entries, fallback, nextExpiryCheck, req>>

UserLimiterStep ==
    \/ \E r \in Requests :
          \/ Arrive(r) \/ AllowAtHit(r) \/ AllowAtAdmit(r) \/ AllowAtFallback(r)
          \/ AllowDedicated(r) \/ AllowShared(r)
    \/ Cleanup
    \/ Tick

UserLimiterNext == UserLimiterStep /\ UNCHANGED maxLag

UserLimiterSpec == UserLimiterInit /\ [][UserLimiterNext]_limiterVars
-----------------------------------------------------------------------------
\* The types of the registry, its schedule and the requests waiting for it.
RegistryTypes ==
    /\ clock \in Nat \ {0}
    /\ nextExpiryCheck \in Nat
    /\ DOMAIN entries \subseteq Users
    /\ \A u \in DOMAIN entries : entries[u].lastSeen \in Nat \ {0}
    /\ DOMAIN req = Requests
    /\ \A r \in Requests :
          req[r].pc = "lock" => req[r].user \in Users /\ req[r].now \in Nat \ {0}

(* What may go wrong.                                                      *)

\* allowAt looks for expired entries only when nextExpiryCheck has come.  That
\* is safe because no entry expires before it, also after a request with an
\* older time has moved lastSeen back (user_limiter.go, lines 138 and 145).
ExpiryCheckSound ==
    \A u \in DOMAIN entries :
        0 < nextExpiryCheck /\ nextExpiryCheck <= entries[u].lastSeen + EntryIdleTTL

\* The registry never holds more entries than it has places for.
RegistryBounded == Cardinality(DOMAIN entries) <= MaximumEntries

\* The inductive invariant of the registry.
RegistryInv == RegistryTypes /\ RegistryBounded /\ ExpiryCheckSound

\* A user is sent to a shared bucket only when every place of the registry is
\* taken by an entry that has not expired at the time of its request
\* (user_limiter.go, lines 144-163), and the registry never outgrows its bound.
FallbackOnlyWhenFull ==
    [][\A r \in Requests :
          (req[r].pc = "lock" /\ req'[r].pc = "allow" /\ req'[r].via = "fallback") =>
              /\ Cardinality(DOMAIN entries') = MaximumEntries
              /\ \A u \in DOMAIN entries' : ~Expired(entries'[u].lastSeen, req[r].now)]_limiterVars

\* The goroutine that left l.mu with a user's bucket still finds it in the
\* registry when it asks for a token: no sweep removes an entry in use, so no
\* grant is charged to a bucket nobody sees (user_limiter.go, lines 139-141).
BucketInUseStays ==
    \A r \in Requests :
        (req[r].pc = "allow" /\ req[r].via = "entry") => req[r].user \in DOMAIN entries

\* Whatever RPM its requests carry and however often it moves between the shared
\* buckets and the registry, a user is never granted more than two bursts beyond the
\* refill of any window (user_limiter.go, lines 132-136 and 208-216), and a shared
\* bucket keeps to the lowest RPM it was asked for: "A shared bucket may become
\* stricter, but never becomes more permissive while active" (lines 168-175).
\* Requests reach their bucket within the tick: for an older time the library
\* refills again.
UserRateBounded ==
    maxLag = 0 =>
        /\ \A u \in Users : userMeter[u] <= 2 * Burst(MaxRpm)
        /\ \A b \in FallbackBuckets : bucketMeter[b] <= Burst(fallback[b].bucket.rpm)

\* The buckets hold every user to its rate: no sweep drops one in use, and neither
\* RPM changes nor moves to and from the shared buckets earn another burst
\* (user_limiter.go, lines 120-181).
BucketsInv == BucketInUseStays /\ UserRateBounded
=============================================================================
