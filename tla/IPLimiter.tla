------------------------------ MODULE IPLimiter ------------------------------
(***************************************************************************)
(* The per-address rate limiter of internal/ratelimit/ip_limiter.go, which *)
(* stands before authentication: shards of bounded maps of token buckets,  *)
(* fallback buckets in each shard, and a ticker that sweeps a few shards   *)
(* at a time, round robin.                                                 *)
(*                                                                         *)
(* A request reads the time, works on its shard under the shard's lock,    *)
(* and asks the bucket it found for a token after the lock.  A sweep takes *)
(* the lock of one shard after the other, so requests run in between.      *)
(***************************************************************************)
EXTENDS TokenBucket, FiniteSets

CONSTANTS
    Addresses,
    Requests,          \* goroutines; each serves one request after another
    ShardCount,
    ShardOf,           \* shardIndexFor
    FallbackLimiters,  \* the fallback buckets of one shard
    FallbackIndexOf,   \* fallbackBucketIndexFor
    RequestsPerMinute,
    MaximumEntries,    \* of one shard
    EntryIdleTTL,
    CleanupInterval,
    CleanupShardBatchSize,
    Lags,              \* the delays, in ticks, a run may have between the clock and the bucket
    MaxTime            \* bound on the clock

Shards == 0..(ShardCount - 1)

ASSUME IPLimiterAssumption ==
    /\ IsFiniteSet(Addresses)
    /\ ShardCount \in Nat \ {0}
    /\ ShardOf \in [Addresses -> Shards]
    /\ FallbackIndexOf \in [Addresses -> FallbackLimiters]
    /\ RequestsPerMinute \in Nat \ {0}
    /\ MaximumEntries \in Nat \ {0}
    /\ EntryIdleTTL \in Nat \ {0}
    /\ CleanupInterval \in Nat \ {0}
    /\ CleanupShardBatchSize \in 1..ShardCount
    /\ \A lag \in Lags : lag \in Nat /\ 2 * lag < EntryIdleTTL
    /\ 2 * Minute <= EntryIdleTTL + 1   \* a bucket dropped for idleness would be full again
    /\ MaxTime \in Nat \ {0}

VARIABLES
    maxLag,           \* a request reaches its bucket within maxLag ticks
    clock,
    entries,          \* shard -> address -> bucket and lastSeen
    fallback,         \* shard -> its fallback buckets
    nextExpiryCheck,  \* shard -> time; 0 is the zero time
    cleanupCursor,
    sweep,            \* shards the running sweep has still to clean, and its time
    nextSweep,        \* when the ticker fires next
    req,              \* request -> where its goroutine is
    meter             \* history: grants of an address beyond its rate, in parts

ipVars ==
    <<maxLag, clock, entries, fallback, nextExpiryCheck, cleanupCursor, sweep, nextSweep, req, meter>>

Idle == [pc |-> "idle"]

\* newTokenBucket.
NewTokenBucket(t) == FullBucket(RequestsPerMinute, t)

IPLimiterInit ==
    /\ maxLag \in Lags
    /\ clock = 1
    /\ entries = [s \in Shards |-> [a \in {} |-> Idle]]
    /\ fallback = [s \in Shards |-> [b \in FallbackLimiters |-> NewTokenBucket(0)]]
    /\ nextExpiryCheck = [s \in Shards |-> 0]
    /\ cleanupCursor = 0
    /\ sweep = [left |-> 0, now |-> 0]
    /\ nextSweep = 1 + CleanupInterval
    /\ req = [r \in Requests |-> Idle]
    /\ meter = [a \in Addresses |-> 0]

-----------------------------------------------------------------------------
(* A shard, under its lock.                                                *)

\* An entry has been idle for longer than the TTL.
Expired(seen, now) == seen + EntryIdleTTL < now

\* The earliest of some times, or the zero time: a set of one element.
Earliest(times) ==
    IF times = {} THEN {0} ELSE {t \in times : \A other \in times : t <= other}

\* cleanupShardLocked: the entries it leaves, and the check it schedules.  The
\* rebuilding of a map that has shrunk moves the same entries to a new map.
Unexpired(map, now) ==
    [a \in {b \in DOMAIN map : ~Expired(map[b].lastSeen, now)} |-> map[a]]
NextAfterCleanup(map) == Earliest({map[a].lastSeen + EntryIdleTTL : a \in DOMAIN map})

\* recordPotentialExpiryLocked.
RecordPotentialExpiry(next, seen) ==
    IF next = 0 \/ seen + EntryIdleTTL < next THEN seen + EntryIdleTTL ELSE next

With(map, a, entry) == [b \in DOMAIN map \cup {a} |-> IF b = a THEN entry ELSE map[b]]

\* Mutant: the check waits one tick more.
ShouldCheck_Later(s, now) == nextExpiryCheck[s] = 0 \/ now > nextExpiryCheck[s] + 1

ShouldCheck(s, now) == nextExpiryCheck[s] = 0 \/ now > nextExpiryCheck[s]

HasRoom(map) == Cardinality(DOMAIN map) < MaximumEntries

-----------------------------------------------------------------------------
(* A request.                                                              *)

\* Middleware and allow: a request with a valid client address reads the time.
\* One without is refused before it reaches the limiter.
Arrive(r) ==
    /\ req[r].pc = "idle"
    /\ \E a \in Addresses : req' = [req EXCEPT ![r] = [pc |-> "lock", addr |-> a, now |-> clock]]
    /\ UNCHANGED <<clock, entries, fallback, nextExpiryCheck, cleanupCursor, sweep, nextSweep, meter>>

Found(r, via) ==
    req' = [req EXCEPT ![r] = [pc |-> "allow", addr |-> req[r].addr, now |-> req[r].now, via |-> via]]

\* allowAt for an address that has an entry.
AllowAtHit(r) ==
    /\ req[r].pc = "lock"
    /\ LET a == req[r].addr
           s == ShardOf[a]
           now == req[r].now
       IN  /\ a \in DOMAIN entries[s]
           /\ entries' = [entries EXCEPT ![s][a].lastSeen = now]
           /\ nextExpiryCheck' = [nextExpiryCheck EXCEPT ![s] = RecordPotentialExpiry(@, now)]
    /\ Found(r, "entry")
    /\ UNCHANGED <<clock, fallback, cleanupCursor, sweep, nextSweep, meter>>

\* The shard an address without an entry finds, swept when it is full and the
\* check has come.
Swept(s, now) == ~HasRoom(entries[s]) /\ ShouldCheck(s, now)
ShardFor(s, now) == IF Swept(s, now) THEN Unexpired(entries[s], now) ELSE entries[s]
NextCheckFor(s, now) ==
    IF Swept(s, now) THEN NextAfterCleanup(ShardFor(s, now)) ELSE {nextExpiryCheck[s]}

\* allowAt for an address without an entry, with room for one.
AllowAtAdmit(r) ==
    /\ req[r].pc = "lock"
    /\ LET a == req[r].addr
           s == ShardOf[a]
           now == req[r].now
       IN  /\ a \notin DOMAIN entries[s]
           /\ HasRoom(ShardFor(s, now))
           /\ entries' = [entries EXCEPT ![s] = With(ShardFor(s, now), a,
                 [bucket |-> NewTokenBucket(now), lastSeen |-> now])]
           /\ \E next \in NextCheckFor(s, now) :
                 nextExpiryCheck' = [nextExpiryCheck EXCEPT ![s] = RecordPotentialExpiry(next, now)]
    /\ Found(r, "entry")
    /\ UNCHANGED <<clock, fallback, cleanupCursor, sweep, nextSweep, meter>>

\* allowAt for an address without an entry in a full shard.
AllowAtFallback(r) ==
    /\ req[r].pc = "lock"
    /\ LET a == req[r].addr
           s == ShardOf[a]
           now == req[r].now
       IN  /\ a \notin DOMAIN entries[s]
           /\ ~HasRoom(ShardFor(s, now))
           /\ entries' = [entries EXCEPT ![s] = ShardFor(s, now)]
           /\ \E next \in NextCheckFor(s, now) :
                 nextExpiryCheck' = [nextExpiryCheck EXCEPT ![s] = next]
    /\ Found(r, "fallback")
    /\ UNCHANGED <<clock, fallback, cleanupCursor, sweep, nextSweep, meter>>

Granted(r) == meter' = [meter EXCEPT ![req[r].addr] = @ + Minute]

\* tokenBucket.AllowN(now, 1) on the bucket of the address.
AllowDedicated(r) ==
    /\ req[r].pc = "allow" /\ req[r].via = "entry"
    /\ LET a == req[r].addr
           s == ShardOf[a]
           now == req[r].now
           bucket == entries[s][a].bucket
       IN  IF Allows(bucket, now)
           THEN entries' = [entries EXCEPT ![s][a].bucket = AfterGrant(bucket, now)] /\ Granted(r)
           ELSE UNCHANGED <<entries, meter>>
    /\ req' = [req EXCEPT ![r] = Idle]
    /\ UNCHANGED <<clock, fallback, nextExpiryCheck, cleanupCursor, sweep, nextSweep>>

\* tokenBucket.AllowN(now, 1) on a fallback bucket of the shard.
AllowShared(r) ==
    /\ req[r].pc = "allow" /\ req[r].via = "fallback"
    /\ LET s == ShardOf[req[r].addr]
           b == FallbackIndexOf[req[r].addr]
           now == req[r].now
           bucket == fallback[s][b]
       IN  IF Allows(bucket, now)
           THEN fallback' = [fallback EXCEPT ![s][b] = AfterGrant(bucket, now)] /\ Granted(r)
           ELSE UNCHANGED <<fallback, meter>>
    /\ req' = [req EXCEPT ![r] = Idle]
    /\ UNCHANGED <<clock, entries, nextExpiryCheck, cleanupCursor, sweep, nextSweep>>

-----------------------------------------------------------------------------
(* cleanupLoop.                                                            *)

\* The ticker fires.
SweepStart ==
    /\ sweep.left = 0 /\ clock >= nextSweep
    /\ sweep' = [left |-> CleanupShardBatchSize, now |-> clock]
    /\ nextSweep' = nextSweep + CleanupInterval
    /\ UNCHANGED <<clock, entries, fallback, nextExpiryCheck, cleanupCursor, req, meter>>

\* Mutant: every sweep starts with the first shard.
NextCursor_Restarts ==
    IF sweep.left = 1 THEN 0 ELSE (cleanupCursor + 1) % ShardCount

NextCursor == (cleanupCursor + 1) % ShardCount

\* cleanupShard: one shard of the batch.
SweepShard ==
    /\ sweep.left > 0
    /\ LET s == cleanupCursor
           left == Unexpired(entries[s], sweep.now)
       IN  /\ entries' = [entries EXCEPT ![s] = left]
           /\ \E next \in NextAfterCleanup(left) :
                 nextExpiryCheck' = [nextExpiryCheck EXCEPT ![s] = next]
    /\ cleanupCursor' = NextCursor
    /\ sweep' = [sweep EXCEPT !.left = @ - 1]
    /\ UNCHANGED <<clock, fallback, nextSweep, req, meter>>

Drained(amount) == IF amount <= RequestsPerMinute THEN 0 ELSE amount - RequestsPerMinute

\* Time passes: a sweep that is due runs within its tick, and a request in
\* flight ends within maxLag.
Tick ==
    /\ clock < MaxTime
    /\ sweep.left = 0 /\ clock < nextSweep
    /\ \A r \in Requests : req[r].pc # "idle" => clock < req[r].now + maxLag
    /\ clock' = clock + 1
    /\ meter' = [a \in Addresses |-> Drained(meter[a])]
    /\ UNCHANGED <<entries, fallback, nextExpiryCheck, cleanupCursor, sweep, nextSweep, req>>

IPLimiterStep ==
    \/ \E r \in Requests :
          \/ Arrive(r) \/ AllowAtHit(r) \/ AllowAtAdmit(r) \/ AllowAtFallback(r)
          \/ AllowDedicated(r) \/ AllowShared(r)
    \/ SweepStart \/ SweepShard
    \/ Tick

IPLimiterNext == IPLimiterStep /\ UNCHANGED maxLag

IPLimiterSpec == IPLimiterInit /\ [][IPLimiterNext]_ipVars

-----------------------------------------------------------------------------
\* The type of the shards: an address is only ever in its own shard, a shard
\* holds no more than MaximumEntries, and a bucket no more than its burst.
IPLimiterTypeOK ==
    /\ maxLag \in Lags /\ clock \in 1..MaxTime
    /\ cleanupCursor \in Shards
    /\ \A s \in Shards :
          /\ DOMAIN entries[s] \subseteq {a \in Addresses : ShardOf[a] = s}
          /\ Cardinality(DOMAIN entries[s]) <= MaximumEntries
          /\ \A a \in DOMAIN entries[s] :
                /\ entries[s][a].lastSeen \in 1..MaxTime
                /\ entries[s][a].bucket.parts \in 0..Burst(RequestsPerMinute)
          /\ nextExpiryCheck[s] \in Nat

\* A client is sent to a fallback bucket only when its shard is full of entries
\* that are not idle for longer than the TTL (ip_limiter.go, lines 164-187):
\* the shortcut over nextExpiryCheck never hides a place that can be reused.
ShardFallbackOnlyWhenFull ==
    [][\A r \in Requests :
          (req[r].pc = "lock" /\ req'[r].pc = "allow" /\ req'[r].via = "fallback") =>
              LET map == entries'[ShardOf[req[r].addr]]
              IN  /\ Cardinality(DOMAIN map) = MaximumEntries
                  /\ \A a \in DOMAIN map : map[a].lastSeen + EntryIdleTTL >= req[r].now]_ipVars

\* The sweeps needed to visit every shard.
Rounds == (ShardCount + CleanupShardBatchSize - 1) \div CleanupShardBatchSize

\* No entry outlives its TTL by more than the time the round robin needs for
\* all shards, also in shards nobody asks for any more (ip_limiter.go, lines
\* 215-227): the memory an address takes is given back.
IdleEntriesLeave ==
    \A s \in Shards : \A a \in DOMAIN entries[s] :
        clock - entries[s][a].lastSeen <= EntryIdleTTL + Rounds * CleanupInterval

\* An address that moves between the fallback buckets and the registry is never
\* granted more than two bursts beyond the refill of any window: a sweep that
\* runs while the address is in use gives no fresh burst (lines 156-182).
\* Requests reach their bucket within the tick: for an older time the library
\* refills again.
AddressRateBounded == maxLag = 0 => \A a \in Addresses : meter[a] <= 2 * Burst(RequestsPerMinute)

\* The shards at every step: bounded, rid of idle entries in time, and no source of
\* fresh bursts.
IPLimiterInv ==
    /\ IPLimiterTypeOK
    /\ IdleEntriesLeave
    /\ AddressRateBounded
=============================================================================
