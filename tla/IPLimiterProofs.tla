--------------------------- MODULE IPLimiterProofs ---------------------------
(***************************************************************************)
(* What IPLimiter guarantees for every number of addresses, shards,        *)
(* requests and places, every rate and every delay of a request.  Three    *)
(* arguments stand beside one another: the check of a shard never comes    *)
(* after one of its entries has expired; the round robin is never further  *)
(* from a shard than its entries' age allows; and what an address was      *)
(* granted is what its buckets lack.                                       *)
(***************************************************************************)
EXTENDS IPLimiter, TLAPS, FiniteSetTheorems

-----------------------------------------------------------------------------
(* The constants.                                                          *)

\* The cursor goes round the shards (cleanupShardBatch).
LEMMA CursorGoesRound ==
    cleanupCursor \in Shards =>
        /\ NextCursor \in Shards
        /\ NextCursor = IF cleanupCursor + 1 = ShardCount THEN 0 ELSE cleanupCursor + 1
<1> SUFFICES ASSUME cleanupCursor \in Shards
             PROVE  NextCursor = IF cleanupCursor + 1 = ShardCount THEN 0 ELSE cleanupCursor + 1
    BY IPLimiterAssumption DEF Shards
<1>1. ASSUME NEW n \in Nat \ {0}, NEW c \in 0..(n - 1)
      PROVE  (c + 1) % n = IF c + 1 = n THEN 0 ELSE c + 1
    OBVIOUS
<1> QED BY <1>1, IPLimiterAssumption DEF Shards, NextCursor

\* The sweeps of one round reach every shard.
LEMMA RoundReachesAll ==
    /\ Rounds \in Nat
    /\ ShardCount <= Rounds * CleanupShardBatchSize
<1>1. ASSUME NEW n \in Nat \ {0}, NEW b \in 1..n
      PROVE  /\ ((n + b - 1) \div b) \in Nat
             /\ n <= ((n + b - 1) \div b) * b
    OBVIOUS
<1> QED BY <1>1, IPLimiterAssumption DEF Rounds

-----------------------------------------------------------------------------
(* The arithmetic of a bucket; all have the rate of the limiter.           *)

FullBurst == Burst(RequestsPerMinute)

Buckets == Bucket(Nat, {RequestsPerMinute})

LEMMA Numbers ==
    /\ Minute \in Nat /\ FullBurst \in Nat /\ RequestsPerMinute \in Nat
    /\ EntryIdleTTL \in Nat /\ CleanupInterval \in Nat /\ MaximumEntries \in Nat
BY IPLimiterAssumption, MinuteAssumption DEF FullBurst, Burst

\* A bucket asked for a time that is not before its last holds what it has got since,
\* and never more than its burst; a time before its last refills nothing.
LEMMA PartsBounded ==
    ASSUME NEW t \in Nat, NEW bucket \in Buckets
    PROVE  /\ PartsAt(bucket, t) \in Nat /\ PartsAt(bucket, t) <= FullBurst
           /\ bucket.last <= t =>
                 PartsAt(bucket, t) =
                    IF bucket.parts + (t - bucket.last) * RequestsPerMinute < FullBurst
                    THEN bucket.parts + (t - bucket.last) * RequestsPerMinute ELSE FullBurst
<1>1. bucket.parts \in Nat /\ bucket.last \in Nat /\ bucket.rpm = RequestsPerMinute
    BY DEF Buckets, Bucket
<1>2. FullBurst \in Nat /\ RequestsPerMinute \in Nat
    BY Numbers
<1>3. CASE bucket.last <= t
    <2>1. (t - bucket.last) \in Nat /\ (t - bucket.last) * RequestsPerMinute \in Nat
        BY <1>1, <1>2, <1>3
    <2> QED BY <1>1, <1>2, <1>3, <2>1 DEF PartsAt, FullBurst
<1>4. CASE ~(bucket.last <= t)
    <2>1. (t - t) * RequestsPerMinute = 0 /\ t < bucket.last
        BY <1>1, <1>2, <1>4
    <2> QED BY <1>1, <1>2, <1>4, <2>1 DEF PartsAt, FullBurst
<1> QED BY <1>3, <1>4

\* A tick refills no more than the rate.
LEMMA TickRefills ==
    ASSUME NEW t \in Nat, NEW bucket \in Buckets, bucket.last <= t
    PROVE  PartsAt(bucket, t + 1) <= PartsAt(bucket, t) + RequestsPerMinute
<1>1. bucket.parts \in Nat /\ bucket.last \in Nat
    BY DEF Buckets, Bucket
<1>2. FullBurst \in Nat /\ RequestsPerMinute \in Nat
    BY Numbers
<1>3. PICK held \in Nat : held = (t - bucket.last) * RequestsPerMinute
    BY <1>1, <1>2
<1>4. (t + 1 - bucket.last) * RequestsPerMinute = held + RequestsPerMinute
    BY <1>1, <1>2, <1>3
<1>5. PartsAt(bucket, t) = IF bucket.parts + held < FullBurst THEN bucket.parts + held ELSE FullBurst
    BY <1>3, PartsBounded
<1>6. PartsAt(bucket, t + 1) = IF bucket.parts + (held + RequestsPerMinute) < FullBurst
                               THEN bucket.parts + (held + RequestsPerMinute) ELSE FullBurst
    BY <1>1, <1>4, PartsBounded
<1> QED BY <1>1, <1>2, <1>5, <1>6

\* A grant takes one token.
LEMMA GrantTakes ==
    ASSUME NEW t \in Nat, NEW bucket \in Buckets, Allows(bucket, t)
    PROVE  /\ AfterGrant(bucket, t) \in Buckets
           /\ AfterGrant(bucket, t).last = t
           /\ AfterGrant(bucket, t).parts <= FullBurst
           /\ PartsAt(AfterGrant(bucket, t), t) + Minute = PartsAt(bucket, t)
<1>1. /\ PartsAt(bucket, t) \in Nat /\ PartsAt(bucket, t) <= FullBurst /\ Minute <= PartsAt(bucket, t)
      /\ Minute \in Nat /\ FullBurst \in Nat /\ RequestsPerMinute \in Nat
    BY PartsBounded, Numbers DEF Allows
<1>2. PICK parts \in Nat : parts = PartsAt(bucket, t) - Minute /\ parts <= FullBurst /\ parts + Minute = PartsAt(bucket, t)
    BY <1>1
<1>3. PICK after : after = AfterGrant(bucket, t)
    OBVIOUS
<1>4. after = [bucket EXCEPT !.parts = parts, !.last = t]
    BY <1>2, <1>3 DEF AfterGrant
<1>5. after \in Buckets /\ after.last = t /\ after.parts = parts
    BY <1>4 DEF Buckets, Bucket
<1>6. (t - t) * RequestsPerMinute = 0
    BY <1>1
<1>7. PartsAt(after, t) = parts
    BY <1>1, <1>2, <1>5, <1>6, PartsBounded
<1> QED BY <1>2, <1>3, <1>5, <1>7

\* A new bucket is full (newTokenBucket).
LEMMA NewIsFull ==
    ASSUME NEW t \in Nat
    PROVE  /\ NewTokenBucket(t) \in Buckets
           /\ NewTokenBucket(t).last = t /\ NewTokenBucket(t).parts = FullBurst
BY Numbers DEF NewTokenBucket, FullBucket, Buckets, Bucket, FullBurst

-----------------------------------------------------------------------------
(* One shard, under its lock.                                              *)

\* An entry that has been in use at some time, not after t.
EntryTyped(entry, t) ==
    /\ entry \in [bucket : Buckets, lastSeen : Nat \ {0}]
    /\ entry.lastSeen <= t
    /\ entry.bucket.last <= t
    /\ entry.bucket.parts <= FullBurst

\* The shard keeps to its size, and its check comes before each entry expires.
ShardOK(map, next, s, t) ==
    /\ DOMAIN map \subseteq {a \in Addresses : ShardOf[a] = s}
    /\ \A a \in DOMAIN map : EntryTyped(map[a], t)
    /\ Cardinality(DOMAIN map) <= MaximumEntries
    /\ next \in Nat
    /\ \A a \in DOMAIN map : 0 < next /\ next <= map[a].lastSeen + EntryIdleTTL

\* A map that differs from an earlier one in who, and in what expired before now.
Left(map, before, who, now) ==
    /\ \A a \in DOMAIN map \ who : a \in DOMAIN before /\ map[a] = before[a]
    /\ \A a \in DOMAIN before \ DOMAIN map : a \notin who /\ Expired(before[a].lastSeen, now)

\* Sets of addresses are finite, and a part is not larger than the whole.
LEMMA SmallerDomain ==
    ASSUME NEW S \in SUBSET Addresses, NEW T \in SUBSET S
    PROVE  /\ IsFiniteSet(T)
           /\ Cardinality(S) \in Nat /\ Cardinality(T) \in Nat
           /\ Cardinality(T) <= Cardinality(S)
<1>1. IsFiniteSet(S)
    BY FS_Subset, IPLimiterAssumption
<1>2. IsFiniteSet(T) /\ Cardinality(T) <= Cardinality(S)
    BY <1>1, FS_Subset
<1> QED BY <1>1, <1>2, FS_CardinalityType

\* cleanupShardLocked keeps every entry that has not expired, as it is, and
\* schedules the next check no later than the first of them expires.
LEMMA SweptShard ==
    ASSUME NEW map, NEW next, NEW s, NEW t \in Nat, ShardOK(map, next, s, t), NEW now \in Nat,
           NEW left, left = Unexpired(map, now), NEW due \in NextAfterCleanup(left)
    PROVE  /\ ShardOK(left, due, s, t)
           /\ Left(left, map, {}, now)
           /\ \A a \in DOMAIN left : ~Expired(left[a].lastSeen, now)
<1>1. /\ DOMAIN left \subseteq DOMAIN map
      /\ \A a \in DOMAIN left : left[a] = map[a] /\ ~Expired(left[a].lastSeen, now)
      /\ \A a \in DOMAIN map \ DOMAIN left : Expired(map[a].lastSeen, now)
    BY DEF Unexpired
<1>2. Cardinality(DOMAIN left) <= MaximumEntries
    <2>1. DOMAIN map \in SUBSET Addresses /\ Cardinality(DOMAIN map) <= MaximumEntries
        BY DEF ShardOK
    <2>2. /\ Cardinality(DOMAIN left) \in Nat /\ Cardinality(DOMAIN map) \in Nat
          /\ Cardinality(DOMAIN left) <= Cardinality(DOMAIN map)
        BY <1>1, <2>1, SmallerDomain
    <2> QED BY <2>1, <2>2, Numbers
<1>3. PICK times : times = {left[a].lastSeen + EntryIdleTTL : a \in DOMAIN left}
    OBVIOUS
<1>4. times \subseteq Nat \ {0} /\ due \in Earliest(times)
    BY <1>1, <1>3, Numbers DEF ShardOK, EntryTyped, NextAfterCleanup
<1>5. CASE times = {}
    <2>1. DOMAIN left = {} /\ due = 0
        BY <1>3, <1>4, <1>5 DEF Earliest
    <2> QED BY <1>1, <1>2, <2>1 DEF ShardOK, Left
<1>6. CASE times # {}
    <2>1. due \in times /\ \A other \in times : due <= other
        BY <1>4, <1>6 DEF Earliest
    <2>2. \A a \in DOMAIN left : left[a].lastSeen + EntryIdleTTL \in times
        BY <1>3
    <2>3. due \in Nat /\ \A a \in DOMAIN left : 0 < due /\ due <= left[a].lastSeen + EntryIdleTTL
        <3>1. due \in Nat /\ 0 < due
            BY <1>4, <2>1
        <3> QED BY <2>1, <2>2, <3>1
    <2> QED BY <1>1, <1>2, <2>3 DEF ShardOK, Left
<1> QED BY <1>5, <1>6

\* recordPotentialExpiryLocked never moves the check past an expiry it already
\* covers, nor past the one it records.
LEMMA RecordCovers ==
    ASSUME NEW next \in Nat, NEW seen \in Nat \ {0}
    PROVE  LET recorded == RecordPotentialExpiry(next, seen) IN
           /\ recorded \in Nat /\ 0 < recorded
           /\ recorded <= seen + EntryIdleTTL
           /\ next > 0 => recorded <= next
BY IPLimiterAssumption DEF RecordPotentialExpiry

\* An entry that is given a time, and the check that records it (both branches
\* of allowAt that end with an entry).
LEMMA ShardServes ==
    ASSUME NEW map, NEW next, NEW s, NEW t \in Nat, ShardOK(map, next, s, t),
           NEW a \in Addresses, ShardOf[a] = s, NEW now \in Nat \ {0},
           NEW entry, EntryTyped(entry, t), entry.lastSeen = now,
           NEW after, DOMAIN after = DOMAIN map \cup {a}, after[a] = entry,
           \A b \in DOMAIN map \ {a} : after[b] = map[b],
           a \in DOMAIN map \/ HasRoom(map)
    PROVE  ShardOK(after, RecordPotentialExpiry(next, now), s, t)
<1>1. PICK recorded : recorded = RecordPotentialExpiry(next, now)
    OBVIOUS
<1>2. /\ recorded \in Nat /\ 0 < recorded /\ recorded <= now + EntryIdleTTL
      /\ next > 0 => recorded <= next
    BY <1>1, RecordCovers DEF ShardOK
<1>3. \A b \in DOMAIN after : recorded <= after[b].lastSeen + EntryIdleTTL
    <2>1. ASSUME NEW b \in DOMAIN map PROVE recorded <= map[b].lastSeen + EntryIdleTTL
        <3>1. /\ next \in Nat /\ 0 < next /\ next <= map[b].lastSeen + EntryIdleTTL
              /\ map[b].lastSeen \in Nat /\ EntryIdleTTL \in Nat
            BY Numbers DEF ShardOK, EntryTyped
        <3> QED BY <1>2, <3>1
    <2> QED BY <1>2, <2>1
<1>4. Cardinality(DOMAIN after) <= MaximumEntries
    <2>1. CASE a \in DOMAIN map
        <3>1. DOMAIN after = DOMAIN map
            BY <2>1
        <3> QED BY <3>1 DEF ShardOK
    <2>2. CASE a \notin DOMAIN map
        <3>1. Cardinality(DOMAIN map) < MaximumEntries
            BY <2>2 DEF HasRoom
        <3>2. IsFiniteSet(DOMAIN map) /\ Cardinality(DOMAIN map) \in Nat
            <4>1. DOMAIN map \in SUBSET Addresses
                BY DEF ShardOK
            <4> QED BY <4>1, SmallerDomain
        <3>3. Cardinality(DOMAIN after) = Cardinality(DOMAIN map) + 1
            BY <2>2, <3>2, FS_AddElement
        <3> QED BY <3>1, <3>2, <3>3, Numbers
    <2> QED BY <2>1, <2>2
<1>5. /\ DOMAIN after \subseteq {b \in Addresses : ShardOf[b] = s}
      /\ \A b \in DOMAIN after : EntryTyped(after[b], t)
    BY DEF ShardOK
<1> QED BY <1>1, <1>2, <1>3, <1>4, <1>5 DEF ShardOK

-----------------------------------------------------------------------------
(* The shards at every step.                                               *)

\* The clocks: a sweep that is due runs within its tick.
Times ==
    /\ maxLag \in Lags
    /\ clock \in Nat \ {0} /\ clock <= MaxTime
    /\ cleanupCursor \in Shards
    /\ sweep \in [left : 0..CleanupShardBatchSize, now : Nat]
    /\ sweep.left > 0 => sweep.now = clock
    /\ nextSweep \in Nat /\ clock <= nextSweep /\ nextSweep <= clock + CleanupInterval

\* A request in flight has read its time at most maxLag ago.
Calls ==
    /\ DOMAIN req = Requests
    /\ \A r \in Requests :
          /\ req[r].pc \in {"idle", "lock", "allow"}
          /\ req[r].pc # "idle" =>
                /\ req[r].addr \in Addresses /\ req[r].now \in Nat \ {0}
                /\ req[r].now <= clock /\ clock <= req[r].now + maxLag
          /\ req[r].pc = "allow" => req[r].via \in {"entry", "fallback"}

ShardsInv ==
    /\ DOMAIN entries = Shards /\ nextExpiryCheck \in [Shards -> Nat]
    /\ \A s \in Shards : ShardOK(entries[s], nextExpiryCheck[s], s, clock)

SharedInv ==
    /\ DOMAIN fallback = Shards
    /\ \A s \in Shards :
          /\ DOMAIN fallback[s] = FallbackLimiters
          /\ \A b \in FallbackLimiters : fallback[s][b] \in Buckets /\ fallback[s][b].last <= clock

\* The entry a request has found was given its time by a request in flight with it.
InUse ==
    \A r \in Requests : req[r].pc = "allow" /\ req[r].via = "entry" =>
        LET a == req[r].addr
            map == entries[ShardOf[a]]
        IN  a \in DOMAIN map /\ req[r].now <= map[a].lastSeen + maxLag

IRegistry == Times /\ Calls /\ ShardsInv /\ SharedInv /\ InUse

\* What allowAt has done, whichever way it went, when it unlocks the shard.
Served(r, map, next, via) ==
    LET a == req[r].addr
        s == ShardOf[a]
        now == req[r].now
    IN  /\ entries' = [entries EXCEPT ![s] = map]
        /\ nextExpiryCheck' = [nextExpiryCheck EXCEPT ![s] = next]
        /\ Found(r, via)
        /\ UNCHANGED <<clock, fallback, cleanupCursor, sweep, nextSweep, meter>>
        /\ ShardOK(map, next, s, clock)
        /\ Left(map, entries[s], {a}, now)
        /\ via = "entry" =>
              /\ a \in DOMAIN map /\ map[a].lastSeen = now
              /\ map[a].bucket = IF a \in DOMAIN entries[s] THEN entries[s][a].bucket
                                 ELSE NewTokenBucket(now)
        /\ via = "fallback" =>
              /\ a \notin DOMAIN map /\ a \notin DOMAIN entries[s]
              /\ Cardinality(DOMAIN map) = MaximumEntries
              /\ \A b \in DOMAIN map : ~Expired(map[b].lastSeen, now)

\* The shard an address without an entry finds: swept when it is full and the
\* check has come, and full only of entries that have not expired.
LEMMA ShardFound ==
    ASSUME ShardsInv, NEW s \in Shards, clock \in Nat, NEW now \in Nat, NEW next \in NextCheckFor(s, now)
    PROVE  LET map == ShardFor(s, now) IN
           /\ ShardOK(map, next, s, clock)
           /\ Left(map, entries[s], {}, now)
           /\ ~HasRoom(map) =>
                 /\ Cardinality(DOMAIN map) = MaximumEntries
                 /\ \A a \in DOMAIN map : ~Expired(map[a].lastSeen, now)
<1>1. PICK map : map = ShardFor(s, now)
    OBVIOUS
<1>2. ShardOK(entries[s], nextExpiryCheck[s], s, clock)
    BY DEF ShardsInv
<1>3. /\ ShardOK(map, next, s, clock) /\ Left(map, entries[s], {}, now)
      /\ ~HasRoom(map) => \A a \in DOMAIN map : ~Expired(map[a].lastSeen, now)
    <2>1. CASE Swept(s, now)
        <3>1. map = Unexpired(entries[s], now) /\ next \in NextAfterCleanup(map)
            BY <1>1, <2>1 DEF ShardFor, NextCheckFor
        <3> QED BY <1>2, <3>1, SweptShard
    <2>2. CASE ~Swept(s, now)
        <3>1. map = entries[s] /\ next = nextExpiryCheck[s]
            BY <1>1, <2>2 DEF ShardFor, NextCheckFor
        <3>2. ASSUME ~HasRoom(map), NEW a \in DOMAIN map PROVE ~Expired(map[a].lastSeen, now)
            <4>1. next # 0 /\ ~(now > next)
                BY <2>2, <3>1, <3>2 DEF Swept, ShouldCheck
            <4>2. next \in Nat /\ next <= map[a].lastSeen + EntryIdleTTL
                BY <1>2, <3>1, <3>2 DEF ShardOK
            <4>3. map[a].lastSeen \in Nat /\ EntryIdleTTL \in Nat
                BY <1>2, <3>1, <3>2, Numbers DEF ShardOK, EntryTyped
            <4> QED BY <4>1, <4>2, <4>3 DEF Expired
        <3> QED BY <1>2, <3>1, <3>2 DEF Left
    <2> QED BY <2>1, <2>2
<1>4. ~HasRoom(map) => Cardinality(DOMAIN map) = MaximumEntries
    <2>1. DOMAIN map \in SUBSET Addresses /\ Cardinality(DOMAIN map) <= MaximumEntries
        BY <1>3 DEF ShardOK
    <2>2. Cardinality(DOMAIN map) \in Nat
        BY <2>1, SmallerDomain
    <2> QED BY <2>1, <2>2, Numbers DEF HasRoom
<1> QED BY <1>1, <1>3, <1>4

LEMMA AllowAtServes ==
    ASSUME Times, Calls, ShardsInv, NEW r \in Requests,
           AllowAtHit(r) \/ AllowAtAdmit(r) \/ AllowAtFallback(r)
    PROVE  /\ req[r].pc = "lock" /\ req[r].addr \in Addresses /\ ShardOf[req[r].addr] \in Shards
           /\ \E map, next : \E via \in {"entry", "fallback"} : Served(r, map, next, via)
<1>1. PICK a, s, now : a = req[r].addr /\ s = ShardOf[a] /\ now = req[r].now
    OBVIOUS
<1>2. /\ req[r].pc = "lock" /\ a \in Addresses /\ s \in Shards /\ clock \in Nat
      /\ now \in Nat \ {0} /\ now <= clock
    BY <1>1, IPLimiterAssumption DEF Times, Calls, AllowAtHit, AllowAtAdmit, AllowAtFallback
<1>3. ShardOK(entries[s], nextExpiryCheck[s], s, clock) /\ DOMAIN entries = Shards /\ DOMAIN nextExpiryCheck = Shards
    BY <1>2 DEF ShardsInv
<1>4. CASE AllowAtHit(r)
    <2>1. PICK entry : entry = [entries[s][a] EXCEPT !.lastSeen = now]
        OBVIOUS
    <2>2. PICK map : map = [entries[s] EXCEPT ![a] = entry]
        OBVIOUS
    <2>3. PICK next : next = RecordPotentialExpiry(nextExpiryCheck[s], now)
        OBVIOUS
    <2>4. /\ a \in DOMAIN entries[s] /\ entries' = [entries EXCEPT ![s][a].lastSeen = now]
          /\ nextExpiryCheck' = [nextExpiryCheck EXCEPT ![s] = RecordPotentialExpiry(@, now)]
          /\ Found(r, "entry")
          /\ UNCHANGED <<clock, fallback, cleanupCursor, sweep, nextSweep, meter>>
        BY <1>1, <1>4 DEF AllowAtHit
    <2>5. /\ entries' = [entries EXCEPT ![s] = map]
          /\ nextExpiryCheck' = [nextExpiryCheck EXCEPT ![s] = next]
        BY <1>2, <1>3, <2>1, <2>2, <2>3, <2>4
    <2>6. EntryTyped(entries[s][a], clock)
        BY <1>3, <2>4 DEF ShardOK
    <2>7. EntryTyped(entry, clock) /\ entry.lastSeen = now /\ entry.bucket = entries[s][a].bucket
        BY <1>2, <2>1, <2>6 DEF EntryTyped
    <2>8. DOMAIN map = DOMAIN entries[s] /\ map[a] = entry /\ \A b \in DOMAIN entries[s] \ {a} : map[b] = entries[s][b]
        BY <2>2, <2>4
    <2>9. ShardOK(map, next, s, clock)
        <3>1. PICK before, old : before = entries[s] /\ old = nextExpiryCheck[s]
            OBVIOUS
        <3>2. ShardOK(before, old, s, clock) /\ next = RecordPotentialExpiry(old, now)
            BY <1>3, <2>3, <3>1
        <3>3. /\ a \in DOMAIN before /\ DOMAIN map = DOMAIN before \cup {a} /\ map[a] = entry
              /\ \A b \in DOMAIN before \ {a} : map[b] = before[b]
            BY <2>4, <2>8, <3>1
        <3> QED BY <1>1, <1>2, <2>7, <3>2, <3>3, ShardServes
    <2>10. Left(map, entries[s], {a}, now)
        BY <2>8 DEF Left
    <2>11. Served(r, map, next, "entry")
        BY <1>1, <2>4, <2>5, <2>7, <2>8, <2>9, <2>10 DEF Served
    <2> QED BY <1>1, <1>2, <2>11
<1>5. CASE AllowAtAdmit(r)
    <2>1. PICK before : before = ShardFor(s, now)
        OBVIOUS
    <2>2. PICK due \in NextCheckFor(s, now) :
             nextExpiryCheck' = [nextExpiryCheck EXCEPT ![s] = RecordPotentialExpiry(due, now)]
        BY <1>1, <1>5 DEF AllowAtAdmit
    <2>3. PICK next : next = RecordPotentialExpiry(due, now)
        OBVIOUS
    <2>4. PICK entry : entry = [bucket |-> NewTokenBucket(now), lastSeen |-> now]
        OBVIOUS
    <2>5. PICK map : map = With(before, a, entry)
        OBVIOUS
    <2>6. /\ a \notin DOMAIN entries[s] /\ HasRoom(before) /\ entries' = [entries EXCEPT ![s] = map]
          /\ Found(r, "entry")
          /\ UNCHANGED <<clock, fallback, cleanupCursor, sweep, nextSweep, meter>>
        BY <1>1, <1>5, <2>1, <2>4, <2>5 DEF AllowAtAdmit
    <2>7. ShardOK(before, due, s, clock) /\ Left(before, entries[s], {}, now)
        BY <1>2, <2>1, ShardFound
    <2>8. EntryTyped(entry, clock) /\ entry.lastSeen = now /\ entry.bucket = NewTokenBucket(now)
        <3>1. /\ NewTokenBucket(now) \in Buckets /\ NewTokenBucket(now).last = now
              /\ NewTokenBucket(now).parts = FullBurst /\ FullBurst \in Nat
            BY <1>2, NewIsFull, Numbers
        <3> QED BY <1>2, <2>4, <3>1 DEF EntryTyped
    <2>9. DOMAIN map = DOMAIN before \cup {a} /\ map[a] = entry /\ \A b \in DOMAIN before \ {a} : map[b] = before[b]
        BY <2>5 DEF With
    <2>10. ShardOK(map, next, s, clock)
        BY <1>1, <1>2, <2>3, <2>6, <2>7, <2>8, <2>9, ShardServes
    <2>11. Left(map, entries[s], {a}, now)
        BY <2>6, <2>7, <2>9 DEF Left
    <2>12. Served(r, map, next, "entry")
        BY <1>1, <2>2, <2>3, <2>6, <2>8, <2>9, <2>10, <2>11 DEF Served
    <2> QED BY <1>1, <1>2, <2>12
<1>6. CASE AllowAtFallback(r)
    <2>1. PICK map : map = ShardFor(s, now)
        OBVIOUS
    <2>2. PICK next \in NextCheckFor(s, now) : nextExpiryCheck' = [nextExpiryCheck EXCEPT ![s] = next]
        BY <1>1, <1>6 DEF AllowAtFallback
    <2>3. /\ a \notin DOMAIN entries[s] /\ ~HasRoom(map) /\ entries' = [entries EXCEPT ![s] = map]
          /\ Found(r, "fallback")
          /\ UNCHANGED <<clock, fallback, cleanupCursor, sweep, nextSweep, meter>>
        BY <1>1, <1>6, <2>1 DEF AllowAtFallback
    <2>4. /\ ShardOK(map, next, s, clock) /\ Left(map, entries[s], {}, now)
          /\ Cardinality(DOMAIN map) = MaximumEntries
          /\ \A b \in DOMAIN map : ~Expired(map[b].lastSeen, now)
        BY <1>2, <2>1, <2>3, ShardFound
    <2>5. a \notin DOMAIN map /\ Left(map, entries[s], {a}, now)
        BY <2>3, <2>4 DEF Left
    <2>6. Served(r, map, next, "fallback")
        BY <1>1, <2>2, <2>3, <2>4, <2>5 DEF Served
    <2> QED BY <1>1, <1>2, <2>6
<1> QED BY <1>4, <1>5, <1>6

\* An entry in use is not old: whoever uses it, or has given it its time since, began
\* at most maxLag ago.
LEMMA UsedIsYoung ==
    ASSUME IRegistry, NEW r \in Requests, req[r].pc = "allow", req[r].via = "entry",
           NEW now \in Nat, now <= clock
    PROVE  LET map == entries[ShardOf[req[r].addr]] IN
           req[r].addr \in DOMAIN map /\ ~Expired(map[req[r].addr].lastSeen, now)
<1>1. PICK a, map : a = req[r].addr /\ map = entries[ShardOf[a]]
    OBVIOUS
<1>2. a \in Addresses /\ ShardOf[a] \in Shards
    BY <1>1, IPLimiterAssumption DEF IRegistry, Calls
<1>3. /\ a \in DOMAIN map /\ req[r].now <= map[a].lastSeen + maxLag
      /\ req[r].now \in Nat /\ clock <= req[r].now + maxLag /\ clock \in Nat
    BY <1>1 DEF IRegistry, InUse, Calls, Times
<1>4. map[a].lastSeen \in Nat
    BY <1>1, <1>2, <1>3 DEF IRegistry, ShardsInv, ShardOK, EntryTyped
<1>5. maxLag \in Nat /\ 2 * maxLag < EntryIdleTTL /\ EntryIdleTTL \in Nat
    BY IPLimiterAssumption DEF IRegistry, Times
<1>6. ~Expired(map[a].lastSeen, now)
    BY <1>3, <1>4, <1>5 DEF Expired
<1> QED BY <1>1, <1>3, <1>6

\* A shard that takes the place of an earlier one, at the same time.
LEMMA ShardReplaced ==
    ASSUME ShardsInv, NEW s \in Shards, NEW map, NEW next, ShardOK(map, next, s, clock), clock' = clock,
           entries' = [entries EXCEPT ![s] = map],
           nextExpiryCheck' = [nextExpiryCheck EXCEPT ![s] = next]
    PROVE  /\ ShardsInv'
           /\ entries'[s] = map
           /\ \A other \in Shards \ {s} : entries'[other] = entries[other]
<1>1. next \in Nat
    BY DEF ShardOK
<1>2. /\ DOMAIN entries' = Shards /\ entries'[s] = map
      /\ \A other \in Shards \ {s} : entries'[other] = entries[other]
    BY DEF ShardsInv
<1>3. /\ nextExpiryCheck' \in [Shards -> Nat] /\ nextExpiryCheck'[s] = next
      /\ \A other \in Shards \ {s} : nextExpiryCheck'[other] = nextExpiryCheck[other]
    BY <1>1 DEF ShardsInv
<1> QED BY <1>2, <1>3 DEF ShardsInv

\* allowAt unlocks the shard.
LEMMA AllowAtKeeps ==
    ASSUME IRegistry, UNCHANGED maxLag, NEW r \in Requests, req[r].pc = "lock",
           NEW map, NEW next, NEW via \in {"entry", "fallback"}, Served(r, map, next, via)
    PROVE  IRegistry'
<1>1. PICK a, s, now : a = req[r].addr /\ s = ShardOf[a] /\ now = req[r].now
    OBVIOUS
<1>2. /\ a \in Addresses /\ s \in Shards /\ clock \in Nat /\ maxLag \in Nat
      /\ now \in Nat \ {0} /\ now <= clock /\ clock <= now + maxLag
    BY <1>1, IPLimiterAssumption DEF IRegistry, Times, Calls
<1>3. /\ entries' = [entries EXCEPT ![s] = map]
      /\ nextExpiryCheck' = [nextExpiryCheck EXCEPT ![s] = next]
      /\ req' = [req EXCEPT ![r] = [pc |-> "allow", addr |-> a, now |-> now, via |-> via]]
      /\ UNCHANGED <<clock, fallback, cleanupCursor, sweep, nextSweep, meter>>
      /\ ShardOK(map, next, s, clock) /\ Left(map, entries[s], {a}, now)
      /\ via = "entry" => a \in DOMAIN map /\ map[a].lastSeen = now
    BY <1>1 DEF Served, Found
<1>4. Times' /\ SharedInv'
    BY <1>3 DEF IRegistry, Times, SharedInv
<1>5. Calls'
    BY <1>2, <1>3 DEF IRegistry, Calls
<1>6. ShardsInv' /\ entries'[s] = map /\ \A other \in Shards \ {s} : entries'[other] = entries[other]
    BY <1>2, <1>3, ShardReplaced DEF IRegistry
<1>7. ASSUME NEW q \in Requests, req'[q].pc = "allow", req'[q].via = "entry"
      PROVE  LET b == req'[q].addr IN
             b \in DOMAIN entries'[ShardOf[b]] /\ req'[q].now <= entries'[ShardOf[b]][b].lastSeen + maxLag'
    <2>1. CASE q = r
        <3>1. req'[q].addr = a /\ req'[q].now = now /\ via = "entry"
            BY <1>3, <1>7, <2>1 DEF IRegistry, Calls
        <3> QED BY <1>1, <1>2, <1>3, <1>6, <3>1
    <2>2. CASE q # r
        <3>1. PICK b : b = req[q].addr
            OBVIOUS
        <3>2. req'[q] = req[q] /\ req[q].pc = "allow" /\ req[q].via = "entry"
            BY <1>3, <1>7, <2>2 DEF IRegistry, Calls
        <3>3. /\ b \in DOMAIN entries[ShardOf[b]] /\ ~Expired(entries[ShardOf[b]][b].lastSeen, now)
              /\ req[q].now <= entries[ShardOf[b]][b].lastSeen + maxLag
              /\ req[q].now \in Nat /\ req[q].now <= clock /\ ShardOf[b] \in Shards
            BY <1>2, <3>1, <3>2, UsedIsYoung, IPLimiterAssumption DEF IRegistry, InUse, Calls
        <3>4. CASE ShardOf[b] # s
            BY <1>6, <3>1, <3>2, <3>3, <3>4
        <3>5. CASE ShardOf[b] = s /\ b # a
            BY <1>3, <1>6, <3>1, <3>2, <3>3, <3>5 DEF Left
        <3>6. CASE b = a
            <4>1. a \in DOMAIN map
                BY <1>1, <1>3, <3>3, <3>6 DEF Left
            <4>2. via = "entry"
                BY <1>1, <3>3, <3>6 DEF Served
            <4>3. a \in DOMAIN entries'[ShardOf[a]] /\ entries'[ShardOf[a]][a].lastSeen = now
                BY <1>1, <1>3, <1>6, <4>1, <4>2
            <4>4. req[q].now <= now + maxLag
                BY <1>2, <3>3
            <4> QED BY <1>3, <3>1, <3>2, <3>6, <4>3, <4>4, UNCHANGED maxLag
        <3> QED BY <3>4, <3>5, <3>6
    <2> QED BY <2>1, <2>2
<1> QED BY <1>4, <1>5, <1>6, <1>7 DEF IRegistry, InUse

\* A request that has been answered is over.
LEMMA AnsweredKeepsCalls ==
    ASSUME Calls, NEW r \in Requests, req' = [req EXCEPT ![r] = Idle], UNCHANGED <<clock, maxLag>>
    PROVE  /\ Calls'
           /\ \A q \in Requests : req'[q].pc = "allow" => q # r /\ req'[q] = req[q]
BY DEF Calls, Idle

\* A request that asks its dedicated bucket: the entry keeps everything but a token.
LEMMA DedicatedGrants ==
    ASSUME IRegistry, NEW r \in Requests, AllowDedicated(r)
    PROVE  LET a == req[r].addr
               s == ShardOf[a]
               now == req[r].now
               entry == entries[s][a]
           IN  /\ a \in Addresses /\ s \in Shards /\ a \in DOMAIN entries[s]
               /\ now \in Nat /\ EntryTyped(entry, clock)
               /\ req' = [req EXCEPT ![r] = Idle]
               /\ UNCHANGED <<clock, fallback, nextExpiryCheck, cleanupCursor, sweep, nextSweep>>
               /\ \/ entries' = entries /\ meter' = meter
                  \/ /\ Allows(entry.bucket, now)
                     /\ entries' = [entries EXCEPT ![s] = [entries[s] EXCEPT ![a] =
                           [bucket |-> AfterGrant(entry.bucket, now), lastSeen |-> entry.lastSeen]]]
                     /\ meter' = [meter EXCEPT ![a] = @ + Minute]
                     /\ EntryTyped([bucket |-> AfterGrant(entry.bucket, now),
                                    lastSeen |-> entry.lastSeen], clock)
<1>1. PICK a, s, now, entry : a = req[r].addr /\ s = ShardOf[a] /\ now = req[r].now /\ entry = entries[s][a]
    OBVIOUS
<1>2. /\ req[r].pc = "allow" /\ req[r].via = "entry" /\ req' = [req EXCEPT ![r] = Idle]
      /\ UNCHANGED <<clock, fallback, nextExpiryCheck, cleanupCursor, sweep, nextSweep>>
      /\ \/ entries' = entries /\ meter' = meter
         \/ /\ Allows(entry.bucket, now)
            /\ entries' = [entries EXCEPT ![s][a].bucket = AfterGrant(entry.bucket, now)]
            /\ meter' = [meter EXCEPT ![a] = @ + Minute]
    BY <1>1 DEF AllowDedicated, Granted
<1>3. a \in Addresses /\ s \in Shards /\ now \in Nat /\ now <= clock /\ clock \in Nat
    BY <1>1, <1>2, IPLimiterAssumption DEF IRegistry, Calls, Times
<1>4. a \in DOMAIN entries[s]
    BY <1>1, <1>2 DEF IRegistry, InUse
<1>5. EntryTyped(entry, clock) /\ s \in DOMAIN entries
    BY <1>1, <1>3, <1>4 DEF IRegistry, ShardsInv, ShardOK
<1>6. ASSUME Allows(entry.bucket, now)
      PROVE  EntryTyped([bucket |-> AfterGrant(entry.bucket, now), lastSeen |-> entry.lastSeen], clock)
    <2>1. /\ AfterGrant(entry.bucket, now) \in Buckets /\ AfterGrant(entry.bucket, now).last = now
          /\ AfterGrant(entry.bucket, now).parts <= FullBurst
        BY <1>3, <1>5, <1>6, GrantTakes DEF EntryTyped
    <2> QED BY <1>3, <1>5, <2>1 DEF EntryTyped
<1>7. [entries EXCEPT ![s][a].bucket = AfterGrant(entry.bucket, now)] =
      [entries EXCEPT ![s] = [entries[s] EXCEPT ![a] =
          [bucket |-> AfterGrant(entry.bucket, now), lastSeen |-> entry.lastSeen]]]
    <2>1. PICK spent : spent = AfterGrant(entry.bucket, now)
        OBVIOUS
    <2>2. [entry EXCEPT !.bucket = spent] = [bucket |-> spent, lastSeen |-> entry.lastSeen]
        BY <1>5 DEF EntryTyped
    <2>3. [entries EXCEPT ![s][a].bucket = spent] =
          [entries EXCEPT ![s] = [entries[s] EXCEPT ![a] = [entry EXCEPT !.bucket = spent]]]
        BY <1>1, <1>4, <1>5
    <2> QED BY <2>1, <2>2, <2>3
<1> QED BY <1>1, <1>2, <1>3, <1>4, <1>5, <1>6, <1>7

LEMMA DedicatedKeeps ==
    ASSUME IRegistry, UNCHANGED maxLag, NEW r \in Requests, AllowDedicated(r)
    PROVE  IRegistry'
<1>1. PICK a, s, now, entry : a = req[r].addr /\ s = ShardOf[a] /\ now = req[r].now /\ entry = entries[s][a]
    OBVIOUS
<1>2. PICK after : after = [bucket |-> AfterGrant(entry.bucket, now), lastSeen |-> entry.lastSeen]
    OBVIOUS
<1>3. /\ a \in Addresses /\ s \in Shards /\ a \in DOMAIN entries[s]
      /\ EntryTyped(entry, clock)
      /\ req' = [req EXCEPT ![r] = Idle]
      /\ UNCHANGED <<clock, fallback, nextExpiryCheck, cleanupCursor, sweep, nextSweep>>
      /\ \/ entries' = entries
         \/ entries' = [entries EXCEPT ![s] = [entries[s] EXCEPT ![a] = after]] /\ EntryTyped(after, clock)
    BY <1>1, <1>2, DedicatedGrants
<1>4. Times' /\ SharedInv' /\ Calls'
    BY <1>3, AnsweredKeepsCalls DEF IRegistry, Times, SharedInv
<1>5. ShardsInv' /\ \A t \in Shards : /\ DOMAIN entries'[t] = DOMAIN entries[t]
                                      /\ \A b \in DOMAIN entries[t] : entries'[t][b].lastSeen = entries[t][b].lastSeen
    <2>1. CASE entries' = entries
        BY <1>3, <2>1 DEF IRegistry, ShardsInv
    <2>2. CASE entries' = [entries EXCEPT ![s] = [entries[s] EXCEPT ![a] = after]] /\ EntryTyped(after, clock)
        <3>1. PICK map : map = [entries[s] EXCEPT ![a] = after]
            OBVIOUS
        <3>2. /\ DOMAIN map = DOMAIN entries[s] /\ map[a] = after /\ after.lastSeen = entry.lastSeen
              /\ \A b \in DOMAIN map \ {a} : map[b] = entries[s][b]
            BY <1>2, <1>3, <3>1
        <3>3. ShardOK(entries[s], nextExpiryCheck[s], s, clock)
            BY <1>3 DEF IRegistry, ShardsInv
        <3>4. ShardOK(map, nextExpiryCheck[s], s, clock)
            BY <1>1, <2>2, <3>2, <3>3 DEF ShardOK
        <3>5. /\ entries' = [entries EXCEPT ![s] = map]
              /\ nextExpiryCheck' = [nextExpiryCheck EXCEPT ![s] = nextExpiryCheck[s]]
            BY <1>3, <2>2, <3>1 DEF IRegistry, ShardsInv
        <3>6. /\ ShardsInv' /\ entries'[s] = map
              /\ \A other \in Shards \ {s} : entries'[other] = entries[other]
            BY <1>3, <3>4, <3>5, ShardReplaced DEF IRegistry
        <3> QED BY <1>1, <3>2, <3>6
    <2> QED BY <1>3, <2>1, <2>2
<1>6. InUse'
    <2>1. \A q \in Requests : req'[q].pc = "allow" => req'[q] = req[q] /\ ShardOf[req[q].addr] \in Shards
        BY <1>3, AnsweredKeepsCalls, IPLimiterAssumption DEF IRegistry, Calls
    <2> QED BY <1>5, <2>1 DEF IRegistry, InUse
<1> QED BY <1>4, <1>5, <1>6 DEF IRegistry

\* A request that asks a fallback bucket of its shard.
LEMMA SharedGrants ==
    ASSUME IRegistry, NEW r \in Requests, AllowShared(r)
    PROVE  LET a == req[r].addr
               s == ShardOf[a]
               b == FallbackIndexOf[a]
               now == req[r].now
               bucket == fallback[s][b]
           IN  /\ a \in Addresses /\ s \in Shards /\ b \in FallbackLimiters
               /\ now \in Nat /\ bucket \in Buckets /\ bucket.last <= clock
               /\ req' = [req EXCEPT ![r] = Idle]
               /\ UNCHANGED <<clock, entries, nextExpiryCheck, cleanupCursor, sweep, nextSweep>>
               /\ \/ fallback' = fallback /\ meter' = meter
                  \/ /\ Allows(bucket, now)
                     /\ fallback' = [fallback EXCEPT ![s][b] = AfterGrant(bucket, now)]
                     /\ meter' = [meter EXCEPT ![a] = @ + Minute]
                     /\ AfterGrant(bucket, now) \in Buckets /\ AfterGrant(bucket, now).last <= clock
<1>1. PICK a, s, b, now, bucket : /\ a = req[r].addr /\ s = ShardOf[a] /\ b = FallbackIndexOf[a]
                                  /\ now = req[r].now /\ bucket = fallback[s][b]
    OBVIOUS
<1>2. /\ req[r].pc = "allow" /\ req' = [req EXCEPT ![r] = Idle]
      /\ UNCHANGED <<clock, entries, nextExpiryCheck, cleanupCursor, sweep, nextSweep>>
      /\ \/ fallback' = fallback /\ meter' = meter
         \/ /\ Allows(bucket, now)
            /\ fallback' = [fallback EXCEPT ![s][b] = AfterGrant(bucket, now)]
            /\ meter' = [meter EXCEPT ![a] = @ + Minute]
    BY <1>1 DEF AllowShared, Granted
<1>3. /\ a \in Addresses /\ s \in Shards /\ b \in FallbackLimiters
      /\ now \in Nat /\ now <= clock /\ clock \in Nat
    BY <1>1, <1>2, IPLimiterAssumption DEF IRegistry, Calls, Times
<1>4. bucket \in Buckets /\ bucket.last <= clock
    BY <1>1, <1>3 DEF IRegistry, SharedInv
<1>5. Allows(bucket, now) => AfterGrant(bucket, now) \in Buckets /\ AfterGrant(bucket, now).last <= clock
    BY <1>3, <1>4, GrantTakes
<1> QED BY <1>1, <1>2, <1>3, <1>4, <1>5

LEMMA SharedKeeps ==
    ASSUME IRegistry, UNCHANGED maxLag, NEW r \in Requests, AllowShared(r)
    PROVE  IRegistry'
<1>1. PICK a, s, b : a = req[r].addr /\ s = ShardOf[a] /\ b = FallbackIndexOf[a]
    OBVIOUS
<1>2. PICK after : after = AfterGrant(fallback[s][b], req[r].now)
    OBVIOUS
<1>3. /\ s \in Shards /\ b \in FallbackLimiters
      /\ req' = [req EXCEPT ![r] = Idle]
      /\ UNCHANGED <<clock, entries, nextExpiryCheck, cleanupCursor, sweep, nextSweep>>
      /\ \/ fallback' = fallback
         \/ fallback' = [fallback EXCEPT ![s][b] = after] /\ after \in Buckets /\ after.last <= clock
    BY <1>1, <1>2, SharedGrants
<1>4. Times' /\ ShardsInv' /\ Calls'
    BY <1>3, AnsweredKeepsCalls DEF IRegistry, Times, ShardsInv
<1>5. SharedInv'
    BY <1>3 DEF IRegistry, SharedInv
<1>6. InUse'
    BY <1>3, AnsweredKeepsCalls DEF IRegistry, InUse
<1> QED BY <1>4, <1>5, <1>6 DEF IRegistry

\* cleanupShard: the entries that leave have expired, so nobody in flight uses them.
LEMMA SweepShardKeeps ==
    ASSUME IRegistry, UNCHANGED maxLag, SweepShard
    PROVE  /\ IRegistry'
           /\ Left(entries'[cleanupCursor], entries[cleanupCursor], {}, clock)
           /\ \A a \in DOMAIN entries'[cleanupCursor] : ~Expired(entries'[cleanupCursor][a].lastSeen, clock)
           /\ \A other \in Shards \ {cleanupCursor} : entries'[other] = entries[other]
           /\ sweep.left > 0 /\ cleanupCursor' = NextCursor /\ sweep'.left = sweep.left - 1
<1>1. PICK s, left : s = cleanupCursor /\ left = Unexpired(entries[s], clock)
    OBVIOUS
<1>2. /\ s \in Shards /\ sweep.left \in 1..CleanupShardBatchSize /\ sweep.now = clock /\ clock \in Nat
      /\ sweep \in [left : 0..CleanupShardBatchSize, now : Nat] /\ maxLag \in Nat
    BY <1>1, IPLimiterAssumption DEF SweepShard, IRegistry, Times
<1>3. PICK next \in NextAfterCleanup(left) :
         /\ entries' = [entries EXCEPT ![s] = left]
         /\ nextExpiryCheck' = [nextExpiryCheck EXCEPT ![s] = next]
    BY <1>1, <1>2 DEF SweepShard
<1>4. /\ cleanupCursor' = NextCursor /\ sweep' = [sweep EXCEPT !.left = @ - 1]
      /\ UNCHANGED <<clock, fallback, nextSweep, req, meter>>
    BY DEF SweepShard
<1>5. ShardOK(entries[s], nextExpiryCheck[s], s, clock)
    BY <1>2 DEF IRegistry, ShardsInv
<1>6. /\ ShardOK(left, next, s, clock) /\ Left(left, entries[s], {}, clock)
      /\ \A a \in DOMAIN left : ~Expired(left[a].lastSeen, clock)
    BY <1>1, <1>2, <1>5, SweptShard
<1>7. ShardsInv' /\ entries'[s] = left /\ \A other \in Shards \ {s} : entries'[other] = entries[other]
    BY <1>2, <1>3, <1>4, <1>6, ShardReplaced DEF IRegistry
<1>8. sweep' \in [left : 0..CleanupShardBatchSize, now : Nat] /\ sweep'.left = sweep.left - 1 /\ sweep'.now = clock
    <2>1. PICK rest : rest = sweep.left - 1
        OBVIOUS
    <2>2. rest \in 0..CleanupShardBatchSize
        BY <1>2, <2>1, IPLimiterAssumption
    <2>3. sweep' = [sweep EXCEPT !.left = rest]
        BY <1>4, <2>1
    <2> QED BY <1>2, <2>1, <2>2, <2>3
<1>9. Times'
    BY <1>1, <1>2, <1>4, <1>8, CursorGoesRound DEF IRegistry, Times
<1>10. Calls' /\ SharedInv'
    BY <1>4 DEF IRegistry, Calls, SharedInv
<1>11. ASSUME NEW q \in Requests, req[q].pc = "allow", req[q].via = "entry"
       PROVE  LET a == req[q].addr IN
              a \in DOMAIN entries'[ShardOf[a]] /\ req[q].now <= entries'[ShardOf[a]][a].lastSeen + maxLag
    <2>1. PICK a : a = req[q].addr
        OBVIOUS
    <2>2. /\ a \in DOMAIN entries[ShardOf[a]] /\ ~Expired(entries[ShardOf[a]][a].lastSeen, clock)
          /\ req[q].now <= entries[ShardOf[a]][a].lastSeen + maxLag /\ ShardOf[a] \in Shards
        BY <1>2, <1>11, <2>1, UsedIsYoung, IPLimiterAssumption DEF IRegistry, InUse, Calls
    <2>3. CASE ShardOf[a] = s
        <3>1. a \in DOMAIN left /\ left[a] = entries[s][a]
            BY <1>6, <2>2, <2>3 DEF Left
        <3> QED BY <1>7, <2>1, <2>2, <2>3, <3>1
    <2> QED BY <1>7, <2>1, <2>2, <2>3
<1>12. InUse'
    BY <1>4, <1>11 DEF InUse
<1> QED BY <1>1, <1>2, <1>4, <1>6, <1>7, <1>8, <1>9, <1>10, <1>12 DEF IRegistry

\* Arrivals, the start of a sweep and the passing of time leave the shards alone.
LEMMA OthersKeep ==
    ASSUME IRegistry, UNCHANGED maxLag,
           (\E r \in Requests : Arrive(r)) \/ SweepStart \/ Tick \/ UNCHANGED ipVars
    PROVE  IRegistry'
<1>0. maxLag \in Nat /\ clock \in Nat \ {0} /\ CleanupInterval \in Nat \ {0}
    BY IPLimiterAssumption DEF IRegistry, Times
<1>1. ASSUME NEW r \in Requests, Arrive(r) PROVE IRegistry'
    <2>1. PICK a \in Addresses : req' = [req EXCEPT ![r] = [pc |-> "lock", addr |-> a, now |-> clock]]
        BY <1>1 DEF Arrive
    <2>2. UNCHANGED <<clock, entries, fallback, nextExpiryCheck, cleanupCursor, sweep, nextSweep, meter>>
        BY <1>1 DEF Arrive
    <2>3. Calls' /\ InUse'
        BY <1>0, <2>1, <2>2 DEF IRegistry, Calls, InUse
    <2> QED BY <2>2, <2>3 DEF IRegistry, Times, ShardsInv, SharedInv
<1>2. CASE SweepStart
    <2>1. /\ clock >= nextSweep /\ sweep' = [left |-> CleanupShardBatchSize, now |-> clock]
          /\ nextSweep' = nextSweep + CleanupInterval
          /\ UNCHANGED <<clock, entries, fallback, nextExpiryCheck, cleanupCursor, req, meter>>
        BY <1>2 DEF SweepStart
    <2>2. Times'
        BY <1>0, <2>1, IPLimiterAssumption DEF IRegistry, Times
    <2> QED BY <2>1, <2>2 DEF IRegistry, ShardsInv, SharedInv, Calls, InUse
<1>3. CASE Tick
    <2>1. /\ clock < MaxTime /\ sweep.left = 0 /\ clock < nextSweep
          /\ \A r \in Requests : req[r].pc # "idle" => clock < req[r].now + maxLag
          /\ clock' = clock + 1
          /\ UNCHANGED <<entries, fallback, nextExpiryCheck, cleanupCursor, sweep, nextSweep, req>>
        BY <1>3 DEF Tick
    <2>2. Times'
        BY <1>0, <2>1, IPLimiterAssumption DEF IRegistry, Times
    <2>3. Calls' /\ InUse'
        BY <1>0, <2>1 DEF IRegistry, Calls, InUse
    <2>4. ShardsInv'
        <3>1. \A s \in Shards : ShardOK(entries[s], nextExpiryCheck[s], s, clock)
            BY DEF IRegistry, ShardsInv
        <3>2. ASSUME NEW entry, EntryTyped(entry, clock) PROVE EntryTyped(entry, clock + 1)
            BY <1>0, <3>2 DEF EntryTyped, Buckets, Bucket
        <3>3. \A s \in Shards : ShardOK(entries[s], nextExpiryCheck[s], s, clock + 1)
            BY <3>1, <3>2 DEF ShardOK
        <3> QED BY <2>1, <3>3 DEF IRegistry, ShardsInv
    <2>5. SharedInv'
        BY <1>0, <2>1 DEF IRegistry, SharedInv, Buckets, Bucket
    <2> QED BY <2>2, <2>3, <2>4, <2>5 DEF IRegistry
<1>4. CASE UNCHANGED ipVars
    BY <1>4 DEF ipVars, IRegistry, Times, Calls, ShardsInv, SharedInv, InUse
<1> QED BY <1>1, <1>2, <1>3, <1>4

LEMMA RegistryInit == IPLimiterInit => IRegistry
<1> SUFFICES ASSUME IPLimiterInit PROVE IRegistry
    OBVIOUS
<1>0. 0 \in Shards /\ CleanupInterval \in Nat \ {0} /\ CleanupShardBatchSize \in Nat
    BY IPLimiterAssumption DEF Shards
<1>1. Times
    <2>1. 0 \in 0..CleanupShardBatchSize
        BY <1>0
    <2> QED BY <1>0, <2>1, IPLimiterAssumption DEF IPLimiterInit, Times
<1>2. Calls /\ InUse
    BY DEF IPLimiterInit, Calls, InUse, Idle
<1>3. ShardsInv
    <2>1. PICK none : none = [a \in {} |-> Idle]
        OBVIOUS
    <2>2. ASSUME NEW s \in Shards PROVE ShardOK(none, 0, s, clock)
        <3>1. DOMAIN none = {} /\ Cardinality({}) = 0
            BY <2>1, FS_EmptySet
        <3> QED BY <3>1, Numbers DEF ShardOK
    <2>3. entries = [s \in Shards |-> none] /\ nextExpiryCheck = [s \in Shards |-> 0]
        BY <2>1 DEF IPLimiterInit
    <2> QED BY <2>2, <2>3 DEF ShardsInv
<1>4. SharedInv
    <2>1. NewTokenBucket(0) \in Buckets /\ NewTokenBucket(0).last = 0 /\ clock = 1
        BY NewIsFull DEF IPLimiterInit
    <2>2. fallback = [s \in Shards |-> [b \in FallbackLimiters |-> NewTokenBucket(0)]]
        BY DEF IPLimiterInit
    <2> QED BY <2>1, <2>2 DEF SharedInv
<1> QED BY <1>1, <1>2, <1>3, <1>4 DEF IRegistry

LEMMA RegistryNext == ASSUME IRegistry, [IPLimiterNext]_ipVars PROVE IRegistry'
<1>1. UNCHANGED maxLag
    BY DEF IPLimiterNext, ipVars
<1>2. ASSUME NEW r \in Requests, AllowAtHit(r) \/ AllowAtAdmit(r) \/ AllowAtFallback(r) PROVE IRegistry'
    <2>1. /\ req[r].pc = "lock"
          /\ \E map, next : \E via \in {"entry", "fallback"} : Served(r, map, next, via)
        BY <1>2, AllowAtServes DEF IRegistry
    <2> QED BY <1>1, <2>1, AllowAtKeeps
<1>3. ASSUME NEW r \in Requests, AllowDedicated(r) \/ AllowShared(r) PROVE IRegistry'
    BY <1>1, <1>3, DedicatedKeeps, SharedKeeps
<1>4. CASE SweepShard
    BY <1>1, <1>4, SweepShardKeeps
<1>5. CASE (\E r \in Requests : Arrive(r)) \/ SweepStart \/ Tick \/ UNCHANGED ipVars
    BY <1>1, <1>5, OthersKeep
<1> QED BY <1>2, <1>3, <1>4, <1>5 DEF IPLimiterNext, IPLimiterStep

-----------------------------------------------------------------------------
\* For every number of addresses, shards, places and requests and every delay: a client
\* is sent to a fallback bucket only when entries that are not idle for longer than the
\* TTL fill its shard, so nextExpiryCheck never hides a place (ip_limiter.go, lines
\* 164-187).
THEOREM ShardFallbackIsLastResort == IPLimiterSpec => ShardFallbackOnlyWhenFull
<1> DEFINE LastResort ==
      \A r \in Requests :
          (req[r].pc = "lock" /\ req'[r].pc = "allow" /\ req'[r].via = "fallback") =>
              LET map == entries'[ShardOf[req[r].addr]]
              IN  /\ Cardinality(DOMAIN map) = MaximumEntries
                  /\ \A a \in DOMAIN map : map[a].lastSeen + EntryIdleTTL >= req[r].now
<1>1. IRegistry /\ [IPLimiterNext]_ipVars => [LastResort]_ipVars
    <2> SUFFICES ASSUME IRegistry, IPLimiterNext, NEW r \in Requests,
                        req[r].pc = "lock", req'[r].pc = "allow", req'[r].via = "fallback"
                 PROVE  LET map == entries'[ShardOf[req[r].addr]]
                        IN  /\ Cardinality(DOMAIN map) = MaximumEntries
                            /\ \A a \in DOMAIN map : map[a].lastSeen + EntryIdleTTL >= req[r].now
        OBVIOUS
    <2>0. DOMAIN req = Requests
        BY DEF IRegistry, Calls
    <2>1. PICK q \in Requests : AllowAtHit(q) \/ AllowAtAdmit(q) \/ AllowAtFallback(q)
        <3>1. ASSUME NEW q \in Requests, Arrive(q) PROVE FALSE
            BY <2>0, <3>1 DEF Arrive
        <3>2. ASSUME NEW q \in Requests, AllowDedicated(q) \/ AllowShared(q) PROVE FALSE
            BY <2>0, <3>2 DEF AllowDedicated, AllowShared, Idle
        <3>3. ~SweepStart /\ ~SweepShard /\ ~Tick
            BY DEF SweepStart, SweepShard, Tick
        <3> QED BY <3>1, <3>2, <3>3 DEF IPLimiterNext, IPLimiterStep
    <2>2. PICK map, next : \E via \in {"entry", "fallback"} : Served(q, map, next, via)
        BY <2>1, AllowAtServes DEF IRegistry
    <2>3. PICK via \in {"entry", "fallback"} : Served(q, map, next, via)
        BY <2>2
    <2>4. q = r /\ via = "fallback"
        BY <2>0, <2>3 DEF Served, Found
    <2>5. PICK a, s, now : a = req[r].addr /\ s = ShardOf[a] /\ now = req[r].now
        OBVIOUS
    <2>6. /\ s \in Shards /\ now \in Nat /\ ShardOK(map, next, s, clock)
          /\ Cardinality(DOMAIN map) = MaximumEntries
          /\ \A b \in DOMAIN map : ~Expired(map[b].lastSeen, now)
          /\ entries' = [entries EXCEPT ![s] = map]
        BY <2>3, <2>4, <2>5, IPLimiterAssumption DEF Served, IRegistry, Calls
    <2>7. entries'[s] = map
        BY <2>6 DEF IRegistry, ShardsInv
    <2>8. ASSUME NEW b \in DOMAIN map PROVE map[b].lastSeen + EntryIdleTTL >= now
        <3>1. map[b].lastSeen \in Nat /\ EntryIdleTTL \in Nat
            BY <2>6, <2>8, Numbers DEF ShardOK, EntryTyped
        <3> QED BY <2>6, <2>8, <3>1 DEF Expired
    <2> QED BY <2>5, <2>6, <2>7, <2>8
<1>2. IPLimiterSpec => []IRegistry
    BY RegistryInit, RegistryNext, PTL DEF IPLimiterSpec
<1> QED BY <1>1, <1>2, PTL DEF IPLimiterSpec, ShardFallbackOnlyWhenFull

-----------------------------------------------------------------------------
(* Idle entries leave.  A shard is cleaned within the sweeps that the       *)
(* round robin needs to reach it, and an entry in it was alive when it was  *)
(* cleaned before, which is at most Rounds sweeps earlier.                  *)

\* The shards that are cleaned before s when the cursor stands at c.
Ahead(s, c) == IF s >= c THEN s - c ELSE s + ShardCount - c

\* The time by which an entry seen at some time is gone covers the next cleaning of its
\* shard: now, if the running sweep still reaches it over the shards ahead of it, and
\* otherwise in the sweep after those that these shards fill.
DueBy(ahead, left, t, next, seen) ==
    /\ t <= seen + EntryIdleTTL + Rounds * CleanupInterval
    /\ \A k \in Nat : k * CleanupShardBatchSize + left <= ahead =>
          next + k * CleanupInterval <= seen + EntryIdleTTL + Rounds * CleanupInterval

Due == \A s \in Shards : \A a \in DOMAIN entries[s] :
          DueBy(Ahead(s, cleanupCursor), sweep.left, clock, nextSweep, entries[s][a].lastSeen)

LEMMA AheadIsShort ==
    ASSUME NEW s \in Shards, NEW c \in Shards
    PROVE  Ahead(s, c) \in Nat /\ Ahead(s, c) < ShardCount
BY IPLimiterAssumption DEF Shards, Ahead

\* What is ahead of a shard fits in the sweeps of a round.
LEMMA AheadInRound ==
    ASSUME NEW ahead \in Nat, ahead < ShardCount,
           NEW k \in Nat, NEW left \in Nat, k * CleanupShardBatchSize + left <= ahead
    PROVE  (k + 1) * CleanupInterval <= Rounds * CleanupInterval
<1>1. /\ ShardCount \in Nat /\ CleanupShardBatchSize \in Nat \ {0} /\ CleanupInterval \in Nat
      /\ Rounds \in Nat /\ ShardCount <= Rounds * CleanupShardBatchSize
    BY IPLimiterAssumption, RoundReachesAll
<1>2. k * CleanupShardBatchSize \in Nat /\ Rounds * CleanupShardBatchSize \in Nat
    BY <1>1
<1>3. k * CleanupShardBatchSize < Rounds * CleanupShardBatchSize
    BY <1>1, <1>2
<1>4. k < Rounds
    <2>1. ASSUME Rounds <= k PROVE Rounds * CleanupShardBatchSize <= k * CleanupShardBatchSize
        BY <1>1, <2>1
    <2> QED BY <1>1, <1>2, <1>3, <2>1
<1> QED BY <1>1, <1>4

\* An entry that is alive is gone in time, wherever the round robin stands.
LEMMA AliveIsDue ==
    ASSUME NEW ahead \in Nat, ahead < ShardCount, NEW left \in Nat, NEW t \in Nat,
           NEW next \in Nat, next <= t + CleanupInterval, NEW seen \in Nat, t <= seen + EntryIdleTTL
    PROVE  DueBy(ahead, left, t, next, seen)
<1>1. /\ EntryIdleTTL \in Nat /\ CleanupInterval \in Nat /\ Rounds \in Nat
      /\ Rounds * CleanupInterval \in Nat
    BY IPLimiterAssumption, RoundReachesAll
<1>2. ASSUME NEW k \in Nat, k * CleanupShardBatchSize + left <= ahead
      PROVE  next + k * CleanupInterval <= seen + EntryIdleTTL + Rounds * CleanupInterval
    <2>1. (k + 1) * CleanupInterval <= Rounds * CleanupInterval
        BY <1>2, AheadInRound
    <2>2. (k + 1) * CleanupInterval = k * CleanupInterval + CleanupInterval /\ k * CleanupInterval \in Nat
        BY <1>1
    <2> QED BY <1>1, <2>1, <2>2
<1> QED BY <1>1, <1>2 DEF DueBy

\* A request gives its entry a time that is not too old for that.
LEMMA AllowAtDue ==
    ASSUME IRegistry, Due, NEW r \in Requests, req[r].pc = "lock",
           NEW map, NEW next, NEW via \in {"entry", "fallback"}, Served(r, map, next, via)
    PROVE  Due'
<1>1. PICK a, s, now : a = req[r].addr /\ s = ShardOf[a] /\ now = req[r].now
    OBVIOUS
<1>2. /\ s \in Shards /\ clock \in Nat /\ maxLag \in Nat /\ now \in Nat
      /\ clock <= now + maxLag /\ 2 * maxLag < EntryIdleTTL /\ EntryIdleTTL \in Nat
    BY <1>1, IPLimiterAssumption DEF IRegistry, Times, Calls
<1>3. /\ entries' = [entries EXCEPT ![s] = map]
      /\ UNCHANGED <<clock, cleanupCursor, sweep, nextSweep>>
      /\ Left(map, entries[s], {a}, now)
      /\ via = "entry" => map[a].lastSeen = now
      /\ via = "fallback" => a \notin DOMAIN map
    BY <1>1 DEF Served
<1>4. DueBy(Ahead(s, cleanupCursor), sweep.left, clock, nextSweep, now)
    <2>1. clock <= now + EntryIdleTTL
        BY <1>2
    <2>2. /\ Ahead(s, cleanupCursor) \in Nat /\ Ahead(s, cleanupCursor) < ShardCount
          /\ sweep.left \in Nat /\ nextSweep \in Nat /\ nextSweep <= clock + CleanupInterval
        BY <1>2, AheadIsShort, IPLimiterAssumption DEF IRegistry, Times
    <2> QED BY <1>2, <2>1, <2>2, AliveIsDue
<1>5. \A b \in DOMAIN map : DueBy(Ahead(s, cleanupCursor), sweep.left, clock, nextSweep, map[b].lastSeen)
    BY <1>2, <1>3, <1>4 DEF Left, Due
<1>6. \A t \in Shards : \A b \in DOMAIN entries'[t] :
         DueBy(Ahead(t, cleanupCursor), sweep.left, clock, nextSweep, entries'[t][b].lastSeen)
    BY <1>2, <1>3, <1>5 DEF Due, IRegistry, ShardsInv
<1> QED BY <1>3, <1>6 DEF Due

\* The sweep moves on by one shard, and so does everything ahead of the others.
LEMMA SweepShardDue ==
    ASSUME IRegistry, Due, UNCHANGED maxLag, SweepShard
    PROVE  Due'
<1>1. PICK c, left : c = cleanupCursor /\ left = sweep.left
    OBVIOUS
<1>2. /\ c \in Shards /\ left \in Nat \ {0} /\ clock \in Nat /\ ShardCount \in Nat \ {0}
      /\ nextSweep \in Nat /\ nextSweep <= clock + CleanupInterval
    BY <1>1, IPLimiterAssumption DEF SweepShard, IRegistry, Times
<1>3. /\ Left(entries'[c], entries[c], {}, clock)
      /\ \A a \in DOMAIN entries'[c] : ~Expired(entries'[c][a].lastSeen, clock)
      /\ \A other \in Shards \ {c} : entries'[other] = entries[other]
      /\ sweep'.left = left - 1 /\ cleanupCursor' = NextCursor
      /\ UNCHANGED <<clock, nextSweep>>
      /\ NextCursor \in Shards /\ ShardsInv'
    BY <1>1, <1>2, SweepShardKeeps, CursorGoesRound DEF IRegistry, SweepShard
<1>4. NextCursor = IF c + 1 = ShardCount THEN 0 ELSE c + 1
    BY <1>1, <1>2, CursorGoesRound
<1>5. ASSUME NEW s \in Shards \ {c}, NEW a \in DOMAIN entries'[s]
      PROVE  DueBy(Ahead(s, NextCursor), left - 1, clock, nextSweep, entries'[s][a].lastSeen)
    <2>1. PICK seen : seen = entries[s][a].lastSeen
        OBVIOUS
    <2>2. DueBy(Ahead(s, c), left, clock, nextSweep, seen) /\ entries'[s][a].lastSeen = seen
        BY <1>1, <1>3, <2>1 DEF Due
    <2>3. Ahead(s, NextCursor) = Ahead(s, c) - 1 /\ Ahead(s, c) \in Nat
        BY <1>2, <1>4 DEF Ahead, Shards
    <2>4. ASSUME NEW k \in Nat, k * CleanupShardBatchSize + (left - 1) <= Ahead(s, NextCursor)
          PROVE  k * CleanupShardBatchSize + left <= Ahead(s, c)
        <3>1. k * CleanupShardBatchSize \in Nat
            BY IPLimiterAssumption
        <3> QED BY <1>2, <2>3, <2>4, <3>1
    <2> QED BY <2>2, <2>4 DEF DueBy
<1>6. ASSUME NEW a \in DOMAIN entries'[c]
      PROVE  DueBy(Ahead(c, NextCursor), left - 1, clock, nextSweep, entries'[c][a].lastSeen)
    <2>1. PICK seen : seen = entries'[c][a].lastSeen
        OBVIOUS
    <2>2. seen \in Nat /\ ~Expired(seen, clock)
        BY <1>2, <1>3, <1>6, <2>1 DEF ShardsInv, ShardOK, EntryTyped
    <2>3. clock <= seen + EntryIdleTTL
        BY <1>2, <2>2, Numbers DEF Expired
    <2>4. Ahead(c, NextCursor) \in Nat /\ Ahead(c, NextCursor) < ShardCount
        BY <1>2, <1>3, AheadIsShort
    <2>5. left - 1 \in Nat
        BY <1>2
    <2> QED BY <1>2, <2>1, <2>2, <2>3, <2>4, <2>5, AliveIsDue
<1> QED BY <1>3, <1>5, <1>6 DEF Due

\* The ticker fires: what one more sweep has to reach is one sweep closer.
LEMMA SweepStartDue ==
    ASSUME IRegistry, Due, SweepStart
    PROVE  Due'
<1>1. /\ sweep.left = 0 /\ sweep'.left = CleanupShardBatchSize
      /\ nextSweep' = nextSweep + CleanupInterval /\ UNCHANGED <<clock, entries, cleanupCursor>>
    BY DEF SweepStart
<1>2. /\ nextSweep \in Nat /\ CleanupInterval \in Nat /\ CleanupShardBatchSize \in Nat
      /\ cleanupCursor \in Shards
    BY IPLimiterAssumption DEF IRegistry, Times
<1>3. ASSUME NEW s \in Shards, NEW a \in DOMAIN entries[s]
      PROVE  DueBy(Ahead(s, cleanupCursor), CleanupShardBatchSize, clock, nextSweep + CleanupInterval,
                   entries[s][a].lastSeen)
    <2>1. PICK ahead, last : /\ ahead = Ahead(s, cleanupCursor)
                             /\ last = entries[s][a].lastSeen + EntryIdleTTL + Rounds * CleanupInterval
        OBVIOUS
    <2>2. DueBy(ahead, 0, clock, nextSweep, entries[s][a].lastSeen)
        BY <1>1, <2>1 DEF Due
    <2>3. ahead \in Nat
        BY <1>2, <2>1, AheadIsShort
    <2>4. /\ clock <= last
          /\ \A k \in Nat : k * CleanupShardBatchSize + 0 <= ahead => nextSweep + k * CleanupInterval <= last
        BY <2>1, <2>2 DEF DueBy
    <2>5. ASSUME NEW k \in Nat, k * CleanupShardBatchSize + CleanupShardBatchSize <= ahead
          PROVE  nextSweep + CleanupInterval + k * CleanupInterval <= last
        <3>1. /\ (k + 1) * CleanupShardBatchSize = k * CleanupShardBatchSize + CleanupShardBatchSize
              /\ (k + 1) * CleanupInterval = k * CleanupInterval + CleanupInterval
              /\ (k + 1) * CleanupShardBatchSize \in Nat /\ k * CleanupInterval \in Nat /\ k + 1 \in Nat
            BY <1>2
        <3>2. (k + 1) * CleanupShardBatchSize + 0 <= ahead
            BY <2>3, <2>5, <3>1
        <3>3. nextSweep + (k + 1) * CleanupInterval <= last
            BY <2>4, <3>1, <3>2
        <3>4. nextSweep + CleanupInterval + k * CleanupInterval = nextSweep + (k + 1) * CleanupInterval
            BY <1>2, <3>1
        <3> QED BY <3>3, <3>4
    <2> QED BY <2>1, <2>4, <2>5 DEF DueBy
<1> QED BY <1>1, <1>3 DEF Due

\* Time passes, at most until the next sweep.
LEMMA TickDue ==
    ASSUME IRegistry, Due, Tick
    PROVE  Due'
<1>1. /\ sweep.left = 0 /\ clock < nextSweep /\ clock' = clock + 1
      /\ UNCHANGED <<entries, cleanupCursor, sweep, nextSweep>>
    BY DEF Tick
<1>2. nextSweep \in Nat /\ clock \in Nat /\ cleanupCursor \in Shards
    BY DEF IRegistry, Times
<1>3. ASSUME NEW s \in Shards, NEW a \in DOMAIN entries[s]
      PROVE  DueBy(Ahead(s, cleanupCursor), 0, clock + 1, nextSweep, entries[s][a].lastSeen)
    <2>1. DueBy(Ahead(s, cleanupCursor), 0, clock, nextSweep, entries[s][a].lastSeen)
        BY <1>1 DEF Due
    <2>2. nextSweep + 0 * CleanupInterval <= entries[s][a].lastSeen + EntryIdleTTL + Rounds * CleanupInterval
        <3>1. 0 * CleanupShardBatchSize + 0 <= Ahead(s, cleanupCursor)
            BY <1>2, AheadIsShort, IPLimiterAssumption
        <3> QED BY <2>1, <3>1 DEF DueBy
    <2>3. /\ entries[s][a].lastSeen \in Nat /\ EntryIdleTTL \in Nat
          /\ CleanupInterval \in Nat /\ Rounds * CleanupInterval \in Nat
        BY IPLimiterAssumption, RoundReachesAll DEF IRegistry, ShardsInv, ShardOK, EntryTyped
    <2>4. clock + 1 <= entries[s][a].lastSeen + EntryIdleTTL + Rounds * CleanupInterval
        BY <1>1, <1>2, <2>2, <2>3
    <2> QED BY <2>1, <2>4 DEF DueBy
<1> QED BY <1>1, <1>3 DEF Due

\* What leaves the times of all entries alone leaves them due.
LEMMA SameSeenDue ==
    ASSUME Due, UNCHANGED <<clock, cleanupCursor, sweep, nextSweep>>,
           \A s \in Shards : /\ DOMAIN entries'[s] = DOMAIN entries[s]
                             /\ \A a \in DOMAIN entries[s] : entries'[s][a].lastSeen = entries[s][a].lastSeen
    PROVE  Due'
BY DEF Due

LEMMA DueNext == ASSUME IRegistry, Due, [IPLimiterNext]_ipVars PROVE Due'
<1>1. ASSUME NEW r \in Requests, AllowAtHit(r) \/ AllowAtAdmit(r) \/ AllowAtFallback(r) PROVE Due'
    <2>1. /\ req[r].pc = "lock"
          /\ \E map, next : \E via \in {"entry", "fallback"} : Served(r, map, next, via)
        BY <1>1, AllowAtServes DEF IRegistry
    <2> QED BY <2>1, AllowAtDue
<1>2. ASSUME NEW r \in Requests, AllowDedicated(r) PROVE Due'
    <2>1. PICK a, s, entry : a = req[r].addr /\ s = ShardOf[a] /\ entry = entries[s][a]
        OBVIOUS
    <2>2. PICK after : after = [bucket |-> AfterGrant(entry.bucket, req[r].now), lastSeen |-> entry.lastSeen]
        OBVIOUS
    <2>3. /\ s \in Shards /\ a \in DOMAIN entries[s]
          /\ UNCHANGED <<clock, cleanupCursor, sweep, nextSweep>>
          /\ entries' = entries \/ entries' = [entries EXCEPT ![s] = [entries[s] EXCEPT ![a] = after]]
        BY <1>2, <2>1, <2>2, DedicatedGrants
    <2>4. \A t \in Shards : /\ DOMAIN entries'[t] = DOMAIN entries[t]
                            /\ \A b \in DOMAIN entries[t] : entries'[t][b].lastSeen = entries[t][b].lastSeen
        <3>1. PICK map : map = [entries[s] EXCEPT ![a] = after]
            OBVIOUS
        <3>2. /\ DOMAIN map = DOMAIN entries[s] /\ after.lastSeen = entries[s][a].lastSeen
              /\ map[a] = after /\ \A b \in DOMAIN map \ {a} : map[b] = entries[s][b]
            BY <2>1, <2>2, <2>3, <3>1
        <3>3. \A b \in DOMAIN map : map[b].lastSeen = entries[s][b].lastSeen
            BY <2>3, <3>2
        <3>4. entries' = entries \/ (entries'[s] = map /\ \A t \in Shards \ {s} : entries'[t] = entries[t])
            BY <2>3, <3>1 DEF IRegistry, ShardsInv
        <3> QED BY <3>2, <3>3, <3>4
    <2> QED BY <2>3, <2>4, SameSeenDue
<1>3. ASSUME NEW r \in Requests, AllowShared(r) \/ Arrive(r) PROVE Due'
    <2>1. UNCHANGED <<clock, entries, cleanupCursor, sweep, nextSweep>>
        BY <1>3 DEF AllowShared, Arrive
    <2> QED BY <2>1 DEF Due
<1>4. CASE SweepStart
    BY <1>4, SweepStartDue
<1>5. CASE SweepShard /\ UNCHANGED maxLag
    BY <1>5, SweepShardDue
<1>6. CASE Tick
    BY <1>6, TickDue
<1>7. CASE UNCHANGED ipVars
    BY <1>7 DEF ipVars, Due
<1> QED BY <1>1, <1>2, <1>3, <1>4, <1>5, <1>6, <1>7 DEF IPLimiterNext, IPLimiterStep

LEMMA DueInit == IPLimiterInit => Due
<1> SUFFICES ASSUME IPLimiterInit, NEW s \in Shards PROVE DOMAIN entries[s] = {}
    BY DEF Due
<1> QED BY DEF IPLimiterInit

-----------------------------------------------------------------------------
(* The rate of an address.  Without delay, what an address was granted      *)
(* beyond its rate is what its buckets lack: the bucket of its entry, and   *)
(* one burst more for the fallback bucket it used before.  An entry that is *)
(* dropped for idleness has regained both by then.                          *)

\* A meter that has drained since some time.
DrainedSince(m, seen, t) == m = 0 \/ m + (t - seen) * RequestsPerMinute <= 2 * FullBurst

\* An address with an entry has had what is missing in it, and a burst before at most.
EntryMetered(m, entry, t) ==
    /\ m + PartsAt(entry.bucket, t) <= 2 * FullBurst
    /\ DrainedSince(m, entry.lastSeen, t)

\* An address without one has had what is missing in its fallback bucket.
SharedMetered(m, shared, t) == m + PartsAt(shared, t) <= FullBurst

\* An address that got an entry while a request of it was on its way to the fallback
\* bucket.
BothMetered(m, entry, shared, t) ==
    /\ entry.lastSeen = t
    /\ m + PartsAt(entry.bucket, t) + PartsAt(shared, t) <= 2 * FullBurst

LEMMA DrainsFromNow ==
    ASSUME NEW t \in Nat, NEW m \in Nat
    PROVE  m <= 2 * FullBurst => DrainedSince(m, t, t)
<1>1. (t - t) * RequestsPerMinute = 0
    BY Numbers
<1> QED BY <1>1 DEF DrainedSince

\* What has drained for longer than the TTL is empty.
LEMMA DrainedEmpty ==
    ASSUME NEW t \in Nat, NEW seen \in Nat, Expired(seen, t), NEW m \in Nat, DrainedSince(m, seen, t)
    PROVE  m = 0
<1>1. t - seen \in Nat /\ EntryIdleTTL + 1 <= t - seen
    BY Numbers DEF Expired
<1>2. 2 * Minute <= t - seen /\ Minute \in Nat /\ RequestsPerMinute \in Nat /\ FullBurst \in Nat
    BY <1>1, Numbers, IPLimiterAssumption
<1>3. (2 * Minute) * RequestsPerMinute <= (t - seen) * RequestsPerMinute
    BY <1>1, <1>2
<1>4. (2 * Minute) * RequestsPerMinute = 2 * FullBurst
    BY <1>2 DEF FullBurst, Burst
<1>5. (t - seen) * RequestsPerMinute \in Nat
    BY <1>1, <1>2
<1> QED BY <1>2, <1>3, <1>4, <1>5 DEF DrainedSince

\* What a tick drains of a meter.
LEMMA DrainTakes ==
    ASSUME NEW m \in Nat
    PROVE  Drained(m) \in Nat /\ (Drained(m) = 0 \/ Drained(m) + RequestsPerMinute = m)
<1>1. RequestsPerMinute \in Nat
    BY Numbers
<1> QED BY <1>1 DEF Drained

\* A tick refills what it drains.
LEMMA EntryTick ==
    ASSUME NEW t \in Nat, NEW entry, EntryTyped(entry, t), NEW m \in Nat, EntryMetered(m, entry, t)
    PROVE  EntryMetered(Drained(m), entry, t + 1)
<1>1. entry.bucket \in Buckets /\ entry.bucket.last <= t /\ entry.lastSeen \in Nat /\ entry.lastSeen <= t
    BY DEF EntryTyped
<1>2. /\ PartsAt(entry.bucket, t) \in Nat /\ PartsAt(entry.bucket, t + 1) \in Nat
      /\ PartsAt(entry.bucket, t + 1) <= FullBurst
      /\ PartsAt(entry.bucket, t + 1) <= PartsAt(entry.bucket, t) + RequestsPerMinute
      /\ FullBurst \in Nat /\ RequestsPerMinute \in Nat
    BY <1>1, PartsBounded, TickRefills, Numbers
<1>3. Drained(m) + PartsAt(entry.bucket, t + 1) <= 2 * FullBurst
    BY <1>2 DEF EntryMetered, Drained
<1>4. /\ (t + 1 - entry.lastSeen) * RequestsPerMinute =
            (t - entry.lastSeen) * RequestsPerMinute + RequestsPerMinute
      /\ (t - entry.lastSeen) * RequestsPerMinute \in Nat
    BY <1>1, <1>2
<1>5. DrainedSince(Drained(m), entry.lastSeen, t + 1)
    <2>1. PICK drain \in Nat : drain = (t - entry.lastSeen) * RequestsPerMinute
        BY <1>4
    <2>2. m = 0 \/ m + drain <= 2 * FullBurst
        BY <2>1 DEF EntryMetered, DrainedSince
    <2>3. Drained(m) \in Nat /\ (Drained(m) = 0 \/ Drained(m) + RequestsPerMinute = m)
        BY DrainTakes
    <2>4. PICK left \in Nat : left = Drained(m)
        BY <2>3
    <2>5. left = 0 \/ left + (drain + RequestsPerMinute) <= 2 * FullBurst
        BY <1>2, <2>2, <2>3, <2>4
    <2>6. (t + 1 - entry.lastSeen) * RequestsPerMinute = drain + RequestsPerMinute
        BY <1>4, <2>1
    <2>7. ASSUME NEW seen \in Nat, (t + 1 - seen) * RequestsPerMinute = drain + RequestsPerMinute
          PROVE  DrainedSince(left, seen, t + 1)
        BY <1>2, <2>5, <2>7 DEF DrainedSince
    <2> QED BY <1>1, <2>4, <2>6, <2>7
<1> QED BY <1>3, <1>5 DEF EntryMetered

LEMMA SharedTick ==
    ASSUME NEW t \in Nat, NEW shared \in Buckets, shared.last <= t,
           NEW m \in Nat, SharedMetered(m, shared, t)
    PROVE  SharedMetered(Drained(m), shared, t + 1)
<1>1. /\ PartsAt(shared, t) \in Nat /\ PartsAt(shared, t + 1) \in Nat /\ PartsAt(shared, t + 1) <= FullBurst
      /\ PartsAt(shared, t + 1) <= PartsAt(shared, t) + RequestsPerMinute
      /\ FullBurst \in Nat /\ RequestsPerMinute \in Nat
    BY PartsBounded, TickRefills, Numbers
<1> QED BY <1>1 DEF SharedMetered, Drained

\* An address that comes back gains nothing.
LEMMA EntrySeen ==
    ASSUME NEW t \in Nat, NEW entry, EntryTyped(entry, t), NEW m \in Nat, EntryMetered(m, entry, t),
           NEW after, after.bucket = entry.bucket, after.lastSeen = t
    PROVE  /\ EntryMetered(m, after, t)
           /\ \A shared : BothMetered(m, entry, shared, t) => BothMetered(m, after, shared, t)
<1>1. PartsAt(entry.bucket, t) \in Nat /\ FullBurst \in Nat
    BY PartsBounded, Numbers DEF EntryTyped
<1>2. m + PartsAt(entry.bucket, t) <= 2 * FullBurst
    BY DEF EntryMetered
<1>3. m <= 2 * FullBurst
    BY <1>1, <1>2
<1> QED BY <1>2, <1>3, DrainsFromNow DEF EntryMetered, BothMetered

\* A new entry adds one burst to what the fallback bucket still lacks.
LEMMA EntryAdmitted ==
    ASSUME NEW t \in Nat, NEW shared \in Buckets, NEW m \in Nat, SharedMetered(m, shared, t),
           NEW after, after.bucket = NewTokenBucket(t), after.lastSeen = t
    PROVE  EntryMetered(m, after, t) /\ BothMetered(m, after, shared, t)
<1>1. PartsAt(shared, t) \in Nat /\ FullBurst \in Nat
    BY PartsBounded, Numbers
<1>2. PartsAt(after.bucket, t) \in Nat /\ PartsAt(after.bucket, t) <= FullBurst
    BY NewIsFull, PartsBounded
<1>3. m + PartsAt(shared, t) <= FullBurst
    BY DEF SharedMetered
<1>4. /\ m <= 2 * FullBurst /\ m + PartsAt(after.bucket, t) <= 2 * FullBurst
      /\ m + PartsAt(after.bucket, t) + PartsAt(shared, t) <= 2 * FullBurst
    BY <1>1, <1>2, <1>3
<1> QED BY <1>4, DrainsFromNow DEF EntryMetered, BothMetered

\* A grant of an entry's bucket.
LEMMA EntryGrant ==
    ASSUME NEW t \in Nat, NEW entry, EntryTyped(entry, t), entry.lastSeen = t, Allows(entry.bucket, t),
           NEW m \in Nat, EntryMetered(m, entry, t),
           NEW after, after.bucket = AfterGrant(entry.bucket, t), after.lastSeen = t
    PROVE  /\ EntryMetered(m + Minute, after, t)
           /\ \A shared \in Buckets : BothMetered(m, entry, shared, t) => BothMetered(m + Minute, after, shared, t)
<1>1. PICK parts, spent : parts = PartsAt(entry.bucket, t) /\ spent = PartsAt(after.bucket, t)
    OBVIOUS
<1>2. entry.bucket \in Buckets
    BY DEF EntryTyped
<1>3. parts \in Nat /\ spent + Minute = parts /\ after.bucket \in Buckets
    BY <1>1, <1>2, GrantTakes, PartsBounded
<1>4. spent \in Nat /\ Minute \in Nat /\ FullBurst \in Nat
    BY <1>1, <1>3, PartsBounded, Numbers
<1>5. m + parts <= 2 * FullBurst
    BY <1>1 DEF EntryMetered
<1>6. (m + Minute) + spent <= 2 * FullBurst /\ m + Minute \in Nat /\ m + Minute <= 2 * FullBurst
    BY <1>3, <1>4, <1>5
<1>7. ASSUME NEW shared \in Buckets, BothMetered(m, entry, shared, t)
      PROVE  (m + Minute) + spent + PartsAt(shared, t) <= 2 * FullBurst
    <2>1. PICK other : other = PartsAt(shared, t)
        OBVIOUS
    <2>2. other \in Nat /\ m + parts + other <= 2 * FullBurst
        BY <1>1, <1>7, <2>1, PartsBounded DEF BothMetered
    <2> QED BY <1>3, <1>4, <2>1, <2>2
<1> QED BY <1>1, <1>6, <1>7, DrainsFromNow DEF EntryMetered, BothMetered

\* A grant of a fallback bucket, to this address or to another.
LEMMA SharedGrant ==
    ASSUME NEW t \in Nat, NEW shared \in Buckets, Allows(shared, t),
           NEW after, after = AfterGrant(shared, t), NEW m \in Nat
    PROVE  /\ SharedMetered(m, shared, t) => SharedMetered(m + Minute, after, t) /\ SharedMetered(m, after, t)
           /\ \A entry : EntryTyped(entry, t) /\ BothMetered(m, entry, shared, t) =>
                 /\ EntryMetered(m + Minute, entry, t)
                 /\ BothMetered(m + Minute, entry, after, t)
                 /\ BothMetered(m, entry, after, t)
<1>1. PICK parts, spent : parts = PartsAt(shared, t) /\ spent = PartsAt(after, t)
    OBVIOUS
<1>2. parts \in Nat /\ spent + Minute = parts /\ after \in Buckets
    BY <1>1, GrantTakes, PartsBounded
<1>3. spent \in Nat /\ Minute \in Nat /\ FullBurst \in Nat
    BY <1>1, <1>2, PartsBounded, Numbers
<1>4. SharedMetered(m, shared, t) => SharedMetered(m + Minute, after, t) /\ SharedMetered(m, after, t)
    BY <1>1, <1>2, <1>3 DEF SharedMetered
<1>5. ASSUME NEW entry, EntryTyped(entry, t), BothMetered(m, entry, shared, t)
      PROVE  /\ EntryMetered(m + Minute, entry, t)
             /\ BothMetered(m + Minute, entry, after, t)
             /\ BothMetered(m, entry, after, t)
    <2>1. PICK own : own = PartsAt(entry.bucket, t)
        OBVIOUS
    <2>2. own \in Nat /\ m + own + parts <= 2 * FullBurst /\ entry.lastSeen = t
        BY <1>1, <1>5, <2>1, PartsBounded DEF BothMetered, EntryTyped
    <2>3. /\ m + Minute \in Nat /\ m + Minute <= 2 * FullBurst
          /\ (m + Minute) + own <= 2 * FullBurst
          /\ (m + Minute) + own + spent <= 2 * FullBurst
          /\ m + own + spent <= 2 * FullBurst
        BY <1>2, <1>3, <2>2
    <2> QED BY <1>1, <2>1, <2>2, <2>3, DrainsFromNow DEF EntryMetered, BothMetered
<1> QED BY <1>4, <1>5

-----------------------------------------------------------------------------
(* The meters of a run without delay.                                      *)

ShardAt(a) == entries[ShardOf[a]]
SharedOf(a) == fallback[ShardOf[a]][FallbackIndexOf[a]]

AddressMetered(a) ==
    IF a \in DOMAIN ShardAt(a) THEN EntryMetered(meter[a], ShardAt(a)[a], clock)
    ELSE SharedMetered(meter[a], SharedOf(a), clock)

\* A request on its way to its fallback bucket, and what its address may get there.
OnItsWay(r) ==
    LET a == req[r].addr IN
    a \in DOMAIN ShardAt(a) => BothMetered(meter[a], ShardAt(a)[a], SharedOf(a), clock)

Metering ==
    /\ meter \in [Addresses -> Nat]
    /\ \A a \in Addresses : AddressMetered(a)
    /\ \A r \in Requests : req[r].pc = "allow" /\ req[r].via = "fallback" => OnItsWay(r)

Metered == maxLag = 0 => Metering

\* The buckets of an address, by their types.
LEMMA BucketsOf ==
    ASSUME IRegistry, NEW a \in Addresses
    PROVE  /\ clock \in Nat
           /\ ShardOf[a] \in Shards /\ FallbackIndexOf[a] \in FallbackLimiters
           /\ SharedOf(a) \in Buckets /\ SharedOf(a).last <= clock
           /\ PartsAt(SharedOf(a), clock) \in Nat /\ PartsAt(SharedOf(a), clock) <= FullBurst
           /\ FullBurst \in Nat /\ Minute \in Nat
           /\ a \in DOMAIN ShardAt(a) =>
                 /\ EntryTyped(ShardAt(a)[a], clock)
                 /\ PartsAt(ShardAt(a)[a].bucket, clock) \in Nat
                 /\ PartsAt(ShardAt(a)[a].bucket, clock) <= FullBurst
<1>1. clock \in Nat /\ ShardOf[a] \in Shards /\ FallbackIndexOf[a] \in FallbackLimiters
    BY IPLimiterAssumption DEF IRegistry, Times
<1>2. SharedOf(a) \in Buckets /\ SharedOf(a).last <= clock
    BY <1>1 DEF IRegistry, SharedInv, SharedOf
<1>3. a \in DOMAIN ShardAt(a) => EntryTyped(ShardAt(a)[a], clock)
    BY <1>1 DEF IRegistry, ShardsInv, ShardOK, ShardAt
<1>4. a \in DOMAIN ShardAt(a) => ShardAt(a)[a].bucket \in Buckets
    BY <1>3 DEF EntryTyped
<1> QED BY <1>1, <1>2, <1>3, <1>4, PartsBounded, Numbers

\* Without delay a request's time is the present, and so is that of the entry it uses.
LEMMA Punctual ==
    ASSUME IRegistry, maxLag = 0, NEW r \in Requests, req[r].pc # "idle"
    PROVE  /\ req[r].addr \in Addresses /\ req[r].now = clock
           /\ req[r].pc = "allow" /\ req[r].via = "entry" =>
                 /\ req[r].addr \in DOMAIN ShardAt(req[r].addr)
                 /\ ShardAt(req[r].addr)[req[r].addr].lastSeen = clock
<1>1. PICK a : a = req[r].addr
    OBVIOUS
<1>2. a \in Addresses /\ req[r].now \in Nat /\ clock \in Nat /\ req[r].now <= clock /\ clock <= req[r].now + 0
    BY <1>1 DEF IRegistry, Calls, Times
<1>3. req[r].now = clock
    BY <1>2
<1>4. ASSUME req[r].pc = "allow", req[r].via = "entry"
      PROVE  a \in DOMAIN ShardAt(a) /\ ShardAt(a)[a].lastSeen = clock
    <2>1. a \in DOMAIN ShardAt(a) /\ clock <= ShardAt(a)[a].lastSeen + 0
        BY <1>1, <1>3, <1>4 DEF IRegistry, InUse, ShardAt
    <2>2. ShardAt(a)[a].lastSeen \in Nat /\ ShardAt(a)[a].lastSeen <= clock
        BY <1>2, <2>1, BucketsOf DEF EntryTyped
    <2> QED BY <1>2, <2>1, <2>2
<1> QED BY <1>1, <1>2, <1>3, <1>4

\* An address whose entry is dropped has nothing on its meter, and one that was in no
\* shard stays metered by its fallback bucket.
LEMMA LeftMeters ==
    ASSUME IRegistry, Metering, NEW s \in Shards, NEW map, NEW who,
           Left(map, entries[s], who, clock), NEW a \in Addresses \ who, ShardOf[a] = s
    PROVE  IF a \in DOMAIN map
           THEN a \in DOMAIN ShardAt(a) /\ map[a] = ShardAt(a)[a] /\ EntryMetered(meter[a], map[a], clock)
           ELSE SharedMetered(meter[a], SharedOf(a), clock)
<1>0. ShardAt(a) = entries[s] /\ AddressMetered(a) /\ meter[a] \in Nat
    BY DEF ShardAt, Metering
<1>1. CASE a \in DOMAIN map
    BY <1>0, <1>1 DEF Left, AddressMetered
<1>2. CASE a \notin DOMAIN map /\ a \notin DOMAIN entries[s]
    BY <1>0, <1>2 DEF AddressMetered
<1>3. CASE a \notin DOMAIN map /\ a \in DOMAIN entries[s]
    <2>1. /\ EntryMetered(meter[a], ShardAt(a)[a], clock) /\ Expired(ShardAt(a)[a].lastSeen, clock)
          /\ EntryTyped(ShardAt(a)[a], clock) /\ clock \in Nat
        BY <1>0, <1>3, BucketsOf DEF Left, AddressMetered
    <2>2. meter[a] = 0
        BY <1>0, <2>1, DrainedEmpty DEF EntryMetered, EntryTyped
    <2> QED BY <1>3, <2>2, BucketsOf DEF SharedMetered
<1> QED BY <1>1, <1>2, <1>3

\* allowAt unlocks the shard.
LEMMA AllowAtMeters ==
    ASSUME IRegistry, Metering, maxLag = 0, NEW r \in Requests, req[r].pc = "lock",
           NEW map, NEW next, NEW via \in {"entry", "fallback"}, Served(r, map, next, via)
    PROVE  Metering'
<1>1. PICK a, s : a = req[r].addr /\ s = ShardOf[a]
    OBVIOUS
<1>2. a \in Addresses /\ s \in Shards /\ req[r].now = clock /\ clock \in Nat
    BY <1>1, Punctual, IPLimiterAssumption DEF IRegistry, Times
<1>3. /\ entries' = [entries EXCEPT ![s] = map]
      /\ req' = [req EXCEPT ![r] = [pc |-> "allow", addr |-> a, now |-> clock, via |-> via]]
      /\ UNCHANGED <<clock, fallback, meter>>
      /\ Left(map, entries[s], {a}, clock)
      /\ via = "entry" =>
            /\ a \in DOMAIN map /\ map[a].lastSeen = clock
            /\ map[a].bucket = IF a \in DOMAIN entries[s] THEN entries[s][a].bucket ELSE NewTokenBucket(clock)
      /\ via = "fallback" => a \notin DOMAIN map /\ a \notin DOMAIN entries[s]
    BY <1>1, <1>2 DEF Served, Found
<1>4. /\ \A b \in Addresses : ShardOf[b] = s => ShardAt(b)' = map
      /\ \A b \in Addresses : ShardOf[b] # s => ShardAt(b)' = ShardAt(b)
      /\ \A b \in Addresses : SharedOf(b)' = SharedOf(b)
    BY <1>2, <1>3, IPLimiterAssumption DEF ShardAt, SharedOf, IRegistry, ShardsInv
<1>5. ASSUME NEW b \in Addresses, ShardOf[b] = s, b # a
      PROVE  IF b \in DOMAIN map
             THEN b \in DOMAIN ShardAt(b) /\ map[b] = ShardAt(b)[b] /\ EntryMetered(meter[b], map[b], clock)
             ELSE SharedMetered(meter[b], SharedOf(b), clock)
    <2>1. PICK who : who = {a}
        OBVIOUS
    <2>2. Left(map, entries[s], who, clock) /\ b \in Addresses \ who
        BY <1>3, <1>5, <2>1
    <2> QED BY <1>2, <1>5, <2>2, LeftMeters
<1>6. ASSUME via = "entry", a \in DOMAIN entries[s]
      PROVE  /\ EntryMetered(meter[a], map[a], clock)
             /\ \A shared : BothMetered(meter[a], ShardAt(a)[a], shared, clock) =>
                               BothMetered(meter[a], map[a], shared, clock)
    <2>1. PICK entry, after : entry = ShardAt(a)[a] /\ after = map[a]
        OBVIOUS
    <2>2. /\ EntryTyped(entry, clock) /\ EntryMetered(meter[a], entry, clock) /\ meter[a] \in Nat
          /\ after.bucket = entry.bucket /\ after.lastSeen = clock
        BY <1>1, <1>2, <1>3, <1>6, <2>1, BucketsOf DEF Metering, AddressMetered, ShardAt
    <2> QED BY <1>2, <2>1, <2>2, EntrySeen
<1>7. ASSUME via = "entry", a \notin DOMAIN entries[s]
      PROVE  EntryMetered(meter[a], map[a], clock) /\ BothMetered(meter[a], map[a], SharedOf(a), clock)
    <2>1. PICK shared, after : shared = SharedOf(a) /\ after = map[a]
        OBVIOUS
    <2>2. /\ shared \in Buckets /\ SharedMetered(meter[a], shared, clock) /\ meter[a] \in Nat
          /\ after.bucket = NewTokenBucket(clock) /\ after.lastSeen = clock
        BY <1>1, <1>2, <1>3, <1>7, <2>1, BucketsOf DEF Metering, AddressMetered, ShardAt
    <2> QED BY <1>2, <2>1, <2>2, EntryAdmitted
<1>8. AddressMetered(a)'
    <2>1. CASE via = "entry"
        BY <1>1, <1>2, <1>3, <1>4, <1>6, <1>7, <2>1 DEF AddressMetered
    <2>2. CASE via = "fallback"
        BY <1>1, <1>2, <1>3, <1>4, <2>2 DEF Metering, AddressMetered, ShardAt
    <2> QED BY <2>1, <2>2
<1>9. ASSUME NEW b \in Addresses PROVE AddressMetered(b)'
    <2>1. CASE ShardOf[b] # s
        BY <1>3, <1>4, <2>1 DEF Metering, AddressMetered
    <2>2. CASE ShardOf[b] = s /\ b # a
        BY <1>3, <1>4, <1>5, <2>2 DEF AddressMetered
    <2> QED BY <1>1, <1>8, <2>1, <2>2
<1>10. ASSUME NEW q \in Requests, req'[q].pc = "allow", req'[q].via = "fallback" PROVE OnItsWay(q)'
    <2>1. CASE q = r
        <3>1. req'[q].addr = a /\ via = "fallback"
            BY <1>3, <1>10, <2>1 DEF IRegistry, Calls
        <3> QED BY <1>1, <1>2, <1>3, <1>4, <3>1 DEF OnItsWay
    <2>2. CASE q # r
        <3>1. PICK b : b = req[q].addr
            OBVIOUS
        <3>2. /\ req'[q] = req[q] /\ OnItsWay(q) /\ b \in Addresses
            BY <1>3, <1>10, <2>2, <3>1 DEF IRegistry, Calls, Metering
        <3>3. b \in DOMAIN ShardAt(b) => BothMetered(meter[b], ShardAt(b)[b], SharedOf(b), clock)
            BY <3>1, <3>2 DEF OnItsWay
        <3>4. b \in DOMAIN ShardAt(b)' => BothMetered(meter[b], ShardAt(b)'[b], SharedOf(b), clock)
            <4>1. CASE ShardOf[b] # s
                BY <1>4, <3>2, <3>3, <4>1
            <4>2. CASE ShardOf[b] = s /\ b # a
                BY <1>4, <1>5, <3>2, <3>3, <4>2
            <4>3. CASE b = a /\ via = "entry"
                BY <1>1, <1>2, <1>4, <1>6, <1>7, <3>3, <4>3 DEF ShardAt
            <4>4. CASE b = a /\ via = "fallback"
                BY <1>1, <1>2, <1>3, <1>4, <4>4
            <4> QED BY <1>1, <4>1, <4>2, <4>3, <4>4
        <3> QED BY <1>3, <1>4, <3>1, <3>2, <3>4 DEF OnItsWay
    <2> QED BY <2>1, <2>2
<1> QED BY <1>3, <1>9, <1>10 DEF Metering

\* A request that asks the bucket of its entry.
LEMMA DedicatedMeters ==
    ASSUME IRegistry, Metering, maxLag = 0, UNCHANGED maxLag, NEW r \in Requests, AllowDedicated(r)
    PROVE  Metering'
<1>1. PICK a, s, entry : a = req[r].addr /\ s = ShardOf[a] /\ entry = entries[s][a]
    OBVIOUS
<1>2. PICK after : after = [bucket |-> AfterGrant(entry.bucket, clock), lastSeen |-> entry.lastSeen]
    OBVIOUS
<1>3. /\ req[r].pc = "allow" /\ req[r].via = "entry"
      /\ a \in Addresses /\ req[r].now = clock /\ entry.lastSeen = clock /\ clock \in Nat
    BY <1>1, Punctual DEF AllowDedicated, ShardAt, IRegistry, Times
<1>4. /\ s \in Shards /\ a \in DOMAIN entries[s] /\ EntryTyped(entry, clock)
      /\ req' = [req EXCEPT ![r] = Idle] /\ UNCHANGED <<clock, fallback>>
      /\ \/ entries' = entries /\ meter' = meter
         \/ /\ Allows(entry.bucket, clock)
            /\ entries' = [entries EXCEPT ![s] = [entries[s] EXCEPT ![a] = after]]
            /\ meter' = [meter EXCEPT ![a] = @ + Minute]
    BY <1>1, <1>2, <1>3, DedicatedGrants
<1>5. \A b \in Addresses : SharedOf(b)' = SharedOf(b)
    BY <1>4 DEF SharedOf
<1>6. \A q \in Requests : req'[q].pc = "allow" => req'[q] = req[q] /\ req[q].addr \in Addresses
    BY <1>4, AnsweredKeepsCalls DEF IRegistry, Calls
<1>7. CASE entries' = entries /\ meter' = meter
    BY <1>4, <1>5, <1>6, <1>7 DEF Metering, AddressMetered, OnItsWay, ShardAt
<1>8. CASE /\ Allows(entry.bucket, clock)
           /\ entries' = [entries EXCEPT ![s] = [entries[s] EXCEPT ![a] = after]]
           /\ meter' = [meter EXCEPT ![a] = @ + Minute]
    <2>1. /\ a \in DOMAIN ShardAt(a) /\ ShardAt(a)[a] = entry
          /\ EntryMetered(meter[a], entry, clock) /\ meter[a] \in Nat
        BY <1>1, <1>3, <1>4 DEF Metering, AddressMetered, ShardAt
    <2>2. /\ EntryMetered(meter[a] + Minute, after, clock)
          /\ \A shared \in Buckets : BothMetered(meter[a], entry, shared, clock) =>
                                        BothMetered(meter[a] + Minute, after, shared, clock)
        <3>1. after.bucket = AfterGrant(entry.bucket, clock) /\ after.lastSeen = clock
            BY <1>2, <1>3
        <3> QED BY <1>3, <1>4, <1>8, <2>1, <3>1, EntryGrant
    <2>3. /\ \A b \in Addresses : DOMAIN ShardAt(b)' = DOMAIN ShardAt(b)
          /\ \A b \in Addresses \ {a} : b \in DOMAIN ShardAt(b) => ShardAt(b)'[b] = ShardAt(b)[b]
          /\ ShardAt(a)'[a] = after
        <3>1. PICK map : map = [entries[s] EXCEPT ![a] = after]
            OBVIOUS
        <3>2. /\ DOMAIN map = DOMAIN entries[s] /\ map[a] = after
              /\ \A b \in DOMAIN map \ {a} : map[b] = entries[s][b]
            BY <1>4, <3>1
        <3>3. entries'[s] = map /\ \A other \in Shards \ {s} : entries'[other] = entries[other]
            BY <1>4, <1>8, <3>1 DEF IRegistry, ShardsInv
        <3>4. \A b \in Addresses : ShardOf[b] \in Shards
            BY IPLimiterAssumption
        <3> QED BY <1>1, <1>3, <3>2, <3>3, <3>4 DEF ShardAt
    <2>4. /\ meter' \in [Addresses -> Nat] /\ meter'[a] = meter[a] + Minute
          /\ \A b \in Addresses \ {a} : meter'[b] = meter[b]
        BY <1>3, <1>8, <2>1, Numbers DEF Metering
    <2>5. ASSUME NEW b \in Addresses PROVE AddressMetered(b)'
        <3>1. CASE b = a
            BY <1>4, <2>1, <2>2, <2>3, <2>4, <3>1 DEF AddressMetered
        <3>2. CASE b # a
            BY <1>4, <1>5, <2>3, <2>4, <3>2 DEF Metering, AddressMetered
        <3> QED BY <3>1, <3>2
    <2>6. ASSUME NEW q \in Requests, req'[q].pc = "allow", req'[q].via = "fallback" PROVE OnItsWay(q)'
        <3>1. PICK b : b = req[q].addr
            OBVIOUS
        <3>2. req'[q].addr = b /\ b \in Addresses /\ OnItsWay(q) /\ SharedOf(b) \in Buckets
            BY <1>6, <2>6, <3>1, BucketsOf DEF Metering
        <3>3. b \in DOMAIN ShardAt(b) => BothMetered(meter[b], ShardAt(b)[b], SharedOf(b), clock)
            BY <3>1, <3>2 DEF OnItsWay
        <3>4. b \in DOMAIN ShardAt(b)' => BothMetered(meter'[b], ShardAt(b)'[b], SharedOf(b), clock)
            <4>1. CASE b = a
                BY <2>1, <2>2, <2>3, <2>4, <3>2, <3>3, <4>1
            <4>2. CASE b # a
                BY <2>3, <2>4, <3>2, <3>3, <4>2
            <4> QED BY <4>1, <4>2
        <3> QED BY <1>4, <1>5, <3>2, <3>4 DEF OnItsWay
    <2> QED BY <2>4, <2>5, <2>6 DEF Metering
<1> QED BY <1>4, <1>7, <1>8

\* A request that asks a fallback bucket.
LEMMA SharedMeters ==
    ASSUME IRegistry, Metering, maxLag = 0, UNCHANGED maxLag, NEW r \in Requests, AllowShared(r)
    PROVE  Metering'
<1>1. PICK a, s, i, bucket, after :
         /\ a = req[r].addr /\ s = ShardOf[a] /\ i = FallbackIndexOf[a]
         /\ bucket = fallback[s][i] /\ after = AfterGrant(bucket, clock)
    OBVIOUS
<1>2. /\ req[r].pc = "allow" /\ req[r].via = "fallback" /\ req[r].now = clock /\ clock \in Nat
    BY Punctual DEF AllowShared, IRegistry, Times
<1>3. /\ a \in Addresses /\ s \in Shards /\ i \in FallbackLimiters /\ bucket \in Buckets
      /\ req' = [req EXCEPT ![r] = Idle] /\ UNCHANGED <<clock, entries>>
      /\ \/ fallback' = fallback /\ meter' = meter
         \/ /\ Allows(bucket, clock)
            /\ fallback' = [fallback EXCEPT ![s][i] = after]
            /\ meter' = [meter EXCEPT ![a] = @ + Minute]
    BY <1>1, <1>2, SharedGrants
<1>4. \A b \in Addresses : ShardAt(b)' = ShardAt(b)
    BY <1>3 DEF ShardAt
<1>5. \A q \in Requests : req'[q].pc = "allow" => req'[q] = req[q] /\ req[q].addr \in Addresses
    BY <1>3, AnsweredKeepsCalls DEF IRegistry, Calls
<1>6. CASE fallback' = fallback /\ meter' = meter
    BY <1>3, <1>4, <1>5, <1>6 DEF Metering, AddressMetered, OnItsWay, SharedOf
<1>7. CASE /\ Allows(bucket, clock)
           /\ fallback' = [fallback EXCEPT ![s][i] = after]
           /\ meter' = [meter EXCEPT ![a] = @ + Minute]
    <2>1. /\ meter' \in [Addresses -> Nat] /\ meter'[a] = meter[a] + Minute
          /\ \A b \in Addresses \ {a} : meter'[b] = meter[b]
        BY <1>3, <1>7, Numbers DEF Metering
    <2>2. /\ SharedOf(a) = bucket /\ SharedOf(a)' = after
          /\ \A b \in Addresses : \/ SharedOf(b)' = SharedOf(b) /\ b # a
                                  \/ SharedOf(b) = bucket /\ SharedOf(b)' = after
        <3>1. DOMAIN fallback = Shards /\ DOMAIN fallback[s] = FallbackLimiters
            BY <1>3 DEF IRegistry, SharedInv
        <3>2. /\ fallback'[s][i] = after
              /\ \A t \in Shards, j \in FallbackLimiters :
                    t # s \/ j # i => fallback'[t][j] = fallback[t][j]
            BY <1>3, <1>7, <3>1
        <3>3. ASSUME NEW b \in Addresses
              PROVE  /\ ShardOf[b] \in Shards /\ FallbackIndexOf[b] \in FallbackLimiters
                     /\ ShardOf[b] = s /\ FallbackIndexOf[b] = i =>
                           SharedOf(b) = bucket /\ SharedOf(b)' = after
                     /\ ShardOf[b] # s \/ FallbackIndexOf[b] # i => SharedOf(b)' = SharedOf(b)
            <4>1. ShardOf[b] \in Shards /\ FallbackIndexOf[b] \in FallbackLimiters
                BY IPLimiterAssumption
            <4> QED BY <1>1, <3>2, <4>1 DEF SharedOf
        <3> QED BY <1>1, <1>3, <3>3
    <2>3. \A m \in Nat :
             SharedMetered(m, bucket, clock) => SharedMetered(m + Minute, after, clock) /\ SharedMetered(m, after, clock)
        BY <1>1, <1>2, <1>3, <1>7, SharedGrant
    <2>4. \A m \in Nat : \A entry : EntryTyped(entry, clock) /\ BothMetered(m, entry, bucket, clock) =>
             /\ EntryMetered(m + Minute, entry, clock)
             /\ BothMetered(m + Minute, entry, after, clock)
             /\ BothMetered(m, entry, after, clock)
        BY <1>1, <1>2, <1>3, <1>7, SharedGrant
    <2>5. AddressMetered(a)'
        <3>1. CASE a \in DOMAIN ShardAt(a)
            <4>1. BothMetered(meter[a], ShardAt(a)[a], bucket, clock) /\ EntryTyped(ShardAt(a)[a], clock)
                BY <1>1, <1>2, <1>3, <2>2, <3>1, BucketsOf DEF Metering, OnItsWay
            <4>2. meter[a] \in Nat
                BY <1>3 DEF Metering
            <4> QED BY <1>3, <1>4, <2>1, <2>4, <3>1, <4>1, <4>2 DEF AddressMetered
        <3>2. CASE a \notin DOMAIN ShardAt(a)
            <4>1. SharedMetered(meter[a], bucket, clock) /\ meter[a] \in Nat
                BY <1>3, <2>2, <3>2 DEF Metering, AddressMetered
            <4> QED BY <1>3, <1>4, <2>1, <2>2, <2>3, <3>2, <4>1 DEF AddressMetered
        <3> QED BY <3>1, <3>2
    <2>6. ASSUME NEW b \in Addresses PROVE AddressMetered(b)'
        <3>1. CASE b = a
            BY <2>5, <3>1
        <3>2. CASE b # a
            <4>1. AddressMetered(b) /\ meter[b] \in Nat /\ meter'[b] = meter[b]
                BY <2>1, <3>2 DEF Metering
            <4> QED BY <1>3, <1>4, <2>2, <2>3, <4>1 DEF AddressMetered
        <3> QED BY <3>1, <3>2
    <2>7. ASSUME NEW q \in Requests, req'[q].pc = "allow", req'[q].via = "fallback" PROVE OnItsWay(q)'
        <3>1. PICK b : b = req[q].addr
            OBVIOUS
        <3>2. req'[q].addr = b /\ b \in Addresses /\ OnItsWay(q) /\ meter[b] \in Nat
            BY <1>5, <2>7, <3>1 DEF Metering
        <3>3. ASSUME b \in DOMAIN ShardAt(b)
              PROVE  BothMetered(meter'[b], ShardAt(b)[b], SharedOf(b)', clock)
            <4>1. BothMetered(meter[b], ShardAt(b)[b], SharedOf(b), clock) /\ EntryTyped(ShardAt(b)[b], clock)
                BY <3>1, <3>2, <3>3, BucketsOf DEF OnItsWay
            <4> QED BY <2>1, <2>2, <2>4, <3>2, <4>1
        <3> QED BY <1>3, <1>4, <3>2, <3>3 DEF OnItsWay
    <2> QED BY <2>1, <2>6, <2>7 DEF Metering
<1> QED BY <1>3, <1>6, <1>7

\* cleanupShard: what leaves has been refilled.
LEMMA SweepShardMeters ==
    ASSUME IRegistry, Metering, UNCHANGED maxLag, SweepShard
    PROVE  Metering'
<1>1. PICK s, map, who : s = cleanupCursor /\ map = entries'[s] /\ who = {}
    OBVIOUS
<1>2. s \in Shards /\ clock \in Nat
    BY <1>1 DEF IRegistry, Times
<1>3. /\ Left(map, entries[s], who, clock)
      /\ \A other \in Shards \ {s} : entries'[other] = entries[other]
      /\ UNCHANGED <<clock, fallback, req, meter>>
    BY <1>1, SweepShardKeeps DEF SweepShard
<1>4. /\ \A b \in Addresses : ShardOf[b] = s => ShardAt(b)' = map
      /\ \A b \in Addresses : ShardOf[b] # s => ShardAt(b)' = ShardAt(b)
      /\ \A b \in Addresses : SharedOf(b)' = SharedOf(b)
    BY <1>1, <1>2, <1>3, IPLimiterAssumption DEF ShardAt, SharedOf
<1>5. ASSUME NEW b \in Addresses, ShardOf[b] = s
      PROVE  IF b \in DOMAIN map
             THEN b \in DOMAIN ShardAt(b) /\ map[b] = ShardAt(b)[b] /\ EntryMetered(meter[b], map[b], clock)
             ELSE SharedMetered(meter[b], SharedOf(b), clock)
    <2>1. b \in Addresses \ who
        BY <1>1
    <2> QED BY <1>2, <1>3, <1>5, <2>1, LeftMeters
<1>6. ASSUME NEW b \in Addresses PROVE AddressMetered(b)'
    <2>1. CASE ShardOf[b] # s
        BY <1>3, <1>4, <2>1 DEF Metering, AddressMetered
    <2>2. CASE ShardOf[b] = s
        BY <1>3, <1>4, <1>5, <2>2 DEF AddressMetered
    <2> QED BY <2>1, <2>2
<1>7. ASSUME NEW q \in Requests, req'[q].pc = "allow", req'[q].via = "fallback" PROVE OnItsWay(q)'
    <2>1. PICK b : b = req[q].addr
        OBVIOUS
    <2>2. req'[q].addr = b /\ b \in Addresses /\ OnItsWay(q)
        BY <1>3, <1>7, <2>1 DEF Metering, IRegistry, Calls
    <2>3. CASE ShardOf[b] # s
        BY <1>3, <1>4, <2>1, <2>2, <2>3 DEF OnItsWay
    <2>4. CASE ShardOf[b] = s
        BY <1>3, <1>4, <1>5, <2>1, <2>2, <2>4 DEF OnItsWay
    <2> QED BY <2>3, <2>4
<1> QED BY <1>3, <1>6, <1>7 DEF Metering

\* Time passes with nobody in flight: a bucket refills what the meter drains.
LEMMA TickMeters ==
    ASSUME IRegistry, Metering, maxLag = 0, Tick
    PROVE  Metering'
<1>1. /\ clock' = clock + 1 /\ meter' = [a \in Addresses |-> Drained(meter[a])]
      /\ \A r \in Requests : req[r].pc # "idle" => clock < req[r].now + maxLag
      /\ UNCHANGED <<entries, fallback, req>>
    BY DEF Tick
<1>2. clock \in Nat
    BY DEF IRegistry, Times
<1>3. ASSUME NEW r \in Requests, req[r].pc # "idle" PROVE FALSE
    BY <1>1, <1>2, <1>3, Punctual
<1>4. meter' \in [Addresses -> Nat]
    BY <1>1, DrainTakes DEF Metering
<1>5. ASSUME NEW a \in Addresses PROVE AddressMetered(a)'
    <2>1. PICK m \in Nat : m = meter[a]
        BY DEF Metering
    <2>2. /\ meter'[a] = Drained(m) /\ ShardAt(a)' = ShardAt(a) /\ SharedOf(a)' = SharedOf(a)
        BY <1>1, <2>1 DEF ShardAt, SharedOf
    <2>3. CASE a \in DOMAIN ShardAt(a)
        <3>1. PICK entry : entry = ShardAt(a)[a]
            OBVIOUS
        <3>2. EntryTyped(entry, clock) /\ EntryMetered(m, entry, clock)
            BY <2>1, <2>3, <3>1, BucketsOf DEF Metering, AddressMetered
        <3>3. EntryMetered(Drained(m), entry, clock + 1)
            BY <1>2, <3>2, EntryTick
        <3> QED BY <1>1, <2>2, <2>3, <3>1, <3>3 DEF AddressMetered
    <2>4. CASE a \notin DOMAIN ShardAt(a)
        <3>1. PICK shared : shared = SharedOf(a)
            OBVIOUS
        <3>2. shared \in Buckets /\ shared.last <= clock /\ SharedMetered(m, shared, clock)
            BY <2>1, <2>4, <3>1, BucketsOf DEF Metering, AddressMetered
        <3>3. SharedMetered(Drained(m), shared, clock + 1)
            BY <1>2, <3>2, SharedTick
        <3> QED BY <1>1, <2>2, <2>4, <3>1, <3>3 DEF AddressMetered
    <2> QED BY <2>3, <2>4
<1>6. \A r \in Requests : req'[r].pc # "allow"
    BY <1>1, <1>3
<1> QED BY <1>4, <1>5, <1>6 DEF Metering

LEMMA MeteredNext == ASSUME IRegistry, Metered, [IPLimiterNext]_ipVars PROVE Metered'
<1>0. UNCHANGED maxLag
    BY DEF IPLimiterNext, ipVars
<1> SUFFICES ASSUME maxLag = 0 PROVE Metering'
    BY <1>0 DEF Metered
<1>1. Metering
    BY DEF Metered
<1>2. ASSUME NEW r \in Requests, AllowAtHit(r) \/ AllowAtAdmit(r) \/ AllowAtFallback(r) PROVE Metering'
    <2>1. /\ req[r].pc = "lock"
          /\ \E map, next : \E via \in {"entry", "fallback"} : Served(r, map, next, via)
        BY <1>2, AllowAtServes DEF IRegistry
    <2> QED BY <1>1, <2>1, AllowAtMeters
<1>3. ASSUME NEW r \in Requests, AllowDedicated(r) \/ AllowShared(r) PROVE Metering'
    BY <1>0, <1>1, <1>3, DedicatedMeters, SharedMeters
<1>4. CASE SweepShard
    BY <1>0, <1>1, <1>4, SweepShardMeters
<1>5. CASE Tick
    BY <1>1, <1>5, TickMeters
<1>6. CASE (\E r \in Requests : Arrive(r)) \/ SweepStart \/ UNCHANGED ipVars
    <2>1. UNCHANGED <<clock, entries, fallback, meter>>
        BY <1>6 DEF Arrive, SweepStart, ipVars
    <2>2. \A q \in Requests : req'[q].pc = "allow" => req'[q] = req[q]
        BY <1>6 DEF Arrive, SweepStart, ipVars, IRegistry, Calls
    <2> QED BY <1>1, <2>1, <2>2 DEF Metering, AddressMetered, OnItsWay, ShardAt, SharedOf
<1> QED BY <1>2, <1>3, <1>4, <1>5, <1>6 DEF IPLimiterNext, IPLimiterStep

LEMMA MeteredInit == IPLimiterInit => Metered
<1> SUFFICES ASSUME IPLimiterInit PROVE Metering
    BY DEF Metered
<1>1. /\ entries = [s \in Shards |-> [a \in {} |-> Idle]] /\ meter = [a \in Addresses |-> 0]
      /\ req = [r \in Requests |-> Idle]
    BY DEF IPLimiterInit
<1>2. ASSUME NEW a \in Addresses PROVE AddressMetered(a)
    <2>1. ShardOf[a] \in Shards
        BY IPLimiterAssumption
    <2>2. a \notin DOMAIN ShardAt(a) /\ meter[a] = 0
        BY <1>1, <2>1 DEF ShardAt
    <2>3. PartsAt(SharedOf(a), clock) \in Nat /\ PartsAt(SharedOf(a), clock) <= FullBurst
        BY RegistryInit, BucketsOf
    <2> QED BY <2>2, <2>3 DEF AddressMetered, SharedMetered
<1>3. \A r \in Requests : req[r].pc # "allow"
    BY <1>1 DEF Idle
<1> QED BY <1>1, <1>2, <1>3 DEF Metering

-----------------------------------------------------------------------------
\* The inductive invariant: the shards, the round robin and the meters.
IAddresses == IRegistry /\ Due /\ Metered

\* It bounds the shards, the idleness of their entries and what an address is granted.
LEMMA AddressesBounded == IAddresses => IPLimiterInv
<1> SUFFICES ASSUME IAddresses PROVE IPLimiterInv
    OBVIOUS
<1>1. clock \in Nat \ {0} /\ clock <= MaxTime /\ maxLag \in Lags /\ cleanupCursor \in Shards /\ MaxTime \in Nat
    BY IPLimiterAssumption DEF IAddresses, IRegistry, Times
<1>2. ASSUME NEW s \in Shards, NEW a \in DOMAIN entries[s]
      PROVE  /\ entries[s][a].lastSeen \in Nat \ {0} /\ entries[s][a].lastSeen <= clock
             /\ entries[s][a].bucket.parts \in Nat /\ entries[s][a].bucket.parts <= FullBurst
    <2>1. EntryTyped(entries[s][a], clock)
        BY DEF IAddresses, IRegistry, ShardsInv, ShardOK
    <2> QED BY <2>1 DEF EntryTyped, Buckets, Bucket
<1>3. IPLimiterTypeOK
    <2>1. ASSUME NEW s \in Shards
          PROVE  /\ DOMAIN entries[s] \subseteq {a \in Addresses : ShardOf[a] = s}
                 /\ Cardinality(DOMAIN entries[s]) <= MaximumEntries
                 /\ nextExpiryCheck[s] \in Nat
        BY DEF IAddresses, IRegistry, ShardsInv, ShardOK
    <2>2. ASSUME NEW s \in Shards, NEW a \in DOMAIN entries[s]
          PROVE  /\ entries[s][a].lastSeen \in 1..MaxTime
                 /\ entries[s][a].bucket.parts \in 0..Burst(RequestsPerMinute)
        <3>1. FullBurst \in Nat /\ FullBurst = Burst(RequestsPerMinute)
            BY Numbers DEF FullBurst
        <3> QED BY <1>1, <1>2, <3>1
    <2> QED BY <1>1, <2>1, <2>2 DEF IPLimiterTypeOK
<1>4. IdleEntriesLeave
    <2>1. ASSUME NEW s \in Shards, NEW a \in DOMAIN entries[s]
          PROVE  clock - entries[s][a].lastSeen <= EntryIdleTTL + Rounds * CleanupInterval
        <3>1. clock <= entries[s][a].lastSeen + EntryIdleTTL + Rounds * CleanupInterval
            BY DEF IAddresses, Due, DueBy
        <3>2. Rounds * CleanupInterval \in Nat /\ EntryIdleTTL \in Nat
            BY RoundReachesAll, Numbers
        <3> QED BY <1>1, <1>2, <3>1, <3>2
    <2> QED BY <2>1 DEF IdleEntriesLeave
<1>5. AddressRateBounded
    <2>1. ASSUME maxLag = 0, NEW a \in Addresses PROVE meter[a] <= 2 * FullBurst
        <3>1. AddressMetered(a) /\ meter[a] \in Nat
            BY <2>1 DEF IAddresses, Metered, Metering
        <3>2. CASE a \in DOMAIN ShardAt(a)
            <4>1. PICK held : held = PartsAt(ShardAt(a)[a].bucket, clock)
                OBVIOUS
            <4>2. held \in Nat /\ FullBurst \in Nat /\ meter[a] + held <= 2 * FullBurst
                BY <3>1, <3>2, <4>1, BucketsOf DEF IAddresses, AddressMetered, EntryMetered
            <4> QED BY <3>1, <4>2
        <3>3. CASE a \notin DOMAIN ShardAt(a)
            <4>1. PICK held : held = PartsAt(SharedOf(a), clock)
                OBVIOUS
            <4>2. held \in Nat /\ FullBurst \in Nat /\ meter[a] + held <= FullBurst
                BY <3>1, <3>3, <4>1, BucketsOf DEF IAddresses, AddressMetered, SharedMetered
            <4> QED BY <3>1, <4>2
        <3> QED BY <3>2, <3>3
    <2> QED BY <2>1 DEF AddressRateBounded, FullBurst
<1> QED BY <1>3, <1>4, <1>5 DEF IPLimiterInv

\* For every number of addresses, shards, places and requests and every rate: a shard
\* holds no more than its places and only addresses of its own, an idle entry leaves it
\* within the rounds the round robin needs (ip_limiter.go, lines 203-262), and an address
\* that moves between the registry and the fallback buckets is never granted more than
\* two bursts beyond the refill of any window (lines 156-187).
THEOREM IPLimiterInvariant == IPLimiterSpec => []IPLimiterInv
<1>1. IPLimiterInit => IAddresses
    BY RegistryInit, DueInit, MeteredInit DEF IAddresses
<1>2. IAddresses /\ [IPLimiterNext]_ipVars => IAddresses'
    BY RegistryNext, DueNext, MeteredNext DEF IAddresses
<1> QED BY <1>1, <1>2, AddressesBounded, PTL DEF IPLimiterSpec

=============================================================================
