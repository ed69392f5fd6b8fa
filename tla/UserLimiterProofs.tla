-------------------------- MODULE UserLimiterProofs --------------------------
(***************************************************************************)
(* What UserLimiter guarantees for every number of users, requests and     *)
(* places, every RPM and every delay of a request: the shortcut that skips *)
(* the search for expired entries is sound, a user is sent to a shared     *)
(* bucket only when the registry is full of entries that are alive, and    *)
(* what a user was granted is what the buckets used lack.                  *)
(***************************************************************************)
EXTENDS UserLimiter, TLAPS, FiniteSetTheorems

\* The delay of a run is one of the delays assumed, and never changes.
LagIsNatural == maxLag \in Nat

\* Sets of users are finite, and a part is not larger than the whole.
LEMMA SmallerDomain ==
    ASSUME NEW S \in SUBSET Users, NEW T \in SUBSET S
    PROVE  /\ IsFiniteSet(T)
           /\ Cardinality(S) \in Nat /\ Cardinality(T) \in Nat
           /\ Cardinality(T) <= Cardinality(S)
<1>1. IsFiniteSet(S)
  BY FS_Subset, UserLimiterAssumption
<1>2. IsFiniteSet(T) /\ Cardinality(T) <= Cardinality(S)
  BY <1>1, FS_Subset
<1> QED  BY <1>1, <1>2, FS_CardinalityType

\* A sweep leaves entries of the map alone, and the check it schedules comes
\* before each of them expires (cleanupExpiredEntriesLocked).
LEMMA SweepSchedules ==
    ASSUME RegistryTypes, NEW now \in Nat,
           NEW left, left = Unexpired(entries, now),
           NEW next \in NextAfterCleanup(left, now)
    PROVE  /\ DOMAIN left \subseteq DOMAIN entries
           /\ \A u \in DOMAIN left : left[u] = entries[u] /\ ~Expired(left[u].lastSeen, now)
           /\ next \in Nat
           /\ \A u \in DOMAIN left : 0 < next /\ next <= left[u].lastSeen + EntryIdleTTL
<1>1. /\ DOMAIN left \subseteq DOMAIN entries
      /\ \A u \in DOMAIN left : left[u] = entries[u] /\ ~Expired(left[u].lastSeen, now)
  BY DEF Unexpired
<1>2. \A t \in Expiries(left) : t \in Nat \ {0}
  BY <1>1, UserLimiterAssumption DEF Expiries, RegistryTypes
<1>3. CASE Expiries(left) = {}
  <2>1. DOMAIN left = {}
    BY <1>3 DEF Expiries
  <2> QED  BY <1>1, <1>3, <2>1 DEF NextAfterCleanup, Earliest
<1>4. CASE Expiries(left) # {}
  <2>1. next \in Expiries(left) /\ \A t \in Expiries(left) : next <= t
    BY <1>4 DEF NextAfterCleanup, Earliest
  <2>2. \A u \in DOMAIN left : left[u].lastSeen + EntryIdleTTL \in Expiries(left)
    BY DEF Expiries
  <2> QED  BY <1>1, <1>2, <2>1, <2>2
<1> QED  BY <1>3, <1>4

\* recordPotentialExpiryLocked never moves the check past an expiry it already
\* covers, nor past the one it records.
LEMMA RecordCovers ==
    ASSUME NEW next \in Nat, NEW seen \in Nat \ {0}
    PROVE  LET recorded == RecordPotentialExpiry(next, seen) IN
           /\ recorded \in Nat \ {0}
           /\ recorded <= seen + EntryIdleTTL
           /\ next > 0 => recorded <= next
BY UserLimiterAssumption DEF RecordPotentialExpiry

\* What a request without an entry finds: the registry it sees is a part of the
\* entries, its check is sound, and when it is full no entry has expired.
LEMMA RegistryForRequest ==
    ASSUME RegistryInv, NEW now \in Nat \ {0}, NEW next \in NextCheckFor(now)
    PROVE  LET map == RegistryFor(now) IN
           /\ DOMAIN map \subseteq DOMAIN entries
           /\ \A u \in DOMAIN map : map[u].lastSeen \in Nat \ {0}
           /\ next \in Nat
           /\ \A u \in DOMAIN map : 0 < next /\ next <= map[u].lastSeen + EntryIdleTTL
           /\ Cardinality(DOMAIN map) >= MaximumEntries =>
                 \A u \in DOMAIN map : ~Expired(map[u].lastSeen, now)
<1>1. CASE Swept(now)
  <2>1. RegistryFor(now) = Unexpired(entries, now) /\ next \in NextAfterCleanup(RegistryFor(now), now)
    BY <1>1 DEF RegistryFor, NextCheckFor
  <2> QED  BY <2>1, SweepSchedules DEF RegistryInv, RegistryTypes
<1>2. CASE ~Swept(now)
  <2>1. RegistryFor(now) = entries /\ next = nextExpiryCheck
    BY <1>2 DEF RegistryFor, NextCheckFor
  <2>2. Cardinality(DOMAIN entries) >= MaximumEntries => nextExpiryCheck # 0 /\ ~(now >= nextExpiryCheck)
    BY <1>2 DEF Swept, ShouldCheck
  <2>3. Cardinality(DOMAIN entries) >= MaximumEntries =>
           \A u \in DOMAIN entries : ~Expired(entries[u].lastSeen, now)
    BY <2>2, UserLimiterAssumption DEF Expired, RegistryInv, RegistryTypes, ExpiryCheckSound
  <2> QED  BY <2>1, <2>3 DEF RegistryInv, RegistryTypes, ExpiryCheckSound
<1> QED  BY <1>1, <1>2
-----------------------------------------------------------------------------
\* The registry starts empty (NewUserLimiterWithConfig).
LEMMA InitRegistry == UserLimiterInit => RegistryInv
<1> SUFFICES ASSUME UserLimiterInit PROVE RegistryInv
  OBVIOUS
<1>1. DOMAIN entries = {}
  BY DEF UserLimiterInit
<1>2. RegistryTypes
  BY <1>1 DEF UserLimiterInit, RegistryTypes, Idle
<1>3. RegistryBounded
  BY <1>1, FS_EmptySet, UserLimiterAssumption DEF RegistryBounded
<1> QED  BY <1>1, <1>2, <1>3 DEF RegistryInv, ExpiryCheckSound

\* A request that has found its bucket leaves the types of req alone.
LEMMA FoundKeepsTypes ==
    ASSUME RegistryTypes, NEW r \in Requests, NEW via, Found(r, via)
    PROVE  /\ DOMAIN req' = Requests
           /\ \A s \in Requests : req'[s].pc = "lock" => req'[s].user \in Users /\ req'[s].now \in Nat \ {0}
BY DEF RegistryTypes, Found

\* A request that finds its user's entry.
LEMMA HitKeepsRegistry ==
    ASSUME RegistryInv, NEW r \in Requests, AllowAtHit(r)
    PROVE  RegistryInv'
<1> DEFINE u == req[r].user
           now == req[r].now
<1>1. now \in Nat \ {0} /\ RegistryTypes
  BY DEF AllowAtHit, RegistryInv, RegistryTypes
<1>2. /\ DOMAIN entries' = DOMAIN entries
      /\ u \in DOMAIN entries
      /\ entries'[u].lastSeen = now
      /\ \A v \in DOMAIN entries : v # u => entries'[v] = entries[v]
      /\ nextExpiryCheck' = RecordPotentialExpiry(nextExpiryCheck, now)
      /\ clock' = clock
  BY DEF AllowAtHit, NextOnHit, SeenOnHit
<1>3. /\ nextExpiryCheck' \in Nat \ {0}
      /\ nextExpiryCheck' <= now + EntryIdleTTL
      /\ nextExpiryCheck > 0 => nextExpiryCheck' <= nextExpiryCheck
  BY <1>1, <1>2, RecordCovers DEF RegistryTypes
<1>4. RegistryTypes'
  BY <1>1, <1>2, <1>3, FoundKeepsTypes DEF AllowAtHit, RegistryTypes
<1>5. RegistryBounded'
  BY <1>2 DEF RegistryInv, RegistryBounded
<1>6. ExpiryCheckSound'
  BY <1>1, <1>2, <1>3, UserLimiterAssumption DEF RegistryInv, RegistryTypes, ExpiryCheckSound
<1> QED  BY <1>4, <1>5, <1>6 DEF RegistryInv

\* A request that is given an entry.
LEMMA AdmitKeepsRegistry ==
    ASSUME RegistryInv, NEW r \in Requests, AllowAtAdmit(r)
    PROVE  RegistryInv'
<1> DEFINE u == req[r].user
           now == req[r].now
           map == RegistryFor(now)
<1>1. now \in Nat \ {0} /\ RegistryTypes
  BY DEF AllowAtAdmit, RegistryInv, RegistryTypes
<1>2. PICK next \in NextCheckFor(now) : nextExpiryCheck' = RecordPotentialExpiry(next, now)
  BY DEF AllowAtAdmit
<1>3. /\ DOMAIN map \subseteq DOMAIN entries
      /\ \A v \in DOMAIN map : map[v].lastSeen \in Nat \ {0}
      /\ next \in Nat
      /\ \A v \in DOMAIN map : 0 < next /\ next <= map[v].lastSeen + EntryIdleTTL
  BY <1>1, RegistryForRequest
<1>4. /\ DOMAIN entries' = DOMAIN map \cup {u}
      /\ entries'[u].lastSeen = now
      /\ \A v \in DOMAIN map : v # u => entries'[v] = map[v]
      /\ clock' = clock
      /\ Cardinality(DOMAIN map) < MaximumEntries
  BY DEF AllowAtAdmit, With
<1>5. /\ nextExpiryCheck' \in Nat \ {0}
      /\ nextExpiryCheck' <= now + EntryIdleTTL
      /\ next > 0 => nextExpiryCheck' <= next
  BY <1>1, <1>2, <1>3, RecordCovers
<1>6. u \in Users
  BY <1>1 DEF AllowAtAdmit, RegistryTypes
<1>7. RegistryTypes'
  BY <1>1, <1>3, <1>4, <1>5, <1>6, FoundKeepsTypes DEF AllowAtAdmit, RegistryTypes
<1>8. RegistryBounded'
  <2>1. IsFiniteSet(DOMAIN map) /\ Cardinality(DOMAIN map) \in Nat
    BY <1>1, <1>3, SmallerDomain DEF RegistryTypes
  <2>2. Cardinality(DOMAIN map \cup {u}) <= Cardinality(DOMAIN map) + 1
    <3> HIDE DEF map, u
    <3>1. Cardinality(DOMAIN map \cup {u}) =
            IF u \in DOMAIN map THEN Cardinality(DOMAIN map) ELSE Cardinality(DOMAIN map) + 1
      BY <2>1, FS_AddElement
    <3> QED  BY <2>1, <3>1
  <2>3. Cardinality(DOMAIN map \cup {u}) \in Nat
    <3>1. IsFiniteSet(DOMAIN map \cup {u})
      BY <2>1, FS_AddElement
    <3> HIDE DEF map, u
    <3> QED  BY <3>1, FS_CardinalityType
  <2> HIDE DEF map, u
  <2> QED  BY <1>4, <2>1, <2>2, <2>3, UserLimiterAssumption DEF RegistryBounded
<1>9. ExpiryCheckSound'
  BY <1>1, <1>3, <1>4, <1>5, UserLimiterAssumption DEF ExpiryCheckSound
<1> QED  BY <1>7, <1>8, <1>9 DEF RegistryInv

\* A request that is sent to a shared bucket: the registry is full, and no entry
\* in it has expired.
LEMMA FallbackFindsFull ==
    ASSUME RegistryInv, NEW r \in Requests, AllowAtFallback(r)
    PROVE  /\ RegistryInv'
           /\ Cardinality(DOMAIN entries') = MaximumEntries
           /\ \A u \in DOMAIN entries' : ~Expired(entries'[u].lastSeen, req[r].now)
<1> DEFINE now == req[r].now
           map == RegistryFor(now)
<1>1. now \in Nat \ {0} /\ RegistryTypes
  BY DEF AllowAtFallback, RegistryInv, RegistryTypes
<1>2. /\ entries' = map
      /\ nextExpiryCheck' \in NextCheckFor(now)
      /\ Cardinality(DOMAIN map) >= MaximumEntries
      /\ clock' = clock
  BY DEF AllowAtFallback
<1>3. /\ DOMAIN map \subseteq DOMAIN entries
      /\ \A u \in DOMAIN map : map[u].lastSeen \in Nat \ {0}
      /\ nextExpiryCheck' \in Nat
      /\ \A u \in DOMAIN map : 0 < nextExpiryCheck' /\ nextExpiryCheck' <= map[u].lastSeen + EntryIdleTTL
      /\ \A u \in DOMAIN map : ~Expired(map[u].lastSeen, now)
  BY <1>1, <1>2, RegistryForRequest
<1>4. Cardinality(DOMAIN map) = MaximumEntries
  <2>1. /\ Cardinality(DOMAIN map) \in Nat /\ Cardinality(DOMAIN entries) \in Nat
        /\ Cardinality(DOMAIN map) <= Cardinality(DOMAIN entries)
    BY <1>1, <1>3, SmallerDomain DEF RegistryTypes
  <2> QED  BY <1>2, <2>1, UserLimiterAssumption DEF RegistryInv, RegistryBounded
<1>5. RegistryTypes'
  BY <1>1, <1>2, <1>3, FoundKeepsTypes DEF AllowAtFallback, RegistryTypes
<1>6. RegistryBounded' /\ ExpiryCheckSound'
  BY <1>2, <1>3, <1>4, UserLimiterAssumption DEF RegistryBounded, ExpiryCheckSound
<1> QED  BY <1>2, <1>3, <1>4, <1>5, <1>6 DEF RegistryInv

\* The delay of a run is a natural number throughout (it is no variable of the code:
\* it bounds how late a goroutine is scheduled).
LEMMA LagStaysNatural == UserLimiterSpec => []LagIsNatural
<1>1. UserLimiterInit => LagIsNatural
  BY UserLimiterAssumption DEF UserLimiterInit, LagIsNatural
<1>2. LagIsNatural /\ [UserLimiterNext]_limiterVars => LagIsNatural'
  BY DEF LagIsNatural, UserLimiterNext, limiterVars
<1> QED  BY <1>1, <1>2, PTL DEF UserLimiterSpec

\* Every other step leaves the registry alone or removes expired entries.
LEMMA OtherStepsKeepRegistry ==
    ASSUME RegistryInv, LagIsNatural,
           \/ \E r \in Requests : Arrive(r) \/ AllowDedicated(r) \/ AllowShared(r)
           \/ Cleanup \/ Tick \/ UNCHANGED limiterVars
    PROVE  RegistryInv'
<1> USE DEF RegistryInv
<1>1. ASSUME NEW r \in Requests, Arrive(r) PROVE RegistryInv'
  <2>1. RegistryTypes'
    BY <1>1 DEF Arrive, RegistryTypes
  <2> QED  BY <1>1, <2>1 DEF Arrive, RegistryBounded, ExpiryCheckSound
<1>2. ASSUME NEW r \in Requests, AllowDedicated(r) PROVE RegistryInv'
  <2> DEFINE u == req[r].user
             spent == AfterGrant(entries[u].bucket, req[r].now)
  <2>0. \/ entries' = [entries EXCEPT ![u] = [bucket |-> spent, lastSeen |-> entries[u].lastSeen]]
        \/ entries' = entries
    BY <1>2 DEF AllowDedicated
  <2>1. /\ DOMAIN entries' = DOMAIN entries
        /\ \A v \in DOMAIN entries : entries'[v].lastSeen = entries[v].lastSeen
        /\ UNCHANGED <<clock, nextExpiryCheck>>
    <3>1. UNCHANGED <<clock, nextExpiryCheck>>
      BY <1>2 DEF AllowDedicated
    <3> HIDE DEF spent, u
    <3> QED  BY <2>0, <3>1
  <2>2. DOMAIN req' = Requests /\ \A s \in Requests : req'[s].pc = "lock" => req'[s] = req[s]
    BY <1>2 DEF AllowDedicated, RegistryTypes, Idle
  <2>3. RegistryTypes'
    BY <2>1, <2>2 DEF RegistryTypes
  <2> QED  BY <2>1, <2>3 DEF RegistryBounded, ExpiryCheckSound
<1>3. ASSUME NEW r \in Requests, AllowShared(r) PROVE RegistryInv'
  <2>1. DOMAIN req' = Requests /\ \A s \in Requests : req'[s].pc = "lock" => req'[s] = req[s]
    BY <1>3 DEF AllowShared, RegistryTypes, Idle
  <2>2. RegistryTypes'
    BY <1>3, <2>1 DEF AllowShared, RegistryTypes
  <2> QED  BY <1>3, <2>2 DEF AllowShared, RegistryBounded, ExpiryCheckSound
<1>4. CASE Cleanup
  <2>1. PICK lag \in 0..maxLag :
           /\ lag < clock
           /\ entries' = Unexpired(entries, clock - lag)
           /\ nextExpiryCheck' \in NextAfterCleanup(entries', clock - lag)
    BY <1>4 DEF Cleanup
  <2>2. clock - lag \in Nat
    BY <2>1, UserLimiterAssumption DEF RegistryTypes, LagIsNatural
  <2>3. /\ DOMAIN entries' \subseteq DOMAIN entries
        /\ \A u \in DOMAIN entries' : entries'[u] = entries[u]
        /\ nextExpiryCheck' \in Nat
        /\ \A u \in DOMAIN entries' :
              0 < nextExpiryCheck' /\ nextExpiryCheck' <= entries'[u].lastSeen + EntryIdleTTL
    BY <2>1, <2>2, SweepSchedules
  <2>4. RegistryTypes' /\ ExpiryCheckSound'
    BY <1>4, <2>3 DEF Cleanup, RegistryTypes, ExpiryCheckSound
  <2>5. /\ Cardinality(DOMAIN entries') \in Nat /\ Cardinality(DOMAIN entries) \in Nat
        /\ Cardinality(DOMAIN entries') <= Cardinality(DOMAIN entries)
    BY <2>3, SmallerDomain DEF RegistryTypes
  <2> QED  BY <2>4, <2>5, UserLimiterAssumption DEF RegistryBounded
<1>5. CASE Tick
  BY <1>5 DEF Tick, RegistryTypes, RegistryBounded, ExpiryCheckSound
<1>6. CASE UNCHANGED limiterVars
  BY <1>6 DEF limiterVars, RegistryTypes, RegistryBounded, ExpiryCheckSound
<1> QED  BY <1>1, <1>2, <1>3, <1>4, <1>5, <1>6

\* Every step keeps the invariant.
LEMMA NextKeepsRegistry ==
    RegistryInv /\ LagIsNatural /\ [UserLimiterNext]_limiterVars => RegistryInv'
<1> SUFFICES ASSUME RegistryInv, LagIsNatural, [UserLimiterNext]_limiterVars PROVE RegistryInv'
  OBVIOUS
<1>1. ASSUME NEW r \in Requests, AllowAtHit(r) PROVE RegistryInv'
  BY <1>1, HitKeepsRegistry
<1>2. ASSUME NEW r \in Requests, AllowAtAdmit(r) PROVE RegistryInv'
  BY <1>2, AdmitKeepsRegistry
<1>3. ASSUME NEW r \in Requests, AllowAtFallback(r) PROVE RegistryInv'
  BY <1>3, FallbackFindsFull
<1> QED  BY <1>1, <1>2, <1>3, OtherStepsKeepRegistry DEF UserLimiterNext, UserLimiterStep

\* The shortcut of allowAt is sound for every instance: no entry expires before
\* nextExpiryCheck, whatever the order in which requests with older and newer
\* times reach the registry, and the registry keeps to MaximumEntries.
THEOREM RegistryInvariant == UserLimiterSpec => []RegistryInv
BY InitRegistry, NextKeepsRegistry, LagStaysNatural, PTL DEF UserLimiterSpec

-----------------------------------------------------------------------------
\* The registry keeps to MaximumEntries in every instance, and allowAt sends a
\* user to a shared bucket only when all places are taken by live entries.
THEOREM FallbackIsLastResort == UserLimiterSpec => FallbackOnlyWhenFull
<1> DEFINE LastResort ==
      \A r \in Requests :
          (req[r].pc = "lock" /\ req'[r].pc = "allow" /\ req'[r].via = "fallback") =>
              /\ Cardinality(DOMAIN entries') = MaximumEntries
              /\ \A u \in DOMAIN entries' : ~Expired(entries'[u].lastSeen, req[r].now)
<1>1. RegistryInv /\ [UserLimiterNext]_limiterVars => [LastResort]_limiterVars
  <2> SUFFICES ASSUME RegistryInv, UserLimiterNext, NEW r \in Requests,
                      req[r].pc = "lock", req'[r].pc = "allow", req'[r].via = "fallback"
               PROVE  /\ Cardinality(DOMAIN entries') = MaximumEntries
                      /\ \A u \in DOMAIN entries' : ~Expired(entries'[u].lastSeen, req[r].now)
    OBVIOUS
  <2>1. AllowAtFallback(r)
    <3> USE DEF RegistryInv, RegistryTypes
    <3>1. ASSUME NEW s \in Requests, Arrive(s) PROVE FALSE
      BY <3>1 DEF Arrive
    <3>2. ASSUME NEW s \in Requests, AllowAtHit(s) \/ AllowAtAdmit(s) PROVE FALSE
      BY <3>2 DEF AllowAtHit, AllowAtAdmit, Found
    <3>3. ASSUME NEW s \in Requests, AllowAtFallback(s) PROVE s = r
      BY <3>3 DEF AllowAtFallback, Found
    <3>4. ASSUME NEW s \in Requests, AllowDedicated(s) \/ AllowShared(s) PROVE FALSE
      BY <3>4 DEF AllowDedicated, AllowShared, Idle
    <3>5. ~Cleanup /\ ~Tick
      BY DEF Cleanup, Tick
    <3> QED  BY <3>1, <3>2, <3>3, <3>4, <3>5 DEF UserLimiterNext, UserLimiterStep
  <2> QED  BY <2>1, FallbackFindsFull
<1> QED  BY <1>1, RegistryInvariant, PTL DEF UserLimiterSpec, FallbackOnlyWhenFull

-----------------------------------------------------------------------------
(* The arithmetic of a bucket.                                             *)

\* A bucket the limiter has made, not later than some time.
BucketBy(bucket, t) ==
    bucket \in Bucket(Nat, Rpms) /\ bucket.last <= t

\* A bucket holds no more than its burst (advance caps the tokens).
LEMMA PartsBounded ==
    ASSUME NEW t \in Nat, NEW bucket, BucketBy(bucket, t)
    PROVE  /\ Burst(bucket.rpm) \in Nat
           /\ PartsAt(bucket, t) \in Nat
           /\ PartsAt(bucket, t) <= Burst(bucket.rpm)
<1>1. /\ bucket.parts \in Nat /\ bucket.last \in Nat /\ bucket.rpm \in Nat /\ bucket.last <= t
    BY UserLimiterAssumption DEF BucketBy, Bucket
<1>2. (t - bucket.last) \in Nat /\ (t - bucket.last) * bucket.rpm \in Nat
    BY <1>1
<1>3. Burst(bucket.rpm) \in Nat
    BY <1>1, MinuteAssumption DEF Burst
<1> QED BY <1>1, <1>2, <1>3 DEF PartsAt

\* A tick refills no more than the rate.
LEMMA TickRefills ==
    ASSUME NEW t \in Nat, NEW bucket, BucketBy(bucket, t)
    PROVE  PartsAt(bucket, t + 1) <= PartsAt(bucket, t) + bucket.rpm
<1>1. /\ bucket.parts \in Nat /\ bucket.last \in Nat /\ bucket.rpm \in Nat /\ bucket.last <= t
    BY UserLimiterAssumption DEF BucketBy, Bucket
<1>2. PICK held \in Nat : held = (t - bucket.last) * bucket.rpm
    BY <1>1
<1>3. (t + 1 - bucket.last) * bucket.rpm = held + bucket.rpm
    BY <1>1, <1>2
<1>4. PICK burst \in Nat : burst = Burst(bucket.rpm)
    BY <1>1, MinuteAssumption DEF Burst
<1>5. PartsAt(bucket, t) = IF bucket.parts + held < burst THEN bucket.parts + held ELSE burst
    BY <1>1, <1>2, <1>4 DEF PartsAt
<1>6. PartsAt(bucket, t + 1) =
         IF bucket.parts + held + bucket.rpm < burst THEN bucket.parts + held + bucket.rpm ELSE burst
    BY <1>1, <1>3, <1>4 DEF PartsAt
<1> QED BY <1>1, <1>5, <1>6

\* A bucket just brought up to date holds its parts, up to its burst.
LEMMA PartsNow ==
    ASSUME NEW t \in Nat, NEW bucket \in Bucket(Nat, Rpms), bucket.last = t
    PROVE  /\ BucketBy(bucket, t)
           /\ PartsAt(bucket, t) =
                 IF bucket.parts < Burst(bucket.rpm) THEN bucket.parts ELSE Burst(bucket.rpm)
<1>1. bucket.parts \in Nat /\ bucket.rpm \in Nat
    BY UserLimiterAssumption DEF Bucket
<1>2. t - bucket.last = 0 /\ ~(t < bucket.last)
    OBVIOUS
<1>3. (t - bucket.last) * bucket.rpm = 0
    BY <1>1, <1>2
<1> QED BY <1>1, <1>2, <1>3 DEF BucketBy, PartsAt

\* A grant takes one token.
LEMMA GrantTakes ==
    ASSUME NEW t \in Nat, NEW bucket, BucketBy(bucket, t), Allows(bucket, t)
    PROVE  /\ BucketBy(AfterGrant(bucket, t), t)
           /\ AfterGrant(bucket, t).rpm = bucket.rpm
           /\ PartsAt(AfterGrant(bucket, t), t) + Minute = PartsAt(bucket, t)
<1>1. PICK parts \in Nat : parts = PartsAt(bucket, t) - Minute
    BY PartsBounded, MinuteAssumption DEF Allows
<1>2. PICK after : after = AfterGrant(bucket, t)
    OBVIOUS
<1>3. after = [bucket EXCEPT !.parts = parts, !.last = t]
    BY <1>1, <1>2 DEF AfterGrant
<1>4. after \in Bucket(Nat, Rpms) /\ after.parts = parts /\ after.last = t /\ after.rpm = bucket.rpm
    BY <1>3 DEF BucketBy, Bucket
<1>5. parts < Burst(bucket.rpm) /\ parts + Minute = PartsAt(bucket, t)
    BY <1>1, PartsBounded, MinuteAssumption
<1> QED BY <1>2, <1>4, <1>5, PartsNow

\* A bucket under another RPM gains nothing.
LEMMA SetRpmGainsNothing ==
    ASSUME NEW t \in Nat, NEW bucket, BucketBy(bucket, t), NEW rpm \in Rpms
    PROVE  /\ BucketBy(SetRpm(bucket, rpm, t), t)
           /\ SetRpm(bucket, rpm, t).rpm = rpm
           /\ PartsAt(SetRpm(bucket, rpm, t), t) <= PartsAt(bucket, t)
<1>1. Burst(rpm) \in Nat
    BY UserLimiterAssumption, MinuteAssumption DEF Burst
<1>2. PICK parts \in Nat : parts = PartsAt(bucket, t)
    BY PartsBounded
<1>3. PICK after : after = SetRpm(bucket, rpm, t)
    OBVIOUS
<1>4. after \in Bucket(Nat, Rpms) /\ after.parts = parts /\ after.last = t /\ after.rpm = rpm
    BY <1>2, <1>3 DEF SetRpm, Bucket
<1> QED BY <1>1, <1>2, <1>3, <1>4, PartsNow

\* A new bucket is full.
LEMMA FullBucketTyped ==
    ASSUME NEW t \in Nat, NEW rpm \in Rpms
    PROVE  BucketBy(FullBucket(rpm, t), t) /\ FullBucket(rpm, t).rpm = rpm
BY UserLimiterAssumption, MinuteAssumption DEF FullBucket, BucketBy, Bucket, Burst

\* No RPM exceeds the largest.
LEMMA LargestRpm ==
    /\ MaxRpm \in Nat
    /\ Burst(MaxRpm) \in Nat
    /\ \A rpm \in Rpms : rpm \in Nat /\ rpm <= MaxRpm /\ Burst(rpm) \in Nat /\ Burst(rpm) <= Burst(MaxRpm)
<1>1. MaxRpm \in Rpms /\ \A rpm \in Rpms : rpm <= MaxRpm
    BY UserLimiterAssumption DEF MaxRpm
<1>2. MaxRpm \in Nat /\ \A rpm \in Rpms : rpm \in Nat
    BY <1>1, UserLimiterAssumption
<1>3. ASSUME NEW rpm \in Rpms PROVE rpm * Minute \in Nat /\ rpm * Minute <= MaxRpm * Minute
    BY <1>1, <1>2, MinuteAssumption
<1> QED BY <1>1, <1>2, <1>3 DEF Burst

\* Idle for as long as an entry is kept, a meter has drained two bursts.
LEMMA IdleDrains ==
    ASSUME NEW idle \in Nat, EntryIdleTTL <= idle
    PROVE  idle * MaxRpm \in Nat /\ 2 * Burst(MaxRpm) <= idle * MaxRpm
<1>1. MaxRpm \in Nat
    BY LargestRpm
<1>2. 2 * Minute <= idle /\ Minute \in Nat
    BY UserLimiterAssumption, MinuteAssumption
<1>3. (2 * Minute) * MaxRpm <= idle * MaxRpm
    BY <1>1, <1>2
<1> QED BY <1>1, <1>2, <1>3 DEF Burst

-----------------------------------------------------------------------------
(* A bucket in use stays.  A request has read its time at most maxLag ago, *)
(* and so has every other that has used its entry since; a sweep removes   *)
(* what nobody has used for longer than twice that.                        *)

\* The delay of a run is one of the delays assumed.
LagAssumed == maxLag \in Lags

RequestTypes ==
    \A r \in Requests :
        /\ req[r].pc \in {"idle", "lock", "allow"}
        /\ req[r].pc = "lock" => req[r].rpm \in Rpms \ {0}
        /\ req[r].pc # "idle" => req[r].user \in Users /\ req[r].now \in Nat \ {0}
        /\ req[r].pc = "allow" => req[r].via \in {"entry", "fallback"}

\* A request in flight is not older than the delay, and the entry it uses was seen by one
\* that was in flight with it.
InFlight ==
    \A r \in Requests :
        /\ req[r].pc # "idle" => req[r].now <= clock /\ clock <= req[r].now + maxLag
        /\ req[r].pc = "allow" /\ req[r].via = "entry" =>
              /\ req[r].user \in DOMAIN entries
              /\ req[r].now <= entries[req[r].user].lastSeen + maxLag

IStays == RegistryInv /\ LagAssumed /\ RequestTypes /\ InFlight

\* The requests after one of them has found its bucket.
LEMMA FoundRequests ==
    ASSUME RegistryInv, RequestTypes, NEW r \in Requests, req[r].pc = "lock",
           NEW via \in {"entry", "fallback"}, Found(r, via)
    PROVE  /\ RequestTypes'
           /\ req'[r].pc = "allow" /\ req'[r].via = via
           /\ req'[r].user = req[r].user /\ req'[r].now = req[r].now
           /\ \A q \in Requests : q # r => req'[q] = req[q]
BY DEF Found, RequestTypes, RegistryInv, RegistryTypes

\* A sweep whose time is not ahead of the clock keeps the entries of requests in flight.
LEMMA SweepKeepsInUse ==
    ASSUME IStays, NEW now \in Nat, now <= clock, NEW r \in Requests,
           req[r].pc = "allow", req[r].via = "entry"
    PROVE  LET u == req[r].user
               left == Unexpired(entries, now)
           IN  u \in DOMAIN left /\ left[u] = entries[u]
<1>1. PICK u : u = req[r].user
    OBVIOUS
<1>2. /\ u \in DOMAIN entries /\ entries[u].lastSeen \in Nat
      /\ req[r].now \in Nat /\ maxLag \in Nat /\ clock \in Nat
      /\ clock <= req[r].now + maxLag /\ req[r].now <= entries[u].lastSeen + maxLag
    BY <1>1, UserLimiterAssumption DEF IStays, LagAssumed, RegistryInv, RegistryTypes, RequestTypes, InFlight
<1>3. 2 * maxLag < EntryIdleTTL
    BY UserLimiterAssumption DEF IStays, LagAssumed
<1>4. ~Expired(entries[u].lastSeen, now)
    BY <1>2, <1>3, UserLimiterAssumption DEF Expired
<1> QED BY <1>1, <1>2, <1>4 DEF Unexpired

\* So does the sweep of a request that finds the registry full.
LEMMA RequestKeepsInUse ==
    ASSUME IStays, NEW now \in Nat, now <= clock, NEW r \in Requests,
           req[r].pc = "allow", req[r].via = "entry"
    PROVE  LET u == req[r].user IN
           u \in DOMAIN RegistryFor(now) /\ RegistryFor(now)[u] = entries[u]
BY SweepKeepsInUse DEF RegistryFor, IStays, InFlight

\* allowAt: whoever has the lock gives its own bucket the time of its request.
LEMMA AllowAtStays ==
    ASSUME IStays, NEW r \in Requests, AllowAtHit(r) \/ AllowAtAdmit(r) \/ AllowAtFallback(r),
           UNCHANGED maxLag
    PROVE  RequestTypes' /\ InFlight'
<1> PICK now : now = req[r].now
    OBVIOUS
<1> PICK u : u = req[r].user
    OBVIOUS
<1>1. /\ req[r].pc = "lock" /\ clock' = clock /\ maxLag' = maxLag
      /\ maxLag \in Nat /\ clock \in Nat /\ now \in Nat /\ now <= clock /\ clock <= now + maxLag
    BY UserLimiterAssumption DEF IStays, LagAssumed, RegistryInv, RegistryTypes, RequestTypes, InFlight,
       AllowAtHit, AllowAtAdmit, AllowAtFallback
<1>2. ASSUME NEW q \in Requests, q # r, req[q].pc # "idle"
      PROVE  req[q].now \in Nat /\ req[q].now <= clock /\ clock <= req[q].now + maxLag
    BY <1>2 DEF IStays, RequestTypes, InFlight
<1>3. ASSUME NEW q \in Requests, req[q].pc = "allow", req[q].via = "entry"
      PROVE  /\ req[q].user \in DOMAIN entries
             /\ entries[req[q].user].lastSeen \in Nat
             /\ req[q].now <= entries[req[q].user].lastSeen + maxLag
    BY <1>3 DEF IStays, InFlight, RegistryInv, RegistryTypes
<1>4. CASE AllowAtHit(r)
    <2>1. /\ u \in DOMAIN entries /\ DOMAIN entries' = DOMAIN entries /\ entries'[u].lastSeen = now
          /\ \A v \in DOMAIN entries : v # u => entries'[v] = entries[v]
        BY <1>4 DEF AllowAtHit, SeenOnHit
    <2>2. Found(r, "entry")
        BY <1>4 DEF AllowAtHit
    <2>3. /\ RequestTypes'
          /\ req'[r].pc = "allow" /\ req'[r].user = u /\ req'[r].now = now
          /\ \A q \in Requests : q # r => req'[q] = req[q]
        BY <1>1, <2>2, FoundRequests DEF IStays
    <2>4. ASSUME NEW q \in Requests, q # r, req[q].pc = "allow", req[q].via = "entry"
          PROVE  /\ req[q].user \in DOMAIN entries'
                 /\ req[q].now <= entries'[req[q].user].lastSeen + maxLag
        BY <1>1, <1>2, <1>3, <2>1, <2>4
    <2> QED BY <1>1, <1>2, <2>1, <2>3, <2>4 DEF InFlight
<1>5. CASE AllowAtAdmit(r)
    <2>1. PICK map : map = RegistryFor(now)
        OBVIOUS
    <2>2. entries' = With(map, u, [bucket |-> FullBucket(req[r].rpm, now), lastSeen |-> now]) /\ u \notin DOMAIN entries
        BY <1>5, <2>1 DEF AllowAtAdmit
    <2>3. /\ DOMAIN entries' = DOMAIN map \cup {u} /\ entries'[u].lastSeen = now
          /\ \A v \in DOMAIN map : v # u => entries'[v] = map[v]
        BY <2>2 DEF With
    <2>4. Found(r, "entry")
        BY <1>5 DEF AllowAtAdmit
    <2>5. /\ RequestTypes'
          /\ req'[r].pc = "allow" /\ req'[r].user = u /\ req'[r].now = now
          /\ \A q \in Requests : q # r => req'[q] = req[q]
        BY <1>1, <2>4, FoundRequests DEF IStays
    <2>6. ASSUME NEW q \in Requests, q # r, req[q].pc = "allow", req[q].via = "entry"
          PROVE  /\ req[q].user \in DOMAIN entries'
                 /\ req[q].now <= entries'[req[q].user].lastSeen + maxLag
        <3>1. req[q].user \in DOMAIN map /\ map[req[q].user] = entries[req[q].user]
            BY <1>1, <2>1, <2>6, RequestKeepsInUse
        <3> QED BY <1>3, <2>2, <2>3, <2>6, <3>1
    <2> QED BY <1>1, <1>2, <2>3, <2>5, <2>6 DEF InFlight
<1>6. CASE AllowAtFallback(r)
    <2>1. entries' = RegistryFor(now) /\ Found(r, "fallback")
        BY <1>6 DEF AllowAtFallback
    <2>2. /\ RequestTypes'
          /\ req'[r].pc = "allow" /\ req'[r].via = "fallback" /\ req'[r].now = now
          /\ \A q \in Requests : q # r => req'[q] = req[q]
        BY <1>1, <2>1, FoundRequests DEF IStays
    <2>3. ASSUME NEW q \in Requests, q # r, req[q].pc = "allow", req[q].via = "entry"
          PROVE  /\ req[q].user \in DOMAIN entries'
                 /\ req[q].now <= entries'[req[q].user].lastSeen + maxLag
        <3>1. /\ req[q].user \in DOMAIN RegistryFor(now)
              /\ RegistryFor(now)[req[q].user] = entries[req[q].user]
            BY <1>1, <2>3, RequestKeepsInUse
        <3> QED BY <1>3, <2>1, <2>3, <3>1
    <2> QED BY <1>1, <1>2, <2>2, <2>3 DEF InFlight
<1> QED BY <1>4, <1>5, <1>6

\* Every other step leaves requests in flight what they use.
LEMMA OthersStay ==
    ASSUME IStays, UNCHANGED maxLag,
           \/ \E r \in Requests : Arrive(r) \/ AllowDedicated(r) \/ AllowShared(r)
           \/ Cleanup \/ Tick
    PROVE  RequestTypes' /\ InFlight'
<1> USE DEF IStays, RegistryInv, RegistryTypes
<1>0. maxLag \in Nat
    BY UserLimiterAssumption DEF LagAssumed
<1>1. ASSUME NEW r \in Requests, Arrive(r) PROVE RequestTypes' /\ InFlight'
    <2>1. PICK u \in Users, rpm \in Rpms \ {0} :
             req' = [req EXCEPT ![r] = [pc |-> "lock", user |-> u, rpm |-> rpm, now |-> clock]]
        BY <1>1 DEF Arrive, Limited
    <2>2. RequestTypes'
        BY <2>1 DEF RequestTypes
    <2> QED BY <1>0, <1>1, <2>1, <2>2 DEF Arrive, InFlight
<1>2. ASSUME NEW r \in Requests, AllowDedicated(r) PROVE RequestTypes' /\ InFlight'
    <2>1. PICK u : u = req[r].user
        OBVIOUS
    <2>2. PICK spent : spent = AfterGrant(entries[u].bucket, req[r].now)
        OBVIOUS
    <2>3. \/ entries' = [entries EXCEPT ![u] = [bucket |-> spent, lastSeen |-> entries[u].lastSeen]]
          \/ entries' = entries
        BY <1>2, <2>1, <2>2 DEF AllowDedicated
    <2>4. DOMAIN entries' = DOMAIN entries /\ \A v \in DOMAIN entries : entries'[v].lastSeen = entries[v].lastSeen
        BY <2>3
    <2>5. req' = [req EXCEPT ![r] = Idle] /\ clock' = clock
        BY <1>2 DEF AllowDedicated
    <2> QED BY <2>4, <2>5 DEF RequestTypes, InFlight, Idle
<1>3. ASSUME NEW r \in Requests, AllowShared(r) PROVE RequestTypes' /\ InFlight'
    <2>1. req' = [req EXCEPT ![r] = Idle] /\ clock' = clock /\ entries' = entries
        BY <1>3 DEF AllowShared
    <2> QED BY <2>1 DEF RequestTypes, InFlight, Idle
<1>4. CASE Cleanup
    <2>1. PICK lag \in 0..maxLag : lag < clock /\ entries' = Unexpired(entries, clock - lag)
        BY <1>4 DEF Cleanup
    <2>2. clock - lag \in Nat /\ clock - lag <= clock
        BY <1>0, <2>1
    <2>3. ASSUME NEW q \in Requests, req[q].pc = "allow", req[q].via = "entry"
          PROVE  req[q].user \in DOMAIN entries' /\ entries'[req[q].user] = entries[req[q].user]
        BY <2>1, <2>2, <2>3, SweepKeepsInUse
    <2>4. UNCHANGED <<req, clock>>
        BY <1>4 DEF Cleanup
    <2> QED BY <2>3, <2>4 DEF RequestTypes, InFlight
<1>5. CASE Tick
    <2>1. /\ clock' = clock + 1 /\ UNCHANGED <<req, entries>>
          /\ \A r \in Requests : req[r].pc # "idle" => clock < req[r].now + maxLag
        BY <1>5 DEF Tick
    <2>2. \A r \in Requests : req[r].pc # "idle" => req[r].now \in Nat
        BY DEF RequestTypes
    <2> QED BY <1>0, <2>1, <2>2 DEF RequestTypes, InFlight
<1> QED BY <1>1, <1>2, <1>3, <1>4, <1>5

\* Every step keeps the entries that requests in flight use.
LEMMA NextStays ==
    ASSUME IStays, [UserLimiterNext]_limiterVars PROVE IStays'
<1>1. RegistryInv'
    BY NextKeepsRegistry, UserLimiterAssumption DEF IStays, LagAssumed, LagIsNatural
<1>2. LagAssumed'
    BY DEF IStays, LagAssumed, UserLimiterNext, limiterVars
<1>3. CASE UNCHANGED limiterVars
    BY <1>1, <1>2, <1>3 DEF IStays, RequestTypes, InFlight, limiterVars
<1>4. CASE UserLimiterNext
    BY <1>1, <1>2, <1>4, AllowAtStays, OthersStay DEF IStays, UserLimiterNext, UserLimiterStep
<1> QED BY <1>3, <1>4

\* At first nobody is in flight.
LEMMA InitStays == UserLimiterInit => IStays
BY InitRegistry DEF UserLimiterInit, IStays, LagAssumed, RequestTypes, InFlight, Idle

-----------------------------------------------------------------------------
(* The rate of a user.  Without delay, what a user was granted beyond its  *)
(* rate is what its buckets lack: the bucket of its entry, and one burst   *)
(* more for the bucket it used before, which an entry or a shared bucket   *)
(* that is given up has regained by then.                                  *)

FullBurst == Burst(MaxRpm)

EntryTyped(entry, t) ==
    BucketBy(entry.bucket, t) /\ entry.lastSeen \in Nat /\ entry.lastSeen <= t

SharedTyped(shared, t) ==
    /\ shared \in [bucket : Bucket(Nat, Rpms \cup {0}), lastSeen : Nat]
    /\ shared.lastSeen <= t
    /\ shared.bucket.rpm = 0 => shared.bucket = NoLimiter
    /\ shared.bucket.rpm # 0 => BucketBy(shared.bucket, t)

\* A meter that has drained since some time.
DrainedSince(meter, most, seen, t) == meter = 0 \/ meter + (t - seen) * MaxRpm <= most

\* A user with an entry has had what is missing in it, and a burst before at most.
EntryMetered(meter, entry, t) ==
    /\ meter + PartsAt(entry.bucket, t) <= 2 * FullBurst
    /\ DrainedSince(meter, 2 * FullBurst, entry.lastSeen, t)

\* A user without one has had what is missing in its shared bucket.
SharedMetered(meter, shared, t) ==
    \/ meter = 0
    \/ /\ shared.bucket.rpm # 0
       /\ meter + PartsAt(shared.bucket, t) <= FullBurst
       /\ DrainedSince(meter, FullBurst, shared.lastSeen, t)

\* A user that got an entry while a request of it was on its way to the shared bucket.
BothMetered(meter, entry, shared, t) ==
    /\ entry.lastSeen = t
    /\ meter + PartsAt(entry.bucket, t) + PartsAt(shared.bucket, t) <= 2 * FullBurst

\* A shared bucket has given what it lacks of its own burst.
BucketMetered(meter, shared, t) == meter + PartsAt(shared.bucket, t) <= Burst(shared.bucket.rpm)

LEMMA EntryParts ==
    ASSUME NEW t \in Nat, NEW entry, EntryTyped(entry, t)
    PROVE  /\ PartsAt(entry.bucket, t) \in Nat /\ FullBurst \in Nat /\ MaxRpm \in Nat
           /\ PartsAt(entry.bucket, t) <= FullBurst
           /\ entry.bucket.rpm \in Rpms /\ entry.bucket.rpm \in Nat /\ entry.bucket.rpm <= MaxRpm
<1>1. entry.bucket.rpm \in Rpms
    BY DEF EntryTyped, BucketBy, Bucket
<1>2. PartsAt(entry.bucket, t) \in Nat /\ PartsAt(entry.bucket, t) <= Burst(entry.bucket.rpm)
    BY PartsBounded DEF EntryTyped
<1> QED BY <1>1, <1>2, LargestRpm DEF FullBurst

LEMMA SharedParts ==
    ASSUME NEW t \in Nat, NEW shared, SharedTyped(shared, t)
    PROVE  /\ PartsAt(shared.bucket, t) \in Nat /\ FullBurst \in Nat /\ MaxRpm \in Nat
           /\ Burst(shared.bucket.rpm) \in Nat
           /\ PartsAt(shared.bucket, t) <= Burst(shared.bucket.rpm)
           /\ Burst(shared.bucket.rpm) <= FullBurst
<1>1. FullBurst \in Nat /\ MaxRpm \in Nat
    BY LargestRpm DEF FullBurst
<1>2. CASE shared.bucket.rpm = 0
    <2>1. shared.bucket = NoLimiter
        BY <1>2 DEF SharedTyped
    <2>2. Burst(0) = 0
        BY MinuteAssumption DEF Burst
    <2>3. PartsAt(NoLimiter, t) = 0
        BY <2>2 DEF PartsAt, NoLimiter
    <2> QED BY <1>1, <1>2, <2>1, <2>2, <2>3
<1>3. CASE shared.bucket.rpm # 0
    <2>1. BucketBy(shared.bucket, t) /\ shared.bucket.rpm \in Rpms
        BY <1>3 DEF SharedTyped, BucketBy, Bucket
    <2>2. Burst(shared.bucket.rpm) \in Nat /\ Burst(shared.bucket.rpm) <= FullBurst
        BY <2>1, LargestRpm DEF FullBurst
    <2> QED BY <1>1, <2>1, <2>2, PartsBounded
<1> QED BY <1>2, <1>3

\* A tick drains what it lengthens.
LEMMA DrainsOn ==
    ASSUME NEW t \in Nat, NEW seen \in Nat, seen <= t, NEW meter \in Nat, NEW most \in Nat,
           DrainedSince(meter, most, seen, t)
    PROVE  DrainedSince(Drained(meter, MaxRpm), most, seen, t + 1)
<1>1. MaxRpm \in Nat
    BY LargestRpm
<1>2. (t + 1 - seen) * MaxRpm = (t - seen) * MaxRpm + MaxRpm /\ (t - seen) * MaxRpm \in Nat
    BY <1>1
<1> QED BY <1>1, <1>2 DEF DrainedSince, Drained

\* What has drained for as long as an entry is kept is empty.
LEMMA DrainedEmpty ==
    ASSUME NEW t \in Nat, NEW seen \in Nat, Expired(seen, t), NEW meter \in Nat, NEW most \in Nat,
           most <= 2 * FullBurst, DrainedSince(meter, most, seen, t)
    PROVE  meter = 0
<1>1. t - seen \in Nat /\ EntryIdleTTL <= t - seen
    BY UserLimiterAssumption DEF Expired
<1>2. (t - seen) * MaxRpm \in Nat /\ 2 * FullBurst <= (t - seen) * MaxRpm /\ FullBurst \in Nat
    BY <1>1, IdleDrains, LargestRpm DEF FullBurst
<1> QED BY <1>2 DEF DrainedSince

LEMMA DrainsFromNow ==
    ASSUME NEW t \in Nat, NEW meter \in Nat, NEW most \in Nat
    PROVE  DrainedSince(meter, most, t, t) <=> meter = 0 \/ meter <= most
<1>1. MaxRpm \in Nat
    BY LargestRpm
<1>2. (t - t) * MaxRpm = 0
    BY <1>1
<1> QED BY <1>2 DEF DrainedSince

-----------------------------------------------------------------------------
(* What a step does to one bucket and the meters on it.                    *)

\* A tick refills what it drains.
LEMMA EntryTick ==
    ASSUME NEW t \in Nat, NEW entry, EntryTyped(entry, t),
           NEW meter \in Nat, EntryMetered(meter, entry, t)
    PROVE  EntryTyped(entry, t + 1) /\ EntryMetered(Drained(meter, MaxRpm), entry, t + 1)
<1>1. EntryTyped(entry, t + 1)
    BY DEF EntryTyped, BucketBy, Bucket
<1>2. /\ PartsAt(entry.bucket, t + 1) <= PartsAt(entry.bucket, t) + entry.bucket.rpm
      /\ PartsAt(entry.bucket, t + 1) \in Nat /\ PartsAt(entry.bucket, t + 1) <= FullBurst
    BY <1>1, TickRefills, EntryParts DEF EntryTyped
<1>3. /\ PartsAt(entry.bucket, t) \in Nat /\ FullBurst \in Nat /\ MaxRpm \in Nat
      /\ entry.bucket.rpm \in Nat /\ entry.bucket.rpm <= MaxRpm
    BY EntryParts
<1>4. meter + PartsAt(entry.bucket, t) <= 2 * FullBurst
    BY DEF EntryMetered
<1>5. Drained(meter, MaxRpm) + PartsAt(entry.bucket, t + 1) <= 2 * FullBurst
    BY <1>2, <1>3, <1>4 DEF Drained
<1>6. DrainedSince(Drained(meter, MaxRpm), 2 * FullBurst, entry.lastSeen, t + 1)
    BY <1>3, DrainsOn DEF EntryTyped, EntryMetered
<1> QED BY <1>1, <1>5, <1>6 DEF EntryMetered

LEMMA SharedTick ==
    ASSUME NEW t \in Nat, NEW shared, SharedTyped(shared, t)
    PROVE  /\ SharedTyped(shared, t + 1)
           /\ \A meter \in Nat : SharedMetered(meter, shared, t) =>
                 SharedMetered(Drained(meter, MaxRpm), shared, t + 1)
           /\ \A meter \in Nat : BucketMetered(meter, shared, t) =>
                 BucketMetered(Drained(meter, shared.bucket.rpm), shared, t + 1)
<1>1. SharedTyped(shared, t + 1)
    BY DEF SharedTyped, BucketBy, Bucket
<1>2. PICK before \in Nat : before = PartsAt(shared.bucket, t)
    BY SharedParts
<1>3. PICK after \in Nat : after = PartsAt(shared.bucket, t + 1) /\ after <= Burst(shared.bucket.rpm)
    BY <1>1, SharedParts
<1>4. FullBurst \in Nat /\ MaxRpm \in Nat /\ Burst(shared.bucket.rpm) \in Nat /\ Burst(shared.bucket.rpm) <= FullBurst
    BY SharedParts
<1>5. shared.bucket.rpm \in Nat /\ shared.bucket.rpm <= MaxRpm
    BY LargestRpm DEF SharedTyped, Bucket
<1>6. after <= before + shared.bucket.rpm
    <2>1. CASE shared.bucket.rpm # 0
        BY <1>2, <1>3, <2>1, TickRefills DEF SharedTyped
    <2>2. CASE shared.bucket.rpm = 0
        <3>1. Burst(shared.bucket.rpm) = 0
            BY <2>2, MinuteAssumption DEF Burst
        <3> QED BY <1>3, <1>5, <3>1
    <2> QED BY <2>1, <2>2
<1>7. ASSUME NEW meter \in Nat, SharedMetered(meter, shared, t)
      PROVE  SharedMetered(Drained(meter, MaxRpm), shared, t + 1)
    <2>1. CASE meter <= MaxRpm
        BY <2>1 DEF Drained, SharedMetered
    <2>2. CASE ~(meter <= MaxRpm)
        <3>1. /\ shared.bucket.rpm # 0 /\ meter + before <= FullBurst
              /\ DrainedSince(meter, FullBurst, shared.lastSeen, t)
            BY <1>2, <1>4, <1>7, <2>2 DEF SharedMetered
        <3>2. Drained(meter, MaxRpm) + after <= FullBurst
            BY <1>4, <1>5, <1>6, <2>2, <3>1 DEF Drained
        <3>3. DrainedSince(Drained(meter, MaxRpm), FullBurst, shared.lastSeen, t + 1)
            BY <1>4, <3>1, DrainsOn DEF SharedTyped
        <3> QED BY <1>3, <3>1, <3>2, <3>3 DEF SharedMetered
    <2> QED BY <2>1, <2>2
<1>8. ASSUME NEW meter \in Nat, BucketMetered(meter, shared, t)
      PROVE  BucketMetered(Drained(meter, shared.bucket.rpm), shared, t + 1)
    BY <1>2, <1>3, <1>4, <1>5, <1>6, <1>8 DEF BucketMetered, Drained
<1> QED BY <1>1, <1>7, <1>8

\* A user whose entry is swept, or whose shared bucket is replaced, has nothing on its meter.
LEMMA ExpiredEmpty ==
    ASSUME NEW t \in Nat, NEW meter \in Nat
    PROVE  /\ \A entry : EntryTyped(entry, t) /\ Expired(entry.lastSeen, t) /\ EntryMetered(meter, entry, t)
                            => meter = 0
           /\ \A shared : SharedTyped(shared, t) /\ Expired(shared.lastSeen, t) /\ SharedMetered(meter, shared, t)
                            => meter = 0
<1>1. FullBurst \in Nat
    BY LargestRpm DEF FullBurst
<1>2. ASSUME NEW entry, EntryTyped(entry, t), Expired(entry.lastSeen, t), EntryMetered(meter, entry, t)
      PROVE  meter = 0
    BY <1>1, <1>2, DrainedEmpty DEF EntryTyped, EntryMetered
<1>3. ASSUME NEW shared, SharedTyped(shared, t), Expired(shared.lastSeen, t), SharedMetered(meter, shared, t)
      PROVE  meter = 0
    BY <1>1, <1>3, DrainedEmpty DEF SharedTyped, SharedMetered
<1> QED BY <1>2, <1>3

\* A user that comes back under any RPM gains nothing.
LEMMA EntryHit ==
    ASSUME NEW t \in Nat, NEW entry, EntryTyped(entry, t), NEW rpm \in Rpms,
           NEW after, after = [bucket |-> DedicatedBucket(entry, rpm, t), lastSeen |-> t]
    PROVE  /\ EntryTyped(after, t) /\ after.lastSeen = t
           /\ PartsAt(after.bucket, t) <= PartsAt(entry.bucket, t)
           /\ \A meter \in Nat : EntryMetered(meter, entry, t) => EntryMetered(meter, after, t)
<1>1. BucketBy(after.bucket, t) /\ PartsAt(after.bucket, t) <= PartsAt(entry.bucket, t)
    <2>1. CASE entry.bucket.rpm = rpm
        BY <2>1, EntryParts DEF DedicatedBucket, EntryTyped
    <2>2. CASE entry.bucket.rpm # rpm
        BY <2>2, SetRpmGainsNothing DEF DedicatedBucket, EntryTyped
    <2> QED BY <2>1, <2>2
<1>2. EntryTyped(after, t)
    BY <1>1 DEF EntryTyped
<1>3. ASSUME NEW meter \in Nat, EntryMetered(meter, entry, t) PROVE EntryMetered(meter, after, t)
    <2>1. meter + PartsAt(entry.bucket, t) <= 2 * FullBurst
        BY <1>3 DEF EntryMetered
    <2>2. /\ PartsAt(entry.bucket, t) \in Nat /\ PartsAt(after.bucket, t) \in Nat /\ FullBurst \in Nat
        BY <1>2, EntryParts
    <2>3. meter + PartsAt(after.bucket, t) <= 2 * FullBurst /\ meter <= 2 * FullBurst /\ 2 * FullBurst \in Nat
        BY <1>1, <2>1, <2>2
    <2> QED BY <2>3, DrainsFromNow DEF EntryMetered
<1> QED BY <1>1, <1>2, <1>3

\* A new entry adds one burst to what the shared bucket still lacks.
LEMMA EntryAdmitted ==
    ASSUME NEW t \in Nat, NEW shared, SharedTyped(shared, t), NEW rpm \in Rpms,
           NEW meter \in Nat, SharedMetered(meter, shared, t),
           NEW entry, entry = [bucket |-> FullBucket(rpm, t), lastSeen |-> t]
    PROVE  EntryTyped(entry, t) /\ EntryMetered(meter, entry, t) /\ BothMetered(meter, entry, shared, t)
<1>1. EntryTyped(entry, t)
    BY FullBucketTyped DEF EntryTyped
<1>2. /\ PartsAt(entry.bucket, t) \in Nat /\ PartsAt(entry.bucket, t) <= FullBurst /\ FullBurst \in Nat
    BY <1>1, EntryParts
<1>3. PartsAt(shared.bucket, t) \in Nat /\ PartsAt(shared.bucket, t) <= FullBurst
    BY <1>2, SharedParts
<1>4. meter + PartsAt(shared.bucket, t) <= FullBurst
    BY <1>3 DEF SharedMetered
<1>5. /\ meter + PartsAt(entry.bucket, t) <= 2 * FullBurst /\ meter <= 2 * FullBurst /\ 2 * FullBurst \in Nat
      /\ meter + PartsAt(entry.bucket, t) + PartsAt(shared.bucket, t) <= 2 * FullBurst
    BY <1>2, <1>3, <1>4
<1> QED BY <1>1, <1>5, DrainsFromNow DEF EntryMetered, BothMetered

\* A shared bucket that is used: new, made stricter, or as it was.
LEMMA SharedUsed ==
    ASSUME NEW t \in Nat, NEW shared, SharedTyped(shared, t), NEW rpm \in Rpms, rpm # 0,
           NEW after, after = [bucket |-> FallbackBucket(shared, rpm, t), lastSeen |-> t]
    PROVE  /\ SharedTyped(after, t) /\ after.lastSeen = t /\ after.bucket.rpm # 0
           /\ shared.bucket.rpm # 0 /\ shared.lastSeen = t =>
                 PartsAt(after.bucket, t) <= PartsAt(shared.bucket, t)
           /\ \A meter \in Nat : SharedMetered(meter, shared, t) => SharedMetered(meter, after, t)
           /\ \A meter \in Nat : BucketMetered(meter, shared, t) =>
                 BucketMetered(IF Restarts(shared, rpm, t) THEN 0 ELSE meter, after, t)
<1> DEFINE new == shared.bucket.rpm = 0 \/ Expired(shared.lastSeen, t)
           made == FallbackBucket(shared, rpm, t)
<1>1. /\ BucketBy(made, t) /\ made.rpm # 0
      /\ ~new => PartsAt(made, t) <= PartsAt(shared.bucket, t)
      /\ ~Restarts(shared, rpm, t) => made = shared.bucket
    <2>1. CASE new
        BY <2>1, FullBucketTyped DEF FallbackBucket, Restarts
    <2>2. CASE ~new /\ rpm < shared.bucket.rpm
        BY <2>2, SetRpmGainsNothing DEF FallbackBucket, Restarts, SharedTyped
    <2>3. CASE ~new /\ ~(rpm < shared.bucket.rpm)
        <3>1. made = shared.bucket /\ made.rpm # 0
            BY <2>3 DEF FallbackBucket
        <3>2. BucketBy(shared.bucket, t) /\ PartsAt(shared.bucket, t) \in Nat
            BY <2>3, SharedParts DEF SharedTyped
        <3> QED BY <2>3, <3>1, <3>2
    <2> QED BY <2>1, <2>2, <2>3
<1>2. after.bucket = made /\ after.lastSeen = t
    OBVIOUS
<1>3. SharedTyped(after, t)
    <2>1. made \in Bucket(Nat, Rpms \cup {0})
        BY <1>1 DEF BucketBy, Bucket
    <2> HIDE DEF made, new
    <2> QED BY <1>1, <1>2, <2>1 DEF SharedTyped
<1>4. /\ PartsAt(made, t) \in Nat /\ PartsAt(made, t) <= Burst(made.rpm)
      /\ PartsAt(shared.bucket, t) \in Nat /\ FullBurst \in Nat /\ Burst(made.rpm) \in Nat
    BY <1>2, <1>3, SharedParts
<1> HIDE DEF made
<1>5. shared.bucket.rpm # 0 /\ shared.lastSeen = t => ~new
    BY UserLimiterAssumption DEF Expired
<1>6. ASSUME NEW meter \in Nat, SharedMetered(meter, shared, t) PROVE SharedMetered(meter, after, t)
    <2>1. CASE new
        <3>1. meter = 0
            BY <1>6, <2>1, ExpiredEmpty DEF SharedMetered
        <3> QED BY <3>1 DEF SharedMetered
    <2>2. CASE ~new /\ meter # 0
        <3>1. meter + PartsAt(shared.bucket, t) <= FullBurst
            BY <1>6, <2>2 DEF SharedMetered
        <3>2. meter + PartsAt(made, t) <= FullBurst /\ meter <= FullBurst
            BY <1>1, <1>4, <2>2, <3>1
        <3>3. DrainedSince(meter, FullBurst, t, t)
            BY <1>4, <3>2, DrainsFromNow
        <3> QED BY <1>1, <1>2, <3>2, <3>3 DEF SharedMetered
    <2> QED BY <2>1, <2>2 DEF SharedMetered
<1>7. ASSUME NEW meter \in Nat, BucketMetered(meter, shared, t)
      PROVE  BucketMetered(IF Restarts(shared, rpm, t) THEN 0 ELSE meter, after, t)
    <2>1. CASE Restarts(shared, rpm, t)
        BY <1>2, <1>4, <2>1 DEF BucketMetered
    <2>2. CASE ~Restarts(shared, rpm, t)
        BY <1>1, <1>2, <1>7, <2>2 DEF BucketMetered
    <2> QED BY <2>1, <2>2
<1> QED BY <1>1, <1>2, <1>3, <1>5, <1>6, <1>7

\* A grant from an entry in use.
LEMMA EntryGrants ==
    ASSUME NEW t \in Nat, NEW entry, EntryTyped(entry, t), entry.lastSeen = t, Allows(entry.bucket, t),
           NEW after, after = [bucket |-> AfterGrant(entry.bucket, t), lastSeen |-> entry.lastSeen]
    PROVE  /\ EntryTyped(after, t) /\ after.lastSeen = t
           /\ PartsAt(after.bucket, t) + Minute = PartsAt(entry.bucket, t)
           /\ \A meter \in Nat : EntryMetered(meter, entry, t) => EntryMetered(meter + Minute, after, t)
<1>1. /\ BucketBy(after.bucket, t)
      /\ PartsAt(after.bucket, t) + Minute = PartsAt(entry.bucket, t)
    BY GrantTakes DEF EntryTyped
<1>2. EntryTyped(after, t) /\ after.lastSeen = t
    BY <1>1 DEF EntryTyped
<1>3. ASSUME NEW meter \in Nat, EntryMetered(meter, entry, t) PROVE EntryMetered(meter + Minute, after, t)
    <2>1. meter + PartsAt(entry.bucket, t) <= 2 * FullBurst
        BY <1>3 DEF EntryMetered
    <2>2. PartsAt(after.bucket, t) \in Nat /\ FullBurst \in Nat
        BY <1>2, EntryParts
    <2>3. /\ meter + Minute + PartsAt(after.bucket, t) <= 2 * FullBurst
          /\ meter + Minute \in Nat /\ meter + Minute <= 2 * FullBurst /\ 2 * FullBurst \in Nat
        BY <1>1, <2>1, <2>2, MinuteAssumption
    <2> QED BY <1>2, <2>3, DrainsFromNow DEF EntryMetered
<1> QED BY <1>1, <1>2, <1>3

\* A grant from a shared bucket in use.
LEMMA SharedGrants ==
    ASSUME NEW t \in Nat, NEW shared, SharedTyped(shared, t), shared.lastSeen = t,
           shared.bucket.rpm # 0, Allows(shared.bucket, t),
           NEW granted, granted = AfterGrant(shared.bucket, t),
           NEW after \in [bucket : {granted}, lastSeen : {t}]
    PROVE  /\ SharedTyped(after, t) /\ after.lastSeen = t /\ after.bucket.rpm = shared.bucket.rpm
           /\ PartsAt(after.bucket, t) + Minute = PartsAt(shared.bucket, t)
           /\ \A meter \in Nat : SharedMetered(meter, shared, t) =>
                 SharedMetered(meter, after, t) /\ SharedMetered(meter + Minute, after, t)
           /\ \A meter \in Nat : BucketMetered(meter, shared, t) => BucketMetered(meter + Minute, after, t)
<1>2. /\ BucketBy(granted, t) /\ granted.rpm = shared.bucket.rpm
      /\ PartsAt(granted, t) + Minute = PartsAt(shared.bucket, t)
    BY GrantTakes DEF SharedTyped
<1>3. after.bucket = granted /\ after.lastSeen = t /\ after \in [bucket : {granted}, lastSeen : Nat]
    OBVIOUS
<1>4. SharedTyped(after, t)
    <2>1. granted \in Bucket(Nat, Rpms \cup {0})
        BY <1>2 DEF BucketBy, Bucket
    <2> QED BY <1>2, <1>3, <2>1 DEF SharedTyped
<1>5. /\ PartsAt(granted, t) \in Nat /\ PartsAt(shared.bucket, t) \in Nat /\ FullBurst \in Nat
      /\ PartsAt(shared.bucket, t) <= FullBurst /\ Burst(granted.rpm) \in Nat
    BY <1>3, <1>4, SharedParts
<1>6. ASSUME NEW meter \in Nat, SharedMetered(meter, shared, t)
      PROVE  SharedMetered(meter, after, t) /\ SharedMetered(meter + Minute, after, t)
    <2>1. meter + PartsAt(shared.bucket, t) <= FullBurst
        BY <1>5, <1>6 DEF SharedMetered
    <2>2. /\ meter + PartsAt(granted, t) <= FullBurst /\ meter + Minute + PartsAt(granted, t) <= FullBurst
          /\ meter <= FullBurst /\ meter + Minute <= FullBurst /\ meter + Minute \in Nat
        BY <1>2, <1>5, <2>1, MinuteAssumption
    <2>3. DrainedSince(meter, FullBurst, t, t) /\ DrainedSince(meter + Minute, FullBurst, t, t)
        BY <1>5, <2>2, DrainsFromNow
    <2> QED BY <1>2, <1>3, <2>2, <2>3 DEF SharedMetered
<1>7. ASSUME NEW meter \in Nat, BucketMetered(meter, shared, t) PROVE BucketMetered(meter + Minute, after, t)
    <2>1. meter + PartsAt(shared.bucket, t) <= Burst(granted.rpm)
        BY <1>2, <1>7 DEF BucketMetered
    <2> QED BY <1>2, <1>3, <1>5, <2>1, MinuteAssumption DEF BucketMetered
<1> QED BY <1>2, <1>3, <1>4, <1>6, <1>7

-----------------------------------------------------------------------------
(* The meters of a run without delay.                                      *)

SharedOf(u) == fallback[FallbackIndexOf[u]]

UserMetered(u) ==
    IF u \in DOMAIN entries THEN EntryMetered(userMeter[u], entries[u], clock)
    ELSE SharedMetered(userMeter[u], SharedOf(u), clock)

\* A request on its way to its shared bucket, and what its user may get there.
OnItsWay(r) ==
    LET u == req[r].user IN
    /\ SharedOf(u).bucket.rpm # 0 /\ SharedOf(u).lastSeen = clock
    /\ u \in DOMAIN entries => BothMetered(userMeter[u], entries[u], SharedOf(u), clock)

Metering ==
    /\ DOMAIN fallback = FallbackBuckets
    /\ userMeter \in [Users -> Nat] /\ bucketMeter \in [FallbackBuckets -> Nat]
    /\ \A u \in DOMAIN entries : EntryTyped(entries[u], clock)
    /\ \A b \in FallbackBuckets :
          SharedTyped(fallback[b], clock) /\ BucketMetered(bucketMeter[b], fallback[b], clock)
    /\ \A u \in Users : UserMetered(u)
    /\ \A r \in Requests : req[r].pc = "allow" /\ req[r].via = "fallback" => OnItsWay(r)

Metered == maxLag = 0 => Metering

IBuckets == IStays /\ Metered

\* Without delay a request's time is the present, and so is that of what it uses.
LEMMA Punctual ==
    ASSUME IStays, maxLag = 0, NEW r \in Requests, req[r].pc # "idle"
    PROVE  /\ clock \in Nat /\ req[r].now = clock
           /\ req[r].user \in Users /\ FallbackIndexOf[req[r].user] \in FallbackBuckets
           /\ req[r].pc = "lock" => req[r].rpm \in Rpms /\ req[r].rpm # 0
           /\ req[r].pc = "allow" /\ req[r].via = "entry" /\ (\A u \in DOMAIN entries : EntryTyped(entries[u], clock)) =>
                 req[r].user \in DOMAIN entries /\ entries[req[r].user].lastSeen = clock
<1>1. /\ clock \in Nat /\ req[r].now \in Nat /\ req[r].now <= clock /\ clock <= req[r].now
      /\ req[r].user \in Users
      /\ req[r].pc = "lock" => req[r].rpm \in Rpms /\ req[r].rpm # 0
    BY DEF IStays, RegistryInv, RegistryTypes, RequestTypes, InFlight
<1>2. FallbackIndexOf[req[r].user] \in FallbackBuckets
    BY <1>1, UserLimiterAssumption
<1>3. ASSUME req[r].pc = "allow", req[r].via = "entry", \A u \in DOMAIN entries : EntryTyped(entries[u], clock)
      PROVE  req[r].user \in DOMAIN entries /\ entries[req[r].user].lastSeen = clock
    <2>1. req[r].user \in DOMAIN entries /\ req[r].now <= entries[req[r].user].lastSeen
        BY <1>3 DEF IStays, InFlight, RegistryInv, RegistryTypes
    <2>2. entries[req[r].user].lastSeen \in Nat /\ entries[req[r].user].lastSeen <= clock
        BY <1>3, <2>1 DEF EntryTyped
    <2> QED BY <1>1, <2>1, <2>2
<1> QED BY <1>1, <1>2, <1>3

\* The requests after one of them has found its bucket, or has been answered.
LEMMA OthersOnTheirWay ==
    ASSUME IStays, NEW r \in Requests, req[r].pc # "idle",
           Found(r, "entry") \/ Found(r, "fallback") \/ req' = [req EXCEPT ![r] = Idle]
    PROVE  \A q \in Requests : req'[q].pc = "allow" /\ req'[q].via = "fallback" =>
              \/ q = r /\ Found(r, "fallback") /\ req'[q].user = req[q].user
              \/ q # r /\ req'[q] = req[q]
BY DEF IStays, RegistryInv, RegistryTypes, Found, Idle

\* An entry that is swept leaves its user nothing on the meter.
LEMMA SweepMeters ==
    ASSUME IStays, Metering, NEW left, DOMAIN left \subseteq DOMAIN entries,
           \A v \in DOMAIN left : left[v] = entries[v],
           \A v \in DOMAIN entries \ DOMAIN left : Expired(entries[v].lastSeen, clock)
    PROVE  /\ \A v \in DOMAIN left : v \in Users /\ EntryTyped(left[v], clock)
           /\ \A v \in Users : v \in DOMAIN left => EntryMetered(userMeter[v], left[v], clock)
           /\ \A v \in Users \ DOMAIN left : SharedMetered(userMeter[v], SharedOf(v), clock)
<1>1. clock \in Nat /\ DOMAIN entries \subseteq Users
    BY DEF IStays, RegistryInv, RegistryTypes
<1>2. ASSUME NEW v \in Users \ DOMAIN left PROVE SharedMetered(userMeter[v], SharedOf(v), clock)
    <2>1. CASE v \notin DOMAIN entries
        BY <2>1 DEF Metering, UserMetered
    <2>2. CASE v \in DOMAIN entries
        <3>1. /\ EntryTyped(entries[v], clock) /\ Expired(entries[v].lastSeen, clock)
              /\ EntryMetered(userMeter[v], entries[v], clock) /\ userMeter[v] \in Nat
            BY <2>2 DEF Metering, UserMetered
        <3>2. userMeter[v] = 0
            BY <1>1, <3>1, ExpiredEmpty
        <3> QED BY <3>2 DEF SharedMetered
    <2> QED BY <2>1, <2>2
<1>3. ASSUME NEW v \in Users, v \in DOMAIN left PROVE EntryMetered(userMeter[v], left[v], clock)
    BY <1>3 DEF Metering, UserMetered
<1>4. \A v \in DOMAIN left : v \in Users /\ EntryTyped(left[v], clock)
    BY <1>1 DEF Metering
<1> QED BY <1>2, <1>3, <1>4

\* The registry a request finds has lost expired entries only.
LEMMA RegistryLeft ==
    ASSUME NEW now
    PROVE  /\ DOMAIN RegistryFor(now) \subseteq DOMAIN entries
           /\ \A v \in DOMAIN RegistryFor(now) : RegistryFor(now)[v] = entries[v]
           /\ \A v \in DOMAIN entries \ DOMAIN RegistryFor(now) : Expired(entries[v].lastSeen, now)
BY DEF RegistryFor, Unexpired

\* allowAt for a user that has an entry.
LEMMA HitMeters ==
    ASSUME IStays, Metering, maxLag = 0, NEW r \in Requests, AllowAtHit(r)
    PROVE  Metering'
<1>1. PICK u : u = req[r].user
    OBVIOUS
<1>2. /\ req[r].pc = "lock" /\ u \in DOMAIN entries /\ u \in Users /\ clock \in Nat
      /\ req[r].now = clock /\ req[r].rpm \in Rpms
    BY <1>1, Punctual DEF AllowAtHit
<1>3. PICK after : after = [bucket |-> DedicatedBucket(entries[u], req[r].rpm, clock), lastSeen |-> clock]
    OBVIOUS
<1>4. /\ entries' = [entries EXCEPT ![u] = after]
      /\ UNCHANGED <<clock, fallback, userMeter, bucketMeter>> /\ Found(r, "entry")
    BY <1>1, <1>2, <1>3 DEF AllowAtHit, SeenOnHit
<1>5. /\ DOMAIN entries' = DOMAIN entries /\ entries'[u] = after
      /\ \A v \in DOMAIN entries \ {u} : entries'[v] = entries[v]
    BY <1>2, <1>4
<1>6. EntryTyped(entries[u], clock) /\ EntryMetered(userMeter[u], entries[u], clock) /\ userMeter[u] \in Nat
    BY <1>2 DEF Metering, UserMetered
<1>7. /\ EntryTyped(after, clock) /\ after.lastSeen = clock
      /\ PartsAt(after.bucket, clock) <= PartsAt(entries[u].bucket, clock)
      /\ EntryMetered(userMeter[u], after, clock)
    BY <1>2, <1>3, <1>6, EntryHit
<1>8. ASSUME NEW v \in Users PROVE UserMetered(v)'
    BY <1>4, <1>5, <1>7 DEF Metering, UserMetered, SharedOf
<1>9. ASSUME NEW q \in Requests, req'[q].pc = "allow", req'[q].via = "fallback" PROVE OnItsWay(q)'
    <2>1. req'[q] = req[q]
        BY <1>2, <1>4, <1>9, OthersOnTheirWay DEF Found, IStays, RegistryInv, RegistryTypes
    <2>2. OnItsWay(q) /\ q \in Requests /\ req[q].pc = "allow"
        BY <1>9, <2>1 DEF Metering
    <2>3. CASE req[q].user # u
        BY <1>4, <1>5, <2>1, <2>2, <2>3 DEF OnItsWay, SharedOf
    <2>4. CASE req[q].user = u
        <3>1. BothMetered(userMeter[u], entries[u], SharedOf(u), clock)
            BY <1>2, <2>2, <2>4 DEF OnItsWay
        <3>2. SharedTyped(SharedOf(u), clock)
            BY <2>2, <2>4, Punctual DEF Metering, SharedOf
        <3>3. /\ PartsAt(after.bucket, clock) \in Nat /\ PartsAt(entries[u].bucket, clock) \in Nat
              /\ PartsAt(SharedOf(u).bucket, clock) \in Nat /\ FullBurst \in Nat
            BY <1>2, <1>6, <1>7, <3>2, EntryParts, SharedParts
        <3>4. BothMetered(userMeter[u], after, SharedOf(u), clock)
            BY <1>6, <1>7, <3>1, <3>3 DEF BothMetered
        <3> QED BY <1>4, <1>5, <2>1, <2>2, <2>4, <3>4 DEF OnItsWay, SharedOf
    <2> QED BY <2>3, <2>4
<1>10. \A v \in DOMAIN entries' : EntryTyped(entries'[v], clock')
    BY <1>4, <1>5, <1>7 DEF Metering
<1> QED BY <1>4, <1>8, <1>9, <1>10 DEF Metering

\* allowAt for a user that gets an entry.
LEMMA AdmitMeters ==
    ASSUME IStays, Metering, maxLag = 0, NEW r \in Requests, AllowAtAdmit(r)
    PROVE  Metering'
<1>1. PICK u, left : u = req[r].user /\ left = RegistryFor(clock)
    OBVIOUS
<1>2. /\ req[r].pc = "lock" /\ u \notin DOMAIN entries /\ u \in Users /\ clock \in Nat
      /\ FallbackIndexOf[u] \in FallbackBuckets
      /\ req[r].now = clock /\ req[r].rpm \in Rpms
    BY <1>1, Punctual DEF AllowAtAdmit
<1>3. PICK entry : entry = [bucket |-> FullBucket(req[r].rpm, clock), lastSeen |-> clock]
    OBVIOUS
<1>4. /\ entries' = With(left, u, entry)
      /\ UNCHANGED <<clock, fallback, userMeter, bucketMeter>> /\ Found(r, "entry")
    BY <1>1, <1>2, <1>3 DEF AllowAtAdmit
<1>5. /\ DOMAIN entries' = DOMAIN left \cup {u} /\ entries'[u] = entry
      /\ \A v \in DOMAIN left \ {u} : entries'[v] = left[v]
    BY <1>4 DEF With
<1>6. /\ DOMAIN left \subseteq DOMAIN entries
      /\ \A v \in DOMAIN left : left[v] = entries[v]
      /\ \A v \in DOMAIN entries \ DOMAIN left : Expired(entries[v].lastSeen, clock)
    BY <1>1, RegistryLeft
<1>7. /\ \A v \in DOMAIN left : v \in Users /\ EntryTyped(left[v], clock)
      /\ \A v \in Users : v \in DOMAIN left => EntryMetered(userMeter[v], left[v], clock)
      /\ \A v \in Users \ DOMAIN left : SharedMetered(userMeter[v], SharedOf(v), clock)
    BY <1>6, SweepMeters
<1>8. /\ SharedTyped(SharedOf(u), clock) /\ userMeter[u] \in Nat
      /\ SharedMetered(userMeter[u], SharedOf(u), clock)
    BY <1>2, <1>6, <1>7 DEF Metering, SharedOf
<1>9. /\ EntryTyped(entry, clock) /\ EntryMetered(userMeter[u], entry, clock)
      /\ BothMetered(userMeter[u], entry, SharedOf(u), clock)
    BY <1>2, <1>3, <1>8, EntryAdmitted
<1>10. ASSUME NEW v \in Users PROVE UserMetered(v)'
    BY <1>4, <1>5, <1>7, <1>9 DEF UserMetered, SharedOf
<1>11. ASSUME NEW q \in Requests, req'[q].pc = "allow", req'[q].via = "fallback" PROVE OnItsWay(q)'
    <2>1. req'[q] = req[q]
        BY <1>2, <1>4, <1>11, OthersOnTheirWay DEF Found, IStays, RegistryInv, RegistryTypes
    <2>2. OnItsWay(q)
        BY <1>11, <2>1 DEF Metering
    <2>3. CASE req[q].user # u
        BY <1>4, <1>5, <1>6, <2>1, <2>2, <2>3 DEF OnItsWay, SharedOf
    <2>4. CASE req[q].user = u
        BY <1>4, <1>5, <1>9, <2>1, <2>2, <2>4 DEF OnItsWay, SharedOf
    <2> QED BY <2>3, <2>4
<1>12. \A v \in DOMAIN entries' : EntryTyped(entries'[v], clock')
    BY <1>4, <1>5, <1>7, <1>9
<1> QED BY <1>4, <1>10, <1>11, <1>12 DEF Metering

\* allowAt for a user that is sent to its shared bucket.
LEMMA FallbackMeters ==
    ASSUME IStays, Metering, maxLag = 0, NEW r \in Requests, AllowAtFallback(r)
    PROVE  Metering'
<1>1. PICK u, b, rpm : u = req[r].user /\ b = FallbackIndexOf[u] /\ rpm = req[r].rpm
    OBVIOUS
<1>2. /\ req[r].pc = "lock" /\ u \notin DOMAIN entries /\ u \in Users /\ clock \in Nat
      /\ b \in FallbackBuckets /\ req[r].now = clock /\ rpm \in Rpms /\ rpm # 0
    BY <1>1, Punctual DEF AllowAtFallback
<1>3. PICK after : after = [bucket |-> FallbackBucket(fallback[b], rpm, clock), lastSeen |-> clock]
    OBVIOUS
<1>4. /\ entries' = RegistryFor(clock)
      /\ fallback' = [fallback EXCEPT ![b] = after]
      /\ bucketMeter' = [bucketMeter EXCEPT ![b] =
            IF Restarts(fallback[b], rpm, clock) THEN 0 ELSE bucketMeter[b]]
      /\ UNCHANGED <<clock, userMeter>> /\ Found(r, "fallback")
    BY <1>1, <1>2, <1>3 DEF AllowAtFallback
<1>5. /\ DOMAIN entries' \subseteq DOMAIN entries
      /\ \A v \in DOMAIN entries' : entries'[v] = entries[v]
      /\ \A v \in DOMAIN entries \ DOMAIN entries' : Expired(entries[v].lastSeen, clock)
    BY <1>4, RegistryLeft
<1>6. /\ \A v \in DOMAIN entries' : v \in Users /\ EntryTyped(entries'[v], clock)
      /\ \A v \in Users : v \in DOMAIN entries' => EntryMetered(userMeter[v], entries'[v], clock)
      /\ \A v \in Users \ DOMAIN entries' : SharedMetered(userMeter[v], SharedOf(v), clock)
    BY <1>5, SweepMeters
<1>7. /\ DOMAIN fallback' = FallbackBuckets /\ fallback'[b] = after
      /\ \A c \in FallbackBuckets \ {b} : fallback'[c] = fallback[c]
    BY <1>2, <1>4 DEF Metering
<1>8. PICK met : met = IF Restarts(fallback[b], rpm, clock) THEN 0 ELSE bucketMeter[b]
    OBVIOUS
<1>9. /\ bucketMeter' \in [FallbackBuckets -> Nat] /\ bucketMeter'[b] = met
      /\ \A c \in FallbackBuckets \ {b} : bucketMeter'[c] = bucketMeter[c]
    <2>1. bucketMeter \in [FallbackBuckets -> Nat] /\ met \in Nat
        BY <1>2, <1>8 DEF Metering
    <2>2. bucketMeter' = [bucketMeter EXCEPT ![b] = met]
        BY <1>4, <1>8
    <2> QED BY <1>2, <2>1, <2>2
<1>10. SharedTyped(fallback[b], clock) /\ BucketMetered(bucketMeter[b], fallback[b], clock) /\ bucketMeter[b] \in Nat
    BY <1>2 DEF Metering
<1>11. /\ SharedTyped(after, clock) /\ after.lastSeen = clock /\ after.bucket.rpm # 0
       /\ fallback[b].bucket.rpm # 0 /\ fallback[b].lastSeen = clock =>
             PartsAt(after.bucket, clock) <= PartsAt(fallback[b].bucket, clock)
       /\ \A meter \in Nat : SharedMetered(meter, fallback[b], clock) => SharedMetered(meter, after, clock)
       /\ BucketMetered(met, after, clock)
    BY <1>2, <1>3, <1>8, <1>10, SharedUsed
<1>12. ASSUME NEW v \in Users PROVE UserMetered(v)'
    <2>1. CASE v \in DOMAIN entries'
        BY <1>4, <1>6, <2>1 DEF UserMetered
    <2>2. CASE v \notin DOMAIN entries'
        <3>1. SharedMetered(userMeter[v], SharedOf(v), clock) /\ userMeter[v] \in Nat
            BY <1>6, <2>2 DEF Metering
        <3>2. FallbackIndexOf[v] \in FallbackBuckets
            BY UserLimiterAssumption
        <3>3. SharedMetered(userMeter[v], fallback'[FallbackIndexOf[v]], clock)
            BY <1>7, <1>11, <3>1, <3>2 DEF SharedOf
        <3> QED BY <1>4, <2>2, <3>3 DEF UserMetered, SharedOf
    <2> QED BY <2>1, <2>2
<1>13. ASSUME NEW q \in Requests, req'[q].pc = "allow", req'[q].via = "fallback" PROVE OnItsWay(q)'
    <2>1. \/ q = r /\ req'[q].user = u
          \/ q # r /\ req'[q] = req[q]
        BY <1>1, <1>2, <1>4, <1>13, OthersOnTheirWay
    <2>2. CASE q = r /\ req'[q].user = u
        <3>1. u \notin DOMAIN entries'
            BY <1>2, <1>5
        <3> QED BY <1>1, <1>4, <1>7, <1>11, <2>2, <3>1 DEF OnItsWay, SharedOf
    <2>3. CASE q # r /\ req'[q] = req[q]
        <3>1. PICK v : v = req[q].user
            OBVIOUS
        <3>2. v \in Users /\ FallbackIndexOf[v] \in FallbackBuckets /\ OnItsWay(q)
            BY <1>13, <2>3, <3>1, Punctual DEF Metering
        <3>3. CASE FallbackIndexOf[v] # b
            BY <1>4, <1>5, <1>7, <2>3, <3>1, <3>2, <3>3 DEF OnItsWay, SharedOf
        <3>4. CASE FallbackIndexOf[v] = b
            <4>1. /\ fallback[b].bucket.rpm # 0 /\ fallback[b].lastSeen = clock
                  /\ PartsAt(after.bucket, clock) <= PartsAt(fallback[b].bucket, clock)
                BY <1>11, <3>1, <3>2, <3>4 DEF OnItsWay, SharedOf
            <4>2. ASSUME v \in DOMAIN entries'
                  PROVE  BothMetered(userMeter[v], entries'[v], after, clock)
                <5>1. BothMetered(userMeter[v], entries'[v], fallback[b], clock)
                    BY <1>5, <3>1, <3>2, <3>4, <4>2 DEF OnItsWay, SharedOf
                <5>2. /\ PartsAt(after.bucket, clock) \in Nat /\ PartsAt(fallback[b].bucket, clock) \in Nat
                      /\ PartsAt(entries'[v].bucket, clock) \in Nat /\ FullBurst \in Nat /\ userMeter[v] \in Nat
                    BY <1>2, <1>6, <1>10, <1>11, <3>2, <4>2, EntryParts, SharedParts DEF Metering
                <5> QED BY <4>1, <5>1, <5>2 DEF BothMetered
            <4> QED BY <1>4, <1>7, <1>11, <2>3, <3>1, <3>4, <4>2 DEF OnItsWay, SharedOf
        <3> QED BY <3>3, <3>4
    <2> QED BY <2>1, <2>2, <2>3
<1>14. \A c \in FallbackBuckets :
          SharedTyped(fallback'[c], clock') /\ BucketMetered(bucketMeter'[c], fallback'[c], clock')
    BY <1>4, <1>7, <1>9, <1>11 DEF Metering
<1> QED BY <1>4, <1>6, <1>7, <1>9, <1>12, <1>13, <1>14 DEF Metering

\* A request asks the bucket of its user's entry.
LEMMA DedicatedMeters ==
    ASSUME IStays, Metering, maxLag = 0, NEW r \in Requests, AllowDedicated(r)
    PROVE  Metering'
<1>1. PICK u : u = req[r].user
    OBVIOUS
<1>2. /\ req[r].pc = "allow" /\ u \in Users /\ u \in DOMAIN entries /\ entries[u].lastSeen = clock
      /\ clock \in Nat /\ req[r].now = clock
    BY <1>1, Punctual DEF AllowDedicated, Metering
<1>3. /\ req' = [req EXCEPT ![r] = Idle] /\ UNCHANGED <<clock, fallback, bucketMeter>>
    BY DEF AllowDedicated
<1>4. ASSUME NEW q \in Requests, req'[q].pc = "allow", req'[q].via = "fallback"
      PROVE  req'[q] = req[q] /\ OnItsWay(q)
    <2>1. q # r /\ req'[q] = req[q]
        BY <1>3, <1>4 DEF Idle, IStays, RegistryInv, RegistryTypes
    <2> QED BY <1>4, <2>1 DEF Metering
<1>5. CASE UNCHANGED <<entries, userMeter>>
    BY <1>3, <1>4, <1>5 DEF Metering, UserMetered, OnItsWay, SharedOf
<1>6. CASE ~UNCHANGED <<entries, userMeter>>
    <2>1. PICK after : after = [bucket |-> AfterGrant(entries[u].bucket, clock), lastSeen |-> entries[u].lastSeen]
        OBVIOUS
    <2>2. /\ Allows(entries[u].bucket, clock)
          /\ entries' = [entries EXCEPT ![u] = after]
          /\ userMeter' = [userMeter EXCEPT ![u] = @ + Minute]
        BY <1>1, <1>2, <1>6, <2>1 DEF AllowDedicated
    <2>3. /\ DOMAIN entries' = DOMAIN entries /\ entries'[u] = after
          /\ \A v \in DOMAIN entries \ {u} : entries'[v] = entries[v]
        BY <1>2, <2>2
    <2>4. /\ userMeter' \in [Users -> Nat] /\ userMeter'[u] = userMeter[u] + Minute
          /\ \A v \in Users \ {u} : userMeter'[v] = userMeter[v]
        BY <1>2, <2>2, MinuteAssumption DEF Metering
    <2>5. EntryTyped(entries[u], clock) /\ EntryMetered(userMeter[u], entries[u], clock) /\ userMeter[u] \in Nat
        BY <1>2 DEF Metering, UserMetered
    <2>6. /\ EntryTyped(after, clock) /\ after.lastSeen = clock
          /\ PartsAt(after.bucket, clock) + Minute = PartsAt(entries[u].bucket, clock)
          /\ EntryMetered(userMeter[u] + Minute, after, clock)
        BY <1>2, <2>1, <2>2, <2>5, EntryGrants
    <2>7. ASSUME NEW v \in Users PROVE UserMetered(v)'
        <3>1. UserMetered(v)
            BY DEF Metering
        <3>2. CASE v # u
            BY <1>3, <2>3, <2>4, <3>1, <3>2 DEF UserMetered, SharedOf
        <3>3. CASE v = u
            BY <1>2, <1>3, <2>3, <2>4, <2>6, <3>3 DEF UserMetered
        <3> QED BY <3>2, <3>3
    <2>8. ASSUME NEW q \in Requests, req'[q].pc = "allow", req'[q].via = "fallback" PROVE OnItsWay(q)'
        <3>1. req'[q] = req[q] /\ OnItsWay(q)
            BY <1>4, <2>8
        <3>2. PICK v : v = req[q].user
            OBVIOUS
        <3>3. v \in Users /\ FallbackIndexOf[v] \in FallbackBuckets
            BY <2>8, <3>1, <3>2, Punctual
        <3>4. CASE v # u
            BY <1>3, <2>3, <2>4, <3>1, <3>2, <3>3, <3>4 DEF OnItsWay, SharedOf
        <3>5. CASE v = u
            <4>1. BothMetered(userMeter[u], entries[u], SharedOf(u), clock)
                BY <1>2, <3>1, <3>2, <3>5 DEF OnItsWay
            <4>2. SharedTyped(SharedOf(u), clock)
                BY <3>3, <3>5 DEF Metering, SharedOf
            <4>3. /\ PartsAt(after.bucket, clock) \in Nat /\ PartsAt(SharedOf(u).bucket, clock) \in Nat
                  /\ FullBurst \in Nat /\ Minute \in Nat
                BY <1>2, <2>6, <4>2, EntryParts, SharedParts, MinuteAssumption
            <4>4. BothMetered(userMeter[u] + Minute, after, SharedOf(u), clock)
                BY <2>5, <2>6, <4>1, <4>3 DEF BothMetered
            <4> QED BY <1>3, <2>3, <2>4, <3>1, <3>2, <3>5, <4>4 DEF OnItsWay, SharedOf
        <3> QED BY <3>4, <3>5
    <2>9. \A v \in DOMAIN entries' : EntryTyped(entries'[v], clock')
        BY <1>3, <2>3, <2>6 DEF Metering
    <2> QED BY <1>3, <2>4, <2>7, <2>8, <2>9 DEF Metering
<1> QED BY <1>5, <1>6

\* A request asks its shared bucket.
LEMMA SharedMeters ==
    ASSUME IStays, Metering, maxLag = 0, NEW r \in Requests, AllowShared(r)
    PROVE  Metering'
<1>1. PICK u, b : u = req[r].user /\ b = FallbackIndexOf[u]
    OBVIOUS
<1>2. /\ req[r].pc = "allow" /\ req[r].via = "fallback" /\ u \in Users /\ b \in FallbackBuckets
      /\ clock \in Nat /\ req[r].now = clock
    BY <1>1, Punctual DEF AllowShared
<1>3. /\ req' = [req EXCEPT ![r] = Idle] /\ UNCHANGED <<clock, entries>>
    BY DEF AllowShared
<1>4. ASSUME NEW q \in Requests, req'[q].pc = "allow", req'[q].via = "fallback"
      PROVE  req'[q] = req[q] /\ OnItsWay(q)
    <2>1. q # r /\ req'[q] = req[q]
        BY <1>3, <1>4 DEF Idle, IStays, RegistryInv, RegistryTypes
    <2> QED BY <1>4, <2>1 DEF Metering
<1>5. CASE UNCHANGED <<fallback, userMeter, bucketMeter>>
    BY <1>3, <1>4, <1>5 DEF Metering, UserMetered, OnItsWay, SharedOf
<1>6. CASE ~UNCHANGED <<fallback, userMeter, bucketMeter>>
    <2>1. PICK after : after = [fallback[b] EXCEPT !.bucket = AfterGrant(fallback[b].bucket, clock)]
        OBVIOUS
    <2>2. /\ Allows(fallback[b].bucket, clock)
          /\ fallback' = [fallback EXCEPT ![b].bucket = AfterGrant(fallback[b].bucket, clock)]
          /\ userMeter' = [userMeter EXCEPT ![u] = @ + Minute]
          /\ bucketMeter' = [bucketMeter EXCEPT ![b] = @ + Minute]
        BY <1>1, <1>2, <1>6 DEF AllowShared
    <2>3. /\ DOMAIN fallback' = FallbackBuckets /\ fallback'[b] = after
          /\ \A c \in FallbackBuckets \ {b} : fallback'[c] = fallback[c]
        BY <1>2, <2>1, <2>2 DEF Metering
    <2>4. /\ userMeter' \in [Users -> Nat] /\ userMeter'[u] = userMeter[u] + Minute
          /\ \A v \in Users \ {u} : userMeter'[v] = userMeter[v]
        BY <1>2, <2>2, MinuteAssumption DEF Metering
    <2>5. /\ bucketMeter' \in [FallbackBuckets -> Nat] /\ bucketMeter'[b] = bucketMeter[b] + Minute
          /\ \A c \in FallbackBuckets \ {b} : bucketMeter'[c] = bucketMeter[c]
        BY <1>2, <2>2, MinuteAssumption DEF Metering
    <2>6. /\ SharedTyped(fallback[b], clock) /\ BucketMetered(bucketMeter[b], fallback[b], clock)
          /\ bucketMeter[b] \in Nat /\ userMeter[u] \in Nat
        BY <1>2 DEF Metering
    <2>7. OnItsWay(r) /\ fallback[b].bucket.rpm # 0 /\ fallback[b].lastSeen = clock
        BY <1>1, <1>2 DEF Metering, OnItsWay, SharedOf
    <2>8. /\ SharedTyped(after, clock) /\ after.lastSeen = clock /\ after.bucket.rpm = fallback[b].bucket.rpm
          /\ PartsAt(after.bucket, clock) + Minute = PartsAt(fallback[b].bucket, clock)
          /\ \A meter \in Nat : SharedMetered(meter, fallback[b], clock) =>
                SharedMetered(meter, after, clock) /\ SharedMetered(meter + Minute, after, clock)
          /\ BucketMetered(bucketMeter[b] + Minute, after, clock)
        <3>1. PICK shared, granted : shared = fallback[b] /\ granted = AfterGrant(shared.bucket, clock)
            OBVIOUS
        <3>2. /\ SharedTyped(shared, clock) /\ shared.lastSeen = clock /\ shared.bucket.rpm # 0
              /\ Allows(shared.bucket, clock)
            BY <2>2, <2>6, <2>7, <3>1
        <3>3. after \in [bucket : {granted}, lastSeen : {clock}]
            BY <2>1, <3>1, <3>2 DEF SharedTyped
        <3>4. /\ SharedTyped(after, clock) /\ after.lastSeen = clock /\ after.bucket.rpm = shared.bucket.rpm
              /\ PartsAt(after.bucket, clock) + Minute = PartsAt(shared.bucket, clock)
              /\ \A meter \in Nat : SharedMetered(meter, shared, clock) =>
                    SharedMetered(meter, after, clock) /\ SharedMetered(meter + Minute, after, clock)
              /\ \A meter \in Nat : BucketMetered(meter, shared, clock) => BucketMetered(meter + Minute, after, clock)
            BY <1>2, <3>1, <3>2, <3>3, SharedGrants
        <3> QED BY <2>6, <3>1, <3>4
    <2>9. /\ PartsAt(after.bucket, clock) \in Nat /\ FullBurst \in Nat /\ Minute \in Nat
          /\ PartsAt(fallback[b].bucket, clock) \in Nat /\ PartsAt(fallback[b].bucket, clock) <= FullBurst
        BY <1>2, <2>6, <2>8, SharedParts, MinuteAssumption
    <2>10. ASSUME NEW v \in Users PROVE UserMetered(v)'
        <3>1. UserMetered(v) /\ userMeter[v] \in Nat /\ FallbackIndexOf[v] \in FallbackBuckets
            BY UserLimiterAssumption DEF Metering
        <3>2. CASE v \notin DOMAIN entries
            <4>1. SharedMetered(userMeter'[v], fallback'[FallbackIndexOf[v]], clock)
                BY <1>1, <2>3, <2>4, <2>8, <3>1, <3>2 DEF UserMetered, SharedOf
            <4> QED BY <1>3, <3>2, <4>1 DEF UserMetered, SharedOf
        <3>3. CASE v \in DOMAIN entries /\ v # u
            BY <1>3, <2>4, <3>1, <3>3 DEF UserMetered
        <3>4. CASE v \in DOMAIN entries /\ v = u
            <4>1. BothMetered(userMeter[u], entries[u], fallback[b], clock)
                BY <1>1, <2>7, <3>4 DEF OnItsWay, SharedOf
            <4>2. EntryTyped(entries[u], clock) /\ PartsAt(entries[u].bucket, clock) \in Nat
                BY <1>2, <3>4, EntryParts DEF Metering
            <4>3. /\ userMeter[u] + Minute + PartsAt(entries[u].bucket, clock) <= 2 * FullBurst
                  /\ userMeter[u] + Minute <= 2 * FullBurst
                BY <2>6, <2>8, <2>9, <4>1, <4>2 DEF BothMetered
            <4>4. EntryMetered(userMeter[u] + Minute, entries[u], clock)
                BY <1>2, <2>6, <2>9, <4>1, <4>3, DrainsFromNow DEF EntryMetered, BothMetered
            <4> QED BY <1>3, <2>4, <3>4, <4>4 DEF UserMetered
        <3> QED BY <3>2, <3>3, <3>4
    <2>11. ASSUME NEW q \in Requests, req'[q].pc = "allow", req'[q].via = "fallback" PROVE OnItsWay(q)'
        <3>1. req'[q] = req[q] /\ OnItsWay(q)
            BY <1>4, <2>11
        <3>2. PICK v : v = req[q].user
            OBVIOUS
        <3>3. v \in Users /\ FallbackIndexOf[v] \in FallbackBuckets
            BY <2>11, <3>1, <3>2, Punctual
        <3>4. CASE FallbackIndexOf[v] # b
            <4>1. v # u
                BY <1>1, <3>4
            <4> QED BY <1>3, <2>3, <2>4, <3>1, <3>2, <3>3, <3>4, <4>1 DEF OnItsWay, SharedOf
        <3>5. CASE FallbackIndexOf[v] = b
            <4>1. ASSUME v \in DOMAIN entries
                  PROVE  BothMetered(userMeter'[v], entries[v], after, clock)
                <5>1. BothMetered(userMeter[v], entries[v], fallback[b], clock)
                    BY <3>1, <3>2, <3>5, <4>1 DEF OnItsWay, SharedOf
                <5>2. EntryTyped(entries[v], clock) /\ PartsAt(entries[v].bucket, clock) \in Nat /\ userMeter[v] \in Nat
                    BY <1>2, <3>3, <4>1, EntryParts DEF Metering
                <5>3. userMeter'[v] \in Nat /\ userMeter'[v] <= userMeter[v] + Minute
                    BY <2>4, <2>9, <3>3, <5>2
                <5> QED BY <2>8, <2>9, <5>1, <5>2, <5>3 DEF BothMetered
            <4> QED BY <1>3, <2>3, <2>7, <2>8, <3>1, <3>2, <3>5, <4>1 DEF OnItsWay, SharedOf
        <3> QED BY <3>4, <3>5
    <2>12. \A c \in FallbackBuckets :
              SharedTyped(fallback'[c], clock') /\ BucketMetered(bucketMeter'[c], fallback'[c], clock')
        BY <1>3, <2>3, <2>5, <2>8 DEF Metering
    <2>13. \A v \in DOMAIN entries' : EntryTyped(entries'[v], clock')
        BY <1>3 DEF Metering
    <2> QED BY <1>3, <2>3, <2>4, <2>5, <2>10, <2>11, <2>12, <2>13 DEF Metering
<1> QED BY <1>5, <1>6

\* The ticker sweeps.
LEMMA CleanupMeters ==
    ASSUME IStays, Metering, maxLag = 0, Cleanup
    PROVE  Metering'
<1>1. /\ entries' = Unexpired(entries, clock)
      /\ UNCHANGED <<clock, fallback, req, userMeter, bucketMeter>>
    <2>1. PICK lag \in 0..0 : entries' = Unexpired(entries, clock - lag)
        BY DEF Cleanup
    <2>2. clock - lag = clock
        BY <2>1 DEF IStays, RegistryInv, RegistryTypes
    <2> QED BY <2>1, <2>2 DEF Cleanup
<1>2. /\ DOMAIN entries' \subseteq DOMAIN entries
      /\ \A v \in DOMAIN entries' : entries'[v] = entries[v]
      /\ \A v \in DOMAIN entries \ DOMAIN entries' : Expired(entries[v].lastSeen, clock)
    BY <1>1 DEF Unexpired
<1>3. /\ \A v \in DOMAIN entries' : v \in Users /\ EntryTyped(entries'[v], clock)
      /\ \A v \in Users : v \in DOMAIN entries' => EntryMetered(userMeter[v], entries'[v], clock)
      /\ \A v \in Users \ DOMAIN entries' : SharedMetered(userMeter[v], SharedOf(v), clock)
    BY <1>2, SweepMeters
<1>4. \A v \in Users : UserMetered(v)'
    BY <1>1, <1>3 DEF UserMetered, SharedOf
<1>5. ASSUME NEW q \in Requests, req'[q].pc = "allow", req'[q].via = "fallback" PROVE OnItsWay(q)'
    <2>1. OnItsWay(q) /\ req'[q] = req[q]
        BY <1>1, <1>5 DEF Metering
    <2> QED BY <1>1, <1>2, <2>1 DEF OnItsWay, SharedOf
<1> QED BY <1>1, <1>3, <1>4, <1>5 DEF Metering

\* Time passes when nobody is on its way.
LEMMA TickMeters ==
    ASSUME IStays, Metering, maxLag = 0, Tick
    PROVE  Metering'
<1>1. /\ clock \in Nat /\ clock' = clock + 1 /\ UNCHANGED <<entries, fallback, req>>
      /\ userMeter' = [u \in Users |-> Drained(userMeter[u], MaxRpm)]
      /\ bucketMeter' = [b \in FallbackBuckets |-> Drained(bucketMeter[b], fallback[b].bucket.rpm)]
    BY DEF Tick, IStays, RegistryInv, RegistryTypes
<1>2. \A q \in Requests : req[q].pc = "idle"
    <2>1. \A q \in Requests : req[q].pc # "idle" => clock < req[q].now + 0
        BY DEF Tick
    <2>2. \A q \in Requests : req[q].pc # "idle" => req[q].now = clock
        BY Punctual
    <2> QED BY <1>1, <2>1, <2>2
<1>3. \A u \in DOMAIN entries : u \in Users
    BY DEF IStays, RegistryInv, RegistryTypes
<1>4. ASSUME NEW u \in Users
      PROVE  /\ userMeter[u] \in Nat /\ userMeter'[u] = Drained(userMeter[u], MaxRpm) /\ userMeter'[u] \in Nat
             /\ FallbackIndexOf[u] \in FallbackBuckets
    BY <1>1, LargestRpm, UserLimiterAssumption DEF Metering, Drained
<1>5. ASSUME NEW u \in DOMAIN entries
      PROVE  EntryTyped(entries[u], clock + 1) /\ EntryMetered(userMeter'[u], entries[u], clock + 1)
    <2>1. EntryTyped(entries[u], clock) /\ EntryMetered(userMeter[u], entries[u], clock)
        BY <1>3 DEF Metering, UserMetered
    <2> QED BY <1>1, <1>3, <1>4, <2>1, EntryTick
<1>6. ASSUME NEW b \in FallbackBuckets
      PROVE  /\ bucketMeter'[b] \in Nat
             /\ SharedTyped(fallback[b], clock + 1)
             /\ BucketMetered(bucketMeter'[b], fallback[b], clock + 1)
             /\ \A meter \in Nat : SharedMetered(meter, fallback[b], clock) =>
                   SharedMetered(Drained(meter, MaxRpm), fallback[b], clock + 1)
    <2>1. SharedTyped(fallback[b], clock) /\ BucketMetered(bucketMeter[b], fallback[b], clock) /\ bucketMeter[b] \in Nat
        BY DEF Metering
    <2>2. bucketMeter'[b] = Drained(bucketMeter[b], fallback[b].bucket.rpm)
        BY <1>1
    <2>3. fallback[b].bucket.rpm \in Nat
        BY <2>1, LargestRpm DEF SharedTyped, Bucket
    <2>4. bucketMeter'[b] \in Nat
        BY <2>1, <2>2, <2>3 DEF Drained
    <2> QED BY <1>1, <2>1, <2>2, <2>4, SharedTick
<1>7. ASSUME NEW u \in Users PROVE UserMetered(u)'
    <2>1. CASE u \in DOMAIN entries
        BY <1>1, <1>5, <2>1 DEF UserMetered
    <2>2. CASE u \notin DOMAIN entries
        <3>1. SharedMetered(userMeter[u], fallback[FallbackIndexOf[u]], clock)
            BY <2>2 DEF Metering, UserMetered, SharedOf
        <3>2. SharedMetered(userMeter'[u], fallback[FallbackIndexOf[u]], clock + 1)
            BY <1>4, <1>6, <3>1
        <3> QED BY <1>1, <2>2, <3>2 DEF UserMetered, SharedOf
    <2> QED BY <2>1, <2>2
<1>8. userMeter' \in [Users -> Nat] /\ bucketMeter' \in [FallbackBuckets -> Nat]
    <2>1. \A u \in Users : Drained(userMeter[u], MaxRpm) \in Nat
        BY <1>1, <1>4
    <2>2. \A b \in FallbackBuckets : Drained(bucketMeter[b], fallback[b].bucket.rpm) \in Nat
        BY <1>1, <1>6
    <2> QED BY <1>1, <2>1, <2>2
<1> QED BY <1>1, <1>2, <1>5, <1>6, <1>7, <1>8 DEF Metering

\* A request reads the time.
LEMMA ArriveMeters ==
    ASSUME IStays, Metering, NEW r \in Requests, Arrive(r)
    PROVE  Metering'
<1>1. /\ UNCHANGED <<clock, entries, fallback, userMeter, bucketMeter>>
      /\ \A q \in Requests : req'[q].pc = "allow" => req'[q] = req[q]
    BY DEF Arrive, IStays, RegistryInv, RegistryTypes
<1> QED BY <1>1 DEF Metering, UserMetered, OnItsWay, SharedOf

LEMMA NextMeters ==
    ASSUME IBuckets, [UserLimiterNext]_limiterVars PROVE IBuckets'
<1>1. IStays'
    BY NextStays DEF IBuckets
<1>2. maxLag' = maxLag
    BY DEF UserLimiterNext, limiterVars
<1>3. ASSUME maxLag = 0 PROVE Metering'
    <2>1. IStays /\ Metering
        BY <1>3 DEF IBuckets, Metered
    <2>2. CASE UNCHANGED limiterVars
        BY <2>1, <2>2 DEF limiterVars, Metering, UserMetered, OnItsWay, SharedOf
    <2>3. CASE UserLimiterNext
        BY <1>3, <2>1, <2>3, ArriveMeters, HitMeters, AdmitMeters, FallbackMeters, DedicatedMeters,
           SharedMeters, CleanupMeters, TickMeters
        DEF UserLimiterNext, UserLimiterStep
    <2> QED BY <2>2, <2>3
<1> QED BY <1>1, <1>2, <1>3 DEF IBuckets, Metered

LEMMA InitMeters == UserLimiterInit => Metered
<1> SUFFICES ASSUME UserLimiterInit PROVE Metering
    BY DEF Metered
<1>1. /\ clock = 1 /\ DOMAIN entries = {} /\ DOMAIN fallback = FallbackBuckets
      /\ \A b \in FallbackBuckets : fallback[b] = EmptyFallback /\ bucketMeter[b] = 0
      /\ userMeter \in [Users -> Nat] /\ bucketMeter \in [FallbackBuckets -> Nat]
      /\ \A u \in Users : userMeter[u] = 0
      /\ \A r \in Requests : req[r].pc = "idle"
    BY DEF UserLimiterInit, Idle
<1>2. SharedTyped(EmptyFallback, 1)
    BY DEF SharedTyped, EmptyFallback, NoLimiter, Bucket
<1>3. BucketMetered(0, EmptyFallback, 1)
    <2>1. /\ PartsAt(EmptyFallback.bucket, 1) \in Nat /\ Burst(EmptyFallback.bucket.rpm) \in Nat
          /\ PartsAt(EmptyFallback.bucket, 1) <= Burst(EmptyFallback.bucket.rpm)
        BY <1>2, SharedParts
    <2> QED BY <2>1 DEF BucketMetered
<1> QED BY <1>1, <1>2, <1>3 DEF Metering, UserMetered, SharedMetered

\* What the buckets lack bounds what was granted.
LEMMA BucketsBound == IBuckets => BucketsInv
<1> SUFFICES ASSUME IBuckets PROVE BucketsInv
    OBVIOUS
<1>1. BucketInUseStays
    BY DEF IBuckets, IStays, InFlight, BucketInUseStays
<1>2. ASSUME maxLag = 0, NEW u \in Users PROVE userMeter[u] <= 2 * Burst(MaxRpm)
    <2>1. /\ Metering /\ UserMetered(u) /\ clock \in Nat /\ userMeter[u] \in Nat
          /\ FallbackIndexOf[u] \in FallbackBuckets /\ FullBurst \in Nat
        BY <1>2, LargestRpm, UserLimiterAssumption
        DEF IBuckets, Metered, Metering, IStays, RegistryInv, RegistryTypes, FullBurst
    <2>2. CASE u \in DOMAIN entries
        BY <2>1, <2>2, EntryParts DEF Metering, UserMetered, EntryMetered, FullBurst
    <2>3. CASE u \notin DOMAIN entries
        BY <2>1, <2>3, SharedParts DEF Metering, UserMetered, SharedMetered, SharedOf, FullBurst
    <2> QED BY <2>2, <2>3
<1>3. ASSUME maxLag = 0, NEW b \in FallbackBuckets PROVE bucketMeter[b] <= Burst(fallback[b].bucket.rpm)
    <2>1. /\ clock \in Nat /\ bucketMeter[b] \in Nat /\ SharedTyped(fallback[b], clock)
          /\ BucketMetered(bucketMeter[b], fallback[b], clock)
        BY <1>3 DEF IBuckets, Metered, Metering, IStays, RegistryInv, RegistryTypes
    <2>2. PartsAt(fallback[b].bucket, clock) \in Nat /\ Burst(fallback[b].bucket.rpm) \in Nat
        BY <2>1, SharedParts
    <2> QED BY <2>1, <2>2 DEF BucketMetered
<1> QED BY <1>1, <1>2, <1>3 DEF BucketsInv, UserRateBounded

\* For every number of users, places and shared buckets and all RPMs: a sweep never takes
\* a bucket from a request that holds it (user_limiter.go, lines 139-141), and without
\* delay neither changes of the RPM nor moves between the registry and the shared buckets
\* earn a user more than two bursts, or a shared bucket more than its own (lines 120-216).
THEOREM BucketsInvariant == UserLimiterSpec => []BucketsInv
<1>1. UserLimiterInit => IBuckets
    BY InitMeters, InitStays DEF IBuckets
<1>2. IBuckets /\ [UserLimiterNext]_limiterVars => IBuckets'
    BY NextMeters
<1> QED BY <1>1, <1>2, BucketsBound, PTL DEF UserLimiterSpec

=============================================================================
