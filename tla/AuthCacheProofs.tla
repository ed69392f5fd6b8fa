---------------------------- MODULE AuthCacheProofs ----------------------------
(***************************************************************************)
(* Proofs about who gets in: AuthCache for any requests, keys, shards,     *)
(* capacity, load bound and administrators, and at the end LoginProtector  *)
(* for any attempts, keys, capacities, thresholds and times.               *)
(*                                                                         *)
(* That nothing stale is cached is not inductive: a load under way may     *)
(* have read the store before the change.  IAuth adds why it is harmless:  *)
(* while the generation is still the one the load began in, no invalidation*)
(* has begun since, so what it has read contains every change whose        *)
(* invalidation has begun (LoadsCurrent); and each administrator leaves    *)
(* only newer entries in the shards behind (ShardsCleared).  That a key is *)
(* loaded once at a time, and that Close strands nobody, rest on where a   *)
(* flight is registered at each step of its leader (Registered,            *)
(* FlightsLed, FlightsEnd).                                                *)
(*                                                                         *)
(* Of the login protection, ILogin says that an entry counts its holders   *)
(* (HeldExactly), that none is held twice by an attempt (Reserved), that   *)
(* no attempt carries a time from the future, and that a failure within    *)
(* the window is the last failure of its entry (FailuresHeld).             *)
(***************************************************************************)
EXTENDS AuthCache, LoginProtector, SequenceTheorems, FiniteSetTheorems,
        WellFoundedInduction, TLAPS

-----------------------------------------------------------------------------
(* The inductive invariant.                                                *)

Results == {"none", "value", "error", "panic", "closed", "saturated", "cancelled"}

\* The steps of a leader between registering its flight and taking it out of the map.
LeaderSteps == {"leading", "admitted", "reading", "storing", "completing", "removing"}
Leads(r) == pc[r] \in LeaderSteps

\* The list of each shard.
ListOK(s) ==
    /\ Len(recency[s]) <= ShardCapacity
    /\ IsInjective(recency[s])
    /\ ToSet(recency[s]) = {h \in Hashes : ShardOf[h] = s /\ cached[h] # None}

\* Nothing has been read, finished or begun that was not committed before.
VersionsOrdered ==
    /\ settled <= version
    /\ \A a \in Admins : target[a] <= version
    /\ \A r \in Requests : floor[r] <= settled
    /\ \A r \in Requests : loadGeneration[r] <= generation

\* A load of the present generation has read every change whose invalidation has begun.
LoadsCurrent ==
    \A r \in Requests : pc[r] \in {"reading", "storing"} /\ loadGeneration[r] = generation =>
        /\ settled <= got[r]
        /\ \A a \in Admins : admin[a] = "clearing" => target[a] <= got[r]

\* In the shards an invalidation has cleared there is nothing older than its change.
ShardsCleared ==
    \A a \in Admins : admin[a] = "clearing" =>
        \A h \in Hashes : cached[h] # None /\ ShardOf[h] \notin toClear[a] => target[a] <= cached[h]

\* A leader's flight is registered until Close or the leader itself has completed it.
Registered ==
    \A r \in Requests : Leads(r) => inFlight[HashOf[r]] = r \/ (Closed /\ r \in flightDone)

\* A registered flight belongs to the one leader of its hash.
FlightsLed ==
    /\ \A h \in Hashes : inFlight[h] # None => Leads(inFlight[h]) /\ HashOf[inFlight[h]] = h
    /\ \A r, q \in Requests : Leads(r) /\ Leads(q) /\ HashOf[r] = HashOf[q] => r = q

\* A flight somebody has joined ends, and Close knows those it has to end.
FlightsEnd ==
    /\ \A r \in Requests : joined[r] # None =>
           joined[r] \in flightDone \/ inFlight[HashOf[joined[r]]] = joined[r]
    /\ \A r \in Requests : pc[r] = "waiting" => joined[r] # None
    /\ \A r \in Requests : Leads(r) => joined[r] = r
    /\ \A r \in Requests : pc[r] \in {"new", "missed"} => joined[r] = None
    /\ \A r \in Requests : pc[r] = "removing" => r \in flightDone
    /\ closer \in {"draining", "returned"} =>
           \A h \in Hashes : inFlight[h] # None => inFlight[h] \in draining
    /\ closer = "returned" => draining = {}

\* A value is read after its leader began, and is an outcome only of a flight that has read one.
Outcome ==
    /\ \A r \in Requests : pc[r] \in {"reading", "storing", "completing"} => floor[r] <= got[r]
    /\ \A r \in Requests : flightResult[r] = "value" =>
           floor[r] <= got[r] /\ pc[r] \in {"removing", "waiting", "answered"}
    /\ \A r \in Requests : pc[r] # "answered" => result[r] # "value"

\* missAdmission counts the loads between admission and their end.
LoadsCounted == loading = {r \in Requests : pc[r] \in {"admitted", "reading"}}

IAuth ==
    /\ AuthTypeOK
    /\ VersionsOrdered
    /\ LoadsCurrent
    /\ ShardsCleared
    /\ CacheNotStale
    /\ ShardsConsistent
    /\ LoadsCounted
    /\ Registered
    /\ FlightsLed
    /\ FlightsEnd
    /\ Outcome

-----------------------------------------------------------------------------
(* Recency lists.                                                          *)

\* The position RemoveAt is given.
LEMMA PositionFound ==
    ASSUME NEW list \in Seq(Hashes), NEW h \in ToSet(list)
    PROVE  LET at == CHOOSE i \in 1..Len(list) : list[i] = h
           IN  at \in 1..Len(list) /\ list[at] = h
<1>1. \E i \in 1..Len(list) : list[i] = h
    BY DEF ToSet
<1> QED BY <1>1

\* RemoveAt closes the gap.
LEMMA RemoveAtShifts ==
    ASSUME NEW list \in Seq(Hashes), NEW at \in 1..Len(list)
    PROVE  /\ RemoveAt(list, at) \in Seq(Hashes)
           /\ Len(RemoveAt(list, at)) = Len(list) - 1
           /\ \A i \in 1..(Len(list) - 1) :
                  RemoveAt(list, at)[i] = IF i < at THEN list[i] ELSE list[i + 1]
<1>1. PICK before : before = SubSeq(list, 1, at - 1)
    OBVIOUS
<1>2. PICK after : after = SubSeq(list, at + 1, Len(list))
    OBVIOUS
<1>3. /\ before \in Seq(Hashes) /\ Len(before) = at - 1
      /\ \A i \in 1..(at - 1) : before[i] = list[i]
    BY <1>1, SubSeqProperties
<1>4. /\ after \in Seq(Hashes) /\ Len(after) = Len(list) - at
      /\ \A i \in 1..(Len(list) - at) : after[i] = list[at + i]
    BY <1>2, SubSeqProperties
<1>5. RemoveAt(list, at) = before \o after
    BY <1>1, <1>2 DEF RemoveAt
<1>6. before \o after \in Seq(Hashes) /\ Len(before \o after) = Len(list) - 1
    BY <1>3, <1>4
<1>7. ASSUME NEW i \in 1..(Len(list) - 1), i < at PROVE (before \o after)[i] = list[i]
    BY <1>3, <1>4, <1>7
<1>8. ASSUME NEW i \in 1..(Len(list) - 1), ~(i < at) PROVE (before \o after)[i] = list[i + 1]
    <2>1. (before \o after)[i] = after[i - (at - 1)]
        BY <1>3, <1>4, <1>8
    <2>2. i - (at - 1) \in 1..(Len(list) - at) /\ at + (i - (at - 1)) = i + 1
        BY <1>8
    <2> QED BY <2>1, <2>2, <1>4
<1> QED BY <1>5, <1>6, <1>7, <1>8

\* Taking a hash out of a list leaves the others, once each.
LEMMA WithoutList ==
    ASSUME NEW list \in Seq(Hashes), IsInjective(list), NEW h \in Hashes
    PROVE  /\ Without(list, h) \in Seq(Hashes)
           /\ IsInjective(Without(list, h))
           /\ ToSet(Without(list, h)) = ToSet(list) \ {h}
           /\ Len(Without(list, h)) <= Len(list)
           /\ h \in ToSet(list) => Len(Without(list, h)) = Len(list) - 1
<1>1. CASE h \notin ToSet(list)
    BY <1>1 DEF Without
<1>2. CASE h \in ToSet(list)
    <2>1. PICK at \in 1..Len(list) : list[at] = h /\ Without(list, h) = RemoveAt(list, at)
        BY <1>2, PositionFound DEF Without
    <2>2. PICK rest : rest = Without(list, h)
        OBVIOUS
    <2>3. /\ rest \in Seq(Hashes) /\ Len(rest) = Len(list) - 1
          /\ \A i \in 1..(Len(list) - 1) : rest[i] = IF i < at THEN list[i] ELSE list[i + 1]
        BY <2>1, <2>2, RemoveAtShifts
    <2>4. \A i, j \in 1..Len(list) : list[i] = list[j] => i = j
        BY DEF IsInjective
    <2>5. IsInjective(rest)
        <3>1. ASSUME NEW i \in 1..(Len(list) - 1), NEW j \in 1..(Len(list) - 1), rest[i] = rest[j]
              PROVE  i = j
            <4> DEFINE Place(n) == IF n < at THEN n ELSE n + 1
            <4>1. Len(list) \in Nat /\ at \in Nat
                OBVIOUS
            <4>2. Place(i) \in 1..Len(list) /\ Place(j) \in 1..Len(list)
                BY <4>1
            <4>3. rest[i] = list[Place(i)] /\ rest[j] = list[Place(j)]
                BY <2>3
            <4>4. Place(i) = Place(j)
                <5> HIDE DEF Place
                <5> QED BY <2>4, <3>1, <4>2, <4>3
            <4> QED BY <4>1, <4>4
        <3>2. DOMAIN rest = 1..(Len(list) - 1)
            BY <2>3
        <3> QED BY <3>1, <3>2 DEF IsInjective
    <2>6. ASSUME NEW k \in ToSet(rest) PROVE k \in ToSet(list) \ {h}
        <3>1. PICK i \in 1..(Len(list) - 1) : k = rest[i]
            BY <2>3, <2>6 DEF ToSet
        <3>2. PICK j \in 1..Len(list) : j # at /\ k = list[j]
            BY <2>1, <2>3, <3>1
        <3>3. list[j] # list[at]
            BY <2>1, <2>4, <3>2
        <3> QED BY <2>1, <3>2, <3>3 DEF ToSet
    <2>7. ASSUME NEW k \in ToSet(list), k # h PROVE k \in ToSet(rest)
        <3>1. PICK i \in 1..Len(list) : k = list[i]
            BY <2>7 DEF ToSet
        <3>2. CASE i < at
            <4>1. i \in 1..(Len(list) - 1) /\ rest[i] = k
                BY <3>1, <3>2, <2>3
            <4> QED BY <4>1, <2>3 DEF ToSet
        <3>3. CASE i > at
            <4>1. (i - 1) \in 1..(Len(list) - 1) /\ rest[i - 1] = k
                BY <3>1, <3>3, <2>3
            <4> QED BY <4>1, <2>3 DEF ToSet
        <3> QED BY <3>1, <3>2, <3>3, <2>1, <2>7
    <2> QED BY <1>2, <2>2, <2>3, <2>5, <2>6, <2>7
<1> QED BY <1>1, <1>2

\* Putting a hash in front of a list that does not hold it.
LEMMA FrontList ==
    ASSUME NEW list \in Seq(Hashes), IsInjective(list), NEW h \in Hashes, h \notin ToSet(list)
    PROVE  /\ <<h>> \o list \in Seq(Hashes)
           /\ IsInjective(<<h>> \o list)
           /\ ToSet(<<h>> \o list) = ToSet(list) \union {h}
           /\ Len(<<h>> \o list) = Len(list) + 1
<1>1. PICK front : front = <<h>> \o list
    OBVIOUS
<1>2. /\ front \in Seq(Hashes) /\ Len(front) = Len(list) + 1
      /\ \A i \in 1..Len(front) : front[i] = IF i = 1 THEN h ELSE list[i - 1]
    BY <1>1
<1>3. \A i \in 1..Len(list) : list[i] # h
    BY DEF ToSet
<1>4. \A i, j \in 1..Len(list) : list[i] = list[j] => i = j
    BY DEF IsInjective
<1>5. IsInjective(front)
    BY <1>2, <1>3, <1>4 DEF IsInjective
<1>6. ASSUME NEW k \in ToSet(front) PROVE k \in ToSet(list) \union {h}
    <2>1. PICK i \in 1..Len(front) : k = front[i]
        BY <1>2, <1>6 DEF ToSet
    <2> QED BY <2>1, <1>2 DEF ToSet
<1>7. h \in ToSet(front)
    <2>1. 1 \in DOMAIN front /\ front[1] = h
        BY <1>2
    <2> QED BY <2>1 DEF ToSet
<1>8. ASSUME NEW k \in ToSet(list) PROVE k \in ToSet(front)
    <2>1. PICK i \in 1..Len(list) : k = list[i]
        BY <1>8 DEF ToSet
    <2>2. (i + 1) \in DOMAIN front /\ front[i + 1] = k
        BY <2>1, <1>2
    <2> QED BY <2>2 DEF ToSet
<1> QED BY <1>1, <1>2, <1>5, <1>6, <1>7, <1>8

\* What storeEntry keeps and what it evicts make up the list, within the capacity.
LEMMA KeptList ==
    ASSUME NEW list \in Seq(Hashes), IsInjective(list)
    PROVE  /\ Kept(list) \in Seq(Hashes)
           /\ IsInjective(Kept(list))
           /\ ToSet(Kept(list)) = ToSet(list) \ Overflow(list)
           /\ Overflow(list) \subseteq ToSet(list)
           /\ Len(Kept(list)) <= ShardCapacity
<1> USE AuthCacheAssumption
<1>1. CASE Len(list) <= ShardCapacity
    <2>1. Overflow(list) = {}
        BY <1>1 DEF Overflow
    <2> QED BY <1>1, <2>1 DEF Kept
<1>2. CASE Len(list) > ShardCapacity
    <2>1. PICK kept : kept = SubSeq(list, 1, ShardCapacity)
        OBVIOUS
    <2>2. /\ kept \in Seq(Hashes) /\ Len(kept) = ShardCapacity
          /\ \A i \in 1..ShardCapacity : kept[i] = list[i]
        BY <1>2, <2>1
    <2>3. \A i, j \in 1..Len(list) : list[i] = list[j] => i = j
        BY DEF IsInjective
    <2>4. IsInjective(kept)
        BY <1>2, <2>2, <2>3 DEF IsInjective
    <2>5. Overflow(list) \subseteq ToSet(list)
        BY <1>2 DEF Overflow, ToSet
    <2>6. ASSUME NEW k \in ToSet(kept) PROVE k \in ToSet(list) \ Overflow(list)
        <3>1. PICK i \in 1..ShardCapacity : k = list[i]
            BY <2>2, <2>6 DEF ToSet
        <3>2. k \notin Overflow(list)
            BY <1>2, <2>3, <3>1 DEF Overflow
        <3> QED BY <1>2, <3>1, <3>2 DEF ToSet
    <2>7. ASSUME NEW k \in ToSet(list), k \notin Overflow(list) PROVE k \in ToSet(kept)
        <3>1. PICK i \in 1..Len(list) : k = list[i]
            BY <2>7 DEF ToSet
        <3>2. i \in 1..ShardCapacity
            BY <1>2, <2>7, <3>1 DEF Overflow
        <3>3. kept[i] = k /\ DOMAIN kept = 1..ShardCapacity
            BY <2>2, <3>1, <3>2
        <3> QED BY <3>2, <3>3 DEF ToSet
    <2>8. Kept(list) = kept
        BY <1>2, <2>1 DEF Kept
    <2> QED BY <2>2, <2>4, <2>5, <2>6, <2>7, <2>8
<1> QED BY <1>1, <1>2

-----------------------------------------------------------------------------
(* The operations on a shard keep its map and its list together.           *)

CacheTyped ==
    /\ cached \in [Hashes -> Nat \union {None}]
    /\ recency \in [Shards -> Seq(Hashes)]

\* No entry is new.
Shrunk == \A k \in Hashes : cached'[k] = None \/ cached'[k] = cached[k]

\* A shard's list holds exactly the entries of the shard.
LEMMA ListHolds ==
    ASSUME CacheTyped, ShardsConsistent, NEW s \in Shards
    PROVE  /\ recency[s] \in Seq(Hashes) /\ IsInjective(recency[s])
           /\ Len(recency[s]) <= ShardCapacity
           /\ \A k \in Hashes : k \in ToSet(recency[s]) <=> ShardOf[k] = s /\ cached[k] # None
BY DEF CacheTyped, ShardsConsistent

\* removeEntry removes the hash from both.
LEMMA RemovalKeeps ==
    ASSUME CacheTyped, ShardsConsistent, NEW h \in Hashes, RemoveEntry(h)
    PROVE  CacheTyped' /\ ShardsConsistent' /\ Shrunk
<1> USE AuthCacheAssumption
<1>1. PICK s \in Shards : s = ShardOf[h]
    OBVIOUS
<1>2. PICK rest : rest = Without(recency[s], h)
    OBVIOUS
<1>3. /\ rest \in Seq(Hashes) /\ IsInjective(rest)
      /\ ToSet(rest) = ToSet(recency[s]) \ {h}
      /\ Len(rest) \in Nat /\ Len(recency[s]) \in Nat /\ Len(rest) <= Len(recency[s])
    BY <1>2, ListHolds, WithoutList
<1>4. /\ cached' = [cached EXCEPT ![h] = None]
      /\ recency' = [recency EXCEPT ![s] = rest]
    BY <1>1, <1>2 DEF RemoveEntry
<1>5. CacheTyped' /\ Shrunk
    BY <1>3, <1>4 DEF CacheTyped, Shrunk
<1>6. ASSUME NEW z \in Shards
      PROVE  /\ Len(recency'[z]) <= ShardCapacity /\ IsInjective(recency'[z])
             /\ ToSet(recency'[z]) = {k \in Hashes : ShardOf[k] = z /\ cached'[k] # None}
    <2>1. CASE z = s
        <3>1. recency'[z] = rest
            BY <1>4, <2>1 DEF CacheTyped
        <3>2. \A k \in Hashes : k \in ToSet(rest) <=> ShardOf[k] = s /\ cached'[k] # None
            BY <1>3, <1>4, ListHolds DEF CacheTyped
        <3>3. ToSet(rest) \subseteq Hashes
            BY <1>3 DEF ToSet
        <3>4. Len(rest) <= ShardCapacity
            BY <1>3, ListHolds
        <3> QED BY <1>3, <2>1, <3>1, <3>2, <3>3, <3>4
    <2>2. CASE z # s
        <3>1. recency'[z] = recency[z] /\ \A k \in Hashes : ShardOf[k] = z => cached'[k] = cached[k]
            BY <1>1, <1>4, <2>2 DEF CacheTyped
        <3> QED BY <3>1 DEF ShardsConsistent
    <2> QED BY <2>1, <2>2
<1> QED BY <1>5, <1>6 DEF ShardsConsistent

\* A hit moves the hash to the front of the list.
LEMMA HitKeeps ==
    ASSUME CacheTyped, ShardsConsistent, NEW r \in Requests, CacheHit(r)
    PROVE  CacheTyped' /\ ShardsConsistent' /\ Shrunk
<1> USE AuthCacheAssumption
<1>1. PICK h \in Hashes : h = HashOf[r]
    OBVIOUS
<1>2. PICK s \in Shards : s = ShardOf[h]
    OBVIOUS
<1>3. PICK rest : rest = Without(recency[s], h)
    OBVIOUS
<1>4. /\ recency[s] \in Seq(Hashes) /\ IsInjective(recency[s])
      /\ h \in ToSet(recency[s])
    BY <1>1, <1>2, ListHolds DEF CacheHit
<1>5. /\ rest \in Seq(Hashes) /\ IsInjective(rest)
      /\ ToSet(rest) = ToSet(recency[s]) \ {h} /\ Len(rest) = Len(recency[s]) - 1
    BY <1>3, <1>4, WithoutList
<1>6. PICK list : list = <<h>> \o rest
    OBVIOUS
<1>7. /\ list \in Seq(Hashes) /\ IsInjective(list) /\ Len(list) = Len(recency[s])
      /\ ToSet(list) = ToSet(recency[s])
    <2>1. h \notin ToSet(rest)
        BY <1>5
    <2>2. /\ list \in Seq(Hashes) /\ IsInjective(list) /\ Len(list) = Len(rest) + 1
          /\ ToSet(list) = ToSet(rest) \union {h}
        BY <1>5, <1>6, <2>1, FrontList
    <2>3. Len(recency[s]) \in Nat
        BY <1>4
    <2> QED BY <1>4, <1>5, <2>2, <2>3
<1>8. cached' = cached /\ recency' = [recency EXCEPT ![s] = list]
    BY <1>1, <1>2, <1>3, <1>6 DEF CacheHit
<1>9. CacheTyped' /\ Shrunk
    BY <1>7, <1>8 DEF CacheTyped, Shrunk
<1>10. ASSUME NEW z \in Shards
       PROVE  /\ Len(recency'[z]) <= ShardCapacity /\ IsInjective(recency'[z])
              /\ ToSet(recency'[z]) = ToSet(recency[z])
    <2>1. CASE z = s
        BY <1>7, <1>8, <2>1, ListHolds DEF CacheTyped
    <2>2. CASE z # s
        BY <1>8, <2>2, ListHolds DEF CacheTyped
    <2> QED BY <2>1, <2>2
<1> QED BY <1>8, <1>9, <1>10 DEF ShardsConsistent

\* storeEntry replaces the hash's entry, or adds one and evicts what is over the capacity.
LEMMA StoreKeeps ==
    ASSUME CacheTyped, ShardsConsistent, NEW r \in Requests, got[r] \in Nat, StoreEntry(r)
    PROVE  /\ CacheTyped' /\ ShardsConsistent'
           /\ \/ Shrunk
              \/ /\ MayStore(r)
                 /\ \A k \in Hashes : \/ cached'[k] \in {None, cached[k]}
                                      \/ k = HashOf[r] /\ cached'[k] = got[r]
<1> USE AuthCacheAssumption
<1>1. CASE ~MayStore(r)
    <2>1. cached' = cached /\ recency' = recency
        BY <1>1 DEF StoreEntry, cacheVars
    <2> QED BY <2>1 DEF CacheTyped, ShardsConsistent, Shrunk
<1>2. CASE MayStore(r)
    <2>1. PICK h \in Hashes : h = HashOf[r]
        OBVIOUS
    <2>2. PICK s \in Shards : s = ShardOf[h]
        OBVIOUS
    <2>3. PICK rest : rest = Without(recency[s], h)
        OBVIOUS
    <2>4. rest \in Seq(Hashes) /\ IsInjective(rest) /\ ToSet(rest) = ToSet(recency[s]) \ {h}
        BY <2>3, ListHolds, WithoutList
    <2>5. PICK list : list = <<h>> \o rest
        OBVIOUS
    <2>6. list \in Seq(Hashes) /\ IsInjective(list) /\ ToSet(list) = ToSet(recency[s]) \union {h}
        BY <2>4, <2>5, FrontList
    <2>7. PICK kept : kept = Kept(list)
        OBVIOUS
    <2>8. /\ kept \in Seq(Hashes) /\ IsInjective(kept) /\ Len(kept) <= ShardCapacity
          /\ ToSet(kept) = ToSet(list) \ Overflow(list)
          /\ Overflow(list) \subseteq ToSet(list)
        BY <2>6, <2>7, KeptList
    <2>9. /\ cached' = [k \in Hashes |-> IF k \in Overflow(list) THEN None
                                         ELSE IF k = h THEN got[r] ELSE cached[k]]
          /\ recency' = [recency EXCEPT ![s] = kept]
        BY <1>2, <2>1, <2>2, <2>3, <2>5, <2>7 DEF StoreEntry
    <2>10. CacheTyped'
        BY <2>8, <2>9 DEF CacheTyped
    <2>11. \A k \in ToSet(list) : k \in Hashes /\ ShardOf[k] = s
        <3>1. \A k \in ToSet(list) : k \in Hashes
            BY <2>6 DEF ToSet
        <3>2. \A k \in ToSet(list) : k = h \/ k \in ToSet(recency[s])
            BY <2>6
        <3> QED BY <2>2, <3>1, <3>2, ListHolds
    <2>12. ASSUME NEW z \in Shards
           PROVE  /\ Len(recency'[z]) <= ShardCapacity /\ IsInjective(recency'[z])
                  /\ ToSet(recency'[z]) = {k \in Hashes : ShardOf[k] = z /\ cached'[k] # None}
        <3>1. CASE z = s
            <4>1. recency'[z] = kept
                BY <2>9, <3>1 DEF CacheTyped
            <4>2. \A k \in Hashes : k \in ToSet(kept) <=> ShardOf[k] = s /\ cached'[k] # None
                BY <2>2, <2>6, <2>8, <2>9, ListHolds DEF CacheTyped
            <4> QED BY <2>8, <2>11, <3>1, <4>1, <4>2
        <3>2. CASE z # s
            <4>1. recency'[z] = recency[z] /\ \A k \in Hashes : ShardOf[k] = z => cached'[k] = cached[k]
                BY <2>2, <2>8, <2>9, <2>11, <3>2 DEF CacheTyped
            <4> QED BY <4>1 DEF ShardsConsistent
        <3> QED BY <3>1, <3>2
    <2> QED BY <1>2, <2>1, <2>9, <2>10, <2>12 DEF ShardsConsistent
<1> QED BY <1>1, <1>2

\* InvalidateAll empties the map and the list of a shard.
LEMMA ClearKeeps ==
    ASSUME CacheTyped, ShardsConsistent, NEW s \in Shards,
           cached' = [h \in Hashes |-> IF ShardOf[h] = s THEN None ELSE cached[h]],
           recency' = [recency EXCEPT ![s] = <<>>]
    PROVE  CacheTyped' /\ ShardsConsistent' /\ Shrunk
<1> USE AuthCacheAssumption
<1>1. CacheTyped' /\ Shrunk
    BY DEF CacheTyped, Shrunk
<1>2. ASSUME NEW z \in Shards
      PROVE  /\ Len(recency'[z]) <= ShardCapacity /\ IsInjective(recency'[z])
             /\ ToSet(recency'[z]) = {k \in Hashes : ShardOf[k] = z /\ cached'[k] # None}
    <2>1. CASE z = s
        <3>1. recency'[z] = <<>>
            BY <2>1 DEF CacheTyped
        <3>2. Len(<<>>) = 0 /\ IsInjective(<<>>) /\ ToSet(<<>>) = {}
            BY DEF IsInjective, ToSet
        <3> QED BY <2>1, <3>1, <3>2
    <2>2. CASE z # s
        <3>1. recency'[z] = recency[z] /\ \A k \in Hashes : ShardOf[k] = z => cached'[k] = cached[k]
            BY <2>2 DEF CacheTyped
        <3> QED BY <3>1 DEF ShardsConsistent
    <2> QED BY <2>1, <2>2
<1> QED BY <1>1, <1>2 DEF ShardsConsistent

-----------------------------------------------------------------------------
(* Preservation, one lemma per part of the invariant and one step per       *)
(* action.                                                                  *)

\* Every step leaves the maps and the lists together, and only Store puts an entry in.
LEMMA CacheKept ==
    ASSUME IAuth, AuthNext
    PROVE  CacheTyped' /\ ShardsConsistent' /\ (Shrunk \/ \E r \in Requests : Store(r))
<1> USE AuthCacheAssumption
<1>1. CacheTyped /\ ShardsConsistent
    BY DEF IAuth, AuthTypeOK, CacheTyped
<1>2. CASE UNCHANGED cacheVars
    BY <1>1, <1>2 DEF cacheVars, CacheTyped, ShardsConsistent, Shrunk
<1>3. CASE \E r \in Requests : CacheHit(r)
    BY <1>1, <1>3, HitKeeps
<1>4. CASE \E h \in Hashes : RemoveEntry(h)
    BY <1>1, <1>4, RemovalKeeps
<1>5. CASE \E r \in Requests : Store(r)
    BY <1>1, <1>5, StoreKeeps DEF Store, IAuth, AuthTypeOK
<1>6. CASE \E a \in Admins, s \in Shards : InvalidateShard(a, s)
    BY <1>1, <1>6, ClearKeeps DEF InvalidateShard
<1>7. ASSUME NEW r \in Requests, Begin(r) \/ JoinOrLead(r)
      PROVE  UNCHANGED cacheVars \/ CacheHit(r) \/ RemoveEntry(HashOf[r])
    BY <1>7 DEF Begin, JoinOrLead, CacheMiss
<1>8. ASSUME NEW r \in Requests, ResolveStep(r) \/ WaitCancelled(r),
             ~Begin(r), ~JoinOrLead(r), ~Store(r)
      PROVE  UNCHANGED cacheVars
    BY <1>8 DEF ResolveStep, AdmitLoad, RefuseLoad, LoadRead, LoadEnds, Complete, LeaderRemoves,
                FlightAnswers, WaitCancelled
<1>9. ASSUME NEW a \in Admins, AdminWrite(a) \/ InvalidateBegin(a) \/ InvalidateReturns(a)
      PROVE  UNCHANGED cacheVars
    BY <1>9 DEF AdminWrite, InvalidateBegin, InvalidateReturns
<1>10. CloseStep => UNCHANGED cacheVars
    BY DEF CloseStep, CloseBegin, CloseCollect, CloseComplete, CloseRemove, CloseReturns
<1>11. \A h \in Hashes : RemoveExpired(h) => RemoveEntry(h)
    BY DEF RemoveExpired
<1> QED BY <1>2, <1>3, <1>4, <1>5, <1>6, <1>7, <1>8, <1>9, <1>10, <1>11 DEF AuthNext

\* What Store puts in is current.
LEMMA StoreIsCurrent ==
    ASSUME IAuth, NEW r \in Requests, Store(r)
    PROVE  ShardsCleared' /\ CacheNotStale'
<1> USE AuthCacheAssumption
<1>1. CacheTyped /\ ShardsConsistent
    BY DEF IAuth, AuthTypeOK, CacheTyped
<1>2. /\ admin' = admin /\ target' = target /\ toClear' = toClear /\ settled' = settled
      /\ pc[r] = "storing" /\ got[r] \in Nat
    BY DEF Store, adminVars, IAuth, AuthTypeOK
<1>3. CASE Shrunk
    BY <1>1, <1>2, <1>3 DEF Shrunk, CacheTyped, IAuth, ShardsCleared, CacheNotStale
<1>4. CASE /\ MayStore(r)
           /\ \A k \in Hashes : \/ cached'[k] \in {None, cached[k]}
                                \/ k = HashOf[r] /\ cached'[k] = got[r]
    <2>1. /\ settled <= got[r]
          /\ \A a \in Admins : admin[a] = "clearing" => target[a] <= got[r]
        BY <1>2, <1>4 DEF MayStore, IAuth, LoadsCurrent
    <2> QED BY <1>2, <1>4, <2>1 DEF IAuth, ShardsCleared, CacheNotStale
<1>5. StoreEntry(r)
    BY DEF Store
<1>6. \/ Shrunk
      \/ /\ MayStore(r)
         /\ \A k \in Hashes : \/ cached'[k] \in {None, cached[k]}
                              \/ k = HashOf[r] /\ cached'[k] = got[r]
    BY <1>1, <1>2, <1>5, StoreKeeps
<1> QED BY <1>3, <1>4, <1>6

\* What an invalidation has cleared stays free of older entries when entries only go.
LEMMA ClearedKept ==
    ASSUME IAuth, AuthNext, Shrunk
    PROVE  ShardsCleared' /\ CacheNotStale'
<1> USE AuthCacheAssumption DEF IAuth, AuthTypeOK, requestVars, flightVars, adminVars, closeVars,
        cacheVars, slotVars, Goto, Answer,
    VersionsOrdered, ShardsCleared, CacheNotStale, CacheTyped, Shrunk
<1>1. ASSUME NEW r \in Requests, Begin(r) PROVE ShardsCleared' /\ CacheNotStale'
    BY <1>1 DEF Begin
<1>2. ASSUME NEW r \in Requests, JoinOrLead(r) PROVE ShardsCleared' /\ CacheNotStale'
    BY <1>2 DEF JoinOrLead
<1>3. ASSUME NEW r \in Requests, AdmitLoad(r) PROVE ShardsCleared' /\ CacheNotStale'
    BY <1>3 DEF AdmitLoad
<1>4. ASSUME NEW r \in Requests, NEW how \in {"saturated", "cancelled"}, RefuseLoad(r, how)
      PROVE ShardsCleared' /\ CacheNotStale'
    BY <1>4 DEF RefuseLoad
<1>5. ASSUME NEW r \in Requests, LoadRead(r) PROVE ShardsCleared' /\ CacheNotStale'
    BY <1>5 DEF LoadRead
<1>6. ASSUME NEW r \in Requests, NEW how \in {"value", "error", "panic"}, LoadEnds(r, how)
      PROVE ShardsCleared' /\ CacheNotStale'
    BY <1>6 DEF LoadEnds
<1>7. ASSUME NEW r \in Requests, Store(r) PROVE ShardsCleared' /\ CacheNotStale'
    BY <1>7, StoreIsCurrent DEF Store
<1>8. ASSUME NEW r \in Requests, Complete(r) PROVE ShardsCleared' /\ CacheNotStale'
    BY <1>8 DEF Complete
<1>9. ASSUME NEW r \in Requests, LeaderRemoves(r) PROVE ShardsCleared' /\ CacheNotStale'
    BY <1>9 DEF LeaderRemoves
<1>10. ASSUME NEW r \in Requests, FlightAnswers(r) PROVE ShardsCleared' /\ CacheNotStale'
    BY <1>10 DEF FlightAnswers
<1>11. ASSUME NEW r \in Requests, WaitCancelled(r) PROVE ShardsCleared' /\ CacheNotStale'
    BY <1>11 DEF WaitCancelled
<1>12. ASSUME NEW a \in Admins, AdminWrite(a) PROVE ShardsCleared' /\ CacheNotStale'
    BY <1>12 DEF AdminWrite
<1>13. ASSUME NEW a \in Admins, InvalidateBegin(a) PROVE ShardsCleared' /\ CacheNotStale'
    BY <1>13 DEF InvalidateBegin
<1>14. ASSUME NEW a \in Admins, NEW s \in Shards, InvalidateShard(a, s)
      PROVE ShardsCleared' /\ CacheNotStale'
    BY <1>14 DEF InvalidateShard
<1>15. ASSUME NEW a \in Admins, InvalidateReturns(a) PROVE ShardsCleared' /\ CacheNotStale'
    BY <1>15 DEF InvalidateReturns
<1>16. ASSUME NEW h \in Hashes, RemoveExpired(h) PROVE ShardsCleared' /\ CacheNotStale'
    BY <1>16 DEF RemoveExpired
<1>17. ASSUME CloseBegin PROVE ShardsCleared' /\ CacheNotStale'
    BY <1>17 DEF CloseBegin
<1>18. ASSUME CloseCollect PROVE ShardsCleared' /\ CacheNotStale'
    BY <1>18 DEF CloseCollect
<1>19. ASSUME NEW f \in Requests, CloseComplete(f) PROVE ShardsCleared' /\ CacheNotStale'
    BY <1>19 DEF CloseComplete
<1>20. ASSUME NEW f \in Requests, CloseRemove(f) PROVE ShardsCleared' /\ CacheNotStale'
    BY <1>20 DEF CloseRemove
<1>21. ASSUME CloseReturns PROVE ShardsCleared' /\ CacheNotStale'
    BY <1>21 DEF CloseReturns
<1> HIDE DEF IAuth, AuthTypeOK, requestVars, flightVars, adminVars, closeVars, cacheVars, slotVars,
        Goto, Answer,
    VersionsOrdered, ShardsCleared, CacheNotStale, CacheTyped
<1> QED BY <1>1, <1>2, <1>3, <1>4, <1>5, <1>6, <1>7, <1>8, <1>9, <1>10,
           <1>11, <1>12, <1>13, <1>14, <1>15, <1>16, <1>17, <1>18, <1>19, <1>20, <1>21
       DEF AuthNext, ResolveStep, CloseStep

\* Every step keeps the types.
LEMMA TypesKept ==
    ASSUME IAuth, AuthNext, CacheTyped', ShardsConsistent'
    PROVE  AuthTypeOK'
<1> USE AuthCacheAssumption DEF IAuth, AuthTypeOK, requestVars, flightVars, adminVars, closeVars,
        cacheVars, slotVars, Goto, Answer,
    CompleteFlight, RemoveFlight, CacheTyped, Results, FlightOf, FlightsEnd
<1>1. ASSUME NEW r \in Requests, Begin(r) PROVE AuthTypeOK'
    <2>1. cached[HashOf[r]] # None => cached[HashOf[r]] \in Nat
        BY DEF CacheTyped
    <2>2. CASE Answer(r, "closed", 0)
        BY <1>1, <2>2 DEF Begin
    <2>3. CASE CacheHit(r) /\ Answer(r, "value", cached[HashOf[r]])
        BY <1>1, <2>1, <2>3 DEF Begin, CacheHit
    <2>4. CASE Goto(r, "missed") /\ UNCHANGED <<result, answer>>
        BY <1>1, <2>4 DEF Begin
    <2> QED BY <1>1, <2>2, <2>3, <2>4 DEF Begin
<1>2. ASSUME NEW r \in Requests, JoinOrLead(r) PROVE AuthTypeOK'
    <2>1. cached[HashOf[r]] # None => cached[HashOf[r]] \in Nat
        BY DEF CacheTyped
    <2>2. CASE Answer(r, "closed", 0) /\ UNCHANGED <<inFlight, loadGeneration, joined>>
        BY <1>2, <2>2 DEF JoinOrLead
    <2>3. CASE /\ FlightOf(r) # None
               /\ joined' = [joined EXCEPT ![r] = FlightOf(r)]
               /\ Goto(r, "waiting")
               /\ UNCHANGED <<inFlight, loadGeneration, result, answer>>
        BY <1>2, <2>3 DEF JoinOrLead
    <2>4. CASE /\ CacheHit(r) /\ Answer(r, "value", cached[HashOf[r]])
               /\ UNCHANGED <<inFlight, loadGeneration, joined>>
        BY <1>2, <2>1, <2>4 DEF JoinOrLead, CacheHit
    <2>5. CASE /\ inFlight' = [inFlight EXCEPT ![HashOf[r]] = r]
               /\ loadGeneration' = [loadGeneration EXCEPT ![r] = generation]
               /\ joined' = [joined EXCEPT ![r] = r]
               /\ Goto(r, "leading")
               /\ UNCHANGED <<result, answer>>
        BY <1>2, <2>5 DEF JoinOrLead
    <2> QED BY <1>2, <2>2, <2>3, <2>4, <2>5 DEF JoinOrLead
<1>3. ASSUME NEW r \in Requests, AdmitLoad(r) PROVE AuthTypeOK'
    BY <1>3 DEF AdmitLoad
<1>4. ASSUME NEW r \in Requests, NEW how \in {"saturated", "cancelled"}, RefuseLoad(r, how)
      PROVE AuthTypeOK'
    BY <1>4 DEF RefuseLoad
<1>5. ASSUME NEW r \in Requests, LoadRead(r) PROVE AuthTypeOK'
    BY <1>5 DEF LoadRead
<1>6. ASSUME NEW r \in Requests, NEW how \in {"value", "error", "panic"}, LoadEnds(r, how)
      PROVE AuthTypeOK'
    <2>1. CASE how = "value"
        <3>1. UNCHANGED <<flightDone, flightResult, result>> /\ pc' = [pc EXCEPT ![r] = "storing"]
            BY <1>6, <2>1 DEF LoadEnds
        <3>2. loading' \in SUBSET Requests
            BY <1>6 DEF LoadEnds
        <3>3. UNCHANGED <<missMaxConcurrent, inFlight, adminVars, closeVars, cacheVars, generation,
                          loadGeneration, got, joined, answer, floor>>
            BY <1>6 DEF LoadEnds
        <3> QED BY <3>1, <3>2, <3>3
    <2>2. CASE how # "value"
        <3>1. /\ flightDone' = flightDone \union {r} /\ pc' = [pc EXCEPT ![r] = "removing"]
              /\ flightResult' = [flightResult EXCEPT ![r] = IF r \in flightDone THEN @ ELSE how]
            BY <1>6, <2>2 DEF LoadEnds
        <3>2. flightResult' \in [Requests -> Results]
            BY <1>6, <3>1
        <3>3. result' \in [Requests -> Results]
            BY <1>6 DEF LoadEnds
        <3> QED BY <1>6, <3>1, <3>2, <3>3 DEF LoadEnds
    <2> QED BY <2>1, <2>2
<1>7. ASSUME NEW r \in Requests, Store(r) PROVE AuthTypeOK'
    BY <1>7 DEF Store
<1>8. ASSUME NEW r \in Requests, Complete(r) PROVE AuthTypeOK'
    BY <1>8 DEF Complete
<1>9. ASSUME NEW r \in Requests, LeaderRemoves(r) PROVE AuthTypeOK'
    BY <1>9 DEF LeaderRemoves
<1>10. ASSUME NEW r \in Requests, FlightAnswers(r) PROVE AuthTypeOK'
    BY <1>10 DEF FlightAnswers
<1>11. ASSUME NEW r \in Requests, WaitCancelled(r) PROVE AuthTypeOK'
    BY <1>11 DEF WaitCancelled
<1>12. ASSUME NEW a \in Admins, AdminWrite(a) PROVE AuthTypeOK'
    BY <1>12 DEF AdminWrite
<1>13. ASSUME NEW a \in Admins, InvalidateBegin(a) PROVE AuthTypeOK'
    BY <1>13 DEF InvalidateBegin
<1>14. ASSUME NEW a \in Admins, NEW s \in Shards, InvalidateShard(a, s) PROVE AuthTypeOK'
    BY <1>14 DEF InvalidateShard
<1>15. ASSUME NEW a \in Admins, InvalidateReturns(a) PROVE AuthTypeOK'
    BY <1>15 DEF InvalidateReturns
<1>16. ASSUME NEW h \in Hashes, RemoveExpired(h) PROVE AuthTypeOK'
    BY <1>16 DEF RemoveExpired
<1>17. ASSUME CloseBegin PROVE AuthTypeOK'
    BY <1>17 DEF CloseBegin
<1>18. ASSUME CloseCollect PROVE AuthTypeOK'
    BY <1>18 DEF CloseCollect
<1>19. ASSUME NEW f \in Requests, CloseComplete(f) PROVE AuthTypeOK'
    BY <1>19 DEF CloseComplete
<1>20. ASSUME NEW f \in Requests, CloseRemove(f) PROVE AuthTypeOK'
    BY <1>20 DEF CloseRemove
<1>21. ASSUME CloseReturns PROVE AuthTypeOK'
    BY <1>21 DEF CloseReturns
<1> HIDE DEF IAuth, AuthTypeOK, requestVars, flightVars, adminVars, closeVars, cacheVars, slotVars,
        Goto, Answer,
    CompleteFlight, RemoveFlight, CacheTyped, Results, FlightOf, FlightsEnd
<1> QED BY <1>1, <1>2, <1>3, <1>4, <1>5, <1>6, <1>7, <1>8, <1>9, <1>10,
           <1>11, <1>12, <1>13, <1>14, <1>15, <1>16, <1>17, <1>18, <1>19, <1>20, <1>21
       DEF AuthNext, ResolveStep, CloseStep

\* Only the present version, settled mark and generation are ever recorded.
LEMMA VersionsKept ==
    ASSUME IAuth, AuthNext, CacheTyped', ShardsConsistent'
    PROVE  VersionsOrdered'
<1> USE AuthCacheAssumption DEF IAuth, AuthTypeOK, requestVars, flightVars, adminVars, closeVars,
        cacheVars, slotVars, Goto, Answer, VersionsOrdered
<1>1. ASSUME NEW r \in Requests, Begin(r) PROVE VersionsOrdered'
    BY <1>1 DEF Begin
<1>2. ASSUME NEW r \in Requests, JoinOrLead(r) PROVE VersionsOrdered'
    <2>1. cached[HashOf[r]] # None => cached[HashOf[r]] \in Nat
        BY DEF CacheTyped
    <2>2. CASE Answer(r, "closed", 0) /\ UNCHANGED <<inFlight, loadGeneration, joined>>
        BY <1>2, <2>2 DEF JoinOrLead
    <2>3. CASE /\ FlightOf(r) # None
               /\ joined' = [joined EXCEPT ![r] = FlightOf(r)]
               /\ Goto(r, "waiting")
               /\ UNCHANGED <<inFlight, loadGeneration, result, answer>>
        BY <1>2, <2>3 DEF JoinOrLead
    <2>4. CASE /\ CacheHit(r) /\ Answer(r, "value", cached[HashOf[r]])
               /\ UNCHANGED <<inFlight, loadGeneration, joined>>
        BY <1>2, <2>1, <2>4 DEF JoinOrLead, CacheHit
    <2>5. CASE /\ inFlight' = [inFlight EXCEPT ![HashOf[r]] = r]
               /\ loadGeneration' = [loadGeneration EXCEPT ![r] = generation]
               /\ joined' = [joined EXCEPT ![r] = r]
               /\ Goto(r, "leading")
               /\ UNCHANGED <<result, answer>>
        BY <1>2, <2>5 DEF JoinOrLead
    <2> QED BY <1>2, <2>2, <2>3, <2>4, <2>5 DEF JoinOrLead
<1>3. ASSUME NEW r \in Requests, AdmitLoad(r) PROVE VersionsOrdered'
    BY <1>3 DEF AdmitLoad
<1>4. ASSUME NEW r \in Requests, NEW how \in {"saturated", "cancelled"}, RefuseLoad(r, how)
      PROVE VersionsOrdered'
    BY <1>4 DEF RefuseLoad
<1>5. ASSUME NEW r \in Requests, LoadRead(r) PROVE VersionsOrdered'
    BY <1>5 DEF LoadRead
<1>6. ASSUME NEW r \in Requests, NEW how \in {"value", "error", "panic"}, LoadEnds(r, how)
      PROVE VersionsOrdered'
    BY <1>6 DEF LoadEnds
<1>7. ASSUME NEW r \in Requests, Store(r) PROVE VersionsOrdered'
    BY <1>7 DEF Store
<1>8. ASSUME NEW r \in Requests, Complete(r) PROVE VersionsOrdered'
    BY <1>8 DEF Complete
<1>9. ASSUME NEW r \in Requests, LeaderRemoves(r) PROVE VersionsOrdered'
    BY <1>9 DEF LeaderRemoves
<1>10. ASSUME NEW r \in Requests, FlightAnswers(r) PROVE VersionsOrdered'
    BY <1>10 DEF FlightAnswers
<1>11. ASSUME NEW r \in Requests, WaitCancelled(r) PROVE VersionsOrdered'
    BY <1>11 DEF WaitCancelled
<1>12. ASSUME NEW a \in Admins, AdminWrite(a) PROVE VersionsOrdered'
    BY <1>12 DEF AdminWrite
<1>13. ASSUME NEW a \in Admins, InvalidateBegin(a) PROVE VersionsOrdered'
    BY <1>13 DEF InvalidateBegin
<1>14. ASSUME NEW a \in Admins, NEW s \in Shards, InvalidateShard(a, s) PROVE VersionsOrdered'
    BY <1>14 DEF InvalidateShard
<1>15. ASSUME NEW a \in Admins, InvalidateReturns(a) PROVE VersionsOrdered'
    BY <1>15 DEF InvalidateReturns
<1>16. ASSUME NEW h \in Hashes, RemoveExpired(h) PROVE VersionsOrdered'
    BY <1>16 DEF RemoveExpired
<1>17. ASSUME CloseBegin PROVE VersionsOrdered'
    BY <1>17 DEF CloseBegin
<1>18. ASSUME CloseCollect PROVE VersionsOrdered'
    BY <1>18 DEF CloseCollect
<1>19. ASSUME NEW f \in Requests, CloseComplete(f) PROVE VersionsOrdered'
    BY <1>19 DEF CloseComplete
<1>20. ASSUME NEW f \in Requests, CloseRemove(f) PROVE VersionsOrdered'
    BY <1>20 DEF CloseRemove
<1>21. ASSUME CloseReturns PROVE VersionsOrdered'
    BY <1>21 DEF CloseReturns
<1> HIDE DEF IAuth, AuthTypeOK, requestVars, flightVars, adminVars, closeVars, cacheVars, slotVars,
        Goto, Answer, VersionsOrdered
<1> QED BY <1>1, <1>2, <1>3, <1>4, <1>5, <1>6, <1>7, <1>8, <1>9, <1>10,
           <1>11, <1>12, <1>13, <1>14, <1>15, <1>16, <1>17, <1>18, <1>19, <1>20, <1>21
       DEF AuthNext, ResolveStep, CloseStep

\* A load reads the present version, and an invalidation that begins makes it one of an old
\* generation.
LEMMA LoadsKept ==
    ASSUME IAuth, AuthNext, CacheTyped', ShardsConsistent'
    PROVE  LoadsCurrent'
<1> USE AuthCacheAssumption DEF IAuth, AuthTypeOK, requestVars, flightVars, adminVars, closeVars,
        cacheVars, slotVars, Goto, Answer, VersionsOrdered, LoadsCurrent
<1>1. ASSUME NEW r \in Requests, Begin(r) PROVE LoadsCurrent'
    BY <1>1 DEF Begin
<1>2. ASSUME NEW r \in Requests, JoinOrLead(r) PROVE LoadsCurrent'
    BY <1>2 DEF JoinOrLead
<1>3. ASSUME NEW r \in Requests, AdmitLoad(r) PROVE LoadsCurrent'
    BY <1>3 DEF AdmitLoad
<1>4. ASSUME NEW r \in Requests, NEW how \in {"saturated", "cancelled"}, RefuseLoad(r, how)
      PROVE LoadsCurrent'
    BY <1>4 DEF RefuseLoad
<1>5. ASSUME NEW r \in Requests, LoadRead(r) PROVE LoadsCurrent'
    BY <1>5 DEF LoadRead
<1>6. ASSUME NEW r \in Requests, NEW how \in {"value", "error", "panic"}, LoadEnds(r, how)
      PROVE LoadsCurrent'
    BY <1>6 DEF LoadEnds
<1>7. ASSUME NEW r \in Requests, Store(r) PROVE LoadsCurrent'
    BY <1>7 DEF Store
<1>8. ASSUME NEW r \in Requests, Complete(r) PROVE LoadsCurrent'
    BY <1>8 DEF Complete
<1>9. ASSUME NEW r \in Requests, LeaderRemoves(r) PROVE LoadsCurrent'
    BY <1>9 DEF LeaderRemoves
<1>10. ASSUME NEW r \in Requests, FlightAnswers(r) PROVE LoadsCurrent'
    BY <1>10 DEF FlightAnswers
<1>11. ASSUME NEW r \in Requests, WaitCancelled(r) PROVE LoadsCurrent'
    BY <1>11 DEF WaitCancelled
<1>12. ASSUME NEW a \in Admins, AdminWrite(a) PROVE LoadsCurrent'
    BY <1>12 DEF AdminWrite
<1>13. ASSUME NEW a \in Admins, InvalidateBegin(a) PROVE LoadsCurrent'
    BY <1>13 DEF InvalidateBegin
<1>14. ASSUME NEW a \in Admins, NEW s \in Shards, InvalidateShard(a, s) PROVE LoadsCurrent'
    BY <1>14 DEF InvalidateShard
<1>15. ASSUME NEW a \in Admins, InvalidateReturns(a) PROVE LoadsCurrent'
    BY <1>15 DEF InvalidateReturns
<1>16. ASSUME NEW h \in Hashes, RemoveExpired(h) PROVE LoadsCurrent'
    BY <1>16 DEF RemoveExpired
<1>17. ASSUME CloseBegin PROVE LoadsCurrent'
    BY <1>17 DEF CloseBegin
<1>18. ASSUME CloseCollect PROVE LoadsCurrent'
    BY <1>18 DEF CloseCollect
<1>19. ASSUME NEW f \in Requests, CloseComplete(f) PROVE LoadsCurrent'
    BY <1>19 DEF CloseComplete
<1>20. ASSUME NEW f \in Requests, CloseRemove(f) PROVE LoadsCurrent'
    BY <1>20 DEF CloseRemove
<1>21. ASSUME CloseReturns PROVE LoadsCurrent'
    BY <1>21 DEF CloseReturns
<1> HIDE DEF IAuth, AuthTypeOK, requestVars, flightVars, adminVars, closeVars, cacheVars, slotVars,
        Goto, Answer, VersionsOrdered, LoadsCurrent
<1> QED BY <1>1, <1>2, <1>3, <1>4, <1>5, <1>6, <1>7, <1>8, <1>9, <1>10,
           <1>11, <1>12, <1>13, <1>14, <1>15, <1>16, <1>17, <1>18, <1>19, <1>20, <1>21
       DEF AuthNext, ResolveStep, CloseStep

\* A slot is taken and given back with the steps of the load it counts.
LEMMA LoadingKept ==
    ASSUME IAuth, AuthNext, CacheTyped', ShardsConsistent'
    PROVE  LoadsCounted'
<1> USE AuthCacheAssumption DEF IAuth, AuthTypeOK, requestVars, flightVars, adminVars, closeVars,
        cacheVars, slotVars, Goto, Answer, LoadsCounted
<1>1. ASSUME NEW r \in Requests, Begin(r) PROVE LoadsCounted'
    BY <1>1 DEF Begin
<1>2. ASSUME NEW r \in Requests, JoinOrLead(r) PROVE LoadsCounted'
    BY <1>2 DEF JoinOrLead
<1>3. ASSUME NEW r \in Requests, AdmitLoad(r) PROVE LoadsCounted'
    BY <1>3 DEF AdmitLoad
<1>4. ASSUME NEW r \in Requests, NEW how \in {"saturated", "cancelled"}, RefuseLoad(r, how)
      PROVE LoadsCounted'
    BY <1>4 DEF RefuseLoad
<1>5. ASSUME NEW r \in Requests, LoadRead(r) PROVE LoadsCounted'
    BY <1>5 DEF LoadRead
<1>6. ASSUME NEW r \in Requests, NEW how \in {"value", "error", "panic"}, LoadEnds(r, how)
      PROVE LoadsCounted'
    BY <1>6 DEF LoadEnds
<1>7. ASSUME NEW r \in Requests, Store(r) PROVE LoadsCounted'
    BY <1>7 DEF Store
<1>8. ASSUME NEW r \in Requests, Complete(r) PROVE LoadsCounted'
    BY <1>8 DEF Complete
<1>9. ASSUME NEW r \in Requests, LeaderRemoves(r) PROVE LoadsCounted'
    BY <1>9 DEF LeaderRemoves
<1>10. ASSUME NEW r \in Requests, FlightAnswers(r) PROVE LoadsCounted'
    BY <1>10 DEF FlightAnswers
<1>11. ASSUME NEW r \in Requests, WaitCancelled(r) PROVE LoadsCounted'
    BY <1>11 DEF WaitCancelled
<1>12. ASSUME NEW a \in Admins, AdminWrite(a) PROVE LoadsCounted'
    BY <1>12 DEF AdminWrite
<1>13. ASSUME NEW a \in Admins, InvalidateBegin(a) PROVE LoadsCounted'
    BY <1>13 DEF InvalidateBegin
<1>14. ASSUME NEW a \in Admins, NEW s \in Shards, InvalidateShard(a, s) PROVE LoadsCounted'
    BY <1>14 DEF InvalidateShard
<1>15. ASSUME NEW a \in Admins, InvalidateReturns(a) PROVE LoadsCounted'
    BY <1>15 DEF InvalidateReturns
<1>16. ASSUME NEW h \in Hashes, RemoveExpired(h) PROVE LoadsCounted'
    BY <1>16 DEF RemoveExpired
<1>17. ASSUME CloseBegin PROVE LoadsCounted'
    BY <1>17 DEF CloseBegin
<1>18. ASSUME CloseCollect PROVE LoadsCounted'
    BY <1>18 DEF CloseCollect
<1>19. ASSUME NEW f \in Requests, CloseComplete(f) PROVE LoadsCounted'
    BY <1>19 DEF CloseComplete
<1>20. ASSUME NEW f \in Requests, CloseRemove(f) PROVE LoadsCounted'
    BY <1>20 DEF CloseRemove
<1>21. ASSUME CloseReturns PROVE LoadsCounted'
    BY <1>21 DEF CloseReturns
<1> HIDE DEF IAuth, AuthTypeOK, requestVars, flightVars, adminVars, closeVars, cacheVars, slotVars,
        Goto, Answer
<1> QED BY <1>1, <1>2, <1>3, <1>4, <1>5, <1>6, <1>7, <1>8, <1>9, <1>10,
           <1>11, <1>12, <1>13, <1>14, <1>15, <1>16, <1>17, <1>18, <1>19, <1>20, <1>21
       DEF AuthNext, ResolveStep, CloseStep

\* A flight leaves the map when its leader is through, or through Close.
LEMMA RegisteredKept ==
    ASSUME IAuth, AuthNext, CacheTyped', ShardsConsistent'
    PROVE  Registered'
<1>0. /\ inFlight \in [Hashes -> Requests \union {None}]
      /\ flightDone \in SUBSET Requests /\ draining \in SUBSET Requests
      /\ pc \in [Requests -> {"new", "missed", "leading", "admitted", "reading", "storing",
                             "completing", "removing", "waiting", "answered"}]
      /\ joined \in [Requests -> Requests \union {None}]
      /\ closer \in {"open", "closed", "draining", "returned"}
      /\ Registered /\ FlightsLed /\ FlightsEnd
    BY DEF IAuth, AuthTypeOK
<1> USE <1>0, AuthCacheAssumption DEF requestVars, flightVars, adminVars, closeVars,
        cacheVars, slotVars, Goto, Answer, Leads, LeaderSteps, FlightOf, CompleteFlight,
        RemoveFlight, Closed, Registered, FlightsLed, FlightsEnd
<1>1. ASSUME NEW r \in Requests, Begin(r) PROVE Registered'
    <2>2. CASE Answer(r, "closed", 0)
        BY <1>1, <2>2 DEF Begin
    <2>3. CASE CacheHit(r) /\ Answer(r, "value", cached[HashOf[r]])
        BY <1>1, <2>3 DEF Begin
    <2>4. CASE Goto(r, "missed") /\ UNCHANGED <<result, answer>>
        BY <1>1, <2>4 DEF Begin
    <2> QED BY <1>1, <2>2, <2>3, <2>4 DEF Begin
<1>2. ASSUME NEW r \in Requests, JoinOrLead(r) PROVE Registered'
    <2>2. CASE Answer(r, "closed", 0) /\ UNCHANGED <<inFlight, loadGeneration, joined>>
        BY <1>2, <2>2 DEF JoinOrLead
    <2>3. CASE /\ FlightOf(r) # None
               /\ joined' = [joined EXCEPT ![r] = FlightOf(r)]
               /\ Goto(r, "waiting")
               /\ UNCHANGED <<inFlight, loadGeneration, result, answer>>
        BY <1>2, <2>3 DEF JoinOrLead
    <2>4. CASE /\ CacheHit(r) /\ Answer(r, "value", cached[HashOf[r]])
               /\ UNCHANGED <<inFlight, loadGeneration, joined>>
        BY <1>2, <2>4 DEF JoinOrLead
    <2>5. CASE /\ inFlight' = [inFlight EXCEPT ![HashOf[r]] = r]
               /\ loadGeneration' = [loadGeneration EXCEPT ![r] = generation]
               /\ joined' = [joined EXCEPT ![r] = r]
               /\ Goto(r, "leading")
               /\ UNCHANGED <<result, answer>>
        BY <1>2, <2>5 DEF JoinOrLead
    <2> QED BY <1>2, <2>2, <2>3, <2>4, <2>5 DEF JoinOrLead
<1>3. ASSUME NEW r \in Requests, AdmitLoad(r) PROVE Registered'
    BY <1>3 DEF AdmitLoad
<1>4. ASSUME NEW r \in Requests, NEW how \in {"saturated", "cancelled"}, RefuseLoad(r, how)
      PROVE Registered'
    BY <1>4 DEF RefuseLoad
<1>5. ASSUME NEW r \in Requests, LoadRead(r) PROVE Registered'
    BY <1>5 DEF LoadRead
<1>6. ASSUME NEW r \in Requests, NEW how \in {"value", "error", "panic"}, LoadEnds(r, how)
      PROVE Registered'
    <2>1. CASE how = "value"
        BY <1>6, <2>1 DEF LoadEnds
    <2>2. CASE how # "value"
        BY <1>6, <2>2 DEF LoadEnds
    <2> QED BY <2>1, <2>2
<1>7. ASSUME NEW r \in Requests, Store(r) PROVE Registered'
    BY <1>7 DEF Store
<1>8. ASSUME NEW r \in Requests, Complete(r) PROVE Registered'
    BY <1>8 DEF Complete
<1>9. ASSUME NEW r \in Requests, LeaderRemoves(r) PROVE Registered'
    BY <1>9 DEF LeaderRemoves
<1>10. ASSUME NEW r \in Requests, FlightAnswers(r) PROVE Registered'
    BY <1>10 DEF FlightAnswers
<1>11. ASSUME NEW r \in Requests, WaitCancelled(r) PROVE Registered'
    BY <1>11 DEF WaitCancelled
<1>12. ASSUME NEW a \in Admins, AdminWrite(a) PROVE Registered'
    BY <1>12 DEF AdminWrite
<1>13. ASSUME NEW a \in Admins, InvalidateBegin(a) PROVE Registered'
    BY <1>13 DEF InvalidateBegin
<1>14. ASSUME NEW a \in Admins, NEW s \in Shards, InvalidateShard(a, s) PROVE Registered'
    BY <1>14 DEF InvalidateShard
<1>15. ASSUME NEW a \in Admins, InvalidateReturns(a) PROVE Registered'
    BY <1>15 DEF InvalidateReturns
<1>16. ASSUME NEW h \in Hashes, RemoveExpired(h) PROVE Registered'
    BY <1>16 DEF RemoveExpired
<1>17. ASSUME CloseBegin PROVE Registered'
    BY <1>17 DEF CloseBegin
<1>18. ASSUME CloseCollect PROVE Registered'
    BY <1>18 DEF CloseCollect
<1>19. ASSUME NEW f \in Requests, CloseComplete(f) PROVE Registered'
    BY <1>19 DEF CloseComplete
<1>20. ASSUME NEW f \in Requests, CloseRemove(f) PROVE Registered'
    BY <1>20 DEF CloseRemove
<1>21. ASSUME CloseReturns PROVE Registered'
    BY <1>21 DEF CloseReturns
<1> HIDE DEF requestVars, flightVars, adminVars, closeVars, cacheVars, slotVars,
        Goto, Answer, Leads, LeaderSteps, FlightOf, CompleteFlight, RemoveFlight, Closed,
        Registered, FlightsLed, FlightsEnd
<1> QED BY <1>1, <1>2, <1>3, <1>4, <1>5, <1>6, <1>7, <1>8, <1>9, <1>10,
           <1>11, <1>12, <1>13, <1>14, <1>15, <1>16, <1>17, <1>18, <1>19, <1>20, <1>21
       DEF AuthNext, ResolveStep, CloseStep

\* A flight is registered only where there is none, so no other leads for the hash.
LEMMA FlightsLedKept ==
    ASSUME IAuth, AuthNext, CacheTyped', ShardsConsistent'
    PROVE  FlightsLed'
<1>0. /\ inFlight \in [Hashes -> Requests \union {None}]
      /\ flightDone \in SUBSET Requests /\ draining \in SUBSET Requests
      /\ pc \in [Requests -> {"new", "missed", "leading", "admitted", "reading", "storing",
                             "completing", "removing", "waiting", "answered"}]
      /\ joined \in [Requests -> Requests \union {None}]
      /\ closer \in {"open", "closed", "draining", "returned"}
      /\ Registered /\ FlightsLed /\ FlightsEnd
    BY DEF IAuth, AuthTypeOK
<1> USE <1>0, AuthCacheAssumption DEF requestVars, flightVars, adminVars, closeVars,
        cacheVars, slotVars, Goto, Answer, Leads, LeaderSteps, FlightOf, CompleteFlight,
        RemoveFlight, Closed, Registered, FlightsLed, FlightsEnd
<1>1. ASSUME NEW r \in Requests, Begin(r) PROVE FlightsLed'
    <2>2. CASE Answer(r, "closed", 0)
        BY <1>1, <2>2 DEF Begin
    <2>3. CASE CacheHit(r) /\ Answer(r, "value", cached[HashOf[r]])
        BY <1>1, <2>3 DEF Begin
    <2>4. CASE Goto(r, "missed") /\ UNCHANGED <<result, answer>>
        BY <1>1, <2>4 DEF Begin
    <2> QED BY <1>1, <2>2, <2>3, <2>4 DEF Begin
<1>2. ASSUME NEW r \in Requests, JoinOrLead(r) PROVE FlightsLed'
    <2>2. CASE Answer(r, "closed", 0) /\ UNCHANGED <<inFlight, loadGeneration, joined>>
        BY <1>2, <2>2 DEF JoinOrLead
    <2>3. CASE /\ FlightOf(r) # None
               /\ joined' = [joined EXCEPT ![r] = FlightOf(r)]
               /\ Goto(r, "waiting")
               /\ UNCHANGED <<inFlight, loadGeneration, result, answer>>
        BY <1>2, <2>3 DEF JoinOrLead
    <2>4. CASE /\ CacheHit(r) /\ Answer(r, "value", cached[HashOf[r]])
               /\ UNCHANGED <<inFlight, loadGeneration, joined>>
        BY <1>2, <2>4 DEF JoinOrLead
    <2>5. CASE /\ inFlight' = [inFlight EXCEPT ![HashOf[r]] = r]
               /\ loadGeneration' = [loadGeneration EXCEPT ![r] = generation]
               /\ joined' = [joined EXCEPT ![r] = r]
               /\ Goto(r, "leading")
               /\ UNCHANGED <<result, answer>>
        BY <1>2, <2>5 DEF JoinOrLead
    <2> QED BY <1>2, <2>2, <2>3, <2>4, <2>5 DEF JoinOrLead
<1>3. ASSUME NEW r \in Requests, AdmitLoad(r) PROVE FlightsLed'
    <2>1. inFlight' = inFlight /\ \A q \in Requests : Leads(q)' <=> Leads(q)
        BY <1>3 DEF AdmitLoad
    <2>2. \A h \in Hashes : inFlight[h] # None => (Leads(inFlight[h])' <=> Leads(inFlight[h]))
        BY <2>1
    <2> QED BY <2>1, <2>2
<1>4. ASSUME NEW r \in Requests, NEW how \in {"saturated", "cancelled"}, RefuseLoad(r, how)
      PROVE FlightsLed'
    BY <1>4 DEF RefuseLoad
<1>5. ASSUME NEW r \in Requests, LoadRead(r) PROVE FlightsLed'
    <2>1. inFlight' = inFlight /\ \A q \in Requests : Leads(q)' <=> Leads(q)
        BY <1>5 DEF LoadRead
    <2>2. \A h \in Hashes : inFlight[h] # None => (Leads(inFlight[h])' <=> Leads(inFlight[h]))
        BY <2>1
    <2> QED BY <2>1, <2>2
<1>6. ASSUME NEW r \in Requests, NEW how \in {"value", "error", "panic"}, LoadEnds(r, how)
      PROVE FlightsLed'
    <2>1. inFlight' = inFlight /\ \A q \in Requests : Leads(q)' <=> Leads(q)
        BY <1>6 DEF LoadEnds
    <2>2. \A h \in Hashes : inFlight[h] # None => (Leads(inFlight[h])' <=> Leads(inFlight[h]))
        BY <2>1
    <2> QED BY <2>1, <2>2
<1>7. ASSUME NEW r \in Requests, Store(r) PROVE FlightsLed'
    BY <1>7 DEF Store
<1>8. ASSUME NEW r \in Requests, Complete(r) PROVE FlightsLed'
    BY <1>8 DEF Complete
<1>9. ASSUME NEW r \in Requests, LeaderRemoves(r) PROVE FlightsLed'
    BY <1>9 DEF LeaderRemoves
<1>10. ASSUME NEW r \in Requests, FlightAnswers(r) PROVE FlightsLed'
    BY <1>10 DEF FlightAnswers
<1>11. ASSUME NEW r \in Requests, WaitCancelled(r) PROVE FlightsLed'
    BY <1>11 DEF WaitCancelled
<1>12. ASSUME NEW a \in Admins, AdminWrite(a) PROVE FlightsLed'
    BY <1>12 DEF AdminWrite
<1>13. ASSUME NEW a \in Admins, InvalidateBegin(a) PROVE FlightsLed'
    BY <1>13 DEF InvalidateBegin
<1>14. ASSUME NEW a \in Admins, NEW s \in Shards, InvalidateShard(a, s) PROVE FlightsLed'
    BY <1>14 DEF InvalidateShard
<1>15. ASSUME NEW a \in Admins, InvalidateReturns(a) PROVE FlightsLed'
    BY <1>15 DEF InvalidateReturns
<1>16. ASSUME NEW h \in Hashes, RemoveExpired(h) PROVE FlightsLed'
    BY <1>16 DEF RemoveExpired
<1>17. ASSUME CloseBegin PROVE FlightsLed'
    BY <1>17 DEF CloseBegin
<1>18. ASSUME CloseCollect PROVE FlightsLed'
    BY <1>18 DEF CloseCollect
<1>19. ASSUME NEW f \in Requests, CloseComplete(f) PROVE FlightsLed'
    BY <1>19 DEF CloseComplete
<1>20. ASSUME NEW f \in Requests, CloseRemove(f) PROVE FlightsLed'
    BY <1>20 DEF CloseRemove
<1>21. ASSUME CloseReturns PROVE FlightsLed'
    BY <1>21 DEF CloseReturns
<1> HIDE DEF requestVars, flightVars, adminVars, closeVars, cacheVars, slotVars,
        Goto, Answer, Leads, LeaderSteps, FlightOf, CompleteFlight, RemoveFlight, Closed,
        Registered, FlightsLed, FlightsEnd
<1> QED BY <1>1, <1>2, <1>3, <1>4, <1>5, <1>6, <1>7, <1>8, <1>9, <1>10,
           <1>11, <1>12, <1>13, <1>14, <1>15, <1>16, <1>17, <1>18, <1>19, <1>20, <1>21
       DEF AuthNext, ResolveStep, CloseStep

\* Whoever joins a flight joins a registered one, and it leaves the map completed.
LEMMA FlightsEndKept ==
    ASSUME IAuth, AuthNext, CacheTyped', ShardsConsistent'
    PROVE  FlightsEnd'
<1>0. /\ inFlight \in [Hashes -> Requests \union {None}]
      /\ flightDone \in SUBSET Requests /\ draining \in SUBSET Requests
      /\ pc \in [Requests -> {"new", "missed", "leading", "admitted", "reading", "storing",
                             "completing", "removing", "waiting", "answered"}]
      /\ joined \in [Requests -> Requests \union {None}]
      /\ closer \in {"open", "closed", "draining", "returned"}
      /\ Registered /\ FlightsLed /\ FlightsEnd
    BY DEF IAuth, AuthTypeOK
<1> USE <1>0, AuthCacheAssumption DEF requestVars, flightVars, adminVars, closeVars,
        cacheVars, slotVars, Goto, Answer, Leads, LeaderSteps, FlightOf, CompleteFlight,
        RemoveFlight, Closed, Registered, FlightsLed, FlightsEnd
<1>1. ASSUME NEW r \in Requests, Begin(r) PROVE FlightsEnd'
    <2>2. CASE Answer(r, "closed", 0)
        BY <1>1, <2>2 DEF Begin
    <2>3. CASE CacheHit(r) /\ Answer(r, "value", cached[HashOf[r]])
        BY <1>1, <2>3 DEF Begin
    <2>4. CASE Goto(r, "missed") /\ UNCHANGED <<result, answer>>
        BY <1>1, <2>4 DEF Begin
    <2> QED BY <1>1, <2>2, <2>3, <2>4 DEF Begin
<1>2. ASSUME NEW r \in Requests, JoinOrLead(r) PROVE FlightsEnd'
    <2>2. CASE Answer(r, "closed", 0) /\ UNCHANGED <<inFlight, loadGeneration, joined>>
        BY <1>2, <2>2 DEF JoinOrLead
    <2>3. CASE /\ FlightOf(r) # None
               /\ joined' = [joined EXCEPT ![r] = FlightOf(r)]
               /\ Goto(r, "waiting")
               /\ UNCHANGED <<inFlight, loadGeneration, result, answer>>
        BY <1>2, <2>3 DEF JoinOrLead
    <2>4. CASE /\ CacheHit(r) /\ Answer(r, "value", cached[HashOf[r]])
               /\ UNCHANGED <<inFlight, loadGeneration, joined>>
        BY <1>2, <2>4 DEF JoinOrLead
    <2>5. CASE /\ inFlight' = [inFlight EXCEPT ![HashOf[r]] = r]
               /\ loadGeneration' = [loadGeneration EXCEPT ![r] = generation]
               /\ joined' = [joined EXCEPT ![r] = r]
               /\ Goto(r, "leading")
               /\ UNCHANGED <<result, answer>>
        BY <1>2, <2>5 DEF JoinOrLead
    <2> QED BY <1>2, <2>2, <2>3, <2>4, <2>5 DEF JoinOrLead
<1>3. ASSUME NEW r \in Requests, AdmitLoad(r) PROVE FlightsEnd'
    BY <1>3 DEF AdmitLoad
<1>4. ASSUME NEW r \in Requests, NEW how \in {"saturated", "cancelled"}, RefuseLoad(r, how)
      PROVE FlightsEnd'
    BY <1>4 DEF RefuseLoad
<1>5. ASSUME NEW r \in Requests, LoadRead(r) PROVE FlightsEnd'
    BY <1>5 DEF LoadRead
<1>6. ASSUME NEW r \in Requests, NEW how \in {"value", "error", "panic"}, LoadEnds(r, how)
      PROVE FlightsEnd'
    <2>1. CASE how = "value"
        BY <1>6, <2>1 DEF LoadEnds
    <2>2. CASE how # "value"
        BY <1>6, <2>2 DEF LoadEnds
    <2> QED BY <2>1, <2>2
<1>7. ASSUME NEW r \in Requests, Store(r) PROVE FlightsEnd'
    BY <1>7 DEF Store
<1>8. ASSUME NEW r \in Requests, Complete(r) PROVE FlightsEnd'
    BY <1>8 DEF Complete
<1>9. ASSUME NEW r \in Requests, LeaderRemoves(r) PROVE FlightsEnd'
    BY <1>9 DEF LeaderRemoves
<1>10. ASSUME NEW r \in Requests, FlightAnswers(r) PROVE FlightsEnd'
    BY <1>10 DEF FlightAnswers
<1>11. ASSUME NEW r \in Requests, WaitCancelled(r) PROVE FlightsEnd'
    BY <1>11 DEF WaitCancelled
<1>12. ASSUME NEW a \in Admins, AdminWrite(a) PROVE FlightsEnd'
    BY <1>12 DEF AdminWrite
<1>13. ASSUME NEW a \in Admins, InvalidateBegin(a) PROVE FlightsEnd'
    BY <1>13 DEF InvalidateBegin
<1>14. ASSUME NEW a \in Admins, NEW s \in Shards, InvalidateShard(a, s) PROVE FlightsEnd'
    BY <1>14 DEF InvalidateShard
<1>15. ASSUME NEW a \in Admins, InvalidateReturns(a) PROVE FlightsEnd'
    BY <1>15 DEF InvalidateReturns
<1>16. ASSUME NEW h \in Hashes, RemoveExpired(h) PROVE FlightsEnd'
    BY <1>16 DEF RemoveExpired
<1>17. ASSUME CloseBegin PROVE FlightsEnd'
    BY <1>17 DEF CloseBegin
<1>18. ASSUME CloseCollect PROVE FlightsEnd'
    BY <1>18 DEF CloseCollect
<1>19. ASSUME NEW f \in Requests, CloseComplete(f) PROVE FlightsEnd'
    BY <1>19 DEF CloseComplete
<1>20. ASSUME NEW f \in Requests, CloseRemove(f) PROVE FlightsEnd'
    BY <1>20 DEF CloseRemove
<1>21. ASSUME CloseReturns PROVE FlightsEnd'
    BY <1>21 DEF CloseReturns
<1> HIDE DEF requestVars, flightVars, adminVars, closeVars, cacheVars, slotVars,
        Goto, Answer, Leads, LeaderSteps, FlightOf, CompleteFlight, RemoveFlight, Closed,
        Registered, FlightsLed, FlightsEnd
<1> QED BY <1>1, <1>2, <1>3, <1>4, <1>5, <1>6, <1>7, <1>8, <1>9, <1>10,
           <1>11, <1>12, <1>13, <1>14, <1>15, <1>16, <1>17, <1>18, <1>19, <1>20, <1>21
       DEF AuthNext, ResolveStep, CloseStep

\* A value is the outcome of the flight whose leader has read it.
LEMMA OutcomeKept ==
    ASSUME IAuth, AuthNext, CacheTyped', ShardsConsistent'
    PROVE  Outcome'
<1>0. /\ inFlight \in [Hashes -> Requests \union {None}]
      /\ flightDone \in SUBSET Requests
      /\ flightResult \in [Requests -> Results]
      /\ pc \in [Requests -> {"new", "missed", "leading", "admitted", "reading", "storing",
                             "completing", "removing", "waiting", "answered"}]
      /\ result \in [Requests -> Results]
      /\ got \in [Requests -> Nat] /\ floor \in [Requests -> Nat]
      /\ settled \in Nat /\ version \in Nat /\ settled <= version
      /\ \A r \in Requests : floor[r] <= settled
      /\ Outcome /\ FlightsEnd
    BY DEF IAuth, AuthTypeOK, VersionsOrdered, Results
<1> USE <1>0, AuthCacheAssumption DEF requestVars, flightVars, adminVars, closeVars,
        cacheVars, slotVars, Goto, Answer, Leads, LeaderSteps, FlightOf, CompleteFlight,
        RemoveFlight, Closed, Results, Outcome, FlightsEnd
<1>1. ASSUME NEW r \in Requests, Begin(r) PROVE Outcome'
    <2>2. CASE Answer(r, "closed", 0)
        BY <1>1, <2>2 DEF Begin
    <2>3. CASE CacheHit(r) /\ Answer(r, "value", cached[HashOf[r]])
        BY <1>1, <2>3 DEF Begin
    <2>4. CASE Goto(r, "missed") /\ UNCHANGED <<result, answer>>
        BY <1>1, <2>4 DEF Begin
    <2> QED BY <1>1, <2>2, <2>3, <2>4 DEF Begin
<1>2. ASSUME NEW r \in Requests, JoinOrLead(r) PROVE Outcome'
    <2>2. CASE Answer(r, "closed", 0) /\ UNCHANGED <<inFlight, loadGeneration, joined>>
        BY <1>2, <2>2 DEF JoinOrLead
    <2>3. CASE /\ FlightOf(r) # None
               /\ joined' = [joined EXCEPT ![r] = FlightOf(r)]
               /\ Goto(r, "waiting")
               /\ UNCHANGED <<inFlight, loadGeneration, result, answer>>
        BY <1>2, <2>3 DEF JoinOrLead
    <2>4. CASE /\ CacheHit(r) /\ Answer(r, "value", cached[HashOf[r]])
               /\ UNCHANGED <<inFlight, loadGeneration, joined>>
        BY <1>2, <2>4 DEF JoinOrLead
    <2>5. CASE /\ inFlight' = [inFlight EXCEPT ![HashOf[r]] = r]
               /\ loadGeneration' = [loadGeneration EXCEPT ![r] = generation]
               /\ joined' = [joined EXCEPT ![r] = r]
               /\ Goto(r, "leading")
               /\ UNCHANGED <<result, answer>>
        BY <1>2, <2>5 DEF JoinOrLead
    <2> QED BY <1>2, <2>2, <2>3, <2>4, <2>5 DEF JoinOrLead
<1>3. ASSUME NEW r \in Requests, AdmitLoad(r) PROVE Outcome'
    BY <1>3 DEF AdmitLoad
<1>4. ASSUME NEW r \in Requests, NEW how \in {"saturated", "cancelled"}, RefuseLoad(r, how)
      PROVE Outcome'
    BY <1>4 DEF RefuseLoad
<1>5. ASSUME NEW r \in Requests, LoadRead(r) PROVE Outcome'
    BY <1>5 DEF LoadRead
<1>6. ASSUME NEW r \in Requests, NEW how \in {"value", "error", "panic"}, LoadEnds(r, how)
      PROVE Outcome'
    <2>1. CASE how = "value"
        <3>1. pc' = [pc EXCEPT ![r] = "storing"] /\ pc[r] = "reading"
            BY <1>6, <2>1 DEF LoadEnds
        <3>2. UNCHANGED <<flightResult, got, floor, result>>
            BY <1>6, <2>1 DEF LoadEnds
        <3> QED BY <3>1, <3>2
    <2>2. CASE how # "value"
        BY <1>6, <2>2 DEF LoadEnds
    <2> QED BY <2>1, <2>2
<1>7. ASSUME NEW r \in Requests, Store(r) PROVE Outcome'
    BY <1>7 DEF Store
<1>8. ASSUME NEW r \in Requests, Complete(r) PROVE Outcome'
    BY <1>8 DEF Complete
<1>9. ASSUME NEW r \in Requests, LeaderRemoves(r) PROVE Outcome'
    BY <1>9 DEF LeaderRemoves
<1>10. ASSUME NEW r \in Requests, FlightAnswers(r) PROVE Outcome'
    BY <1>10 DEF FlightAnswers
<1>11. ASSUME NEW r \in Requests, WaitCancelled(r) PROVE Outcome'
    BY <1>11 DEF WaitCancelled
<1>12. ASSUME NEW a \in Admins, AdminWrite(a) PROVE Outcome'
    BY <1>12 DEF AdminWrite
<1>13. ASSUME NEW a \in Admins, InvalidateBegin(a) PROVE Outcome'
    BY <1>13 DEF InvalidateBegin
<1>14. ASSUME NEW a \in Admins, NEW s \in Shards, InvalidateShard(a, s) PROVE Outcome'
    BY <1>14 DEF InvalidateShard
<1>15. ASSUME NEW a \in Admins, InvalidateReturns(a) PROVE Outcome'
    BY <1>15 DEF InvalidateReturns
<1>16. ASSUME NEW h \in Hashes, RemoveExpired(h) PROVE Outcome'
    BY <1>16 DEF RemoveExpired
<1>17. ASSUME CloseBegin PROVE Outcome'
    BY <1>17 DEF CloseBegin
<1>18. ASSUME CloseCollect PROVE Outcome'
    BY <1>18 DEF CloseCollect
<1>19. ASSUME NEW f \in Requests, CloseComplete(f) PROVE Outcome'
    BY <1>19 DEF CloseComplete
<1>20. ASSUME NEW f \in Requests, CloseRemove(f) PROVE Outcome'
    BY <1>20 DEF CloseRemove
<1>21. ASSUME CloseReturns PROVE Outcome'
    BY <1>21 DEF CloseReturns
<1> HIDE DEF requestVars, flightVars, adminVars, closeVars, cacheVars, slotVars,
        Goto, Answer, Leads, LeaderSteps, FlightOf, CompleteFlight, RemoveFlight, Closed,
        VersionsOrdered, Outcome, FlightsEnd
<1> QED BY <1>1, <1>2, <1>3, <1>4, <1>5, <1>6, <1>7, <1>8, <1>9, <1>10,
           <1>11, <1>12, <1>13, <1>14, <1>15, <1>16, <1>17, <1>18, <1>19, <1>20, <1>21
       DEF AuthNext, ResolveStep, CloseStep

-----------------------------------------------------------------------------
(* Answers.                                                                *)

\* The leader of a registered flight has not returned.
LEMMA FlightIsLed ==
    ASSUME IAuth, NEW r \in Requests, FlightOf(r) # None
    PROVE  pc[FlightOf(r)] # "answered"
BY AuthCacheAssumption DEF IAuth, FlightsLed, Leads, LeaderSteps, FlightOf

\* What AnswersFresh says of one request.
FreshAnswer(r) ==
    /\ pc[r] # "answered" /\ pc'[r] = "answered" /\ result'[r] = "value" =>
           answer'[r] >= IF joined[r] = None THEN floor'[r] ELSE floor[joined[r]]
    /\ joined[r] = None /\ joined'[r] \notin {None, r} => pc[joined'[r]] # "answered"


\* A cached answer is as new as the last finished invalidation, a flight's as its leader's load.
LEMMA Fresh ==
    ASSUME IAuth, AuthNext, NEW q \in Requests
    PROVE  FreshAnswer(q)
<1> USE AuthCacheAssumption DEF IAuth, AuthTypeOK, requestVars, flightVars, adminVars, closeVars,
        cacheVars, slotVars, Goto, Answer,
    VersionsOrdered, CacheNotStale, FlightsLed, FlightsEnd, Outcome, FlightOf, Leads, LeaderSteps, FreshAnswer
<1>1. ASSUME NEW r \in Requests, Begin(r) PROVE FreshAnswer(q)
    BY <1>1 DEF Begin, CacheHit
<1>2. ASSUME NEW r \in Requests, JoinOrLead(r) PROVE FreshAnswer(q)
    <2>1. cached[HashOf[r]] # None => cached[HashOf[r]] \in Nat
        BY DEF CacheTyped
    <2>2. CASE Answer(r, "closed", 0) /\ UNCHANGED <<inFlight, loadGeneration, joined>>
        BY <1>2, <2>2 DEF JoinOrLead
    <2>3. CASE /\ FlightOf(r) # None
               /\ joined' = [joined EXCEPT ![r] = FlightOf(r)]
               /\ Goto(r, "waiting")
               /\ UNCHANGED <<inFlight, loadGeneration, result, answer>>
        <3>1. pc[FlightOf(r)] # "answered"
            BY <2>3, FlightIsLed
        <3>2. \A p \in Requests \ {r} : pc'[p] = pc[p] /\ joined'[p] = joined[p]
            BY <1>2, <2>3
        <3> QED BY <1>2, <2>3, <3>1, <3>2 DEF JoinOrLead
    <2>4. CASE /\ CacheHit(r) /\ Answer(r, "value", cached[HashOf[r]])
               /\ UNCHANGED <<inFlight, loadGeneration, joined>>
        <3>1. cached[HashOf[r]] # None
            BY <2>4 DEF CacheHit
        <3>2. cached[HashOf[r]] \in Nat /\ cached[HashOf[r]] >= settled /\ floor[r] <= settled
            BY <2>1, <3>1
        <3>3. UNCHANGED floor
            BY <1>2 DEF JoinOrLead
        <3> QED BY <1>2, <2>4, <3>2, <3>3
    <2>5. CASE /\ inFlight' = [inFlight EXCEPT ![HashOf[r]] = r]
               /\ loadGeneration' = [loadGeneration EXCEPT ![r] = generation]
               /\ joined' = [joined EXCEPT ![r] = r]
               /\ Goto(r, "leading")
               /\ UNCHANGED <<result, answer>>
        BY <1>2, <2>5 DEF JoinOrLead
    <2> QED BY <1>2, <2>2, <2>3, <2>4, <2>5 DEF JoinOrLead
<1>3. ASSUME NEW r \in Requests, AdmitLoad(r) PROVE FreshAnswer(q)
    BY <1>3 DEF AdmitLoad
<1>4. ASSUME NEW r \in Requests, NEW how \in {"saturated", "cancelled"}, RefuseLoad(r, how)
      PROVE FreshAnswer(q)
    BY <1>4 DEF RefuseLoad
<1>5. ASSUME NEW r \in Requests, LoadRead(r) PROVE FreshAnswer(q)
    BY <1>5 DEF LoadRead
<1>6. ASSUME NEW r \in Requests, NEW how \in {"value", "error", "panic"}, LoadEnds(r, how)
      PROVE FreshAnswer(q)
    BY <1>6 DEF LoadEnds
<1>7. ASSUME NEW r \in Requests, Store(r) PROVE FreshAnswer(q)
    BY <1>7 DEF Store
<1>8. ASSUME NEW r \in Requests, Complete(r) PROVE FreshAnswer(q)
    BY <1>8 DEF Complete
<1>9. ASSUME NEW r \in Requests, LeaderRemoves(r) PROVE FreshAnswer(q)
    BY <1>9 DEF LeaderRemoves
<1>10. ASSUME NEW r \in Requests, FlightAnswers(r) PROVE FreshAnswer(q)
    BY <1>10 DEF FlightAnswers
<1>11. ASSUME NEW r \in Requests, WaitCancelled(r) PROVE FreshAnswer(q)
    BY <1>11 DEF WaitCancelled
<1>12. ASSUME NEW a \in Admins, AdminWrite(a) PROVE FreshAnswer(q)
    BY <1>12 DEF AdminWrite
<1>13. ASSUME NEW a \in Admins, InvalidateBegin(a) PROVE FreshAnswer(q)
    BY <1>13 DEF InvalidateBegin
<1>14. ASSUME NEW a \in Admins, NEW s \in Shards, InvalidateShard(a, s) PROVE FreshAnswer(q)
    BY <1>14 DEF InvalidateShard
<1>15. ASSUME NEW a \in Admins, InvalidateReturns(a) PROVE FreshAnswer(q)
    BY <1>15 DEF InvalidateReturns
<1>16. ASSUME NEW h \in Hashes, RemoveExpired(h) PROVE FreshAnswer(q)
    BY <1>16 DEF RemoveExpired
<1>17. ASSUME CloseBegin PROVE FreshAnswer(q)
    BY <1>17 DEF CloseBegin
<1>18. ASSUME CloseCollect PROVE FreshAnswer(q)
    BY <1>18 DEF CloseCollect
<1>19. ASSUME NEW f \in Requests, CloseComplete(f) PROVE FreshAnswer(q)
    BY <1>19 DEF CloseComplete
<1>20. ASSUME NEW f \in Requests, CloseRemove(f) PROVE FreshAnswer(q)
    BY <1>20 DEF CloseRemove
<1>21. ASSUME CloseReturns PROVE FreshAnswer(q)
    BY <1>21 DEF CloseReturns
<1> HIDE DEF IAuth, AuthTypeOK, requestVars, flightVars, adminVars, closeVars, cacheVars, slotVars,
        Goto, Answer,
    VersionsOrdered, CacheNotStale, FlightsLed, FlightsEnd, Outcome, FlightOf, Leads, LeaderSteps, FreshAnswer
<1> QED BY <1>1, <1>2, <1>3, <1>4, <1>5, <1>6, <1>7, <1>8, <1>9, <1>10,
           <1>11, <1>12, <1>13, <1>14, <1>15, <1>16, <1>17, <1>18, <1>19, <1>20, <1>21
       DEF AuthNext, ResolveStep, CloseStep

-----------------------------------------------------------------------------
(* The theorems.                                                           *)

\* Initially nothing is cached, loaded or invalidated.
LEMMA AuthInitIsI == ASSUME AuthInit PROVE IAuth
<1> USE AuthCacheAssumption DEF AuthInit
<1>1. AuthTypeOK
    BY DEF AuthTypeOK
<1>2. ShardsConsistent
    <2>1. Len(<<>>) = 0 /\ IsInjective(<<>>) /\ ToSet(<<>>) = {}
        BY DEF IsInjective, ToSet
    <2> QED BY <2>1 DEF ShardsConsistent
<1>3. VersionsOrdered /\ LoadsCurrent /\ ShardsCleared /\ CacheNotStale
    BY DEF VersionsOrdered, LoadsCurrent, ShardsCleared, CacheNotStale
<1>4. Registered /\ FlightsLed /\ FlightsEnd /\ Outcome
    BY DEF Registered, FlightsLed, FlightsEnd, Outcome, Leads, LeaderSteps
<1>5. LoadsCounted
    BY DEF LoadsCounted
<1> QED BY <1>1, <1>2, <1>3, <1>4, <1>5 DEF IAuth

\* The checked invariant follows from the inductive one.
LEMMA IAuthImplies == ASSUME IAuth PROVE AuthInv
<1>1. OneLoadPerHash
    BY DEF IAuth, LoadsCounted, OneLoadPerHash, FlightsLed, Leads, LeaderSteps
<1>2. CloseLeavesNoFlight
    BY AuthCacheAssumption DEF IAuth, AuthTypeOK, CloseLeavesNoFlight, FlightsEnd
<1> QED BY <1>1, <1>2 DEF IAuth, AuthInv

\* A stuttering step changes no part of it.
LEMMA IAuthStutters == ASSUME IAuth, UNCHANGED authVars PROVE IAuth'
BY DEF IAuth, AuthTypeOK, VersionsOrdered, LoadsCurrent, ShardsCleared, CacheNotStale, ShardsConsistent,
       LoadsCounted, Registered, FlightsLed, FlightsEnd, Outcome, Leads, Closed, authVars,
       requestVars, flightVars, adminVars, closeVars, cacheVars, slotVars

\* Every step preserves the invariant.
LEMMA IAuthStep == ASSUME IAuth, AuthNext PROVE IAuth'
<1>1. CacheTyped' /\ ShardsConsistent' /\ (Shrunk \/ \E r \in Requests : Store(r))
    BY CacheKept
<1>2. ShardsCleared' /\ CacheNotStale'
    BY <1>1, ClearedKept, StoreIsCurrent
<1>3. AuthTypeOK' /\ VersionsOrdered' /\ LoadsCurrent'
    BY <1>1, TypesKept, VersionsKept, LoadsKept
<1>4. Registered' /\ FlightsLed' /\ FlightsEnd' /\ Outcome'
    BY <1>1, RegisteredKept, FlightsLedKept, FlightsEndKept, OutcomeKept
<1>5. LoadsCounted'
    BY <1>1, LoadingKept
<1> QED BY <1>1, <1>2, <1>3, <1>4, <1>5 DEF IAuth

\* The inductive invariant holds throughout.
LEMMA AuthInductive == AuthSpec => []IAuth
<1>1. AuthInit => IAuth
    BY AuthInitIsI
<1>2. IAuth /\ [AuthNext]_authVars => IAuth'
    BY IAuthStep, IAuthStutters
<1> QED BY <1>1, <1>2, PTL DEF AuthSpec

\* Nothing read before an invalidation outlives it in the cache, however many loads, evictions
\* and administrators overlap (InvalidateAll and storeEntry of internal/auth/resolver_cache.go);
\* lists and maps agree within the capacity; a key is loaded once at a time; Close strands nobody.
THEOREM AuthCacheInvariant == AuthSpec => []AuthInv
<1>1. IAuth => AuthInv
    BY IAuthImplies
<1> QED BY <1>1, AuthInductive, PTL

\* A Resolve is answered with nothing older than the invalidations finished when it, or the
\* leader whose flight it joined, began (Resolve of internal/auth/resolver_cache.go).
THEOREM AuthAnswersFresh == AuthSpec => AnswersFresh
<1>1. ASSUME IAuth, AuthNext PROVE \A r \in Requests : FreshAnswer(r)
    BY <1>1, Fresh
<1>2. ASSUME UNCHANGED authVars PROVE \A r \in Requests : FreshAnswer(r)
    BY <1>2 DEF FreshAnswer, authVars, requestVars
<1>3. IAuth /\ [AuthNext]_authVars => [\A r \in Requests : FreshAnswer(r)]_authVars
    BY <1>1, <1>2
<1> QED BY <1>3, AuthInductive, PTL DEF AuthSpec, AnswersFresh, FreshAnswer

-----------------------------------------------------------------------------
(* LoginProtector.  Every operation works on a copy of both tables; what    *)
(* holds of the tables alone is WellKept, who holds an entry HeldExactly,   *)
(* and what failures are remembered FailuresHeld.                           *)

TablesTyped(w) == w \in [f : [Keys -> Entry \cup {NoEntry}], next : [Tables -> Nat]]

EntrySane(e) ==
    /\ e.failures > 0 => e.lastFailure > 0
    /\ e.inFlight > 1 => e.failures + e.inFlight <= Threshold

\* Bounded tables of sane entries, whose expiry is scheduled.
WellKept(w) ==
    /\ TablesTyped(w)
    /\ \A k \in Keys : w.f[k] # NoEntry => EntrySane(w.f[k])
    /\ \A table \in Tables : /\ IsFiniteSet(Present(w.f, table))
                             /\ Cardinality(Present(w.f, table)) <= Capacity(table)
    /\ \A table \in Tables : \A k \in Present(w.f, table) :
           w.f[k].inFlight = 0 => w.next[table] # 0 /\ w.next[table] <= EntryExpiry(w.f[k])

\* What sweeps at time t do: an entry stays as it is or goes because it has expired.
OnlyExpiredGo(f, g, t) ==
    \A k \in Keys : g[k] = f[k] \/ (g[k] = NoEntry /\ f[k] # NoEntry /\ Reclaimable(f[k], t))

\* The attempts that hold a key.
HoldersOf(hold, k) == {a \in Attempts : \E h \in hold[a] : h.key = k}

HeldExactly(f, hold) ==
    /\ \A a \in Attempts : \A h \in hold[a] : f[h.key] # NoEntry /\ f[h.key].owner = h.owner
    /\ \A k \in Keys : f[k] # NoEntry => f[k].inFlight = Cardinality(HoldersOf(hold, k))

\* A failure within the window is in the entry of its key.
FailuresHeld(f, bad, t) ==
    \A k \in Keys : bad[k] = 0 \/ bad[k] + Window <= t
                    \/ (f[k] # NoEntry /\ f[k].failures > 0 /\ f[k].lastFailure = bad[k])

Reserved(a) == \E s, n \in Reservation :
    held[a] = {s, n} /\ s.key \in Sources /\ n.key \in Users \cup Buckets

ILogin ==
    /\ LoginTypeOK
    /\ WellKept([f |-> entries, next |-> nextExpiry])
    /\ HeldExactly(entries, held)
    /\ FailuresHeld(entries, lastBad, clock)
    /\ clock > 0
    /\ \A a \in Attempts :
          /\ IF stage[a] \in {"checking", "complete"} THEN Reserved(a) ELSE held[a] = {}
          /\ now[a] <= clock
          /\ stage[a] # "idle" => now[a] > 0

-----------------------------------------------------------------------------
(* Keys, times and the lockout.                                            *)

\* The three kinds of keys are apart, and each belongs to one table or to none.
LEMMA KeysApart ==
    /\ \A table \in Tables : KeysOf(table) \subseteq Keys /\ Capacity(table) \in Nat \ {0}
    /\ \A k \in Sources : k \in Keys /\ k \notin Users /\ k \notin Buckets /\ TableOf(k) = "source"
    /\ \A k \in Users : k \in Keys /\ k \notin Sources /\ k \notin Buckets /\ TableOf(k) = "username"
    /\ \A k \in Buckets : k \in Keys /\ k \notin Sources /\ k \notin Users
    /\ \A k \in Keys \ Buckets : TableOf(k) \in Tables /\ k \in KeysOf(TableOf(k))
    /\ \A table \in Tables : \A k \in KeysOf(table) : TableOf(k) = table
BY LoginConstants DEF Keys, Tables, KeysOf, TableOf, Capacity

\* A set of times has an earliest one.
LEMMA LeastExists ==
    ASSUME NEW S \in SUBSET Nat, S # {}
    PROVE  \E t \in S : \A u \in S : t <= u
<1> DEFINE Before == {p \in Nat \X Nat : p[1] < p[2]}
<1>1. IsWellFoundedOn(OpToRel(<, Nat), Nat)
    BY NatLessThanWellFounded
<1>2. OpToRel(<, Nat) = Before
    BY Zenon DEF OpToRel
<1>3. IsWellFoundedOn(Before, Nat)
    BY <1>1, <1>2, Zenon
<1> HIDE DEF Before
<1>4. PICK t \in S : \A u \in S : ~(<<u, t>> \in Before)
    BY <1>3, WFMin
<1>5. \A u \in S : ~(u < t)
    BY <1>4 DEF Before
<1> QED BY <1>5

\* What a sweep records is the earliest expiry, or 0 for none.
LEMMA EarliestIsLeast ==
    ASSUME NEW S \in SUBSET Nat
    PROVE  /\ S = {} => Earliest(S) = 0
           /\ S # {} => Earliest(S) \in S /\ \A u \in S : Earliest(S) <= u
<1>1. CASE S = {}
    BY <1>1 DEF Earliest
<1>2. CASE S # {}
    <2>1. \E t \in S : \A u \in S : t <= u
        BY <1>2, LeastExists
    <2> QED BY <1>2, <2>1 DEF Earliest
<1> QED BY <1>1, <1>2

\* An entry expires after its lock and after its window (loginFailureEntryExpiry).
LEMMA ExpiryCovers ==
    ASSUME NEW e \in Entry
    PROVE  /\ EntryExpiry(e) \in Nat
           /\ e.lockedUntil <= EntryExpiry(e)
           /\ e.lastFailure > 0 => e.lastFailure + Window <= EntryExpiry(e)
           /\ EntryExpiry(e) = 0 => e.lastFailure = 0 /\ e.lockedUntil = 0
BY LoginConstants DEF Entry, EntryExpiry

\* The factors of the lockout.
LEMMA PowersOfTwo == ASSUME NEW n \in 0..8 PROVE 2^n \in Nat \ {0}
<1>0. CASE n = 0  BY <1>0
<1>1. CASE n = 1  BY <1>1
<1>2. CASE n = 2  BY <1>2
<1>3. CASE n = 3  BY <1>3
<1>4. CASE n = 4  BY <1>4
<1>5. CASE n = 5  BY <1>5
<1>6. CASE n = 6  BY <1>6
<1>7. CASE n = 7  BY <1>7
<1>8. CASE n = 8  BY <1>8
<1> QED BY <1>0, <1>1, <1>2, <1>3, <1>4, <1>5, <1>6, <1>7, <1>8

\* A lockout is a time (lockoutDurationForFailures).
LEMMA LockoutIsTime ==
    ASSUME NEW failures \in Nat, failures >= Threshold
    PROVE  LockoutDuration(failures) \in Nat
<1> DEFINE excess == IF failures - Threshold > 8 THEN 8 ELSE failures - Threshold
<1>1. excess \in 0..8
    BY LoginConstants
<1> HIDE DEF excess
<1>2. 2^excess \in Nat \ {0}
    BY <1>1, PowersOfTwo
<1>3. \A factor \in Nat : BaseLockout * factor \in Nat
    BY LoginConstants
<1> QED BY <1>2, <1>3, LoginConstants DEF LockoutDuration, excess


-----------------------------------------------------------------------------
(* The operations on the tables.                                           *)

\* Two sweeps at one time are like one.
LEMMA GoneTwice ==
    ASSUME NEW f, NEW g, NEW h, NEW t, OnlyExpiredGo(f, g, t), OnlyExpiredGo(g, h, t)
    PROVE  OnlyExpiredGo(f, h, t)
BY DEF OnlyExpiredGo

\* A smaller part of a table fits where the larger one did.
LEMMA FewerPresent ==
    ASSUME NEW S, NEW T \in SUBSET S, IsFiniteSet(S), NEW n \in Nat, Cardinality(S) <= n
    PROVE  IsFiniteSet(T) /\ Cardinality(T) <= n
BY FS_Subset, FS_CardinalityType

\* A sweep takes only expired entries, and knows when the next one expires.
LEMMA SweepKeeps ==
    ASSUME NEW w, WellKept(w), NEW table \in Tables, NEW t \in Nat
    PROVE  WellKept(Sweep(w, table, t)) /\ OnlyExpiredGo(w.f, Sweep(w, table, t).f, t)
<1> DEFINE gone == {k \in Present(w.f, table) : Reclaimable(w.f[k], t)}
           kept == {k \in Present(w.f, table) \ gone : w.f[k].inFlight = 0}
           times == {EntryExpiry(w.f[k]) : k \in kept} \ {0}
           f == [k \in Keys |-> IF k \in gone THEN NoEntry ELSE w.f[k]]
           s == Sweep(w, table, t)
<1>1. s = [f |-> f, next |-> [w.next EXCEPT ![table] = Earliest(times)]]
    BY DEF Sweep
<1>2. \A k \in Keys : w.f[k] \in Entry \cup {NoEntry}
    BY DEF WellKept, TablesTyped
<1>3. \A k \in Present(w.f, table) : k \in Keys /\ w.f[k] \in Entry
    BY <1>2, KeysApart DEF Present
<1>4. times \in SUBSET Nat
    BY <1>3, ExpiryCovers
<1>5. Earliest(times) \in Nat
    BY <1>4, EarliestIsLeast
<1>6. TablesTyped(s)
    <2>1. f \in [Keys -> Entry \cup {NoEntry}]
        BY <1>2
    <2>2. [w.next EXCEPT ![table] = Earliest(times)] \in [Tables -> Nat]
        BY <1>5 DEF WellKept, TablesTyped
    <2> QED BY <1>1, <2>1, <2>2 DEF TablesTyped
<1>7. OnlyExpiredGo(w.f, s.f, t)
    BY <1>1, <1>3 DEF OnlyExpiredGo, Present
<1>8. \A k \in Keys : s.f[k] # NoEntry => s.f[k] = w.f[k] /\ k \notin gone
    BY <1>1
<1>9. ASSUME NEW other \in Tables
      PROVE  IsFiniteSet(Present(s.f, other)) /\ Cardinality(Present(s.f, other)) <= Capacity(other)
    <2>1. Present(s.f, other) \in SUBSET Present(w.f, other)
        BY <1>8, KeysApart DEF Present
    <2> QED BY <2>1, FewerPresent, KeysApart DEF WellKept
<1>10. ASSUME NEW other \in Tables, NEW k \in Present(s.f, other), s.f[k].inFlight = 0
       PROVE  s.next[other] # 0 /\ s.next[other] <= EntryExpiry(s.f[k])
    <2>1. k \in Keys /\ s.f[k] = w.f[k] /\ k \in Present(w.f, other) /\ k \notin gone
        BY <1>8, <1>10, KeysApart DEF Present
    <2>2. CASE other # table
        <3>1. s.next[other] = w.next[other]
            BY <1>1, <2>2 DEF WellKept, TablesTyped
        <3> QED BY <1>10, <2>1, <3>1 DEF WellKept
    <2>3. CASE other = table
        <3>1. w.f[k] \in Entry /\ ~Reclaimable(w.f[k], t)
            BY <1>3, <2>1, <2>3
        <3>2. EntryExpiry(w.f[k]) # 0 /\ EntryExpiry(w.f[k]) \in Nat
            BY <1>10, <2>1, <3>1, ExpiryCovers, LoginConstants DEF Reclaimable, Entry
        <3>3. EntryExpiry(w.f[k]) \in times
            BY <1>10, <2>1, <2>3, <3>2
        <3>4. s.next[table] = Earliest(times)
            BY <1>1 DEF WellKept, TablesTyped
        <3>5. Earliest(times) \in times /\ Earliest(times) <= EntryExpiry(w.f[k])
            BY <1>4, <3>3, EarliestIsLeast
        <3>6. Earliest(times) # 0
            BY <3>5
        <3> HIDE DEF times
        <3> QED BY <2>1, <2>3, <3>4, <3>5, <3>6
    <2> QED BY <2>2, <2>3
<1>11. \A k \in Keys : s.f[k] # NoEntry => EntrySane(s.f[k])
    BY <1>8 DEF WellKept
<1> HIDE DEF s
<1> QED BY <1>6, <1>7, <1>9, <1>10, <1>11 DEF WellKept, s

\* The periodic sweep of both tables (cleanupLocked).
LEMMA CleanupKeeps ==
    ASSUME WellKept([f |-> entries, next |-> nextExpiry]), NEW t \in Nat
    PROVE  WellKept(AfterCleanup(t)) /\ OnlyExpiredGo(entries, AfterCleanup(t).f, t)
<1> DEFINE w == [f |-> entries, next |-> nextExpiry]
<1>0. w.f = entries
    OBVIOUS
<1>1. CASE CleanupDue(t)
    <2> DEFINE v == Sweep(w, "source", t)
    <2>0. AfterCleanup(t) = Sweep(v, "username", t)
        BY <1>1 DEF AfterCleanup
    <2>1. WellKept(v) /\ OnlyExpiredGo(w.f, v.f, t)
        BY SweepKeeps DEF Tables
    <2>2. WellKept(Sweep(v, "username", t)) /\ OnlyExpiredGo(v.f, Sweep(v, "username", t).f, t)
        <3> HIDE DEF v
        <3> QED BY <2>1, SweepKeeps DEF Tables
    <2> QED BY <1>0, <2>0, <2>1, <2>2, GoneTwice
<1>2. CASE ~CleanupDue(t)
    BY <1>0, <1>2 DEF AfterCleanup, OnlyExpiredGo
<1> QED BY <1>1, <1>2

\* The sweep of a full table for a newcomer.
LEMMA RoomKeeps ==
    ASSUME NEW w, WellKept(w), NEW table \in Tables, NEW k, NEW t \in Nat
    PROVE  WellKept(MakeRoom(w, table, k, t)) /\ OnlyExpiredGo(w.f, MakeRoom(w, table, k, t).f, t)
BY SweepKeeps DEF MakeRoom, OnlyExpiredGo


\* The entry a reservation is made in, new where the key had none.
Target(w, k, a) == IF w.f[k] = NoEntry THEN FreshEntry(a) ELSE w.f[k]

\* One more attempt holds the key.
Claimed(w, v, h, a) ==
    /\ h.owner = Target(w, h.key, a).owner
    /\ v = [w EXCEPT !.f[h.key] = [Target(w, h.key, a) EXCEPT !.inFlight = @ + 1]]

\* A claim reserves an entry that is not crowded, in a table with room for it, or
\* leaves the tables as a sweep leaves them.
LEMMA ClaimTakes ==
    ASSUME NEW w0, WellKept(w0), NEW table \in Tables, NEW k0 \in KeysOf(table),
           NEW a \in Attempts, NEW t \in Nat,
           NEW c, c = Claim(w0, table, k0, a, t)
    PROVE  /\ WellKept(c.w)
           /\ c.verdict \in {"busy", "locked", "checking"}
           /\ c.held \in Reservation
           /\ c.held.key = k0 \/ (table = "username" /\ c.held.key \in Buckets)
           /\ \E w : /\ WellKept(w) /\ OnlyExpiredGo(w0.f, w.f, t)
                     /\ IF c.verdict = "checking" THEN Claimed(w, c.w, c.held, a) ELSE c.w = w
<1> DEFINE w == MakeRoom(w0, table, k0, t)
           room == w.f[k0] # NoEntry \/ ~Full(w.f, table)
           k == IF room \/ table = "source" THEN k0 ELSE BucketOf[k0]
           e == Target(w, k, a)
           new == [e EXCEPT !.inFlight = @ + 1]
           taken == [w EXCEPT !.f[k] = new]
<1>1. WellKept(w) /\ OnlyExpiredGo(w0.f, w.f, t)
    BY RoomKeeps
<1>2. /\ c.held = [key |-> k, owner |-> e.owner]
      /\ c.verdict = IF ~room /\ table = "source" THEN "busy"
                     ELSE IF e.lockedUntil > t THEN "locked"
                     ELSE IF Crowded(e) THEN "busy"
                     ELSE "checking"
      /\ c.w = IF c.verdict = "checking" THEN taken ELSE w
    BY DEF Claim, Target
<1> HIDE DEF w
<1>3. k \in Keys /\ (k = k0 \/ (table = "username" /\ k \in Buckets))
    <2>1. CASE table = "source"
        BY <2>1, KeysApart
    <2>2. CASE table = "username"
        BY <2>2, KeysApart, LoginConstants DEF KeysOf
    <2> QED BY <2>1, <2>2 DEF Tables
<1>4. e \in Entry /\ EntrySane(e)
    <2>1. CASE w.f[k] = NoEntry
        BY <2>1 DEF Target, FreshEntry, Entry, EntrySane
    <2>2. CASE w.f[k] # NoEntry
        BY <1>1, <1>3, <2>2 DEF Target, WellKept, TablesTyped
    <2> QED BY <2>1, <2>2
<1>5. c.held \in Reservation
    BY <1>2, <1>3, <1>4 DEF Reservation, Entry
<1>6. c.verdict = "checking" => Claimed(w, c.w, c.held, a)
    BY <1>2 DEF Claimed
<1>7. ASSUME c.verdict = "checking"
      PROVE  WellKept(taken)
    <2> HIDE DEF k, e
    <2>1. new \in Entry /\ new # NoEntry /\ new.inFlight > 0
        BY <1>4, LoginConstants DEF Entry
    <2>2. ~Crowded(e)
        BY <1>2, <1>7
    <2>3. EntrySane(new)
        BY <1>4, <2>2, LoginConstants DEF EntrySane, Crowded, Entry
    <2>4. /\ taken.f = [w.f EXCEPT ![k] = new] /\ taken.next = w.next
          /\ TablesTyped(taken)
        BY <1>1, <1>3, <2>1 DEF WellKept, TablesTyped
    <2>5. \A key \in Keys : taken.f[key] = IF key = k THEN new ELSE w.f[key]
        BY <1>1, <1>3, <2>4 DEF WellKept, TablesTyped
    <2> HIDE DEF taken, new
    <2>6. ASSUME NEW other \in Tables
          PROVE  IsFiniteSet(Present(taken.f, other)) /\ Cardinality(Present(taken.f, other)) <= Capacity(other)
        <3>1. IsFiniteSet(Present(w.f, other)) /\ Cardinality(Present(w.f, other)) <= Capacity(other)
            BY <1>1 DEF WellKept
        <3>2. CASE k \notin KeysOf(other) \/ w.f[k] # NoEntry
            <4>1. Present(taken.f, other) = Present(w.f, other)
                BY <2>1, <2>5, <3>2, KeysApart DEF Present
            <4> QED BY <3>1, <4>1
        <3>3. CASE k \in KeysOf(other) /\ w.f[k] = NoEntry
            <4>1. k = k0 /\ other = table
                BY <1>3, <3>3, KeysApart DEF KeysOf, Tables
            <4>2. ~Full(w.f, table)
                <5>1. room \/ table = "username"
                    BY <1>2, <1>7 DEF Tables
                <5>2. room
                    <6> SUFFICES ASSUME ~room, table = "username" PROVE FALSE
                        BY <5>1
                    <6>1. k = BucketOf[k0] /\ k0 \in Users
                        BY DEF k, KeysOf
                    <6> QED BY <4>1, <6>1, KeysApart, LoginConstants
                <5> QED BY <3>3, <4>1, <5>2
            <4>3. Present(taken.f, other) = Present(w.f, other) \cup {k}
                BY <2>1, <2>5, <3>3, KeysApart DEF Present
            <4>4. k \notin Present(w.f, other)
                BY <3>3 DEF Present
            <4>5. Cardinality(Present(w.f, other)) \in Nat
                BY <3>1, FS_CardinalityType
            <4>6. Cardinality(Present(w.f, other)) < Capacity(other) /\ Capacity(other) \in Nat
                BY <4>1, <4>2, <4>5, KeysApart DEF Full
            <4>7. IsFiniteSet(Present(taken.f, other))
                  /\ Cardinality(Present(taken.f, other)) = Cardinality(Present(w.f, other)) + 1
                BY <3>1, <4>3, <4>4, FS_AddElement
            <4> QED BY <4>5, <4>6, <4>7
        <3> QED BY <3>2, <3>3
    <2>7. ASSUME NEW other \in Tables, NEW key \in Present(taken.f, other), taken.f[key].inFlight = 0
          PROVE  taken.next[other] # 0 /\ taken.next[other] <= EntryExpiry(taken.f[key])
        <3>1. key \in Keys
            BY KeysApart DEF Present
        <3>2. key # k
            BY <2>1, <2>5, <2>7, <3>1 DEF Entry
        <3>3. taken.f[key] = w.f[key] /\ key \in Present(w.f, other)
            BY <2>5, <3>1, <3>2 DEF Present
        <3> QED BY <1>1, <2>4, <2>7, <3>3 DEF WellKept
    <2>8. \A key \in Keys : taken.f[key] # NoEntry => EntrySane(taken.f[key])
        BY <1>1, <2>3, <2>5 DEF WellKept
    <2> QED BY <2>4, <2>6, <2>7, <2>8 DEF WellKept
<1>8. WellKept(c.w)
    BY <1>1, <1>2, <1>7
<1>9. c.verdict \in {"busy", "locked", "checking"}
    BY <1>2
<1>10. c.held.key = k0 \/ (table = "username" /\ c.held.key \in Buckets)
    BY <1>2, <1>3
<1>11. WellKept(w) /\ OnlyExpiredGo(w0.f, w.f, t)
       /\ IF c.verdict = "checking" THEN Claimed(w, c.w, c.held, a) ELSE c.w = w
    BY <1>1, <1>2, <1>6
<1> QED BY <1>5, <1>8, <1>9, <1>10, <1>11

\* What settling makes of an entry.
LEMMA EndedIs ==
    ASSUME NEW e \in Entry, EntrySane(e), e.inFlight > 0,
           NEW ending \in Outcomes, NEW t \in Nat \ {0},
           NEW new, new = Ended(e, ending, t)
    PROVE  /\ new \in Entry /\ EntrySane(new)
           /\ new.owner = e.owner /\ new.inFlight = e.inFlight - 1
           /\ ending = "abandoned" => new.failures = e.failures /\ new.lastFailure = e.lastFailure
           /\ ending = "failed" => new.failures > 0 /\ new.lastFailure = t
<1> DEFINE rest == [e EXCEPT !.inFlight = @ - 1]
<1>1. /\ rest \in Entry /\ rest.owner = e.owner /\ rest.inFlight = e.inFlight - 1
      /\ rest.failures = e.failures /\ rest.lastFailure = e.lastFailure /\ rest.lockedUntil = e.lockedUntil
    BY DEF Entry
<1>2. CASE ending = "abandoned"
    BY <1>1, <1>2, LoginConstants DEF Ended, EntrySane, Entry
<1>3. CASE ending = "succeeded"
    <2>1. new = [rest EXCEPT !.failures = 0, !.lastFailure = 0, !.lockedUntil = 0]
        BY <1>3 DEF Ended
    <2> HIDE DEF rest
    <2>2. new = [owner |-> rest.owner, failures |-> 0, lastFailure |-> 0, lockedUntil |-> 0,
                 inFlight |-> rest.inFlight]
        BY <1>1, <2>1 DEF Entry
    <2>4. /\ new \in Entry /\ new.failures = 0 /\ new.owner = e.owner /\ new.inFlight = e.inFlight - 1
        BY <1>1, <2>2 DEF Entry
    <2>3. EntrySane(new)
        BY <2>4, LoginConstants DEF EntrySane, Entry
    <2> QED BY <1>3, <2>3, <2>4
<1>4. CASE ending = "failed"
    <2> HIDE DEF rest
    <2> DEFINE expired == rest.lastFailure # 0 /\ rest.lastFailure + Window <= t
               failures == IF expired THEN 1 ELSE rest.failures + 1
               lock == IF failures >= Threshold THEN t + LockoutDuration(failures)
                       ELSE IF expired THEN 0 ELSE rest.lockedUntil
    <2>1. new = [rest EXCEPT !.failures = failures, !.lastFailure = t, !.lockedUntil = lock]
        BY <1>4 DEF Ended, Failed, rest
    <2>2. failures \in Nat \ {0} /\ failures <= e.failures + 1
        BY <1>1 DEF Entry
    <2> HIDE DEF failures
    <2>3. lock \in Nat
        BY <1>1, <2>2, LockoutIsTime DEF Entry
    <2> HIDE DEF lock
    <2>4. /\ new \in Entry /\ new.failures = failures /\ new.lastFailure = t
          /\ new.owner = e.owner /\ new.inFlight = e.inFlight - 1
        BY <1>1, <2>1, <2>2, <2>3 DEF Entry
    <2>5. EntrySane(new)
        BY <2>2, <2>4, LoginConstants DEF EntrySane, Entry
    <2> QED BY <1>4, <2>2, <2>4, <2>5
<1> QED BY <1>2, <1>3, <1>4 DEF Outcomes

\* The entry of a key is replaced, or removed when nothing is left to remember.
Settled(f, g, k, new) ==
    /\ \A other \in Keys : other # k => g[other] = f[other]
    /\ g[k] = new \/ (g[k] = NoEntry /\ new.inFlight = 0 /\ new.failures = 0)

\* Settling keeps the tables in order (completeFailureReservationLocked).
LEMMA SettleKeeps ==
    ASSUME NEW w, WellKept(w), NEW h \in Reservation, Live(w.f, h),
           NEW ending \in Outcomes, NEW t \in Nat \ {0}
    PROVE  /\ WellKept(Settle(w, h, ending, t))
           /\ Settled(w.f, Settle(w, h, ending, t).f, h.key, Ended(w.f[h.key], ending, t))
<1> DEFINE k == h.key
           e == Ended(w.f[k], ending, t)
           empty == e.inFlight = 0 /\ e.failures = 0 /\ e.lockedUntil <= t
           s == Settle(w, h, ending, t)
<1>1. k \in Keys /\ w.f[k] \in Entry /\ EntrySane(w.f[k]) /\ w.f[k].inFlight > 0
    BY DEF Reservation, Live, WellKept, TablesTyped
<1>2. e \in Entry /\ EntrySane(e) /\ e # NoEntry /\ w.f[k] # NoEntry
    BY <1>1, EndedIs, LoginConstants
<1>3. s = IF k \in Buckets THEN [w EXCEPT !.f[k] = e]
          ELSE IF empty THEN [w EXCEPT !.f[k] = NoEntry]
          ELSE IF e.inFlight > 0 THEN [w EXCEPT !.f[k] = e]
          ELSE [w EXCEPT !.f[k] = e, !.next[TableOf(k)] = Scheduled(@, EntryExpiry(e))]
    BY DEF Settle
<1> HIDE DEF k, e, s
<1>4. EntryExpiry(e) \in Nat
    BY <1>2, ExpiryCovers
<1>5. s.f = [w.f EXCEPT ![k] = IF k \notin Buckets /\ empty THEN NoEntry ELSE e]
    BY <1>1, <1>3 DEF WellKept, TablesTyped
<1>6. s.next = IF k \notin Buckets /\ ~empty /\ e.inFlight = 0
               THEN [w.next EXCEPT ![TableOf(k)] = Scheduled(@, EntryExpiry(e))] ELSE w.next
    BY <1>1, <1>2, <1>3 DEF WellKept, TablesTyped, Entry
<1>7. k \notin Buckets => TableOf(k) \in Tables
    BY <1>1, KeysApart
<1>8. TablesTyped(s)
    <2>1. s.f \in [Keys -> Entry \cup {NoEntry}]
        BY <1>1, <1>2, <1>5 DEF WellKept, TablesTyped
    <2>2. s.next \in [Tables -> Nat]
        BY <1>4, <1>6, <1>7 DEF Scheduled, WellKept, TablesTyped
    <2>3. s = [f |-> s.f, next |-> s.next]
        BY <1>3 DEF WellKept, TablesTyped
    <2> QED BY <2>1, <2>2, <2>3 DEF TablesTyped
<1>9. Settled(w.f, s.f, k, e)
    BY <1>1, <1>5 DEF Settled, WellKept, TablesTyped
<1>10. \A key \in Keys : s.f[key] # NoEntry => EntrySane(s.f[key])
    BY <1>2, <1>9 DEF Settled, WellKept
<1>11. ASSUME NEW other \in Tables
       PROVE  IsFiniteSet(Present(s.f, other)) /\ Cardinality(Present(s.f, other)) <= Capacity(other)
    <2>1. Present(s.f, other) \in SUBSET Present(w.f, other)
        BY <1>2, <1>9, KeysApart DEF Present, Settled
    <2> QED BY <2>1, FewerPresent, KeysApart DEF WellKept
<1>12. ASSUME NEW other \in Tables, NEW key \in Present(s.f, other), s.f[key].inFlight = 0
       PROVE  s.next[other] # 0 /\ s.next[other] <= EntryExpiry(s.f[key])
    <2>1. key \in Keys /\ key \in Present(w.f, other) /\ TableOf(key) = other /\ key \notin Buckets
        BY <1>2, <1>9, <1>12, KeysApart DEF Present, Settled, KeysOf, Tables
    <2>2. CASE key = k
        <3>1. s.f[key] = e /\ e.inFlight = 0 /\ ~empty
            BY <1>1, <1>2, <1>5, <1>12, <2>1, <2>2 DEF Present, WellKept, TablesTyped
        <3>2. s.next[other] = Scheduled(w.next[other], EntryExpiry(e))
            BY <1>6, <2>1, <2>2, <3>1 DEF WellKept, TablesTyped
        <3>3. EntryExpiry(e) # 0
            BY <1>2, <3>1, ExpiryCovers DEF EntrySane, Entry
        <3> QED BY <1>4, <3>1, <3>2, <3>3 DEF Scheduled, WellKept, TablesTyped
    <2>3. CASE key # k
        <3>1. s.f[key] = w.f[key]
            BY <1>9, <2>1, <2>3 DEF Settled
        <3>2. w.next[other] # 0 /\ w.next[other] <= EntryExpiry(w.f[key])
            BY <1>12, <2>1, <3>1 DEF WellKept
        <3>3. s.next[other] = w.next[other] \/ s.next[other] = Scheduled(w.next[other], EntryExpiry(e))
            BY <1>6, <1>7 DEF WellKept, TablesTyped
        <3>4. w.f[key] \in Entry
            BY <2>1 DEF Present, WellKept, TablesTyped
        <3>5. EntryExpiry(w.f[key]) \in Nat /\ w.next[other] \in Nat
            BY <3>4, ExpiryCovers DEF WellKept, TablesTyped
        <3> QED BY <1>4, <3>1, <3>2, <3>3, <3>5 DEF Scheduled
    <2> QED BY <2>2, <2>3
<1>13. WellKept(s)
    BY <1>8, <1>10, <1>11, <1>12 DEF WellKept
<1> QED BY <1>9, <1>13 DEF s, k, e


-----------------------------------------------------------------------------
(* Who holds an entry.                                                     *)

\* The holders of a key are finitely many.
LEMMA HoldersFinite ==
    ASSUME NEW hold, NEW k
    PROVE  IsFiniteSet(HoldersOf(hold, k)) /\ Cardinality(HoldersOf(hold, k)) \in Nat
<1>1. HoldersOf(hold, k) \in SUBSET Attempts
    BY DEF HoldersOf
<1> QED BY <1>1, FS_Subset, FS_CardinalityType, LoginConstants

\* A reservation that is held is live.
LEMMA HeldIsLive ==
    ASSUME NEW f \in [Keys -> Entry \cup {NoEntry}], NEW hold \in [Attempts -> SUBSET Reservation],
           HeldExactly(f, hold), NEW a \in Attempts, NEW h \in hold[a]
    PROVE  h \in Reservation /\ h.key \in Keys /\ f[h.key] \in Entry /\ f[h.key].inFlight > 0 /\ Live(f, h)
<1>1. h \in Reservation /\ h.key \in Keys /\ f[h.key] \in Entry
    BY DEF Reservation, HeldExactly
<1>2. a \in HoldersOf(hold, h.key)
    BY DEF HoldersOf
<1>3. Cardinality(HoldersOf(hold, h.key)) > 0
    BY <1>2, HoldersFinite, FS_EmptySet
<1> QED BY <1>1, <1>3 DEF HeldExactly, Live

\* Sweeps take nothing that is held.
LEMMA SweptHeld ==
    ASSUME NEW f \in [Keys -> Entry \cup {NoEntry}], NEW hold \in [Attempts -> SUBSET Reservation],
           HeldExactly(f, hold), NEW g, NEW t, OnlyExpiredGo(f, g, t)
    PROVE  HeldExactly(g, hold)
<1>1. ASSUME NEW a \in Attempts, NEW h \in hold[a]
      PROVE  g[h.key] = f[h.key]
    <2>1. h.key \in Keys /\ f[h.key].inFlight > 0 /\ f[h.key] \in Entry
        BY HeldIsLive
    <2> QED BY <2>1 DEF OnlyExpiredGo, Reclaimable, Entry
<1> QED BY <1>1 DEF HeldExactly, OnlyExpiredGo

\* A claim adds one holder to the entry it counts in.
LEMMA ClaimHeld ==
    ASSUME NEW w, TablesTyped(w), NEW hold \in [Attempts -> SUBSET Reservation], HeldExactly(w.f, hold),
           NEW a \in Attempts, NEW h \in Reservation, a \notin HoldersOf(hold, h.key),
           NEW v, Claimed(w, v, h, a),
           NEW now2, now2 = [hold EXCEPT ![a] = @ \cup {h}]
    PROVE  now2 \in [Attempts -> SUBSET Reservation] /\ HeldExactly(v.f, now2)
<1> DEFINE k == h.key
           old == Target(w, k, a)
           new == [old EXCEPT !.inFlight = @ + 1]
<1>1. k \in Keys /\ w.f[k] \in Entry \cup {NoEntry}
    BY DEF Reservation, TablesTyped
<1>2. old \in Entry /\ old.inFlight = Cardinality(HoldersOf(hold, k))
    <2>1. CASE w.f[k] = NoEntry
        <3>1. HoldersOf(hold, k) = {}
            BY <2>1 DEF HeldExactly, HoldersOf
        <3> QED BY <2>1, <3>1, FS_EmptySet DEF Target, FreshEntry, Entry
    <2>2. CASE w.f[k] # NoEntry
        BY <1>1, <2>2 DEF Target, HeldExactly
    <2> QED BY <2>1, <2>2
<1>3. h.owner = old.owner /\ v.f = [w.f EXCEPT ![k] = new]
    BY <1>1 DEF Claimed, TablesTyped
<1>4. new \in Entry /\ new # NoEntry /\ new.owner = h.owner /\ new.inFlight = old.inFlight + 1
    BY <1>2, <1>3, LoginConstants DEF Entry
<1> HIDE DEF new, old
<1>5. \A key \in Keys : v.f[key] = IF key = k THEN new ELSE w.f[key]
    BY <1>1, <1>3 DEF TablesTyped
<1>6. /\ now2 \in [Attempts -> SUBSET Reservation]
      /\ \A b \in Attempts : now2[b] = IF b = a THEN hold[a] \cup {h} ELSE hold[b]
    OBVIOUS
<1>7. ASSUME NEW b \in Attempts, NEW g \in now2[b]
      PROVE  v.f[g.key] # NoEntry /\ v.f[g.key].owner = g.owner
    <2>1. g.key \in Keys
        BY <1>6 DEF Reservation
    <2>2. CASE g = h
        BY <1>4, <1>5, <2>1, <2>2
    <2>3. CASE g # h
        <3>1. g \in hold[b]
            BY <1>6, <2>3
        <3>2. w.f[g.key] # NoEntry /\ w.f[g.key].owner = g.owner
            BY <3>1 DEF HeldExactly
        <3>3. g.key = k => new.owner = w.f[g.key].owner
            BY <1>3, <1>4, <3>2 DEF old, Target
        <3> QED BY <1>4, <1>5, <2>1, <3>2, <3>3
    <2> QED BY <2>2, <2>3
<1>8. HoldersOf(now2, k) = HoldersOf(hold, k) \cup {a}
    BY <1>6 DEF HoldersOf
<1>9. ASSUME NEW key \in Keys, key # k
      PROVE  HoldersOf(now2, key) = HoldersOf(hold, key)
    BY <1>6, <1>9 DEF HoldersOf
<1>10. Cardinality(HoldersOf(now2, k)) = Cardinality(HoldersOf(hold, k)) + 1
    BY <1>8, HoldersFinite, FS_AddElement
<1>11. ASSUME NEW key \in Keys, v.f[key] # NoEntry
       PROVE  v.f[key].inFlight = Cardinality(HoldersOf(now2, key))
    <2>1. CASE key = k
        BY <1>2, <1>4, <1>5, <1>10, <2>1
    <2>2. CASE key # k
        BY <1>5, <1>9, <1>11, <2>2 DEF HeldExactly
    <2> QED BY <2>1, <2>2
<1> QED BY <1>6, <1>7, <1>11 DEF HeldExactly

\* Settling takes one holder away, and no entry from the others.
LEMMA SettleHeld ==
    ASSUME NEW f \in [Keys -> Entry \cup {NoEntry}], NEW hold \in [Attempts -> SUBSET Reservation],
           HeldExactly(f, hold),
           NEW a \in Attempts, NEW h \in hold[a], \A o \in hold[a] : o.key = h.key => o = h,
           NEW new \in Entry, new.owner = f[h.key].owner, new.inFlight = f[h.key].inFlight - 1,
           NEW g, Settled(f, g, h.key, new),
           NEW now2, now2 = [hold EXCEPT ![a] = @ \ {h}]
    PROVE  now2 \in [Attempts -> SUBSET Reservation] /\ HeldExactly(g, now2)
<1> DEFINE k == h.key
<1>1. k \in Keys /\ f[k] \in Entry /\ new # NoEntry
    BY HeldIsLive, LoginConstants
<1>2. /\ now2 \in [Attempts -> SUBSET Reservation]
      /\ \A b \in Attempts : now2[b] = IF b = a THEN hold[a] \ {h} ELSE hold[b]
    OBVIOUS
<1>3. HoldersOf(now2, k) = HoldersOf(hold, k) \ {a} /\ a \in HoldersOf(hold, k)
    BY <1>2 DEF HoldersOf
<1>4. Cardinality(HoldersOf(now2, k)) = Cardinality(HoldersOf(hold, k)) - 1
    <2>1. IsFiniteSet(HoldersOf(hold, k))
        BY HoldersFinite
    <2>2. Cardinality(HoldersOf(hold, k) \ {a}) = Cardinality(HoldersOf(hold, k)) - 1
        BY <1>3, <2>1, FS_RemoveElement
    <2> QED BY <1>3, <2>2
<1>5. new.inFlight = Cardinality(HoldersOf(now2, k))
    BY <1>1, <1>4 DEF HeldExactly, Entry
<1>6. ASSUME NEW key \in Keys, key # k
      PROVE  HoldersOf(now2, key) = HoldersOf(hold, key) /\ g[key] = f[key]
    BY <1>2, <1>6 DEF HoldersOf, Settled
<1>7. ASSUME NEW b \in Attempts, NEW o \in now2[b]
      PROVE  g[o.key] # NoEntry /\ g[o.key].owner = o.owner
    <2>1. o \in hold[b] /\ o.key \in Keys
        BY <1>2 DEF Reservation
    <2>2. CASE o.key # k
        BY <1>6, <2>1, <2>2 DEF HeldExactly
    <2>3. CASE o.key = k
        <3>1. b \in HoldersOf(now2, k)
            BY <2>3 DEF HoldersOf
        <3>2. new.inFlight # 0
            BY <1>5, <3>1, HoldersFinite, FS_EmptySet
        <3>3. g[k] = new
            BY <3>2 DEF Settled
        <3> QED BY <1>1, <2>1, <2>3, <3>3 DEF HeldExactly
    <2> QED BY <2>2, <2>3
<1>8. ASSUME NEW key \in Keys, g[key] # NoEntry
      PROVE  g[key].inFlight = Cardinality(HoldersOf(now2, key))
    <2>1. CASE key = k
        BY <1>5, <1>8, <2>1 DEF Settled
    <2>2. CASE key # k
        BY <1>6, <1>8, <2>2 DEF HeldExactly
    <2> QED BY <2>1, <2>2
<1> QED BY <1>2, <1>7, <1>8 DEF HeldExactly

-----------------------------------------------------------------------------
(* Which failures are remembered.                                          *)

\* A sweep with a time that is not ahead forgets no failure of the window.
LEMMA SweptFailures ==
    ASSUME NEW f, NEW bad \in [Keys -> Nat], NEW t \in Nat, FailuresHeld(f, bad, t),
           NEW g, NEW past \in Nat, past <= t, OnlyExpiredGo(f, g, past)
    PROVE  FailuresHeld(g, bad, t)
<1> SUFFICES ASSUME NEW k \in Keys, bad[k] # 0, ~(bad[k] + Window <= t)
             PROVE  g[k] # NoEntry /\ g[k].failures > 0 /\ g[k].lastFailure = bad[k]
    BY DEF FailuresHeld
<1>1. f[k] # NoEntry /\ f[k].failures > 0 /\ f[k].lastFailure = bad[k]
    BY DEF FailuresHeld
<1>2. ~Reclaimable(f[k], past)
    BY <1>1, LoginConstants DEF Reclaimable
<1> QED BY <1>1, <1>2 DEF OnlyExpiredGo

\* A claim forgets none.
LEMMA ClaimFailures ==
    ASSUME NEW w, TablesTyped(w), NEW bad, NEW t, FailuresHeld(w.f, bad, t),
           NEW a \in Attempts, NEW h \in Reservation, NEW v, Claimed(w, v, h, a)
    PROVE  FailuresHeld(v.f, bad, t)
<1> DEFINE k == h.key
           old == Target(w, k, a)
           new == [old EXCEPT !.inFlight = @ + 1]
<1>1. k \in Keys /\ v.f = [w.f EXCEPT ![k] = new]
    BY DEF Reservation, Claimed, TablesTyped
<1>2. old \in Entry
    BY <1>1 DEF Target, TablesTyped, FreshEntry, Entry
<1>3. new \in Entry /\ new # NoEntry /\ new.failures = old.failures /\ new.lastFailure = old.lastFailure
    BY <1>2, LoginConstants DEF Entry
<1>4. w.f[k] # NoEntry => old = w.f[k]
    BY DEF Target
<1> HIDE DEF old, new
<1>5. \A key \in Keys : v.f[key] = IF key = k THEN new ELSE w.f[key]
    BY <1>1 DEF TablesTyped
<1> QED BY <1>3, <1>4, <1>5 DEF FailuresHeld

\* What settling a key leaves of the failures of the others.
LEMMA SettleFailures ==
    ASSUME NEW f, NEW bad, NEW t, FailuresHeld(f, bad, t), NEW g, NEW k \in Keys,
           NEW new \in Entry, Settled(f, g, k, new),
           NEW bad2, \A key \in Keys : key # k => bad2[key] = bad[key],
           \/ bad2[k] = 0
           \/ new.failures > 0 /\ new.lastFailure = bad2[k]
           \/ bad2[k] = bad[k] /\ new.failures = f[k].failures /\ new.lastFailure = f[k].lastFailure
    PROVE  FailuresHeld(g, bad2, t)
<1>1. ASSUME NEW key \in Keys, key # k
      PROVE  \/ bad2[key] = 0 \/ bad2[key] + Window <= t
             \/ (g[key] # NoEntry /\ g[key].failures > 0 /\ g[key].lastFailure = bad2[key])
    BY <1>1 DEF FailuresHeld, Settled
<1>2. \/ bad2[k] = 0 \/ bad2[k] + Window <= t
      \/ (g[k] # NoEntry /\ g[k].failures > 0 /\ g[k].lastFailure = bad2[k])
    <2>1. \/ bad2[k] = 0 \/ bad2[k] + Window <= t
          \/ new.failures > 0 /\ new.lastFailure = bad2[k]
        BY DEF FailuresHeld
    <2>2. new.failures > 0 => g[k] = new /\ new # NoEntry
        BY LoginConstants DEF Settled, Entry
    <2> QED BY <2>1, <2>2
<1> QED BY <1>1, <1>2 DEF FailuresHeld


-----------------------------------------------------------------------------
(* The steps of a login.                                                   *)

\* The tables of an operation become the tables.
LEMMA TablesInstalled ==
    ASSUME NEW w, WellKept(w), Install(w)
    PROVE  /\ entries' \in [Keys -> Entry \cup {NoEntry}] /\ nextExpiry' \in [Tables -> Nat]
           /\ entries' = w.f /\ WellKept([f |-> entries', next |-> nextExpiry'])
<1>1. w = [f |-> entries', next |-> nextExpiry']
    BY DEF WellKept, TablesTyped, Install
<1> QED BY <1>1 DEF WellKept, TablesTyped, Install

\* beginLoginAttempt: both reservations, or none and what sweeps have left.
LEMMA BeginKeeps ==
    ASSUME ILogin, NEW a \in Attempts, BeginLoginAttempt(a)
    PROVE  ILogin'
<1> DEFINE t == now[a]
           user == who[a].user
           k0 == <<user, who[a].address>>
           w0 == AfterCleanup(t)
           source == Claim(w0, "source", k0, a, t)
           name == Claim(source.w, "username", user, a, t)
           undone == Undo(name.w, source.held, t)
           reserved == [held EXCEPT ![a] = {source.held}]
           both == [held EXCEPT ![a] = {source.held, name.held}]
<1>1. /\ stage[a] = "begin" /\ held[a] = {} /\ t \in Nat \ {0} /\ t <= clock
      /\ user \in Users /\ k0 \in Sources /\ clock \in Nat /\ lastBad \in [Keys -> Nat]
      /\ held \in [Attempts -> SUBSET Reservation] /\ entries \in [Keys -> Entry \cup {NoEntry}]
    BY DEF ILogin, LoginTypeOK, BeginLoginAttempt, Sources
<1>2. /\ IF source.verdict # "checking"
           THEN Install(source.w) /\ UNCHANGED held
           ELSE IF name.verdict # "checking"
           THEN Install(undone) /\ UNCHANGED held
           ELSE Install(name.w) /\ held' = both
      /\ stage' = [stage EXCEPT ![a] = IF source.verdict # "checking" THEN source.verdict ELSE name.verdict]
      /\ lastCleanup' = IF CleanupDue(t) THEN t ELSE lastCleanup
      /\ UNCHANGED <<clock, who, now, outcome, lastBad>>
    BY DEF BeginLoginAttempt
<1>3. WellKept(w0) /\ OnlyExpiredGo(entries, w0.f, t)
    BY <1>1, CleanupKeeps DEF ILogin
<1>4. TablesTyped(w0) /\ HeldExactly(w0.f, held) /\ FailuresHeld(w0.f, lastBad, clock)
    BY <1>1, <1>3, SweptHeld, SweptFailures DEF ILogin, WellKept
<1> HIDE DEF w0
<1>5. k0 \in KeysOf("source") /\ user \in KeysOf("username") /\ {"source", "username"} = Tables
    BY <1>1 DEF KeysOf, Tables
<1>6. source = Claim(w0, "source", k0, a, t) /\ name = Claim(source.w, "username", user, a, t)
    OBVIOUS
<1> HIDE DEF source, name, k0, user, t
<1>7. /\ WellKept(source.w) /\ source.verdict \in {"busy", "locked", "checking"}
      /\ source.held \in Reservation /\ source.held.key = k0
    BY <1>1, <1>3, <1>5, <1>6, ClaimTakes
<1>8. PICK w1 : /\ WellKept(w1) /\ OnlyExpiredGo(w0.f, w1.f, t)
                /\ IF source.verdict = "checking" THEN Claimed(w1, source.w, source.held, a)
                                                  ELSE source.w = w1
    BY <1>1, <1>3, <1>5, <1>6, ClaimTakes
<1>9. TablesTyped(w1) /\ HeldExactly(w1.f, held) /\ FailuresHeld(w1.f, lastBad, clock)
    <2>1. w0.f \in [Keys -> Entry \cup {NoEntry}]
        BY <1>4 DEF TablesTyped
    <2> QED BY <1>1, <1>4, <1>8, <2>1, SweptHeld, SweptFailures DEF WellKept
<1>10. ASSUME entries' \in [Keys -> Entry \cup {NoEntry}], nextExpiry' \in [Tables -> Nat],
             WellKept([f |-> entries', next |-> nextExpiry']),
             HeldExactly(entries', held'), FailuresHeld(entries', lastBad, clock),
             held' \in [Attempts -> SUBSET Reservation],
             \A b \in Attempts : b # a => held'[b] = held[b],
             stage' = [stage EXCEPT ![a] = stage'[a]], stage'[a] \in Stages \ {"complete"},
             IF stage'[a] = "checking" THEN Reserved(a)' ELSE held'[a] = {}
      PROVE  ILogin'
    <2>1. LoginTypeOK'
        <3>1. stage' \in [Attempts -> Stages]
            BY <1>10 DEF ILogin, LoginTypeOK
        <3>2. lastCleanup' \in Nat
            BY <1>1, <1>2 DEF ILogin, LoginTypeOK
        <3> QED BY <1>2, <1>10, <3>1, <3>2 DEF ILogin, LoginTypeOK
    <2>2. ASSUME NEW b \in Attempts
          PROVE  /\ IF stage'[b] \in {"checking", "complete"} THEN Reserved(b)' ELSE held'[b] = {}
                 /\ now'[b] <= clock' /\ (stage'[b] # "idle" => now'[b] > 0)
        <3>1. CASE b = a
            BY <1>1, <1>2, <1>10, <3>1 DEF t
        <3>2. CASE b # a
            <4>1. stage'[b] = stage[b] /\ held'[b] = held[b]
                BY <1>10, <3>2 DEF ILogin, LoginTypeOK
            <4> QED BY <1>2, <4>1 DEF ILogin, Reserved
        <3> QED BY <3>1, <3>2
    <2> QED BY <1>2, <1>10, <2>1, <2>2 DEF ILogin
<1>11. stage'[a] = IF source.verdict # "checking" THEN source.verdict ELSE name.verdict
    BY <1>2 DEF ILogin, LoginTypeOK
<1>12. stage' = [stage EXCEPT ![a] = stage'[a]]
    BY <1>2, <1>11
<1>13. CASE source.verdict # "checking"
    <2>1. Install(source.w) /\ held' = held /\ source.w = w1
        BY <1>2, <1>8, <1>13
    <2>2. stage'[a] \in {"busy", "locked"}
        BY <1>7, <1>11, <1>13
    <2> QED BY <1>1, <1>7, <1>9, <1>10, <1>12, <2>1, <2>2, TablesInstalled DEF Stages
<1>14. CASE source.verdict = "checking"
    <2>1. reserved \in [Attempts -> SUBSET Reservation] /\ HeldExactly(source.w.f, reserved)
          /\ FailuresHeld(source.w.f, lastBad, clock)
        <3>1. a \notin HoldersOf(held, source.held.key)
            BY <1>1 DEF HoldersOf
        <3>2. reserved = [held EXCEPT ![a] = @ \cup {source.held}]
            BY <1>1
        <3>3. Claimed(w1, source.w, source.held, a)
            BY <1>8, <1>14
        <3> HIDE DEF reserved
        <3>4. reserved \in [Attempts -> SUBSET Reservation] /\ HeldExactly(source.w.f, reserved)
            BY <1>1, <1>7, <1>9, <3>1, <3>2, <3>3, ClaimHeld
        <3>5. FailuresHeld(source.w.f, lastBad, clock)
            BY <1>7, <1>9, <3>3, ClaimFailures
        <3> QED BY <3>4, <3>5
    <2>2. /\ WellKept(name.w) /\ name.verdict \in {"busy", "locked", "checking"}
          /\ name.held \in Reservation /\ name.held.key \in Users \cup Buckets
        BY <1>1, <1>5, <1>6, <1>7, ClaimTakes
    <2>3. PICK w2 : /\ WellKept(w2) /\ OnlyExpiredGo(source.w.f, w2.f, t)
                    /\ IF name.verdict = "checking" THEN Claimed(w2, name.w, name.held, a) ELSE name.w = w2
        BY <1>1, <1>5, <1>6, <1>7, ClaimTakes
    <2>4. TablesTyped(w2) /\ HeldExactly(w2.f, reserved) /\ FailuresHeld(w2.f, lastBad, clock)
        <3>1. source.w.f \in [Keys -> Entry \cup {NoEntry}]
            BY <1>7 DEF WellKept, TablesTyped
        <3> HIDE DEF reserved
        <3> QED BY <1>1, <2>1, <2>3, <3>1, SweptHeld, SweptFailures DEF WellKept
    <2>5. CASE name.verdict # "checking"
        <3>1. name.w = w2 /\ Install(undone) /\ held' = held
            BY <1>2, <1>14, <2>3, <2>5
        <3>2. reserved[a] = {source.held} /\ w2.f \in [Keys -> Entry \cup {NoEntry}]
            BY <1>1, <2>4 DEF TablesTyped
        <3>3. held = [reserved EXCEPT ![a] = @ \ {source.held}]
            BY <1>1
        <3> DEFINE k == source.held.key
                   new == Ended(w2.f[k], "abandoned", t)
        <3> HIDE DEF reserved
        <3>4. /\ Live(w2.f, source.held) /\ k \in Keys
              /\ w2.f[k] \in Entry /\ w2.f[k].inFlight > 0
            BY <2>1, <2>4, <3>2, HeldIsLive
        <3>5. WellKept(undone) /\ Settled(w2.f, undone.f, k, new)
            BY <1>1, <1>7, <2>3, <3>1, <3>4, SettleKeeps DEF Undo, Outcomes
        <3>6. EntrySane(w2.f[k])
            BY <2>3, <3>4, LoginConstants DEF WellKept
        <3>7. /\ new \in Entry /\ new.owner = w2.f[k].owner /\ new.inFlight = w2.f[k].inFlight - 1
              /\ new.failures = w2.f[k].failures /\ new.lastFailure = w2.f[k].lastFailure
            BY <1>1, <3>4, <3>6, EndedIs DEF Outcomes
        <3> HIDE DEF new, undone
        <3>8. HeldExactly(undone.f, held)
            <4>1. source.held \in reserved[a] /\ \A o \in reserved[a] : o.key = k => o = source.held
                BY <3>2
            <4>2. reserved \in [Attempts -> SUBSET Reservation] /\ HeldExactly(w2.f, reserved)
                BY <2>1, <2>4
            <4>3. w2.f \in [Keys -> Entry \cup {NoEntry}] /\ Settled(w2.f, undone.f, k, new)
                BY <3>2, <3>5
            <4>4. new \in Entry /\ new.owner = w2.f[k].owner /\ new.inFlight = w2.f[k].inFlight - 1
                BY <3>7
            <4>5. PICK f, g, h, hold : f = w2.f /\ g = undone.f /\ h = source.held /\ hold = reserved
                OBVIOUS
            <4>6. /\ hold \in [Attempts -> SUBSET Reservation] /\ HeldExactly(f, hold)
                  /\ h \in hold[a] /\ \A o \in hold[a] : o.key = h.key => o = h
                BY <4>1, <4>2, <4>5
            <4>7. /\ f \in [Keys -> Entry \cup {NoEntry}] /\ Settled(f, g, h.key, new)
                  /\ new.owner = f[h.key].owner /\ new.inFlight = f[h.key].inFlight - 1
                BY <4>3, <4>4, <4>5
            <4>8. HeldExactly(g, [hold EXCEPT ![a] = @ \ {h}])
                BY <4>4, <4>6, <4>7, SettleHeld
            <4> QED BY <3>3, <4>5, <4>8
        <3>9. FailuresHeld(undone.f, lastBad, clock)
            BY <2>4, <3>4, <3>5, <3>7, SettleFailures
        <3>10. stage'[a] \in {"busy", "locked"}
            BY <1>11, <1>14, <2>2, <2>5
        <3> QED BY <1>1, <1>10, <1>12, <3>1, <3>5, <3>8, <3>9, <3>10, TablesInstalled DEF Stages
    <2>6. CASE name.verdict = "checking"
        <3>1. Install(name.w) /\ held' = both /\ Claimed(w2, name.w, name.held, a)
            BY <1>2, <1>14, <2>3, <2>6
        <3>2. a \notin HoldersOf(reserved, name.held.key)
            BY <1>1, <1>7, <2>2, KeysApart DEF HoldersOf
        <3>3. both = [reserved EXCEPT ![a] = @ \cup {name.held}]
            BY <1>1
        <3>4. both[a] = {source.held, name.held} /\ \A b \in Attempts : b # a => both[b] = held[b]
            BY <1>1
        <3> HIDE DEF both, reserved
        <3>5. both \in [Attempts -> SUBSET Reservation] /\ HeldExactly(name.w.f, both)
            BY <2>1, <2>2, <2>4, <3>1, <3>2, <3>3, ClaimHeld
        <3>6. FailuresHeld(name.w.f, lastBad, clock)
            BY <2>2, <2>4, <3>1, ClaimFailures
        <3>7. Reserved(a)'
            BY <1>1, <1>7, <2>2, <3>1, <3>4 DEF Reserved
        <3>8. stage'[a] = "checking"
            BY <1>11, <1>14, <2>6
        <3> QED BY <1>10, <1>12, <2>2, <3>1, <3>4, <3>5, <3>6, <3>7, <3>8, TablesInstalled DEF Stages
    <2> QED BY <2>5, <2>6
<1> QED BY <1>13, <1>14

\* complete settles the two reservations one after the other.
LEMMA CompleteKeeps ==
    ASSUME ILogin, NEW a \in Attempts, CompleteAttempt(a)
    PROVE  ILogin'
<1> DEFINE mine(kind) == CHOOSE h \in held[a] : (h.key \in Sources) = kind
           settledKeys == {h.key : h \in {x \in held[a] : Live(entries, x)}}
           w0 == [f |-> entries, next |-> nextExpiry]
           t == now[a]
           ending == outcome[a]
           Bad(old) ==
               IF ending = "abandoned" THEN old ELSE IF ending = "failed" THEN t ELSE 0
<1>1. /\ stage[a] = "complete" /\ Reserved(a) /\ t \in Nat \ {0} /\ ending \in Outcomes
      /\ entries \in [Keys -> Entry \cup {NoEntry}] /\ held \in [Attempts -> SUBSET Reservation]
      /\ lastBad \in [Keys -> Nat] /\ clock \in Nat
    BY DEF ILogin, LoginTypeOK, CompleteAttempt
<1>2. PICK s \in Reservation, n \in Reservation :
          held[a] = {s, n} /\ s.key \in Sources /\ n.key \in Users \cup Buckets
    BY <1>1 DEF Reserved
<1>3. s.key # n.key /\ s.key \in Keys /\ n.key \in Keys /\ n.key \notin Sources
    BY <1>2, KeysApart
<1>4. mine(TRUE) = s /\ mine(FALSE) = n
    BY <1>2, <1>3
<1> DEFINE w1 == Settle(w0, s, ending, t)
           w2 == Settle(w1, n, ending, t)
           hold1 == [held EXCEPT ![a] = @ \ {s}]
           hold2 == [hold1 EXCEPT ![a] = @ \ {n}]
           new1 == Ended(entries[s.key], ending, t)
           new2 == Ended(w1.f[n.key], ending, t)
           bad1 == [lastBad EXCEPT ![s.key] = Bad(@)]
           bad2 == [bad1 EXCEPT ![n.key] = Bad(@)]
<1>5. /\ Live(entries, s) /\ entries[s.key] \in Entry /\ entries[s.key].inFlight > 0
      /\ Live(entries, n)
    BY <1>1, <1>2, HeldIsLive DEF ILogin
<1>6. settledKeys = {s.key, n.key}
    BY <1>2, <1>5
<1>7. /\ Install(w2) /\ stage' = [stage EXCEPT ![a] = "done"] /\ held' = [held EXCEPT ![a] = {}]
      /\ lastBad' = [k \in Keys |-> IF k \notin settledKeys \/ ending = "abandoned" THEN lastBad[k]
                                    ELSE IF ending = "failed" THEN t ELSE 0]
      /\ UNCHANGED <<clock, lastCleanup, who, now, outcome>>
    BY <1>4 DEF CompleteAttempt
<1>8. lastBad' = bad2 /\ lastBad' \in [Keys -> Nat]
    BY <1>1, <1>3, <1>6, <1>7
<1>9. /\ hold1[a] = {n} /\ hold2 = held' /\ held'[a] = {}
      /\ \A b \in Attempts : b # a => held'[b] = held[b]
    BY <1>1, <1>2, <1>3, <1>7
<1>10. EntrySane(entries[s.key])
    BY <1>3, <1>5, LoginConstants DEF ILogin, WellKept
<1>11. /\ WellKept(w1) /\ Settled(entries, w1.f, s.key, new1)
       /\ new1 \in Entry /\ new1.owner = entries[s.key].owner
       /\ new1.inFlight = entries[s.key].inFlight - 1
       /\ ending = "abandoned" => new1.failures = entries[s.key].failures
                                  /\ new1.lastFailure = entries[s.key].lastFailure
       /\ ending = "failed" => new1.failures > 0 /\ new1.lastFailure = t
    <2>1. w0.f = entries /\ WellKept(w0)
        BY DEF ILogin
    <2>2. WellKept(w1) /\ Settled(entries, w1.f, s.key, new1)
        <3> HIDE DEF w0
        <3> QED BY <1>1, <1>5, <2>1, SettleKeeps
    <2>3. new1 \in Entry /\ new1.owner = entries[s.key].owner /\ new1.inFlight = entries[s.key].inFlight - 1
        BY <1>1, <1>5, <1>10, EndedIs
    <2> QED BY <1>1, <1>5, <1>10, <2>2, <2>3, EndedIs
<1> HIDE DEF w1, new1, settledKeys
<1>12. w1.f \in [Keys -> Entry \cup {NoEntry}]
    BY <1>11 DEF WellKept, TablesTyped
<1>13. hold1 \in [Attempts -> SUBSET Reservation] /\ HeldExactly(w1.f, hold1)
    <2>1. s \in held[a] /\ \A o \in held[a] : o.key = s.key => o = s
        BY <1>2, <1>3
    <2>2. HeldExactly(entries, held)
        BY DEF ILogin
    <2> HIDE DEF hold1
    <2> QED BY <1>1, <1>11, <2>1, <2>2, SettleHeld DEF hold1
<1>14. FailuresHeld(w1.f, bad1, clock)
    <2>1. FailuresHeld(entries, lastBad, clock)
        BY DEF ILogin
    <2>2. /\ \A key \in Keys : key # s.key => bad1[key] = lastBad[key]
          /\ bad1[s.key] = Bad(lastBad[s.key])
        BY <1>1, <1>3
    <2>3. \/ bad1[s.key] = 0
          \/ new1.failures > 0 /\ new1.lastFailure = bad1[s.key]
          \/ bad1[s.key] = lastBad[s.key] /\ new1.failures = entries[s.key].failures
             /\ new1.lastFailure = entries[s.key].lastFailure
        BY <1>11, <2>2
    <2>4. s.key \in Keys /\ new1 \in Entry /\ Settled(entries, w1.f, s.key, new1)
        BY <1>3, <1>11
    <2>5. \A key \in Keys : key # s.key => bad1[key] = lastBad[key]
        BY <2>2
    <2> HIDE DEF bad1
    <2> QED BY <2>1, <2>3, <2>4, <2>5, SettleFailures
<1>15. /\ Live(w1.f, n) /\ w1.f[n.key] \in Entry /\ w1.f[n.key].inFlight > 0
    <2> HIDE DEF hold1
    <2> QED BY <1>9, <1>12, <1>13, HeldIsLive
<1>16. EntrySane(w1.f[n.key])
    BY <1>3, <1>11, <1>15, LoginConstants DEF WellKept
<1>17. /\ WellKept(w2) /\ Settled(w1.f, w2.f, n.key, new2)
       /\ new2 \in Entry /\ new2.owner = w1.f[n.key].owner
       /\ new2.inFlight = w1.f[n.key].inFlight - 1
    BY <1>1, <1>11, <1>15, <1>16, SettleKeeps, EndedIs
<1>18. /\ ending = "abandoned" => new2.failures = w1.f[n.key].failures
                                  /\ new2.lastFailure = w1.f[n.key].lastFailure
       /\ ending = "failed" => new2.failures > 0 /\ new2.lastFailure = t
    BY <1>1, <1>15, <1>16, EndedIs
<1> HIDE DEF w2, new2
<1>19. HeldExactly(w2.f, held') /\ held' \in [Attempts -> SUBSET Reservation]
    <2>1. n \in hold1[a] /\ \A o \in hold1[a] : o.key = n.key => o = n
        BY <1>9
    <2>2. hold2 = [hold1 EXCEPT ![a] = @ \ {n}]
        OBVIOUS
    <2> HIDE DEF hold1, hold2
    <2>3. HeldExactly(w2.f, hold2) /\ hold2 \in [Attempts -> SUBSET Reservation]
        <3>1. hold1 \in [Attempts -> SUBSET Reservation] /\ HeldExactly(w1.f, hold1)
            BY <1>13
        <3> QED BY <1>12, <1>17, <2>1, <2>2, <3>1, SettleHeld
    <2> QED BY <1>9, <2>3
<1>20. FailuresHeld(w2.f, lastBad', clock)
    <2>1. /\ \A key \in Keys : key # n.key => bad2[key] = bad1[key]
          /\ bad2[n.key] = Bad(bad1[n.key])
        BY <1>1, <1>3
    <2> HIDE DEF bad1
    <2>2. \/ bad2[n.key] = 0
          \/ new2.failures > 0 /\ new2.lastFailure = bad2[n.key]
          \/ bad2[n.key] = bad1[n.key] /\ new2.failures = w1.f[n.key].failures
             /\ new2.lastFailure = w1.f[n.key].lastFailure
        BY <1>18, <2>1
    <2> HIDE DEF bad2
    <2> QED BY <1>3, <1>8, <1>14, <1>17, <2>1, <2>2, SettleFailures
<1>21. /\ entries' \in [Keys -> Entry \cup {NoEntry}] /\ nextExpiry' \in [Tables -> Nat]
       /\ entries' = w2.f /\ WellKept([f |-> entries', next |-> nextExpiry'])
    BY <1>7, <1>17, TablesInstalled
<1>22. LoginTypeOK'
    BY <1>7, <1>8, <1>19, <1>21 DEF ILogin, LoginTypeOK, Stages
<1>23. ASSUME NEW b \in Attempts
       PROVE  /\ IF stage'[b] \in {"checking", "complete"} THEN Reserved(b)' ELSE held'[b] = {}
              /\ now'[b] <= clock' /\ (stage'[b] # "idle" => now'[b] > 0)
    <2>1. CASE b = a
        <3>1. stage'[a] = "done"
            BY <1>7 DEF ILogin, LoginTypeOK
        <3> QED BY <1>1, <1>7, <1>9, <2>1, <3>1 DEF ILogin
    <2>2. CASE b # a
        <3>1. stage'[b] = stage[b] /\ held'[b] = held[b]
            BY <1>7, <1>9, <2>2 DEF ILogin, LoginTypeOK
        <3> QED BY <1>7, <3>1 DEF ILogin, Reserved
    <2> QED BY <2>1, <2>2
<1> QED BY <1>7, <1>19, <1>20, <1>21, <1>22, <1>23 DEF ILogin


\* Reading the clock, comparing and the passing of time touch no table.
LEMMA OtherStepsKeep ==
    ASSUME ILogin,
           \/ \E a \in Attempts : ReadClock(a) \/ \E ending \in Outcomes : CompareEnds(a, ending)
           \/ Tick
           \/ UNCHANGED loginVars
    PROVE  ILogin'
<1>1. /\ UNCHANGED <<entries, nextExpiry, lastCleanup, held, lastBad, who>>
      /\ clock \in Nat /\ clock' \in Nat /\ clock' >= clock /\ lastBad \in [Keys -> Nat]
    BY DEF ILogin, LoginTypeOK, ReadClock, CompareEnds, Tick, loginVars, tableVars, attemptVars
<1>2. FailuresHeld(entries, lastBad, clock')
    BY <1>1, LoginConstants DEF FailuresHeld, ILogin
<1>3. stage' \in [Attempts -> Stages] /\ now' \in [Attempts -> Nat] /\ outcome' \in [Attempts -> Outcomes]
    <2>1. /\ stage \in [Attempts -> Stages] /\ now \in [Attempts -> Nat]
          /\ outcome \in [Attempts -> Outcomes]
        BY DEF ILogin, LoginTypeOK
    <2>2. ASSUME NEW a \in Attempts, ReadClock(a)
          PROVE  stage' = [stage EXCEPT ![a] = "begin"] /\ now' = [now EXCEPT ![a] = clock] /\ outcome' = outcome
        BY <2>2 DEF ReadClock
    <2>3. ASSUME NEW a \in Attempts, NEW ending \in Outcomes, CompareEnds(a, ending)
          PROVE  /\ stage' = [stage EXCEPT ![a] = "complete"] /\ now' = [now EXCEPT ![a] = clock]
                 /\ outcome' = [outcome EXCEPT ![a] = ending]
        BY <2>3 DEF CompareEnds
    <2>4. CASE UNCHANGED <<stage, now, outcome>>
        BY <2>1, <2>4
    <2> QED BY <1>1, <2>1, <2>2, <2>3, <2>4 DEF Stages, Tick, loginVars, attemptVars
<1>4. ASSUME NEW b \in Attempts
      PROVE  /\ stage'[b] \in {"checking", "complete"} <=> stage[b] \in {"checking", "complete"}
             /\ now'[b] <= clock' /\ (stage'[b] # "idle" => now'[b] > 0)
    <2>1. now[b] \in Nat /\ now[b] <= clock /\ clock > 0 /\ (stage[b] # "idle" => now[b] > 0)
        BY DEF ILogin, LoginTypeOK
    <2>2. CASE stage' = stage /\ now' = now
        BY <1>1, <2>1, <2>2
    <2>3. CASE \E a \in Attempts : ReadClock(a) \/ \E ending \in Outcomes : CompareEnds(a, ending)
        <3>1. /\ now'[b] \in {now[b], clock} /\ clock' = clock
              /\ stage'[b] = stage[b] \/ now'[b] = clock
              /\ stage'[b] \in {"checking", "complete"} <=> stage[b] \in {"checking", "complete"}
            BY <2>3 DEF ILogin, LoginTypeOK, ReadClock, CompareEnds
        <3>2. CASE now'[b] = clock
            BY <1>1, <2>1, <3>1, <3>2
        <3>3. CASE now'[b] # clock
            BY <1>1, <2>1, <3>1, <3>3
        <3> QED BY <3>2, <3>3
    <2> QED BY <2>2, <2>3 DEF Tick, loginVars, attemptVars
<1>5. \A b \in Attempts : Reserved(b)' <=> Reserved(b)
    BY <1>1 DEF Reserved
<1>6. LoginTypeOK'
    BY <1>1, <1>3 DEF ILogin, LoginTypeOK
<1>7. WellKept([f |-> entries', next |-> nextExpiry']) /\ HeldExactly(entries', held')
      /\ FailuresHeld(entries', lastBad', clock') /\ clock' > 0
    BY <1>1, <1>2 DEF ILogin
<1> QED BY <1>1, <1>4, <1>5, <1>6, <1>7 DEF ILogin

\* Both tables start empty.
LEMMA LoginStarts == LoginInit => ILogin
<1> SUFFICES ASSUME LoginInit PROVE ILogin
    OBVIOUS
<1>1. /\ clock = 1 /\ entries = [k \in Keys |-> NoEntry] /\ nextExpiry = [t \in Tables |-> 0]
      /\ lastCleanup = 1 /\ stage = [a \in Attempts |-> "idle"] /\ now = [a \in Attempts |-> 0]
      /\ held = [a \in Attempts |-> {}] /\ lastBad = [k \in Keys |-> 0]
      /\ outcome = [a \in Attempts |-> "abandoned"]
      /\ who \in [Attempts -> [user : Users, address : Addresses]]
    BY DEF LoginInit
<1>2. LoginTypeOK
    BY <1>1 DEF LoginTypeOK, Stages, Outcomes
<1>3. \A table \in Tables : Present(entries, table) = {}
    BY <1>1, KeysApart DEF Present
<1>4. \A table \in Tables : IsFiniteSet(Present(entries, table))
                            /\ Cardinality(Present(entries, table)) <= Capacity(table)
    BY <1>3, FS_EmptySet, KeysApart
<1>5. WellKept([f |-> entries, next |-> nextExpiry])
    BY <1>1, <1>2, <1>3, <1>4 DEF WellKept, TablesTyped, LoginTypeOK
<1>6. HeldExactly(entries, held) /\ FailuresHeld(entries, lastBad, clock)
    BY <1>1 DEF HeldExactly, FailuresHeld
<1> QED BY <1>1, <1>2, <1>5, <1>6 DEF ILogin

\* Every step keeps the invariant.
LEMMA LoginSteps == ILogin /\ [LoginNext]_loginVars => ILogin'
BY BeginKeeps, CompleteKeeps, OtherStepsKeep DEF LoginNext

\* The invariant holds what was asked for.
LEMMA ILoginImplies == ILogin => LoginInv /\ GuessesBounded
<1> SUFFICES ASSUME ILogin PROVE LoginInv /\ GuessesBounded
    OBVIOUS
<1>1. /\ LoginTypeOK /\ HeldExactly(entries, held)
      /\ entries \in [Keys -> Entry \cup {NoEntry}] /\ held \in [Attempts -> SUBSET Reservation]
      /\ clock \in Nat /\ lastBad \in [Keys -> Nat]
    BY DEF ILogin, LoginTypeOK
<1>2. \A k \in Keys : Holders(k) = HoldersOf(held, k)
    BY <1>1 DEF Holders, HoldersOf, HeldExactly
<1>3. InFlightExact
    <2>1. ASSUME NEW a \in Attempts, NEW h \in held[a]
          PROVE  a \in Holders(h.key)
        BY <1>1, <1>2 DEF HoldersOf, Reservation
    <2> QED BY <1>1, <1>2, <2>1 DEF InFlightExact, HeldExactly
<1>4. TablesBounded /\ ExpiryScheduled
    BY DEF ILogin, WellKept, TablesBounded, ExpiryScheduled
<1>5. FailuresKept
    BY <1>1, LoginConstants DEF ILogin, FailuresHeld, FailuresKept
<1>6. GuessesBounded
    BY DEF ILogin, WellKept, EntrySane, GuessesBounded
<1> QED BY <1>1, <1>3, <1>4, <1>5, <1>6 DEF LoginInv

\* The two tables stay within their capacities, count the attempts that hold an entry,
\* take none from under them, remember a failure for the whole window and know when the
\* next entry expires, though every operation acts with a time that may be past.
THEOREM LoginInvariant == LoginSpec => []LoginInv
BY LoginStarts, LoginSteps, ILoginImplies, PTL DEF LoginSpec

\* Attempts that compare at the same time cannot together exceed the threshold: beyond a
\* single one, an entry's failures and its attempts in flight stay within it
\* (reserveExistingFailureEntryLocked).
THEOREM ConcurrentGuessesBounded == LoginSpec => []GuessesBounded
BY LoginStarts, LoginSteps, ILoginImplies, PTL DEF LoginSpec

=============================================================================
