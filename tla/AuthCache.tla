-------------------------------- MODULE AuthCache --------------------------------
(***************************************************************************)
(* The API key resolver of internal/auth/resolver_cache.go: a sharded LRU  *)
(* cache of authentication snapshots, one load in flight per key hash, a   *)
(* bound on concurrent loads, invalidation by administrators and Close.    *)
(*                                                                         *)
(* What the store says about a key at some moment is a version: the number *)
(* of administrative changes committed so far.  The several reads of one   *)
(* load happen one after the other, so the version at its first read is    *)
(* the oldest a snapshot contains, and the one kept here.  An entry's time *)
(* to live may end at any moment.  A flight is named by its leader.        *)
(***************************************************************************)
EXTENDS Naturals, Sequences, FiniteSets, SequencesExt

CONSTANTS
    Requests, Hashes,
    HashOf,       \* the key hash a request presents
    Shards,
    ShardOf,      \* the shard of a hash
    ShardCapacity,
    MissLimits,   \* configured bounds on concurrent loads
    Admins,       \* administrative requests; each changes the store once
    None          \* no flight, or no cached entry

ASSUME AuthCacheAssumption ==
    /\ HashOf \in [Requests -> Hashes]
    /\ ShardOf \in [Hashes -> Shards]
    /\ ShardCapacity \in Nat \ {0}
    /\ MissLimits \in SUBSET (Nat \ {0})
    /\ None \notin Requests /\ None \notin Nat

VARIABLES
    version,      \* administrative changes committed
    cached,       \* hash -> version of its entry, or None
    recency,      \* shard -> its hashes, most recently used first
    generation,
    inFlight,     \* hash -> the flight registered for it, or None
    flightDone,   \* flights whose done channel is closed
    flightResult, \* flight -> "value" or the error it ended with
    missMaxConcurrent,  \* the bound in force
    loading,      \* requests holding a slot of missAdmission
    pc,           \* request -> the next step of its Resolve
    loadGeneration, \* request -> the generation its load began in
    got,          \* request -> the version its load read first
    joined,       \* request -> the flight it waits for
    result,       \* request -> how its Resolve ended
    answer,       \* request -> the version it was given
    admin,        \* admin -> "idle", "written", "clearing" or "finished"
    target,       \* admin -> the version it committed
    toClear,      \* admin -> shards InvalidateAll still has to clear
    closer,       \* "open", "closed", "draining" or "returned"
    draining,     \* flights Close has to complete
    settled,      \* history: the newest version whose InvalidateAll returned
    floor         \* history: settled when a request began

requestVars == <<pc, loadGeneration, got, joined, result, answer, floor>>
flightVars == <<inFlight, flightDone, flightResult>>
adminVars == <<version, admin, target, toClear, settled>>
closeVars == <<closer, draining>>
slotVars == <<missMaxConcurrent, loading>>
cacheVars == <<cached, recency>>
authVars == <<requestVars, flightVars, adminVars, closeVars, cacheVars, generation, slotVars>>

AuthInit ==
    /\ version = 0 /\ settled = 0 /\ generation = 0
    /\ cached = [h \in Hashes |-> None]
    /\ recency = [s \in Shards |-> <<>>]
    /\ inFlight = [h \in Hashes |-> None]
    /\ flightDone = {} /\ flightResult = [r \in Requests |-> "none"]
    /\ missMaxConcurrent \in MissLimits /\ loading = {}
    /\ pc = [r \in Requests |-> "new"]
    /\ loadGeneration = [r \in Requests |-> 0]
    /\ got = [r \in Requests |-> 0]
    /\ joined = [r \in Requests |-> None]
    /\ result = [r \in Requests |-> "none"]
    /\ answer = [r \in Requests |-> 0]
    /\ admin = [a \in Admins |-> "idle"]
    /\ target = [a \in Admins |-> 0]
    /\ toClear = [a \in Admins |-> {}]
    /\ closer = "open" /\ draining = {}
    /\ floor = [r \in Requests |-> 0]

Closed == closer # "open"

Goto(r, place) == pc' = [pc EXCEPT ![r] = place]

\* Resolve returns.
Answer(r, how, ver) ==
    /\ Goto(r, "answered")
    /\ result' = [result EXCEPT ![r] = how]
    /\ answer' = [answer EXCEPT ![r] = ver]

-----------------------------------------------------------------------------
(* The shards.                                                             *)

\* A recency list without one of its hashes.
Without(list, h) ==
    IF h \in ToSet(list) THEN RemoveAt(list, CHOOSE i \in 1..Len(list) : list[i] = h) ELSE list

\* removeEntry takes an entry out of the map and of the recency list.
RemoveEntry(h) ==
    /\ cached' = [cached EXCEPT ![h] = None]
    /\ recency' = [recency EXCEPT ![ShardOf[h]] = Without(@, h)]

\* loadCachedEntry finds a live entry and makes it the most recent one.
CacheHit(r) ==
    LET h == HashOf[r]
    IN  /\ cached[h] # None
        /\ recency' = [recency EXCEPT ![ShardOf[h]] = <<h>> \o Without(@, h)]
        /\ UNCHANGED cached

\* loadCachedEntry finds no entry, or an expired one, which it removes.
CacheMiss(r) == RemoveEntry(HashOf[r])

\* The entries storeEntry evicts from the back of the list.
Overflow(list) == {list[i] : i \in (ShardCapacity + 1)..Len(list)}

\* The entries it keeps.
Kept(list) == IF Len(list) <= ShardCapacity THEN list ELSE SubSeq(list, 1, ShardCapacity)

\* Mutant: the generation is not compared.
MayStore_AnyGeneration(r) == ~Closed

\* storeEntry under the shard's lock: a load begun before an invalidation is not stored.
MayStore(r) == ~Closed /\ generation = loadGeneration[r]

StoreEntry(r) ==
    LET h == HashOf[r]
        list == <<h>> \o Without(recency[ShardOf[h]], h)
    IN  IF ~MayStore(r) THEN UNCHANGED cacheVars
        ELSE /\ cached' = [k \in Hashes |-> IF k \in Overflow(list) THEN None
                                           ELSE IF k = h THEN got[r] ELSE cached[k]]
             /\ recency' = [recency EXCEPT ![ShardOf[h]] = Kept(list)]

-----------------------------------------------------------------------------
(* Resolve.                                                                *)

\* The first lookup.
Begin(r) ==
    /\ pc[r] = "new"
    /\ floor' = [floor EXCEPT ![r] = settled]
    /\ \/ /\ Closed
          /\ Answer(r, "closed", 0)
          /\ UNCHANGED cacheVars
       \/ /\ ~Closed
          /\ CacheHit(r)
          /\ Answer(r, "value", cached[HashOf[r]])
       \/ /\ ~Closed
          /\ CacheMiss(r)
          /\ Goto(r, "missed")
          /\ UNCHANGED <<result, answer>>
    /\ UNCHANGED <<flightVars, adminVars, closeVars, generation, slotVars, loadGeneration, got, joined>>

\* The flight registered for the request's hash.
FlightOf(r) == inFlight[HashOf[r]]

\* Under flightMu: give up, follow, find the entry after all, or lead.
JoinOrLead(r) ==
    /\ pc[r] = "missed"
    /\ \/ /\ Closed
          /\ Answer(r, "closed", 0)
          /\ UNCHANGED <<cacheVars, inFlight, loadGeneration, joined>>
       \/ /\ ~Closed /\ FlightOf(r) # None
          /\ joined' = [joined EXCEPT ![r] = FlightOf(r)]
          /\ Goto(r, "waiting")
          /\ UNCHANGED <<cacheVars, inFlight, loadGeneration, result, answer>>
       \/ /\ ~Closed /\ FlightOf(r) = None
          /\ CacheHit(r)
          /\ Answer(r, "value", cached[HashOf[r]])
          /\ UNCHANGED <<inFlight, loadGeneration, joined>>
       \/ /\ ~Closed /\ FlightOf(r) = None
          /\ CacheMiss(r)
          /\ inFlight' = [inFlight EXCEPT ![HashOf[r]] = r]
          /\ loadGeneration' = [loadGeneration EXCEPT ![r] = generation]
          /\ joined' = [joined EXCEPT ![r] = r]
          /\ Goto(r, "leading")
          /\ UNCHANGED <<result, answer>>
    /\ UNCHANGED <<flightDone, flightResult, adminVars, closeVars, generation, slotVars, got, floor>>

\* The leader gets a slot.
AdmitLoad(r) ==
    /\ pc[r] = "leading"
    /\ Cardinality(loading) < missMaxConcurrent
    /\ loading' = loading \union {r}
    /\ Goto(r, "admitted")
    /\ UNCHANGED <<missMaxConcurrent, flightVars, adminVars, closeVars, cacheVars, generation, loadGeneration, got, joined,
                   result, answer, floor>>

\* completeFlight, first half, at most once: the result is set and done is closed.
CompleteFlight(f, how) ==
    /\ flightDone' = flightDone \union {f}
    /\ flightResult' = [flightResult EXCEPT ![f] = IF f \in flightDone THEN @ ELSE how]

\* No slot is free, or the leader's context has ended: it leaves with the error.
RefuseLoad(r, how) ==
    /\ pc[r] = "leading"
    /\ how \in {"saturated", "cancelled"}
    /\ how = "saturated" => Cardinality(loading) = missMaxConcurrent
    /\ CompleteFlight(r, how)
    /\ Goto(r, "removing")
    /\ result' = [result EXCEPT ![r] = how]
    /\ UNCHANGED <<inFlight, adminVars, closeVars, cacheVars, generation, slotVars, loadGeneration, got,
                   joined, answer, floor>>

\* loadFromStore reads the key.
LoadRead(r) ==
    /\ pc[r] = "admitted"
    /\ got' = [got EXCEPT ![r] = version]
    /\ Goto(r, "reading")
    /\ UNCHANGED <<flightVars, adminVars, closeVars, cacheVars, generation, slotVars, loadGeneration,
                   joined, result, answer, floor>>

\* loadFromStore returns a snapshot or an error, or panics; the slot goes back.
LoadEnds(r, how) ==
    /\ pc[r] = "reading"
    /\ loading' = loading \ {r}
    /\ IF how = "value" THEN Goto(r, "storing") /\ UNCHANGED <<flightDone, flightResult>>
       ELSE Goto(r, "removing") /\ CompleteFlight(r, how)
    /\ result' = IF how = "panic" THEN [result EXCEPT ![r] = how] ELSE result
    /\ UNCHANGED <<missMaxConcurrent, inFlight, adminVars, closeVars, cacheVars, generation, loadGeneration, got, joined,
                   answer, floor>>

Store(r) ==
    /\ pc[r] = "storing"
    /\ StoreEntry(r)
    /\ Goto(r, "completing")
    /\ UNCHANGED <<flightVars, adminVars, closeVars, generation, slotVars, loadGeneration, got, joined,
                   result, answer, floor>>

Complete(r) ==
    /\ pc[r] = "completing"
    /\ CompleteFlight(r, "value")
    /\ Goto(r, "removing")
    /\ UNCHANGED <<inFlight, adminVars, closeVars, cacheVars, generation, slotVars, loadGeneration, got,
                   joined, result, answer, floor>>

\* completeFlight, second half: the flight leaves the map under flightMu.
RemoveFlight(f) ==
    inFlight' = [h \in Hashes |-> IF inFlight[h] = f THEN None ELSE inFlight[h]]

\* Mutant: the completed flight stays in the map.
LeaderRemoves_Kept(r) ==
    /\ pc[r] = "removing"
    /\ Goto(r, IF result[r] = "none" THEN "waiting" ELSE "answered")
    /\ UNCHANGED <<flightVars, adminVars, closeVars, cacheVars, generation, slotVars,
                   loadGeneration, got, joined, result, answer, floor>>

\* A refused or panicking leader is through; any other asks its own flight.
LeaderRemoves(r) ==
    /\ pc[r] = "removing"
    /\ RemoveFlight(r)
    /\ Goto(r, IF result[r] = "none" THEN "waiting" ELSE "answered")
    /\ UNCHANGED <<flightDone, flightResult, adminVars, closeVars, cacheVars, generation, slotVars,
                   loadGeneration, got, joined, result, answer, floor>>

\* Mutant: a waiter takes only a value and waits on when the flight has failed.
FlightAnswers_ValueOnly(r) ==
    /\ pc[r] = "waiting"
    /\ joined[r] \in flightDone /\ flightResult[joined[r]] = "value"
    /\ Answer(r, "value", got[joined[r]])
    /\ UNCHANGED <<flightVars, adminVars, closeVars, cacheVars, generation, slotVars, loadGeneration, got,
                   joined, floor>>

\* waitForAPIKeyResolveFlight: the flight's result, for its leader as for followers.
FlightAnswers(r) ==
    /\ pc[r] = "waiting"
    /\ joined[r] \in flightDone
    /\ Answer(r, flightResult[joined[r]], got[joined[r]])
    /\ UNCHANGED <<flightVars, adminVars, closeVars, cacheVars, generation, slotVars, loadGeneration, got,
                   joined, floor>>

\* The waiting request's own context ends first.
WaitCancelled(r) ==
    /\ pc[r] = "waiting"
    /\ Answer(r, "cancelled", 0)
    /\ UNCHANGED <<flightVars, adminVars, closeVars, cacheVars, generation, slotVars, loadGeneration, got,
                   joined, floor>>

-----------------------------------------------------------------------------
(* Administrators, the cleanup loop and Close.                             *)

\* The panel commits a change of keys, users or tiers.
AdminWrite(a) ==
    /\ admin[a] = "idle"
    /\ version' = version + 1
    /\ target' = [target EXCEPT ![a] = version + 1]
    /\ admin' = [admin EXCEPT ![a] = "written"]
    /\ UNCHANGED <<requestVars, flightVars, closeVars, cacheVars, generation, slotVars, toClear, settled>>

\* InvalidateAll begins a new generation.
InvalidateBegin(a) ==
    /\ admin[a] = "written"
    /\ generation' = generation + 1
    /\ toClear' = [toClear EXCEPT ![a] = Shards]
    /\ admin' = [admin EXCEPT ![a] = "clearing"]
    /\ UNCHANGED <<requestVars, flightVars, closeVars, cacheVars, slotVars, version, target, settled>>

\* InvalidateAll clears one shard under its lock.
InvalidateShard(a, s) ==
    /\ admin[a] = "clearing" /\ s \in toClear[a]
    /\ cached' = [h \in Hashes |-> IF ShardOf[h] = s THEN None ELSE cached[h]]
    /\ recency' = [recency EXCEPT ![s] = <<>>]
    /\ toClear' = [toClear EXCEPT ![a] = @ \ {s}]
    /\ UNCHANGED <<requestVars, flightVars, closeVars, generation, slotVars, version, admin, target, settled>>

InvalidateReturns(a) ==
    /\ admin[a] = "clearing" /\ toClear[a] = {}
    /\ admin' = [admin EXCEPT ![a] = "finished"]
    /\ settled' = IF target[a] > settled THEN target[a] ELSE settled
    /\ UNCHANGED <<requestVars, flightVars, closeVars, cacheVars, generation, slotVars, version, target,
                   toClear>>

\* removeExpiredEntries removes an entry.  Entries expire at moments of their own, so what is
\* left after each removal of a pass is also what a whole pass leaves that found only the
\* entries removed so far expired.
RemoveExpired(h) ==
    /\ cached[h] # None
    /\ RemoveEntry(h)
    /\ UNCHANGED <<requestVars, flightVars, adminVars, closeVars, generation, slotVars>>

CloseBegin ==
    /\ closer = "open"
    /\ closer' = "closed"
    /\ generation' = generation + 1
    /\ UNCHANGED <<requestVars, flightVars, adminVars, cacheVars, draining, slotVars>>

\* The flights in the map, copied under flightMu.
CloseCollect ==
    /\ closer = "closed"
    /\ closer' = "draining"
    /\ draining' = {inFlight[h] : h \in Hashes} \ {None}
    /\ UNCHANGED <<requestVars, flightVars, adminVars, cacheVars, generation, slotVars>>

CloseComplete(f) ==
    /\ closer = "draining" /\ f \in draining \ flightDone
    /\ CompleteFlight(f, "closed")
    /\ UNCHANGED <<requestVars, inFlight, adminVars, closeVars, cacheVars, generation, slotVars>>

CloseRemove(f) ==
    /\ closer = "draining" /\ f \in draining \intersect flightDone
    /\ RemoveFlight(f)
    /\ draining' = draining \ {f}
    /\ UNCHANGED <<requestVars, flightDone, flightResult, adminVars, closer, cacheVars, generation, slotVars>>

CloseReturns ==
    /\ closer = "draining" /\ draining = {}
    /\ closer' = "returned"
    /\ UNCHANGED <<requestVars, flightVars, adminVars, cacheVars, draining, generation, slotVars>>

-----------------------------------------------------------------------------

\* The steps a request takes by itself.
ResolveStep(r) ==
    \/ Begin(r)
    \/ JoinOrLead(r)
    \/ AdmitLoad(r)
    \/ \E how \in {"saturated", "cancelled"} : RefuseLoad(r, how)
    \/ LoadRead(r)
    \/ \E how \in {"value", "error", "panic"} : LoadEnds(r, how)
    \/ Store(r)
    \/ Complete(r)
    \/ LeaderRemoves(r)
    \/ FlightAnswers(r)

CloseStep ==
    \/ CloseBegin
    \/ CloseCollect
    \/ \E f \in Requests : CloseComplete(f) \/ CloseRemove(f)
    \/ CloseReturns

AuthNext ==
    \/ \E r \in Requests : ResolveStep(r) \/ WaitCancelled(r)
    \/ \E a \in Admins : AdminWrite(a) \/ InvalidateBegin(a) \/ InvalidateReturns(a)
    \/ \E a \in Admins, s \in Shards : InvalidateShard(a, s)
    \/ \E h \in Hashes : RemoveExpired(h)
    \/ CloseStep

AuthSpec == AuthInit /\ [][AuthNext]_authVars

\* A Resolve that has begun goes on when it can, and a load ends because its queries do.
AuthFairSpec == AuthSpec /\ \A r \in Requests : WF_authVars(pc[r] # "new" /\ ResolveStep(r))

-----------------------------------------------------------------------------
(* Properties.                                                             *)

\* The cache, the flights and the requests keep their types; a request has one outcome.
AuthTypeOK ==
    /\ version \in Nat /\ settled \in Nat /\ generation \in Nat
    /\ cached \in [Hashes -> Nat \union {None}]
    /\ recency \in [Shards -> Seq(Hashes)]
    /\ inFlight \in [Hashes -> Requests \union {None}]
    /\ flightDone \in SUBSET Requests
    /\ flightResult \in [Requests -> {"none", "value", "error", "panic", "closed", "saturated", "cancelled"}]
    /\ missMaxConcurrent \in Nat /\ loading \in SUBSET Requests
    /\ pc \in [Requests -> {"new", "missed", "leading", "admitted", "reading", "storing", "completing",
                            "removing", "waiting", "answered"}]
    /\ loadGeneration \in [Requests -> Nat]
    /\ got \in [Requests -> Nat]
    /\ joined \in [Requests -> Requests \union {None}]
    /\ result \in [Requests -> {"none", "value", "error", "panic", "closed", "saturated", "cancelled"}]
    /\ answer \in [Requests -> Nat]
    /\ admin \in [Admins -> {"idle", "written", "clearing", "finished"}]
    /\ target \in [Admins -> Nat]
    /\ toClear \in [Admins -> SUBSET Shards]
    /\ closer \in {"open", "closed", "draining", "returned"}
    /\ draining \in SUBSET Requests
    /\ floor \in [Requests -> Nat]

\* Once InvalidateAll has returned, the cache holds nothing read before the change it
\* was called for, however loads, evictions and other invalidations interleave.
CacheNotStale ==
    \A h \in Hashes : cached[h] # None => cached[h] >= settled

\* A request is answered with data no older than the invalidations finished when it
\* began; one that joined a flight, than those finished when the flight's leader began,
\* and it only joins a flight whose leader has not returned yet.
AnswersFresh ==
    [][\A r \in Requests :
           /\ pc[r] # "answered" /\ pc'[r] = "answered" /\ result'[r] = "value" =>
                  answer'[r] >= IF joined[r] = None THEN floor'[r] ELSE floor[joined[r]]
           /\ joined[r] = None /\ joined'[r] \notin {None, r} =>
                  pc[joined'[r]] # "answered"]_authVars

\* Each shard's map and list agree, within the capacity.
ShardsConsistent ==
    \A s \in Shards :
        /\ Len(recency[s]) <= ShardCapacity
        /\ IsInjective(recency[s])
        /\ ToSet(recency[s]) = {h \in Hashes : ShardOf[h] = s /\ cached[h] # None}

\* A hash is loaded by one request at a time, and missAdmission counts the loads.
OneLoadPerHash ==
    /\ loading = {r \in Requests : pc[r] \in {"admitted", "reading"}}
    /\ \A r, q \in loading : HashOf[r] = HashOf[q] => r = q

\* When Close has returned no flight is left in the map or open, so no follower waits.
CloseLeavesNoFlight ==
    closer = "returned" =>
        /\ \A h \in Hashes : inFlight[h] = None
        /\ \A r \in Requests : pc[r] = "waiting" => joined[r] \in flightDone

\* The resolver at every step: nothing stale is cached, shards and their lists agree within the
\* capacity, loads are counted and never doubled, Close strands nobody.
AuthInv ==
    /\ AuthTypeOK
    /\ CacheNotStale
    /\ ShardsConsistent
    /\ OneLoadPerHash
    /\ CloseLeavesNoFlight

\* Every Resolve returns, whether its flight ends with a value, an error, a panic of
\* the leader or Close: again and again all that have begun are through.
EveryResolveReturns ==
    []<>(\A r \in Requests : pc[r] \in {"new", "answered"})

=============================================================================
