---------------------------- MODULE McpRequestProofs ----------------------------
(***************************************************************************)
(* Proofs about McpRequest and the two components it composes, for any     *)
(* number of requests and users, any limits and any months: first the      *)
(* search limiter alone, then the quota alone, then the chain, then the    *)
(* chain around a search (SearchCall), then the search itself (GrokSearch) *)
(* for any upstream, its limits and that it implements SearchPromise, at   *)
(* the end the recorder of responses (CallRecorder), for any response cut  *)
(* into any writes.                                                        *)
(*                                                                         *)
(* Every step of the chain is, for the limiter and for the quota, a step   *)
(* they take alone or none, so their invariants hold in the chain.         *)
(***************************************************************************)
EXTENDS SearchCall, CallRecorder, FiniteSetTheorems, FunctionTheorems, SequenceTheorems,
        WellFoundedInduction, NaturalsInduction, TLAPS

-----------------------------------------------------------------------------
(* SearchConcurrencyLimiter.                                               *)
(*                                                                         *)
(* CountersAreLeases is not inductive alone: a release through a stale     *)
(* pointer, or a fresh entry that is already somebody else's, would break  *)
(* it.  The invariant adds that leases point to the entries in the map and *)
(* that an entry is named by a request of the user who has it.             *)

\* Sets of leases are finite, and their sizes are natural numbers.
LEMMA LeasesFinite ==
    ASSUME NEW u
    PROVE  /\ IsFiniteSet(Leases) /\ Cardinality(Leases) \in Nat
           /\ IsFiniteSet(LeasesOf(u)) /\ Cardinality(LeasesOf(u)) \in Nat
<1>1. Leases \in SUBSET Requests /\ LeasesOf(u) \in SUBSET Requests
  BY DEF Leases, LeasesOf
<1>2. IsFiniteSet(Leases) /\ IsFiniteSet(LeasesOf(u))
  BY <1>1, FS_Subset, LimiterAssumption
<1> QED
  BY <1>2, FS_CardinalityType

\* A granted lease adds its request to the leases of its user and to no others.
LEMMA GrantLeases ==
    ASSUME LimiterTypeOK, NEW r \in Requests, lease[r] = "none",
           lease' = [lease EXCEPT ![r] = "held"]
    PROVE  /\ Leases' = Leases \union {r}
           /\ Cardinality(Leases') = Cardinality(Leases) + 1
           /\ \A u \in Users : IF u = UserOf[r]
                 THEN Cardinality(LeasesOf(u)') = Cardinality(LeasesOf(u)) + 1
                 ELSE LeasesOf(u)' = LeasesOf(u)
<1>1. Leases' = Leases \union {r} /\ r \notin Leases
  BY DEF LimiterTypeOK, Leases
<1>2. Cardinality(Leases') = Cardinality(Leases) + 1
  BY <1>1, FS_AddElement, LeasesFinite
<1>3. ASSUME NEW u \in Users, u # UserOf[r]
      PROVE  LeasesOf(u)' = LeasesOf(u)
  BY <1>1, <1>3 DEF LeasesOf
<1>4. LeasesOf(UserOf[r])' = LeasesOf(UserOf[r]) \union {r} /\ r \notin LeasesOf(UserOf[r])
  BY <1>1 DEF LeasesOf
<1>5. Cardinality(LeasesOf(UserOf[r])') = Cardinality(LeasesOf(UserOf[r])) + 1
  BY <1>4, FS_AddElement, LeasesFinite
<1> QED
  BY <1>1, <1>2, <1>3, <1>5

\* A released lease leaves the leases of its user and no others.
LEMMA ReleaseLeases ==
    ASSUME LimiterTypeOK, NEW r \in Requests, lease[r] = "held",
           lease' = [lease EXCEPT ![r] = "released"]
    PROVE  /\ Leases' = Leases \ {r}
           /\ Cardinality(Leases') = Cardinality(Leases) - 1
           /\ Cardinality(Leases) > 0
           /\ Cardinality(LeasesOf(UserOf[r])) > 0
           /\ \A u \in Users : IF u = UserOf[r]
                 THEN Cardinality(LeasesOf(u)') = Cardinality(LeasesOf(u)) - 1
                 ELSE LeasesOf(u)' = LeasesOf(u)
<1>1. Leases' = Leases \ {r} /\ r \in Leases
  BY DEF LimiterTypeOK, Leases
<1>2. Cardinality(Leases') = Cardinality(Leases) - 1 /\ Cardinality(Leases) > 0
  <2>1. Cardinality(Leases') = Cardinality(Leases) - 1
    BY <1>1, FS_RemoveElement, LeasesFinite
  <2>2. Cardinality(Leases) # 0
    BY <1>1, FS_EmptySet, LeasesFinite
  <2> QED
    BY <2>1, <2>2, LeasesFinite
<1>3. ASSUME NEW u \in Users, u # UserOf[r]
      PROVE  LeasesOf(u)' = LeasesOf(u)
  BY <1>1, <1>3 DEF LeasesOf
<1>4. LeasesOf(UserOf[r])' = LeasesOf(UserOf[r]) \ {r} /\ r \in LeasesOf(UserOf[r])
  BY <1>1 DEF LeasesOf
<1>5. /\ Cardinality(LeasesOf(UserOf[r])') = Cardinality(LeasesOf(UserOf[r])) - 1
      /\ Cardinality(LeasesOf(UserOf[r])) > 0
  <2>1. Cardinality(LeasesOf(UserOf[r])') = Cardinality(LeasesOf(UserOf[r])) - 1
    BY <1>4, FS_RemoveElement, LeasesFinite
  <2>2. Cardinality(LeasesOf(UserOf[r])) # 0
    BY <1>4, FS_EmptySet, LeasesFinite
  <2> QED
    BY <2>1, <2>2, LeasesFinite
<1> QED
  BY <1>1, <1>2, <1>3, <1>5

\* A step that grants and releases nothing leaves the sets of leases alone.
LEMMA OtherLeases ==
    ASSUME LimiterTypeOK,
           \/ UNCHANGED lease
           \/ \E r \in Requests : lease[r] = "none" /\ lease' = [lease EXCEPT ![r] = "refused"]
    PROVE  Leases' = Leases /\ \A u : LeasesOf(u)' = LeasesOf(u)
<1>1. Leases' = Leases
  BY DEF LimiterTypeOK, Leases
<1> QED
  BY <1>1 DEF LeasesOf

-----------------------------------------------------------------------------

LEMMA LimiterInitInv == LimiterInit => LimiterInv
<1> SUFFICES ASSUME LimiterInit PROVE LimiterInv
  OBVIOUS
<1>1. Leases = {} /\ \A u : LeasesOf(u) = {}
  BY DEF LimiterInit, Leases, LeasesOf
<1>2. Cardinality(Leases) = 0
  BY <1>1, FS_EmptySet
<1>3. LimiterTypeOK
  BY LimiterAssumption DEF LimiterInit, LimiterTypeOK
<1>4. CountersAreLeases
  BY <1>1, <1>2 DEF LimiterInit, CountersAreLeases
<1>5. LeasePointsToEntry /\ EntryOwner
  BY <1>1 DEF LimiterInit, LeasePointsToEntry, EntryOwner
<1> QED
  BY <1>3, <1>4, <1>5 DEF LimiterInv

\* What tryAcquire reads: the count of the entry it will use is the number of the
\* user's searches in flight, whether the entry exists or is about to.
LEMMA ActiveForIsLeases ==
    ASSUME LimiterInv, NEW r \in Requests
    PROVE  /\ EntryFor(r) \in Requests
           /\ UserOf[EntryFor(r)] = UserOf[r]
           /\ ActiveFor(r) = Cardinality(LeasesOf(UserOf[r]))
           /\ entries[UserOf[r]] = NoEntry => LeasesOf(UserOf[r]) = {}
<1>1. UserOf[r] \in Users
  BY LimiterAssumption
<1>2. CASE entries[UserOf[r]] = NoEntry
  BY <1>1, <1>2, FS_EmptySet DEF LimiterInv, CountersAreLeases, EntryFor, ActiveFor
<1>3. CASE entries[UserOf[r]] # NoEntry
  BY <1>1, <1>3 DEF LimiterInv, LimiterTypeOK, CountersAreLeases, EntryOwner, EntryFor, ActiveFor
<1> QED
  BY <1>2, <1>3

LEMMA GrantInv ==
    ASSUME LimiterInv, NEW r \in Requests, Grant(r)
    PROVE  LimiterInv'
<1>1. LimiterTypeOK /\ CountersAreLeases /\ LeasePointsToEntry /\ EntryOwner
  BY DEF LimiterInv
<1>2. /\ EntryFor(r) \in Requests
      /\ UserOf[EntryFor(r)] = UserOf[r]
      /\ ActiveFor(r) = Cardinality(LeasesOf(UserOf[r]))
      /\ entries[UserOf[r]] = NoEntry => LeasesOf(UserOf[r]) = {}
  BY ActiveForIsLeases
<1>3. /\ Leases' = Leases \union {r}
      /\ Cardinality(Leases') = Cardinality(Leases) + 1
      /\ \A u \in Users : IF u = UserOf[r]
            THEN Cardinality(LeasesOf(u)') = Cardinality(LeasesOf(u)) + 1
            ELSE LeasesOf(u)' = LeasesOf(u)
  BY <1>1, GrantLeases DEF Grant
<1>4. UserOf[r] \in Users /\ ActiveFor(r) \in Nat
  BY <1>2, LeasesFinite, LimiterAssumption
<1>5. LimiterTypeOK'
  BY <1>1, <1>2, <1>4 DEF LimiterTypeOK, Grant
<1>6. CountersAreLeases'
  <2>1. globalActive' = Cardinality(Leases')
    BY <1>1, <1>3 DEF CountersAreLeases, Grant
  <2>2. ASSUME NEW u \in Users
        PROVE  IF entries'[u] = NoEntry THEN LeasesOf(u)' = {}
               ELSE active'[entries'[u]] = Cardinality(LeasesOf(u)')
    <3>1. CASE u = UserOf[r]
      <4>1. entries'[u] = EntryFor(r) /\ entries'[u] # NoEntry
        BY <1>1, <1>2, <1>4, <3>1, LimiterAssumption DEF Grant, LimiterTypeOK
      <4>2. active'[EntryFor(r)] = ActiveFor(r) + 1
        BY <1>1, <1>2 DEF Grant, LimiterTypeOK
      <4> QED
        BY <1>2, <1>3, <3>1, <4>1, <4>2
    <3>2. CASE u # UserOf[r]
      <4>1. entries'[u] = entries[u]
        BY <1>1, <3>2 DEF Grant, LimiterTypeOK
      <4>2. LeasesOf(u)' = LeasesOf(u)
        BY <1>3, <3>2
      <4>3. entries[u] # NoEntry => entries[u] \in Requests /\ entries[u] # EntryFor(r)
        BY <1>1, <1>2, <3>2 DEF EntryOwner, LimiterTypeOK
      <4>4. entries[u] # NoEntry => active'[entries[u]] = active[entries[u]]
        BY <1>1, <4>3 DEF Grant, LimiterTypeOK
      <4> QED
        BY <1>1, <4>1, <4>2, <4>4 DEF CountersAreLeases
    <3> QED
      BY <3>1, <3>2
  <2> QED
    BY <2>1, <2>2 DEF CountersAreLeases
<1>7. LeasePointsToEntry'
  <2> SUFFICES ASSUME NEW q \in Leases'
               PROVE  leaseEntry'[q] = entries'[UserOf[q]]
    BY DEF LeasePointsToEntry
  <2>1. q \in Requests /\ UserOf[q] \in Users
    BY LimiterAssumption DEF Leases
  <2>2. CASE q = r
    BY <1>1, <1>4, <2>2 DEF Grant, LimiterTypeOK
  <2>3. CASE q # r
    <3>1. q \in Leases /\ leaseEntry'[q] = leaseEntry[q]
      BY <1>1, <1>3, <2>1, <2>3 DEF Grant, LimiterTypeOK
    <3>2. leaseEntry[q] = entries[UserOf[q]]
      BY <1>1, <3>1 DEF LeasePointsToEntry
    <3>3. UserOf[q] = UserOf[r] => entries[UserOf[r]] # NoEntry
      BY <1>2, <3>1 DEF LeasesOf
    <3>4. entries'[UserOf[q]] = entries[UserOf[q]]
      BY <1>1, <1>4, <2>1, <3>3 DEF Grant, LimiterTypeOK, EntryFor
    <3> QED
      BY <3>1, <3>2, <3>4
  <2> QED
    BY <2>2, <2>3
<1>8. EntryOwner'
  BY <1>1, <1>2, <1>4 DEF EntryOwner, Grant, LimiterTypeOK
<1> QED
  BY <1>5, <1>6, <1>7, <1>8 DEF LimiterInv

LEMMA ReleaseInv ==
    ASSUME LimiterInv, NEW r \in Requests, Release(r)
    PROVE  LimiterInv'
<1>1. LimiterTypeOK /\ CountersAreLeases /\ LeasePointsToEntry /\ EntryOwner
  BY DEF LimiterInv
<1>2. /\ Leases' = Leases \ {r}
      /\ Cardinality(Leases') = Cardinality(Leases) - 1
      /\ Cardinality(Leases) > 0
      /\ Cardinality(LeasesOf(UserOf[r])) > 0
      /\ \A u \in Users : IF u = UserOf[r]
            THEN Cardinality(LeasesOf(u)') = Cardinality(LeasesOf(u)) - 1
            ELSE LeasesOf(u)' = LeasesOf(u)
  BY <1>1, ReleaseLeases DEF Release
<1>3. r \in Leases /\ UserOf[r] \in Users /\ r \in LeasesOf(UserOf[r])
  BY LimiterAssumption DEF Release, Leases, LeasesOf
<1>4. /\ leaseEntry[r] = entries[UserOf[r]] /\ entries[UserOf[r]] # NoEntry
      /\ entries[UserOf[r]] \in Requests
      /\ active[leaseEntry[r]] = Cardinality(LeasesOf(UserOf[r]))
  BY <1>1, <1>3 DEF LeasePointsToEntry, CountersAreLeases, LimiterTypeOK
<1>5. /\ globalActive = Cardinality(Leases)
      /\ globalActive' = Cardinality(Leases) - 1
      /\ active'[leaseEntry[r]] = Cardinality(LeasesOf(UserOf[r])) - 1
  BY <1>1, <1>4 DEF CountersAreLeases, Release, LimiterTypeOK
<1>6. LimiterTypeOK'
  <2>1. globalActive' \in Nat
    BY <1>2, <1>5, LeasesFinite
  <2>2. active[leaseEntry[r]] - 1 \in Nat
    BY <1>2, <1>4, LeasesFinite
  <2> QED
    BY <1>1, <1>4, <2>1, <2>2 DEF LimiterTypeOK, Release
<1>7. CountersAreLeases'
  <2>1. ASSUME NEW u \in Users
        PROVE  IF entries'[u] = NoEntry THEN LeasesOf(u)' = {}
               ELSE active'[entries'[u]] = Cardinality(LeasesOf(u)')
    <3>1. CASE u = UserOf[r]
      BY <1>2, <1>4, <1>5, <3>1 DEF Release
    <3>2. CASE u # UserOf[r]
      <4>1. LeasesOf(u)' = LeasesOf(u) /\ entries' = entries
        BY <1>2, <3>2 DEF Release
      <4>2. entries[u] # NoEntry => entries[u] \in Requests /\ entries[u] # leaseEntry[r]
        BY <1>1, <1>3, <1>4, <3>2 DEF EntryOwner, LimiterTypeOK
      <4>3. entries[u] # NoEntry => active'[entries[u]] = active[entries[u]]
        BY <1>1, <4>2 DEF Release, LimiterTypeOK
      <4> QED
        BY <1>1, <4>1, <4>3 DEF CountersAreLeases
    <3> QED
      BY <3>1, <3>2
  <2> QED
    BY <1>2, <1>5, <2>1 DEF CountersAreLeases
<1>8. LeasePointsToEntry' /\ EntryOwner'
  BY <1>1, <1>2 DEF LeasePointsToEntry, EntryOwner, Release
<1> QED
  BY <1>6, <1>7, <1>8 DEF LimiterInv

LEMMA RefuseInv ==
    ASSUME LimiterInv, NEW r \in Requests, RefuseGlobal(r) \/ RefuseUser(r)
    PROVE  LimiterInv'
<1>1. LimiterTypeOK /\ CountersAreLeases /\ LeasePointsToEntry /\ EntryOwner
  BY DEF LimiterInv
<1>2. Leases' = Leases /\ \A u : LeasesOf(u)' = LeasesOf(u)
  BY <1>1, OtherLeases DEF RefuseGlobal, RefuseUser
<1>3. CASE RefuseGlobal(r)
  BY <1>1, <1>2, <1>3 DEF RefuseGlobal, LimiterInv, LimiterTypeOK, CountersAreLeases,
                          LeasePointsToEntry, EntryOwner
<1>4. CASE RefuseUser(r)
  <2>1. /\ EntryFor(r) \in Requests
        /\ UserOf[EntryFor(r)] = UserOf[r]
        /\ ActiveFor(r) = Cardinality(LeasesOf(UserOf[r]))
        /\ entries[UserOf[r]] = NoEntry => LeasesOf(UserOf[r]) = {}
    BY ActiveForIsLeases
  <2>2. UserOf[r] \in Users /\ ActiveFor(r) \in Nat
    BY <2>1, LeasesFinite, LimiterAssumption
  <2>3. LimiterTypeOK'
    BY <1>1, <1>4, <2>1, <2>2 DEF LimiterTypeOK, RefuseUser
  <2>4. ASSUME NEW u \in Users
        PROVE  IF entries'[u] = NoEntry THEN LeasesOf(u) = {}
               ELSE active'[entries'[u]] = Cardinality(LeasesOf(u))
    <3>1. CASE u = UserOf[r]
      BY <1>1, <1>4, <2>1, <2>2, <3>1, LimiterAssumption DEF RefuseUser, LimiterTypeOK
    <3>2. CASE u # UserOf[r]
      <4>1. entries'[u] = entries[u]
        BY <1>1, <1>4, <3>2 DEF RefuseUser, LimiterTypeOK
      <4>2. entries[u] # NoEntry => entries[u] \in Requests /\ entries[u] # EntryFor(r)
        BY <1>1, <2>1, <3>2 DEF EntryOwner, LimiterTypeOK
      <4>3. entries[u] # NoEntry => active'[entries[u]] = active[entries[u]]
        BY <1>1, <1>4, <4>2 DEF RefuseUser, LimiterTypeOK
      <4> QED
        BY <1>1, <4>1, <4>3 DEF CountersAreLeases
    <3> QED
      BY <3>1, <3>2
  <2>5. CountersAreLeases'
    BY <1>1, <1>2, <1>4, <2>4 DEF CountersAreLeases, RefuseUser
  <2>6. LeasePointsToEntry'
    <3> SUFFICES ASSUME NEW q \in Leases
                 PROVE  leaseEntry'[q] = entries'[UserOf[q]]
      BY <1>2 DEF LeasePointsToEntry
    <3>1. q \in Requests /\ UserOf[q] \in Users /\ leaseEntry[q] = entries[UserOf[q]]
      BY <1>1, LimiterAssumption DEF Leases, LeasePointsToEntry
    <3>2. UserOf[q] = UserOf[r] => entries[UserOf[r]] # NoEntry
      BY <2>1 DEF LeasesOf
    <3> QED
      BY <1>1, <1>4, <2>2, <3>1, <3>2 DEF RefuseUser, LimiterTypeOK, EntryFor
  <2>7. EntryOwner'
    BY <1>1, <1>4, <2>1, <2>2 DEF EntryOwner, RefuseUser, LimiterTypeOK
  <2> QED
    BY <2>3, <2>5, <2>6, <2>7 DEF LimiterInv
<1> QED
  BY <1>3, <1>4

LEMMA CleanupInv ==
    ASSUME LimiterInv, NEW expired \in SUBSET Users, CleanupIdleEntries(expired)
    PROVE  LimiterInv'
<1>1. LimiterTypeOK /\ CountersAreLeases /\ LeasePointsToEntry /\ EntryOwner
  BY DEF LimiterInv
<1>2. Leases' = Leases /\ \A u : LeasesOf(u)' = LeasesOf(u)
  BY <1>1, OtherLeases DEF CleanupIdleEntries
<1>3. \A u \in Users : \/ entries'[u] = entries[u]
                       \/ entries'[u] = NoEntry /\ Idle(u)
  BY <1>1 DEF CleanupIdleEntries, LimiterTypeOK
<1>4. \A u \in Users : Idle(u) => LeasesOf(u) = {}
  BY <1>1, FS_EmptySet, LeasesFinite DEF CountersAreLeases, Idle
<1>5. LimiterTypeOK'
  BY <1>1 DEF LimiterTypeOK, CleanupIdleEntries
<1>6. CountersAreLeases'
  BY <1>1, <1>2, <1>3, <1>4 DEF CountersAreLeases, CleanupIdleEntries
<1>7. LeasePointsToEntry'
  <2> SUFFICES ASSUME NEW q \in Leases
               PROVE  leaseEntry'[q] = entries'[UserOf[q]]
    BY <1>2 DEF LeasePointsToEntry
  <2>1. q \in LeasesOf(UserOf[q]) /\ UserOf[q] \in Users
    BY LimiterAssumption DEF LeasesOf, Leases
  <2>2. entries'[UserOf[q]] = entries[UserOf[q]]
    BY <1>3, <1>4, <2>1
  <2> QED
    BY <1>1, <2>2 DEF LeasePointsToEntry, CleanupIdleEntries
<1>8. EntryOwner'
  BY <1>1, <1>3 DEF EntryOwner
<1> QED
  BY <1>5, <1>6, <1>7, <1>8 DEF LimiterInv

LEMMA LimiterStepInv == LimiterInv /\ [LimiterNext]_limiterVars => LimiterInv'
<1> SUFFICES ASSUME LimiterInv, [LimiterNext]_limiterVars
             PROVE  LimiterInv'
  OBVIOUS
<1>1. LimiterTypeOK /\ CountersAreLeases /\ LeasePointsToEntry /\ EntryOwner
  BY DEF LimiterInv
<1>2. ASSUME NEW r \in Requests, TryAcquire(r)
      PROVE  LimiterInv'
  BY <1>2, GrantInv, RefuseInv DEF TryAcquire
<1>3. ASSUME NEW r \in Requests, Release(r)
      PROVE  LimiterInv'
  BY <1>3, ReleaseInv
<1>4. ASSUME NEW global \in ConcurrencyLimits, NEW perUser \in ConcurrencyLimits, UpdateLimits(global, perUser)
      PROVE  LimiterInv'
  <2>1. Leases' = Leases /\ \A u : LeasesOf(u)' = LeasesOf(u)
    BY <1>1, <1>4, OtherLeases DEF UpdateLimits
  <2> QED
    BY <1>1, <1>4, <2>1, LimiterAssumption
       DEF UpdateLimits, LimiterInv, LimiterTypeOK, CountersAreLeases, LeasePointsToEntry, EntryOwner
<1>5. ASSUME NEW expired \in SUBSET Users, CleanupIdleEntries(expired)
      PROVE  LimiterInv'
  BY <1>5, CleanupInv
<1>6. CASE UNCHANGED limiterVars
  <2>1. Leases' = Leases /\ \A u : LeasesOf(u)' = LeasesOf(u)
    BY <1>1, <1>6, OtherLeases DEF limiterVars
  <2> QED
    BY <1>1, <1>6, <2>1
       DEF limiterVars, LimiterInv, LimiterTypeOK, CountersAreLeases, LeasePointsToEntry, EntryOwner
<1> QED
  BY <1>2, <1>3, <1>4, <1>5, <1>6 DEF LimiterNext

\* In every reachable state the global count and each user's count equal the number
\* of leases that tryAcquire granted and nobody released, never fall below zero, and
\* cleanupIdleEntries has dropped no entry a running search will give back to.
THEOREM LimiterInvariant == LimiterSpec => []LimiterInv
BY LimiterInitInv, LimiterStepInv, PTL DEF LimiterSpec

-----------------------------------------------------------------------------

\* A search that a step admits is a granted one: both counts it read were the leases.
LEMMA LimiterAdmits == LimiterInv /\ LimiterNext => AdmitsWithinLimits
<1> SUFFICES ASSUME LimiterInv, LimiterNext,
                    NEW r \in Requests, lease[r] # "held", lease'[r] = "held"
             PROVE  /\ Cardinality(Leases') <= globalLimit
                    /\ Cardinality(LeasesOf(UserOf[r])') <= perUserLimit
  BY DEF AdmitsWithinLimits
<1>1. LimiterTypeOK /\ CountersAreLeases
  BY DEF LimiterInv
<1>2. Grant(r)
  BY <1>1 DEF LimiterNext, TryAcquire, RefuseGlobal, RefuseUser, Grant, Release, UpdateLimits,
              CleanupIdleEntries, LimiterTypeOK
<1>3. /\ Cardinality(Leases') = Cardinality(Leases) + 1
      /\ Cardinality(LeasesOf(UserOf[r])') = Cardinality(LeasesOf(UserOf[r])) + 1
  BY <1>1, <1>2, GrantLeases, LimiterAssumption DEF Grant
<1>4. Cardinality(Leases) < globalLimit
  BY <1>1, <1>2 DEF Grant, GlobalFull, CountersAreLeases, LimiterTypeOK
<1>5. Cardinality(LeasesOf(UserOf[r])) < perUserLimit
  BY <1>2, ActiveForIsLeases DEF Grant
<1> QED
  BY <1>1, <1>3, <1>4, <1>5, LeasesFinite DEF LimiterTypeOK

\* A search that a step refuses met a count that was full.
LEMMA LimiterRefuses == LimiterInv /\ LimiterNext => RefusesOnlyWhenFull
<1> SUFFICES ASSUME LimiterInv, LimiterNext,
                    NEW r \in Requests, lease[r] # "refused", lease'[r] = "refused"
             PROVE  \/ Cardinality(Leases) >= globalLimit
                    \/ Cardinality(LeasesOf(UserOf[r])) >= perUserLimit
  BY DEF RefusesOnlyWhenFull
<1>1. LimiterTypeOK /\ CountersAreLeases
  BY DEF LimiterInv
<1>2. RefuseGlobal(r) \/ RefuseUser(r)
  BY <1>1 DEF LimiterNext, TryAcquire, RefuseGlobal, RefuseUser, Grant, Release, UpdateLimits,
              CleanupIdleEntries, LimiterTypeOK
<1>3. CASE RefuseGlobal(r)
  BY <1>1, <1>3 DEF RefuseGlobal, GlobalFull, CountersAreLeases
<1>4. CASE RefuseUser(r)
  BY <1>4, ActiveForIsLeases DEF RefuseUser
<1> QED
  BY <1>2, <1>3, <1>4

\* tryAcquire never leaves more searches in flight than the limits in force, and
\* refuses a search only when the searches really in flight reach one of them.
THEOREM LimiterDecidesByLeases == LimiterSpec => LimiterDecides
<1>1. LimiterInv /\ [LimiterNext]_limiterVars
      => [AdmitsWithinLimits /\ RefusesOnlyWhenFull]_limiterVars
  BY LimiterAdmits, LimiterRefuses
<1> QED
  BY <1>1, LimiterInitInv, LimiterStepInv, PTL DEF LimiterSpec, LimiterDecides

-----------------------------------------------------------------------------
(* SuccessQuota.                                                           *)
(*                                                                         *)
(* CountExact is not inductive alone.  When the month moves on, the count  *)
(* restarts at one, which is right only if no charged call of the new      *)
(* month exists yet (MonthsOrdered).  A rollback subtracts one, which is   *)
(* right only if the deleted row stands for a call that is still counted   *)
(* (RowsAreCharges).                                                       *)

\* The calls charged in a month are finitely many.
LEMMA ChargedFinite ==
    ASSUME NEW u, NEW p
    PROVE  IsFiniteSet(Charged(u, p)) /\ Cardinality(Charged(u, p)) \in Nat
<1>1. Charged(u, p) \in SUBSET Requests
  BY DEF Charged
<1>2. IsFiniteSet(Charged(u, p))
  BY <1>1, FS_Subset, QuotaAssumption
<1> QED
  BY <1>2, FS_CardinalityType

\* A granted reservation charges its user in its month, and nobody else.
LEMMA GrantCharged ==
    ASSUME QuotaTypeOK, NEW r \in Requests, quota[r] = "waiting",
           quota' = [quota EXCEPT ![r] = "reserved"], UNCHANGED reqPeriod,
           NEW u \in Users, NEW p \in Nat
    PROVE  IF u = UserOf[r] /\ p = reqPeriod[r]
           THEN Cardinality(Charged(u, p)') = Cardinality(Charged(u, p)) + 1
           ELSE Charged(u, p)' = Charged(u, p)
<1>1. CASE u = UserOf[r] /\ p = reqPeriod[r]
  <2>1. Charged(u, p)' = Charged(u, p) \union {r} /\ r \notin Charged(u, p)
    BY <1>1 DEF Charged, QuotaTypeOK
  <2>2. Cardinality(Charged(u, p)') = Cardinality(Charged(u, p)) + 1
    BY <2>1, ChargedFinite, FS_AddElement
  <2> QED
    BY <1>1, <2>2
<1>2. CASE ~(u = UserOf[r] /\ p = reqPeriod[r])
  <2>1. Charged(u, p)' = Charged(u, p)
    BY <1>2 DEF Charged, QuotaTypeOK
  <2> QED
    BY <1>2, <2>1
<1> QED
  BY <1>1, <1>2

\* A rollback takes a call that was charged out of its user's month, and no other.
LEMMA RollbackCharged ==
    ASSUME QuotaTypeOK, NEW r \in Requests, quota[r] = "reserved",
           quota' = [quota EXCEPT ![r] = "rolledBack"], UNCHANGED reqPeriod,
           NEW u \in Users, NEW p \in Nat
    PROVE  IF u = UserOf[r] /\ p = reqPeriod[r]
           THEN /\ Cardinality(Charged(u, p)') = Cardinality(Charged(u, p)) - 1
                /\ Cardinality(Charged(u, p)) > 0
           ELSE Charged(u, p)' = Charged(u, p)
<1>1. CASE u = UserOf[r] /\ p = reqPeriod[r]
  <2>1. Charged(u, p)' = Charged(u, p) \ {r} /\ r \in Charged(u, p)
    BY <1>1 DEF Charged, QuotaTypeOK
  <2>2. Cardinality(Charged(u, p)') = Cardinality(Charged(u, p)) - 1
    BY <2>1, ChargedFinite, FS_RemoveElement
  <2>3. Cardinality(Charged(u, p)) # 0
    BY <2>1, ChargedFinite, FS_EmptySet
  <2>4. Cardinality(Charged(u, p)) > 0
    BY <2>3, ChargedFinite
  <2> QED
    BY <1>1, <2>2, <2>4
<1>2. CASE ~(u = UserOf[r] /\ p = reqPeriod[r])
  <2>1. Charged(u, p)' = Charged(u, p)
    BY <1>2 DEF Charged, QuotaTypeOK
  <2> QED
    BY <1>2, <2>1
<1> QED
  BY <1>1, <1>2

\* The parts of the invariant after a step, month by month.
LEMMA CountsAfterStep ==
    ASSUME \A u \in Users, p \in Nat :
               u \in exists' /\ p = successPeriod'[u] =>
                   /\ successCalls'[u] <= Cardinality(Charged(u, p)')
                   /\ u \notin regressed' => successCalls'[u] = Cardinality(Charged(u, p)'),
           QuotaTypeOK'
    PROVE  CountExact' /\ NeverOvercharged'
<1> SUFFICES ASSUME NEW u \in exists'
             PROVE  /\ successCalls'[u] <= Cardinality(Charged(u, successPeriod[u])')
                    /\ u \notin regressed' => successCalls'[u] = Cardinality(Charged(u, successPeriod[u])')
  BY DEF CountExact, NeverOvercharged
<1>1. u \in Users /\ successPeriod'[u] \in Nat
  BY DEF QuotaTypeOK
<1>2. PICK p \in Nat : p = successPeriod'[u]
  BY <1>1
<1>3. Charged(u, p)' = Charged(u, successPeriod[u])'
  BY <1>2 DEF Charged
<1> QED
  BY <1>1, <1>2, <1>3

-----------------------------------------------------------------------------

LEMMA QuotaInitInv == QuotaInit => QuotaInv
<1> SUFFICES ASSUME QuotaInit PROVE QuotaInv
  OBVIOUS
<1>1. QuotaTypeOK
  BY DEF QuotaInit, QuotaTypeOK, QuotaStates
<1>2. \A u, p : Charged(u, p) = {}
  BY DEF QuotaInit, Charged
<1>3. CountExact /\ NeverOvercharged
  BY <1>2, FS_EmptySet DEF QuotaInit, CountExact, NeverOvercharged
<1>4. RowsAreCharges /\ MonthsOrdered
  BY DEF QuotaInit, RowsAreCharges, MonthsOrdered
<1> QED
  BY <1>1, <1>3, <1>4 DEF QuotaInv

\* A reservation is granted: the count of its month goes up by one, or starts at one.
LEMMA ReserveGrantInv ==
    ASSUME QuotaInv, NEW r \in Requests, ReserveGrant(r)
    PROVE  QuotaInv'
<1> DEFINE v == UserOf[r]
<1>1. QuotaTypeOK /\ CountExact /\ NeverOvercharged /\ RowsAreCharges /\ MonthsOrdered
  BY DEF QuotaInv
<1>2. v \in Users /\ v \in exists /\ reqPeriod[r] \in Nat
  BY <1>1, QuotaAssumption DEF QuotaTypeOK, ReserveGrant
<1>3. QuotaTypeOK'
  BY <1>1, <1>2 DEF QuotaTypeOK, QuotaStates, ReserveGrant, CallsIn
<1>4. ASSUME NEW u \in Users, NEW p \in Nat, u \in exists', p = successPeriod'[u]
      PROVE  /\ successCalls'[u] <= Cardinality(Charged(u, p)')
             /\ u \notin regressed' => successCalls'[u] = Cardinality(Charged(u, p)')
  <2>1. CASE u # v
    <3>1. /\ u \in exists /\ p = successPeriod[u] /\ successCalls'[u] = successCalls[u]
          /\ u \notin regressed' => u \notin regressed
      BY <1>1, <1>4, <2>1 DEF ReserveGrant, QuotaTypeOK
    <3>2. Charged(u, p)' = Charged(u, p)
      BY <1>1, <2>1, GrantCharged DEF ReserveGrant
    <3>3. Charged(u, p) = Charged(u, successPeriod[u])
      BY <3>1
    <3> QED
      BY <1>1, <3>1, <3>2, <3>3 DEF CountExact, NeverOvercharged
  <2>2. CASE u = v
    <3>1. p = reqPeriod[r] /\ successCalls'[u] = CallsIn(v, p) + 1
      BY <1>1, <1>2, <1>4, <2>2 DEF ReserveGrant, QuotaTypeOK
    <3>2. Cardinality(Charged(u, p)') = Cardinality(Charged(u, p)) + 1
      BY <1>1, <2>2, <3>1, GrantCharged DEF ReserveGrant
    <3>3. Cardinality(Charged(u, p)) \in Nat
      BY ChargedFinite
    <3>4. CASE successPeriod[v] = p
      <4>1. CallsIn(v, p) = successCalls[u] /\ successCalls[u] \in Nat
        BY <1>1, <1>2, <2>2, <3>4 DEF CallsIn, QuotaTypeOK
      <4>2. Charged(u, p) = Charged(u, successPeriod[u])
        BY <2>2, <3>4
      <4>3. u \notin regressed' => u \notin regressed
        BY DEF ReserveGrant
      <4>4. /\ successCalls[u] <= Cardinality(Charged(u, p))
            /\ u \notin regressed => successCalls[u] = Cardinality(Charged(u, p))
        BY <1>1, <1>2, <2>2, <4>2 DEF CountExact, NeverOvercharged
      <4> QED
        BY <3>1, <3>2, <3>3, <4>1, <4>3, <4>4
    <3>5. CASE successPeriod[v] # p
      <4>1. CallsIn(v, p) = 0
        BY <3>5 DEF CallsIn
      <4>2. ASSUME u \notin regressed'
            PROVE  Cardinality(Charged(u, p)) = 0
        <5>1. u \notin regressed /\ ~(p < successPeriod[v])
          BY <1>2, <2>2, <3>1, <4>2 DEF ReserveGrant
        <5>2. successPeriod[v] < p
          BY <1>1, <1>2, <3>5, <5>1 DEF QuotaTypeOK
        <5>3. Charged(u, p) = {}
          BY <1>1, <1>2, <2>2, <5>1, <5>2 DEF Charged, MonthsOrdered, QuotaTypeOK
        <5> QED
          BY <5>3, FS_EmptySet
      <4> QED
        BY <3>1, <3>2, <3>3, <4>1, <4>2
    <3> QED
      BY <3>4, <3>5
  <2> QED
    BY <2>1, <2>2
<1>5. CountExact' /\ NeverOvercharged'
  BY <1>3, <1>4, CountsAfterStep
<1>6. RowsAreCharges'
  BY <1>1, <1>2 DEF RowsAreCharges, ReserveGrant, QuotaTypeOK
<1>7. MonthsOrdered'
  BY <1>1, <1>2, QuotaAssumption DEF MonthsOrdered, ReserveGrant, QuotaTypeOK
<1> QED
  BY <1>3, <1>5, <1>6, <1>7 DEF QuotaInv

\* A completion that rolls back takes one call out of its month; any other only
\* deletes the row.
LEMMA CompleteInv ==
    ASSUME QuotaInv, NEW r \in Requests, NEW succeeded \in BOOLEAN,
           CompleteSuccessCall(r, succeeded)
    PROVE  QuotaInv'
<1> DEFINE v == UserOf[r]
<1>1. QuotaTypeOK /\ CountExact /\ NeverOvercharged /\ RowsAreCharges /\ MonthsOrdered
  BY DEF QuotaInv
<1>2. v \in Users /\ reqPeriod[r] \in Nat
  BY <1>1, QuotaAssumption DEF QuotaTypeOK
<1>3. QuotaTypeOK'
  <2>1. RolledBackCalls(r) \in Nat
    BY <1>1, <1>2 DEF RolledBackCalls, QuotaTypeOK
  <2>2. /\ reservations' \in SUBSET Requests
        /\ successCalls' \in [Users -> Nat]
    BY <1>1, <2>1 DEF QuotaTypeOK, CompleteSuccessCall
  <2>3. quota' \in [Requests -> QuotaStates]
    BY <1>1 DEF QuotaTypeOK, QuotaStates, CompleteSuccessCall
  <2> QED
    BY <1>1, <2>2, <2>3 DEF QuotaTypeOK, CompleteSuccessCall
<1>4. CASE ~GivesBack(r, succeeded)
  <2>1. /\ UNCHANGED <<exists, successCalls, successPeriod, reqPeriod, regressed>>
        /\ reservations' = reservations \ {r}
        /\ \/ UNCHANGED quota
           \/ quota[r] = "reserved" /\ quota' = [quota EXCEPT ![r] = "kept"]
    BY <1>1, <1>4 DEF CompleteSuccessCall, QuotaTypeOK
  <2>2. \A u, p : Charged(u, p)' = Charged(u, p)
    BY <1>1, <2>1 DEF Charged, QuotaTypeOK
  <2>3. ASSUME NEW u \in Users, NEW p \in Nat, u \in exists', p = successPeriod'[u]
        PROVE  /\ successCalls'[u] <= Cardinality(Charged(u, p)')
               /\ u \notin regressed' => successCalls'[u] = Cardinality(Charged(u, p)')
    <3>1. Charged(u, p) = Charged(u, successPeriod[u])
      BY <2>1, <2>3
    <3> QED
      BY <1>1, <2>1, <2>2, <2>3, <3>1 DEF CountExact, NeverOvercharged
  <2>4. CountExact' /\ NeverOvercharged'
    BY <1>3, <2>3, CountsAfterStep
  <2>5. RowsAreCharges' /\ MonthsOrdered'
    BY <1>1, <2>1 DEF RowsAreCharges, MonthsOrdered, QuotaTypeOK
  <2> QED
    BY <1>3, <2>4, <2>5 DEF QuotaInv
<1>5. CASE GivesBack(r, succeeded)
  <2>1. r \in reservations /\ v \in exists /\ quota[r] = "reserved"
    BY <1>1, <1>5 DEF GivesBack, RowsAreCharges, CompleteSuccessCall
  <2>2. /\ UNCHANGED <<exists, successPeriod, reqPeriod, regressed>>
        /\ reservations' = reservations \ {r}
        /\ quota' = [quota EXCEPT ![r] = "rolledBack"]
        /\ successCalls' = [successCalls EXCEPT ![v] = RolledBackCalls(r)]
    BY <1>1, <1>5 DEF CompleteSuccessCall, QuotaTypeOK
  <2>3. ASSUME NEW u \in Users, NEW p \in Nat, u \in exists', p = successPeriod'[u]
        PROVE  /\ successCalls'[u] <= Cardinality(Charged(u, p)')
               /\ u \notin regressed' => successCalls'[u] = Cardinality(Charged(u, p)')
    <3>1. Charged(u, p) = Charged(u, successPeriod[u]) /\ p = successPeriod[u]
      BY <2>2, <2>3
    <3>2. /\ successCalls[u] <= Cardinality(Charged(u, p))
          /\ u \notin regressed => successCalls[u] = Cardinality(Charged(u, p))
          /\ successCalls[u] \in Nat /\ Cardinality(Charged(u, p)) \in Nat
      BY <1>1, <2>2, <2>3, <3>1, ChargedFinite DEF CountExact, NeverOvercharged, QuotaTypeOK
    <3>3. CASE u = v /\ p = reqPeriod[r]
      <4>1. /\ Cardinality(Charged(u, p)') = Cardinality(Charged(u, p)) - 1
            /\ Cardinality(Charged(u, p)) > 0
        BY <1>1, <2>1, <2>2, <3>3, RollbackCharged
      <4>2. successCalls'[u] = IF successCalls[u] > 0 THEN successCalls[u] - 1 ELSE successCalls[u]
        BY <1>1, <2>2, <3>1, <3>3 DEF RolledBackCalls, QuotaTypeOK
      <4> QED
        BY <2>2, <3>2, <4>1, <4>2
    <3>4. CASE ~(u = v /\ p = reqPeriod[r])
      <4>1. Charged(u, p)' = Charged(u, p)
        BY <1>1, <2>1, <2>2, <3>4, RollbackCharged
      <4>2. successCalls'[u] = successCalls[u]
        BY <1>1, <2>2, <3>1, <3>4 DEF RolledBackCalls, QuotaTypeOK
      <4> QED
        BY <2>2, <3>2, <4>1, <4>2
    <3> QED
      BY <3>3, <3>4
  <2>4. CountExact' /\ NeverOvercharged'
    BY <1>3, <2>3, CountsAfterStep
  <2>5. RowsAreCharges' /\ MonthsOrdered'
    BY <1>1, <2>2 DEF RowsAreCharges, MonthsOrdered, QuotaTypeOK
  <2> QED
    BY <1>3, <2>4, <2>5 DEF QuotaInv
<1> QED
  BY <1>4, <1>5

\* A step that leaves the users' counts alone and every call charged as before.
KeepsCharges ==
    /\ UNCHANGED <<successCalls, successPeriod, regressed>>
    /\ exists' \subseteq exists /\ reservations' \subseteq reservations
    /\ \A q \in reservations' : UserOf[q] \in exists'
    /\ \A q \in Requests : quota[q] # "none" => reqPeriod'[q] = reqPeriod[q]
    /\ \A q \in Requests : \/ quota'[q] = quota[q]
                           \/ quota[q] = "reserved" /\ quota'[q] = "abandoned"
                           \/ /\ quota[q] \in {"none", "waiting"}
                              /\ quota'[q] \in {"waiting", "exhausted", "notFound", "failed"}

LEMMA OtherStepInv ==
    ASSUME QuotaInv, QuotaTypeOK', KeepsCharges
    PROVE  QuotaInv'
<1>1. QuotaTypeOK /\ CountExact /\ NeverOvercharged /\ RowsAreCharges /\ MonthsOrdered
  BY DEF QuotaInv
<1>2. \A u, p : Charged(u, p)' = Charged(u, p)
  BY <1>1 DEF KeepsCharges, Charged, QuotaTypeOK
<1>3. ASSUME NEW u \in Users, NEW p \in Nat, u \in exists', p = successPeriod'[u]
      PROVE  /\ successCalls'[u] <= Cardinality(Charged(u, p)')
             /\ u \notin regressed' => successCalls'[u] = Cardinality(Charged(u, p)')
  <2>1. Charged(u, p) = Charged(u, successPeriod[u])
    BY <1>3 DEF KeepsCharges
  <2> QED
    BY <1>1, <1>2, <1>3, <2>1 DEF KeepsCharges, CountExact, NeverOvercharged
<1>4. CountExact' /\ NeverOvercharged'
  BY <1>3, CountsAfterStep
<1>5. RowsAreCharges'
  BY <1>1 DEF KeepsCharges, RowsAreCharges, QuotaTypeOK
<1>6. MonthsOrdered'
  BY <1>1 DEF KeepsCharges, MonthsOrdered, QuotaTypeOK
<1> QED
  BY <1>4, <1>5, <1>6 DEF QuotaInv

LEMMA QuotaStepInv == QuotaInv /\ [QuotaNext]_quotaVars => QuotaInv'
<1> SUFFICES ASSUME QuotaInv, [QuotaNext]_quotaVars
             PROVE  QuotaInv'
  OBVIOUS
<1>1. QuotaTypeOK /\ RowsAreCharges
  BY DEF QuotaInv
<1>2. ASSUME NEW r \in Requests, NEW limit \in SuccessLimits, ReserveBegin(r, limit)
      PROVE  QuotaInv'
  <2>1. QuotaTypeOK'
    BY <1>1, <1>2, QuotaAssumption DEF ReserveBegin, QuotaTypeOK, QuotaStates
  <2>2. KeepsCharges
    BY <1>1, <1>2 DEF KeepsCharges, ReserveBegin, QuotaTypeOK, RowsAreCharges
  <2> QED
    BY <2>1, <2>2, OtherStepInv
<1>3. ASSUME NEW r \in Requests, ReserveGrant(r)
      PROVE  QuotaInv'
  BY <1>3, ReserveGrantInv
<1>4. ASSUME NEW r \in Requests, ReserveRefuse(r) \/ ReserveFail(r) \/ CompleteFail(r)
      PROVE  QuotaInv'
  <2>1. QuotaTypeOK'
    BY <1>1, <1>4 DEF ReserveRefuse, ReserveFail, CompleteFail, QuotaTypeOK, QuotaStates
  <2>2. KeepsCharges
    BY <1>1, <1>4
       DEF KeepsCharges, ReserveRefuse, ReserveFail, CompleteFail, QuotaTypeOK, RowsAreCharges
  <2> QED
    BY <2>1, <2>2, OtherStepInv
<1>5. ASSUME NEW r \in Requests, NEW succeeded \in BOOLEAN, CompleteSuccessCall(r, succeeded)
      PROVE  QuotaInv'
  BY <1>5, CompleteInv
<1>6. ASSUME NEW u \in Users, DeleteUser(u)
      PROVE  QuotaInv'
  <2>1. QuotaTypeOK'
    BY <1>1, <1>6 DEF DeleteUser, QuotaTypeOK
  <2>2. KeepsCharges
    BY <1>1, <1>6 DEF KeepsCharges, DeleteUser, QuotaTypeOK, RowsAreCharges
  <2> QED
    BY <2>1, <2>2, OtherStepInv
<1>7. CASE QuotaCrash
  <2>1. QuotaTypeOK'
    BY <1>1, <1>7 DEF QuotaCrash, QuotaTypeOK, QuotaStates
  <2>2. KeepsCharges
    BY <1>1, <1>7 DEF KeepsCharges, QuotaCrash, QuotaTypeOK, RowsAreCharges
  <2> QED
    BY <2>1, <2>2, OtherStepInv
<1>8. CASE NextMonth \/ UNCHANGED quotaVars
  <2>1. QuotaTypeOK'
    BY <1>1, <1>8 DEF NextMonth, quotaVars, QuotaTypeOK
  <2>2. KeepsCharges
    BY <1>1, <1>8 DEF KeepsCharges, NextMonth, quotaVars, QuotaTypeOK, RowsAreCharges
  <2> QED
    BY <2>1, <2>2, OtherStepInv
<1> QED
  BY <1>2, <1>3, <1>4, <1>5, <1>6, <1>7, <1>8 DEF QuotaNext

\* In every reachable state success_calls is the number of calls charged in
\* success_period (unless a late reservation set the month back), never more than
\* that number, never below zero, and each reservation row stands for a counted call.
THEOREM QuotaInvariant == QuotaSpec => []QuotaInv
BY QuotaInitInv, QuotaStepInv, PTL DEF QuotaSpec

-----------------------------------------------------------------------------

\* A call refused for quota met a count that stands for calls charged to its month.
LEMMA QuotaRefuses == QuotaInv /\ QuotaNext => RefusesOnlyWhenExhausted
<1> SUFFICES ASSUME QuotaInv, QuotaNext,
                    NEW r \in Requests, quota[r] = "waiting", quota'[r] = "exhausted"
             PROVE  Cardinality(Charged(UserOf[r], reqPeriod[r])) >= reqLimit[r]
  BY DEF RefusesOnlyWhenExhausted
<1>1. QuotaTypeOK /\ NeverOvercharged
  BY DEF QuotaInv
<1>2. ReserveRefuse(r)
  BY <1>1 DEF QuotaNext, QuotaTypeOK, ReserveBegin, ReserveGrant, ReserveRefuse, ReserveFail,
              CompleteSuccessCall, CompleteFail, DeleteUser, QuotaCrash, NextMonth
<1>3. /\ UserOf[r] \in exists /\ UserOf[r] \in Users
      /\ reqLimit[r] # 0 /\ reqLimit[r] \in Nat
      /\ ~(CallsIn(UserOf[r], reqPeriod[r]) < reqLimit[r])
  BY <1>1, <1>2, QuotaAssumption DEF ReserveRefuse, BelowLimit, QuotaTypeOK
<1>4. successPeriod[UserOf[r]] = reqPeriod[r] /\ successCalls[UserOf[r]] >= reqLimit[r]
  BY <1>1, <1>3 DEF CallsIn, QuotaTypeOK
<1>5. successCalls[UserOf[r]] <= Cardinality(Charged(UserOf[r], reqPeriod[r]))
  BY <1>1, <1>3, <1>4 DEF NeverOvercharged
<1> QED
  BY <1>1, <1>3, <1>4, <1>5, ChargedFinite DEF QuotaTypeOK

\* A granted reservation adds one call to a month that had room for it.
LEMMA QuotaGrants == QuotaInv /\ QuotaNext => GrantsWithinAllowance
<1> SUFFICES ASSUME QuotaInv, QuotaNext,
                    NEW r \in Requests, quota[r] = "waiting", quota'[r] = "reserved",
                    reqLimit[r] # 0, UserOf[r] \notin regressed'
             PROVE  Cardinality(Charged(UserOf[r], reqPeriod[r])') <= reqLimit[r]
  BY DEF GrantsWithinAllowance
<1>1. QuotaTypeOK /\ CountExact /\ MonthsOrdered
  BY DEF QuotaInv
<1>2. ReserveGrant(r)
  BY <1>1 DEF QuotaNext, QuotaTypeOK, ReserveBegin, ReserveGrant, ReserveRefuse, ReserveFail,
              CompleteSuccessCall, CompleteFail, DeleteUser, QuotaCrash, NextMonth
<1>3. /\ UserOf[r] \in exists /\ UserOf[r] \in Users /\ reqLimit[r] \in Nat
      /\ reqPeriod[r] \in Nat /\ reqPeriod'[r] = reqPeriod[r]
      /\ UserOf[r] \notin regressed /\ ~(reqPeriod[r] < successPeriod[UserOf[r]])
      /\ CallsIn(UserOf[r], reqPeriod[r]) < reqLimit[r]
  BY <1>1, <1>2, QuotaAssumption DEF ReserveGrant, BelowLimit, QuotaTypeOK
<1>4. PICK u \in Users, p \in Nat : u = UserOf[r] /\ p = reqPeriod[r]
  BY <1>3
<1>5. Cardinality(Charged(u, p)') = Cardinality(Charged(u, p)) + 1
  BY <1>1, <1>2, <1>4, GrantCharged DEF ReserveGrant
<1>6. Cardinality(Charged(u, p)) = CallsIn(u, p)
  <2>1. CASE successPeriod[u] = p
    <3>1. Charged(u, p) = Charged(u, successPeriod[u])
      BY <2>1
    <3> QED
      BY <1>1, <1>3, <1>4, <2>1, <3>1 DEF CallsIn, CountExact
  <2>2. CASE successPeriod[u] # p
    <3>1. successPeriod[u] < p
      BY <1>1, <1>3, <1>4, <2>2 DEF QuotaTypeOK
    <3>2. Charged(u, p) = {}
      BY <1>1, <1>3, <1>4, <3>1 DEF Charged, MonthsOrdered, QuotaTypeOK
    <3> QED
      BY <2>2, <3>2, FS_EmptySet DEF CallsIn
  <2> QED
    BY <2>1, <2>2
<1>7. Charged(UserOf[r], reqPeriod[r])' = Charged(u, p)'
  BY <1>3, <1>4 DEF Charged
<1>8. CallsIn(u, p) = CallsIn(UserOf[r], reqPeriod[r])
  BY <1>4
<1> QED
  BY <1>3, <1>5, <1>6, <1>7, <1>8, ChargedFinite

\* An admitted call fits the monthly allowance, counting every call of the month
\* that is in progress, succeeded or could not be settled; a call is refused for quota
\* only if its month counts that many calls, also when the month was set back.
THEOREM QuotaDecidesByCharges == QuotaSpec => QuotaDecides
<1>1. QuotaInv /\ [QuotaNext]_quotaVars
      => [GrantsWithinAllowance /\ RefusesOnlyWhenExhausted]_quotaVars
  BY QuotaGrants, QuotaRefuses
<1> QED
  BY <1>1, QuotaInitInv, QuotaStepInv, PTL DEF QuotaSpec, QuotaDecides

-----------------------------------------------------------------------------
(* McpRequest.                                                             *)
(*                                                                         *)
(* McpInv is not inductive: what a finished request has left behind        *)
(* depends on every place it passed.  Placed says, place by place, what a  *)
(* request holds there.                                                    *)

(* The inductive invariant.                                                *)

\* The permit: taken on arrival by searches only, returned on the way out.
PermitPlaced(r) ==
    /\ pc[r] = "arrived" \/ r \notin Searches => lease[r] = "none"
    /\ pc[r] \in {"admitted", "reserving", "reserved", "tool", "judged"} /\ r \in Searches
           => lease[r] = "held"
    /\ pc[r] = "completing" /\ lease[r] = "held" => verdict[r] = "success"
    /\ pc[r] = "done" => lease[r] # "held"

\* The reservation: open from its grant to its completion.
ReservationPlaced(r) ==
    /\ pc[r] \in {"arrived", "admitted"} => quota[r] = "none"
    /\ pc[r] = "reserving" => quota[r] = "waiting"
    /\ pc[r] \in {"reserved", "tool", "judged", "completing"} =>
           quota[r] = "reserved" /\ (r \in reservations \/ UserOf[r] \notin exists)
    /\ pc[r] \in {"record", "leaving", "done"} => quota[r] \notin {"waiting", "reserved"}

\* What the completion made of the reservation of a call with this outcome.
SettledAs(r, outcome) ==
    /\ outcome = "success" => quota[r] \in {"kept", "abandoned"}
    /\ outcome = "failure" => quota[r] \in {"rolledBack", "abandoned"} \/ UserOf[r] \notin exists

\* The record and the spool files: judged after the tool, handed over at the end.
RecordPlaced(r) ==
    /\ pc[r] \in {"judged", "completing"} => verdict[r] # "none"
    /\ pc[r] = "record" => verdict[r] \in {"success", "failure"} /\ SettledAs(r, verdict[r])
    /\ record[r] # "none" => pc[r] \in {"leaving", "done"} /\ SettledAs(r, record[r])
    /\ capture[r] = "middleware" =>
           /\ pc[r] \in {"tool", "judged", "completing", "record"}
           /\ pc[r] # "tool" => verdict[r] # "panic"

Placed == \A r \in Requests : PermitPlaced(r) /\ ReservationPlaced(r) /\ RecordPlaced(r)

ChainInv == LimiterInv /\ QuotaInv /\ McpTypeOK /\ Placed

-----------------------------------------------------------------------------
(* The chain's steps are steps of its components.                          *)

\* What a step does to the limiter, it does through one of the limiter's methods.
LEMMA ChainUsesLimiter == [McpNext]_mcpVars => [LimiterNext]_limiterVars
BY DEF McpNext, mcpVars, RequestStep, AcquirePermit, PassLimiter, StartReservation, FinishReservation,
       StartTool, ToolEnds, ToolReturns, ToolPanics, BeforeCompletion, CompleteQuota, Enqueue, Leave,
       ToggleDebug, LimiterBackground, QuotaBackground, LimiterNext

\* What a step does to the quota, it does through one of the quota's transactions.
LEMMA ChainUsesQuota == [McpNext]_mcpVars => [QuotaNext]_quotaVars
<1> SUFFICES ASSUME [McpNext]_mcpVars PROVE [QuotaNext]_quotaVars
  OBVIOUS
<1>1. ASSUME NEW r \in Requests, CompleteQuota(r)
      PROVE  QuotaNext
  <2>1. (verdict[r] = "success") \in BOOLEAN
    OBVIOUS
  <2> QED
    BY <1>1, <2>1 DEF CompleteQuota, QuotaNext
<1> QED
  BY <1>1 DEF McpNext, mcpVars, RequestStep, AcquirePermit, PassLimiter, StartReservation,
         FinishReservation, StartTool, ToolEnds, ToolReturns, ToolPanics, BeforeCompletion, Enqueue,
         Leave, ToggleDebug, LimiterBackground, QuotaBackground, QuotaNext

-----------------------------------------------------------------------------

LEMMA ChainInitInv == McpInit => ChainInv
<1> SUFFICES ASSUME McpInit PROVE ChainInv
  OBVIOUS
<1>1. LimiterInv /\ QuotaInv
  BY LimiterInitInv, QuotaInitInv DEF McpInit
<1>2. McpTypeOK
  BY DEF McpInit, McpTypeOK
<1>3. Placed
  BY DEF McpInit, LimiterInit, QuotaInit, Placed, PermitPlaced, ReservationPlaced, RecordPlaced
<1> QED
  BY <1>1, <1>2, <1>3 DEF ChainInv

\* A step of one request leaves the place of every other as it is: reservations only
\* gain rows of their own calls, and users only go.
OthersKeep(r) ==
    /\ exists' \subseteq exists
    /\ \A q \in Requests \ {r} :
           /\ pc'[q] = pc[q] /\ lease'[q] = lease[q] /\ quota'[q] = quota[q]
           /\ verdict'[q] = verdict[q] /\ record'[q] = record[q] /\ capture'[q] = capture[q]
           /\ q \in reservations /\ UserOf[q] \in exists' => q \in reservations'

LEMMA PlacedStep ==
    ASSUME Placed, NEW r \in Requests, OthersKeep(r),
           PermitPlaced(r)', ReservationPlaced(r)', RecordPlaced(r)'
    PROVE  Placed'
<1> SUFFICES ASSUME NEW q \in Requests \ {r}
             PROVE  PermitPlaced(q)' /\ ReservationPlaced(q)' /\ RecordPlaced(q)'
  BY DEF Placed
<1>1. PermitPlaced(q) /\ ReservationPlaced(q) /\ RecordPlaced(q)
  BY DEF Placed
<1> QED
  BY <1>1 DEF OthersKeep, PermitPlaced, ReservationPlaced, RecordPlaced, SettledAs

\* The requests' own variables keep their types.
LEMMA ChainTypes == ChainInv /\ [McpNext]_mcpVars => McpTypeOK'
<1> SUFFICES ASSUME McpTypeOK, Placed, [McpNext]_mcpVars PROVE McpTypeOK'
  BY DEF ChainInv
<1>1. ASSUME NEW r \in Requests, Enqueue(r)
      PROVE  McpTypeOK'
  <2>1. verdict[r] \in {"success", "failure"}
    BY <1>1 DEF Enqueue, Placed, RecordPlaced
  <2> QED
    BY <1>1, <2>1 DEF Enqueue, Goto, McpTypeOK
<1>2. ASSUME NEW r \in Requests,
             AcquirePermit(r) \/ PassLimiter(r) \/ FinishReservation(r) \/ StartTool(r)
      PROVE  McpTypeOK'
  BY <1>2 DEF McpTypeOK, AcquirePermit, PassLimiter, FinishReservation, StartTool, Goto, usageVars
<1>3. ASSUME NEW r \in Requests, NEW limit \in SuccessLimits, StartReservation(r, limit)
      PROVE  McpTypeOK'
  BY <1>3 DEF McpTypeOK, StartReservation, Goto, usageVars
<1>4. ASSUME NEW r \in Requests, ToolEnds(r)
      PROVE  McpTypeOK'
  BY <1>4 DEF McpTypeOK, ToolEnds, ToolReturns, ToolPanics, Goto
<1>5. ASSUME NEW r \in Requests, BeforeCompletion(r) \/ CompleteQuota(r) \/ Leave(r)
      PROVE  McpTypeOK'
  BY <1>5 DEF McpTypeOK, BeforeCompletion, CompleteQuota, AfterCompletion, Leave, Goto, usageVars
<1>6. CASE ToggleDebug \/ LimiterBackground \/ QuotaBackground \/ UNCHANGED mcpVars
  BY <1>6 DEF McpTypeOK, ToggleDebug, LimiterBackground, QuotaBackground, mcpVars, usageVars
<1> QED
  BY <1>1, <1>2, <1>3, <1>4, <1>5, <1>6 DEF McpNext, RequestStep

\* Admission: a search leaves with a lease, is turned away without one, and other
\* tools never have one.
LEMMA AdmissionPlaced ==
    ASSUME ChainInv, NEW r \in Requests, AcquirePermit(r) \/ PassLimiter(r)
    PROVE  Placed'
<1>1. McpTypeOK /\ LimiterTypeOK /\ Placed /\ PermitPlaced(r) /\ ReservationPlaced(r) /\ RecordPlaced(r)
  BY DEF ChainInv, LimiterInv, Placed
<1>2. CASE AcquirePermit(r)
  <2>1. \/ lease' = [lease EXCEPT ![r] = "held"] /\ lease'[r] = "held"
        \/ lease' = [lease EXCEPT ![r] = "refused"] /\ lease'[r] = "refused"
    BY <1>1, <1>2 DEF AcquirePermit, TryAcquire, RefuseGlobal, RefuseUser, Grant, LimiterTypeOK
  <2>2. OthersKeep(r)
    BY <1>1, <1>2, <2>1 DEF AcquirePermit, Goto, quotaVars, usageVars, OthersKeep, McpTypeOK, LimiterTypeOK
  <2>3. PermitPlaced(r)' /\ ReservationPlaced(r)' /\ RecordPlaced(r)'
    BY <1>1, <1>2, <2>1
       DEF AcquirePermit, Goto, quotaVars, usageVars, PermitPlaced, ReservationPlaced, RecordPlaced,
           SettledAs, McpTypeOK
  <2> QED
    BY <1>1, <2>2, <2>3, PlacedStep
<1>3. CASE PassLimiter(r)
  <2>1. OthersKeep(r)
    BY <1>1, <1>3 DEF PassLimiter, Goto, limiterVars, quotaVars, usageVars, OthersKeep, McpTypeOK
  <2>2. PermitPlaced(r)' /\ ReservationPlaced(r)' /\ RecordPlaced(r)'
    BY <1>1, <1>3
       DEF PassLimiter, Goto, limiterVars, quotaVars, usageVars, PermitPlaced, ReservationPlaced,
           RecordPlaced, SettledAs, McpTypeOK
  <2> QED
    BY <1>1, <2>1, <2>2, PlacedStep
<1> QED
  BY <1>2, <1>3

\* Reservation: begun, then granted or refused; a request that is refused leaves with
\* nothing to settle.
LEMMA ReservationStepPlaced ==
    ASSUME ChainInv, NEW r \in Requests,
           (\E limit \in SuccessLimits : StartReservation(r, limit)) \/ FinishReservation(r)
    PROVE  Placed'
<1>1. /\ McpTypeOK /\ LimiterTypeOK /\ QuotaTypeOK /\ Placed
      /\ PermitPlaced(r) /\ ReservationPlaced(r) /\ RecordPlaced(r)
  BY DEF ChainInv, LimiterInv, QuotaInv, Placed
<1>2. ASSUME NEW limit \in SuccessLimits, StartReservation(r, limit)
      PROVE  Placed'
  <2>1. OthersKeep(r)
    BY <1>1, <1>2
       DEF StartReservation, ReserveBegin, Goto, limiterVars, usageVars, OthersKeep, McpTypeOK, QuotaTypeOK
  <2>2. PermitPlaced(r)' /\ ReservationPlaced(r)' /\ RecordPlaced(r)'
    BY <1>1, <1>2
       DEF StartReservation, ReserveBegin, Goto, limiterVars, usageVars, PermitPlaced,
           ReservationPlaced, RecordPlaced, SettledAs, McpTypeOK, QuotaTypeOK
  <2> QED
    BY <1>1, <2>1, <2>2, PlacedStep
<1>3. CASE FinishReservation(r)
  <2>1. /\ exists' = exists
        /\ \/ /\ quota' = [quota EXCEPT ![r] = "reserved"] /\ quota'[r] = "reserved"
              /\ reservations' = reservations \union {r}
           \/ /\ \E end \in {"exhausted", "notFound", "failed"} :
                     quota' = [quota EXCEPT ![r] = end] /\ quota'[r] = end
              /\ reservations' = reservations
    BY <1>1, <1>3 DEF FinishReservation, ReserveGrant, ReserveRefuse, ReserveFail, QuotaTypeOK
  <2>2. OthersKeep(r)
    BY <1>1, <1>3, <2>1 DEF FinishReservation, Goto, limiterVars, usageVars, OthersKeep, McpTypeOK, QuotaTypeOK
  <2>3. PermitPlaced(r)' /\ ReservationPlaced(r)' /\ RecordPlaced(r)'
    BY <1>1, <1>3, <2>1
       DEF FinishReservation, Goto, limiterVars, usageVars, PermitPlaced, ReservationPlaced,
           RecordPlaced, SettledAs, McpTypeOK
  <2> QED
    BY <1>1, <2>2, <2>3, PlacedStep
<1> QED
  BY <1>2, <1>3

\* The tool: begun, returned or panicked, and judged; the lease and the reservation
\* stay as they are.
LEMMA ToolPlaced ==
    ASSUME ChainInv, NEW r \in Requests, StartTool(r) \/ ToolEnds(r)
    PROVE  Placed'
<1>1. McpTypeOK /\ Placed /\ PermitPlaced(r) /\ ReservationPlaced(r) /\ RecordPlaced(r)
  BY DEF ChainInv, Placed
<1>2. UNCHANGED <<limiterVars, quotaVars, debug, record>>
  BY DEF StartTool, ToolEnds, ToolReturns, ToolPanics
<1>3. OthersKeep(r)
  BY <1>1, <1>2
     DEF StartTool, ToolEnds, ToolReturns, ToolPanics, Goto, limiterVars, quotaVars, OthersKeep, McpTypeOK
<1>4. PermitPlaced(r)' /\ ReservationPlaced(r)' /\ RecordPlaced(r)'
  BY <1>1, <1>2
     DEF StartTool, ToolEnds, ToolReturns, ToolPanics, Goto, limiterVars, quotaVars, PermitPlaced,
         ReservationPlaced, RecordPlaced, SettledAs, McpTypeOK
<1> QED
  BY <1>1, <1>3, <1>4, PlacedStep

\* Completion: a call that failed has given its permit back; the reservation is kept,
\* rolled back or abandoned, as the verdict says.
LEMMA CompletionPlaced ==
    ASSUME ChainInv, NEW r \in Requests, BeforeCompletion(r) \/ CompleteQuota(r)
    PROVE  Placed'
<1>1. /\ McpTypeOK /\ LimiterTypeOK /\ QuotaTypeOK /\ RowsAreCharges /\ Placed
      /\ PermitPlaced(r) /\ ReservationPlaced(r) /\ RecordPlaced(r)
  BY DEF ChainInv, LimiterInv, QuotaInv, Placed
<1>2. CASE BeforeCompletion(r)
  <2>1. \/ UNCHANGED lease /\ ~(verdict[r] # "success" /\ lease[r] = "held")
        \/ lease' = [lease EXCEPT ![r] = "released"] /\ lease'[r] = "released" /\ r \in Searches
    BY <1>1, <1>2 DEF BeforeCompletion, Release, limiterVars, LimiterTypeOK, PermitPlaced
  <2>2. OthersKeep(r)
    BY <1>1, <1>2, <2>1
       DEF BeforeCompletion, Goto, quotaVars, usageVars, OthersKeep, McpTypeOK, LimiterTypeOK
  <2>3. PermitPlaced(r)' /\ ReservationPlaced(r)' /\ RecordPlaced(r)'
    BY <1>1, <1>2, <2>1
       DEF BeforeCompletion, Goto, quotaVars, usageVars, PermitPlaced, ReservationPlaced,
           RecordPlaced, SettledAs, McpTypeOK
  <2> QED
    BY <1>1, <2>2, <2>3, PlacedStep
<1>3. CASE CompleteQuota(r)
  <2>1. quota[r] = "reserved" /\ (r \in reservations \/ UserOf[r] \notin exists)
    BY <1>1, <1>3 DEF CompleteQuota, ReservationPlaced
  <2>2. /\ exists' = exists /\ reservations \ {r} \subseteq reservations'
        /\ \E end \in {"kept", "rolledBack", "abandoned"} :
              /\ quota' = [quota EXCEPT ![r] = end] /\ quota'[r] = end
              /\ end = "kept" => verdict[r] = "success" \/ UserOf[r] \notin exists
              /\ end = "rolledBack" => verdict[r] # "success"
    BY <1>1, <1>3, <2>1 DEF CompleteQuota, CompleteSuccessCall, CompleteFail, GivesBack, QuotaTypeOK
  <2>3. OthersKeep(r)
    BY <1>1, <1>3, <2>2 DEF CompleteQuota, Goto, limiterVars, usageVars, OthersKeep, McpTypeOK, QuotaTypeOK
  <2>4. PermitPlaced(r)' /\ ReservationPlaced(r)' /\ RecordPlaced(r)'
    BY <1>1, <1>3, <2>2
       DEF CompleteQuota, AfterCompletion, Goto, limiterVars, usageVars, PermitPlaced,
           ReservationPlaced, RecordPlaced, SettledAs, McpTypeOK
  <2> QED
    BY <1>1, <2>3, <2>4, PlacedStep
<1> QED
  BY <1>2, <1>3

\* The way out: the record and the spool files go to the writer, the permit goes back.
LEMMA WayOutPlaced ==
    ASSUME ChainInv, NEW r \in Requests, Enqueue(r) \/ Leave(r)
    PROVE  Placed'
<1>1. /\ McpTypeOK /\ LimiterTypeOK /\ Placed
      /\ PermitPlaced(r) /\ ReservationPlaced(r) /\ RecordPlaced(r)
  BY DEF ChainInv, LimiterInv, Placed
<1>2. CASE Enqueue(r)
  <2>1. OthersKeep(r)
    BY <1>1, <1>2 DEF Enqueue, Goto, limiterVars, quotaVars, OthersKeep, McpTypeOK
  <2>2. PermitPlaced(r)' /\ ReservationPlaced(r)' /\ RecordPlaced(r)'
    BY <1>1, <1>2
       DEF Enqueue, Goto, limiterVars, quotaVars, PermitPlaced, ReservationPlaced, RecordPlaced,
           SettledAs, McpTypeOK
  <2> QED
    BY <1>1, <2>1, <2>2, PlacedStep
<1>3. CASE Leave(r)
  <2>1. /\ lease'[r] # "held"
        /\ r \notin Searches => lease' = lease
        /\ lease' = lease \/ lease' = [lease EXCEPT ![r] = "released"]
    BY <1>1, <1>3 DEF Leave, Release, limiterVars, LimiterTypeOK, PermitPlaced
  <2>2. OthersKeep(r)
    BY <1>1, <1>3, <2>1 DEF Leave, Goto, quotaVars, usageVars, OthersKeep, McpTypeOK, LimiterTypeOK
  <2>3. PermitPlaced(r)' /\ ReservationPlaced(r)' /\ RecordPlaced(r)'
    BY <1>1, <1>3, <2>1
       DEF Leave, Goto, quotaVars, usageVars, PermitPlaced, ReservationPlaced, RecordPlaced,
           SettledAs, McpTypeOK
  <2> QED
    BY <1>1, <2>2, <2>3, PlacedStep
<1> QED
  BY <1>2, <1>3

\* What happens around the requests moves none of them: limits, entries, months and
\* users are not what a place is made of, except that a user may be gone.
LEMMA AroundPlaced ==
    ASSUME ChainInv, ToggleDebug \/ LimiterBackground \/ QuotaBackground \/ UNCHANGED mcpVars
    PROVE  Placed'
<1>1. Placed
  BY DEF ChainInv
<1>2. /\ UNCHANGED <<pc, lease, quota, usageVars>> /\ exists' \subseteq exists
      /\ \A q \in Requests : q \in reservations /\ UserOf[q] \in exists' => q \in reservations'
  BY DEF ToggleDebug, LimiterBackground, QuotaBackground, mcpVars, limiterVars, quotaVars,
         UpdateLimits, CleanupIdleEntries, NextMonth, DeleteUser
<1> SUFFICES ASSUME NEW q \in Requests
             PROVE  PermitPlaced(q)' /\ ReservationPlaced(q)' /\ RecordPlaced(q)'
  BY DEF Placed
<1>3. PermitPlaced(q) /\ ReservationPlaced(q) /\ RecordPlaced(q)
  BY <1>1 DEF Placed
<1> QED
  BY <1>2, <1>3 DEF usageVars, PermitPlaced, ReservationPlaced, RecordPlaced, SettledAs

LEMMA ChainStepInv == ChainInv /\ [McpNext]_mcpVars => ChainInv'
<1> SUFFICES ASSUME ChainInv, [McpNext]_mcpVars PROVE ChainInv'
  OBVIOUS
<1>1. LimiterInv' /\ QuotaInv'
  BY ChainUsesLimiter, ChainUsesQuota, LimiterStepInv, QuotaStepInv DEF ChainInv
<1>2. McpTypeOK'
  BY ChainTypes
<1>3. Placed'
  BY AdmissionPlaced, ReservationStepPlaced, ToolPlaced, CompletionPlaced, WayOutPlaced, AroundPlaced
     DEF McpNext, RequestStep
<1> QED
  BY <1>1, <1>2, <1>3 DEF ChainInv

\* What the places say of a request is what McpInv asks for.
LEMMA PlacesImplyMcpInv == ChainInv => McpInv
<1> SUFFICES ASSUME ChainInv PROVE McpInv
  OBVIOUS
<1>1. McpTypeOK /\ \A r \in Requests : PermitPlaced(r) /\ ReservationPlaced(r) /\ RecordPlaced(r)
  BY DEF ChainInv, Placed
<1>2. ToolRunsAdmitted /\ RollbackHoldsNoPermit /\ EndsBalanced
  BY <1>1 DEF ToolRunsAdmitted, RollbackHoldsNoPermit, EndsBalanced, PermitPlaced, ReservationPlaced,
              RecordPlaced
<1>3. LogAgreesWithQuota
  BY <1>1 DEF LogAgreesWithQuota, RecordPlaced, SettledAs
<1> QED
  BY <1>1, <1>2, <1>3 DEF McpInv

-----------------------------------------------------------------------------

\* Whatever the middlewares' goroutines do to each other, a tool runs only with permit
\* and reservation, a rollback holds no search capacity, an ended request leaves
\* nothing behind, and the usage log says of a call what the quota charged.
THEOREM ChainInvariant == McpSpec => []McpInv
<1>1. McpSpec => []ChainInv
  BY ChainInitInv, ChainStepInv, PTL DEF McpSpec
<1> QED
  BY <1>1, PlacesImplyMcpInv, PTL

\* The exactness of the limiter's counters and of the monthly counts survives the way
\* the chain calls them, panics, early releases and lost completions included.
THEOREM ChainKeepsCounts == McpSpec => [](LimiterInv /\ QuotaInv)
<1>1. ChainInv => LimiterInv /\ QuotaInv
  BY DEF ChainInv
<1> QED
  BY <1>1, ChainInitInv, ChainStepInv, PTL DEF McpSpec

\* In the chain too, every admission and refusal of the two middlewares is the one
\* that the searches really running and the calls really charged call for.
THEOREM ChainDecidesByTheCounts == McpSpec => DecidedByTheCounts
<1>1. ChainInv /\ [McpNext]_mcpVars
      => [/\ AdmitsWithinLimits /\ RefusesOnlyWhenFull
          /\ GrantsWithinAllowance /\ RefusesOnlyWhenExhausted]_mcpVars
  <2> SUFFICES ASSUME ChainInv, McpNext
               PROVE  /\ AdmitsWithinLimits /\ RefusesOnlyWhenFull
                      /\ GrantsWithinAllowance /\ RefusesOnlyWhenExhausted
    OBVIOUS
  <2>1. LimiterInv /\ QuotaInv /\ [LimiterNext]_limiterVars /\ [QuotaNext]_quotaVars
    BY ChainUsesLimiter, ChainUsesQuota DEF ChainInv
  <2>2. AdmitsWithinLimits /\ RefusesOnlyWhenFull
    BY <2>1, LimiterAdmits, LimiterRefuses DEF limiterVars, AdmitsWithinLimits, RefusesOnlyWhenFull
  <2>3. GrantsWithinAllowance /\ RefusesOnlyWhenExhausted
    BY <2>1, QuotaGrants, QuotaRefuses DEF quotaVars, GrantsWithinAllowance, RefusesOnlyWhenExhausted
  <2> QED
    BY <2>2, <2>3
<1> QED
  BY <1>1, ChainInitInv, ChainStepInv, PTL DEF McpSpec, DecidedByTheCounts

-----------------------------------------------------------------------------
(* SearchCall.  What the middlewares judge and settle is the marker at the *)
(* moment the handler returned.  A marker is set once, when the search has *)
(* ended, so nothing the search does later changes what was judged.        *)

Delivered == told = "result" /\ result.ok

\* A marker stands for the end of the search, and the one that was read still stands.
MarkInv ==
    /\ marker \in Markers
    /\ marker # "unknown" => phase = "ended" /\ (marker = "success" <=> result.ok)
    /\ seen # "unknown" => marker = seen
    /\ told = "result" => seen # "unknown"
    /\ pc[Caller] \in {"arrived", "admitted", "reserving", "reserved", "tool"} => told = "pending"

JudgedRight ==
    /\ verdict[Caller] \in {"success", "failure", "panic"}
    /\ verdict[Caller] = "success" => Deserved
    /\ told = "result" => verdict[Caller] # "panic"
    /\ Delivered => verdict[Caller] = "success"

SettledRight == (quota[Caller] = "kept" => Deserved) /\ (Delivered => quota[Caller] # "rolledBack")

RecordedRight == (record[Caller] = "success" => Deserved) /\ (Delivered => record[Caller] = "success")

AnswerInv ==
    /\ UserOf[Caller] \in exists
    /\ MarkInv
    /\ pc[Caller] \in {"judged", "completing", "record"} => JudgedRight
    /\ pc[Caller] \notin {"leaving", "done"} => record[Caller] = "none"
    /\ told # "pending" =>
         /\ pc[Caller] \in {"record", "leaving", "done"} => SettledRight
         /\ pc[Caller] \in {"leaving", "done"} => RecordedRight

\* The ways the MCP handler comes back to the usage middleware.
HandlerEnds == SearchReturns \/ LeavesEarly \/ SDKRefuses \/ HandlerPanics

LEMMA HandlerEndsTool ==
    ASSUME marker \in Markers, HandlerEnds
    PROVE  ToolEnds(Caller) /\ UNCHANGED searchVars
<1>1. TRUE \in BOOLEAN /\ FALSE \in BOOLEAN /\ (~result.ok) \in BOOLEAN
  OBVIOUS
<1>2. ASSUME NEW what, NEW httpOK \in BOOLEAN, NEW bodyError \in BOOLEAN,
             HandlerReturns(what, httpOK, bodyError)
      PROVE  ToolEnds(Caller) /\ UNCHANGED searchVars
  BY <1>2 DEF HandlerReturns, ToolEnds
<1>3. CASE SearchReturns
  BY <1>1, <1>2, <1>3 DEF SearchReturns
<1>4. CASE LeavesEarly
  BY <1>1, <1>2, <1>4 DEF LeavesEarly
<1>5. CASE SDKRefuses
  BY <1>1, <1>2, <1>5 DEF SDKRefuses
<1>6. CASE HandlerPanics
  BY <1>6 DEF HandlerPanics, ToolEnds
<1> QED
  BY <1>3, <1>4, <1>5, <1>6 DEF HandlerEnds

\* The caller's steps are steps of the chain.
LEMMA CallUsesChain ==
    ASSUME marker \in Markers, [CallNext]_callVars
    PROVE  [McpNext]_mcpVars
<1>1. CASE OutsideTool
  BY <1>1, CallAssumption DEF OutsideTool, McpNext
<1>2. CASE Search(SearchNext) \/ MarkOutcome
  BY <1>2 DEF Search, MarkOutcome
<1>3. CASE HandlerEnds
  BY <1>3, HandlerEndsTool, CallAssumption DEF McpNext, RequestStep
<1>4. CASE UNCHANGED callVars
  BY <1>4 DEF callVars
<1> QED
  BY <1>1, <1>2, <1>3, <1>4 DEF CallNext, HandlerEnds

\* No step of a request deletes a user.
LEMMA RequestsKeepUsers ==
    ASSUME NEW r, RequestStep(r)
    PROVE  exists' = exists
BY DEF RequestStep, AcquirePermit, PassLimiter, StartReservation, FinishReservation, StartTool, ToolEnds,
       ToolReturns, ToolPanics, BeforeCompletion, CompleteQuota, Enqueue, Leave, quotaVars,
       ReserveBegin, ReserveGrant, ReserveRefuse, ReserveFail, CompleteSuccessCall, CompleteFail

\* A search that has ended does nothing more.
LEMMA EndedStays ==
    ASSUME SearchNext, phase = "ended"
    PROVE  phase' = "ended" /\ result' = result
BY DEF SearchNext, ApplyServerSettings, StartSearch, Posts, PostFails, Post, Responds, Receive,
       EndOfResponse, ReadFails

\* What is judged stays as it is while nobody judges, whatever becomes of the search.
LEMMA SearchGoesOn ==
    ASSUME AnswerInv, UNCHANGED <<mcpVars, told, seen>>, MarkInv',
           result' = result \/ marker = "unknown"
    PROVE  AnswerInv'
<1>1. Deserved' = Deserved /\ Delivered' = Delivered
  BY DEF AnswerInv, MarkInv, Deserved, Delivered
<1>2. UNCHANGED <<pc, exists, verdict, record, quota>>
  BY DEF mcpVars, quotaVars, usageVars
<1>3. JudgedRight' = JudgedRight /\ SettledRight' = SettledRight /\ RecordedRight' = RecordedRight
  BY <1>1, <1>2 DEF JudgedRight, SettledRight, RecordedRight
<1> QED
  BY <1>2, <1>3 DEF AnswerInv

\* The middlewares' steps around the search.
LEMMA OutsideToolAnswered ==
    ASSUME ChainInv, AnswerInv, OutsideTool
    PROVE  AnswerInv'
<1>0. /\ Caller \in Requests /\ McpTypeOK /\ ReservationPlaced(Caller)
      /\ quota \in [Requests -> QuotaStates]
      /\ UserOf[Caller] \in exists' /\ UNCHANGED <<phase, result, marker, told, seen>>
  BY CallAssumption, RequestsKeepUsers
  DEF ChainInv, Placed, QuotaInv, QuotaTypeOK, OutsideTool, searchVars, outcomeVars, AnswerInv
<1>m. Deserved' = Deserved /\ Delivered' = Delivered
  BY <1>0 DEF Deserved, Delivered
<1>n. ASSUME told = "pending" \/ pc'[Caller] \notin {"arrived", "admitted", "reserving", "reserved", "tool"}
      PROVE  MarkInv'
  BY <1>0, <1>n DEF AnswerInv, MarkInv
<1>1. CASE AcquirePermit(Caller) \/ PassLimiter(Caller)
  <2>1. /\ pc[Caller] = "arrived" /\ pc'[Caller] \in {"admitted", "done"} /\ told = "pending"
        /\ record' = record
    BY <1>0, <1>1 DEF AcquirePermit, PassLimiter, Goto, McpTypeOK, AnswerInv, MarkInv, usageVars
  <2> QED
    BY <1>0, <1>n, <2>1 DEF AnswerInv
<1>2. CASE \E limit \in SuccessLimits : StartReservation(Caller, limit)
  <2>1. /\ pc[Caller] = "admitted" /\ pc'[Caller] = "reserving" /\ told = "pending"
        /\ record' = record
    BY <1>0, <1>2 DEF StartReservation, Goto, McpTypeOK, AnswerInv, MarkInv, usageVars
  <2> QED
    BY <1>0, <1>n, <2>1 DEF AnswerInv
<1>3. CASE FinishReservation(Caller) \/ StartTool(Caller)
  <2>1. /\ pc[Caller] \in {"reserving", "reserved"} /\ pc'[Caller] \in {"reserved", "leaving", "tool"}
        /\ told = "pending" /\ record' = record
    BY <1>0, <1>3 DEF FinishReservation, StartTool, Goto, McpTypeOK, AnswerInv, MarkInv, usageVars
  <2> QED
    BY <1>0, <1>n, <2>1 DEF AnswerInv
<1>4. CASE BeforeCompletion(Caller)
  <2>1. pc[Caller] = "judged" /\ pc'[Caller] = "completing" /\ UNCHANGED <<verdict, record>>
    BY <1>0, <1>4 DEF BeforeCompletion, Goto, McpTypeOK, usageVars
  <2> QED
    BY <1>0, <1>m, <1>n, <2>1 DEF AnswerInv, JudgedRight
<1>5. CASE CompleteQuota(Caller)
  <2>1. /\ pc[Caller] = "completing" /\ pc'[Caller] = AfterCompletion(Caller)
        /\ UNCHANGED <<verdict, record>>
    BY <1>0, <1>5 DEF CompleteQuota, Goto, McpTypeOK, usageVars
  <2>2. quota[Caller] = "reserved" /\ Caller \in reservations
    BY <1>0, <2>1 DEF ReservationPlaced, AnswerInv
  <2>3. \/ quota'[Caller] = "abandoned"
        \/ quota'[Caller] = IF verdict[Caller] = "success" THEN "kept" ELSE "rolledBack"
    BY <1>0, <1>5, <2>2 DEF CompleteQuota, CompleteSuccessCall, CompleteFail, GivesBack
  <2>4. JudgedRight /\ JudgedRight'
    BY <1>m, <1>0, <2>1 DEF AnswerInv, JudgedRight
  <2>5. SettledRight'
    BY <1>m, <2>3, <2>4 DEF SettledRight, JudgedRight
  <2>6. record'[Caller] = "none" /\ pc'[Caller] \in {"record", "leaving"}
    BY <2>1 DEF AnswerInv, AfterCompletion
  <2>7. pc'[Caller] = "leaving" => RecordedRight'
    BY <1>m, <2>1, <2>4, <2>6 DEF AfterCompletion, RecordedRight, JudgedRight, Delivered
  <2> QED
    BY <1>0, <1>n, <2>4, <2>5, <2>6, <2>7 DEF AnswerInv
<1>6. CASE Enqueue(Caller)
  <2>1. /\ pc[Caller] = "record" /\ pc'[Caller] = "leaving" /\ record'[Caller] = verdict[Caller]
        /\ quota' = quota
    BY <1>0, <1>6 DEF Enqueue, Goto, McpTypeOK, quotaVars
  <2>2. told # "pending" => SettledRight'
    BY <1>m, <2>1 DEF AnswerInv, SettledRight
  <2>3. RecordedRight'
    BY <1>m, <2>1 DEF AnswerInv, JudgedRight, RecordedRight
  <2> QED
    BY <1>0, <1>n, <2>1, <2>2, <2>3 DEF AnswerInv
<1>7. CASE Leave(Caller)
  <2>1. pc[Caller] = "leaving" /\ pc'[Caller] = "done" /\ UNCHANGED <<record, quota>>
    BY <1>0, <1>7 DEF Leave, Goto, McpTypeOK, quotaVars, usageVars
  <2>2. told # "pending" => SettledRight' /\ RecordedRight'
    BY <1>m, <2>1 DEF AnswerInv, SettledRight, RecordedRight
  <2> QED
    BY <1>0, <1>n, <2>1, <2>2 DEF AnswerInv
<1>8. ~ToolEnds(Caller)
  BY DEF OutsideTool, ToolEnds, ToolReturns, ToolPanics
<1> QED
  BY <1>1, <1>2, <1>3, <1>4, <1>5, <1>6, <1>7, <1>8 DEF OutsideTool, RequestStep

\* The handler comes back with the tool's result, with an error of the SDK's, with
\* nothing, or panicking, and is judged by the marker of that moment.
LEMMA HandlerEndsAnswered ==
    ASSUME ChainInv, AnswerInv, HandlerEnds
    PROVE  AnswerInv'
<1>0. Caller \in Requests /\ McpTypeOK /\ MarkInv
  BY CallAssumption DEF ChainInv, AnswerInv
<1>1. ToolEnds(Caller) /\ UNCHANGED searchVars
  BY <1>0, HandlerEndsTool DEF MarkInv
<1>2. /\ pc[Caller] = "tool" /\ pc'[Caller] = "judged"
      /\ UNCHANGED <<exists, record, phase, result>>
  BY <1>0, <1>1 DEF ToolEnds, ToolReturns, ToolPanics, Goto, McpTypeOK, quotaVars, searchVars
<1>3. marker' = marker /\ seen' = marker
  BY DEF HandlerEnds, SearchReturns, LeavesEarly, SDKRefuses, HandlerReturns, HandlerPanics
<1>4. ASSUME NEW what, NEW httpOK, NEW bodyError, HandlerReturns(what, httpOK, bodyError)
      PROVE  /\ told' = what
             /\ verdict'[Caller] = IF Succeeded(marker, httpOK, bodyError) THEN "success" ELSE "failure"
  BY <1>0, <1>4 DEF HandlerReturns, ToolReturns, McpTypeOK
<1>5. told' = "result" => marker # "unknown"
  <2>1. CASE SearchReturns
    BY <2>1 DEF SearchReturns
  <2>2. CASE LeavesEarly
    <3>1. told' # "result"
      BY <2>2 DEF LeavesEarly, HandlerReturns
    <3> QED BY <3>1
  <2>3. CASE SDKRefuses
    <3>1. told' # "result"
      BY <2>3 DEF SDKRefuses, HandlerReturns
    <3> QED BY <3>1
  <2>4. CASE HandlerPanics
    BY <2>4 DEF HandlerPanics
  <2> QED
    BY <2>1, <2>2, <2>3, <2>4 DEF HandlerEnds
<1>6. MarkInv'
  BY <1>0, <1>2, <1>3, <1>5 DEF MarkInv
<1>7. JudgedRight'
  <2>1. CASE SearchReturns
    <3>1. told' = "result" /\ marker # "unknown"
      BY <1>4, <2>1 DEF SearchReturns
    <3>2. verdict'[Caller] = IF Succeeded(marker, TRUE, ~result.ok) THEN "success" ELSE "failure"
      BY <1>4, <2>1 DEF SearchReturns
    <3>3. Succeeded(marker, TRUE, ~result.ok) <=> marker = "success"
      BY <3>1 DEF Succeeded
    <3> QED
      BY <1>0, <1>2, <1>3, <3>1, <3>2, <3>3 DEF MarkInv, JudgedRight, Deserved, Delivered
  <2>2. CASE LeavesEarly
    <3>1. /\ told' = "nothing"
          /\ verdict'[Caller] = IF Succeeded(marker, TRUE, FALSE) THEN "success" ELSE "failure"
      BY <1>4, <2>2 DEF LeavesEarly
    <3>2. Succeeded(marker, TRUE, FALSE) => marker \in {"unknown", "success"}
      BY DEF Succeeded
    <3> QED
      BY <1>0, <1>2, <1>3, <3>1, <3>2 DEF MarkInv, JudgedRight, Deserved, Delivered
  <2>3. CASE SDKRefuses
    <3>1. PICK httpOK \in BOOLEAN : HandlerReturns("refusal", httpOK, TRUE)
      BY <2>3 DEF SDKRefuses
    <3>2. /\ told' = "refusal"
          /\ verdict'[Caller] = IF Succeeded(marker, httpOK, TRUE) THEN "success" ELSE "failure"
      BY <1>4, <3>1
    <3>3. Succeeded(marker, httpOK, TRUE) => marker = "success"
      BY DEF Succeeded
    <3> QED
      BY <1>0, <1>2, <1>3, <3>2, <3>3 DEF MarkInv, JudgedRight, Deserved, Delivered
  <2>4. CASE HandlerPanics
    <3>1. told' = "panic" /\ verdict'[Caller] = "panic"
      BY <1>0, <2>4 DEF HandlerPanics, ToolPanics, McpTypeOK
    <3> QED
      BY <3>1 DEF JudgedRight, Delivered
  <2> QED
    BY <2>1, <2>2, <2>3, <2>4 DEF HandlerEnds
<1> QED
  BY <1>2, <1>6, <1>7 DEF AnswerInv

LEMMA CallAnswered ==
    ASSUME ChainInv, AnswerInv, [CallNext]_callVars
    PROVE  AnswerInv'
<1>0. Caller \in Requests /\ McpTypeOK /\ MarkInv
  BY CallAssumption DEF ChainInv, AnswerInv
<1>1. CASE Search(SearchNext)
  <2>1. UNCHANGED <<mcpVars, marker, told, seen>>
    BY <1>1 DEF Search, outcomeVars
  <2>2. marker # "unknown" => phase' = "ended" /\ result' = result
    BY <1>0, <1>1, EndedStays DEF Search, MarkInv
  <2>3. pc' = pc
    BY <2>1 DEF mcpVars
  <2>4. MarkInv'
    BY <1>0, <2>1, <2>2, <2>3 DEF MarkInv
  <2> QED
    BY <2>1, <2>2, <2>4, SearchGoesOn
<1>2. CASE MarkOutcome
  <2>1. /\ UNCHANGED <<mcpVars, told, seen>> /\ phase = "ended" /\ marker = "unknown"
        /\ marker' = ToolOutcome /\ UNCHANGED <<phase, result>>
    BY <1>2 DEF MarkOutcome, searchVars
  <2>2. pc' = pc
    BY <2>1 DEF mcpVars
  <2>3. MarkInv'
    BY <1>0, <2>1, <2>2 DEF MarkInv, ToolOutcome, Markers
  <2> QED
    BY <2>1, <2>3, SearchGoesOn
<1>3. CASE UNCHANGED callVars
  <2>1. UNCHANGED <<mcpVars, phase, result, marker, told, seen>>
    BY <1>3 DEF callVars, searchVars, outcomeVars
  <2>2. pc' = pc
    BY <2>1 DEF mcpVars
  <2>3. MarkInv'
    BY <1>0, <2>1, <2>2 DEF MarkInv
  <2> QED
    BY <2>1, <2>3, SearchGoesOn
<1> QED
  BY <1>1, <1>2, <1>3, OutsideToolAnswered, HandlerEndsAnswered DEF CallNext, HandlerEnds

\* From the middlewares to the upstream and back (usage/middleware.go 239-268,
\* mcp/tools.go 242-296): whenever the handler returns, before, while or after the search
\* runs, a call is charged or logged as a success only for a finished answer or when its
\* client left before the outcome was known, and a delivered answer is logged and kept.
THEOREM CallChargedForAnswers == CallSpec => []ChargedForAnswers
<1>1. CallInit => ChainInv /\ AnswerInv
  <2>1. McpInit => UserOf[Caller] \in exists /\ pc[Caller] = "arrived" /\ record[Caller] = "none"
    BY CallAssumption, LimiterAssumption DEF McpInit, QuotaInit
  <2> QED
    BY <2>1, ChainInitInv DEF CallInit, AnswerInv, MarkInv, Markers
<1>2. ChainInv /\ AnswerInv /\ [CallNext]_callVars => (ChainInv /\ AnswerInv)'
  <2>1. AnswerInv => marker \in Markers
    BY DEF AnswerInv, MarkInv
  <2> QED
    BY <2>1, CallUsesChain, ChainStepInv, CallAnswered
<1>3. AnswerInv => ChargedForAnswers
  BY DEF AnswerInv, SettledRight, RecordedRight, Delivered, ChargedForAnswers
<1> QED
  BY <1>1, <1>2, <1>3, PTL DEF CallSpec

-----------------------------------------------------------------------------
(* Extrema of sets of numbers.                                             *)

\* The smallest of a set of numbers is in it.
LEMMA MinOfNaturals ==
    ASSUME NEW S \in SUBSET Nat, S # {}
    PROVE  Min(S) \in S /\ \A u \in S : Min(S) <= u
<1> DEFINE Before == {p \in Nat \X Nat : p[1] < p[2]}
<1>1. OpToRel(<, Nat) = Before
    BY Zenon DEF OpToRel
<1>2. IsWellFoundedOn(Before, Nat)
    BY <1>1, NatLessThanWellFounded, Zenon
<1> HIDE DEF Before
<1>3. PICK t \in S : \A u \in S : ~(<<u, t>> \in Before)
    BY <1>2, WFMin
<1>4. \A u \in S : ~(u < t)
    BY <1>3 DEF Before
<1>5. \A u \in S : t <= u
    BY <1>4
<1> QED BY <1>5 DEF Min

\* So is the largest, when they are bounded.
LEMMA MaxOfNaturals ==
    ASSUME NEW S \in SUBSET Nat, S # {}, NEW n \in Nat, \A u \in S : u <= n
    PROVE  Max(S) \in S /\ \A u \in S : u <= Max(S)
<1> DEFINE D == {n - u : u \in S}
<1>1. D \subseteq Nat /\ D # {}
    <2>1. \A u \in S : n - u \in Nat
        OBVIOUS
    <2> QED BY <2>1
<1>2. PICK d \in D : \A e \in D : d <= e
    <2> HIDE DEF D
    <2> QED BY <1>1, MinOfNaturals
<1>3. PICK t \in S : d = n - t
    BY <1>2
<1>4. \A u \in S : n - u \in D /\ n - t <= n - u
    BY <1>2, <1>3
<1>5. \A u \in S : t >= u
    BY <1>4
<1>6. Max(S) \in S /\ \A u \in S : Max(S) >= u
    BY <1>5 DEF Max
<1> QED BY <1>6

-----------------------------------------------------------------------------
(* Folds.  A fold of the community modules is a function on sets of        *)
(* positions; that there is such a function, and what it says of the       *)
(* positions up to k, is all that is needed of it.                         *)

\* The function that a fold with the steps g defines on the sets of positions up to n.
FoldFunctions(n, A, base, g) ==
  {f \in [SUBSET (1 .. n) -> A] :
     \A s \in SUBSET (1 .. n) : f[s] = IF s = {} THEN base ELSE g[<<Max(s), f[s \ {Max(s)}]>>]}

\* The largest position of a set.
LEMMA LargestPosition ==
    ASSUME NEW n \in Nat
    PROVE  /\ \A s \in SUBSET (1 .. n) : s # {} => Max(s) \in s
           /\ n # 0 => Max(1 .. n) = n
           /\ \A s \in SUBSET (1 .. n + 1) : n + 1 \in s => Max(s) = n + 1
<1>1. ASSUME NEW s \in SUBSET (1 .. n), s # {} PROVE Max(s) \in s
    <2>1. s \in SUBSET Nat /\ \A u \in s : u <= n
        OBVIOUS
    <2> QED BY <1>1, <2>1, MaxOfNaturals
<1>2. ASSUME NEW m \in Nat \ {0}, NEW s \in SUBSET (1 .. m), m \in s PROVE Max(s) = m
    <2>1. s \in SUBSET Nat /\ s # {} /\ \A u \in s : u <= m
        BY <1>2
    <2>2. Max(s) \in s /\ \A u \in s : u <= Max(s)
        BY <2>1, MaxOfNaturals
    <2>3. PICK k : k = Max(s)
        OBVIOUS
    <2>4. k \in Nat /\ k <= m /\ m <= k
        BY <1>2, <2>1, <2>2, <2>3
    <2> QED BY <2>3, <2>4
<1> QED BY <1>1, <1>2

\* The first k positions and the last of them.
LEMMA FirstPositions ==
    ASSUME NEW n \in Nat, NEW k \in 1 .. n
    PROVE  /\ 1 .. k \in SUBSET (1 .. n) /\ 1 .. k # {} /\ k - 1 \in 0 .. n /\ k \in 0 .. n
           /\ (1 .. k) \ {k} = 1 .. k - 1 /\ Max(1 .. k) = k
<1>1. k \in Nat /\ k # 0 /\ k - 1 \in 0 .. n /\ k \in 0 .. n
    OBVIOUS
<1>2. 1 .. k \in SUBSET (1 .. n) /\ 1 .. k # {}
    OBVIOUS
<1>3. (1 .. k) \ {k} = 1 .. k - 1
    OBVIOUS
<1> QED BY <1>1, <1>2, <1>3, LargestPosition

\* There is such a function.
LEMMA FoldFunctionExists ==
    ASSUME NEW n \in Nat, NEW A, NEW base \in A, NEW g \in [(1 .. n) \X A -> A]
    PROVE  FoldFunctions(n, A, base, g) # {}
<1> DEFINE Missing == {k \in 0 .. n : FoldFunctions(k, A, base, g) = {}}
<1>1. 0 \notin Missing
    <2>1. PICK f : f = [s \in SUBSET (1 .. 0) |-> base]
        OBVIOUS
    <2>2. \A s \in SUBSET (1 .. 0) : s = {}
        OBVIOUS
    <2>3. f \in FoldFunctions(0, A, base, g)
        BY <2>1, <2>2 DEF FoldFunctions
    <2> QED BY <2>3
<1>2. ASSUME NEW k \in 0 .. n, k < n, k \notin Missing PROVE k + 1 \notin Missing
    <2>1. PICK f \in FoldFunctions(k, A, base, g) : TRUE
        BY <1>2
    <2>2. PICK e : e = [s \in SUBSET (1 .. k + 1) |-> IF k + 1 \in s THEN g[<<k + 1, f[s \ {k + 1}]>>] ELSE f[s]]
        OBVIOUS
    <2>3. k \in Nat /\ k + 1 \in 1 .. n
        BY <1>2
    <2>4. \A s \in SUBSET (1 .. k + 1) : s \ {k + 1} \in SUBSET (1 .. k) /\ (k + 1 \notin s => s \in SUBSET (1 .. k))
        BY <2>3
    <2>5. f \in [SUBSET (1 .. k) -> A]
          /\ \A s \in SUBSET (1 .. k) : f[s] = IF s = {} THEN base ELSE g[<<Max(s), f[s \ {Max(s)}]>>]
        BY DEF FoldFunctions
    <2>6. e \in [SUBSET (1 .. k + 1) -> A]
        <3>1. \A s \in SUBSET (1 .. k + 1) : k + 1 \in s => g[<<k + 1, f[s \ {k + 1}]>>] \in A
            BY <2>3, <2>4, <2>5
        <3>2. \A s \in SUBSET (1 .. k + 1) : k + 1 \notin s => f[s] \in A
            BY <2>4, <2>5
        <3> QED BY <2>2, <3>1, <3>2
    <2>7. ASSUME NEW s \in SUBSET (1 .. k + 1)
          PROVE  e[s] = IF s = {} THEN base ELSE g[<<Max(s), e[s \ {Max(s)}]>>]
        <3>1. CASE k + 1 \in s
            <4>1. Max(s) = k + 1 /\ s # {}
                BY <2>3, <3>1, LargestPosition
            <4>2. s \ {k + 1} \in SUBSET (1 .. k + 1) /\ k + 1 \notin s \ {k + 1}
                OBVIOUS
            <4>3. e[s \ {k + 1}] = f[s \ {k + 1}]
                BY <2>2, <4>2
            <4> QED BY <2>2, <3>1, <4>1, <4>3
        <3>2. CASE k + 1 \notin s /\ s # {}
            <4>1. s \in SUBSET (1 .. k) /\ e[s] = f[s]
                BY <2>2, <2>4, <3>2
            <4>2. PICK m : m = Max(s)
                OBVIOUS
            <4>3. s \ {m} \in SUBSET (1 .. k + 1) /\ k + 1 \notin s \ {m} 
                BY <3>2
            <4>4. e[s \ {m}] = f[s \ {m}]
                BY <2>2, <4>3
            <4>5. f[s] = g[<<m, f[s \ {m}]>>]
                BY <2>5, <3>2, <4>1, <4>2
            <4> QED BY <3>2, <4>1, <4>2, <4>4, <4>5
        <3>3. CASE s = {}
            <4>1. s \in SUBSET (1 .. k) /\ k + 1 \notin s
                BY <3>3
            <4> QED BY <2>2, <2>5, <3>3, <4>1
        <3> QED BY <3>1, <3>2, <3>3
    <2>8. e \in FoldFunctions(k + 1, A, base, g)
        BY <2>6, <2>7 DEF FoldFunctions
    <2> QED BY <2>8
<1>3. Missing = {}
    <2> SUFFICES ASSUME Missing # {} PROVE FALSE
        OBVIOUS
    <2>1. Missing \in SUBSET Nat
        OBVIOUS
    <2>2. PICK m : m \in Missing /\ \A u \in Missing : m <= u
        BY <2>1, MinOfNaturals
    <2>3. m \in 0 .. n /\ m # 0
        BY <1>1, <2>2
    <2>4. m - 1 \in 0 .. n /\ m - 1 < n /\ ~(m <= m - 1)
        BY <2>3
    <2>5. m - 1 \notin Missing
        BY <2>2, <2>4
    <2>6. (m - 1) + 1 \notin Missing
        BY <1>2, <2>4, <2>5
    <2>7. (m - 1) + 1 = m
        BY <2>3
    <2> QED BY <2>2, <2>6, <2>7
<1> QED BY <1>3

\* A function that follows the steps g from position to position, while it is in A; and
\* a last value that they lead to.
FollowsSteps(n, A, base, g, e) ==
  /\ e[{}] = base
  /\ \A k \in 1 .. n : e[1 .. k - 1] \in A => e[1 .. k] = g[<<k, e[1 .. k - 1]>>]
StepsLeadTo(n, A, base, g, last) ==
  \E h \in [0 .. n -> A] : h[0] = base /\ h[n] = last /\ \A k \in 1 .. n : h[k] = g[<<k, h[k - 1]>>]

\* A function that follows the steps gives the values along the way, all in A.
LEMMA FoldSteps ==
    ASSUME NEW n \in Nat, NEW A, NEW base \in A, NEW g \in [(1 .. n) \X A -> A], NEW e,
           FollowsSteps(n, A, base, g, e)
    PROVE  StepsLeadTo(n, A, base, g, e[1 .. n])
<1>0. e[{}] = base /\ \A k \in 1 .. n : e[1 .. k - 1] \in A => e[1 .. k] = g[<<k, e[1 .. k - 1]>>]
    BY DEF FollowsSteps
<1>1. PICK h : h = [k \in 0 .. n |-> e[1 .. k]]
    OBVIOUS
<1>2. h[0] = base /\ h[n] = e[1 .. n]
    <2>1. 1 .. 0 = {} /\ 0 \in 0 .. n /\ n \in 0 .. n
        OBVIOUS
    <2> QED BY <1>0, <1>1, <2>1
<1>3. ASSUME NEW k \in 1 .. n, h[k - 1] \in A PROVE h[k] = g[<<k, h[k - 1]>>] /\ h[k] \in A
    <2>1. k - 1 \in 0 .. n /\ k \in 0 .. n
        OBVIOUS
    <2>2. h[k] = e[1 .. k] /\ h[k - 1] = e[1 .. k - 1]
        BY <1>1, <2>1
    <2> QED BY <1>0, <1>3, <2>2
<1>4. \A k \in 0 .. n : h[k] \in A
    <2> DEFINE Outside == {k \in 0 .. n : h[k] \notin A}
    <2> SUFFICES ASSUME Outside # {} PROVE FALSE
        OBVIOUS
    <2>1. Outside \in SUBSET Nat
        OBVIOUS
    <2>2. PICK m : m \in Outside /\ \A u \in Outside : m <= u
        BY <2>1, MinOfNaturals
    <2>3. m \in 1 .. n /\ m - 1 \in 0 .. n /\ ~(m <= m - 1)
        BY <1>2, <2>2
    <2>4. h[m - 1] \in A
        BY <2>2, <2>3
    <2> QED BY <1>3, <2>2, <2>3, <2>4
<1>5. \A k \in 1 .. n : k - 1 \in 0 .. n
    OBVIOUS
<1>6. h \in [0 .. n -> A]
    BY <1>1, <1>4
<1> QED BY <1>2, <1>3, <1>4, <1>5, <1>6 DEF StepsLeadTo

-----------------------------------------------------------------------------
(* GrokSearch.                                                             *)
(*                                                                         *)
(* A parser never holds more than its limits, event by event and citation  *)
(* by citation (the folds).  That is what bounds the notifications: those  *)
(* of the response being read are the calls its parser has seen.           *)

\* What an upstream may send and what a parser may hold.
Words == Pieces \cup {"newline"}
Usages == [in : Nat, out : Nat]
Kinds == {"message", "comment", "junk", "error", "done", "item"}
Events == [kind : Kinds, framed : BOOLEAN, key : Nat, text : Seq(Pieces), cites : Seq(Nat), usage : Usages,
           terminal : BOOLEAN]
ParserTypes == [events : Nat, seen : SUBSET Nat, answer : Seq(Words), cites : SUBSET Nat, completed : Seq(Events),
                usage : Usages, terminal : BOOLEAN, failed : BOOLEAN]

\* A parser within its limits.
Within(p) ==
  /\ p.events <= MaxEvents
  /\ IsFiniteSet(p.seen) /\ Cardinality(p.seen) <= MaxRounds
  /\ Len(p.answer) <= MaxAnswer
  /\ IsFiniteSet(p.cites) /\ Cardinality(p.cites) <= MaxCitations
Parsers == {p \in ParserTypes : Within(p)}

\* A new parser has read nothing.
LEMMA NewParserWithin == NewParser \in Parsers
<1>1. NewParser \in ParserTypes
    BY DEF NewParser, ParserTypes, Usages
<1>2. IsFiniteSet({}) /\ Cardinality({}) = 0
    BY FS_EmptySet
<1>3. Len(<<>>) = 0
    OBVIOUS
<1>4. {MaxEvents, MaxRounds, MaxAnswer, MaxCitations} \subseteq Nat
    BY SearchAssumption
<1>5. /\ NewParser.events = 0 /\ NewParser.seen = {} /\ NewParser.answer = <<>> /\ NewParser.cites = {}
    BY DEF NewParser
<1>6. Within(NewParser)
    BY <1>2, <1>3, <1>4, <1>5 DEF Within
<1> QED BY <1>1, <1>6 DEF Parsers

\* A parser that fails keeps what it has.
LEMMA FailedWithin ==
    ASSUME NEW p \in Parsers
    PROVE  Failed(p) \in Parsers
<1>1. p \in ParserTypes /\ Within(p)
    BY DEF Parsers
<1>2. PICK q : q = Failed(p)
    OBVIOUS
<1>3. q \in ParserTypes
    BY <1>1, <1>2 DEF Failed, ParserTypes
<1>4. q.events = p.events /\ q.seen = p.seen /\ q.answer = p.answer /\ q.cites = p.cites
    BY <1>1, <1>2 DEF Failed, ParserTypes
<1> QED BY <1>1, <1>2, <1>3, <1>4 DEF Parsers, Within

\* Text is appended while it fits.
LEMMA AppendWithin ==
    ASSUME NEW p \in Parsers, NEW text \in Seq(Words)
    PROVE  AppendAnswerText(p, text) \in Parsers
<1>1. p \in ParserTypes /\ Within(p)
    BY DEF Parsers
<1>2. PICK before \in Seq(Words) : before = p.answer
    BY <1>1 DEF ParserTypes
<1>3. PICK longer \in Seq(Words) : longer = before \o text
    <2>1. before \o text \in Seq(Words)
        OBVIOUS
    <2> QED BY <2>1, Zenon
<1>4. Len(longer) = Len(before) + Len(text)
    BY <1>3
<1>5. CASE Len(p.answer) + Len(text) > MaxAnswer
    BY <1>5, FailedWithin DEF AppendAnswerText
<1>6. CASE ~(Len(p.answer) + Len(text) > MaxAnswer)
    <2>1. PICK q : q = [p EXCEPT !.answer = longer]
        OBVIOUS
    <2>2. AppendAnswerText(p, text) = q
        BY <1>2, <1>3, <1>6, <2>1 DEF AppendAnswerText
    <2>3. q \in ParserTypes /\ q.events = p.events /\ q.seen = p.seen /\ q.answer = longer /\ q.cites = p.cites
        BY <1>1, <2>1 DEF ParserTypes
    <2>4. Len(longer) <= MaxAnswer
        <3>1. MaxAnswer \in Nat /\ Len(before) \in Nat /\ Len(text) \in Nat
            BY SearchAssumption
        <3> QED BY <1>2, <1>4, <1>6, <3>1
    <2> QED BY <1>1, <2>2, <2>3, <2>4 DEF Parsers, Within
<1> QED BY <1>5, <1>6

\* A citation is added while there is room.
LEMMA CitationWithin ==
    ASSUME NEW p \in Parsers, NEW url \in Nat
    PROVE  AddCitation(p, url) \in Parsers
<1>1. p \in ParserTypes /\ Within(p)
    BY DEF Parsers
<1>2. CASE p.failed \/ url \in p.cites
    BY <1>2 DEF AddCitation
<1>3. CASE ~(p.failed \/ url \in p.cites) /\ Cardinality(p.cites) >= MaxCitations
    BY <1>3, FailedWithin DEF AddCitation
<1>4. CASE ~(p.failed \/ url \in p.cites) /\ ~(Cardinality(p.cites) >= MaxCitations)
    <2>1. PICK q : q = [p EXCEPT !.cites = @ \union {url}]
        OBVIOUS
    <2>2. AddCitation(p, url) = q
        BY <1>4, <2>1 DEF AddCitation
    <2>3. q \in ParserTypes /\ q.events = p.events /\ q.seen = p.seen /\ q.answer = p.answer
          /\ q.cites = p.cites \cup {url}
        BY <1>1, <2>1 DEF ParserTypes
    <2>4. IsFiniteSet(p.cites) /\ Cardinality(p.cites) \in Nat
        BY <1>1, FS_CardinalityType DEF Within
    <2>5. IsFiniteSet(p.cites \cup {url}) /\ Cardinality(p.cites \cup {url}) = Cardinality(p.cites) + 1
        BY <1>4, <2>4, FS_AddElement
    <2>6. MaxCitations \in Nat
        BY SearchAssumption
    <2>7. Cardinality(q.cites) <= MaxCitations
        BY <1>4, <2>3, <2>4, <2>5, <2>6
    <2> QED BY <1>1, <2>2, <2>3, <2>5, <2>7 DEF Parsers, Within
<1> QED BY <1>2, <1>3, <1>4

\* A search call is announced while there is room.
LEMMA RoundWithin ==
    ASSUME NEW p \in Parsers, NEW key \in Nat
    PROVE  EmitSearchRound(p, key) \in Parsers
<1>1. p \in ParserTypes /\ Within(p)
    BY DEF Parsers
<1>2. CASE key \in p.seen
    BY <1>2 DEF EmitSearchRound
<1>3. CASE key \notin p.seen /\ Cardinality(p.seen) >= MaxRounds
    BY <1>3, FailedWithin DEF EmitSearchRound
<1>4. CASE key \notin p.seen /\ ~(Cardinality(p.seen) >= MaxRounds)
    <2>1. PICK q : q = [p EXCEPT !.seen = @ \union {key}]
        OBVIOUS
    <2>2. EmitSearchRound(p, key) = q
        BY <1>4, <2>1 DEF EmitSearchRound
    <2>3. q \in ParserTypes /\ q.events = p.events /\ q.cites = p.cites /\ q.answer = p.answer
          /\ q.seen = p.seen \cup {key}
        BY <1>1, <2>1 DEF ParserTypes
    <2>4. IsFiniteSet(p.seen) /\ Cardinality(p.seen) \in Nat
        BY <1>1, FS_CardinalityType DEF Within
    <2>5. IsFiniteSet(p.seen \cup {key}) /\ Cardinality(p.seen \cup {key}) = Cardinality(p.seen) + 1
        BY <1>4, <2>4, FS_AddElement
    <2>6. MaxRounds \in Nat
        BY SearchAssumption
    <2>7. Cardinality(q.seen) <= MaxRounds
        BY <1>4, <2>3, <2>4, <2>5, <2>6
    <2> QED BY <1>1, <2>2, <2>3, <2>5, <2>7 DEF Parsers, Within
<1> QED BY <1>2, <1>3, <1>4

\* Usage, the mark of the end, the completed response and the count of events change nothing
\* that is limited, except for the count itself.
LEMMA UnlimitedFields ==
    ASSUME NEW p \in Parsers
    PROVE  /\ \A u \in Usages : [p EXCEPT !.usage = u] \in Parsers
           /\ \A b \in BOOLEAN : [p EXCEPT !.terminal = b] \in Parsers
           /\ \A e \in Events : [p EXCEPT !.completed = <<e>>] \in Parsers
           /\ p.events < MaxEvents => [p EXCEPT !.events = @ + 1] \in Parsers
<1>1. p \in ParserTypes /\ Within(p)
    BY DEF Parsers
<1>2. ASSUME NEW u \in Usages PROVE [p EXCEPT !.usage = u] \in Parsers
    BY <1>1 DEF Parsers, ParserTypes, Within
<1>3. ASSUME NEW b \in BOOLEAN PROVE [p EXCEPT !.terminal = b] \in Parsers
    BY <1>1 DEF Parsers, ParserTypes, Within
<1>4. ASSUME NEW e \in Events PROVE [p EXCEPT !.completed = <<e>>] \in Parsers
    <2>1. PICK c \in Seq(Events) : c = <<e>>
        <3>1. <<e>> \in Seq(Events)
            OBVIOUS
        <3> QED BY <3>1, Zenon
    <2>2. [p EXCEPT !.completed = c] \in Parsers
        BY <1>1 DEF Parsers, ParserTypes, Within
    <2> QED BY <2>1, <2>2
<1>5. ASSUME p.events < MaxEvents PROVE [p EXCEPT !.events = @ + 1] \in Parsers
    <2>1. MaxEvents \in Nat /\ p.events \in Nat
        BY <1>1, SearchAssumption DEF ParserTypes
    <2>2. PICK m \in Nat : m = p.events + 1 /\ m <= MaxEvents
        BY <1>5, <2>1
    <2>3. PICK q : q = [p EXCEPT !.events = m]
        OBVIOUS
    <2>4. q \in ParserTypes /\ q.events = m /\ q.seen = p.seen /\ q.answer = p.answer /\ q.cites = p.cites
        BY <1>1, <2>3 DEF ParserTypes
    <2>5. q \in Parsers
        BY <1>1, <2>2, <2>4 DEF Parsers, Within
    <2> QED BY <2>2, <2>3, <2>5
<1> QED BY <1>2, <1>3, <1>4, <1>5

\* The last value is one the steps lead to.
LEMMA StepsStayWithin ==
    ASSUME NEW n \in Nat, NEW A, NEW base, NEW g, NEW last, StepsLeadTo(n, A, base, g, last)
    PROVE  last \in A
<1>1. PICK h \in [0 .. n -> A] : h[n] = last
    BY DEF StepsLeadTo
<1>2. n \in 0 .. n
    OBVIOUS
<1> QED BY <1>1, <1>2

\* The citations of an event, one by one.
CitationSteps(urls) == [w \in (1 .. Len(urls)) \X Parsers |-> AddCitation(w[2], urls[w[1]])]

LEMMA CitationsAreSteps ==
    ASSUME NEW p \in Parsers, NEW urls \in Seq(Nat)
    PROVE  StepsLeadTo(Len(urls), Parsers, p, CitationSteps(urls), FoldLeft(AddCitation, p, urls))
<1>1. PICK n \in Nat : n = Len(urls) /\ DOMAIN urls = 1 .. n
    OBVIOUS
<1>2. PICK g : g = CitationSteps(urls) /\ g = [w \in (1 .. n) \X Parsers |-> AddCitation(w[2], urls[w[1]])]
    BY <1>1 DEF CitationSteps
<1>3. g \in [(1 .. n) \X Parsers -> Parsers]
    <2>1. \A k \in 1 .. n : urls[k] \in Nat
        BY <1>1
    <2> QED BY <1>2, <2>1, CitationWithin
<1>4. PICK f : f \in FoldFunctions(n, Parsers, p, g)
    BY <1>3, FoldFunctionExists
<1>5. f = [s \in SUBSET (DOMAIN urls) |->
             IF s = {} THEN p ELSE AddCitation(f[s \ {Max(s)}], urls[Max(s)])]
    <2>1. ASSUME NEW s \in SUBSET (1 .. n), s # {}
          PROVE  f[s] = AddCitation(f[s \ {Max(s)}], urls[Max(s)])
        <3>1. PICK m : m = Max(s) /\ m \in 1 .. n
            BY <2>1, LargestPosition
        <3>2. s \ {m} \in SUBSET (1 .. n)
            OBVIOUS
        <3>3. f[s] = g[<<m, f[s \ {m}]>>] /\ f[s \ {m}] \in Parsers
            BY <1>4, <2>1, <3>1, <3>2 DEF FoldFunctions
        <3> QED BY <1>2, <3>1, <3>3
    <2> QED BY <1>1, <1>4, <2>1 DEF FoldFunctions
<1>6. PICK e : /\ e = [s \in SUBSET (DOMAIN urls) |->
                         IF s = {} THEN p ELSE AddCitation(e[s \ {Max(s)}], urls[Max(s)])]
               /\ FoldLeft(AddCitation, p, urls) = e[DOMAIN urls]
    BY <1>5, Zenon DEF FoldLeft, MapThenFoldSet
<1>7. e[{}] = p /\ e[1 .. n] = FoldLeft(AddCitation, p, urls)
    BY <1>1, <1>6
<1>8. ASSUME NEW k \in 1 .. n, e[1 .. k - 1] \in Parsers
      PROVE  e[1 .. k] = g[<<k, e[1 .. k - 1]>>]
    <2>1. PICK before \in Parsers : before = e[1 .. k - 1]
        BY <1>8
    <2>2. PICK all : all = 1 .. k
        OBVIOUS
    <2>3. all \in SUBSET (DOMAIN urls) /\ all # {} /\ all \ {k} = 1 .. k - 1 /\ Max(all) = k
        BY <1>1, <2>2, FirstPositions
    <2>4. e[all] = AddCitation(e[all \ {Max(all)}], urls[Max(all)])
        BY <1>6, <2>3
    <2>5. e[all] = AddCitation(before, urls[k])
        BY <2>1, <2>3, <2>4
    <2>6. g[<<k, before>>] = AddCitation(before, urls[k])
        BY <1>2
    <2> QED BY <2>1, <2>2, <2>5, <2>6
<1>9. FollowsSteps(n, Parsers, p, g, e)
    BY <1>7, <1>8 DEF FollowsSteps
<1>10. StepsLeadTo(n, Parsers, p, g, e[1 .. n])
    BY <1>3, <1>9, FoldSteps
<1> QED BY <1>1, <1>2, <1>7, <1>10

LEMMA CitationsWithin ==
    ASSUME NEW p \in Parsers, NEW urls \in Seq(Nat)
    PROVE  FoldLeft(AddCitation, p, urls) \in Parsers
<1>1. Len(urls) \in Nat
    OBVIOUS
<1> QED BY <1>1, CitationsAreSteps, StepsStayWithin

\* The text and the citations of an event.
LEMMA CollectWithin ==
    ASSUME NEW p \in Parsers, NEW text \in Seq(Words), NEW urls \in Seq(Nat)
    PROVE  Collect(p, text, urls) \in Parsers
<1>1. PICK q \in Parsers : q = AppendAnswerText(p, text)
    BY AppendWithin
<1>2. FoldLeft(AddCitation, q, urls) \in Parsers
    BY CitationsWithin
<1> QED BY <1>1, <1>2 DEF Collect

\* Pieces are words.
LEMMA PiecesAreWords ==
    ASSUME NEW text \in Seq(Pieces)
    PROVE  text \in Seq(Words)
<1>1. PICK n \in Nat : n = Len(text)
    OBVIOUS
<1>2. text \in [1 .. n -> Words]
    BY <1>1 DEF Words
<1> QED BY <1>2

\* An event of the chat and of the anthropic protocol.
LEMMA MessageWithin ==
    ASSUME NEW p \in Parsers, NEW e \in Events
    PROVE  ConsumeChat(p, e) \in Parsers /\ ConsumeAnthropic(p, e) \in Parsers
<1>1. e.text \in Seq(Words) /\ e.cites \in Seq(Nat) /\ e.usage \in Usages
    BY PiecesAreWords DEF Events
<1>2. PICK q \in Parsers : q = Collect(p, e.text, e.cites)
    BY <1>1, CollectWithin
<1>3. q.usage \in Usages
    BY DEF Parsers, ParserTypes
<1>4. PICK u \in Usages : u = IF e.usage.in + e.usage.out = 0 THEN q.usage ELSE e.usage
    BY <1>1, <1>3
<1>5. ConsumeChat(p, e) = [q EXCEPT !.usage = u]
    BY <1>2, <1>4 DEF ConsumeChat, Parsers, ParserTypes
<1>6. PICK w \in Usages : w = MergeUsage(q.usage, e.usage)
    BY <1>1, <1>3 DEF MergeUsage, Usages
<1>7. ConsumeAnthropic(p, e) = [q EXCEPT !.usage = w]
    BY <1>2, <1>6 DEF ConsumeAnthropic, Parsers, ParserTypes
<1> QED BY <1>5, <1>7, UnlimitedFields

\* The callback of each protocol.
LEMMA HandleWithin ==
    ASSUME NEW p \in Parsers, NEW e \in Events, NEW protocol \in {"responses", "chat", "anthropic"}
    PROVE  Handle(protocol, p, e) \in Parsers
<1>1. e.key \in Nat /\ e.terminal \in BOOLEAN
    BY DEF Events
<1>2. EmitSearchRound(p, e.key) \in Parsers
    BY <1>1, RoundWithin
<1>3. p.terminal \in BOOLEAN
    BY DEF Parsers, ParserTypes
<1>4. PICK b \in BOOLEAN : b = (p.terminal \/ e.terminal)
    <2>1. (p.terminal \/ e.terminal) \in BOOLEAN
        BY <1>1, <1>3
    <2> QED BY <2>1, Zenon
<1>5. PICK q \in Parsers : q = [p EXCEPT !.terminal = b]
    BY UnlimitedFields
<1>6. q = [p EXCEPT !.terminal = @ \/ e.terminal]
    BY <1>4, <1>5 DEF Parsers, ParserTypes
<1>7. [p EXCEPT !.completed = <<e>>] \in Parsers /\ [p EXCEPT !.terminal = TRUE] \in Parsers
    BY UnlimitedFields
<1>8. HandleResponses(p, e) \in Parsers
    <2>1. CASE e.kind = "item"
        BY <1>2, <2>1 DEF HandleResponses
    <2>2. CASE e.kind = "message" /\ e.terminal
        BY <1>7, <2>2 DEF HandleResponses
    <2>3. CASE e.kind # "item" /\ ~(e.kind = "message" /\ e.terminal)
        BY <2>3 DEF HandleResponses
    <2> QED BY <2>1, <2>2, <2>3
<1>9. HandleChat(p, e) \in Parsers
    <2>1. CASE e.kind = "item"
        BY <1>2, <2>1 DEF HandleChat
    <2>2. CASE e.kind = "done"
        BY <1>7, <2>2 DEF HandleChat
    <2>3. CASE e.kind # "item" /\ e.kind # "done"
        BY <1>6, <2>3, MessageWithin DEF HandleChat
    <2> QED BY <2>1, <2>2, <2>3
<1>10. HandleAnthropic(p, e) \in Parsers
    BY <1>6, MessageWithin DEF HandleAnthropic
<1> QED BY <1>8, <1>9, <1>10 DEF Handle

\* An event of a stream.
LEMMA EventWithin ==
    ASSUME NEW p \in Parsers, NEW e \in Events, NEW protocol \in {"responses", "chat", "anthropic"}
    PROVE  ConsumeEvent(protocol, p, e) \in Parsers
<1>1. Failed(p) \in Parsers
    BY FailedWithin
<1>2. CASE p.failed \/ e.kind = "comment" \/ ~e.framed
    BY <1>2 DEF ConsumeEvent
<1>3. CASE ~(p.failed \/ e.kind = "comment" \/ ~e.framed) /\ (p.events >= MaxEvents \/ e.kind \in {"junk", "error"})
    BY <1>1, <1>3 DEF ConsumeEvent
<1>4. CASE ~(p.failed \/ e.kind = "comment" \/ ~e.framed) /\ ~(p.events >= MaxEvents \/ e.kind \in {"junk", "error"})
    <2>1. MaxEvents \in Nat /\ p.events \in Nat
        BY SearchAssumption DEF Parsers, ParserTypes
    <2>2. p.events < MaxEvents
        BY <1>4, <2>1
    <2>3. PICK q \in Parsers : q = [p EXCEPT !.events = @ + 1]
        BY <2>2, UnlimitedFields
    <2>4. Handle(protocol, q, e) \in Parsers
        BY HandleWithin
    <2> QED BY <1>4, <2>3, <2>4 DEF ConsumeEvent
<1> QED BY <1>2, <1>3, <1>4

\* The events of a whole anthropic stream, one by one.
StreamSteps(sent) ==
  [w \in (1 .. Len(sent)) \X Parsers |-> ConsumeEvent("anthropic", w[2], sent[w[1]])]

LEMMA StreamIsSteps ==
    ASSUME NEW sent \in Seq(Events)
    PROVE  StepsLeadTo(Len(sent), Parsers, NewParser, StreamSteps(sent),
                       FoldLeft(LAMBDA p, e : ConsumeEvent("anthropic", p, e), NewParser, sent))
<1>1. PICK n \in Nat : n = Len(sent) /\ DOMAIN sent = 1 .. n
    OBVIOUS
<1>2. PICK g : /\ g = StreamSteps(sent)
               /\ g = [w \in (1 .. n) \X Parsers |-> ConsumeEvent("anthropic", w[2], sent[w[1]])]
    BY <1>1 DEF StreamSteps
<1>3. g \in [(1 .. n) \X Parsers -> Parsers] /\ NewParser \in Parsers
    <2>1. \A k \in 1 .. n : sent[k] \in Events
        BY <1>1
    <2>2. \A k \in 1 .. n, p \in Parsers : ConsumeEvent("anthropic", p, sent[k]) \in Parsers
        BY <2>1, EventWithin
    <2> QED BY <1>2, <2>2, NewParserWithin
<1>4. PICK f : f \in FoldFunctions(n, Parsers, NewParser, g)
    BY <1>3, FoldFunctionExists
<1>5. f = [s \in SUBSET (DOMAIN sent) |->
             IF s = {} THEN NewParser ELSE ConsumeEvent("anthropic", f[s \ {Max(s)}], sent[Max(s)])]
    <2>1. ASSUME NEW s \in SUBSET (1 .. n), s # {}
          PROVE  f[s] = ConsumeEvent("anthropic", f[s \ {Max(s)}], sent[Max(s)])
        <3>1. PICK m : m = Max(s) /\ m \in 1 .. n
            BY <2>1, LargestPosition
        <3>2. s \ {m} \in SUBSET (1 .. n)
            OBVIOUS
        <3>3. f[s] = g[<<m, f[s \ {m}]>>] /\ f[s \ {m}] \in Parsers
            BY <1>4, <2>1, <3>1, <3>2 DEF FoldFunctions
        <3> QED BY <1>2, <3>1, <3>3
    <2> QED BY <1>1, <1>4, <2>1 DEF FoldFunctions
<1>6. PICK e : /\ e = [s \in SUBSET (DOMAIN sent) |->
                         IF s = {} THEN NewParser
                         ELSE ConsumeEvent("anthropic", e[s \ {Max(s)}], sent[Max(s)])]
               /\ FoldLeft(LAMBDA p, x : ConsumeEvent("anthropic", p, x), NewParser, sent) = e[DOMAIN sent]
    BY <1>5, Zenon DEF FoldLeft, MapThenFoldSet
<1>7. PICK last : last = FoldLeft(LAMBDA p, x : ConsumeEvent("anthropic", p, x), NewParser, sent)
    OBVIOUS
<1>8. e[{}] = NewParser /\ e[1 .. n] = last
    <2>1. last = e[DOMAIN sent]
        BY <1>6, <1>7, Zenon
    <2>2. e[{}] = NewParser
        BY <1>6
    <2> QED BY <1>1, <2>1, <2>2
<1>9. ASSUME NEW k \in 1 .. n, e[1 .. k - 1] \in Parsers
      PROVE  e[1 .. k] = g[<<k, e[1 .. k - 1]>>]
    <2>1. PICK before \in Parsers : before = e[1 .. k - 1]
        BY <1>9
    <2>2. PICK all : all = 1 .. k
        OBVIOUS
    <2>3. all \in SUBSET (DOMAIN sent) /\ all # {} /\ all \ {k} = 1 .. k - 1 /\ Max(all) = k
        BY <1>1, <2>2, FirstPositions
    <2>4. e[all] = ConsumeEvent("anthropic", e[all \ {Max(all)}], sent[Max(all)])
        BY <1>6, <2>3
    <2>5. e[all] = ConsumeEvent("anthropic", before, sent[k])
        BY <2>1, <2>3, <2>4
    <2>6. g[<<k, before>>] = ConsumeEvent("anthropic", before, sent[k])
        BY <1>2
    <2> QED BY <2>1, <2>2, <2>5, <2>6
<1>10. FollowsSteps(n, Parsers, NewParser, g, e)
    BY <1>8, <1>9 DEF FollowsSteps
<1>11. StepsLeadTo(n, Parsers, NewParser, g, last)
    BY <1>3, <1>8, <1>10, FoldSteps
<1>12. StepsLeadTo(Len(sent), Parsers, NewParser, StreamSteps(sent), last)
    BY <1>1, <1>2, <1>11
<1> QED BY <1>7, <1>12, Zenon

LEMMA StreamWithin ==
    ASSUME NEW sent \in Seq(Events)
    PROVE  FoldLeft(LAMBDA p, e : ConsumeEvent("anthropic", p, e), NewParser, sent) \in Parsers
<1>1. PICK last : last = FoldLeft(LAMBDA p, e : ConsumeEvent("anthropic", p, e), NewParser, sent)
    OBVIOUS
<1>2. StepsLeadTo(Len(sent), Parsers, NewParser, StreamSteps(sent), last)
    BY <1>1, StreamIsSteps, Zenon
<1>3. Len(sent) \in Nat
    OBVIOUS
<1>4. last \in Parsers
    BY <1>2, <1>3, StepsStayWithin
<1> QED BY <1>1, <1>4, Zenon

\* The text of a completed response.
LEMMA JoinedIsText ==
    ASSUME NEW blocks \in Seq(Pieces)
    PROVE  Joined(blocks) \in Seq(Words)
<1>1. PICK n \in Nat : n = Len(blocks) /\ \A k \in 1 .. n : blocks[k] \in Words
    BY DEF Words
<1>2. PICK m \in Nat : m = IF blocks = <<>> THEN 0 ELSE 2 * Len(blocks) - 1
    <2>1. CASE blocks = <<>>
        BY <2>1
    <2>2. CASE blocks # <<>>
        <3>1. 2 * n - 1 \in Nat
            <4>1. n # 0
                BY <1>1, <2>2
            <4> QED BY <4>1
        <3> QED BY <1>1, <2>2, <3>1
    <2> QED BY <2>1, <2>2
<1>3. \A i \in 1 .. m : (i + 1) \div 2 \in 1 .. n
    <2>1. m <= 2 * n
        BY <1>1, <1>2
    <2>2. m <= 2 * n - 1 \/ m = 0
        BY <1>1, <1>2
    <2> QED BY <2>1, <2>2
<1>4. Joined(blocks) = [i \in 1 .. m |-> IF i % 2 = 1 THEN blocks[(i + 1) \div 2] ELSE "newline"]
    BY <1>2, Zenon DEF Joined
<1>5. \A i \in 1 .. m : (IF i % 2 = 1 THEN blocks[(i + 1) \div 2] ELSE "newline") \in Words
    BY <1>1, <1>3 DEF Words
<1>6. Joined(blocks) \in [1 .. m -> Words]
    BY <1>4, <1>5
<1> QED BY <1>6

\* What the parser makes of the response.
LEMMA ResponseWithin ==
    ASSUME snap \in Settings, parser \in Parsers, body \in Seq(Events)
    PROVE  ParsedResponse \in Parsers
<1>1. snap.protocol \in {"responses", "chat", "anthropic"}
    BY SearchAssumption
<1>2. Failed(parser) \in Parsers /\ Failed(NewParser) \in Parsers
    BY FailedWithin, NewParserWithin
<1>3. EndOfResponses(parser) \in Parsers
    <2>1. CASE parser.failed \/ parser.completed = <<>>
        BY <1>2, <2>1 DEF EndOfResponses
    <2>2. CASE ~(parser.failed \/ parser.completed = <<>>)
        <3>1. PICK all \in Seq(Events) : all = parser.completed
            BY DEF Parsers, ParserTypes
        <3>2. all # <<>>
            BY <2>2, <3>1
        <3>3. PICK e \in Events : e = all[1]
            BY <3>2
        <3>4. e.text \in Seq(Pieces) /\ e.cites \in Seq(Nat) /\ e.usage \in Usages
            BY DEF Events
        <3>5. PICK q \in Parsers : q = Collect(parser, Joined(e.text), e.cites)
            BY <3>4, JoinedIsText, CollectWithin
        <3>6. [q EXCEPT !.usage = e.usage] \in Parsers
            BY <3>4, UnlimitedFields
        <3> QED BY <2>2, <3>1, <3>3, <3>5, <3>6 DEF EndOfResponses, BuildSearchResult
    <2> QED BY <2>1, <2>2
<1>4. \A p \in Parsers : EndOfStream(p) \in Parsers
    BY FailedWithin DEF EndOfStream
<1>5. EndOfChatJSON(body) \in Parsers /\ EndOfAnthropicJSON(body) \in Parsers
    <2>1. Len(body) = 1 => body[1] \in Events
        OBVIOUS
    <2> QED BY <1>2, <2>1, NewParserWithin, MessageWithin DEF EndOfChatJSON, EndOfAnthropicJSON
<1>6. ParseAnthropic(body) \in Parsers
    <2>1. PICK q : q = FoldLeft(LAMBDA p, e : ConsumeEvent("anthropic", p, e), NewParser, body)
        OBVIOUS
    <2>2. q \in Parsers
        BY <2>1, StreamWithin, Zenon
    <2>3. EndOfStream(q) \in Parsers
        BY <1>4, <2>2
    <2>4. CASE IsEventStream(body)
        <3>1. ParseAnthropic(body) = EndOfStream(q)
            BY <2>1, <2>4, Zenon DEF ParseAnthropic
        <3> QED BY <2>3, <3>1
    <2>5. CASE ~IsEventStream(body)
        <3>1. ParseAnthropic(body) = EndOfAnthropicJSON(body)
            BY <2>5, Zenon DEF ParseAnthropic
        <3> QED BY <1>5, <3>1
    <2> QED BY <2>4, <2>5
<1>7. CASE refused
    BY <1>2, <1>7 DEF ParsedResponse
<1>8. CASE ~refused /\ snap.protocol = "responses"
    BY <1>3, <1>8 DEF ParsedResponse
<1>9. CASE ~refused /\ snap.protocol = "chat"
    BY <1>4, <1>5, <1>9 DEF ParsedResponse
<1>10. CASE ~refused /\ snap.protocol = "anthropic"
    <2>1. ParsedResponse = ParseAnthropic(body)
        BY <1>10 DEF ParsedResponse
    <2> QED BY <1>6, <2>1
<1> QED BY <1>1, <1>7, <1>8, <1>9, <1>10

\* The upstream sends events.
LEMMA UpstreamSendsEvents == UpstreamEvents \subseteq Events
<1>1. Message \in Events
    <2>1. PICK t \in Seq(Pieces) : t = <<>>
        <3>1. <<>> \in Seq(Pieces)
            OBVIOUS
        <3> QED BY <3>1, Zenon
    <2>2. PICK c \in Seq(Nat) : c = <<>>
        <3>1. <<>> \in Seq(Nat)
            OBVIOUS
        <3> QED BY <3>1, Zenon
    <2>3. PICK u \in Usages : u = [in |-> 0, out |-> 0]
        BY DEF Usages
    <2>4. PICK k \in Kinds : k = "message"
        BY DEF Kinds
    <2>5. Message = [kind |-> k, framed |-> TRUE, key |-> 0, text |-> t, cites |-> c, usage |-> u, terminal |-> FALSE]
        BY <2>1, <2>2, <2>3, <2>4, Zenon DEF Message
    <2> QED BY <2>5 DEF Events
<1>2. ASSUME NEW e \in Events PROVE Terminal(e) \in Events /\ Bare(e) \in Events
    BY DEF Terminal, Bare, Events
<1>3. Comment \in Events /\ Junk \in Events /\ StreamError \in Events /\ Done \in Events
    <2>1. \A k \in Kinds : [Message EXCEPT !.kind = k] \in Events
        BY <1>1 DEF Events
    <2>2. "comment" \in Kinds /\ "junk" \in Kinds /\ "error" \in Kinds /\ "done" \in Kinds
        BY DEF Kinds
    <2> QED BY <2>1, <2>2, Zenon DEF Comment, Junk, StreamError, Done
<1>4. ASSUME NEW k \in Nat PROVE Round(k) \in Events
    <2>1. \A item \in Kinds : [Message EXCEPT !.kind = item, !.key = k] \in Events
        BY <1>1 DEF Events
    <2>2. "item" \in Kinds
        BY DEF Kinds
    <2> QED BY <2>1, <2>2, Zenon DEF Round
<1>5. ASSUME NEW t \in Seq(Pieces) PROVE Says(t) \in Events /\ \A e \in Events : [e EXCEPT !.text = t] \in Events
    BY <1>1 DEF Says, Events
<1>6. ASSUME NEW c \in Seq(Nat) PROVE Cites(c) \in Events /\ \A e \in Events : [e EXCEPT !.cites = c] \in Events
    BY <1>1 DEF Cites, Events
<1>7. ASSUME NEW i \in Nat, NEW o \in Nat PROVE Reports(i, o) \in Events
    BY <1>1 DEF Reports, Events, Usages
<1>8. <<1>> \in Seq(Nat) /\ <<2>> \in Seq(Nat) /\ <<1, 2>> \in Seq(Nat) /\ \A t \in Pieces : <<t>> \in Seq(Pieces)
    OBVIOUS
<1>9. \A t \in UNION {[1 .. n -> Pieces] : n \in 0 .. 2} : t \in Seq(Pieces)
    <2>1. ASSUME NEW n \in 0 .. 2, NEW t \in [1 .. n -> Pieces] PROVE t \in Seq(Pieces)
        OBVIOUS
    <2> QED BY <2>1, Zenon
<1> DEFINE texts == {Says(<<t>>) : t \in Pieces}
           answers == {Reports(1, 0), Reports(0, 2), Cites(<<1>>), Cites(<<2>>)} \union texts
           bare == IF IsEventStream(body) THEN {} ELSE {Bare(e) : e \in texts \union {Junk, StreamError}}
           finals == {Terminal([Reports(1, 0) EXCEPT !.text = t, !.cites = <<1>>]) :
                                t \in UNION {[1 .. n -> Pieces] : n \in 0 .. 2}}
           cited == {Terminal([Cites(<<1, 2>>) EXCEPT !.text = <<t>>]) : t \in Pieces}
           ends == {Terminal(e) : e \in texts}
           rounds == {Round(1), Round(2), Round(3), Junk, StreamError, Done}
           calls == {Round(1), Round(2), Junk, StreamError, Done}
           marks == {Junk, StreamError, Done, Terminal(Message)}
<1>10. texts \subseteq Events
    <2>1. \A t \in Pieces : Says(<<t>>) \in Events
        BY <1>5, <1>8
    <2> QED BY <2>1
<1>11. answers \subseteq Events
    <2>1. Cites(<<1>>) \in Events /\ Cites(<<2>>) \in Events
        BY <1>6, <1>8
    <2> HIDE DEF texts
    <2> QED BY <1>7, <1>10, <2>1
<1>12. bare \subseteq Events
    <2> HIDE DEF texts
    <2> QED BY <1>2, <1>3, <1>10
<1>13. finals \subseteq Events
    <2>1. ASSUME NEW t \in Seq(Pieces) PROVE Terminal([Reports(1, 0) EXCEPT !.text = t, !.cites = <<1>>]) \in Events
        <3>1. PICK e \in Events : e = Reports(1, 0)
            BY <1>7
        <3>2. PICK c \in Seq(Nat) : c = <<1>>
            BY <1>8, Zenon
        <3>3. [e EXCEPT !.text = t, !.cites = c] \in Events
            BY DEF Events
        <3> QED BY <1>2, <3>1, <3>2, <3>3
    <2>2. \A t \in UNION {[1 .. n -> Pieces] : n \in 0 .. 2} :
              Terminal([Reports(1, 0) EXCEPT !.text = t, !.cites = <<1>>]) \in Events
        BY <1>9, <2>1, Zenon
    <2> QED BY <2>2, Zenon
<1>14. cited \subseteq Events
    <2>1. ASSUME NEW t \in Pieces PROVE Terminal([Cites(<<1, 2>>) EXCEPT !.text = <<t>>]) \in Events
        <3>1. PICK e \in Events : e = Cites(<<1, 2>>)
            BY <1>6, <1>8
        <3>2. PICK c \in Seq(Pieces) : c = <<t>>
            BY <1>8, Zenon
        <3>3. [e EXCEPT !.text = c] \in Events
            BY <1>5
        <3> QED BY <1>2, <3>1, <3>2, <3>3
    <2> QED BY <2>1, Zenon
<1>15. ends \subseteq Events
    <2> HIDE DEF texts
    <2> QED BY <1>2, <1>10
<1>16. rounds \subseteq Events /\ calls \subseteq Events /\ marks \subseteq Events
    BY <1>1, <1>2, <1>3, <1>4
<1>17. UpstreamEvents \subseteq {Comment} \cup (rounds \cup finals \cup cited) \cup (calls \cup answers \cup ends \cup bare)
                                \cup (marks \cup answers \cup bare)
    <2> HIDE DEF answers, bare, finals, cited, ends, rounds, calls, marks
    <2>1. UpstreamEvents =
            {Comment} \union
            IF refused THEN {}
            ELSE IF snap.protocol = "responses" THEN rounds \union finals \union cited
            ELSE IF ~(body = <<>> \/ IsEventStream(body)) THEN bare
            ELSE IF snap.protocol = "chat" THEN calls \union answers \union ends \union bare
            ELSE marks \union answers \union bare
        BY Zenon DEF UpstreamEvents, answers, bare, finals, cited, ends, rounds, calls, marks
    <2> QED BY <2>1
<1>18. \A S, T, U, V, W, X, Y, Z : S \subseteq Events /\ T \subseteq Events /\ U \subseteq Events /\ V \subseteq Events
          /\ W \subseteq Events /\ X \subseteq Events /\ Y \subseteq Events /\ Z \subseteq Events
          => {Comment} \cup (S \cup T \cup U) \cup (V \cup W \cup X \cup Y) \cup (Z \cup W \cup Y) \subseteq Events
    BY <1>3
<1> HIDE DEF answers, bare, finals, cited, ends, rounds, calls, marks
<1> QED BY <1>11, <1>12, <1>13, <1>14, <1>15, <1>16, <1>17, <1>18, Zenon

\* The inductive invariant.  A search that has begun asks what it was asked; every request
\* went to the upstream of its snapshot; the notifications of the response being read are
\* the calls its parser has seen, those of the earlier ones were at most MaxRounds each.
SearchTypes ==
  /\ SearchTypeOK
  /\ parser \in Parsers
  /\ body \in Seq(Events) /\ Len(body) <= MaxResponse
  /\ posts \in Seq([url : STRING, key : STRING])
  /\ Len(result.answer) <= MaxAnswer /\ Cardinality(result.cites) <= MaxCitations
PostsOfSnapshot ==
  /\ \A i \in 1 .. Len(posts) : posts[i] = [url |-> snap.url, key |-> snap.key]
  /\ attempt <= MaxContinuations
  /\ Len(posts) <= attempt + 1
  /\ phase = "idle" => Len(posts) = 0 /\ attempt = 0
  /\ phase = "post" => Len(posts) = attempt
  /\ phase = "body" => Len(posts) = attempt + 1
CallsReported ==
  /\ phase # "body" => parser = NewParser
  /\ progress - Cardinality(parser.seen) \in Nat
  /\ phase # "body" => progress <= MaxRounds * Len(posts)
  /\ phase = "body" => progress - Cardinality(parser.seen) <= MaxRounds * (Len(posts) - 1)
WireAsAsked ==
  /\ wire.model = "grok"
  /\ wire.tool = "x_search" <=> wire.scope.source # "web"
  /\ wire.scope.allowed = 0 \/ wire.scope.blocked = 0
  /\ wire.scope.allowed + wire.scope.blocked <= MaxDomains
Asked == phase \in {"post", "body"} \/ Len(posts) > 0 => WireAsAsked
SearchIInv == SearchTypes /\ PostsOfSnapshot /\ CallsReported /\ Asked

\* The inductive invariant implies the invariant.
LEMMA SearchIInvImplies == SearchIInv => SearchInv
<1> SUFFICES ASSUME SearchIInv PROVE SearchInv
    OBVIOUS
<1>1. SearchTypes /\ PostsOfSnapshot /\ CallsReported /\ Asked
    BY DEF SearchIInv
<1>2. PICK n \in Nat : n = Len(posts) /\ DOMAIN posts = 1 .. n
    BY <1>1 DEF SearchTypes
<1>3. OneUpstream
    <2>1. snap \in Settings
        BY <1>1 DEF SearchTypes, SearchTypeOK
    <2>2. \A i \in 1 .. n : posts[i] = [url |-> snap.url, key |-> snap.key]
        BY <1>1, <1>2 DEF PostsOfSnapshot
    <2>3. \A i \in 1 .. n : posts[i] = posts[1]
        <3>1. ASSUME NEW i \in 1 .. n PROVE posts[i] = posts[1]
            <4>1. 1 \in 1 .. n
                OBVIOUS
            <4> QED BY <2>2, <4>1
        <3> QED BY <3>1
    <2> QED BY <1>2, <2>1, <2>2, <2>3 DEF OneUpstream
<1>4. WithinLimits
    <2>1. /\ parser.events <= MaxEvents /\ Cardinality(parser.seen) <= MaxRounds /\ Len(parser.answer) <= MaxAnswer
          /\ IsFiniteSet(parser.seen)
        BY <1>1 DEF SearchTypes, Parsers, Within
    <2>2. Len(posts) <= MaxContinuations + 1
        <3>1. MaxContinuations \in Nat /\ attempt \in Nat
            BY <1>1, SearchAssumption DEF SearchTypes, SearchTypeOK
        <3> QED BY <1>1, <1>2, <3>1 DEF PostsOfSnapshot
    <2>3. progress <= MaxRounds * Len(posts)
        <3>1. CASE phase # "body"
            BY <1>1, <3>1 DEF CallsReported
        <3>2. CASE phase = "body"
            <4>1. PICK m \in Nat : m = MaxRounds
                BY SearchAssumption
            <4>2. PICK c \in Nat : c = Cardinality(parser.seen)
                BY <2>1, FS_CardinalityType
            <4>3. progress \in Nat /\ c <= m /\ progress - c <= m * (n - 1)
                BY <1>1, <1>2, <2>1, <3>2, <4>1, <4>2 DEF CallsReported, SearchTypes, SearchTypeOK
            <4>4. m * (n - 1) = m * n - m /\ m * n \in Int
                OBVIOUS
            <4> QED BY <1>2, <4>1, <4>3, <4>4
        <3> QED BY <3>1, <3>2
    <2> QED BY <1>1, <2>1, <2>2, <2>3 DEF WithinLimits, SearchTypes
<1>5. AsksWhatWasAsked
    <2>1. posts # <<>> => Len(posts) > 0
        BY <1>1, <1>2 DEF SearchTypes
    <2> QED BY <1>1, <2>1 DEF Asked, WireAsAsked, AsksWhatWasAsked
<1> QED BY <1>1, <1>3, <1>4, <1>5 DEF SearchInv, SearchTypes

\* No search has begun.
LEMMA SearchStarts == SearchInit => SearchIInv
<1> SUFFICES ASSUME SearchInit PROVE SearchIInv
    OBVIOUS
<1>1. /\ settings \in Settings /\ snap = settings /\ phase = "idle" /\ attempt = 0 /\ posts = <<>>
      /\ body = <<>> /\ parser = NewParser /\ tokens = 0 /\ progress = 0 /\ result = NoResult
    BY DEF SearchInit
<1>2. Len(<<>>) = 0 /\ \A S : <<>> \in Seq(S)
    OBVIOUS
<1>3. IsFiniteSet({}) /\ Cardinality({}) = 0
    BY FS_EmptySet
<1>4. {MaxResponse, MaxAnswer, MaxCitations, MaxRounds, MaxContinuations} \subseteq Nat
    BY SearchAssumption
<1>5. result.ok = FALSE /\ result.answer = <<>> /\ result.cites = {}
    BY <1>1 DEF NoResult
<1>6. SearchTypes
    <2>1. SearchTypeOK
        BY <1>1, <1>5 DEF SearchTypeOK
    <2>2. parser \in Parsers /\ body \in Seq(Events) /\ posts \in Seq([url : STRING, key : STRING])
        BY <1>1, <1>2, NewParserWithin
    <2>3. Len(body) <= MaxResponse /\ Len(result.answer) <= MaxAnswer /\ Cardinality(result.cites) <= MaxCitations
        BY <1>1, <1>2, <1>3, <1>4, <1>5
    <2> QED BY <2>1, <2>2, <2>3 DEF SearchTypes
<1>7. PostsOfSnapshot
    BY <1>1, <1>2, <1>4 DEF PostsOfSnapshot
<1>8. CallsReported
    <2>1. parser.seen = {}
        BY <1>1 DEF NewParser
    <2> QED BY <1>1, <1>2, <1>3, <1>4, <2>1 DEF CallsReported
<1>9. Asked
    BY <1>1, <1>2 DEF Asked
<1> QED BY <1>6, <1>7, <1>8, <1>9 DEF SearchIInv

\* What holds of a search, however far it has come.
ResultWithin(res) ==
  res.ok \in BOOLEAN /\ Len(res.answer) <= MaxAnswer /\ Cardinality(res.cites) <= MaxCitations
SoFar ==
  /\ settings \in Settings /\ snap \in Settings
  /\ attempt \in Nat /\ attempt <= MaxContinuations /\ tokens \in Nat
  /\ posts \in Seq([url : STRING, key : STRING]) /\ Len(posts) <= attempt + 1
  /\ \A i \in 1 .. Len(posts) : posts[i] = [url |-> snap.url, key |-> snap.key]
  /\ progress \in Nat /\ progress <= MaxRounds * Len(posts)
  /\ Len(posts) > 0 => WireAsAsked

\* A search that returns with a result within its limits.
LEMMA ReturnKeeps ==
    ASSUME NEW res, Return(res), ResultWithin(res), SoFar'
    PROVE  SearchIInv'
<1>1. phase' = "ended" /\ result' = res /\ body' = <<>> /\ parser' = NewParser
    BY DEF Return
<1>2. Len(<<>>) = 0 /\ <<>> \in Seq(Events) /\ MaxResponse \in Nat
    BY SearchAssumption
<1>3. SearchTypes'
    BY <1>1, <1>2, NewParserWithin DEF SearchTypes, SearchTypeOK, SoFar, ResultWithin
<1>4. PostsOfSnapshot'
    BY <1>1 DEF PostsOfSnapshot, SoFar
<1>5. CallsReported'
    <2>1. parser'.seen = {} /\ Cardinality({}) = 0
        BY <1>1, FS_EmptySet DEF NewParser
    <2> QED BY <1>1, <2>1 DEF CallsReported, SoFar
<1>6. Asked'
    BY <1>1 DEF Asked, SoFar
<1> QED BY <1>3, <1>4, <1>5, <1>6 DEF SearchIInv

\* In every state it is so.
LEMMA AlwaysSoFar ==
    ASSUME SearchIInv
    PROVE  SoFar
<1>1. SearchTypes /\ PostsOfSnapshot /\ CallsReported /\ Asked /\ WithinLimits
    BY SearchIInvImplies DEF SearchIInv, SearchInv
<1> QED BY <1>1 DEF SearchTypes, SearchTypeOK, PostsOfSnapshot, Asked, WithinLimits, SoFar

\* A search that ends without a result.
LEMMA NoResultWithin ==
    ResultWithin(NoResult)
<1>1. MaxAnswer \in Nat /\ MaxCitations \in Nat /\ Len(<<>>) = 0 /\ Cardinality({}) = 0
    BY SearchAssumption, FS_EmptySet
<1> QED BY <1>1 DEF NoResult, ResultWithin

\* A change of the settings.
LEMMA SettingsKeep ==
    ASSUME SearchIInv, NEW new \in Settings, ApplyServerSettings(new)
    PROVE  SearchIInv'
<1>1. /\ settings' = new /\ snap' = snap /\ wire' = wire /\ attempt' = attempt /\ posts' = posts /\ phase' = phase
      /\ body' = body /\ parser' = parser /\ tokens' = tokens /\ progress' = progress /\ result' = result
    BY DEF ApplyServerSettings, wireVars, answerVars
<1> QED BY <1>1 DEF SearchIInv, SearchTypes, SearchTypeOK, PostsOfSnapshot, CallsReported, Asked, WireAsAsked

\* The sum of two numbers one of which is zero.
LEMMA NaturalsStart == 0 \in Nat /\ \A m \in Nat : 0 <= m
    OBVIOUS
LEMMA OneOfTwo == \A a, b, m \in Nat : (a = 0 \/ b = 0) /\ a <= m /\ b <= m => a + b <= m
    OBVIOUS

\* What is sent for a request that was found valid.
LEMMA RequestAsAsked ==
    ASSUME NEW req \in SearchRequests, NEW s \in Settings, ValidSearchRequest(req, s.model),
           wire' = [tool |-> req.tool, model |-> IF req.model = "" THEN s.model ELSE req.model,
                    scope |-> UpstreamScope(s.protocol, req)]
    PROVE  WireAsAsked'
<1>1. req.allowed \in Nat /\ req.excluded \in Nat /\ MaxDomains \in Nat
    BY SearchAssumption
<1>2. s.protocol \in {"responses", "chat", "anthropic"}
    BY SearchAssumption
<1>3. /\ req.tool \in {"web_search", "x_search"}
      /\ req.tool = "web_search" => /\ req.allowed = 0 \/ req.excluded = 0
                                    /\ req.allowed <= MaxDomains /\ req.excluded <= MaxDomains
      /\ "grok" \in {req.model, IF req.model = "" THEN s.model ELSE ""}
    BY DEF ValidSearchRequest
<1>4. PICK scope : scope = UpstreamScope(s.protocol, req)
    OBVIOUS
<1>5. /\ req.tool = "x_search" <=> scope.source # "web"
      /\ scope.allowed = 0 \/ scope.blocked = 0
      /\ scope.allowed + scope.blocked <= MaxDomains
    <2>1. CASE req.tool = "web_search"
        <3>1. scope = [source |-> "web", allowed |-> req.allowed, blocked |-> req.excluded]
            BY <1>2, <1>4, <2>1 DEF UpstreamScope, ResponsesScope, ChatScope, AnthropicScope
        <3>2. scope.source = "web" /\ scope.allowed = req.allowed /\ scope.blocked = req.excluded
            BY <3>1
        <3>3. scope.allowed = 0 \/ scope.blocked = 0
            BY <1>3, <2>1, <3>2
        <3>4. scope.allowed + scope.blocked <= MaxDomains
            <4>1. req.allowed + req.excluded <= MaxDomains
                BY <1>1, <1>3, <2>1, OneOfTwo, Zenon
            <4> QED BY <3>2, <4>1, Zenon
        <3>5. req.tool # "x_search"
            BY <2>1
        <3> QED BY <3>2, <3>3, <3>4, <3>5
    <2>2. CASE req.tool = "x_search"
        <3>1. /\ scope.source \in {"x", "web limited to x.com"} /\ scope.allowed = 0 /\ scope.blocked = 0
            BY <1>2, <1>4, <2>2 DEF UpstreamScope, ResponsesScope, ChatScope, AnthropicScope
        <3>2. scope.source # "web"
            BY <3>1
        <3>3. scope.allowed + scope.blocked <= MaxDomains
            <4>1. 0 + 0 <= MaxDomains
                <5>1. 0 \in Nat /\ 0 <= MaxDomains
                    BY <1>1, NaturalsStart, Zenon
                <5> QED BY <1>1, <5>1, OneOfTwo, Zenon
            <4> QED BY <3>1, <4>1, Zenon
        <3> QED BY <2>2, <3>1, <3>2, <3>3
    <2> QED BY <1>3, <2>1, <2>2
<1>6. (IF req.model = "" THEN s.model ELSE req.model) = "grok"
    BY <1>3
<1> QED BY <1>4, <1>5, <1>6 DEF WireAsAsked

\* A search begins.
LEMMA StartKeeps ==
    ASSUME SearchIInv, NEW req \in SearchRequests, StartSearch(req)
    PROVE  SearchIInv'
<1>1. SearchTypes /\ PostsOfSnapshot /\ CallsReported /\ Asked
    BY DEF SearchIInv
<1>2. /\ phase = "idle" /\ snap' = settings /\ settings' = settings /\ attempt' = attempt /\ posts' = posts
      /\ tokens' = tokens /\ progress' = progress
    BY DEF StartSearch
<1>3. Len(posts) = 0 /\ attempt = 0 /\ parser = NewParser
    BY <1>1, <1>2 DEF PostsOfSnapshot, CallsReported
<1>4. settings \in Settings
    BY <1>1 DEF SearchTypes, SearchTypeOK
<1>5. CASE ValidSearchRequest(req, settings.model)
    <2>1. /\ wire' = [tool |-> req.tool, model |-> IF req.model = "" THEN settings.model ELSE req.model,
                      scope |-> UpstreamScope(settings.protocol, req)]
          /\ phase' = "post" /\ refused' = refused /\ body' = body /\ parser' = parser /\ result' = result
        BY <1>5 DEF StartSearch
    <2>2. WireAsAsked'
        BY <1>4, <1>5, <2>1, RequestAsAsked
    <2>3. SearchTypes'
        BY <1>1, <1>2, <1>4, <2>1 DEF SearchTypes, SearchTypeOK
    <2>4. PostsOfSnapshot'
        <3>1. Len(posts') = 0 /\ attempt' = 0 /\ phase' = "post" /\ 1 .. Len(posts') = {}
            <4>1. Len(posts') = 0 /\ attempt' = 0 /\ phase' = "post"
                BY <1>2, <1>3, <2>1, Zenon
            <4>2. 1 .. 0 = {}
                OBVIOUS
            <4> QED BY <4>1, <4>2, Zenon
        <3>2. MaxContinuations \in Nat
            BY SearchAssumption
        <3> QED BY <3>1, <3>2 DEF PostsOfSnapshot
    <2>5. CallsReported'
        BY <1>1, <1>2, <1>3, <2>1 DEF CallsReported
    <2> QED BY <2>2, <2>3, <2>4, <2>5 DEF SearchIInv, Asked
<1>6. CASE ~ValidSearchRequest(req, settings.model)
    <2>1. Return(NoResult)
        BY <1>6 DEF StartSearch
    <2>2. SoFar'
        BY <1>2, <1>3, <1>4, AlwaysSoFar DEF SoFar
    <2> QED BY <2>1, <2>2, NoResultWithin, ReturnKeeps
<1> QED BY <1>5, <1>6

\* One request more.
LEMMA OnePostMore ==
    ASSUME SearchIInv, phase = "post", posts' = Append(posts, [url |-> snap.url, key |-> snap.key]),
           UNCHANGED <<settings, snap, wire, attempt, tokens, progress>>
    PROVE  SoFar' /\ Len(posts') = attempt' + 1 /\ progress <= MaxRounds * (Len(posts') - 1) /\ WireAsAsked'
<1>1. SoFar /\ PostsOfSnapshot /\ Asked
    BY AlwaysSoFar DEF SearchIInv
<1>2. PICK n \in Nat : n = Len(posts)
    BY <1>1 DEF SoFar
<1>3. snap.url \in STRING /\ snap.key \in STRING
    BY <1>1, SearchAssumption DEF SoFar
<1>4. PICK p \in [url : STRING, key : STRING] : p = [url |-> snap.url, key |-> snap.key]
    BY <1>3
<1>5. PICK more \in Seq([url : STRING, key : STRING]) : more = Append(posts, p)
    <2>1. Append(posts, p) \in Seq([url : STRING, key : STRING])
        BY <1>1 DEF SoFar
    <2> QED BY <2>1, Zenon
<1>6. posts' = more /\ Len(more) = n + 1
    BY <1>1, <1>2, <1>4, <1>5 DEF SoFar
<1>7. \A i \in 1 .. n + 1 : more[i] = p
    <2>1. more[n + 1] = p /\ \A i \in 1 .. n : more[i] = posts[i]
        BY <1>1, <1>2, <1>5 DEF SoFar
    <2>2. \A i \in 1 .. n : posts[i] = p
        BY <1>1, <1>2, <1>4 DEF SoFar
    <2> QED BY <2>1, <2>2
<1>8. n = attempt /\ WireAsAsked
    BY <1>1, <1>2 DEF PostsOfSnapshot, Asked
<1>9. progress \in Nat /\ progress <= MaxRounds * n
    BY <1>1, <1>2 DEF SoFar
<1>10. MaxRounds * n <= MaxRounds * (n + 1)
    <2>1. PICK m \in Nat : m = MaxRounds
        BY SearchAssumption
    <2>2. m * (n + 1) = m * n + m /\ m * n \in Nat
        OBVIOUS
    <2> QED BY <2>1, <2>2
<1>11. progress <= MaxRounds * (n + 1)
    <2>1. MaxRounds * n \in Nat /\ MaxRounds * (n + 1) \in Nat
        BY SearchAssumption
    <2> QED BY <1>9, <1>10, <2>1
<1>12. WireAsAsked'
    BY <1>8 DEF WireAsAsked
<1>13. Len(posts') = n + 1 /\ (n + 1) - 1 = n
    BY <1>6
<1>14. SoFar'
    BY <1>1, <1>4, <1>5, <1>6, <1>7, <1>8, <1>11, <1>12 DEF SoFar
<1> QED BY <1>8, <1>9, <1>12, <1>13, <1>14

\* The request is sent and answered.
LEMMA PostKeeps ==
    ASSUME SearchIInv, NEW error \in BOOLEAN, Post(error)
    PROVE  SearchIInv'
<1>1. /\ phase = "post" /\ posts' = Append(posts, [url |-> snap.url, key |-> snap.key])
      /\ body' = <<>> /\ parser' = NewParser /\ phase' = "body" /\ result' = result
      /\ UNCHANGED <<settings, snap, wire, attempt, tokens, progress>>
    BY DEF Post
<1>2. SoFar' /\ Len(posts') = attempt' + 1 /\ progress <= MaxRounds * (Len(posts') - 1) /\ WireAsAsked'
    BY <1>1, OnePostMore
<1>3. SearchTypes
    BY DEF SearchIInv
<1>4. Len(<<>>) = 0 /\ <<>> \in Seq(Events) /\ MaxResponse \in Nat
    BY SearchAssumption
<1>5. SearchTypes'
    BY <1>1, <1>2, <1>3, <1>4, NewParserWithin DEF SearchTypes, SearchTypeOK, SoFar
<1>6. PostsOfSnapshot'
    BY <1>1, <1>2 DEF PostsOfSnapshot, SoFar
<1>7. CallsReported'
    <2>1. parser'.seen = {} /\ Cardinality({}) = 0
        BY <1>1, FS_EmptySet DEF NewParser
    <2>2. progress' = progress /\ progress \in Nat
        BY <1>1, <1>3 DEF SearchTypes, SearchTypeOK
    <2> QED BY <1>1, <1>2, <2>1, <2>2 DEF CallsReported
<1> QED BY <1>2, <1>5, <1>6, <1>7 DEF SearchIInv, Asked

\* The request fails.
LEMMA PostFailsKeeps ==
    ASSUME SearchIInv, PostFails
    PROVE  SearchIInv'
<1>1. /\ phase = "post" /\ posts' = Append(posts, [url |-> snap.url, key |-> snap.key]) /\ Return(NoResult)
      /\ UNCHANGED <<settings, snap, wire, attempt, tokens, progress>>
    BY DEF PostFails
<1>2. SoFar'
    BY <1>1, OnePostMore
<1> QED BY <1>1, <1>2, NoResultWithin, ReturnKeeps

\* The calls seen so far are reported once each.
LEMMA CallsSeen ==
    ASSUME SearchIInv, phase = "body", NEW read \in Parsers,
           progress' = progress + Cardinality(read.seen) - Cardinality(parser.seen)
    PROVE  /\ progress' \in Nat /\ progress' - Cardinality(read.seen) \in Nat
           /\ progress' - Cardinality(read.seen) <= MaxRounds * (Len(posts) - 1)
           /\ progress' <= MaxRounds * Len(posts)
<1>1. SearchTypes /\ CallsReported /\ PostsOfSnapshot
    BY DEF SearchIInv
<1>2. PICK c \in Nat : c = Cardinality(parser.seen)
    BY <1>1, FS_CardinalityType DEF SearchTypes, Parsers, Within
<1>3. PICK d \in Nat : d = Cardinality(read.seen) /\ d <= MaxRounds
    BY FS_CardinalityType DEF Parsers, Within
<1>4. PICK n \in Nat : n = Len(posts)
    BY <1>1 DEF SearchTypes
<1>5. PICK m \in Nat : m = MaxRounds
    BY SearchAssumption
<1>6. progress \in Nat /\ progress - c \in Nat /\ progress - c <= m * (n - 1)
    BY <1>1, <1>2, <1>4, <1>5 DEF SearchTypes, SearchTypeOK, CallsReported
<1>7. m * (n - 1) = m * n - m /\ m * n \in Int
    OBVIOUS
<1>8. PICK before \in Nat : before = progress - c
    BY <1>6
<1>9. progress' = before + d /\ before <= m * n - m
    BY <1>2, <1>3, <1>6, <1>7, <1>8
<1>10. progress' \in Nat /\ progress' - d = before /\ progress' <= m * n
    BY <1>3, <1>5, <1>7, <1>9
<1> QED BY <1>3, <1>4, <1>5, <1>6, <1>8, <1>10

\* An event arrives.
LEMMA ReceiveKeeps ==
    ASSUME SearchIInv, NEW e \in Events, Receive(e)
    PROVE  SearchIInv'
<1>1. PICK fits \in BOOLEAN : fits <=> Len(body) < MaxResponse
    OBVIOUS
<1>2. PICK read : read = IF fits /\ ReadsAsItComes(Append(body, e)) THEN ConsumeEvent(snap.protocol, parser, e) ELSE parser
    OBVIOUS
<1>3. /\ phase = "body" /\ progress' = progress + Cardinality(read.seen) - Cardinality(parser.seen)
      /\ settings' = settings /\ snap' = snap /\ wire' = wire /\ attempt' = attempt /\ posts' = posts
      /\ tokens' = tokens
    <2>1. read = IF Len(body) < MaxResponse /\ ReadsAsItComes(Append(body, e))
                 THEN ConsumeEvent(snap.protocol, parser, e) ELSE parser
        BY <1>1, <1>2
    <2> QED BY <2>1, Zenon DEF Receive, wireVars
<1>4. IF ~fits \/ read.failed THEN Return(NoResult)
      ELSE body' = Append(body, e) /\ parser' = read /\ phase' = phase /\ result' = result
    <2>1. read = IF Len(body) < MaxResponse /\ ReadsAsItComes(Append(body, e))
                 THEN ConsumeEvent(snap.protocol, parser, e) ELSE parser
        BY <1>1, <1>2
    <2>2. IF ~(Len(body) < MaxResponse) \/ read.failed THEN Return(NoResult)
          ELSE body' = Append(body, e) /\ parser' = read /\ phase' = phase /\ result' = result
        BY <2>1, Zenon DEF Receive
    <2> QED BY <1>1, <2>2
<1>5. SearchTypes /\ PostsOfSnapshot /\ CallsReported /\ Asked /\ SoFar
    BY AlwaysSoFar DEF SearchIInv
<1>6. read \in Parsers
    <2>1. parser \in Parsers /\ snap \in Settings
        BY <1>5 DEF SearchTypes, SearchTypeOK
    <2>2. snap.protocol \in {"responses", "chat", "anthropic"}
        BY <2>1, SearchAssumption
    <2>3. ConsumeEvent(snap.protocol, parser, e) \in Parsers
        BY <2>1, <2>2, EventWithin
    <2> QED BY <1>2, <2>1, <2>3
<1>7. /\ progress' \in Nat /\ progress' - Cardinality(read.seen) \in Nat
      /\ progress' - Cardinality(read.seen) <= MaxRounds * (Len(posts) - 1)
      /\ progress' <= MaxRounds * Len(posts)
    BY <1>3, <1>6, CallsSeen
<1>8. CASE ~fits \/ read.failed
    <2>1. Return(NoResult)
        BY <1>4, <1>8
    <2>2. SoFar'
        BY <1>3, <1>5, <1>7 DEF SoFar, WireAsAsked
    <2> QED BY <2>1, <2>2, NoResultWithin, ReturnKeeps
<1>9. CASE ~(~fits \/ read.failed)
    <2>1. body' = Append(body, e) /\ parser' = read /\ phase' = phase /\ result' = result
        BY <1>4, <1>9
    <2>2. PICK longer \in Seq(Events) : longer = Append(body, e)
        <3>1. Append(body, e) \in Seq(Events)
            BY <1>5 DEF SearchTypes
        <3> QED BY <3>1, Zenon
    <2>3. Len(longer) = Len(body) + 1 /\ Len(body) \in Nat /\ MaxResponse \in Nat
        BY <1>5, <2>2, SearchAssumption DEF SearchTypes
    <2>4. body' = longer /\ Len(longer) <= MaxResponse
        BY <1>1, <1>9, <2>1, <2>2, <2>3
    <2>5. SearchTypes'
        BY <1>3, <1>5, <1>6, <1>7, <2>1, <2>2, <2>4 DEF SearchTypes, SearchTypeOK
    <2>6. PostsOfSnapshot'
        BY <1>3, <1>5, <2>1 DEF PostsOfSnapshot
    <2>7. CallsReported'
        BY <1>3, <1>7, <2>1 DEF CallsReported
    <2>8. Asked'
        BY <1>3, <1>5, <2>1 DEF Asked, WireAsAsked
    <2> QED BY <2>5, <2>6, <2>7, <2>8 DEF SearchIInv
<1> QED BY <1>8, <1>9

\* The response breaks off.
LEMMA ReadFailsKeeps ==
    ASSUME SearchIInv, ReadFails
    PROVE  SearchIInv'
<1>1. /\ Return(NoResult) /\ settings' = settings /\ snap' = snap /\ wire' = wire /\ attempt' = attempt
      /\ posts' = posts /\ tokens' = tokens /\ progress' = progress
    BY DEF ReadFails, wireVars
<1>2. SoFar'
    BY <1>1, AlwaysSoFar DEF SoFar, WireAsAsked
<1> QED BY <1>1, <1>2, NoResultWithin, ReturnKeeps

\* The response ends.
LEMMA EndKeeps ==
    ASSUME SearchIInv, EndOfResponse
    PROVE  SearchIInv'
<1>1. PICK p : p = ParsedResponse
    OBVIOUS
<1>2. /\ phase = "body" /\ settings' = settings /\ snap' = snap /\ wire' = wire /\ posts' = posts
      /\ progress' = progress
    BY Zenon DEF EndOfResponse
<1>3. IF p.failed \/ p.answer = <<>> THEN Return(NoResult) /\ attempt' = attempt /\ tokens' = tokens
      ELSE /\ tokens' = TokensAfter(p)
           /\ IF Continues(p)
              THEN /\ attempt' = attempt + 1 /\ phase' = "post" /\ body' = <<>> /\ parser' = NewParser
                   /\ result' = result
              ELSE /\ Return(IF snap.protocol = "chat" /\ IsIntermediate(p.answer) THEN NoResult
                             ELSE [ok |-> TRUE, answer |-> p.answer, cites |-> p.cites, usage |-> tokens'])
                   /\ attempt' = attempt
    BY <1>1, Zenon DEF EndOfResponse
<1>4. SearchTypes /\ PostsOfSnapshot /\ CallsReported /\ Asked /\ SoFar
    BY AlwaysSoFar DEF SearchIInv
<1>5. p \in Parsers
    BY <1>1, <1>4, ResponseWithin DEF SearchTypes, SearchTypeOK
<1>6. TokensAfter(p) \in Nat
    <2>1. p.usage.in \in Nat /\ p.usage.out \in Nat /\ tokens \in Nat
        BY <1>4, <1>5 DEF Parsers, ParserTypes, Usages, SoFar
    <2> QED BY <2>1 DEF TokensAfter
<1>7. CASE p.failed \/ p.answer = <<>>
    <2>1. Return(NoResult) /\ attempt' = attempt /\ tokens' = tokens
        BY <1>3, <1>7
    <2>2. SoFar'
        BY <1>2, <1>4, <2>1 DEF SoFar, WireAsAsked
    <2> QED BY <2>1, <2>2, NoResultWithin, ReturnKeeps
<1>8. CASE ~(p.failed \/ p.answer = <<>>) /\ ~Continues(p)
    <2>1. PICK res : res = IF snap.protocol = "chat" /\ IsIntermediate(p.answer) THEN NoResult
                           ELSE [ok |-> TRUE, answer |-> p.answer, cites |-> p.cites, usage |-> tokens']
        OBVIOUS
    <2>2. tokens' = TokensAfter(p) /\ Return(res) /\ attempt' = attempt
        BY <1>3, <1>8, <2>1
    <2>3. ResultWithin(res)
        <3>1. Len(p.answer) <= MaxAnswer /\ Cardinality(p.cites) <= MaxCitations
            BY <1>5 DEF Parsers, Within
        <3> QED BY <2>1, <3>1, NoResultWithin DEF ResultWithin
    <2>4. SoFar'
        BY <1>2, <1>4, <1>6, <2>2 DEF SoFar, WireAsAsked
    <2> QED BY <2>2, <2>3, <2>4, ReturnKeeps
<1>9. CASE ~(p.failed \/ p.answer = <<>>) /\ Continues(p)
    <2>1. /\ tokens' = TokensAfter(p) /\ attempt' = attempt + 1 /\ phase' = "post" /\ body' = <<>>
          /\ parser' = NewParser /\ result' = result
        BY <1>3, <1>9
    <2>2. attempt \in Nat /\ MaxContinuations \in Nat /\ attempt < MaxContinuations
        BY <1>4, <1>9, SearchAssumption DEF SoFar, Continues
    <2>3. attempt + 1 \in Nat /\ attempt + 1 <= MaxContinuations
        BY <2>2
    <2>4. Len(<<>>) = 0 /\ <<>> \in Seq(Events) /\ MaxResponse \in Nat
        BY SearchAssumption
    <2>5. SearchTypes'
        BY <1>2, <1>4, <1>6, <2>1, <2>3, <2>4, NewParserWithin DEF SearchTypes, SearchTypeOK
    <2>6. PostsOfSnapshot'
        <3>1. Len(posts) = attempt + 1 /\ Len(posts) <= (attempt + 1) + 1
            BY <1>2, <1>4, <2>2 DEF PostsOfSnapshot
        <3> QED BY <1>2, <1>4, <2>1, <2>3, <3>1 DEF PostsOfSnapshot
    <2>7. CallsReported'
        <3>1. parser'.seen = {} /\ Cardinality({}) = 0
            BY <2>1, FS_EmptySet DEF NewParser
        <3> QED BY <1>2, <1>4, <2>1, <3>1 DEF CallsReported, SoFar
    <2>8. Asked'
        BY <1>2, <1>4, <2>1 DEF Asked, WireAsAsked
    <2> QED BY <2>5, <2>6, <2>7, <2>8 DEF SearchIInv
<1> QED BY <1>7, <1>8, <1>9

\* Every step keeps the inductive invariant.
LEMMA SearchSteps == SearchIInv /\ [SearchNext]_searchVars => SearchIInv'
<1> SUFFICES ASSUME SearchIInv, [SearchNext]_searchVars PROVE SearchIInv'
    OBVIOUS
<1>1. ASSUME NEW new \in Settings, ApplyServerSettings(new) PROVE SearchIInv'
    BY <1>1, SettingsKeep
<1>2. ASSUME NEW req \in SearchRequests, StartSearch(req) PROVE SearchIInv'
    BY <1>2, StartKeeps
<1>3. ASSUME Posts PROVE SearchIInv'
    BY <1>3, PostKeeps, PostFailsKeeps DEF Posts
<1>4. ASSUME Responds PROVE SearchIInv'
    BY <1>4, UpstreamSendsEvents, ReceiveKeeps, EndKeeps, ReadFailsKeeps DEF Responds
<1>5. CASE UNCHANGED searchVars
    <2>1. /\ settings' = settings /\ snap' = snap /\ wire' = wire /\ attempt' = attempt /\ posts' = posts
          /\ phase' = phase /\ body' = body /\ parser' = parser /\ tokens' = tokens /\ progress' = progress
          /\ result' = result
        BY <1>5 DEF searchVars, wireVars, answerVars
    <2> QED BY <2>1 DEF SearchIInv, SearchTypes, SearchTypeOK, PostsOfSnapshot, CallsReported, Asked, WireAsAsked
<1> QED BY <1>1, <1>2, <1>3, <1>4, <1>5 DEF SearchNext

\* Whatever the upstream sends and however the settings change, a search stays with one
\* upstream, within its limits and with what was asked (grok/client.go, chat_completions.go,
\* anthropic_messages.go, sse.go).
THEOREM SearchInvariant == SearchSpec => []SearchInv
<1> QED BY SearchStarts, SearchSteps, SearchIInvImplies, PTL DEF SearchSpec

\* A step of the call is a step of the search, or none.
LEMMA CallUsesSearch == [CallNext]_callVars => [SearchNext]_searchVars
<1> SUFFICES ASSUME [CallNext]_callVars PROVE [SearchNext]_searchVars
    OBVIOUS
<1>1. CASE OutsideTool
    BY <1>1 DEF OutsideTool
<1>2. CASE Search(SearchNext)
    BY <1>2 DEF Search
<1>3. CASE MarkOutcome \/ SearchReturns \/ LeavesEarly \/ SDKRefuses \/ HandlerPanics
    BY <1>3 DEF MarkOutcome, SearchReturns, LeavesEarly, SDKRefuses, HandlerReturns, HandlerPanics
<1>4. CASE UNCHANGED callVars
    BY <1>4 DEF callVars
<1> QED BY <1>1, <1>2, <1>3, <1>4 DEF CallNext

\* The same of the search that a call runs, between the middlewares (mcp/tools.go).
THEOREM CallSearchInvariant == CallSpec => []SearchInv
<1>1. CallInit => SearchIInv
    BY SearchStarts DEF CallInit
<1>2. SearchIInv /\ [CallNext]_callVars => SearchIInv'
    BY CallUsesSearch, SearchSteps
<1> QED BY <1>1, <1>2, SearchIInvImplies, PTL DEF CallSpec

-----------------------------------------------------------------------------
(* GrokSearch implements SearchPromise.                                    *)
(*                                                                         *)
(* What the upstream has said is read off the response as a whole, what    *)
(* the search returns comes event by event out of a parser.  The invariant *)
(* that joins them says what a parser that has not failed has after the    *)
(* response so far; each event keeps it, and at the end of the response    *)
(* it makes the answer what was said.                                      *)

\* Two folds take the same first n steps.
Agree(n, A, g, g2) == \A k \in 1 .. n, a \in A : g2[<<k, a>>] = g[<<k, a>>]

\* The steps of two folds that agree on the first n positions lead to values one step apart.
LEMMA OneStepMore ==
    ASSUME NEW n \in Nat, NEW A, NEW base, NEW g, NEW g2, NEW last, NEW last2,
           StepsLeadTo(n, A, base, g, last), StepsLeadTo(n + 1, A, base, g2, last2),
           Agree(n, A, g, g2)
    PROVE  last \in A /\ last2 = g2[<<n + 1, last>>]
<1>1. PICK h \in [0 .. n -> A] : h[0] = base /\ h[n] = last /\ \A k \in 1 .. n : h[k] = g[<<k, h[k - 1]>>]
    BY DEF StepsLeadTo
<1>2. PICK i \in [0 .. n + 1 -> A] :
         i[0] = base /\ i[n + 1] = last2 /\ \A k \in 1 .. n + 1 : i[k] = g2[<<k, i[k - 1]>>]
    BY DEF StepsLeadTo
<1>3. \A k \in 0 .. n : i[k] = h[k]
    <2> DEFINE Apart == {k \in 0 .. n : i[k] # h[k]}
    <2> SUFFICES ASSUME Apart # {} PROVE FALSE
        OBVIOUS
    <2>1. Apart \in SUBSET Nat
        OBVIOUS
    <2>2. PICK m : m \in Apart /\ \A u \in Apart : m <= u
        BY <2>1, MinOfNaturals
    <2>3. m \in 1 .. n /\ m \in 1 .. n + 1 /\ m - 1 \in 0 .. n /\ ~(m <= m - 1)
        BY <1>1, <1>2, <2>2
    <2>4. i[m - 1] = h[m - 1] /\ h[m - 1] \in A
        BY <2>2, <2>3
    <2>5. i[m] = g2[<<m, h[m - 1]>>] /\ h[m] = g[<<m, h[m - 1]>>]
        BY <1>1, <1>2, <2>3, <2>4
    <2>6. g2[<<m, h[m - 1]>>] = g[<<m, h[m - 1]>>]
        BY <2>3, <2>4 DEF Agree
    <2> QED BY <2>2, <2>3, <2>4, <2>5, <2>6
<1>4. n \in 0 .. n /\ n + 1 \in 1 .. n + 1 /\ (n + 1) - 1 = n
    OBVIOUS
<1>5. i[n + 1] = g2[<<n + 1, i[n]>>]
    BY <1>2, <1>4
<1> QED BY <1>1, <1>2, <1>3, <1>4, <1>5

\* A fold over nothing.
LEMMA NoStep ==
    ASSUME NEW A, NEW base, NEW g, NEW last, StepsLeadTo(0, A, base, g, last)
    PROVE  last = base
BY DEF StepsLeadTo

\* One event of a response more.
LEMMA OneEventMore ==
    ASSUME NEW sent \in Seq(Events), NEW e \in Events
    PROVE  /\ Append(sent, e) \in Seq(Events) /\ Len(sent) \in Nat /\ Len(Append(sent, e)) = Len(sent) + 1
           /\ DOMAIN sent = 1 .. Len(sent) /\ DOMAIN Append(sent, e) = 1 .. Len(sent) + 1
           /\ \A i \in 1 .. Len(sent) : Append(sent, e)[i] = sent[i] /\ sent[i] \in Events
           /\ Append(sent, e)[Len(sent) + 1] = e
OBVIOUS

\* The text of a response, event by event.
TextSteps(sent, streamed) ==
  [w \in (1 .. Len(sent)) \X Seq(Words) |->
     IF IsTold(sent[w[1]], streamed) THEN w[2] \o sent[w[1]].text ELSE w[2]]

LEMMA TextIsSteps ==
    ASSUME NEW sent \in Seq(Events), NEW streamed \in BOOLEAN
    PROVE  /\ TextSteps(sent, streamed) \in [(1 .. Len(sent)) \X Seq(Words) -> Seq(Words)]
           /\ StepsLeadTo(Len(sent), Seq(Words), <<>>, TextSteps(sent, streamed), TextIn(sent, streamed))
<1>1. PICK n \in Nat : n = Len(sent) /\ DOMAIN sent = 1 .. n
    OBVIOUS
<1>2. PICK g : g = TextSteps(sent, streamed)
    OBVIOUS
<1>3. PICK A : A = Seq(Words)
    OBVIOUS
<1>4. PICK base \in A : base = <<>>
    <2>1. <<>> \in Seq(Words)
        OBVIOUS
    <2> QED BY <1>3, <2>1, Zenon
<1>5. g \in [(1 .. n) \X A -> A]
    <2>1. ASSUME NEW k \in 1 .. n, NEW a \in Seq(Words) PROVE a \o sent[k].text \in Seq(Words)
        <3>1. PICK e \in Events : e = sent[k]
            BY <1>1
        <3>2. PICK more \in Seq(Words) : more = e.text
            BY PiecesAreWords DEF Events
        <3>3. a \o more \in Seq(Words)
            OBVIOUS
        <3> QED BY <3>1, <3>2, <3>3
    <2> QED BY <1>1, <1>2, <1>3, <2>1 DEF TextSteps
<1>6. PICK f : f \in FoldFunctions(n, A, base, g)
    BY <1>5, FoldFunctionExists
<1> DEFINE Add(text, e) == IF IsTold(e, streamed) THEN text \o e.text ELSE text
<1>7. \A k \in 1 .. n, a \in A : g[<<k, a>>] = Add(a, sent[k])
    BY <1>1, <1>2, <1>3 DEF TextSteps
<1> HIDE DEF Add
<1>8. f = [s \in SUBSET (DOMAIN sent) |-> IF s = {} THEN <<>> ELSE Add(f[s \ {Max(s)}], sent[Max(s)])]
    <2>1. ASSUME NEW s \in SUBSET (1 .. n), s # {}
          PROVE  f[s] = Add(f[s \ {Max(s)}], sent[Max(s)])
        <3>1. PICK m : m = Max(s) /\ m \in 1 .. n
            BY <2>1, LargestPosition
        <3>2. s \ {m} \in SUBSET (1 .. n)
            OBVIOUS
        <3>3. f[s] = g[<<m, f[s \ {m}]>>] /\ f[s \ {m}] \in A
            BY <1>6, <2>1, <3>1, <3>2 DEF FoldFunctions
        <3> QED BY <1>7, <3>1, <3>3
    <2> QED BY <1>1, <1>4, <1>6, <2>1 DEF FoldFunctions
<1>9. PICK e : /\ e = [s \in SUBSET (DOMAIN sent) |-> IF s = {} THEN <<>> ELSE Add(e[s \ {Max(s)}], sent[Max(s)])]
               /\ TextIn(sent, streamed) = e[DOMAIN sent]
    BY <1>8, Zenon DEF TextIn, Add, FoldLeft, MapThenFoldSet
<1>10. e[{}] = base /\ e[1 .. n] = TextIn(sent, streamed)
    BY <1>1, <1>4, <1>9
<1>11. ASSUME NEW k \in 1 .. n, e[1 .. k - 1] \in A
       PROVE  e[1 .. k] = g[<<k, e[1 .. k - 1]>>]
    <2>1. PICK before \in A : before = e[1 .. k - 1]
        BY <1>11
    <2>2. PICK all : all = 1 .. k
        OBVIOUS
    <2>3. all \in SUBSET (DOMAIN sent) /\ all # {} /\ all \ {k} = 1 .. k - 1 /\ Max(all) = k
        BY <1>1, <2>2, FirstPositions
    <2>4. e[all] = Add(e[all \ {Max(all)}], sent[Max(all)])
        BY <1>9, <2>3
    <2>5. e[all] = Add(before, sent[k])
        BY <2>1, <2>3, <2>4
    <2> QED BY <1>7, <2>1, <2>2, <2>5
<1>12. FollowsSteps(n, A, base, g, e)
    BY <1>10, <1>11 DEF FollowsSteps
<1>13. StepsLeadTo(n, A, base, g, e[1 .. n])
    BY <1>5, <1>12, FoldSteps
<1> QED BY <1>1, <1>2, <1>3, <1>4, <1>5, <1>10, <1>13

\* A message adds its text.
LEMMA TextGrows ==
    ASSUME NEW sent \in Seq(Events), NEW e \in Events, NEW streamed \in BOOLEAN
    PROVE  /\ TextIn(<<>>, streamed) = <<>>
           /\ TextIn(sent, streamed) \in Seq(Words)
           /\ TextIn(Append(sent, e), streamed) =
                IF IsTold(e, streamed) THEN TextIn(sent, streamed) \o e.text ELSE TextIn(sent, streamed)
<1>1. <<>> \in Seq(Events) /\ Len(<<>>) = 0
    OBVIOUS
<1>2. StepsLeadTo(0, Seq(Words), <<>>, TextSteps(<<>>, streamed), TextIn(<<>>, streamed))
    BY <1>1, TextIsSteps
<1>3. TextIn(<<>>, streamed) = <<>>
    BY <1>2, NoStep
<1>4. PICK more \in Seq(Events) : more = Append(sent, e)
    BY OneEventMore
<1>5. PICK n \in Nat : n = Len(sent) /\ Len(more) = n + 1 /\ (\A i \in 1 .. n : more[i] = sent[i]) /\ more[n + 1] = e
    BY <1>4, OneEventMore
<1>6. PICK g : g = TextSteps(sent, streamed)
    OBVIOUS
<1>7. PICK g2 : g2 = TextSteps(more, streamed)
    OBVIOUS
<1>8. \A k \in 1 .. n, a \in Seq(Words) : g2[<<k, a>>] = g[<<k, a>>]
    BY <1>5, <1>6, <1>7 DEF TextSteps
<1>9. StepsLeadTo(n, Seq(Words), <<>>, g, TextIn(sent, streamed))
    BY <1>5, <1>6, TextIsSteps
<1>10. StepsLeadTo(n + 1, Seq(Words), <<>>, g2, TextIn(more, streamed))
    BY <1>5, <1>7, TextIsSteps
<1>11. PICK text : text = TextIn(sent, streamed)
    OBVIOUS
<1>12. text \in Seq(Words) /\ TextIn(more, streamed) = g2[<<n + 1, text>>]
    <2>1. PICK A : A = Seq(Words)
        OBVIOUS
    <2>2. PICK base : base = <<>>
        OBVIOUS
    <2>3. PICK longer : longer = TextIn(more, streamed)
        OBVIOUS
    <2>4. StepsLeadTo(n, A, base, g, text) /\ StepsLeadTo(n + 1, A, base, g2, longer)
        BY <1>9, <1>10, <1>11, <2>1, <2>2, <2>3
    <2>5. Agree(n, A, g, g2)
        BY <1>8, <2>1 DEF Agree
    <2>6. text \in A /\ longer = g2[<<n + 1, text>>]
        BY <2>4, <2>5, OneStepMore
    <2> QED BY <2>1, <2>3, <2>6
<1>13. g2[<<n + 1, text>>] = IF IsTold(e, streamed) THEN text \o e.text ELSE text
    BY <1>5, <1>7, <1>12 DEF TextSteps
<1> QED BY <1>3, <1>4, <1>11, <1>12, <1>13

\* Once failed, a parser stays as it is.
LEMMA FailureStays ==
    ASSUME NEW p \in Parsers
    PROVE  Failed(p).failed /\ Failed(p).seen = p.seen
BY DEF Failed, Parsers, ParserTypes

\* A list of citations that is not too long adds its URLs, and nothing else happens.
CitedUpTo(p, urls, k, q) ==
  /\ q.seen = p.seen
  /\ q.failed \/ q = [p EXCEPT !.cites = p.cites \cup {urls[i] : i \in 1 .. k}]

LEMMA CitationsAdd ==
    ASSUME NEW p \in Parsers, NEW urls \in Seq(Nat)
    PROVE  CitedUpTo(p, urls, Len(urls), FoldLeft(AddCitation, p, urls))
<1>1. PICK n \in Nat : n = Len(urls) /\ DOMAIN urls = 1 .. n
    OBVIOUS
<1>2. PICK h \in [0 .. n -> Parsers] :
         /\ h[0] = p /\ h[n] = FoldLeft(AddCitation, p, urls)
         /\ \A k \in 1 .. n : h[k] = CitationSteps(urls)[<<k, h[k - 1]>>]
    <2>1. StepsLeadTo(n, Parsers, p, CitationSteps(urls), FoldLeft(AddCitation, p, urls))
        BY <1>1, CitationsAreSteps
    <2> QED BY <2>1 DEF StepsLeadTo
<1>3. CitedUpTo(p, urls, 0, h[0])
    <2>1. {urls[i] : i \in 1 .. 0} = {}
        OBVIOUS
    <2>2. p = [p EXCEPT !.cites = p.cites]
        BY DEF Parsers, ParserTypes
    <2>3. p.cites \cup {} = p.cites
        OBVIOUS
    <2> QED BY <1>2, <2>1, <2>2, <2>3 DEF CitedUpTo
<1>4. ASSUME NEW k \in 1 .. n, CitedUpTo(p, urls, k - 1, h[k - 1])
      PROVE  CitedUpTo(p, urls, k, h[k])
    <2>1. k - 1 \in 0 .. n /\ k - 1 \in Nat /\ urls[k] \in Nat
        BY <1>1
    <2>2. PICK q \in Parsers : q = h[k - 1]
        BY <1>2, <2>1
    <2>3. PICK url \in Nat : url = urls[k]
        BY <2>1
    <2>4. h[k] = AddCitation(q, url)
        BY <1>1, <1>2, <2>2, <2>3 DEF CitationSteps
    <2>5. {urls[i] : i \in 1 .. k} = {urls[i] : i \in 1 .. k - 1} \cup {url}
        <3>1. 1 .. k = (1 .. k - 1) \cup {k}
            OBVIOUS
        <3> QED BY <2>3, <3>1
    <2>6. PICK C : C = {urls[i] : i \in 1 .. k - 1}
        OBVIOUS
    <2>7. q.seen = p.seen /\ (q.failed \/ q = [p EXCEPT !.cites = p.cites \cup C])
        BY <1>4, <2>2, <2>6 DEF CitedUpTo
    <2>8. CASE q.failed
        <3>1. h[k] = q
            BY <2>4, <2>8 DEF AddCitation
        <3> QED BY <2>7, <2>8, <3>1 DEF CitedUpTo
    <2>9. CASE ~q.failed /\ url \in q.cites
        <3>1. h[k] = q
            BY <2>4, <2>9 DEF AddCitation
        <3>2. q = [p EXCEPT !.cites = p.cites \cup C] /\ q.cites = p.cites \cup C
            BY <2>7, <2>9 DEF Parsers, ParserTypes
        <3>3. p.cites \cup C = p.cites \cup (C \cup {url})
            BY <2>9, <3>2
        <3> QED BY <2>5, <2>6, <2>7, <3>1, <3>2, <3>3 DEF CitedUpTo
    <2>10. CASE ~q.failed /\ url \notin q.cites /\ Cardinality(q.cites) >= MaxCitations
        <3>1. h[k] = Failed(q)
            BY <2>4, <2>10 DEF AddCitation
        <3> QED BY <2>7, <3>1, FailureStays DEF CitedUpTo
    <2>11. CASE ~q.failed /\ url \notin q.cites /\ ~(Cardinality(q.cites) >= MaxCitations)
        <3>1. h[k] = [q EXCEPT !.cites = @ \cup {url}]
            BY <2>4, <2>11 DEF AddCitation
        <3>2. q = [p EXCEPT !.cites = p.cites \cup C]
            BY <2>7, <2>11
        <3>3. h[k] = [p EXCEPT !.cites = p.cites \cup (C \cup {url})] /\ h[k].seen = q.seen
            <4>1. PICK D : D = p.cites \cup C
                OBVIOUS
            <4>2. PICK more : more = D \cup {url} /\ more = p.cites \cup (C \cup {url})
                BY <4>1
            <4>3. q = [p EXCEPT !.cites = D] /\ q.cites = D
                BY <3>2, <4>1 DEF Parsers, ParserTypes
            <4>4. h[k] = [q EXCEPT !.cites = more]
                BY <3>1, <4>2, <4>3
            <4>5. h[k] = [p EXCEPT !.cites = more] /\ h[k].seen = q.seen
                BY <4>3, <4>4 DEF Parsers, ParserTypes
            <4> QED BY <4>2, <4>5
        <3> QED BY <2>5, <2>6, <2>7, <3>3 DEF CitedUpTo
    <2> QED BY <2>8, <2>9, <2>10, <2>11
<1>5. \A k \in 0 .. n : CitedUpTo(p, urls, k, h[k])
    <2> DEFINE Wrong == {k \in 0 .. n : ~CitedUpTo(p, urls, k, h[k])}
    <2> SUFFICES ASSUME Wrong # {} PROVE FALSE
        OBVIOUS
    <2>1. Wrong \in SUBSET Nat
        OBVIOUS
    <2>2. PICK m : m \in Wrong /\ \A u \in Wrong : m <= u
        BY <2>1, MinOfNaturals
    <2>3. m \in 1 .. n /\ m - 1 \in 0 .. n /\ ~(m <= m - 1)
        BY <1>3, <2>2
    <2>4. CitedUpTo(p, urls, m - 1, h[m - 1])
        BY <2>2, <2>3
    <2> QED BY <1>4, <2>2, <2>3, <2>4
<1>6. n \in 0 .. n
    OBVIOUS
<1> QED BY <1>1, <1>2, <1>5, <1>6

\* What a parser has got from an event it could use.
Collected(p, text, urls, q) ==
  /\ q.seen = p.seen
  /\ ~q.failed => /\ q.answer = p.answer \o text /\ q.cites = p.cites \cup ToSet(urls)
                  /\ q.usage = p.usage /\ q.terminal = p.terminal

LEMMA CollectAdds ==
    ASSUME NEW p \in Parsers, NEW text \in Seq(Words), NEW urls \in Seq(Nat)
    PROVE  Collected(p, text, urls, Collect(p, text, urls))
<1>1. PICK a \in Parsers : a = AppendAnswerText(p, text)
    BY AppendWithin
<1>2. CASE a.failed
    <2>1. Collect(p, text, urls) = a
        BY <1>1, <1>2 DEF Collect
    <2>2. a.seen = p.seen
        <3>1. CASE Len(p.answer) + Len(text) > MaxAnswer
            BY <1>1, <3>1, FailureStays DEF AppendAnswerText
        <3>2. CASE ~(Len(p.answer) + Len(text) > MaxAnswer)
            BY <1>1, <3>2 DEF AppendAnswerText, Parsers, ParserTypes
        <3> QED BY <3>1, <3>2
    <2> QED BY <1>2, <2>1, <2>2 DEF Collected
<1>3. CASE ~a.failed
    <2>1. ~(Len(p.answer) + Len(text) > MaxAnswer)
        BY <1>1, <1>3, FailureStays DEF AppendAnswerText
    <2>2. a = [p EXCEPT !.answer = @ \o text]
        BY <1>1, <2>1 DEF AppendAnswerText
    <2>3. /\ a.answer = p.answer \o text /\ a.cites = p.cites /\ a.seen = p.seen /\ a.usage = p.usage
          /\ a.terminal = p.terminal
        BY <2>2 DEF Parsers, ParserTypes
    <2>4. PICK q \in Parsers : q = FoldLeft(AddCitation, a, urls)
        BY CitationsWithin
    <2>5. Collect(p, text, urls) = q
        BY <1>1, <1>3, <2>4 DEF Collect
    <2>6. {urls[i] : i \in 1 .. Len(urls)} = ToSet(urls)
        BY DEF ToSet
    <2>7. q.seen = a.seen /\ (q.failed \/ q = [a EXCEPT !.cites = a.cites \cup ToSet(urls)])
        BY <2>4, <2>6, CitationsAdd DEF CitedUpTo
    <2>8. ~q.failed => /\ q.answer = a.answer /\ q.cites = a.cites \cup ToSet(urls)
                       /\ q.usage = a.usage /\ q.terminal = a.terminal
        BY <2>7 DEF Parsers, ParserTypes
    <2> QED BY <2>3, <2>5, <2>7, <2>8 DEF Collected
<1> QED BY <1>2, <1>3

\* A response with one event more.
Longer(sent, e, more, n) ==
  /\ DOMAIN sent = 1 .. n /\ DOMAIN more = 1 .. n + 1
  /\ \A i \in 1 .. n : more[i] = sent[i]
  /\ more[n + 1] = e

LEMMA MessagesGrow ==
    ASSUME NEW sent, NEW e, NEW more, NEW n \in Nat, Longer(sent, e, more, n), NEW streamed \in BOOLEAN
    PROVE  /\ Told(sent, streamed) \subseteq 1 .. n /\ Finals(sent, streamed) \subseteq 1 .. n
           /\ Told(more, streamed) =
                IF IsTold(e, streamed) THEN Told(sent, streamed) \cup {n + 1} ELSE Told(sent, streamed)
           /\ Finals(more, streamed) =
                IF IsTold(e, streamed) /\ e.terminal THEN Finals(sent, streamed) \cup {n + 1}
                ELSE Finals(sent, streamed)
<1>1. n + 1 \in 1 .. n + 1 /\ n + 1 \notin 1 .. n /\ 1 .. n + 1 = (1 .. n) \cup {n + 1}
    OBVIOUS
<1>2. PICK T : T = Told(sent, streamed)
    OBVIOUS
<1>3. PICK T2 : T2 = Told(more, streamed)
    OBVIOUS
<1>4. T \subseteq 1 .. n /\ T2 \subseteq 1 .. n + 1
    BY <1>2, <1>3 DEF Told, Longer
<1>5. \A i \in 1 .. n : i \in T2 <=> i \in T
    BY <1>1, <1>2, <1>3 DEF Told, Longer
<1>6. n + 1 \in T2 <=> IsTold(e, streamed)
    BY <1>1, <1>3 DEF Told, Longer
<1>7. T2 = IF IsTold(e, streamed) THEN T \cup {n + 1} ELSE T
    <2>1. T \subseteq 1 .. n /\ T2 \subseteq (1 .. n) \cup {n + 1}
        BY <1>1, <1>4
    <2>2. CASE IsTold(e, streamed)
        BY <1>5, <1>6, <2>1, <2>2
    <2>3. CASE ~IsTold(e, streamed)
        <3>1. T2 \subseteq 1 .. n
            BY <1>6, <2>1, <2>3
        <3>2. T2 \subseteq T /\ T \subseteq T2
            BY <1>5, <2>1, <3>1
        <3> QED BY <2>3, <3>2
    <2> QED BY <2>2, <2>3
<1>8. PICK F : F = Finals(sent, streamed) /\ F = {i \in T : sent[i].terminal}
    BY <1>2 DEF Finals
<1>9. PICK F2 : F2 = Finals(more, streamed) /\ F2 = {i \in T2 : more[i].terminal}
    BY <1>3 DEF Finals
<1>10. \A i \in 1 .. n : i \in F2 <=> i \in F
    BY <1>5, <1>8, <1>9 DEF Longer
<1>11. n + 1 \in F2 <=> IsTold(e, streamed) /\ e.terminal
    BY <1>6, <1>9 DEF Longer
<1>12. F2 = IF IsTold(e, streamed) /\ e.terminal THEN F \cup {n + 1} ELSE F
    BY <1>1, <1>4, <1>8, <1>9, <1>10, <1>11
<1> QED BY <1>2, <1>3, <1>4, <1>7, <1>8, <1>9, <1>12

\* A report that is not zero is the latest.
LEMMA LatestGrows ==
    ASSUME NEW n \in Nat, NEW D \in SUBSET (1 .. n), NEW old, NEW new,
           DOMAIN old = D, DOMAIN new = D \cup {n + 1}, \A i \in D : new[i] = old[i]
    PROVE  Latest(new) = IF new[n + 1] = 0 THEN Latest(old) ELSE new[n + 1]
<1>1. PICK given : given = {i \in DOMAIN old : old[i] # 0} /\ given \in SUBSET (1 .. n)
    OBVIOUS
<1>2. n + 1 \notin D
    OBVIOUS
<1>3. CASE new[n + 1] = 0
    <2>1. {i \in DOMAIN new : new[i] # 0} = given
        BY <1>1, <1>2, <1>3
    <2>2. given # {} => Max(given) \in D
        <3>1. given # {} => Max(given) \in given
            BY <1>1, LargestPosition
        <3> QED BY <1>1, <3>1
    <2> QED BY <1>1, <1>3, <2>1, <2>2 DEF Latest
<1>4. CASE new[n + 1] # 0
    <2>1. {i \in DOMAIN new : new[i] # 0} = given \cup {n + 1}
        BY <1>1, <1>2, <1>4
    <2>2. Max(given \cup {n + 1}) = n + 1
        <3>1. given \cup {n + 1} \in SUBSET (1 .. n + 1)
            BY <1>1
        <3> QED BY <3>1, LargestPosition
    <2> QED BY <1>4, <2>1, <2>2 DEF Latest
<1> QED BY <1>3, <1>4

\* The sources, the search calls and the end of a response with one event more.
LEMMA SourcesGrow ==
    ASSUME NEW sent, NEW e, NEW more, NEW n \in Nat, Longer(sent, e, more, n), NEW streamed \in BOOLEAN
    PROVE  SourcesIn(more, streamed) =
             IF IsTold(e, streamed) THEN SourcesIn(sent, streamed) \cup ToSet(e.cites)
             ELSE SourcesIn(sent, streamed)
<1>1. PICK T : T = Told(sent, streamed) /\ T \subseteq 1 .. n
    BY MessagesGrow
<1>2. PICK T2 : T2 = Told(more, streamed) /\ T2 = IF IsTold(e, streamed) THEN T \cup {n + 1} ELSE T
    BY <1>1, MessagesGrow
<1>3. PICK old : old = {ToSet(sent[i].cites) : i \in T}
    OBVIOUS
<1>4. PICK new : new = {ToSet(more[i].cites) : i \in T2}
    OBVIOUS
<1>5. new = IF IsTold(e, streamed) THEN old \cup {ToSet(e.cites)} ELSE old
    BY <1>1, <1>2, <1>3, <1>4 DEF Longer
<1>6. SourcesIn(sent, streamed) = UNION old /\ SourcesIn(more, streamed) = UNION new
    BY <1>1, <1>2, <1>3, <1>4 DEF SourcesIn
<1> QED BY <1>5, <1>6

LEMMA CallsGrow ==
    ASSUME NEW sent, NEW e, NEW more, NEW n \in Nat, Longer(sent, e, more, n)
    PROVE  /\ RoundsIn(more) =
                IF e.kind = "item" /\ e.framed THEN RoundsIn(sent) \cup {e.key} ELSE RoundsIn(sent)
           /\ HasDone(more) <=> HasDone(sent) \/ (e.kind = "done" /\ e.framed)
<1>1. n + 1 \in 1 .. n + 1 /\ n + 1 \notin 1 .. n /\ 1 .. n + 1 = (1 .. n) \cup {n + 1}
    OBVIOUS
<1>2. PICK C : C = {j \in DOMAIN sent : sent[j].kind = "item" /\ sent[j].framed}
    OBVIOUS
<1>3. PICK C2 : C2 = {j \in DOMAIN more : more[j].kind = "item" /\ more[j].framed}
    OBVIOUS
<1>4. C2 = IF e.kind = "item" /\ e.framed THEN C \cup {n + 1} ELSE C
    BY <1>1, <1>2, <1>3 DEF Longer
<1>5. C \subseteq 1 .. n
    BY <1>2 DEF Longer
<1>6. RoundsIn(sent) = {sent[i].key : i \in C} /\ RoundsIn(more) = {more[i].key : i \in C2}
    BY <1>2, <1>3 DEF RoundsIn
<1>7. RoundsIn(more) = IF e.kind = "item" /\ e.framed THEN RoundsIn(sent) \cup {e.key} ELSE RoundsIn(sent)
    BY <1>4, <1>5, <1>6 DEF Longer
<1>8. HasDone(more) <=> HasDone(sent) \/ (e.kind = "done" /\ e.framed)
    BY <1>1 DEF HasDone, Longer
<1> QED BY <1>7, <1>8

\* What a response charges, input and output together and each of them.
PriceIn(sent, streamed) ==
  Latest([i \in Told(sent, streamed) |-> sent[i].usage.in + sent[i].usage.out])
InputIn(sent, streamed) == Latest([i \in Told(sent, streamed) |-> sent[i].usage.in])
OutputIn(sent, streamed) == Latest([i \in Told(sent, streamed) |-> sent[i].usage.out])

LEMMA PricesGrow ==
    ASSUME NEW sent, NEW e, NEW more, NEW n \in Nat, Longer(sent, e, more, n), NEW streamed \in BOOLEAN
    PROVE  /\ PriceIn(more, streamed) =
                IF IsTold(e, streamed) /\ e.usage.in + e.usage.out # 0 THEN e.usage.in + e.usage.out
                ELSE PriceIn(sent, streamed)
           /\ InputIn(more, streamed) =
                IF IsTold(e, streamed) /\ e.usage.in # 0 THEN e.usage.in ELSE InputIn(sent, streamed)
           /\ OutputIn(more, streamed) =
                IF IsTold(e, streamed) /\ e.usage.out # 0 THEN e.usage.out ELSE OutputIn(sent, streamed)
<1>1. PICK D : D = Told(sent, streamed) /\ D \in SUBSET (1 .. n)
    BY MessagesGrow
<1>2. PICK D2 : D2 = Told(more, streamed) /\ D2 = IF IsTold(e, streamed) THEN D \cup {n + 1} ELSE D
    BY <1>1, MessagesGrow
<1>3. (\A i \in D : more[i] = sent[i]) /\ more[n + 1] = e
    BY <1>1 DEF Longer
<1>4. CASE IsTold(e, streamed)
    <2>1. PICK all : all = D \cup {n + 1} /\ all = D2
        BY <1>2, <1>4
    <2>2. PriceIn(more, streamed) =
            IF e.usage.in + e.usage.out = 0 THEN PriceIn(sent, streamed) ELSE e.usage.in + e.usage.out
        <3>1. PICK old : old = [i \in D |-> sent[i].usage.in + sent[i].usage.out]
            OBVIOUS
        <3>2. PICK new : new = [i \in all |-> more[i].usage.in + more[i].usage.out]
            OBVIOUS
        <3>3. DOMAIN old = D /\ DOMAIN new = D \cup {n + 1} /\ (\A i \in D : new[i] = old[i])
              /\ new[n + 1] = e.usage.in + e.usage.out
            BY <1>3, <2>1, <3>1, <3>2
        <3>4. Latest(new) = IF new[n + 1] = 0 THEN Latest(old) ELSE new[n + 1]
            BY <1>1, <3>3, LatestGrows
        <3> QED BY <1>1, <1>2, <2>1, <3>1, <3>2, <3>3, <3>4 DEF PriceIn
    <2>3. InputIn(more, streamed) = IF e.usage.in = 0 THEN InputIn(sent, streamed) ELSE e.usage.in
        <3>1. PICK old : old = [i \in D |-> sent[i].usage.in]
            OBVIOUS
        <3>2. PICK new : new = [i \in all |-> more[i].usage.in]
            OBVIOUS
        <3>3. DOMAIN old = D /\ DOMAIN new = D \cup {n + 1} /\ (\A i \in D : new[i] = old[i])
              /\ new[n + 1] = e.usage.in
            BY <1>3, <2>1, <3>1, <3>2
        <3>4. Latest(new) = IF new[n + 1] = 0 THEN Latest(old) ELSE new[n + 1]
            BY <1>1, <3>3, LatestGrows
        <3> QED BY <1>1, <1>2, <2>1, <3>1, <3>2, <3>3, <3>4 DEF InputIn
    <2>4. OutputIn(more, streamed) = IF e.usage.out = 0 THEN OutputIn(sent, streamed) ELSE e.usage.out
        <3>1. PICK old : old = [i \in D |-> sent[i].usage.out]
            OBVIOUS
        <3>2. PICK new : new = [i \in all |-> more[i].usage.out]
            OBVIOUS
        <3>3. DOMAIN old = D /\ DOMAIN new = D \cup {n + 1} /\ (\A i \in D : new[i] = old[i])
              /\ new[n + 1] = e.usage.out
            BY <1>3, <2>1, <3>1, <3>2
        <3>4. Latest(new) = IF new[n + 1] = 0 THEN Latest(old) ELSE new[n + 1]
            BY <1>1, <3>3, LatestGrows
        <3> QED BY <1>1, <1>2, <2>1, <3>1, <3>2, <3>3, <3>4 DEF OutputIn
    <2> QED BY <1>4, <2>2, <2>3, <2>4
<1>5. CASE ~IsTold(e, streamed)
    <2>1. D2 = D
        BY <1>2, <1>5
    <2>2. [i \in D |-> more[i].usage.in + more[i].usage.out] = [i \in D |-> sent[i].usage.in + sent[i].usage.out]
        BY <1>3
    <2>3. [i \in D |-> more[i].usage.in] = [i \in D |-> sent[i].usage.in]
        BY <1>3
    <2>4. [i \in D |-> more[i].usage.out] = [i \in D |-> sent[i].usage.out]
        BY <1>3
    <2> QED BY <1>1, <1>2, <1>5, <2>1, <2>2, <2>3, <2>4 DEF PriceIn, InputIn, OutputIn
<1> QED BY <1>4, <1>5

\* An event of a stream is passed over, ends the reading, or goes to the callback.
LEMMA EventRead ==
    ASSUME NEW p \in Parsers, NEW e \in Events, NEW protocol,
           ~ConsumeEvent(protocol, p, e).failed
    PROVE  /\ ~p.failed
           /\ \/ (e.kind = "comment" \/ ~e.framed) /\ ConsumeEvent(protocol, p, e) = p
              \/ /\ e.framed /\ e.kind \in {"message", "item", "done"}
                 /\ \E r \in Parsers : r = [p EXCEPT !.events = @ + 1]
                                       /\ ConsumeEvent(protocol, p, e) = Handle(protocol, r, e)
<1>1. CASE p.failed \/ e.kind = "comment" \/ ~e.framed
    BY <1>1 DEF ConsumeEvent
<1>2. CASE ~(p.failed \/ e.kind = "comment" \/ ~e.framed)
    <2>1. ~(p.events >= MaxEvents \/ e.kind \in {"junk", "error"})
        BY <1>2, FailureStays DEF ConsumeEvent
    <2>2. e.kind \in {"message", "item", "done"}
        BY <1>2, <2>1 DEF Events, Kinds
    <2>3. MaxEvents \in Nat /\ p.events \in Nat
        BY SearchAssumption DEF Parsers, ParserTypes
    <2>4. PICK r \in Parsers : r = [p EXCEPT !.events = @ + 1]
        <3>1. p.events < MaxEvents
            BY <2>1, <2>3
        <3> QED BY <3>1, UnlimitedFields
    <2>5. ConsumeEvent(protocol, p, e) = Handle(protocol, r, e)
        BY <1>2, <2>1, <2>4 DEF ConsumeEvent
    <2> QED BY <1>2, <2>2, <2>4, <2>5
<1> QED BY <1>1, <1>2

\* A message of the chat and of the anthropic protocol.
MessageRead(p, e, usage, q) ==
  /\ q.seen = p.seen
  /\ ~q.failed => /\ q.answer = p.answer \o e.text /\ q.cites = p.cites \cup ToSet(e.cites)
                  /\ q.terminal = p.terminal /\ q.usage = usage

LEMMA MessagesRead ==
    ASSUME NEW p \in Parsers, NEW e \in Events
    PROVE  /\ MessageRead(p, e, IF e.usage.in + e.usage.out = 0 THEN p.usage ELSE e.usage, ConsumeChat(p, e))
           /\ MessageRead(p, e, MergeUsage(p.usage, e.usage), ConsumeAnthropic(p, e))
<1>1. e.text \in Seq(Words) /\ e.cites \in Seq(Nat)
    BY PiecesAreWords DEF Events
<1>2. PICK c \in Parsers : c = Collect(p, e.text, e.cites)
    BY <1>1, CollectWithin
<1>3. Collected(p, e.text, e.cites, c)
    BY <1>1, <1>2, CollectAdds
<1>4. ASSUME NEW u PROVE /\ [c EXCEPT !.usage = u].failed = c.failed /\ [c EXCEPT !.usage = u].seen = c.seen
                         /\ [c EXCEPT !.usage = u].answer = c.answer /\ [c EXCEPT !.usage = u].cites = c.cites
                         /\ [c EXCEPT !.usage = u].terminal = c.terminal /\ [c EXCEPT !.usage = u].usage = u
    BY DEF Parsers, ParserTypes
<1>5. MessageRead(p, e, IF e.usage.in + e.usage.out = 0 THEN p.usage ELSE e.usage, ConsumeChat(p, e))
    <2>1. PICK u : u = IF e.usage.in + e.usage.out = 0 THEN c.usage ELSE e.usage
        OBVIOUS
    <2>2. ConsumeChat(p, e) = [c EXCEPT !.usage = u]
        BY <1>2, <2>1 DEF ConsumeChat
    <2>3. PICK t : t = IF e.usage.in + e.usage.out = 0 THEN p.usage ELSE e.usage
        OBVIOUS
    <2>4. ~c.failed => u = t
        BY <1>3, <2>1, <2>3 DEF Collected
    <2>5. MessageRead(p, e, t, [c EXCEPT !.usage = u])
        BY <1>3, <1>4, <2>4 DEF Collected, MessageRead
    <2> QED BY <2>2, <2>3, <2>5
<1>6. MessageRead(p, e, MergeUsage(p.usage, e.usage), ConsumeAnthropic(p, e))
    <2>1. PICK u : u = MergeUsage(c.usage, e.usage)
        OBVIOUS
    <2>2. ConsumeAnthropic(p, e) = [c EXCEPT !.usage = u]
        BY <1>2, <2>1 DEF ConsumeAnthropic
    <2>3. PICK t : t = MergeUsage(p.usage, e.usage)
        OBVIOUS
    <2>4. ~c.failed => u = t
        BY <1>3, <2>1, <2>3 DEF Collected
    <2>5. MessageRead(p, e, t, [c EXCEPT !.usage = u])
        BY <1>3, <1>4, <2>4 DEF Collected, MessageRead
    <2> QED BY <2>2, <2>3, <2>5
<1> QED BY <1>5, <1>6

\* A search call.
LEMMA RoundRead ==
    ASSUME NEW p \in Parsers, NEW key \in Nat, NEW q, q = EmitSearchRound(p, key)
    PROVE  /\ q.failed => p.failed \/ q.seen = p.seen
           /\ ~q.failed => /\ q.seen = p.seen \cup {key} /\ q.answer = p.answer /\ q.cites = p.cites
                           /\ q.usage = p.usage /\ q.terminal = p.terminal /\ q.completed = p.completed
<1>1. CASE key \in p.seen
    <2>1. q = p /\ p.seen \cup {key} = p.seen
        BY <1>1 DEF EmitSearchRound
    <2> QED BY <2>1
<1>2. CASE key \notin p.seen /\ Cardinality(p.seen) >= MaxRounds
    BY <1>2, FailureStays DEF EmitSearchRound
<1>3. CASE key \notin p.seen /\ ~(Cardinality(p.seen) >= MaxRounds)
    <2>1. q = [p EXCEPT !.seen = @ \cup {key}]
        BY <1>3 DEF EmitSearchRound
    <2> QED BY <2>1 DEF Parsers, ParserTypes
<1> QED BY <1>1, <1>2, <1>3

\* An event that ends the reading is none of a search call.
LEMMA FailureKeepsCalls ==
    ASSUME NEW p \in Parsers, NEW e \in Events, NEW protocol \in {"responses", "chat", "anthropic"},
           ~p.failed, ConsumeEvent(protocol, p, e).failed
    PROVE  ConsumeEvent(protocol, p, e).seen = p.seen
<1>1. CASE e.kind = "comment" \/ ~e.framed
    BY <1>1 DEF ConsumeEvent
<1>2. CASE ~(e.kind = "comment" \/ ~e.framed) /\ (p.events >= MaxEvents \/ e.kind \in {"junk", "error"})
    BY <1>2, FailureStays DEF ConsumeEvent
<1>3. CASE ~(e.kind = "comment" \/ ~e.framed) /\ ~(p.events >= MaxEvents \/ e.kind \in {"junk", "error"})
    <2>1. MaxEvents \in Nat /\ p.events \in Nat
        BY SearchAssumption DEF Parsers, ParserTypes
    <2>2. PICK r \in Parsers : r = [p EXCEPT !.events = @ + 1]
        <3>1. p.events < MaxEvents
            BY <1>3, <2>1
        <3> QED BY <3>1, UnlimitedFields
    <2>3. r.seen = p.seen /\ r.failed = p.failed
        BY <2>2 DEF Parsers, ParserTypes
    <2>4. ConsumeEvent(protocol, p, e) = Handle(protocol, r, e)
        BY <1>3, <2>2 DEF ConsumeEvent
    <2>5. PICK q : q = Handle(protocol, r, e)
        OBVIOUS
    <2>6. e.key \in Nat /\ r.terminal \in BOOLEAN /\ e.terminal \in BOOLEAN
        BY DEF Events, Parsers, ParserTypes
    <2>7. PICK m \in Parsers : m = [r EXCEPT !.terminal = @ \/ e.terminal] /\ m.seen = r.seen
        <3>1. PICK b \in BOOLEAN : b = (r.terminal \/ e.terminal)
            <4>1. (r.terminal \/ e.terminal) \in BOOLEAN
                BY <2>6
            <4> QED BY <4>1, Zenon
        <3>2. PICK m \in Parsers : m = [r EXCEPT !.terminal = b]
            BY UnlimitedFields
        <3> QED BY <3>1, <3>2 DEF Parsers, ParserTypes
    <2>8. CASE e.kind = "item" /\ protocol \in {"responses", "chat"}
        <3>1. q = EmitSearchRound(r, e.key)
            BY <2>5, <2>8 DEF Handle, HandleResponses, HandleChat
        <3> QED BY <2>3, <2>4, <2>5, <2>6, <3>1, RoundRead
    <2>9. CASE e.kind # "item" /\ protocol = "responses"
        <3>1. q = r \/ q = [r EXCEPT !.completed = <<e>>]
            BY <2>5, <2>9 DEF Handle, HandleResponses
        <3> QED BY <2>3, <2>4, <2>5, <3>1 DEF Parsers, ParserTypes
    <2>10. CASE e.kind # "item" /\ protocol = "chat"
        <3>1. q = [r EXCEPT !.terminal = TRUE] \/ q = ConsumeChat(m, e)
            BY <2>5, <2>7, <2>10 DEF Handle, HandleChat
        <3>2. ConsumeChat(m, e).seen = m.seen
            BY MessagesRead DEF MessageRead
        <3>3. [r EXCEPT !.terminal = TRUE].seen = r.seen
            BY DEF Parsers, ParserTypes
        <3> QED BY <2>3, <2>4, <2>5, <2>7, <3>1, <3>2, <3>3
    <2>11. CASE protocol = "anthropic"
        <3>1. q = r \/ q = ConsumeAnthropic(m, e)
            BY <2>5, <2>7, <2>11 DEF Handle, HandleAnthropic
        <3>2. ConsumeAnthropic(m, e).seen = m.seen
            BY MessagesRead DEF MessageRead
        <3> QED BY <2>3, <2>4, <2>5, <2>7, <3>1, <3>2
    <2> QED BY <2>8, <2>9, <2>10, <2>11
<1> QED BY <1>1, <1>2, <1>3

\* What a parser has after the response so far, in each protocol.
ResponsesHasRead(p, sent) ==
  /\ p.answer = <<>> /\ p.cites = {} /\ p.seen = RoundsIn(sent)
  /\ p.completed = IF Finals(sent, TRUE) = {} THEN <<>> ELSE <<sent[Max(Finals(sent, TRUE))]>>
ChatHasRead(p, sent) ==
  /\ p.answer = TextIn(sent, TRUE) /\ p.cites = SourcesIn(sent, TRUE) /\ p.seen = RoundsIn(sent)
  /\ p.usage.in + p.usage.out = PriceIn(sent, TRUE)
  /\ p.terminal <=> Finals(sent, TRUE) # {} \/ HasDone(sent)
AnthropicHasRead(p, sent) ==
  /\ p.answer = TextIn(sent, TRUE) /\ p.cites = SourcesIn(sent, TRUE)
  /\ p.usage.in = InputIn(sent, TRUE) /\ p.usage.out = OutputIn(sent, TRUE)
  /\ p.terminal <=> Finals(sent, TRUE) # {}

\* A response of nothing.
SaysNothing(sent, streamed) ==
  /\ TextIn(sent, streamed) = <<>> /\ SourcesIn(sent, streamed) = {} /\ Finals(sent, streamed) = {}
  /\ PriceIn(sent, streamed) = 0 /\ InputIn(sent, streamed) = 0 /\ OutputIn(sent, streamed) = 0

LEMMA EmptyResponse ==
    ASSUME NEW streamed \in BOOLEAN
    PROVE  SaysNothing(<<>>, streamed) /\ RoundsIn(<<>>) = {} /\ ~HasDone(<<>>) /\ ~IsEventStream(<<>>)
<1>1. PICK none : none = <<>>
    OBVIOUS
<1>2. DOMAIN none = {}
    BY <1>1
<1>3. TextIn(none, streamed) = <<>>
    <2>1. none \in Seq(Events)
        BY <1>1
    <2>2. PICK e : e \in Events
        <3>1. Comment \in UpstreamEvents
            BY DEF UpstreamEvents
        <3> QED BY <3>1, UpstreamSendsEvents
    <2> QED BY <1>1, <2>1, <2>2, TextGrows
<1>4. Told(none, streamed) = {} /\ Finals(none, streamed) = {}
    BY <1>2 DEF Told, Finals
<1>5. SourcesIn(none, streamed) = {}
    BY <1>4 DEF SourcesIn
<1>6. RoundsIn(none) = {} /\ ~HasDone(none) /\ ~IsEventStream(none)
    BY <1>2 DEF RoundsIn, HasDone, IsEventStream
<1>7. \A f : DOMAIN f = {} => Latest(f) = 0
    BY DEF Latest
<1>8. PriceIn(none, streamed) = 0 /\ InputIn(none, streamed) = 0 /\ OutputIn(none, streamed) = 0
    BY <1>4, <1>7 DEF PriceIn, InputIn, OutputIn
<1> QED BY <1>1, <1>3, <1>4, <1>5, <1>6, <1>8 DEF SaysNothing

\* A new parser has read nothing.
LEMMA NothingRead ==
    ResponsesHasRead(NewParser, <<>>) /\ ChatHasRead(NewParser, <<>>) /\ AnthropicHasRead(NewParser, <<>>)
<1>1. SaysNothing(<<>>, TRUE) /\ RoundsIn(<<>>) = {} /\ ~HasDone(<<>>)
    BY EmptyResponse
<1>2. PICK p : p = NewParser
    OBVIOUS
<1>3. /\ p.answer = <<>> /\ p.cites = {} /\ p.seen = {} /\ p.completed = <<>>
      /\ p.usage.in = 0 /\ p.usage.out = 0 /\ ~p.terminal
    BY <1>2 DEF NewParser
<1>4. p.usage.in + p.usage.out = 0
    BY <1>3
<1>5. ResponsesHasRead(p, <<>>)
    BY <1>1, <1>3 DEF SaysNothing, ResponsesHasRead
<1>6. ChatHasRead(p, <<>>)
    BY <1>1, <1>3, <1>4, Zenon DEF SaysNothing, ChatHasRead
<1>7. AnthropicHasRead(p, <<>>)
    BY <1>1, <1>3, Zenon DEF SaysNothing, AnthropicHasRead
<1> QED BY <1>2, <1>5, <1>6, <1>7

\* An event that is no message, no search call and no [DONE] says nothing.
LEMMA PassedOver ==
    ASSUME NEW sent \in Seq(Events), NEW e \in Events, e.kind = "comment" \/ ~e.framed
    PROVE  /\ TextIn(Append(sent, e), TRUE) = TextIn(sent, TRUE)
           /\ SourcesIn(Append(sent, e), TRUE) = SourcesIn(sent, TRUE)
           /\ RoundsIn(Append(sent, e)) = RoundsIn(sent)
           /\ PriceIn(Append(sent, e), TRUE) = PriceIn(sent, TRUE)
           /\ InputIn(Append(sent, e), TRUE) = InputIn(sent, TRUE)
           /\ OutputIn(Append(sent, e), TRUE) = OutputIn(sent, TRUE)
           /\ Finals(Append(sent, e), TRUE) = Finals(sent, TRUE)
           /\ HasDone(Append(sent, e)) <=> HasDone(sent)
<1>1. PICK more : more = Append(sent, e)
    OBVIOUS
<1>2. PICK n \in Nat : Longer(sent, e, more, n)
    BY <1>1, OneEventMore DEF Longer
<1>3. ~IsTold(e, TRUE) /\ ~(e.kind = "item" /\ e.framed) /\ ~(e.kind = "done" /\ e.framed)
    BY DEF IsTold, Events
<1> QED BY <1>1, <1>2, <1>3, TextGrows, SourcesGrow, CallsGrow, PricesGrow, MessagesGrow

\* The flag of the end, after a message.
LEMMA EndSeen ==
    ASSUME NEW p \in Parsers, NEW e \in Events
    PROVE  \E m \in Parsers : /\ m = [p EXCEPT !.terminal = @ \/ e.terminal]
                              /\ m.terminal <=> p.terminal \/ e.terminal
                              /\ m.seen = p.seen /\ m.answer = p.answer /\ m.cites = p.cites /\ m.usage = p.usage
<1>1. p.terminal \in BOOLEAN /\ e.terminal \in BOOLEAN
    BY DEF Events, Parsers, ParserTypes
<1>2. PICK b \in BOOLEAN : b = (p.terminal \/ e.terminal)
    <2>1. (p.terminal \/ e.terminal) \in BOOLEAN
        BY <1>1
    <2> QED BY <2>1, Zenon
<1>3. PICK m \in Parsers : m = [p EXCEPT !.terminal = b]
    BY UnlimitedFields
<1>4. m.terminal = b /\ m.seen = p.seen /\ m.answer = p.answer /\ m.cites = p.cites /\ m.usage = p.usage
    BY <1>3 DEF Parsers, ParserTypes
<1>5. m = [p EXCEPT !.terminal = @ \/ e.terminal]
    BY <1>2, <1>3 DEF Parsers, ParserTypes
<1> QED BY <1>2, <1>4, <1>5, Zenon

\* The count of events is not part of what is read.
LEMMA CountedEvent ==
    ASSUME NEW p \in Parsers, NEW r, r = [p EXCEPT !.events = @ + 1]
    PROVE  /\ r.seen = p.seen /\ r.answer = p.answer /\ r.cites = p.cites /\ r.usage = p.usage
           /\ r.completed = p.completed /\ r.terminal = p.terminal /\ r.failed = p.failed
BY DEF Parsers, ParserTypes

\* One event more in a stream of the chat protocol.
LEMMA ChatReads ==
    ASSUME NEW p \in Parsers, NEW sent \in Seq(Events), NEW e \in Events, ChatHasRead(p, sent),
           NEW q, q = ConsumeEvent("chat", p, e), ~q.failed
    PROVE  ChatHasRead(q, Append(sent, e))
<1>1. PICK more : more = Append(sent, e)
    OBVIOUS
<1>2. PICK n \in Nat : Longer(sent, e, more, n)
    BY <1>1, OneEventMore DEF Longer
<1>3. CASE (e.kind = "comment" \/ ~e.framed) /\ q = p
    BY <1>3, PassedOver DEF ChatHasRead
<1>4. ASSUME e.framed, e.kind \in {"message", "item", "done"},
             NEW r \in Parsers, r = [p EXCEPT !.events = @ + 1], q = Handle("chat", r, e)
      PROVE  ChatHasRead(q, more)
    <2>1. /\ r.seen = p.seen /\ r.answer = p.answer /\ r.cites = p.cites /\ r.usage = p.usage
          /\ r.terminal = p.terminal
        BY <1>4, CountedEvent
    <2>2. ChatHasRead(r, sent)
        BY <2>1 DEF ChatHasRead
    <2>3. CASE e.kind # "message"
        <3>1. ~IsTold(e, TRUE)
            BY <2>3 DEF IsTold
        <3>2. /\ TextIn(more, TRUE) = TextIn(sent, TRUE) /\ SourcesIn(more, TRUE) = SourcesIn(sent, TRUE)
              /\ PriceIn(more, TRUE) = PriceIn(sent, TRUE) /\ Finals(more, TRUE) = Finals(sent, TRUE)
            BY <1>1, <1>2, <3>1, TextGrows, SourcesGrow, PricesGrow, MessagesGrow
        <3>3. CASE e.kind = "item"
            <4>1. q = EmitSearchRound(r, e.key) /\ e.key \in Nat
                BY <1>4, <3>3 DEF Handle, HandleChat, Events
            <4>2. /\ q.seen = r.seen \cup {e.key} /\ q.answer = r.answer /\ q.cites = r.cites
                  /\ q.usage = r.usage /\ q.terminal = r.terminal
                BY <4>1, RoundRead
            <4>3. RoundsIn(more) = RoundsIn(sent) \cup {e.key} /\ (HasDone(more) <=> HasDone(sent))
                BY <1>2, <1>4, <3>3, CallsGrow
            <4> QED BY <2>2, <3>2, <4>2, <4>3 DEF ChatHasRead
        <3>4. CASE e.kind = "done"
            <4>1. q = [r EXCEPT !.terminal = TRUE]
                BY <1>4, <3>4 DEF Handle, HandleChat
            <4>2. /\ q.seen = r.seen /\ q.answer = r.answer /\ q.cites = r.cites /\ q.usage = r.usage
                  /\ q.terminal
                BY <4>1 DEF Parsers, ParserTypes
            <4>3. RoundsIn(more) = RoundsIn(sent) /\ HasDone(more)
                BY <1>2, <1>4, <3>4, CallsGrow
            <4> QED BY <2>2, <3>2, <4>2, <4>3 DEF ChatHasRead
        <3> QED BY <1>4, <2>3, <3>3, <3>4
    <2>4. CASE e.kind = "message"
        <3>1. IsTold(e, TRUE)
            BY <1>4, <2>4 DEF IsTold, Events
        <3>2. /\ TextIn(more, TRUE) = TextIn(sent, TRUE) \o e.text
              /\ SourcesIn(more, TRUE) = SourcesIn(sent, TRUE) \cup ToSet(e.cites)
            BY <1>1, <1>2, <3>1, TextGrows, SourcesGrow
        <3>3. RoundsIn(more) = RoundsIn(sent) /\ (HasDone(more) <=> HasDone(sent))
            BY <1>2, <2>4, CallsGrow
        <3>4. Finals(more, TRUE) # {} <=> Finals(sent, TRUE) # {} \/ e.terminal
            <4>1. CASE e.terminal
                <5>1. Finals(more, TRUE) = Finals(sent, TRUE) \cup {n + 1}
                    BY <1>2, <3>1, <4>1, MessagesGrow
                <5> QED BY <4>1, <5>1
            <4>2. CASE ~e.terminal
                <5>1. Finals(more, TRUE) = Finals(sent, TRUE)
                    BY <1>2, <3>1, <4>2, MessagesGrow
                <5> QED BY <4>2, <5>1
            <4> QED BY <4>1, <4>2
        <3>5. PICK m \in Parsers : /\ m = [r EXCEPT !.terminal = @ \/ e.terminal]
                                   /\ m.terminal <=> r.terminal \/ e.terminal
                                   /\ m.seen = r.seen /\ m.answer = r.answer /\ m.cites = r.cites
                                   /\ m.usage = r.usage
            BY EndSeen
        <3>6. q = ConsumeChat(m, e)
            BY <1>4, <2>4, <3>5 DEF Handle, HandleChat
        <3>7. PICK u : u = IF e.usage.in + e.usage.out = 0 THEN m.usage ELSE e.usage
            OBVIOUS
        <3>8. /\ q.seen = m.seen /\ q.answer = m.answer \o e.text /\ q.cites = m.cites \cup ToSet(e.cites)
              /\ q.terminal = m.terminal /\ q.usage = u
            <4>1. MessageRead(m, e, u, q)
                BY <3>6, <3>7, MessagesRead
            <4> QED BY <4>1 DEF MessageRead
        <3>9. u.in + u.out = PriceIn(more, TRUE)
            <4>1. PriceIn(more, TRUE) =
                    IF e.usage.in + e.usage.out # 0 THEN e.usage.in + e.usage.out ELSE PriceIn(sent, TRUE)
                BY <1>2, <3>1, PricesGrow
            <4>2. r.usage.in + r.usage.out = PriceIn(sent, TRUE)
                BY <2>2 DEF ChatHasRead
            <4> QED BY <3>5, <3>7, <4>1, <4>2
        <3>10. q.terminal <=> Finals(more, TRUE) # {} \/ HasDone(more)
            <4>1. r.terminal <=> Finals(sent, TRUE) # {} \/ HasDone(sent)
                BY <2>2 DEF ChatHasRead
            <4> QED BY <3>3, <3>4, <3>5, <3>8, <4>1
        <3> QED BY <2>2, <3>2, <3>3, <3>5, <3>8, <3>9, <3>10 DEF ChatHasRead
    <2> QED BY <2>3, <2>4
<1> QED BY <1>1, <1>3, <1>4, EventRead

\* One event more in a stream of the anthropic protocol.
LEMMA AnthropicReads ==
    ASSUME NEW p \in Parsers, NEW sent \in Seq(Events), NEW e \in Events, AnthropicHasRead(p, sent),
           NEW q, q = ConsumeEvent("anthropic", p, e), ~q.failed
    PROVE  AnthropicHasRead(q, Append(sent, e))
<1>1. PICK more : more = Append(sent, e)
    OBVIOUS
<1>2. PICK n \in Nat : Longer(sent, e, more, n)
    BY <1>1, OneEventMore DEF Longer
<1>3. CASE (e.kind = "comment" \/ ~e.framed) /\ q = p
    BY <1>3, PassedOver DEF AnthropicHasRead
<1>4. ASSUME e.framed, e.kind \in {"message", "item", "done"},
             NEW r \in Parsers, r = [p EXCEPT !.events = @ + 1], q = Handle("anthropic", r, e)
      PROVE  AnthropicHasRead(q, more)
    <2>1. r.answer = p.answer /\ r.cites = p.cites /\ r.usage = p.usage /\ r.terminal = p.terminal
        BY <1>4, CountedEvent
    <2>2. AnthropicHasRead(r, sent)
        BY <2>1 DEF AnthropicHasRead
    <2>3. CASE e.kind # "message"
        <3>1. ~IsTold(e, TRUE)
            BY <2>3 DEF IsTold
        <3>2. /\ TextIn(more, TRUE) = TextIn(sent, TRUE) /\ SourcesIn(more, TRUE) = SourcesIn(sent, TRUE)
              /\ InputIn(more, TRUE) = InputIn(sent, TRUE) /\ OutputIn(more, TRUE) = OutputIn(sent, TRUE)
              /\ Finals(more, TRUE) = Finals(sent, TRUE)
            BY <1>1, <1>2, <3>1, TextGrows, SourcesGrow, PricesGrow, MessagesGrow
        <3>3. q = r
            BY <1>4, <2>3 DEF Handle, HandleAnthropic
        <3> QED BY <2>2, <3>2, <3>3 DEF AnthropicHasRead
    <2>4. CASE e.kind = "message"
        <3>1. IsTold(e, TRUE)
            BY <1>4, <2>4 DEF IsTold, Events
        <3>2. /\ TextIn(more, TRUE) = TextIn(sent, TRUE) \o e.text
              /\ SourcesIn(more, TRUE) = SourcesIn(sent, TRUE) \cup ToSet(e.cites)
            BY <1>1, <1>2, <3>1, TextGrows, SourcesGrow
        <3>4. Finals(more, TRUE) # {} <=> Finals(sent, TRUE) # {} \/ e.terminal
            <4>1. CASE e.terminal
                <5>1. Finals(more, TRUE) = Finals(sent, TRUE) \cup {n + 1}
                    BY <1>2, <3>1, <4>1, MessagesGrow
                <5> QED BY <4>1, <5>1
            <4>2. CASE ~e.terminal
                <5>1. Finals(more, TRUE) = Finals(sent, TRUE)
                    BY <1>2, <3>1, <4>2, MessagesGrow
                <5> QED BY <4>2, <5>1
            <4> QED BY <4>1, <4>2
        <3>5. PICK m \in Parsers : /\ m = [r EXCEPT !.terminal = @ \/ e.terminal]
                                   /\ m.terminal <=> r.terminal \/ e.terminal
                                   /\ m.seen = r.seen /\ m.answer = r.answer /\ m.cites = r.cites
                                   /\ m.usage = r.usage
            BY EndSeen
        <3>6. q = ConsumeAnthropic(m, e)
            BY <1>4, <2>4, <3>5 DEF Handle, HandleAnthropic
        <3>7. PICK u : u = MergeUsage(m.usage, e.usage)
            OBVIOUS
        <3>8. /\ q.answer = m.answer \o e.text /\ q.cites = m.cites \cup ToSet(e.cites)
              /\ q.terminal = m.terminal /\ q.usage = u
            <4>1. MessageRead(m, e, u, q)
                BY <3>6, <3>7, MessagesRead
            <4> QED BY <4>1 DEF MessageRead
        <3>9. u.in = InputIn(more, TRUE) /\ u.out = OutputIn(more, TRUE)
            <4>1. /\ InputIn(more, TRUE) = IF e.usage.in # 0 THEN e.usage.in ELSE InputIn(sent, TRUE)
                  /\ OutputIn(more, TRUE) = IF e.usage.out # 0 THEN e.usage.out ELSE OutputIn(sent, TRUE)
                BY <1>2, <3>1, PricesGrow
            <4>2. r.usage.in = InputIn(sent, TRUE) /\ r.usage.out = OutputIn(sent, TRUE)
                BY <2>2 DEF AnthropicHasRead
            <4>3. u.in = (IF e.usage.in = 0 THEN m.usage.in ELSE e.usage.in)
                  /\ u.out = (IF e.usage.out = 0 THEN m.usage.out ELSE e.usage.out)
                BY <3>7 DEF MergeUsage
            <4> QED BY <3>5, <4>1, <4>2, <4>3
        <3>10. q.terminal <=> Finals(more, TRUE) # {}
            <4>1. r.terminal <=> Finals(sent, TRUE) # {}
                BY <2>2 DEF AnthropicHasRead
            <4> QED BY <3>4, <3>5, <3>8, <4>1
        <3> QED BY <2>2, <3>2, <3>5, <3>8, <3>9, <3>10 DEF AnthropicHasRead
    <2> QED BY <2>3, <2>4
<1> QED BY <1>1, <1>3, <1>4, EventRead

\* One event more in a stream of the responses protocol.
LEMMA ResponsesReads ==
    ASSUME NEW p \in Parsers, NEW sent \in Seq(Events), NEW e \in Events, ResponsesHasRead(p, sent),
           NEW q, q = ConsumeEvent("responses", p, e), ~q.failed
    PROVE  ResponsesHasRead(q, Append(sent, e))
<1>1. PICK more : more = Append(sent, e)
    OBVIOUS
<1>2. PICK n \in Nat : Longer(sent, e, more, n)
    BY <1>1, OneEventMore DEF Longer
<1>3. PICK F : F = Finals(sent, TRUE) /\ F \in SUBSET (1 .. n)
    BY <1>2, MessagesGrow
<1>4. PICK last : last = IF F = {} THEN <<>> ELSE <<more[Max(F)]>>
    OBVIOUS
<1>5. ResponsesHasRead(p, sent) <=> /\ p.answer = <<>> /\ p.cites = {} /\ p.seen = RoundsIn(sent)
                                    /\ p.completed = last
    <2>1. F # {} => more[Max(F)] = sent[Max(F)]
        <3>1. F # {} => Max(F) \in F
            BY <1>3, LargestPosition
        <3> QED BY <1>2, <1>3, <3>1 DEF Longer
    <2> QED BY <1>3, <1>4, <2>1 DEF ResponsesHasRead
<1>6. CASE Finals(more, TRUE) = F /\ RoundsIn(more) = RoundsIn(sent) /\ q.answer = p.answer /\ q.cites = p.cites
           /\ q.seen = p.seen /\ q.completed = p.completed
    BY <1>1, <1>4, <1>5, <1>6 DEF ResponsesHasRead
<1>7. CASE (e.kind = "comment" \/ ~e.framed) /\ q = p
    BY <1>1, <1>3, <1>6, <1>7, PassedOver
<1>8. ASSUME e.framed, e.kind \in {"message", "item", "done"},
             NEW r \in Parsers, r = [p EXCEPT !.events = @ + 1], q = Handle("responses", r, e)
      PROVE  ResponsesHasRead(q, more)
    <2>1. r.answer = p.answer /\ r.cites = p.cites /\ r.seen = p.seen /\ r.completed = p.completed
        BY <1>8, CountedEvent
    <2>2. CASE e.kind = "item"
        <3>1. ~IsTold(e, TRUE)
            BY <2>2 DEF IsTold
        <3>2. Finals(more, TRUE) = F
            BY <1>2, <1>3, <3>1, MessagesGrow
        <3>3. q = EmitSearchRound(r, e.key) /\ e.key \in Nat
            BY <1>8, <2>2 DEF Handle, HandleResponses, Events
        <3>4. /\ q.seen = r.seen \cup {e.key} /\ q.answer = r.answer /\ q.cites = r.cites
              /\ q.completed = r.completed
            BY <3>3, RoundRead
        <3>5. RoundsIn(more) = RoundsIn(sent) \cup {e.key}
            BY <1>2, <1>8, <2>2, CallsGrow
        <3> QED BY <1>4, <1>5, <2>1, <3>2, <3>4, <3>5 DEF ResponsesHasRead
    <2>3. CASE e.kind # "item" /\ ~(e.kind = "message" /\ e.terminal)
        <3>1. q = r
            BY <1>8, <2>3 DEF Handle, HandleResponses
        <3>2. Finals(more, TRUE) = F
            BY <1>2, <1>3, <2>3, MessagesGrow DEF IsTold
        <3>3. RoundsIn(more) = RoundsIn(sent)
            BY <1>2, <2>3, CallsGrow
        <3> QED BY <1>1, <1>6, <2>1, <3>1, <3>2, <3>3
    <2>4. CASE e.kind = "message" /\ e.terminal
        <3>1. q = [r EXCEPT !.completed = <<e>>]
            BY <1>8, <2>4 DEF Handle, HandleResponses
        <3>2. q.answer = r.answer /\ q.cites = r.cites /\ q.seen = r.seen /\ q.completed = <<e>>
            BY <3>1 DEF Parsers, ParserTypes
        <3>3. PICK F2 : F2 = F \cup {n + 1}
            OBVIOUS
        <3>4. Finals(more, TRUE) = F2
            <4>1. IsTold(e, TRUE)
                BY <1>8, <2>4 DEF IsTold, Events
            <4> QED BY <1>2, <1>3, <2>4, <3>3, <4>1, MessagesGrow
        <3>5. Max(F2) = n + 1 /\ F2 # {}
            <4>1. F2 \in SUBSET (1 .. n + 1) /\ n + 1 \in F2
                <5>1. n + 1 \in 1 .. n + 1 /\ \A i \in 1 .. n : i \in 1 .. n + 1
                    OBVIOUS
                <5> QED BY <1>3, <3>3, <5>1
            <4> QED BY <4>1, LargestPosition
        <3>6. more[n + 1] = e /\ RoundsIn(more) = RoundsIn(sent)
            BY <1>2, <2>4, CallsGrow DEF Longer
        <3> QED BY <1>5, <2>1, <3>2, <3>4, <3>5, <3>6 DEF ResponsesHasRead
    <2> QED BY <1>8, <2>2, <2>3, <2>4
<1> QED BY <1>1, <1>7, <1>8, EventRead

\* A whole stream of the anthropic protocol, unless it had to be given up.
LEMMA AnthropicStream ==
    ASSUME NEW sent \in Seq(Events), NEW last \in Parsers, ~last.failed,
           StepsLeadTo(Len(sent), Parsers, NewParser, StreamSteps(sent), last)
    PROVE  AnthropicHasRead(last, sent)
<1>1. PICK n \in Nat : n = Len(sent) /\ DOMAIN sent = 1 .. n /\ \A i \in 1 .. n : sent[i] \in Events
    OBVIOUS
<1>2. PICK h \in [0 .. n -> Parsers] :
         h[0] = NewParser /\ h[n] = last /\ \A k \in 1 .. n : h[k] = StreamSteps(sent)[<<k, h[k - 1]>>]
    BY <1>1 DEF StepsLeadTo
<1> DEFINE Read(k) == h[k].failed \/ AnthropicHasRead(h[k], SubSeq(sent, 1, k))
<1>3. Read(0)
    <2>1. SubSeq(sent, 1, 0) = <<>>
        OBVIOUS
    <2> QED BY <1>2, <2>1, NothingRead
<1>4. ASSUME NEW k \in 1 .. n, Read(k - 1) PROVE Read(k)
    <2>1. k - 1 \in 0 .. n /\ k - 1 \in Nat
        OBVIOUS
    <2>2. PICK before \in Seq(Events) : before = SubSeq(sent, 1, k - 1)
        <3>1. SubSeq(sent, 1, k - 1) \in Seq(Events)
            BY <1>1, <2>1
        <3> QED BY <3>1, Zenon
    <2>3. PICK e \in Events : e = sent[k]
        BY <1>1
    <2>4. SubSeq(sent, 1, k) = Append(before, e)
        <3>1. Len(before) = k - 1 /\ \A i \in 1 .. k - 1 : before[i] = sent[i]
            BY <1>1, <2>1, <2>2
        <3>2. Len(SubSeq(sent, 1, k)) = k /\ \A i \in 1 .. k : SubSeq(sent, 1, k)[i] = sent[i]
            BY <1>1
        <3>3. PICK a : a = SubSeq(sent, 1, k) /\ a \in Seq(Events) /\ Len(a) = k /\ \A i \in 1 .. k : a[i] = sent[i]
            BY <1>1, <3>2
        <3>4. PICK b : b = Append(before, e) /\ b \in Seq(Events) /\ Len(b) = k /\ \A i \in 1 .. k : b[i] = sent[i]
            <4>1. PICK b : b = Append(before, e)
                OBVIOUS
            <4>2. b \in Seq(Events) /\ Len(b) = Len(before) + 1 /\ (\A i \in 1 .. Len(before) : b[i] = before[i])
                  /\ b[Len(before) + 1] = e
                BY <4>1, OneEventMore
            <4>3. Len(before) + 1 = k
                BY <2>1, <3>1
            <4>4. \A i \in 1 .. k : i \in 1 .. k - 1 \/ i = k
                OBVIOUS
            <4>5. \A i \in 1 .. k - 1 : b[i] = sent[i]
                BY <3>1, <4>2
            <4> QED BY <2>3, <4>1, <4>2, <4>3, <4>4, <4>5
        <3>5. a = b
            BY <3>3, <3>4
        <3> QED BY <3>3, <3>4, <3>5
    <2>5. PICK p \in Parsers : p = h[k - 1]
        BY <1>2, <2>1
    <2>6. h[k] = ConsumeEvent("anthropic", p, e)
        BY <1>1, <1>2, <2>3, <2>5 DEF StreamSteps
    <2>7. p.failed \/ AnthropicHasRead(p, before)
        BY <1>4, <2>2, <2>5
    <2>8. CASE p.failed
        BY <2>6, <2>8 DEF ConsumeEvent
    <2>9. CASE ~p.failed /\ ~h[k].failed
        BY <2>4, <2>6, <2>7, <2>9, AnthropicReads
    <2> QED BY <2>8, <2>9
<1>5. \A k \in 0 .. n : Read(k)
    <2> HIDE DEF Read
    <2> DEFINE Wrong == {k \in 0 .. n : ~Read(k)}
    <2> SUFFICES ASSUME Wrong # {} PROVE FALSE
        OBVIOUS
    <2>1. Wrong \in SUBSET Nat
        OBVIOUS
    <2>2. PICK m : m \in Wrong /\ \A u \in Wrong : m <= u
        BY <2>1, MinOfNaturals
    <2>3. m \in 1 .. n /\ m - 1 \in 0 .. n /\ ~(m <= m - 1)
        BY <1>3, <2>2
    <2>4. Read(m - 1)
        BY <2>2, <2>3
    <2> QED BY <1>4, <2>2, <2>3, <2>4
<1>6. SubSeq(sent, 1, n) = sent /\ n \in 0 .. n
    BY <1>1
<1>7. Read(n)
    BY <1>5, <1>6
<1> QED BY <1>2, <1>6, <1>7

\* A response that is one JSON value.
LEMMA OneMessage ==
    ASSUME NEW sent \in Seq(Events), Len(sent) = 1, sent[1].kind = "message", ~IsEventStream(sent)
    PROVE  /\ sent[1] \in Events
           /\ TextIn(sent, FALSE) = sent[1].text /\ SourcesIn(sent, FALSE) = ToSet(sent[1].cites)
           /\ PriceIn(sent, FALSE) = sent[1].usage.in + sent[1].usage.out
           /\ InputIn(sent, FALSE) = sent[1].usage.in /\ OutputIn(sent, FALSE) = sent[1].usage.out
<1>1. PICK e \in Events : e = sent[1] /\ e.kind = "message"
    OBVIOUS
<1>2. sent = Append(<<>>, e) /\ DOMAIN sent = 1 .. 1 /\ <<>> \in Seq(Events)
    BY <1>1
<1>3. ~e.framed
    <2>1. 1 \in DOMAIN sent /\ 1 .. 1 - 1 = {}
        BY <1>2
    <2>2. e.framed => IsEventStream(sent)
        BY <1>1, <2>1 DEF IsEventStream
    <2> QED BY <2>2
<1>4. IsTold(e, FALSE)
    BY <1>1, <1>3 DEF IsTold, Events
<1>5. PICK none \in Seq(Events) : none = <<>>
    BY <1>2
<1>6. Longer(none, e, sent, 0)
    BY <1>1, <1>2, <1>5 DEF Longer
<1>7. SaysNothing(none, FALSE)
    BY <1>5, EmptyResponse
<1>8. 0 \in Nat /\ e.text \in Seq(Pieces) /\ e.usage.in \in Nat /\ e.usage.out \in Nat
    BY DEF Events, Usages
<1>9. TextIn(sent, FALSE) = e.text
    <2>1. TextIn(sent, FALSE) = <<>> \o e.text
        BY <1>2, <1>4, <1>5, <1>7, TextGrows DEF SaysNothing
    <2>2. <<>> \o e.text = e.text
        BY <1>8
    <2> QED BY <2>1, <2>2
<1>10. SourcesIn(sent, FALSE) = ToSet(e.cites)
    <2>1. SourcesIn(none, FALSE) = {}
        BY <1>5, <1>7 DEF SaysNothing
    <2>2. SourcesIn(sent, FALSE) = SourcesIn(none, FALSE) \cup ToSet(e.cites)
        BY <1>4, <1>6, <1>8, SourcesGrow
    <2> QED BY <2>1, <2>2
<1>11. /\ PriceIn(sent, FALSE) = e.usage.in + e.usage.out
       /\ InputIn(sent, FALSE) = e.usage.in /\ OutputIn(sent, FALSE) = e.usage.out
    <2>1. PriceIn(none, FALSE) = 0 /\ InputIn(none, FALSE) = 0 /\ OutputIn(none, FALSE) = 0
        BY <1>5, <1>7 DEF SaysNothing
    <2>2. 0 \in Nat /\ FALSE \in BOOLEAN
        OBVIOUS
    <2>3. PriceIn(sent, FALSE) =
            IF IsTold(e, FALSE) /\ e.usage.in + e.usage.out # 0 THEN e.usage.in + e.usage.out
            ELSE PriceIn(none, FALSE)
        BY <1>6, <2>2, PricesGrow, Zenon
    <2>4. InputIn(sent, FALSE) =
            IF IsTold(e, FALSE) /\ e.usage.in # 0 THEN e.usage.in ELSE InputIn(none, FALSE)
        BY <1>6, <2>2, PricesGrow, Zenon
    <2>5. OutputIn(sent, FALSE) =
            IF IsTold(e, FALSE) /\ e.usage.out # 0 THEN e.usage.out ELSE OutputIn(none, FALSE)
        BY <1>6, <2>2, PricesGrow, Zenon
    <2> QED BY <1>4, <1>8, <2>1, <2>3, <2>4, <2>5
<1> QED BY <1>1, <1>9, <1>10, <1>11

\* What a parser has after what has come of the response, by protocol.
OnlyComments(sent) == \A i \in DOMAIN sent : sent[i].kind = "comment"
ResponseRead ==
  /\ ~refused /\ snap.protocol = "responses" => ResponsesHasRead(parser, body)
  /\ ~refused /\ snap.protocol = "chat" /\ (IsEventStream(body) \/ OnlyComments(body)) => ChatHasRead(parser, body)
  /\ snap.protocol = "chat" /\ ~IsEventStream(body) => parser = NewParser
ReadInv ==
  /\ phase # "body" => body = <<>> /\ parser = NewParser
  /\ phase # "ended" => result = NoResult
  /\ ~parser.failed
  /\ ResponseRead

\* The first line that is no comment stays the first.
LEMMA StreamStays ==
    ASSUME NEW sent, NEW e, NEW more, NEW n \in Nat, Longer(sent, e, more, n)
    PROVE  /\ IsEventStream(sent) => IsEventStream(more)
           /\ IsEventStream(more) => IsEventStream(sent) \/ OnlyComments(sent)
           /\ OnlyComments(more) => OnlyComments(sent) /\ e.kind = "comment"
<1>1. \A i \in 1 .. n : i \in 1 .. n + 1 /\ 1 .. i - 1 \subseteq 1 .. n
    OBVIOUS
<1>2. 1 .. (n + 1) - 1 = 1 .. n /\ n + 1 \in 1 .. n + 1 /\ \A i \in 1 .. n + 1 : i \in 1 .. n \/ i = n + 1
    OBVIOUS
<1>3. IsEventStream(sent) => IsEventStream(more)
    BY <1>1 DEF IsEventStream, Longer
<1>4. IsEventStream(more) => IsEventStream(sent) \/ OnlyComments(sent)
    <2> SUFFICES ASSUME IsEventStream(more) PROVE IsEventStream(sent) \/ OnlyComments(sent)
        OBVIOUS
    <2>1. PICK i \in 1 .. n + 1 : /\ more[i].kind # "comment" /\ more[i].framed
                                  /\ \A j \in 1 .. i - 1 : more[j].kind = "comment"
        BY DEF IsEventStream, Longer
    <2>2. CASE i \in 1 .. n
        BY <1>1, <2>1, <2>2 DEF IsEventStream, Longer
    <2>3. CASE i = n + 1
        BY <1>2, <2>1, <2>3 DEF OnlyComments, Longer
    <2> QED BY <1>2, <2>2, <2>3
<1>5. OnlyComments(more) => OnlyComments(sent) /\ e.kind = "comment"
    BY <1>1, <1>2 DEF OnlyComments, Longer
<1> QED BY <1>3, <1>4, <1>5

\* A parser that reads along has read the event, too.
LEMMA EventIsRead ==
    ASSUME NEW e \in Events, NEW read, parser \in Parsers, body \in Seq(Events), ResponseRead,
           read = IF ReadsAsItComes(Append(body, e)) THEN ConsumeEvent(snap.protocol, parser, e) ELSE parser,
           ~read.failed, body' = Append(body, e), parser' = read, snap' = snap, refused' = refused
    PROVE  ResponseRead'
<1>1. PICK more : more = Append(body, e)
    OBVIOUS
<1>2. PICK n \in Nat : Longer(body, e, more, n)
    BY <1>1, OneEventMore DEF Longer
<1>3. ASSUME ~refused, snap.protocol = "responses" PROVE ResponsesHasRead(read, more)
    <2>1. read = ConsumeEvent("responses", parser, e)
        BY <1>3 DEF ReadsAsItComes
    <2> QED BY <1>1, <1>3, <2>1, ResponsesReads DEF ResponseRead
<1>4. ASSUME ~refused, snap.protocol = "chat", IsEventStream(more) PROVE ChatHasRead(read, more)
    <2>1. read = ConsumeEvent("chat", parser, e)
        BY <1>1, <1>4 DEF ReadsAsItComes
    <2>2. ChatHasRead(parser, body)
        BY <1>2, <1>4, StreamStays DEF ResponseRead
    <2> QED BY <1>1, <2>1, <2>2, ChatReads
<1>5. ASSUME snap.protocol = "chat", ~IsEventStream(more) PROVE read = parser /\ read = NewParser
    <2>1. read = parser
        BY <1>1, <1>5 DEF ReadsAsItComes
    <2>2. ~IsEventStream(body)
        BY <1>2, <1>5, StreamStays
    <2> QED BY <1>5, <2>1, <2>2 DEF ResponseRead
<1>6. ASSUME ~refused, snap.protocol = "chat", OnlyComments(more), ~IsEventStream(more)
      PROVE  ChatHasRead(read, more)
    <2>1. OnlyComments(body) /\ e.kind = "comment"
        BY <1>2, <1>6, StreamStays
    <2>2. ChatHasRead(parser, body) /\ read = parser
        BY <1>5, <1>6, <2>1 DEF ResponseRead
    <2> QED BY <1>1, <2>1, <2>2, PassedOver DEF ChatHasRead
<1> QED BY <1>1, <1>3, <1>4, <1>5, <1>6 DEF ResponseRead

\* What the search takes from a response it can use is what the upstream has said.
LEMMA ResponseSaid ==
    ASSUME snap \in Settings, parser \in Parsers, body \in Seq(Events), ResponseRead,
           NEW p, p = ParsedResponse, ~p.failed
    PROVE  /\ Finished /\ SaidText = p.answer /\ SaidSources = p.cites
           /\ SaidTokens = p.usage.in + p.usage.out
<1>1. snap.protocol \in {"responses", "chat", "anthropic"}
    BY SearchAssumption
<1>2. ~refused
    BY FailureStays DEF ParsedResponse
<1>3. PICK streamed \in BOOLEAN : streamed = Streamed
    <2>1. Streamed \in BOOLEAN
        BY DEF Streamed
    <2> QED BY <2>1, Zenon
<1>4. CASE snap.protocol = "responses"
    <2>1. streamed = TRUE
        BY <1>3, <1>4 DEF Streamed
    <2>2. ResponsesHasRead(parser, body)
        BY <1>2, <1>4 DEF ResponseRead
    <2>3. p = EndOfResponses(parser)
        BY <1>2, <1>4 DEF ParsedResponse
    <2>4. ~parser.failed /\ parser.completed # <<>> /\ p = BuildSearchResult(parser, parser.completed[1])
        BY <2>3, FailureStays DEF EndOfResponses
    <2>5. PICK F : F = Finals(body, TRUE)
        OBVIOUS
    <2>6. F # {}
        BY <2>2, <2>4, <2>5 DEF ResponsesHasRead
    <2>7. PICK e \in Events : e = body[Max(F)] /\ parser.completed = <<e>>
        <3>1. PICK n \in Nat : n = Len(body) /\ DOMAIN body = 1 .. n
            OBVIOUS
        <3>2. F \in SUBSET (1 .. n)
            BY <2>5, <3>1 DEF Finals, Told
        <3>3. Max(F) \in 1 .. n
            BY <2>6, <3>2, LargestPosition
        <3>4. PICK e \in Events : e = body[Max(F)]
            BY <3>1, <3>3
        <3>5. parser.completed = <<body[Max(F)]>>
            BY <2>2, <2>5, <2>6 DEF ResponsesHasRead
        <3> QED BY <3>4, <3>5
    <2>8. PICK text \in Seq(Words) : text = Joined(e.text)
        <3>1. Joined(e.text) \in Seq(Words)
            BY JoinedIsText DEF Events
        <3> QED BY <3>1, Zenon
    <2>9. e.cites \in Seq(Nat)
        BY DEF Events
    <2>10. PICK c \in Parsers : c = Collect(parser, text, e.cites)
        BY <2>9, CollectWithin
    <2>11. p = [c EXCEPT !.usage = e.usage]
        BY <2>4, <2>7, <2>8, <2>10 DEF BuildSearchResult
    <2>12. p.failed = c.failed /\ p.answer = c.answer /\ p.cites = c.cites /\ p.usage = e.usage
        BY <2>11 DEF Parsers, ParserTypes
    <2>13. c.answer = parser.answer \o text /\ c.cites = parser.cites \cup ToSet(e.cites)
        BY <2>9, <2>10, <2>12, CollectAdds DEF Collected
    <2>14. p.answer = text /\ p.cites = ToSet(e.cites)
        <3>1. <<>> \o text = text
            OBVIOUS
        <3> QED BY <2>2, <2>12, <2>13, <3>1 DEF ResponsesHasRead
    <2>15. F = Finals(body, Streamed)
        BY <1>3, <2>1, <2>5
    <2>16. Finished
        BY <1>2, <2>6, <2>15 DEF Finished
    <2>17. SaidText = text
        BY <1>4, <2>6, <2>7, <2>8, <2>15 DEF SaidText
    <2>18. SaidSources = ToSet(e.cites)
        BY <1>4, <2>6, <2>7, <2>15 DEF SaidSources
    <2>19. SaidTokens = e.usage.in + e.usage.out
        BY <1>4, <2>6, <2>7, <2>15 DEF SaidTokens
    <2> QED BY <2>12, <2>14, <2>16, <2>17, <2>18, <2>19
<1>5. ASSUME snap.protocol # "responses"
      PROVE  /\ SaidText = TextIn(body, streamed) /\ SaidSources = SourcesIn(body, streamed)
             /\ SaidTokens = IF snap.protocol = "chat" THEN PriceIn(body, streamed)
                             ELSE InputIn(body, streamed) + OutputIn(body, streamed)
    <2>1. SaidText = TextIn(body, streamed) /\ SaidSources = SourcesIn(body, streamed)
        BY <1>3, <1>5 DEF SaidText, SaidSources
    <2>2. CASE snap.protocol = "chat"
        BY <1>3, <2>1, <2>2 DEF SaidTokens, PriceIn
    <2>3. CASE snap.protocol = "anthropic"
        BY <1>3, <2>1, <2>3 DEF SaidTokens, InputIn, OutputIn
    <2> QED BY <1>1, <1>5, <2>1, <2>2, <2>3
<1>6. CASE snap.protocol # "responses" /\ IsEventStream(body)
    <2>1. streamed = TRUE
        BY <1>3, <1>6 DEF Streamed
    <2>2. CASE snap.protocol = "chat"
        <3>1. ChatHasRead(parser, body)
            BY <1>2, <1>6, <2>2 DEF ResponseRead
        <3>2. p = EndOfStream(parser)
            BY <1>2, <1>6, <2>2 DEF ParsedResponse
        <3>3. p = parser /\ p.terminal
            BY <3>2, FailureStays DEF EndOfStream
        <3>4. Finished
            <4>1. Finals(body, TRUE) # {} \/ HasDone(body)
                BY <3>1, <3>3, Zenon DEF ChatHasRead
            <4>2. Finals(body, Streamed) = Finals(body, TRUE) /\ Streamed
                BY <1>3, <2>1
            <4> QED BY <1>2, <2>2, <4>1, <4>2 DEF Finished
        <3> QED BY <1>5, <1>6, <2>1, <2>2, <3>1, <3>3, <3>4 DEF ChatHasRead
    <2>3. CASE snap.protocol = "anthropic"
        <3>1. PICK q \in Parsers :
                 /\ StepsLeadTo(Len(body), Parsers, NewParser, StreamSteps(body), q)
                 /\ ParseAnthropic(body) = EndOfStream(q)
            <4>1. PICK q : q = FoldLeft(LAMBDA r, e : ConsumeEvent("anthropic", r, e), NewParser, body)
                OBVIOUS
            <4>2. q \in Parsers
                BY <4>1, StreamWithin, Zenon
            <4>3. StepsLeadTo(Len(body), Parsers, NewParser, StreamSteps(body), q)
                BY <4>1, StreamIsSteps, Zenon
            <4>4. ParseAnthropic(body) = EndOfStream(q)
                BY <1>6, <4>1, Zenon DEF ParseAnthropic
            <4> QED BY <4>2, <4>3, <4>4
        <3>2. p = EndOfStream(q)
            BY <1>2, <2>3, <3>1 DEF ParsedResponse
        <3>3. p = q /\ p.terminal
            BY <3>2, FailureStays DEF EndOfStream
        <3>4. AnthropicHasRead(q, body)
            BY <3>1, <3>3, AnthropicStream
        <3>5. Finished
            BY <1>2, <1>3, <2>1, <2>3, <3>3, <3>4 DEF Finished, AnthropicHasRead
        <3> QED BY <1>5, <1>6, <2>1, <2>3, <3>3, <3>4, <3>5 DEF AnthropicHasRead
    <2> QED BY <1>1, <1>6, <2>2, <2>3
<1>7. CASE snap.protocol # "responses" /\ ~IsEventStream(body)
    <2>1. streamed = FALSE
        BY <1>3, <1>7 DEF Streamed
    <2>2. p = EndOfChatJSON(body) \/ p = EndOfAnthropicJSON(body)
        <3>1. CASE snap.protocol = "chat"
            BY <1>2, <1>7, <3>1 DEF ParsedResponse
        <3>2. CASE snap.protocol = "anthropic"
            <4>1. p = ParseAnthropic(body)
                BY <1>2, <3>2 DEF ParsedResponse
            <4>2. ParseAnthropic(body) = EndOfAnthropicJSON(body)
                BY <1>7, Zenon DEF ParseAnthropic
            <4> QED BY <4>1, <4>2
        <3> QED BY <1>1, <1>7, <3>1, <3>2
    <2>3. Len(body) = 1 /\ body[1].kind = "message"
        BY <2>2, NewParserWithin, FailureStays DEF EndOfChatJSON, EndOfAnthropicJSON
    <2>4. PICK e \in Events : /\ e = body[1]
                              /\ TextIn(body, FALSE) = e.text /\ SourcesIn(body, FALSE) = ToSet(e.cites)
                              /\ PriceIn(body, FALSE) = e.usage.in + e.usage.out
                              /\ InputIn(body, FALSE) = e.usage.in /\ OutputIn(body, FALSE) = e.usage.out
        BY <1>7, <2>3, OneMessage
    <2>5. Finished
        BY <1>2, <1>3, <2>1, <2>3 DEF Finished
    <2>6. PICK none \in Parsers : /\ none = NewParser /\ none.answer = <<>> /\ none.cites = {}
                                  /\ none.usage = [in |-> 0, out |-> 0]
        BY NewParserWithin DEF NewParser
    <2>7. e.text \in Seq(Pieces) /\ e.usage \in Usages
        BY DEF Events
    <2>8. <<>> \o e.text = e.text /\ {} \cup ToSet(e.cites) = ToSet(e.cites)
        BY <2>7
    <2>9. CASE snap.protocol = "chat"
        <3>1. p = ConsumeChat(none, e)
            <4>1. p = EndOfChatJSON(body)
                BY <1>2, <1>7, <2>9 DEF ParsedResponse
            <4> QED BY <2>3, <2>4, <2>6, <4>1 DEF EndOfChatJSON
        <3>2. PICK u : u = IF e.usage.in + e.usage.out = 0 THEN none.usage ELSE e.usage
            OBVIOUS
        <3>3. MessageRead(none, e, u, p)
            BY <3>1, <3>2, MessagesRead
        <3>4. p.answer = e.text /\ p.cites = ToSet(e.cites) /\ p.usage = u
            BY <2>6, <2>8, <3>3 DEF MessageRead
        <3>5. u.in + u.out = e.usage.in + e.usage.out
            BY <2>6, <3>2
        <3> QED BY <1>5, <1>7, <2>1, <2>4, <2>5, <2>9, <3>4, <3>5
    <2>10. CASE snap.protocol = "anthropic"
        <3>1. p = ConsumeAnthropic(none, e)
            <4>1. p = ParseAnthropic(body)
                BY <1>2, <2>10 DEF ParsedResponse
            <4>2. ParseAnthropic(body) = EndOfAnthropicJSON(body)
                BY <1>7, Zenon DEF ParseAnthropic
            <4> QED BY <2>3, <2>4, <2>6, <4>1, <4>2 DEF EndOfAnthropicJSON
        <3>2. PICK u : u = MergeUsage(none.usage, e.usage)
            OBVIOUS
        <3>3. MessageRead(none, e, u, p)
            BY <3>1, <3>2, MessagesRead
        <3>4. p.answer = e.text /\ p.cites = ToSet(e.cites) /\ p.usage = u
            BY <2>6, <2>8, <3>3 DEF MessageRead
        <3>5. u.in = e.usage.in /\ u.out = e.usage.out
            BY <2>6, <3>2 DEF MergeUsage
        <3> QED BY <1>5, <1>7, <2>1, <2>4, <2>5, <2>10, <3>4, <3>5
    <2> QED BY <1>1, <1>7, <2>9, <2>10
<1> QED BY <1>1, <1>4, <1>6, <1>7

\* Before a response there is nothing said, and nothing to read.
LEMMA NothingSaid == body = <<>> => SaidNow = Promise!Nothing
<1> SUFFICES ASSUME body = <<>> PROVE SaidNow = Promise!Nothing
    OBVIOUS
<1>1. PICK streamed \in BOOLEAN : streamed = Streamed
    <2>1. Streamed \in BOOLEAN
        BY DEF Streamed
    <2> QED BY <2>1, Zenon
<1>2. SaysNothing(body, streamed) /\ RoundsIn(body) = {} /\ ~HasDone(body)
    BY EmptyResponse
<1>3. Len(body) = 0
    OBVIOUS
<1>4. Finished = FALSE
    <2>1. ~Finished
        BY <1>1, <1>2, <1>3 DEF Finished, SaysNothing
    <2>2. Finished \in BOOLEAN
        BY DEF Finished
    <2> QED BY <2>1, <2>2
<1>5. SaidText = <<>> /\ SaidSources = {}
    BY <1>1, <1>2 DEF SaidText, SaidSources, SaysNothing
<1>6. SaidTokens = 0
    <2>1. CASE snap.protocol = "chat"
        BY <1>1, <1>2, <2>1 DEF SaidTokens, SaysNothing, PriceIn
    <2>2. CASE snap.protocol = "anthropic"
        <3>1. SaidTokens = InputIn(body, streamed) + OutputIn(body, streamed)
            BY <1>1, <2>2 DEF SaidTokens, InputIn, OutputIn
        <3> QED BY <1>2, <3>1 DEF SaysNothing
    <2>3. CASE snap.protocol \notin {"chat", "anthropic"}
        BY <1>1, <1>2, <2>3 DEF SaidTokens, SaysNothing
    <2> QED BY <2>1, <2>2, <2>3
<1>7. IsIntermediate(SaidText) = FALSE
    <2>1. DOMAIN SaidText = {}
        BY <1>5
    <2>2. ~IsIntermediate(SaidText)
        BY <2>1 DEF IsIntermediate
    <2>3. IsIntermediate(SaidText) \in BOOLEAN
        BY DEF IsIntermediate
    <2> QED BY <2>2, <2>3
<1>8. (snap.protocol = "chat" /\ IsIntermediate(SaidText)) = FALSE
    BY <1>7
<1>9. (IF ReadsAsItComes(body) THEN RoundsIn(body) ELSE {}) = {}
    BY <1>2
<1> QED BY <1>4, <1>5, <1>6, <1>8, <1>9 DEF SaidNow, Promise!Nothing

LEMMA NothingSaidNext == body' = <<>> => SaidNow' = Promise!Nothing
<1>1. (body = <<>> => SaidNow = Promise!Nothing)'
    BY NothingSaid, PTL
<1>2. Promise!Nothing' = Promise!Nothing
    BY DEF Promise!Nothing
<1> QED BY <1>1, <1>2

LEMMA FreshParser ==
    ASSUME body' = <<>>, parser' = NewParser
    PROVE  ResponseRead'
BY NothingRead DEF ResponseRead

\* The promise counts as the search does.
LEMMA SameSizes ==
    ASSUME NEW S
    PROVE  Promise!Cardinality(S) = Cardinality(S)
BY DEF Promise!Cardinality, Cardinality

\* The same response says the same.
LEMMA SaysTheSame ==
    ASSUME snap' = snap, body' = body, refused' = refused
    PROVE  SaidNow' = SaidNow
<1>1. Streamed' = Streamed
    BY DEF Streamed
<1>2. SaidText' = SaidText /\ SaidSources' = SaidSources /\ SaidTokens' = SaidTokens /\ Finished' = Finished
    BY <1>1 DEF SaidText, SaidSources, SaidTokens, Finished
<1>3. (ReadsAsItComes(body) <=> ReadsAsItComes(body)')
    BY DEF ReadsAsItComes
<1> QED BY <1>2, <1>3 DEF SaidNow

\* While a search is not over it has promised no answer.
LEMMA Pending ==
    ASSUME ReadInv, phase # "ended"
    PROVE  result.ok = FALSE /\ result = NoResult
BY DEF ReadInv, NoResult

\* Steps before a response is read, and after the end.
LEMMA Unnoticed ==
    ASSUME body = <<>>, body' = <<>>, phase # "ended", phase' # "ended", tokens' = tokens, attempt' = attempt,
           progress' = progress, result' = result
    PROVE  UNCHANGED Promise!promiseVars
<1>1. SaidNow' = SaidNow
    <2>1. SaidNow = Promise!Nothing
        BY NothingSaid
    <2>2. SaidNow' = Promise!Nothing
        BY NothingSaidNext
    <2> QED BY <2>1, <2>2
<1> QED BY <1>1 DEF Promise!promiseVars

\* A search that fails gives up, whatever it has been told.
LEMMA GivesUp ==
    ASSUME ReadInv, phase # "ended", Return(NoResult), progress' = progress, attempt' = attempt,
           tokens' \in {tokens, tokens + SaidNow.tokens}
    PROVE  Promise!GiveUp /\ ReadInv'
<1>1. phase' = "ended" /\ result' = NoResult /\ body' = <<>> /\ parser' = NewParser
    BY DEF Return
<1>2. SaidNow' = Promise!Nothing
    BY <1>1, NothingSaidNext
<1>3. result = NoResult /\ NoResult.ok = FALSE
    BY Pending DEF NoResult
<1>4. ReadInv'
    <2>1. ~NewParser.failed
        BY DEF NewParser
    <2> QED BY <1>1, <2>1, FreshParser DEF ReadInv
<1>5. (IF phase # "ended" THEN "pending" ELSE IF result.ok THEN "answered" ELSE "failed") = "pending"
    OBVIOUS
<1>6. (IF phase' # "ended" THEN "pending" ELSE IF result'.ok THEN "answered" ELSE "failed") = "failed"
    BY <1>1, <1>3
<1>7. [text |-> result'.answer, sources |-> result'.cites, tokens |-> result'.usage]
        = [text |-> result.answer, sources |-> result.cites, tokens |-> result.usage]
    BY <1>1, <1>3
<1>8. Promise!GiveUp
    BY <1>2, <1>5, <1>6, <1>7 DEF Promise!GiveUp
<1> QED BY <1>4, <1>8

\* An event is heard, or the response is given up.
LEMMA ReceiveHears ==
    ASSUME SearchIInv, ReadInv, NEW e \in Events, Receive(e)
    PROVE  [Promise!PromiseNext]_Promise!promiseVars /\ ReadInv'
<1>1. PICK fits \in BOOLEAN : fits <=> Len(body) < MaxResponse
    OBVIOUS
<1>2. PICK read : read = IF fits /\ ReadsAsItComes(Append(body, e)) THEN ConsumeEvent(snap.protocol, parser, e) ELSE parser
    OBVIOUS
<1>3. /\ phase = "body" /\ progress' = progress + Cardinality(read.seen) - Cardinality(parser.seen)
      /\ snap' = snap /\ attempt' = attempt /\ tokens' = tokens
    <2>1. read = IF Len(body) < MaxResponse /\ ReadsAsItComes(Append(body, e))
                 THEN ConsumeEvent(snap.protocol, parser, e) ELSE parser
        BY <1>1, <1>2
    <2> QED BY <2>1, Zenon DEF Receive, wireVars
<1>4. IF ~fits \/ read.failed THEN Return(NoResult)
      ELSE body' = Append(body, e) /\ parser' = read /\ phase' = phase /\ refused' = refused /\ result' = result
    <2>1. read = IF Len(body) < MaxResponse /\ ReadsAsItComes(Append(body, e))
                 THEN ConsumeEvent(snap.protocol, parser, e) ELSE parser
        BY <1>1, <1>2
    <2>2. IF ~(Len(body) < MaxResponse) \/ read.failed THEN Return(NoResult)
          ELSE body' = Append(body, e) /\ parser' = read /\ phase' = phase /\ refused' = refused /\ result' = result
        BY <2>1, Zenon DEF Receive
    <2> QED BY <1>1, <2>2
<1>5. parser \in Parsers /\ snap \in Settings /\ body \in Seq(Events) /\ progress \in Nat
    BY DEF SearchIInv, SearchTypes, SearchTypeOK
<1>6. snap.protocol \in {"responses", "chat", "anthropic"}
    BY <1>5, SearchAssumption
<1>7. read \in Parsers
    BY <1>2, <1>5, <1>6, EventWithin
<1>8. Cardinality(parser.seen) \in Nat /\ Cardinality(read.seen) \in Nat
    BY <1>5, <1>7, FS_CardinalityType DEF Parsers, Within
<1>9. CASE ~fits \/ read.failed
    <2>1. read.seen = parser.seen
        <3>1. CASE read = parser
            BY <3>1
        <3>2. CASE read = ConsumeEvent(snap.protocol, parser, e) /\ read.failed
            BY <1>5, <1>6, <3>2, FailureKeepsCalls DEF ReadInv
        <3> QED BY <1>2, <1>9, <3>1, <3>2
    <2>2. progress' = progress
        <3>1. PICK c \in Nat : c = Cardinality(parser.seen)
            BY <1>8
        <3> QED BY <1>3, <1>5, <2>1, <3>1
    <2> QED BY <1>3, <1>4, <1>9, <2>2, GivesUp DEF Promise!PromiseNext
<1>10. CASE fits /\ ~read.failed
    <2>1. body' = Append(body, e) /\ parser' = read /\ phase' = phase /\ refused' = refused /\ result' = result
        BY <1>4, <1>10
    <2>2. ReadInv'
        <3>1. ResponseRead'
            <4>1. read = IF ReadsAsItComes(Append(body, e)) THEN ConsumeEvent(snap.protocol, parser, e) ELSE parser
                BY <1>2, <1>10
            <4>2. ResponseRead
                BY DEF ReadInv
            <4> QED BY <1>3, <1>5, <1>10, <2>1, <4>1, <4>2, EventIsRead
        <3> QED BY <1>3, <1>10, <2>1, <3>1 DEF ReadInv
    <2>3. SaidNow.calls = IF ReadsAsItComes(body) THEN RoundsIn(body) ELSE {}
        BY DEF SaidNow
    <2>4. SaidNow'.calls = IF ReadsAsItComes(body)' THEN RoundsIn(body') ELSE {}
        BY DEF SaidNow
    <2>5. SaidNow.calls \subseteq SaidNow'.calls
          /\ progress' = progress + Cardinality(SaidNow'.calls) - Cardinality(SaidNow.calls)
        <3>1. PICK n \in Nat : Longer(body, e, body', n)
            BY <1>5, <2>1, OneEventMore DEF Longer
        <3>2. ReadsAsItComes(body)' <=> ReadsAsItComes(body')
            BY <1>3, <2>1 DEF ReadsAsItComes
        <3>3. ReadsAsItComes(body) => ReadsAsItComes(body')
            BY <3>1, StreamStays DEF ReadsAsItComes
        <3>4. ReadsAsItComes(body) => parser.seen = RoundsIn(body)
            BY DEF ReadsAsItComes, ReadInv, ResponseRead, ResponsesHasRead, ChatHasRead
        <3>5. ReadsAsItComes(body') => read.seen = RoundsIn(body')
            BY <1>3, <2>1, <2>2 DEF ReadsAsItComes, ReadInv, ResponseRead, ResponsesHasRead, ChatHasRead
        <3>6. RoundsIn(body) \subseteq RoundsIn(body')
            BY <3>1, CallsGrow
        <3>7. CASE ReadsAsItComes(body)
            BY <1>3, <2>3, <2>4, <3>2, <3>3, <3>4, <3>5, <3>6, <3>7
        <3>8. CASE ~ReadsAsItComes(body) /\ ReadsAsItComes(body')
            <4>1. parser = NewParser
                BY <3>8 DEF ReadsAsItComes, ReadInv, ResponseRead
            <4>2. parser.seen = {}
                BY <4>1 DEF NewParser
            <4> QED BY <1>3, <2>3, <2>4, <3>2, <3>5, <3>8, <4>2
        <3>9. CASE ~ReadsAsItComes(body) /\ ~ReadsAsItComes(body')
            <4>1. read = parser
                BY <1>2, <2>1, <3>9
            <4>2. SaidNow.calls = {} /\ SaidNow'.calls = {}
                BY <2>3, <2>4, <3>2, <3>9
            <4>3. PICK c \in Nat : c = Cardinality(parser.seen)
                BY <1>8
            <4>4. progress' = progress
                BY <1>3, <1>5, <4>1, <4>3
            <4>5. Cardinality({}) = 0
                BY FS_EmptySet
            <4> QED BY <1>5, <4>2, <4>4, <4>5
        <3> QED BY <3>7, <3>8, <3>9
    <2>6. Promise!Hear
        <3>1. (IF phase # "ended" THEN "pending" ELSE IF result.ok THEN "answered" ELSE "failed") = "pending"
            BY <1>3
        <3>2. (IF phase' # "ended" THEN "pending" ELSE IF result'.ok THEN "answered" ELSE "failed") = "pending"
            BY <1>3, <2>1
        <3>3. [text |-> result'.answer, sources |-> result'.cites, tokens |-> result'.usage]
                = [text |-> result.answer, sources |-> result.cites, tokens |-> result.usage]
            BY <2>1
        <3>4. progress' = progress + Promise!Cardinality(SaidNow'.calls) - Promise!Cardinality(SaidNow.calls)
            BY <2>5, SameSizes
        <3> QED BY <1>3, <2>5, <3>1, <3>2, <3>3, <3>4 DEF Promise!Hear
    <2> QED BY <2>2, <2>6 DEF Promise!PromiseNext
<1> QED BY <1>9, <1>10

\* The end of a response is a question asked again, the answer, or a failure.
LEMMA EndConcludes ==
    ASSUME SearchIInv, ReadInv, EndOfResponse
    PROVE  [Promise!PromiseNext]_Promise!promiseVars /\ ReadInv'
<1>1. PICK p : p = ParsedResponse
    OBVIOUS
<1>2. phase = "body" /\ snap' = snap /\ progress' = progress
    BY Zenon DEF EndOfResponse
<1>3. IF p.failed \/ p.answer = <<>> THEN Return(NoResult) /\ attempt' = attempt /\ tokens' = tokens
      ELSE /\ tokens' = TokensAfter(p)
           /\ IF Continues(p)
              THEN /\ attempt' = attempt + 1 /\ phase' = "post" /\ body' = <<>> /\ parser' = NewParser
                   /\ result' = result
              ELSE /\ Return(IF snap.protocol = "chat" /\ IsIntermediate(p.answer) THEN NoResult
                             ELSE [ok |-> TRUE, answer |-> p.answer, cites |-> p.cites, usage |-> tokens'])
                   /\ attempt' = attempt
    BY <1>1, Zenon DEF EndOfResponse
<1>4. parser \in Parsers /\ snap \in Settings /\ body \in Seq(Events) /\ tokens \in Nat /\ attempt \in Nat
    BY DEF SearchIInv, SearchTypes, SearchTypeOK
<1>5. p \in Parsers
    BY <1>1, <1>4, ResponseWithin
<1>6. CASE p.failed \/ p.answer = <<>>
    BY <1>2, <1>3, <1>6, GivesUp DEF Promise!PromiseNext
<1>7. CASE ~(p.failed \/ p.answer = <<>>)
    <2>1. Finished /\ SaidText = p.answer /\ SaidSources = p.cites /\ SaidTokens = p.usage.in + p.usage.out
        BY <1>1, <1>4, <1>7, ResponseSaid DEF ReadInv
    <2>2. /\ SaidNow.finished = Finished /\ SaidNow.text = SaidText /\ SaidNow.sources = SaidSources
          /\ SaidNow.tokens = SaidTokens
          /\ SaidNow.announces = (snap.protocol = "chat" /\ IsIntermediate(SaidText))
        BY DEF SaidNow
    <2>3. /\ SaidNow.finished /\ SaidNow.text = p.answer /\ SaidNow.sources = p.cites
          /\ SaidNow.announces <=> snap.protocol = "chat" /\ IsIntermediate(p.answer)
        BY <2>1, <2>2
    <2>4. tokens' = tokens + SaidNow.tokens
        <3>1. p.usage.in \in Nat /\ p.usage.out \in Nat
            BY <1>5 DEF Parsers, ParserTypes, Usages
        <3>2. tokens' = tokens + p.usage.in + p.usage.out
            BY <1>3, <1>7 DEF TokensAfter
        <3> QED BY <1>4, <2>1, <2>2, <3>1, <3>2
    <2>5. CASE Continues(p)
        <3>1. attempt' = attempt + 1 /\ phase' = "post" /\ body' = <<>> /\ parser' = NewParser /\ result' = result
            BY <1>3, <1>7, <2>5
        <3>2. SaidNow.announces /\ attempt < MaxContinuations
            BY <2>3, <2>5 DEF Continues
        <3>3. SaidNow' = Promise!Nothing
            BY <3>1, NothingSaidNext
        <3>4. Promise!AskAgain
            BY <1>2, <2>3, <2>4, <3>1, <3>2, <3>3 DEF Promise!AskAgain
        <3>5. ReadInv'
            <4>1. ~NewParser.failed
                BY DEF NewParser
            <4> QED BY <1>2, <3>1, <4>1, FreshParser DEF ReadInv
        <3> QED BY <3>4, <3>5 DEF Promise!PromiseNext
    <2>6. CASE ~Continues(p) /\ snap.protocol = "chat" /\ IsIntermediate(p.answer)
        <3>1. Return(NoResult) /\ attempt' = attempt
            BY <1>3, <1>7, <2>6
        <3> QED BY <1>2, <2>4, <3>1, GivesUp DEF Promise!PromiseNext
    <2>7. CASE ~Continues(p) /\ ~(snap.protocol = "chat" /\ IsIntermediate(p.answer))
        <3>1. PICK res : res = [ok |-> TRUE, answer |-> p.answer, cites |-> p.cites, usage |-> tokens']
            OBVIOUS
        <3>2. Return(res) /\ attempt' = attempt
            BY <1>3, <1>7, <2>7, <3>1
        <3>3. phase' = "ended" /\ result' = res /\ body' = <<>> /\ parser' = NewParser
            BY <3>2 DEF Return
        <3>4. SaidNow' = Promise!Nothing
            BY <3>3, NothingSaidNext
        <3>5. ~SaidNow.announces /\ SaidNow.text # <<>>
            BY <1>7, <2>3, <2>7
        <3>6. (IF phase' # "ended" THEN "pending" ELSE IF result'.ok THEN "answered" ELSE "failed") = "answered"
            BY <3>1, <3>3
        <3>7. [text |-> result'.answer, sources |-> result'.cites, tokens |-> result'.usage]
                = [text |-> SaidNow.text, sources |-> SaidNow.sources, tokens |-> tokens']
            BY <2>3, <3>1, <3>3
        <3>8. Promise!Conclude
            BY <1>2, <2>3, <2>4, <3>2, <3>4, <3>5, <3>6, <3>7 DEF Promise!Conclude
        <3>9. ReadInv'
            <4>1. ~NewParser.failed
                BY DEF NewParser
            <4> QED BY <3>3, <4>1, FreshParser DEF ReadInv
        <3> QED BY <3>8, <3>9 DEF Promise!PromiseNext
    <2> QED BY <2>5, <2>6, <2>7
<1> QED BY <1>6, <1>7

\* A request to the upstream, or none, before there is a response.
LEMMA StartUnnoticed ==
    ASSUME ReadInv, NEW req, StartSearch(req)
    PROVE  [Promise!PromiseNext]_Promise!promiseVars /\ ReadInv'
<1>1. phase = "idle" /\ attempt' = attempt /\ tokens' = tokens /\ progress' = progress
    BY DEF StartSearch
<1>2. body = <<>> /\ parser = NewParser /\ ~parser.failed /\ result = NoResult
    BY <1>1 DEF ReadInv
<1>3. CASE ValidSearchRequest(req, settings.model)
    <2>1. phase' = "post" /\ body' = body /\ parser' = parser /\ result' = result
        BY <1>3 DEF StartSearch
    <2>2. ReadInv'
        BY <1>2, <2>1, FreshParser DEF ReadInv
    <2>3. UNCHANGED Promise!promiseVars
        BY <1>1, <1>2, <2>1, Unnoticed
    <2> QED BY <2>2, <2>3
<1>4. CASE ~ValidSearchRequest(req, settings.model)
    <2>1. Return(NoResult)
        BY <1>4 DEF StartSearch
    <2> QED BY <1>1, <2>1, GivesUp DEF Promise!PromiseNext
<1> QED BY <1>3, <1>4

LEMMA PostsUnnoticed ==
    ASSUME ReadInv, Posts
    PROVE  [Promise!PromiseNext]_Promise!promiseVars /\ ReadInv'
<1>1. CASE PostFails
    <2>1. phase = "post" /\ Return(NoResult) /\ progress' = progress /\ attempt' = attempt /\ tokens' = tokens
        BY <1>1 DEF PostFails
    <2> QED BY <2>1, GivesUp DEF Promise!PromiseNext
<1>2. ASSUME NEW error \in BOOLEAN, Post(error)
      PROVE  [Promise!PromiseNext]_Promise!promiseVars /\ ReadInv'
    <2>1. /\ phase = "post" /\ phase' = "body" /\ body' = <<>> /\ parser' = NewParser
          /\ progress' = progress /\ attempt' = attempt /\ tokens' = tokens /\ result' = result
        BY <1>2 DEF Post
    <2>2. body = <<>> /\ result = NoResult /\ ~NewParser.failed
        BY <2>1 DEF ReadInv, NewParser
    <2>3. ReadInv'
        BY <2>1, <2>2, FreshParser DEF ReadInv
    <2>4. UNCHANGED Promise!promiseVars
        BY <2>1, <2>2, Unnoticed
    <2> QED BY <2>3, <2>4
<1> QED BY <1>1, <1>2 DEF Posts

\* Nothing that a search is made of changes.
LEMMA NothingHappens ==
    ASSUME ReadInv, snap' = snap, phase' = phase, attempt' = attempt, refused' = refused, body' = body,
           parser' = parser, tokens' = tokens, progress' = progress, result' = result
    PROVE  UNCHANGED Promise!promiseVars /\ ReadInv'
<1>1. SaidNow' = SaidNow
    BY SaysTheSame
<1>2. UNCHANGED Promise!promiseVars
    BY <1>1 DEF Promise!promiseVars
<1>3. ReadInv'
    BY DEF ReadInv, ResponseRead
<1> QED BY <1>2, <1>3

\* Every step is one that the promise allows, or none.
PromiseInv == SearchIInv /\ ReadInv

LEMMA PromiseSteps ==
    PromiseInv /\ [SearchNext]_searchVars => [Promise!PromiseNext]_Promise!promiseVars /\ PromiseInv'
<1> SUFFICES ASSUME PromiseInv, [SearchNext]_searchVars
             PROVE  [Promise!PromiseNext]_Promise!promiseVars /\ PromiseInv'
    OBVIOUS
<1>1. SearchIInv /\ ReadInv
    BY DEF PromiseInv
<1>2. SearchIInv'
    BY <1>1, SearchSteps
<1>3. ASSUME NEW new \in Settings, ApplyServerSettings(new)
      PROVE  [Promise!PromiseNext]_Promise!promiseVars /\ ReadInv'
    <2>1. /\ snap' = snap /\ phase' = phase /\ attempt' = attempt /\ refused' = refused /\ body' = body
          /\ parser' = parser /\ tokens' = tokens /\ progress' = progress /\ result' = result
        BY <1>3 DEF ApplyServerSettings, wireVars, answerVars
    <2> QED BY <1>1, <2>1, NothingHappens
<1>4. ASSUME NEW req \in SearchRequests, StartSearch(req)
      PROVE  [Promise!PromiseNext]_Promise!promiseVars /\ ReadInv'
    BY <1>1, <1>4, StartUnnoticed
<1>5. ASSUME Posts PROVE [Promise!PromiseNext]_Promise!promiseVars /\ ReadInv'
    BY <1>1, <1>5, PostsUnnoticed
<1>6. ASSUME Responds PROVE [Promise!PromiseNext]_Promise!promiseVars /\ ReadInv'
    <2>1. ASSUME NEW e \in UpstreamEvents, Receive(e)
          PROVE  [Promise!PromiseNext]_Promise!promiseVars /\ ReadInv'
        BY <1>1, <2>1, UpstreamSendsEvents, ReceiveHears
    <2>2. ASSUME EndOfResponse PROVE [Promise!PromiseNext]_Promise!promiseVars /\ ReadInv'
        BY <1>1, <2>2, EndConcludes
    <2>3. ASSUME ReadFails PROVE [Promise!PromiseNext]_Promise!promiseVars /\ ReadInv'
        <3>1. phase = "body" /\ Return(NoResult) /\ progress' = progress /\ attempt' = attempt /\ tokens' = tokens
            BY <2>3 DEF ReadFails, wireVars
        <3> QED BY <1>1, <3>1, GivesUp DEF Promise!PromiseNext
    <2> QED BY <1>6, <2>1, <2>2, <2>3 DEF Responds
<1>7. ASSUME UNCHANGED searchVars PROVE [Promise!PromiseNext]_Promise!promiseVars /\ ReadInv'
    <2>1. /\ snap' = snap /\ phase' = phase /\ attempt' = attempt /\ refused' = refused /\ body' = body
          /\ parser' = parser /\ tokens' = tokens /\ progress' = progress /\ result' = result
        BY <1>7 DEF searchVars, wireVars, answerVars
    <2> QED BY <1>1, <2>1, NothingHappens
<1>8. [Promise!PromiseNext]_Promise!promiseVars /\ ReadInv'
    BY <1>3, <1>4, <1>5, <1>6, <1>7 DEF SearchNext
<1> QED BY <1>2, <1>8 DEF PromiseInv

LEMMA PromiseStarts == SearchInit => Promise!PromiseInit /\ PromiseInv
<1> SUFFICES ASSUME SearchInit PROVE Promise!PromiseInit /\ PromiseInv
    OBVIOUS
<1>1. /\ phase = "idle" /\ attempt = 0 /\ body = <<>> /\ parser = NewParser /\ tokens = 0 /\ progress = 0
      /\ result = NoResult
    BY DEF SearchInit
<1>2. SaidNow = Promise!Nothing
    BY <1>1, NothingSaid
<1>3. [text |-> result.answer, sources |-> result.cites, tokens |-> result.usage] = Promise!NoAnswer
    BY <1>1 DEF NoResult, Promise!NoAnswer
<1>4. Promise!PromiseInit
    BY <1>1, <1>2, <1>3 DEF Promise!PromiseInit
<1>5. ReadInv
    <2>1. ~NewParser.failed
        BY DEF NewParser
    <2> QED BY <1>1, <2>1, NothingRead DEF ReadInv, ResponseRead
<1> QED BY <1>4, <1>5, SearchStarts DEF PromiseInv

\* A search is what its caller was promised, for any upstream, any response cut anywhere and
\* any limits: it gives up, or it answers with the text, the sources and the whole price of
\* what the upstream finished (grok/client.go, sse.go, chat_completions.go,
\* anthropic_messages.go, parser.go).
THEOREM SearchKeepsPromise == SearchSpec => KeepsPromise
<1>1. SearchInit => Promise!PromiseInit /\ PromiseInv
    BY PromiseStarts
<1>2. PromiseInv /\ [SearchNext]_searchVars => [Promise!PromiseNext]_Promise!promiseVars /\ PromiseInv'
    BY PromiseSteps
<1> QED BY <1>1, <1>2, PTL DEF SearchSpec, KeepsPromise, Promise!PromiseSpec

\* So is the search that a call runs, between the middlewares (mcp/tools.go).
THEOREM CallKeepsPromise == CallSpec => KeepsPromise
<1>1. CallInit => Promise!PromiseInit /\ PromiseInv
    BY PromiseStarts DEF CallInit
<1>2. PromiseInv /\ [CallNext]_callVars => [Promise!PromiseNext]_Promise!promiseVars /\ PromiseInv'
    BY CallUsesSearch, PromiseSteps
<1> QED BY <1>1, <1>2, PTL DEF CallSpec, KeepsPromise, Promise!PromiseSpec

-----------------------------------------------------------------------------
(* CallRecorder.                                                           *)
(*                                                                         *)
(* The verdict is about the prefix as a whole, the inspector sees it piece *)
(* by piece.  The invariant says what it knows on the way: which lines     *)
(* have ended with an error, and the line that has begun, wherever the     *)
(* writes are cut.                                                         *)

InspectorTypes == [capture : Seq(BodyPieces), line : Seq(BodyPieces), error : BOOLEAN, finalized : BOOLEAN]

\* A byte keeps the inspector's types.
LEMMA InspectPieceTypes ==
    ASSUME NEW state \in InspectorTypes, NEW piece \in BodyPieces
    PROVE  InspectPiece(state, piece) \in InspectorTypes
<1>1. LineHasToolError(state.line) \in BOOLEAN
    BY Zenon DEF LineHasToolError
<1>2. CASE piece = "\n"
    <2>1. PICK found \in BOOLEAN, l \in Seq(BodyPieces) : found = (state.error \/ LineHasToolError(state.line)) /\ l = <<>>
        <3>1. state.error \in BOOLEAN
            BY DEF InspectorTypes
        <3>2. (state.error \/ LineHasToolError(state.line)) \in BOOLEAN
            BY <1>1, <3>1, Zenon
        <3>3. <<>> \in Seq(BodyPieces)
            OBVIOUS
        <3> QED BY <3>2, <3>3, Zenon
    <2>2. InspectPiece(state, piece) = [state EXCEPT !.line = l, !.error = found]
        BY <1>2, <2>1 DEF InspectPiece, InspectorTypes
    <2> QED BY <2>2 DEF InspectorTypes
<1>3. CASE piece # "\n"
    <2>1. PICK before \in Seq(BodyPieces) : before = state.line
        BY DEF InspectorTypes
    <2>2. PICK l \in Seq(BodyPieces) : l = Append(before, piece)
        <3>1. Append(before, piece) \in Seq(BodyPieces)
            OBVIOUS
        <3> QED BY <3>1, Zenon
    <2>3. InspectPiece(state, piece) = [state EXCEPT !.line = l]
        BY <1>3, <2>1, <2>2 DEF InspectPiece
    <2> QED BY <2>3 DEF InspectorTypes
<1> QED BY <1>2, <1>3

\* The part of a write is inspected piece by piece.
LEMMA InspectedByPieces ==
    ASSUME NEW begun \in InspectorTypes, NEW part \in Seq(BodyPieces)
    PROVE  \E h \in [0 .. Len(part) -> InspectorTypes] :
              /\ h[0] = begun
              /\ \A k \in 1 .. Len(part) : h[k] = InspectPiece(h[k - 1], part[k])
              /\ FoldLeft(InspectPiece, begun, part) = h[Len(part)]
<1>1. PICK n \in Nat : n = Len(part) /\ DOMAIN part = 1 .. n
    OBVIOUS
<1>2. PICK g : g = [p \in (1 .. n) \X InspectorTypes |-> InspectPiece(p[2], part[p[1]])]
    OBVIOUS
<1>3. g \in [(1 .. n) \X InspectorTypes -> InspectorTypes]
    <2>1. \A k \in 1 .. n : part[k] \in BodyPieces
        BY <1>1
    <2> QED BY <1>2, <2>1, InspectPieceTypes
<1>4. PICK f : f \in FoldFunctions(n, InspectorTypes, begun, g)
    BY <1>3, FoldFunctionExists
<1>5. f = [s \in SUBSET (DOMAIN part) |->
             IF s = {} THEN begun ELSE InspectPiece(f[s \ {Max(s)}], part[Max(s)])]
    <2>1. ASSUME NEW s \in SUBSET (1 .. n), s # {}
          PROVE  f[s] = InspectPiece(f[s \ {Max(s)}], part[Max(s)])
        <3>1. PICK m : m = Max(s) /\ m \in 1 .. n
            BY <2>1, LargestPosition
        <3>2. s \ {m} \in SUBSET (1 .. n)
            OBVIOUS
        <3>3. f[s] = g[<<m, f[s \ {m}]>>] /\ f[s \ {m}] \in InspectorTypes
            BY <1>4, <2>1, <3>1, <3>2 DEF FoldFunctions
        <3> QED BY <1>2, <3>1, <3>3
    <2> QED BY <1>1, <1>4, <2>1 DEF FoldFunctions
<1>6. PICK e : /\ e = [s \in SUBSET (DOMAIN part) |->
                         IF s = {} THEN begun ELSE InspectPiece(e[s \ {Max(s)}], part[Max(s)])]
               /\ FoldLeft(InspectPiece, begun, part) = e[DOMAIN part]
    BY <1>5, Zenon DEF FoldLeft, MapThenFoldSet
<1>7. e[{}] = begun /\ e[1 .. n] = FoldLeft(InspectPiece, begun, part)
    BY <1>1, <1>6
<1>8. ASSUME NEW k \in 1 .. n, e[1 .. k - 1] \in InspectorTypes
      PROVE  e[1 .. k] = g[<<k, e[1 .. k - 1]>>]
    <2>1. PICK before \in InspectorTypes : before = e[1 .. k - 1]
        BY <1>8
    <2>2. PICK all : all = 1 .. k
        OBVIOUS
    <2>3. all \in SUBSET (DOMAIN part) /\ all # {} /\ all \ {k} = 1 .. k - 1 /\ Max(all) = k
        BY <1>1, <2>2, FirstPositions
    <2>4. e[all] = InspectPiece(e[all \ {Max(all)}], part[Max(all)])
        BY <1>6, <2>3
    <2>5. e[all] = InspectPiece(before, part[k])
        BY <2>1, <2>3, <2>4
    <2>6. g[<<k, before>>] = InspectPiece(before, part[k])
        BY <1>2
    <2> QED BY <2>1, <2>2, <2>5, <2>6
<1>9. FollowsSteps(n, InspectorTypes, begun, g, e)
    BY <1>7, <1>8 DEF FollowsSteps
<1>10. PICK h \in [0 .. n -> InspectorTypes] : /\ h[0] = begun /\ h[n] = e[1 .. n]
                                              /\ \A k \in 1 .. n : h[k] = g[<<k, h[k - 1]>>]
    <2>1. StepsLeadTo(n, InspectorTypes, begun, g, e[1 .. n])
        BY <1>1, <1>3, <1>9, FoldSteps
    <2> QED BY <2>1 DEF StepsLeadTo
<1>11. ASSUME NEW k \in 1 .. n PROVE h[k] = InspectPiece(h[k - 1], part[k])
    <2>1. k - 1 \in 0 .. n
        OBVIOUS
    <2>2. h[k - 1] \in InspectorTypes
        BY <1>10, <2>1
    <2> QED BY <1>2, <1>10, <2>2
<1> QED BY <1>1, <1>7, <1>10, <1>11

\* Where a line of the text begins, and where nothing more of it comes up to j.
LineBegins(text, i) == i = 1 \/ text[i - 1] = "\n"
NoBreak(text, i, j) == \A k \in i .. j : text[k] # "\n"

\* The line that has begun at the end of the text, and errors in lines that have ended.
Unfinished(text, started) ==
  \E i \in 1 .. Len(text) + 1 :
    LineBegins(text, i) /\ NoBreak(text, i, Len(text)) /\ started = SubSeq(text, i, Len(text))
EndedWithError(text) ==
  \E i, j \in 1 .. Len(text) : j < Len(text) /\ IsLine(text, i, j) /\ LineHasToolError(SubSeq(text, i, j))

\* The inspector has seen the text.
HasInspected(text, state) ==
  Unfinished(text, state.line) /\ (state.error <=> EndedWithError(text))

\* Only one line has begun.
LEMMA OneUnfinishedLine ==
    ASSUME NEW text \in Seq(BodyPieces), NEW i \in 1 .. Len(text) + 1, NEW j \in 1 .. Len(text) + 1,
           LineBegins(text, i), NoBreak(text, i, Len(text)), LineBegins(text, j), NoBreak(text, j, Len(text))
    PROVE  i = j
<1>1. Len(text) \in Nat
    OBVIOUS
<1>2. ASSUME NEW a \in 1 .. Len(text) + 1, NEW b \in 1 .. Len(text) + 1, a < b,
             NoBreak(text, a, Len(text)), LineBegins(text, b)
      PROVE  FALSE
    <2>1. b - 1 \in a .. Len(text) /\ b # 1
        BY <1>1, <1>2
    <2> QED BY <1>2, <2>1 DEF NoBreak, LineBegins
<1> QED BY <1>1, <1>2

\* What a text of n pieces and the same with one more have in common.
OnePieceLonger(text, x, longer, n) ==
  /\ Len(longer) = n + 1 /\ longer \in Seq(BodyPieces)
  /\ longer[n + 1] = x /\ \A k \in 1 .. n : longer[k] = text[k]
  /\ \A i, j \in 1 .. n : SubSeq(longer, i, j) = SubSeq(text, i, j)
  /\ \A i \in 1 .. n + 1 : SubSeq(longer, i, n + 1) = Append(SubSeq(text, i, n), x)
  /\ SubSeq(longer, n + 2, n + 1) = <<>>
  /\ \A i \in 1 .. n + 1 : LineBegins(longer, i) <=> LineBegins(text, i)
  /\ \A i, j \in 1 .. n : NoBreak(longer, i, j) <=> NoBreak(text, i, j)

\* They have all of that in common.
LEMMA TextBeforePiece ==
    ASSUME NEW text \in Seq(BodyPieces), NEW x \in BodyPieces, NEW longer, longer = Append(text, x),
           NEW n, n = Len(text)
    PROVE  OnePieceLonger(text, x, longer, n)
<1>1. n \in Nat
    OBVIOUS
<1>2. /\ Len(longer) = n + 1 /\ longer \in Seq(BodyPieces) /\ longer[n + 1] = x
      /\ \A k \in 1 .. n : longer[k] = text[k]
    BY <1>1
<1>3. \A i, j \in 1 .. n : SubSeq(longer, i, j) = SubSeq(text, i, j)
    BY <1>1, <1>2
<1>4. \A i \in 1 .. n + 1 : SubSeq(longer, i, n + 1) = Append(SubSeq(text, i, n), x)
    BY <1>1, <1>2
<1>5. SubSeq(longer, n + 2, n + 1) = <<>>
    BY <1>1, <1>2
<1>6. \A i \in 1 .. n + 1 : LineBegins(longer, i) <=> LineBegins(text, i)
    BY <1>2 DEF LineBegins
<1>7. \A i, j \in 1 .. n : NoBreak(longer, i, j) <=> NoBreak(text, i, j)
    BY <1>2 DEF NoBreak
<1> QED BY <1>1, <1>2, <1>3, <1>4, <1>5, <1>6, <1>7 DEF OnePieceLonger

\* A newline ends the line that has begun, anything else goes on with it.
LEMMA PieceInspected ==
    ASSUME NEW text \in Seq(BodyPieces), NEW x \in BodyPieces, NEW state \in InspectorTypes, HasInspected(text, state)
    PROVE  HasInspected(Append(text, x), InspectPiece(state, x))
<1>1. PICK n \in Nat : n = Len(text)
    OBVIOUS
<1>0. PICK longer : longer = Append(text, x)
    OBVIOUS
<1>2. /\ Len(longer) = n + 1 /\ longer \in Seq(BodyPieces) /\ longer[n + 1] = x
      /\ \A k \in 1 .. n : longer[k] = text[k]
      /\ \A i, j \in 1 .. n : SubSeq(longer, i, j) = SubSeq(text, i, j)
      /\ \A i \in 1 .. n + 1 : SubSeq(longer, i, n + 1) = Append(SubSeq(text, i, n), x)
      /\ SubSeq(longer, n + 2, n + 1) = <<>>
      /\ \A i \in 1 .. n + 1 : LineBegins(longer, i) <=> LineBegins(text, i)
      /\ \A i, j \in 1 .. n : NoBreak(longer, i, j) <=> NoBreak(text, i, j)
    <2>1. OnePieceLonger(text, x, longer, n)
        BY <1>0, <1>1, TextBeforePiece
    <2> QED BY <2>1 DEF OnePieceLonger
<1>3. PICK i \in 1 .. n + 1 : LineBegins(text, i) /\ NoBreak(text, i, n) /\ state.line = SubSeq(text, i, n)
    BY <1>1 DEF HasInspected, Unfinished
<1>4. ASSUME NEW a \in 1 .. n, NEW b \in 1 .. n, b < n
      PROVE  IsLine(longer, a, b) <=> IsLine(text, a, b)
    <2>1. b + 1 \in 1 .. n /\ b # n /\ b # n + 1
        BY <1>4
    <2>2. longer[b + 1] = text[b + 1] /\ a \in 1 .. n + 1
        BY <1>2, <2>1
    <2> QED BY <1>1, <1>2, <2>1, <2>2 DEF IsLine, LineBegins, NoBreak
<1>5. ASSUME NEW a \in 1 .. n
      PROVE  IsLine(longer, a, n) <=> x = "\n" /\ a = i
    <2>1. n # n + 1 /\ n \in 1 .. n /\ a \in 1 .. n + 1
        OBVIOUS
    <2>2. IsLine(longer, a, n) <=> NoBreak(text, a, n) /\ LineBegins(text, a) /\ x = "\n"
        BY <1>2, <2>1 DEF IsLine, LineBegins, NoBreak
    <2>3. NoBreak(text, a, n) /\ LineBegins(text, a) => a = i
        BY <1>1, <1>3, <2>1, OneUnfinishedLine
    <2> QED BY <1>3, <2>2, <2>3
<1>6. i = n + 1 => ~LineHasToolError(state.line)
    <2>1. i = n + 1 => state.line = <<>>
        BY <1>1, <1>3
    <2> QED BY <2>1, Zenon DEF LineHasToolError
<1>7. EndedWithError(longer) <=> EndedWithError(text) \/ (x = "\n" /\ LineHasToolError(state.line))
    <2>1. ASSUME EndedWithError(longer) PROVE EndedWithError(text) \/ (x = "\n" /\ LineHasToolError(state.line))
        <3>1. PICK a \in 1 .. n + 1, b \in 1 .. n + 1 :
                  b < n + 1 /\ IsLine(longer, a, b) /\ LineHasToolError(SubSeq(longer, a, b))
            BY <1>2, <2>1 DEF EndedWithError
        <3>2. a <= b
            <4>1. a > b => SubSeq(longer, a, b) = <<>>
                BY <1>2, <3>1
            <4>2. SubSeq(longer, a, b) # <<>>
                BY <3>1, Zenon DEF LineHasToolError
            <4> QED BY <4>1, <4>2
        <3>3. a \in 1 .. n /\ b \in 1 .. n
            BY <3>1, <3>2
        <3>4. SubSeq(longer, a, b) = SubSeq(text, a, b)
            BY <1>2, <3>3
        <3>5. CASE b < n
            BY <1>1, <1>4, <3>1, <3>3, <3>4, <3>5 DEF EndedWithError
        <3>6. CASE b = n
            BY <1>3, <1>5, <3>1, <3>3, <3>4, <3>6
        <3> QED BY <3>3, <3>5, <3>6
    <2>2. ASSUME EndedWithError(text) PROVE EndedWithError(longer)
        <3>1. PICK a \in 1 .. n, b \in 1 .. n : b < n /\ IsLine(text, a, b) /\ LineHasToolError(SubSeq(text, a, b))
            BY <1>1, <2>2 DEF EndedWithError
        <3>2. a \in 1 .. n + 1 /\ b \in 1 .. n + 1 /\ b < n + 1
            BY <3>1
        <3> QED BY <1>2, <1>4, <3>1, <3>2 DEF EndedWithError
    <2>3. ASSUME x = "\n", LineHasToolError(state.line) PROVE EndedWithError(longer)
        <3>1. i \in 1 .. n /\ n \in 1 .. n
            BY <1>6, <2>3
        <3>2. IsLine(longer, i, n) /\ SubSeq(longer, i, n) = state.line
            BY <1>2, <1>3, <1>5, <2>3, <3>1
        <3>3. i \in 1 .. n + 1 /\ n \in 1 .. n + 1 /\ n < n + 1
            BY <3>1
        <3> QED BY <1>2, <2>3, <3>2, <3>3 DEF EndedWithError
    <2> QED BY <2>1, <2>2, <2>3
<1>8. CASE x = "\n"
    <2>1. /\ InspectPiece(state, x).line = <<>>
          /\ InspectPiece(state, x).error <=> (state.error \/ LineHasToolError(state.line))
        BY <1>8 DEF InspectPiece, InspectorTypes
    <2>2. LineBegins(longer, n + 2) /\ NoBreak(longer, n + 2, n + 1) /\ n + 2 \in 1 .. (n + 1) + 1
        BY <1>2, <1>8 DEF LineBegins, NoBreak
    <2>3. Unfinished(longer, InspectPiece(state, x).line)
        BY <1>2, <2>1, <2>2 DEF Unfinished
    <2>4. InspectPiece(state, x).error <=> EndedWithError(longer)
        BY <1>7, <1>8, <2>1 DEF HasInspected
    <2> QED BY <1>0, <2>3, <2>4 DEF HasInspected
<1>9. CASE x # "\n"
    <2>1. /\ InspectPiece(state, x).line = Append(state.line, x)
          /\ InspectPiece(state, x).error = state.error
        BY <1>9 DEF InspectPiece, InspectorTypes
    <2>2. LineBegins(longer, i) /\ i \in 1 .. (n + 1) + 1
        BY <1>2, <1>3
    <2>3. NoBreak(longer, i, n + 1)
        <3>1. \A k \in i .. n : k \in 1 .. n /\ longer[k] # "\n"
            BY <1>2, <1>3 DEF NoBreak
        <3>2. \A k \in i .. n + 1 : k \in i .. n \/ k = n + 1
            OBVIOUS
        <3> QED BY <1>2, <1>9, <3>1, <3>2 DEF NoBreak
    <2>4. Unfinished(longer, InspectPiece(state, x).line)
        BY <1>2, <1>3, <2>1, <2>2, <2>3 DEF Unfinished
    <2>5. InspectPiece(state, x).error <=> EndedWithError(longer)
        BY <1>7, <1>9, <2>1 DEF HasInspected
    <2> QED BY <1>0, <2>4, <2>5 DEF HasInspected
<1> QED BY <1>8, <1>9

\* What the inspector has become after the part of a write.
PartInspected(state, part, after) ==
  /\ after \in InspectorTypes
  /\ after.capture = state.capture /\ after.finalized = state.finalized

\* Only newlines and what is between them change: the prefix does not.
LEMMA PieceKeepsCapture ==
    ASSUME NEW state \in InspectorTypes, NEW piece \in BodyPieces
    PROVE  PartInspected(state, <<>>, InspectPiece(state, piece))
<1>1. InspectPiece(state, piece) \in InspectorTypes
    BY InspectPieceTypes
<1>2. /\ InspectPiece(state, piece).capture = state.capture
      /\ InspectPiece(state, piece).finalized = state.finalized
    BY DEF InspectPiece, InspectorTypes
<1> QED BY <1>1, <1>2 DEF PartInspected

\* All the pieces of a part are inspected one after the other.
LEMMA PartIsInspected ==
    ASSUME NEW text \in Seq(BodyPieces), NEW part \in Seq(BodyPieces), NEW begun \in InspectorTypes,
           HasInspected(text, begun)
    PROVE  LET after == FoldLeft(InspectPiece, begun, part)
           IN PartInspected(begun, part, after) /\ HasInspected(text \o part, after)
<1>1. PICK n \in Nat : n = Len(part)
    OBVIOUS
<1>2. PICK h \in [0 .. n -> InspectorTypes] :
          /\ h[0] = begun
          /\ \A k \in 1 .. n : h[k] = InspectPiece(h[k - 1], part[k])
          /\ FoldLeft(InspectPiece, begun, part) = h[n]
    BY <1>1, InspectedByPieces
<1> DEFINE Good(k) == PartInspected(begun, part, h[k]) /\ HasInspected(text \o SubSeq(part, 1, k), h[k])
           Bad == {k \in 0 .. n : ~Good(k)}
<1>3. Good(0)
    <2>1. text \o SubSeq(part, 1, 0) = text
        BY <1>1
    <2> QED BY <1>2, <2>1 DEF PartInspected
<1>4. ASSUME NEW k \in 1 .. n, Good(k - 1) PROVE Good(k)
    <2>1. k - 1 \in 0 .. n /\ k \in 0 .. n /\ part[k] \in BodyPieces
        BY <1>1
    <2>2. PICK before \in Seq(BodyPieces) : before = text \o SubSeq(part, 1, k - 1)
        <3>1. SubSeq(part, 1, k - 1) \in Seq(BodyPieces)
            BY <1>1, <2>1
        <3>2. text \o SubSeq(part, 1, k - 1) \in Seq(BodyPieces)
            BY <3>1
        <3> QED BY <3>2, Zenon
    <2>3. text \o SubSeq(part, 1, k) = Append(before, part[k])
        BY <1>1, <2>1, <2>2
    <2>4. PICK state \in InspectorTypes : state = h[k - 1]
        BY <1>2, <2>1
    <2>5. PartInspected(begun, part, state) /\ HasInspected(before, state)
        BY <1>4, <2>2, <2>4
    <2>6. h[k] = InspectPiece(state, part[k])
        BY <1>2, <2>4
    <2>7. HasInspected(Append(before, part[k]), InspectPiece(state, part[k]))
        BY <2>1, <2>5, PieceInspected
    <2>8. PartInspected(state, <<>>, InspectPiece(state, part[k]))
        BY <2>1, PieceKeepsCapture
    <2>9. PartInspected(begun, part, h[k])
        BY <2>5, <2>6, <2>8 DEF PartInspected
    <2> QED BY <2>3, <2>6, <2>7, <2>9
<1>5. Good(n)
    <2>1. Bad = {}
        <3> SUFFICES ASSUME Bad # {} PROVE FALSE
            OBVIOUS
        <3>1. Bad \in SUBSET Nat
            OBVIOUS
        <3>2. PICK m : m \in Bad /\ \A u \in Bad : m <= u
            BY <3>1, MinOfNaturals
        <3>3. m \in 0 .. n /\ ~Good(m)
            BY <3>2
        <3>4. m # 0
            BY <1>3, <3>3
        <3>5. m \in 1 .. n /\ m - 1 \in 0 .. n /\ ~(m <= m - 1)
            BY <3>3, <3>4
        <3>6. Good(m - 1)
            BY <3>2, <3>5
        <3> QED BY <1>4, <3>3, <3>5, <3>6
    <2>2. n \in 0 .. n
        OBVIOUS
    <2> QED BY <2>1, <2>2
<1>6. SubSeq(part, 1, n) = part
    BY <1>1
<1>7. PartInspected(begun, part, h[n]) /\ HasInspected(text \o part, h[n])
    BY <1>5, <1>6
<1> QED BY <1>2, <1>7

\* The smaller of two numbers.
LEMMA MinOfTwo ==
    ASSUME NEW a \in Nat, NEW b \in Nat
    PROVE  Min({a, b}) = IF a <= b THEN a ELSE b
<1>1. PICK s : s = {a, b}
    OBVIOUS
<1>2. s \in SUBSET Nat /\ s # {}
    BY <1>1
<1>3. Min(s) \in s /\ \A u \in s : Min(s) <= u
    BY <1>2, MinOfNaturals
<1>4. PICK m : m = Min(s)
    OBVIOUS
<1>5. (m = a \/ m = b) /\ m <= a /\ m <= b
    BY <1>1, <1>3, <1>4
<1> QED BY <1>1, <1>4, <1>5

\* What of a response is within the limit of inspection.
Prefix(text) == SubSeq(text, 1, Min({Len(text), InspectionLimit}))
PartWithin(head, chunk) == SubSeq(chunk, 1, Min({Len(chunk), InspectionLimit - Len(head)}))

\* A write adds to the prefix what the limit leaves room for.
AddsWithin(head, chunk, longer) ==
  /\ head \in Seq(BodyPieces) /\ longer \in Seq(BodyPieces)
  /\ Len(head) >= InspectionLimit => longer = head
  /\ Len(head) < InspectionLimit =>
        /\ PartWithin(head, chunk) \in Seq(BodyPieces)
        /\ longer = head \o PartWithin(head, chunk)

\* So do the prefixes of a response.
LEMMA PrefixGrows ==
    ASSUME NEW text \in Seq(BodyPieces), NEW chunk \in Seq(BodyPieces), NEW head, head = Prefix(text)
    PROVE  AddsWithin(head, chunk, Prefix(text \o chunk))
<1>1. PICK l \in Nat \ {0} : l = InspectionLimit
    BY RecorderConstants
<1>2. PICK n \in Nat : n = Len(text)
    OBVIOUS
<1>3. PICK m \in Nat : m = Len(chunk)
    OBVIOUS
<1>4. PICK whole \in Seq(BodyPieces) : whole = text \o chunk
    <2>1. text \o chunk \in Seq(BodyPieces)
        OBVIOUS
    <2> QED BY <2>1, Zenon
<1>5. /\ Len(whole) = n + m
      /\ \A k \in 1 .. n : whole[k] = text[k]
      /\ \A k \in 1 .. m : whole[n + k] = chunk[k]
    BY <1>2, <1>3, <1>4
<1>6. Prefix(text) = SubSeq(text, 1, IF n <= l THEN n ELSE l)
    BY <1>1, <1>2, MinOfTwo DEF Prefix
<1>7. Prefix(whole) = SubSeq(whole, 1, IF n + m <= l THEN n + m ELSE l)
    <2>1. n + m \in Nat
        OBVIOUS
    <2> QED BY <1>1, <1>5, <2>1, MinOfTwo DEF Prefix
<1>8. head \in Seq(BodyPieces) /\ Prefix(whole) \in Seq(BodyPieces)
    <2>1. (IF n <= l THEN n ELSE l) \in 0 .. n /\ (IF n + m <= l THEN n + m ELSE l) \in 0 .. n + m
        OBVIOUS
    <2>2. \A t \in Seq(BodyPieces) : \A k \in 0 .. Len(t) : SubSeq(t, 1, k) \in Seq(BodyPieces)
        OBVIOUS
    <2> QED BY <1>2, <1>5, <1>6, <1>7, <2>1, <2>2
<1>9. CASE n >= l
    <2>1. SubSeq(whole, 1, l) = SubSeq(text, 1, l) /\ Len(SubSeq(text, 1, l)) = l
        <3>1. \A k \in 1 .. l : k \in 1 .. n /\ whole[k] = text[k]
            BY <1>5, <1>9
        <3>2. l <= Len(whole) /\ l <= Len(text)
            BY <1>2, <1>5, <1>9
        <3>3. Len(SubSeq(text, 1, l)) = l /\ Len(SubSeq(whole, 1, l)) = l
            BY <3>2
        <3>4. \A k \in 1 .. l : SubSeq(text, 1, l)[k] = text[k] /\ SubSeq(whole, 1, l)[k] = whole[k]
            BY <3>2
        <3>5. SubSeq(text, 1, l) \in Seq(BodyPieces) /\ SubSeq(whole, 1, l) \in Seq(BodyPieces)
            BY <3>2
        <3>6. \A s, t \in Seq(BodyPieces) :
                 Len(s) = Len(t) /\ (\A k \in 1 .. Len(s) : s[k] = t[k]) => s = t
            BY SeqEqual
        <3> QED BY <3>1, <3>3, <3>4, <3>5, <3>6
    <2>2. n + m <= l => n + m = l
        BY <1>9
    <2>3. n <= l => n = l
        BY <1>9
    <2>4. Prefix(whole) = head /\ Len(head) = l
        BY <1>6, <1>7, <2>1, <2>2, <2>3
    <2> QED BY <1>1, <1>4, <1>8, <2>4 DEF AddsWithin
<1>10. CASE n < l
    <2>1. head = text
        BY <1>2, <1>6, <1>10
    <2>2. PICK r \in Nat : r = l - n
        BY <1>10
    <2>3. PartWithin(head, chunk) = SubSeq(chunk, 1, IF m <= r THEN m ELSE r)
        BY <1>1, <1>2, <1>3, <2>1, <2>2, MinOfTwo DEF PartWithin
    <2>4. PICK q \in 0 .. m : q = IF m <= r THEN m ELSE r
        OBVIOUS
    <2>5. (IF n + m <= l THEN n + m ELSE l) = n + q
        BY <2>2, <2>4
    <2>6. SubSeq(whole, 1, n + q) = text \o SubSeq(chunk, 1, q)
        BY <1>2, <1>3, <1>4
    <2>7. SubSeq(chunk, 1, q) \in Seq(BodyPieces)
        BY <1>3
    <2>8. PICK more \in Seq(BodyPieces) : more = SubSeq(chunk, 1, q)
        BY <2>7, Zenon
    <2>9. PartWithin(head, chunk) = more
        BY <2>3, <2>4, <2>8
    <2>10. Prefix(whole) = head \o more
        BY <1>7, <2>1, <2>5, <2>6, <2>8
    <2>11. Len(head) = n /\ ~(n >= l)
        BY <1>2, <1>10, <2>1
    <2> QED BY <1>1, <1>4, <1>8, <2>8, <2>9, <2>10, <2>11 DEF AddsWithin
<1> QED BY <1>9, <1>10

\* A text reports an error when it is an error itself, when a line that has ended reports
\* one, or when the line that has begun does.
LEMMA VerdictOfText ==
    ASSUME NEW text \in Seq(BodyPieces), NEW state \in InspectorTypes, HasInspected(text, state)
    PROVE  /\ state.error => ReportsError(text)
           /\ state.error \/ LineHasToolError(state.line) \/ PayloadHasToolError(text) <=> ReportsError(text)
<1>1. PICK n \in Nat : n = Len(text)
    OBVIOUS
<1>2. PICK i \in 1 .. n + 1 : LineBegins(text, i) /\ NoBreak(text, i, n) /\ state.line = SubSeq(text, i, n)
    BY <1>1 DEF HasInspected, Unfinished
<1>3. state.error <=> EndedWithError(text)
    BY DEF HasInspected
<1>4. ASSUME EndedWithError(text) PROVE ReportsError(text)
    BY <1>4 DEF EndedWithError, ReportsError
<1>5. ASSUME LineHasToolError(state.line) PROVE ReportsError(text)
    <2>1. i # n + 1
        <3>1. i = n + 1 => state.line = <<>>
            BY <1>1, <1>2
        <3>2. state.line # <<>>
            BY <1>5, Zenon DEF LineHasToolError
        <3> QED BY <3>1, <3>2
    <2>2. i \in 1 .. n /\ n \in 1 .. n
        BY <2>1
    <2>3. IsLine(text, i, n)
        BY <1>1, <1>2 DEF IsLine, LineBegins, NoBreak
    <2> QED BY <1>1, <1>2, <1>5, <2>2, <2>3 DEF ReportsError
<1>6. ASSUME ReportsError(text), ~PayloadHasToolError(text)
      PROVE  EndedWithError(text) \/ LineHasToolError(state.line)
    <2>1. PICK a \in 1 .. n, b \in 1 .. n : IsLine(text, a, b) /\ LineHasToolError(SubSeq(text, a, b))
        BY <1>1, <1>6 DEF ReportsError
    <2>2. CASE b < n
        BY <1>1, <2>1, <2>2 DEF EndedWithError
    <2>3. CASE b = n
        <3>1. a \in 1 .. n + 1 /\ LineBegins(text, a) /\ NoBreak(text, a, n)
            BY <2>1, <2>3 DEF IsLine, LineBegins, NoBreak
        <3>2. a = i
            BY <1>1, <1>2, <3>1, OneUnfinishedLine
        <3> QED BY <1>2, <2>1, <2>3, <3>2
    <2>4. b < n \/ b = n
        OBVIOUS
    <2> QED BY <2>2, <2>3, <2>4
<1>7. PayloadHasToolError(text) => ReportsError(text)
    BY DEF ReportsError
<1> QED BY <1>3, <1>4, <1>5, <1>6, <1>7

\* The inductive invariant.  The inspector has captured the prefix and, until its verdict is
\* final, has reported the lines of it that have ended and holds the one that has begun.
RecorderTypes ==
  /\ response \in Seq(BodyPieces)
  /\ inspector \in InspectorTypes
  /\ spool \in [count : Nat, observed : Nat, truncated : BOOLEAN, failed : BOOLEAN]
InspectorHasSeen ==
  /\ inspector.capture = Prefix(response)
  /\ ~inspector.finalized => HasInspected(inspector.capture, inspector)
RecorderIInv == RecorderTypes /\ InspectorHasSeen /\ VerdictOfPrefix /\ SpoolHonest

\* Nothing of an empty response has been seen.
LEMMA RecorderStarts == RecorderInit => RecorderIInv
<1> SUFFICES ASSUME RecorderInit PROVE RecorderIInv
    OBVIOUS
<1>1. RecorderTypes
    BY DEF RecorderInit, RecorderTypes, InspectorTypes
<1>2. PICK l \in Nat \ {0} : l = InspectionLimit
    BY RecorderConstants
<1>3. PICK s \in Nat \ {0} : s = SpoolLimit
    BY RecorderConstants
<1>4. response = <<>> /\ Len(response) = 0
    BY DEF RecorderInit
<1>5. inspector.capture = <<>> /\ inspector.line = <<>> /\ inspector.error = FALSE /\ inspector.finalized = FALSE
    BY DEF RecorderInit
<1>6. Prefix(response) = <<>>
    <2>1. Min({0, l}) = 0
        BY <1>2, MinOfTwo
    <2> QED BY <1>2, <1>4, <2>1 DEF Prefix
<1>7. HasInspected(<<>>, inspector)
    <2>1. PICK t : t = <<>> /\ Len(t) = 0
        <3>1. Len(<<>>) = 0
            OBVIOUS
        <3> QED BY <3>1, Zenon
    <2>2. 1 \in 1 .. Len(t) + 1 /\ LineBegins(t, 1) /\ NoBreak(t, 1, Len(t)) /\ SubSeq(t, 1, Len(t)) = <<>>
        BY <2>1 DEF LineBegins, NoBreak
    <2>3. Unfinished(t, inspector.line)
        BY <1>5, <2>2 DEF Unfinished
    <2>4. ~EndedWithError(t)
        BY <2>1 DEF EndedWithError
    <2> QED BY <1>5, <2>1, <2>3, <2>4 DEF HasInspected
<1>8. InspectorHasSeen
    BY <1>5, <1>6, <1>7 DEF InspectorHasSeen
<1>9. VerdictOfPrefix
    BY <1>5 DEF VerdictOfPrefix
<1>10. SpoolHonest
    <2>1. Min({0, s}) = 0
        BY <1>3, MinOfTwo
    <2>2. spool.count = 0 /\ spool.observed = 0 /\ spool.truncated = FALSE /\ spool.failed = FALSE
        BY DEF RecorderInit
    <2> QED BY <1>3, <1>4, <2>1, <2>2 DEF SpoolHonest
<1> QED BY <1>1, <1>8, <1>9, <1>10 DEF RecorderIInv

\* What a write makes of the inspector.
LEMMA WriteIsInspected ==
    ASSUME RecorderIInv, ~inspector.finalized, NEW chunk \in Seq(BodyPieces),
           NEW after, after = Inspect(inspector, chunk)
    PROVE  /\ after \in InspectorTypes /\ ~after.finalized
           /\ after.capture = Prefix(response \o chunk)
           /\ HasInspected(after.capture, after)
<1>1. /\ response \in Seq(BodyPieces) /\ inspector \in InspectorTypes
      /\ inspector.capture = Prefix(response) /\ HasInspected(inspector.capture, inspector)
    BY DEF RecorderIInv, RecorderTypes, InspectorHasSeen
<1>2. PICK head \in Seq(BodyPieces) : head = inspector.capture
    BY <1>1 DEF InspectorTypes
<1>3. PICK l \in Nat : l = InspectionLimit
    BY RecorderConstants
<1>4. /\ Len(head) >= l => Prefix(response \o chunk) = head
      /\ Len(head) < l => /\ PartWithin(head, chunk) \in Seq(BodyPieces)
                             /\ Prefix(response \o chunk) = head \o PartWithin(head, chunk)
    <2>1. head = Prefix(response)
        BY <1>1, <1>2
    <2>2. AddsWithin(head, chunk, Prefix(response \o chunk))
        BY <1>1, <2>1, PrefixGrows, Zenon
    <2> QED BY <1>3, <2>2 DEF AddsWithin
<1>5. CASE Len(head) >= l
    <2>1. after = inspector
        BY <1>2, <1>3, <1>5 DEF Inspect
    <2> QED BY <1>1, <1>2, <1>4, <1>5, <2>1
<1>6. CASE ~(Len(head) >= l)
    <2>1. Len(head) \in Nat
        BY <1>2
    <2>2. Len(head) < l
        BY <1>3, <1>6, <2>1
    <2>3. PICK part \in Seq(BodyPieces) : part = PartWithin(head, chunk)
        BY <1>4, <2>2
    <2>4. PICK longer \in Seq(BodyPieces) : longer = head \o part
        <3>1. head \o part \in Seq(BodyPieces)
            OBVIOUS
        <3> QED BY <3>1, Zenon
    <2>5. PICK begun : begun = [inspector EXCEPT !.capture = longer]
        OBVIOUS
    <2>6. /\ begun \in InspectorTypes /\ begun.capture = longer /\ begun.finalized = inspector.finalized
          /\ begun.line = inspector.line /\ begun.error = inspector.error
        BY <1>1, <2>5 DEF InspectorTypes
    <2>7. HasInspected(head, begun)
        BY <1>1, <1>2, <2>6 DEF HasInspected
    <2>8. begun = [inspector EXCEPT !.capture = @ \o part, !.line = inspector.line]
        BY <1>1, <1>2, <2>4, <2>5 DEF InspectorTypes
    <2>9. after = FoldLeft(InspectPiece, begun, part)
        <3>1. ~(inspector.finalized \/ Len(inspector.capture) >= InspectionLimit)
            BY <1>2, <1>3, <1>6
        <3>2. part = SubSeq(chunk, 1, Min({Len(chunk), InspectionLimit - Len(inspector.capture)}))
            BY <1>2, <2>3 DEF PartWithin
        <3>3. begun = [inspector EXCEPT !.capture = @ \o part, !.line = LineBefore(inspector)]
            BY <2>8 DEF LineBefore
        <3> QED BY <3>1, <3>2, <3>3, Zenon DEF Inspect
    <2>10. PartInspected(begun, part, after) /\ HasInspected(head \o part, after)
        BY <2>6, <2>7, <2>9, PartIsInspected
    <2>11. after \in InspectorTypes /\ after.capture = longer /\ after.finalized = inspector.finalized
        BY <2>6, <2>10 DEF PartInspected
    <2> QED BY <1>4, <2>2, <2>3, <2>4, <2>10, <2>11
<1> QED BY <1>5, <1>6

\* The sample stays a prefix of what was written, or has failed.
LEMMA SampleStaysHonest ==
    ASSUME RecorderIInv, NEW chunk \in Seq(BodyPieces), SpoolWrite(Len(chunk)),
           response' = response \o chunk
    PROVE  /\ spool' \in [count : Nat, observed : Nat, truncated : BOOLEAN, failed : BOOLEAN]
           /\ SpoolHonest'
<1>1. PICK s \in Nat \ {0} : s = SpoolLimit
    BY RecorderConstants
<1>2. PICK n \in Nat : n = Len(chunk)
    OBVIOUS
<1>3. response \in Seq(BodyPieces) /\ spool \in [count : Nat, observed : Nat, truncated : BOOLEAN, failed : BOOLEAN]
    BY DEF RecorderIInv, RecorderTypes
<1>4. PICK r \in Nat : r = Len(response)
    BY <1>3
<1>5. Len(response') = r + n
    BY <1>2, <1>3, <1>4
<1>6. PICK c \in Nat : c = spool.count
    BY <1>3
<1>7. /\ c <= s /\ spool.observed = r
      /\ ~spool.failed => c = (IF r <= s THEN r ELSE s) /\ (spool.truncated <=> r > s)
    <2>1. Min({r, s}) = IF r <= s THEN r ELSE s
        BY <1>1, <1>4, MinOfTwo
    <2> QED BY <1>1, <1>4, <1>6, <2>1 DEF RecorderIInv, SpoolHonest
<1>8. PICK room \in Nat : room = s - c
    BY <1>7
<1>9. PICK kept \in 0 .. n : kept = (IF n <= room THEN n ELSE room)
    OBVIOUS
<1>10. Min({n, SpoolLimit - spool.count}) = kept
    BY <1>1, <1>6, <1>8, <1>9, MinOfTwo
<1>11. Min({r + n, s}) = IF r + n <= s THEN r + n ELSE s
    BY <1>1, MinOfTwo
<1>12. r + n \in Nat /\ c + kept \in Nat /\ c + kept <= s
    BY <1>7, <1>8, <1>9
<1>13. CASE spool.failed
    <2>1. spool' = [spool EXCEPT !.observed = r + n]
        BY <1>2, <1>7, <1>13 DEF SpoolWrite
    <2>2. spool'.count = c /\ spool'.observed = r + n /\ spool'.failed
        BY <1>3, <1>6, <1>13, <2>1
    <2>3. SpoolHonest'
        BY <1>1, <1>5, <1>7, <2>2 DEF SpoolHonest
    <2> QED BY <1>3, <1>12, <2>1, <2>3
<1>14. CASE ~spool.failed
    <2>1. PICK cut \in BOOLEAN : cut <=> (spool.truncated \/ n > room)
        OBVIOUS
    <2>2. cut <=> r + n > s
        BY <1>7, <1>8, <1>14, <2>1
    <2>3. PICK counted : counted = [spool EXCEPT !.observed = r + n, !.truncated = cut]
        OBVIOUS
    <2>4. (spool.truncated \/ (~spool.failed /\ n > SpoolLimit - spool.count)) = cut
        <3>1. spool.truncated \in BOOLEAN /\ SpoolLimit - spool.count = room
            BY <1>1, <1>3, <1>6, <1>8
        <3> QED BY <1>14, <2>1, <3>1
    <2>5. \/ spool' = [counted EXCEPT !.count = @ + kept]
          \/ \E k \in 0 .. kept : spool' = [counted EXCEPT !.count = @ + k, !.failed = TRUE]
        <3>1. counted = [spool EXCEPT !.observed = @ + n,
                                   !.truncated = @ \/ (~spool.failed /\ n > SpoolLimit - spool.count)]
            BY <1>3, <1>7, <2>3, <2>4
        <3> QED BY <1>2, <1>10, <1>14, <3>1 DEF SpoolWrite
    <2>6. counted \in [count : Nat, observed : Nat, truncated : BOOLEAN, failed : BOOLEAN]
          /\ counted.count = c /\ counted.observed = r + n /\ counted.truncated = cut /\ counted.failed = spool.failed
        BY <1>3, <1>6, <1>12, <2>3
    <2>7. CASE spool' = [counted EXCEPT !.count = @ + kept]
        <3>1. /\ spool' \in [count : Nat, observed : Nat, truncated : BOOLEAN, failed : BOOLEAN]
              /\ spool'.count = c + kept /\ spool'.observed = r + n /\ spool'.truncated = cut
            BY <1>12, <2>6, <2>7
        <3>2. c + kept = IF r + n <= s THEN r + n ELSE s
            BY <1>7, <1>8, <1>9, <1>14
        <3> QED BY <1>1, <1>5, <1>11, <1>12, <2>2, <3>1, <3>2 DEF SpoolHonest
    <2>8. ASSUME NEW k \in 0 .. kept, spool' = [counted EXCEPT !.count = @ + k, !.failed = TRUE]
          PROVE  /\ spool' \in [count : Nat, observed : Nat, truncated : BOOLEAN, failed : BOOLEAN]
                 /\ SpoolHonest'
        <3>1. c + k \in Nat /\ c + k <= s
            BY <1>9, <1>12
        <3>2. /\ spool' \in [count : Nat, observed : Nat, truncated : BOOLEAN, failed : BOOLEAN]
              /\ spool'.count = c + k /\ spool'.observed = r + n /\ spool'.failed
            BY <2>6, <2>8, <3>1
        <3> QED BY <1>1, <1>5, <3>1, <3>2 DEF SpoolHonest
    <2> QED BY <2>5, <2>7, <2>8
<1> QED BY <1>13, <1>14

\* A write.
LEMMA WriteKeeps ==
    ASSUME RecorderIInv, NEW chunk \in Seq(BodyPieces), Write(chunk)
    PROVE  RecorderIInv'
<1>1. /\ ~inspector.finalized /\ response' = response \o chunk
      /\ inspector' = Inspect(inspector, chunk) /\ SpoolWrite(Len(chunk))
    BY DEF Write
<1>2. response \in Seq(BodyPieces)
    BY DEF RecorderIInv, RecorderTypes
<1>3. response' \in Seq(BodyPieces)
    <2>1. response \o chunk \in Seq(BodyPieces)
        BY <1>2
    <2> QED BY <1>1, <2>1, Zenon
<1>4. /\ inspector' \in InspectorTypes /\ ~inspector'.finalized
      /\ inspector'.capture = Prefix(response \o chunk)
      /\ HasInspected(inspector'.capture, inspector')
    BY <1>1, WriteIsInspected
<1>5. /\ spool' \in [count : Nat, observed : Nat, truncated : BOOLEAN, failed : BOOLEAN]
      /\ SpoolHonest'
    BY <1>1, SampleStaysHonest
<1>6. inspector'.capture = Prefix(response')
    BY <1>1, <1>4
<1>7. inspector'.error => ReportsError(inspector'.capture)
    <2>1. inspector'.capture \in Seq(BodyPieces)
        BY <1>4 DEF InspectorTypes
    <2> QED BY <1>4, <2>1, VerdictOfText
<1>8. VerdictOfPrefix'
    BY <1>4, <1>6, <1>7 DEF VerdictOfPrefix, Prefix
<1>9. RecorderTypes'
    BY <1>3, <1>4, <1>5 DEF RecorderTypes
<1>10. InspectorHasSeen'
    BY <1>4, <1>6 DEF InspectorHasSeen, Prefix
<1> QED BY <1>5, <1>8, <1>9, <1>10 DEF RecorderIInv

\* The final verdict.
LEMMA FinishKeeps ==
    ASSUME RecorderIInv, Finish
    PROVE  RecorderIInv'
<1>1. /\ ~inspector.finalized /\ response' = response /\ inspector' = Finalize(inspector)
      /\ (spool' = spool \/ spool' = [spool EXCEPT !.failed = TRUE])
    BY DEF Finish
<1>2. RecorderTypes /\ InspectorHasSeen /\ SpoolHonest
    BY DEF RecorderIInv
<1>3. inspector \in InspectorTypes /\ inspector.capture = Prefix(response) /\ inspector.capture \in Seq(BodyPieces)
    BY <1>2 DEF RecorderTypes, InspectorHasSeen, InspectorTypes
<1>4. PICK found \in BOOLEAN :
          found <=> (inspector.error \/ LineHasToolError(inspector.line) \/ PayloadHasToolError(inspector.capture))
    OBVIOUS
<1>5. inspector' = [inspector EXCEPT !.finalized = TRUE, !.error = found]
    <2>1. (inspector.error \/ LineHasToolError(inspector.line) \/ PayloadHasToolError(inspector.capture)) = found
        <3>1. inspector.error \in BOOLEAN
            BY <1>3 DEF InspectorTypes
        <3>2. (inspector.error \/ LineHasToolError(inspector.line) \/ PayloadHasToolError(inspector.capture)) \in BOOLEAN
            BY <3>1, Zenon DEF LineHasToolError, PayloadHasToolError
        <3> QED BY <1>4, <3>2, Zenon
    <2> QED BY <1>1, <2>1 DEF Finalize
<1>6. /\ inspector' \in InspectorTypes /\ inspector'.finalized /\ inspector'.error = found
      /\ inspector'.capture = inspector.capture
    BY <1>3, <1>5 DEF InspectorTypes
<1>7. found <=> ReportsError(Prefix(response))
    <2>1. HasInspected(inspector.capture, inspector)
        BY <1>1, <1>2 DEF InspectorHasSeen
    <2> QED BY <1>3, <1>4, <2>1, VerdictOfText
<1>8. VerdictOfPrefix'
    BY <1>1, <1>6, <1>7 DEF VerdictOfPrefix, Prefix
<1>9. SpoolHonest' /\ spool' \in [count : Nat, observed : Nat, truncated : BOOLEAN, failed : BOOLEAN]
    BY <1>1, <1>2 DEF SpoolHonest, RecorderTypes
<1>10. RecorderTypes'
    BY <1>1, <1>2, <1>6, <1>9 DEF RecorderTypes
<1>11. InspectorHasSeen'
    BY <1>1, <1>3, <1>6 DEF InspectorHasSeen, Prefix
<1> QED BY <1>8, <1>9, <1>10, <1>11 DEF RecorderIInv

\* Every step keeps the inductive invariant.
LEMMA RecorderSteps == RecorderIInv /\ [RecorderNext]_recorderVars => RecorderIInv'
<1> SUFFICES ASSUME RecorderIInv, [RecorderNext]_recorderVars PROVE RecorderIInv'
    OBVIOUS
<1>1. ASSUME NEW n \in 1 .. MaxWrite, NEW chunk \in [1 .. n -> BodyPieces], Write(chunk) PROVE RecorderIInv'
    <2>1. MaxWrite \in Nat
        BY RecorderConstants
    <2>2. chunk \in Seq(BodyPieces)
        BY <2>1
    <2> QED BY <1>1, <2>2, WriteKeeps
<1>2. ASSUME Finish PROVE RecorderIInv'
    BY <1>2, FinishKeeps
<1>3. CASE UNCHANGED recorderVars
    <2>1. response' = response /\ inspector' = inspector /\ spool' = spool
        BY <1>3 DEF recorderVars
    <2> QED BY <2>1 DEF RecorderIInv, RecorderTypes, InspectorHasSeen, Prefix, HasInspected,
                        VerdictOfPrefix, SpoolHonest
<1> QED BY <1>1, <1>2, <1>3 DEF RecorderNext

\* The verdict on a response is that of its prefix as a whole, however the library cut it
\* into writes, and the sample kept for debugging is a prefix that says when it is not the
\* whole (responseOutcomeInspector, debugBodySpool).
THEOREM RecorderInvariant == RecorderSpec => []RecorderInv
<1>1. RecorderIInv => RecorderInv
    BY DEF RecorderIInv, RecorderInv
<1> QED BY <1>1, RecorderStarts, RecorderSteps, PTL DEF RecorderSpec
===============================================================================
