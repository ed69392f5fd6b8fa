----------------------- MODULE SearchConcurrencyLimiter -----------------------
(***************************************************************************)
(* The search concurrency limiter of                                       *)
(* internal/ratelimit/search_concurrency_limiter.go: a global and a        *)
(* per-user bound on searches in flight, limits an administrator replaces  *)
(* at run time, and a cleanup loop that forgets idle users.                *)
(*                                                                         *)
(* Each method body that runs under limiter.mu is one step.  A lease is    *)
(* the closure tryAcquire returns; it keeps a pointer to the user's entry. *)
(* An entry is named by the request whose tryAcquire allocated it, so that *)
(* a lease on an entry the cleanup has dropped can be told from one on the *)
(* entry that replaced it.  A request calls tryAcquire at most once.       *)
(***************************************************************************)
EXTENDS McpCallers, Naturals, FiniteSets

CONSTANTS
    ConcurrencyLimits,  \* limits administrators configure
    NoEntry             \* the user has no entry

ASSUME LimiterAssumption ==
    /\ IsFiniteSet(Requests)
    /\ UserOf \in [Requests -> Users]
    /\ ConcurrencyLimits \in SUBSET (Nat \ {0})
    /\ NoEntry \notin Requests

VARIABLES
    globalLimit, perUserLimit,
    globalActive,
    entries,      \* the map: which entry a user has
    active,       \* entry -> its active count
    lease,        \* request -> "none", "held", "released" or "refused"
    leaseEntry    \* request -> the entry its lease points to

limiterVars == <<globalLimit, perUserLimit, globalActive, entries, active, lease, leaseEntry>>

\* The validation shared by NewSearchConcurrencyLimiter and UpdateLimits.
ValidLimits(global, perUser) == global > 0 /\ perUser > 0 /\ perUser <= global

LimiterInit ==
    /\ globalLimit \in ConcurrencyLimits /\ perUserLimit \in ConcurrencyLimits
    /\ ValidLimits(globalLimit, perUserLimit)
    /\ globalActive = 0
    /\ entries = [u \in Users |-> NoEntry]
    /\ active = [r \in Requests |-> 0]
    /\ lease = [r \in Requests |-> "none"]
    /\ leaseEntry = [r \in Requests |-> NoEntry]

-----------------------------------------------------------------------------
(* tryAcquire.                                                             *)

\* Mutant: the comparison admits one search too many.
GlobalFull_OffByOne == globalActive > globalLimit

GlobalFull == globalActive >= globalLimit

\* The entry tryAcquire works on: the user's, or the one it allocates.
EntryFor(r) == IF entries[UserOf[r]] = NoEntry THEN r ELSE entries[UserOf[r]]

\* A fresh entry starts at zero.
ActiveFor(r) == IF entries[UserOf[r]] = NoEntry THEN 0 ELSE active[EntryFor(r)]

RefuseGlobal(r) ==
    /\ lease[r] = "none"
    /\ GlobalFull
    /\ lease' = [lease EXCEPT ![r] = "refused"]
    /\ UNCHANGED <<globalLimit, perUserLimit, globalActive, entries, active, leaseEntry>>

\* The entry stays in the map although the search is refused.
RefuseUser(r) ==
    /\ lease[r] = "none"
    /\ ~GlobalFull
    /\ ActiveFor(r) >= perUserLimit
    /\ entries' = [entries EXCEPT ![UserOf[r]] = EntryFor(r)]
    /\ active' = [active EXCEPT ![EntryFor(r)] = ActiveFor(r)]
    /\ lease' = [lease EXCEPT ![r] = "refused"]
    /\ UNCHANGED <<globalLimit, perUserLimit, globalActive, leaseEntry>>

Grant(r) ==
    /\ lease[r] = "none"
    /\ ~GlobalFull
    /\ ActiveFor(r) < perUserLimit
    /\ globalActive' = globalActive + 1
    /\ entries' = [entries EXCEPT ![UserOf[r]] = EntryFor(r)]
    /\ active' = [active EXCEPT ![EntryFor(r)] = ActiveFor(r) + 1]
    /\ lease' = [lease EXCEPT ![r] = "held"]
    /\ leaseEntry' = [leaseEntry EXCEPT ![r] = EntryFor(r)]
    /\ UNCHANGED <<globalLimit, perUserLimit>>

TryAcquire(r) == RefuseGlobal(r) \/ RefuseUser(r) \/ Grant(r)

-----------------------------------------------------------------------------
(* release, called by the middleware's defer and, for a failed call, by    *)
(* the usage middleware before it rolls the quota back.                    *)

\* Mutant: the global count is given back, the user's is not.
Release_GlobalOnly(r) ==
    /\ lease[r] = "held"
    /\ globalActive' = globalActive - 1
    /\ lease' = [lease EXCEPT ![r] = "released"]
    /\ UNCHANGED <<globalLimit, perUserLimit, entries, active, leaseEntry>>

\* The first call gives the slot back; sync.Once makes later calls idle.
Release(r) ==
    /\ lease[r] = "held"
    /\ globalActive' = globalActive - 1
    /\ active' = [active EXCEPT ![leaseEntry[r]] = @ - 1]
    /\ lease' = [lease EXCEPT ![r] = "released"]
    /\ UNCHANGED <<globalLimit, perUserLimit, entries, leaseEntry>>

-----------------------------------------------------------------------------

\* Applied to subsequent requests; active leases stay valid.
UpdateLimits(global, perUser) ==
    /\ ValidLimits(global, perUser)
    /\ globalLimit' = global
    /\ perUserLimit' = perUser
    /\ UNCHANGED <<globalActive, entries, active, lease, leaseEntry>>

\* An entry cleanupIdleEntries may delete once lastSeen is old enough.
Idle(u) == entries[u] # NoEntry /\ active[entries[u]] = 0

\* One pass of the cleanup: expired is the set of users seen too long ago.
CleanupIdleEntries(expired) ==
    /\ \E u \in expired : Idle(u)
    /\ entries' = [u \in Users |-> IF u \in expired /\ Idle(u) THEN NoEntry ELSE entries[u]]
    /\ UNCHANGED <<globalLimit, perUserLimit, globalActive, active, lease, leaseEntry>>

LimiterNext ==
    \/ \E r \in Requests : TryAcquire(r)
    \/ \E r \in Requests : Release(r)
    \/ \E global, perUser \in ConcurrencyLimits : UpdateLimits(global, perUser)
    \/ \E expired \in SUBSET Users : CleanupIdleEntries(expired)

LimiterSpec == LimiterInit /\ [][LimiterNext]_limiterVars

-----------------------------------------------------------------------------
(* Properties.                                                             *)

\* Counters never fall below zero and limits stay positive.
LimiterTypeOK ==
    /\ globalLimit \in Nat \ {0} /\ perUserLimit \in Nat \ {0}
    /\ globalActive \in Nat
    /\ entries \in [Users -> Requests \union {NoEntry}]
    /\ active \in [Requests -> Nat]
    /\ lease \in [Requests -> {"none", "held", "released", "refused"}]
    /\ leaseEntry \in [Requests -> Requests \union {NoEntry}]

\* The searches in flight, and those of one user.
Leases == {r \in Requests : lease[r] = "held"}

LeasesOf(u) == {r \in Leases : UserOf[r] = u}

\* The counters are exactly the leases not yet released, through every
\* interleaving of admissions, releases, limit changes and cleanups: a drift would
\* close the service for a user or for everybody until a restart.
CountersAreLeases ==
    /\ globalActive = Cardinality(Leases)
    /\ \A u \in Users : IF entries[u] = NoEntry THEN LeasesOf(u) = {}
                        ELSE active[entries[u]] = Cardinality(LeasesOf(u))

\* The cleanup never separates a lease from its user's entry: the pointer every
\* lease keeps is the one the map still holds.
LeasePointsToEntry ==
    \A r \in Leases : leaseEntry[r] = entries[UserOf[r]]

\* Two users never share an entry, because an entry is allocated by a request of
\* the user it is stored for.
EntryOwner ==
    \A u \in Users : entries[u] # NoEntry => UserOf[entries[u]] = u

\* The inductive invariant of the limiter: exact counters, leases that point to the
\* entries in the map, entries of one user each.
LimiterInv ==
    /\ LimiterTypeOK
    /\ CountersAreLeases
    /\ LeasePointsToEntry
    /\ EntryOwner

\* An admission leaves no more searches in flight than the limits in force, even
\* right after they were lowered below what is running.
AdmitsWithinLimits ==
    \A r \in Requests : lease[r] # "held" /\ lease'[r] = "held" =>
        /\ Cardinality(Leases') <= globalLimit
        /\ Cardinality(LeasesOf(UserOf[r])') <= perUserLimit

\* A search is refused only when as many searches as a limit allows are running.
RefusesOnlyWhenFull ==
    \A r \in Requests : lease[r] # "refused" /\ lease'[r] = "refused" =>
        \/ Cardinality(Leases) >= globalLimit
        \/ Cardinality(LeasesOf(UserOf[r])) >= perUserLimit

\* Both, of every step of the limiter.
LimiterDecides == [][AdmitsWithinLimits /\ RefusesOnlyWhenFull]_limiterVars

=============================================================================
