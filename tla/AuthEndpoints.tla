---------------------------- MODULE AuthEndpoints ----------------------------
(***************************************************************************)
(* The token buckets in front of one public endpoint of the panel          *)
(* (RateLimitAuthEndpoint and allowAuthRequest in panel/auth_protector.go):*)
(* a bounded table of buckets by client address with an idle time, shared  *)
(* buckets when it is full, and a reservation that is taken from a bucket  *)
(* and cancelled when the request would have to wait.                      *)
(*                                                                         *)
(* A request reads the clock before the protector's mutex and works on its *)
(* bucket after it; ReserveN and CancelAt are two calls, and other         *)
(* requests may come between them.  The endpoints have tables of their own *)
(* and are swept together; one of them is modelled.                        *)
(***************************************************************************)
EXTENDS ClientAddress, Integers, FiniteSets

CONSTANTS
    Callers,            \* requests in flight
    Arrivals,           \* what reaches a server: its ClientIPMode, the client's host
                        \* and the request
    SharedBuckets,      \* fallbackLimiters
    SharedOf,           \* [Hosts -> SharedBuckets]: fallbackBucketIndexFor
    Token,              \* parts of a token; one tick refills Rate parts
    Rate, BurstTokens,  \* limitConfig
    IdleTTL,            \* authRateLimiterIdleTTL
    SweepInterval,      \* authProtectorCleanupInterval
    MaximumAddresses,   \* maximumEntries
    EndTime             \* bound on the clock

BurstParts == BurstTokens * Token

\* Within the idle time, 30 minutes, a request ends twice over, and a bucket refills two
\* bursts: a burst is what one minute refills.
ASSUME EndpointConstants ==
    /\ {Token, Rate, BurstTokens, IdleTTL, SweepInterval, MaximumAddresses} \subseteq Nat \ {0}
    /\ SharedOf \in [Hosts -> SharedBuckets]
    /\ IdleTTL > 2 /\ 2 * BurstParts <= IdleTTL * Rate

\* A client reaches the server by its own address, or through a proxy that replaces one
\* of the two headers.
ASSUME ArrivalsAssumption ==
    \A x \in Arrivals :
        /\ x.host \in Hosts
        /\ \/ x.request.peer.host = x.host
           \/ /\ x.net = "trusted_proxy" /\ x.request.peer.host \in Proxies
              /\ LET seen == Text(x.host, "plain")
                 IN  x.request.realIP = <<seen>> \/ x.request.forwardedFor = << <<seen>> >>

VARIABLES
    ipMode,             \* GROK_CLIENT_IP_MODE
    lagBound,           \* the longest time between reading the clock and leaving
    time,               \* the clock
    dedicated,          \* endpointState.entries
    shared,             \* endpointState.fallbackLimiters
    nextExpiry,         \* endpointState.nextExpiryCheck, 0 for the zero time
    lastSweep,          \* lastCleanup
    call,               \* [Callers -> what the request holds]
    hostMeter,          \* history: grants of a host beyond what the rate refills
    sharedMeter         \* history: the same of a shared bucket

endpointVars == <<ipMode, lagBound, time, dedicated, shared, nextExpiry, lastSweep, call,
                  hostMeter, sharedMeter>>

IpModes == {"direct", "trusted_proxy"}

Free == [pc |-> "free"]

-----------------------------------------------------------------------------
(* golang.org/x/time/rate.  External.  Points in time that are not ticks   *)
(* are counted in parts: tick t is the point t * Rate.                     *)

NewLimiter == [parts |-> BurstParts, last |-> 0, event |-> 0]

\* advance
PartsIn(bucket, t) ==
    LET last == IF t < bucket.last THEN t ELSE bucket.last
        refilled == bucket.parts + (t - last) * Rate
    IN  IF refilled < BurstParts THEN refilled ELSE BurstParts

\* ReserveN(t, 1): the bucket goes into debt and the point at which it is out of it.
Left(bucket, t) == PartsIn(bucket, t) - Token
ActAt(bucket, t) == t * Rate + (IF Left(bucket, t) < 0 THEN -Left(bucket, t) ELSE 0)
ReserveN(bucket, t) == [parts |-> Left(bucket, t), last |-> t, event |-> ActAt(bucket, t)]

\* CancelAt(t) of a reservation for the point act: what was reserved after it is not
\* given back.
CancelAt(bucket, act, t) ==
    LET restored == Token - (bucket.event - act)
        parts == PartsIn(bucket, t) + restored
    IN  IF restored <= 0 THEN bucket
        ELSE [parts |-> IF parts < BurstParts THEN parts ELSE BurstParts, last |-> t,
              event |-> IF act = bucket.event /\ act - Token >= t * Rate THEN act - Token
                        ELSE bucket.event]

-----------------------------------------------------------------------------
EndpointInit ==
    /\ ipMode \in IpModes
    /\ lagBound \in 0 .. 1
    /\ time = 1
    /\ dedicated = [a \in {} |-> NewLimiter]
    /\ shared = [b \in SharedBuckets |-> NewLimiter]
    /\ nextExpiry = 0
    /\ lastSweep = 1
    /\ call = [c \in Callers |-> Free]
    /\ hostMeter = [h \in Hosts |-> 0]
    /\ sharedMeter = [b \in SharedBuckets |-> 0]

\* clientIPForProtection: the hosts of the arrivals and the addresses found for them.
Identified ==
    {[net |-> x.net, host |-> x.host, address |-> ResolveAddress(x.net, x.request)] : x \in Arrivals}

\* RateLimitAuthEndpoint: a request without an identity is refused with 400 or 403;
\* allowAuthRequest reads the time.
EnterEndpoint(c) ==
    /\ call[c].pc = "free"
    /\ \E identity \in Identified :
          /\ identity.net = ipMode /\ identity.address \notin {Invalid, Untrusted}
          /\ call' = [call EXCEPT ![c] = [pc |-> "lock", host |-> identity.host,
                                          address |-> identity.address, now |-> time]]
    /\ UNCHANGED <<ipMode, lagBound, time, dedicated, shared, nextExpiry, lastSweep,
                   hostMeter, sharedMeter>>

ExpiryOf(entry) == entry.lastSeen + IdleTTL

Soonest(times) == IF times = {} THEN 0 ELSE CHOOSE t \in times : \A u \in times : t <= u

\* cleanupEndpointLimitersLocked
SweptAt(table, now) ==
    [a \in {x \in DOMAIN table : ExpiryOf(table[x]) > now} |-> table[a]]
NextExpiryOf(table) == Soonest({ExpiryOf(table[a]) : a \in DOMAIN table})

Swept(w, now) == LET left == SweptAt(w.table, now) IN [table |-> left, next |-> NextExpiryOf(left)]

\* cleanupLocked: once in an interval.
SweepDueAt(now) == now - lastSweep >= SweepInterval
AfterSweep(now) == LET w == [table |-> dedicated, next |-> nextExpiry]
                   IN IF SweepDueAt(now) THEN Swept(w, now) ELSE w

ShouldSweep(next, now) == next = 0 \/ now >= next

\* A newcomer sweeps a full table when an entry can have expired.
RoomFor(w, address, now) ==
    IF /\ address \notin DOMAIN w.table
       /\ Cardinality(DOMAIN w.table) >= MaximumAddresses
       /\ ShouldSweep(w.next, now)
    THEN Swept(w, now) ELSE w

\* allowAuthRequest under the mutex: which bucket the request may ask.
FindBucket(c) ==
    LET a == call[c].address
        now == call[c].now
        w == RoomFor(AfterSweep(now), a, now)
        known == a \in DOMAIN w.table
        room == known \/ Cardinality(DOMAIN w.table) < MaximumAddresses
        entry == [bucket |-> IF known THEN w.table[a].bucket ELSE NewLimiter, lastSeen |-> now]
        expiry == now + IdleTTL
    IN  /\ call[c].pc = "lock"
        /\ lastSweep' = IF SweepDueAt(now) THEN now ELSE lastSweep
        /\ dedicated' = IF room THEN [x \in DOMAIN w.table \cup {a} |->
                                        IF x = a THEN entry ELSE w.table[x]]
                        ELSE w.table
        /\ nextExpiry' = IF room /\ ~known /\ (w.next = 0 \/ expiry < w.next) THEN expiry
                         ELSE w.next
        /\ call' = [call EXCEPT ![c] = [pc |-> "reserve", host |-> @.host, address |-> a, now |-> now,
                                        own |-> room]]
        /\ UNCHANGED <<ipMode, lagBound, time, shared, hostMeter, sharedMeter>>

\* The bucket the request holds a pointer to.
BucketOf(c) == IF call[c].own THEN dedicated[call[c].address].bucket
               ELSE shared[SharedOf[call[c].address]]

SetBucket(c, bucket) ==
    IF call[c].own
    THEN dedicated' = [dedicated EXCEPT ![call[c].address].bucket = bucket] /\ UNCHANGED shared
    ELSE shared' = [shared EXCEPT ![SharedOf[call[c].address]] = bucket] /\ UNCHANGED dedicated

\* reserveAuthRequest: the request goes on when it need not wait.
Reserve(c) ==
    LET now == call[c].now
        act == ActAt(BucketOf(c), now)
        granted == act <= now * Rate
    IN  /\ call[c].pc = "reserve"
        /\ SetBucket(c, ReserveN(BucketOf(c), now))
        /\ call' = [call EXCEPT ![c] =
              IF granted THEN Free
              ELSE [pc |-> "cancel", host |-> @.host, address |-> @.address, now |-> now,
                    own |-> @.own, act |-> act]]
        /\ hostMeter' = [hostMeter EXCEPT ![call[c].host] = IF granted THEN @ + Token ELSE @]
        /\ sharedMeter' = [b \in SharedBuckets |->
              IF granted /\ ~call[c].own /\ b = SharedOf[call[c].address]
              THEN sharedMeter[b] + Token ELSE sharedMeter[b]]
        /\ UNCHANGED <<ipMode, lagBound, time, nextExpiry, lastSweep>>

\* The reservation is given back and the request answered with 429.
CancelReservation(c) ==
    /\ call[c].pc = "cancel"
    /\ SetBucket(c, CancelAt(BucketOf(c), call[c].act, call[c].now))
    /\ call' = [call EXCEPT ![c] = Free]
    /\ UNCHANGED <<ipMode, lagBound, time, nextExpiry, lastSweep, hostMeter, sharedMeter>>

Less(meter) == IF meter <= Rate THEN 0 ELSE meter - Rate

\* Time passes; a request in flight ends within lagBound.
TimePasses ==
    /\ time < EndTime
    /\ \A c \in Callers : call[c].pc # "free" => time < call[c].now + lagBound
    /\ time' = time + 1
    /\ hostMeter' = [h \in Hosts |-> Less(hostMeter[h])]
    /\ sharedMeter' = [b \in SharedBuckets |-> Less(sharedMeter[b])]
    /\ UNCHANGED <<ipMode, lagBound, dedicated, shared, nextExpiry, lastSweep, call>>

EndpointNext ==
    \/ \E c \in Callers : EnterEndpoint(c) \/ FindBucket(c) \/ Reserve(c) \/ CancelReservation(c)
    \/ TimePasses

EndpointSpec == EndpointInit /\ [][EndpointNext]_endpointVars

-----------------------------------------------------------------------------
(* Properties *)

\* ADVANCE_README: live dedicated buckets are never evicted to admit new identities.
\* The table keeps its bound, and a bucket stays in it while a request is to use it.
LiveBucketsStay ==
    /\ Cardinality(DOMAIN dedicated) <= MaximumAddresses
    /\ \A c \in Callers : call[c].pc \in {"reserve", "cancel"} /\ call[c].own
                            => call[c].address \in DOMAIN dedicated

\* A full table is not looked through before nextExpiryCheck.  No entry expires
\* earlier, except one whose lastSeen a request with an older time has set back,
\* and that by no more than the request was late.
ExpirySeenInTime ==
    \A a \in DOMAIN dedicated :
        0 < nextExpiry /\ nextExpiry <= ExpiryOf(dedicated[a]) + lagBound

\* A client that moves between its own and a shared bucket, whatever it writes into
\* its headers, is never granted more than two bursts beyond the refill of any window,
\* and the clients of a shared bucket one burst together.  Refused requests give
\* back at most what they took.  Requests reach their bucket within the tick: for an
\* older time the library refills again.
ClientRateBounded ==
    lagBound = 0 =>
        /\ \A h \in Hosts : hostMeter[h] <= 2 * BurstParts
        /\ \A b \in SharedBuckets : sharedMeter[b] <= BurstParts

\* A request is counted under the host it came from, whichever headers it claims.
CountedAsItself == \A c \in Callers : call[c].pc # "free" => call[c].address = call[c].host

\* The endpoint's table and rates at every step.
EndpointInv == LiveBucketsStay /\ ExpirySeenInTime /\ ClientRateBounded /\ CountedAsItself
=============================================================================
