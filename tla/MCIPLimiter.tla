----------------------------- MODULE MCIPLimiter -----------------------------
(* A small instance of IPLimiter: addresses are numbers, spread over the   *)
(* shards by their remainder, and so are requests.                         *)
EXTENDS IPLimiter

MCShardOf == [a \in Addresses |-> a % ShardCount]
MCFallbackIndexOf == [a \in Addresses |-> CHOOSE b \in FallbackLimiters : TRUE]

\* Goroutines are interchangeable: a request takes the first that is idle.
NumberedOnArrival ==
    \A r \in Requests : req[r].pc = "idle" /\ req'[r].pc = "lock" =>
        \A q \in Requests : req[q].pc = "idle" => r <= q

\* Late requests come one at a time, few, and to every shard; punctual ones overlap
\* and all come to shard 0.
OneEdge ==
    IF maxLag = 0
    THEN /\ clock <= 7
         /\ \A r \in Requests : req[r].pc = "lock" => ShardOf[req[r].addr] = 0
    ELSE /\ \A r \in Requests \ {1} : req[r].pc = "idle"
         /\ \A a \in Addresses : meter[a] <= Minute
=============================================================================
