---------------------------- MODULE MCUserLimiter ----------------------------
(* A small instance of UserLimiter: all users share one fallback bucket,   *)
(* and requests are numbers.                                               *)
EXTENDS UserLimiter

MCFallbackIndexOf == [u \in Users |-> CHOOSE b \in FallbackBuckets : TRUE]

\* Goroutines are interchangeable: a request takes the first that is idle.
NumberedOnArrival ==
    \A r \in Requests : req[r].pc = "idle" /\ req'[r].pc = "lock" =>
        \A q \in Requests : req[q].pc = "idle" => r <= q

\* Late requests are explored with one RPM, changing RPMs without delay.
OneEdge == maxLag = 0 \/ (clock <= 6 /\ \A r \in Requests : req[r].pc = "lock" => req[r].rpm = 1)
=============================================================================
