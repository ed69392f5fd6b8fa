------------------------------ MODULE MCAuthCache ------------------------------
(* A small instance of AuthCache for TLC: two requests with one key and a  *)
(* third with another, in the same of two shards.  Requests are numbers.   *)
EXTENDS AuthCache

CONSTANTS h1, h2, s1, s2

MCHashOf == [r \in Requests |-> IF r < 3 THEN h1 ELSE h2]
MCShardOf == [h \in Hashes |-> s1]

\* Requests with the same key are numbered in the order in which they begin, and
\* administrators in the order in which they write.
NumberedOnArrival ==
    /\ pc[2] = "new" /\ pc'[2] # "new" => pc[1] # "new"
    /\ admin[2] = "idle" /\ admin'[2] # "idle" => admin[1] # "idle"

\* The state space is explored along two edges: every way a load can end and Close,
\* without administrators; and administrators, with the requests of one key whose
\* loads succeed.
OneEdge ==
    \/ \A a \in Admins : admin[a] = "idle"
    \/ /\ pc[3] = "new" /\ closer = "open"
       /\ \A r \in Requests : {result[r], flightResult[r]} \subseteq {"none", "value"}
=============================================================================
