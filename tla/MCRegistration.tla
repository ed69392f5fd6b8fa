--------------------------- MODULE MCRegistration ---------------------------
(* Small instances for TLC of Registration, of AuthEndpoints, the buckets  *)
(* in front of it, and of RecordPages, the lists of what it creates; a     *)
(* behaviour explores one of them.  Requests and challenges are numbers.   *)
EXTENDS Registration, AuthEndpoints, RecordPages, TLC

CONSTANTS n1, p1, s1

VARIABLE part   \* what a behaviour explores

allVars == <<regVars, endpointVars, pagesVars, part>>

Absent(r) == [challenge |-> 3, username |-> n1, code |-> NoCode]

PartInit ==
  /\ part \in {"registration", "endpoints", "pages"}
  /\ RegInit /\ EndpointInit /\ PagesInit
  /\ part # "registration" => mode = "disabled" /\ form = [r \in Requests |-> Absent(r)]
  \* One server takes addresses from its peers, and its requests may be delayed; one
  \* stands behind a proxy.
  /\ (ipMode = "direct") <=> (lagBound = 1)
  /\ part # "endpoints" => ipMode = "direct"
  /\ part # "pages" => direction = "ascending"

PartNext ==
  \/ part = "registration" /\ RegNext /\ UNCHANGED <<endpointVars, pagesVars, part>>
  \/ part = "endpoints" /\ EndpointNext /\ UNCHANGED <<regVars, pagesVars, part>>
  \/ part = "pages" /\ PagesNext /\ UNCHANGED <<regVars, endpointVars, part>>

PartSpec == PartInit /\ [][PartNext]_allVars

-----------------------------------------------------------------------------
\* What clients write into the headers: any host in any style, chains of two and three
\* hops, broken chains, and lines given twice.
Claimed == {Text(h, f) : h \in Hosts, f \in Styles}
Chains ==
  {<<t>> : t \in Claimed}
  \cup {<<Text(h, "plain"), Text(p1, "port")>> : h \in Hosts}
  \cup {<<Text(h, "plain"), Text(h, "junk")>> : h \in Hosts}
  \cup {[i \in 1 .. MaximumForwardedHops + 1 |-> Text(h, "plain")] : h \in Hosts}
Lines(values) == {<<>>} \cup {<<v>> : v \in values} \cup {<<v, v>> : v \in values}

AllArrivals ==
  {[net |-> m, host |-> h, request |-> Direct(h, f, r, x)] :
     m \in IpModes, h \in Hosts, f \in {"port", "mapped", "zoned"},
     r \in Lines(Claimed), x \in Lines(Chains)}
  \cup {[net |-> "trusted_proxy", host |-> h, request |-> ThroughProxy(p1, h, k, r, x)] :
           h \in Hosts, k \in (SUBSET {"X-Real-IP", "X-Forwarded-For"}) \ {{}},
           r \in Lines(Claimed), x \in Lines(Chains)}

OneShared == [h \in Hosts |-> s1]

\* Hosts and callers are interchangeable.
EndpointSymmetry == Permutations(Hosts) \cup Permutations(Callers)

\* Refused requests that overlap leave a bucket in debt: by at most one token here.
SmallDebt ==
  /\ \A b \in SharedBuckets : shared[b].parts >= -Token
  /\ \A a \in DOMAIN dedicated : dedicated[a].bucket.parts >= -Token

-----------------------------------------------------------------------------

\* Requests are numbered in the order in which they start, challenges in the order in
\* which they are issued.
NumberedOnArrival ==
  /\ \A q, r \in Requests : q < r /\ pc[r] = "idle" /\ pc'[r] # "idle" => pc[q] # "idle"
  /\ \A b, c \in Challenges : b < c /\ expires[c] = 0 /\ expires'[c] > 0 => expires[b] > 0

\* The state space is explored along two edges.  Policy: two requests with two
\* challenges, while administrators change mode and codes and the clock stands still.
PolicyEdge ==
  /\ clock = 1 /\ expires[3] = 0 /\ pc[3] = "idle"
  /\ form[3] = [challenge |-> 3, username |-> n1, code |-> NoCode]

\* Replay: three requests up to their lookup, around the expiry of three challenges.
ReplayEdge ==
  /\ mode = "free" /\ \A k \in Codes : codes[k].state = "absent"
  /\ \A r \in Requests : /\ form[r].username = n1 /\ form[r].code = NoCode
                         /\ pc[r] \in {"idle", "verify", "consume", "lookup", "refused"}

OneEdge == (PolicyEdge \/ ReplayEdge) /\ SmallDebt
=============================================================================
