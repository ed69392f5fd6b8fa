----------------------------- MODULE MCMcpRequest -----------------------------
(***************************************************************************)
(* A small instance of McpRequest for TLC.  A behaviour explores the chain *)
(* with two requests, two searches or a search and a listing, or one of    *)
(* its two components alone with more of them: there the component is      *)
(* called in every order, also in orders the chain never produces.  Or it  *)
(* explores what the chain decides from bytes: the tool a body calls       *)
(* (ToolRouting) and what a response is recorded as (CallRecorder).        *)
(***************************************************************************)
EXTENDS McpRequest, ToolRouting, CallRecorder

CONSTANTS u1, u2

VARIABLE part   \* what a behaviour explores

\* Requests are numbers; the first three are of one user.
MCUserOf == [r \in Requests |-> IF r < 4 THEN u1 ELSE u2]

\* The requests of each part.
Callers == [searches |-> {1, 2}, mixed |-> {1, 3}, limiter |-> {1, 2, 3, 4}, quota |-> {1, 2, 3},
            routing |-> {}, recorder |-> {}]

Chain == {"searches", "mixed"}

-----------------------------------------------------------------------------
\* Bodies with up to three routing fields, and with two names among the params.
Fields(names, values) == {Field(n, v) : n \in names, v \in values}
Names == Fields({"name", "Name"}, Tools \cup {"no string"})
Params(n) == {NotAnObject} \cup UNION {[1 .. k -> Names] : k \in 0 .. n}
Envelope(n) == Fields({"method", "Method"}, {"tools/call", "ping"})
                 \cup Fields({"params", "Params"}, Params(n))

EmptyBody == [fields |-> <<>>, valid |-> TRUE, size |-> 1, batch |-> FALSE]

MCBodies ==
    LET fields == UNION {[1 .. k -> Envelope(1)] : k \in 0 .. 3} \cup [1 .. 2 -> Envelope(2)]
        call == <<Field("method", "tools/call"), Field("params", <<Field("name", "web_search")>>)>>
    IN {[EmptyBody EXCEPT !.fields = f] : f \in fields}
       \cup {[fields |-> call, valid |-> v, size |-> n, batch |-> b] : v, b \in BOOLEAN, n \in 1 .. MaxParseBody + 2}
-----------------------------------------------------------------------------

usageRest == <<pc, debug, usageVars>>

NothingToRoute ==
    body = EmptyBody /\ stage = "arrived" /\ extracted = NoTool /\ executed = NoTool

MCInit ==
    /\ McpInit
    /\ part \in DOMAIN Callers
    /\ part # "quota" => successPeriod = [u \in Users |-> 1]
    /\ part \notin Chain => ~debug
    /\ part \in Chain => globalLimit <= 2
    /\ part \notin Chain \cup {"limiter"} => globalLimit = 1
    /\ IF part = "routing" THEN RoutingInit ELSE NothingToRoute
    /\ RecorderInit

bytesVars == <<routingVars, recorderVars>>

ChainStep(r) ==
    part \in Chain /\ r \in Callers[part] /\ RequestStep(r) /\ UNCHANGED <<bytesVars, part>>

LimiterAlone(A) == part = "limiter" /\ A /\ UNCHANGED <<quotaVars, usageRest, bytesVars, part>>

MCNext ==
    \/ \E r \in Requests : ChainStep(r)
    \/ /\ part \in Chain /\ (ToggleDebug \/ LimiterBackground \/ QuotaBackground)
       /\ UNCHANGED <<bytesVars, part>>
    \/ LimiterAlone(LimiterNext)
    \/ part = "quota" /\ QuotaNext /\ UNCHANGED <<limiterVars, usageRest, bytesVars, part>>
    \/ part = "routing" /\ RoutingNext /\ UNCHANGED <<mcpVars, recorderVars, part>>
    \/ part = "recorder" /\ RecorderNext /\ UNCHANGED <<mcpVars, routingVars, part>>

allVars == <<mcpVars, bytesVars, part>>

\* The fairness of McpFairSpec; alone, the limiter still sees every deferred release.
MCSpec ==
    /\ MCInit /\ [][MCNext]_allVars
    /\ \A r \in Requests : WF_allVars(pc[r] # "tool" /\ ChainStep(r))
    /\ \A r \in Requests : WF_allVars(LimiterAlone(Release(r)))

\* Requests of a part begin in the order of their numbers where they are alike, and
\* the other requests never do.
Interchangeable == IF part = "mixed" THEN {} ELSE {1, 2, 3}

Begun(r) == lease[r] # "none" \/ quota[r] # "none"

NumberedOnArrival ==
    \A r \in Requests : ~Begun(r) /\ Begun(r)' =>
        /\ r \in Callers[part]
        /\ \A q \in Interchangeable : q < r /\ r \in Interchangeable => Begun(q)

\* The chain stays in one month, under limits of at most two searches and an
\* allowance of one successful call; nothing happens
\* to the second user where the requests are of the first.
PartBounds ==
    /\ part \in Chain =>
           /\ now' = now /\ globalLimit' <= 2
           /\ \A r \in Requests : quota'[r] # "none" => reqLimit'[r] = 1
    /\ part # "limiter" => u2 \in exists'
=============================================================================
