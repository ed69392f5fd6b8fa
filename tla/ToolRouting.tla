----------------------------- MODULE ToolRouting -----------------------------
(***************************************************************************)
(* Which tool a request calls, decided twice: by ExtractToolNameMiddleware *)
(* (usage/middleware.go), whose answer the limiter, the quota and the      *)
(* usage log go by, and later by the MCP library, which runs the tool.     *)
(* Both read the same body, behind the size limit of MaxBodyMiddleware.    *)
(*                                                                         *)
(* A body is a JSON object as the sequence of its fields, with its size;   *)
(* fields that take no part in routing are left out.  The library is       *)
(* external: it refuses what is not one JSON value, and of several fields  *)
(* with one name, in whatever spelling, it may take any.                   *)
(***************************************************************************)
EXTENDS Naturals, Sequences, SequencesExt

CONSTANTS
    Tools,          \* names of tools
    Bodies,         \* what clients send, a set of bodies
    MaxParseBody    \* maxParseBody, in a unit of size

NoTool == "no tool"

VARIABLES
    body,           \* the request body
    stage,          \* where the request is
    extracted,      \* the tool name in the request's context
    executed        \* the tool the library has run

routingVars == <<body, stage, extracted, executed>>

\* The spelling of a field and the name it is equal to when case is ignored.
Fold(name) == CASE name = "Method" -> "method" [] name = "Params" -> "params"
                [] name = "Name" -> "name" [] OTHER -> name

Field(name, value) == [name |-> name, value |-> value]
NotAnObject == <<Field("not an object", "")>>

\* The fields whose name equals this one when case is ignored.
Alike(fields, name) == {i \in DOMAIN fields : Fold(fields[i].name) = name}

\* The fields of a body, and those of its params, stand in an order.
ASSUME RoutingConstants ==
    /\ NoTool \notin Tools /\ MaxParseBody \in Nat \ {0}
    /\ \A b \in Bodies :
          /\ DOMAIN b.fields \subseteq Nat
          /\ \A i \in Alike(b.fields, "params") : DOMAIN b.fields[i].value \subseteq Nat

RoutingInit ==
    /\ body \in Bodies
    /\ stage = "arrived" /\ extracted = NoTool /\ executed = NoTool

-----------------------------------------------------------------------------
\* Mutant: the server accepts larger bodies than the inspection reads.
MaxBody_Larger == MaxParseBody + 1

\* MaxBodyMiddleware of the MCP chain: MaxPanelBodyBytes is the same mebibyte.
MaxBody == MaxParseBody

\* MaxBytesReader ends with an error once more than MaxBody was asked for.
ReadFails(size) == size > MaxBody /\ MaxParseBody + 1 > MaxBody

\* inspectCaseSensitiveJSONObject: a second field with the name, or one in another
\* spelling, is ambiguous.
Ambiguous(fields, names) ==
    \E name \in names : \E i \in Alike(fields, name) :
        fields[i].name # name \/ \E j \in Alike(fields, name) : j < i

\* The value of the field with exactly this name; the last one is kept.
Exact(fields, name) == LET is == {i \in DOMAIN fields : fields[i].name = name}
                       IN IF is = {} THEN {} ELSE {fields[Max(is)].value}

Rejected == [ambiguous |-> TRUE, tool |-> NoTool]
Named(tool) == [ambiguous |-> FALSE, tool |-> tool]

\* The tool of the params object.
InspectParams(params) ==
    IF params = NotAnObject THEN Named(NoTool)
    ELSE IF Ambiguous(params, {"name"}) THEN Rejected
    ELSE LET name == Exact(params, "name") \cap Tools
         IN Named(IF name = {} THEN NoTool ELSE CHOOSE t \in name : TRUE)

\* inspectJSONRPCRequest
InspectJSONRPCRequest(b) ==
    IF ReadFails(b.size) THEN Named(NoTool)
    ELSE IF b.batch THEN Rejected
    ELSE IF b.size > MaxParseBody \/ ~b.valid THEN Named(NoTool)
    ELSE IF Ambiguous(b.fields, {"method", "params"}) THEN Rejected
    ELSE IF Exact(b.fields, "method") # {"tools/call"} THEN Named(NoTool)
    ELSE LET params == Exact(b.fields, "params")
         IN IF params = {} THEN Named(NoTool) ELSE InspectParams(CHOOSE p \in params : TRUE)

\* ExtractToolNameMiddleware
Extract ==
    /\ stage = "arrived"
    /\ LET inspection == InspectJSONRPCRequest(body)
       IN /\ stage' = IF inspection.ambiguous THEN "refused" ELSE "passed"
          /\ extracted' = inspection.tool
    /\ UNCHANGED <<body, executed>>

\* The tools the library may take the body to call.
Calls(b) ==
    IF ReadFails(b.size) \/ ~b.valid \/ b.batch THEN {}
    ELSE {t \in Tools :
            /\ \E i \in Alike(b.fields, "method") : b.fields[i].value = "tools/call"
            /\ \E i \in Alike(b.fields, "params") :
                 LET params == b.fields[i].value
                 IN params # NotAnObject /\ \E j \in Alike(params, "name") : params[j].value = t}

\* The library runs a tool, or answers something else.
Serve ==
    /\ stage = "passed"
    /\ stage' = "served"
    /\ executed' \in Calls(body) \cup {NoTool}
    /\ UNCHANGED <<body, extracted>>

RoutingNext == Extract \/ Serve

RoutingSpec == RoutingInit /\ [][RoutingNext]_routingVars

-----------------------------------------------------------------------------
\* No tool runs past the limits: whatever a client writes twice, in another spelling,
\* in a batch or in a body that is too large to be inspected, the tool that runs is
\* the one the limiter, the quota and the usage log were told of; and a client that
\* writes each field once and exactly is never refused.
RoutingInv ==
    /\ executed # NoTool => executed = extracted
    /\ stage = "refused" =>
         \/ body.batch
         \/ \E name \in {"method", "params"} : \E i \in Alike(body.fields, name) :
              \/ body.fields[i].name # name \/ Alike(body.fields, name) # {i}
              \/ name = "params" /\ LET p == body.fields[i].value
                                    IN \E j \in Alike(p, "name") :
                                         p[j].name # "name" \/ Alike(p, "name") # {j}
=============================================================================
