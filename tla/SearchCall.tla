------------------------------ MODULE SearchCall ------------------------------
(***************************************************************************)
(* A search tool's call from the middlewares to the upstream and back: the *)
(* request pipeline around one search, whose end is what the tool marks,   *)
(* answers and is charged for.                                             *)
(***************************************************************************)
EXTENDS McpRequest, GrokSearch

CONSTANT Caller     \* the request whose tool is the search

ASSUME CallAssumption == Caller \in Requests

VARIABLES
    marker,     \* ToolOutcomeMarker of the call
    told,       \* history: what the MCP handler returned with
    seen        \* history: the marker the usage middleware then read

outcomeVars == <<marker, told, seen>>

callVars == <<mcpVars, searchVars, outcomeVars>>

CallInit ==
    /\ McpInit /\ SearchInit
    /\ marker = "unknown" /\ told = "pending" /\ seen = "unknown"

\* runSearch is a goroutine of the SDK's: it runs beside the handler that waits for it,
\* and goes on after a handler that did not wait.
Search(A) ==
    /\ pc[Caller] = "tool" \/ told # "pending"
    /\ A
    /\ UNCHANGED <<mcpVars, outcomeVars>>

\* Mutant: the outcome is marked before the search is known to have worked.
ToolOutcome_Early == "success"

\* The marker runSearch leaves and the kind of result it hands to the SDK.
ToolOutcome == IF result.ok THEN "success" ELSE "error"

\* MarkToolOutcome, whether or not anyone still waits for the result.
MarkOutcome ==
    /\ phase = "ended" /\ marker = "unknown"
    /\ marker' = ToolOutcome
    /\ UNCHANGED <<mcpVars, searchVars, told, seen>>

\* The MCP handler returns to the usage middleware, which judges the call by what it
\* finds at that moment.
HandlerReturns(what, httpOK, bodyError) ==
    /\ ToolReturns(Caller, marker, httpOK, bodyError)
    /\ told' = what /\ seen' = marker
    /\ UNCHANGED <<searchVars, marker>>

\* The SDK writes what runSearch returned.
SearchReturns == marker # "unknown" /\ HandlerReturns("result", TRUE, ~result.ok)

\* The client is gone: the SDK's handler returns and leaves the response as it is, which
\* for a recorder nobody wrote to is 200 and no error.  The search may not have begun,
\* may be running, or may just have ended.
LeavesEarly == HandlerReturns("nothing", TRUE, FALSE)

\* The SDK answers with an error of its own: a status, or a JSON-RPC error under 200.
SDKRefuses == \E httpOK \in BOOLEAN : HandlerReturns("refusal", httpOK, TRUE)

\* The handler panics, wherever the search is.  (A panic on the goroutine of the search is
\* recovered by nobody and ends the process, which is QuotaCrash of SuccessQuota.)
HandlerPanics ==
    /\ ToolPanics(Caller)
    /\ told' = "panic" /\ seen' = marker
    /\ UNCHANGED <<searchVars, marker>>

\* A pipeline step of the caller's request that is not the tool's own.
OutsideTool ==
    /\ pc[Caller] # "tool"
    /\ RequestStep(Caller)
    /\ UNCHANGED <<searchVars, outcomeVars>>

CallNext ==
    \/ OutsideTool
    \/ Search(SearchNext)
    \/ MarkOutcome
    \/ SearchReturns \/ LeavesEarly \/ SDKRefuses \/ HandlerPanics

\* The middlewares and the tool go on when they can, and a POST gets its headers or
\* fails: dialling, handshake and the wait for headers are timed.  The response is not,
\* and nobody has to leave early.
Starts == pc[Caller] = "tool" /\ Search(\E req \in SearchRequests : StartSearch(req))

CallFairness ==
    /\ WF_callVars(OutsideTool \/ Starts \/ MarkOutcome \/ SearchReturns)
    /\ WF_callVars(Search(Posts))

CallSpec == CallInit /\ [][CallNext]_callVars /\ CallFairness

-----------------------------------------------------------------------------
(* Properties.                                                             *)

\* What a charge stands for: an answer the upstream had finished when the handler
\* returned, or a client that went away while nobody knew how the search would end.
Deserved == (seen = "success" /\ result.ok) \/ (told = "nothing" /\ seen = "unknown")

\* Nobody pays for a search that failed, for a refusal or for a panic, and whoever got an
\* answer has paid: a call is charged or logged as a success only for a finished answer
\* or when its client did not stay to be told (then the middleware has only the untouched
\* response to go by), and a delivered answer is logged and never given back.
ChargedForAnswers ==
    pc[Caller] \in {"leaving", "done"} /\ told # "pending" =>
        /\ record[Caller] = "success" \/ quota[Caller] = "kept" => Deserved
        /\ told = "result" /\ result.ok => record[Caller] = "success" /\ quota[Caller] # "rolledBack"

\* Once its tool runs, a call ends with everything given back, as long as the upstream
\* keeps doing anything at all, sending included: only an upstream that neither sends
\* nor closes, before a caller that never gives up, keeps a call open.
CallEnds == WF_searchVars(Responds) => (pc[Caller] = "tool" ~> pc[Caller] = "done")

=============================================================================
