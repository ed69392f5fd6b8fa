----------------------------- MODULE MCSearchCall -----------------------------
(***************************************************************************)
(* A small instance of SearchCall for TLC: one call of one user, through   *)
(* the middlewares to an upstream of each protocol and back, while the     *)
(* server's settings change.                                               *)
(***************************************************************************)
EXTENDS SearchCall

CONSTANTS u1

MCUserOf == [r \in Requests |-> u1]

\* Two upstreams for chat, and one for each other protocol.
Server(url, key, model, protocol) == [url |-> url, key |-> key, model |-> model, protocol |-> protocol]

First == Server("first.example", "first key", "grok", "chat")
Second == Server("second.example", "second key", "grok", "chat")

MCSettings ==
    {First, Second, Server("first.example", "other key", "grok", "anthropic"),
     Server("second.example", "second key", "grok", "responses")}

\* A plain search, and requests at the limits of validation.
Plain == [query |-> TRUE, tool |-> "web_search", allowed |-> 0, excluded |-> 0, plainHosts |-> TRUE,
          model |-> ""]

MCSearchRequests ==
    {Plain}
        \union {[Plain EXCEPT !.query = FALSE], [Plain EXCEPT !.tool = "other"],
                [Plain EXCEPT !.model = "else"], [Plain EXCEPT !.model = "grok", !.tool = "x_search"]}
        \union {[Plain EXCEPT !.allowed = n, !.excluded = m, !.plainHosts = h, !.tool = t] :
                    n, m \in 0..2, h \in BOOLEAN, t \in {"web_search", "x_search"}}

MCInit ==
    /\ CallInit
    /\ globalLimit = 1 /\ successPeriod = [u \in Users |-> 1]
    /\ ~debug
    /\ settings # Second

MCSpec == MCInit /\ [][CallNext]_callVars /\ CallFairness

\* The call has an allowance of one.
OneCall == quota'[Caller] # "none" => reqLimit'[Caller] = 1

\* The settings change once, between two requests to the upstream, and only a plain
\* search is followed through the response: the parsers never look at the request.
\* Comments come first or fourth.
SearchBounds ==
    /\ settings' # settings => settings = First /\ settings' = Second /\ phase = "post"
    /\ Len(body') > Len(body) /\ Last(body') = Comment => Len(body) \in {0, 3}
    /\ body' # <<>> => wire.tool = "web_search" /\ wire.scope.allowed + wire.scope.blocked = 0

\* The handler of a plain search returns early before the response or at its first event.
\* The chain never looks at the search again, which therefore goes on when the chain is
\* done, and reads no more than one event.
EarlyBounds ==
    /\ told' # told /\ told' # "result" =>
         Len(body) <= 1 /\ wire.scope.allowed + wire.scope.blocked = 0
    /\ told # "pending" /\ (searchVars' # searchVars \/ marker' # marker) =>
         pc[Caller] = "done" /\ settings' = settings /\ Len(body') <= 1
=============================================================================
