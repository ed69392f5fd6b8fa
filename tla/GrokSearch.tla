------------------------------ MODULE GrokSearch ------------------------------
(***************************************************************************)
(* One search of the upstream client (internal/grok) on behalf of a search *)
(* tool (internal/mcp/tools.go).                                           *)
(*                                                                         *)
(* A search copies the client's settings once, checks the request, posts   *)
(* it and reads the response: an event stream or one JSON value, in one of *)
(* three protocols.  A chat answer that only announces work is sent back   *)
(* for continuation, at most MaxContinuations times.  The upstream is      *)
(* external: it sends what it likes, stops or breaks off anywhere.         *)
(* Searches share nothing but the settings, so one search, overtaken by    *)
(* changes of the settings, stands for all of them.                        *)
(*                                                                         *)
(* An event is one unit of a response's size and a text piece one unit of  *)
(* an answer's; trimming of blanks, the wording of errors and the byte     *)
(* limits of a single event and of the citations are left out.             *)
(***************************************************************************)
EXTENDS Naturals, FiniteSets, Sequences, SequencesExt

CONSTANTS
    Settings,           \* the server settings that may be applied
    SearchRequests,     \* the search requests a tool may be called with
    Pieces,             \* pieces of answer text
    Announcements,      \* those that announce work: "searching for ..."
    MaxResponse,        \* maxUpstreamResponseBytes
    MaxEvents,          \* maxSSEEventCount
    MaxRounds,          \* maxSearchRoundCount
    MaxAnswer,          \* maxAggregatedAnswerBytes
    MaxCitations,       \* maxCitationCount
    ShortAnswer,        \* the longest answer that may be an announcement
    MaxContinuations,   \* maxChatContinuationAttempts
    MaxDomains          \* domains in one filter

ASSUME SearchAssumption ==
    /\ Settings \subseteq [url : STRING, key : STRING, model : STRING,
                           protocol : {"responses", "chat", "anthropic"}]
    /\ SearchRequests \subseteq [query : BOOLEAN, tool : STRING, model : STRING, allowed : Nat,
                                excluded : Nat, plainHosts : BOOLEAN]
    /\ Announcements \subseteq Pieces
    /\ {MaxResponse, MaxEvents, MaxRounds, MaxAnswer, MaxCitations, ShortAnswer,
        MaxContinuations, MaxDomains} \subseteq Nat

VARIABLES
    settings,   \* the fields of Client that a save replaces together
    snap,       \* clientSnapshot of the search
    wire,       \* the request the search sends
    phase,      \* where the search is
    attempt,    \* continuations so far
    posts,      \* where each POST went, with which key
    refused,    \* the upstream answers the current POST with an error status
    body,       \* what it has sent of that answer
    parser,     \* what the parser has made of it
    tokens,     \* accumulatedUsage
    progress,   \* notifications sent to the MCP client
    result      \* what SearchStream returns

wireVars == <<snap, wire, attempt, posts>>
answerVars == <<refused, body, parser, tokens, progress>>
searchVars == <<settings, wireVars, phase, answerVars, result>>

-----------------------------------------------------------------------------
(* What the upstream sends (external).                                     *)

\* A line "data: {...}" of an event stream; Bare is the same JSON on its own.
Message == [kind |-> "message", framed |-> TRUE, key |-> 0, text |-> <<>>, cites |-> <<>>,
            usage |-> [in |-> 0, out |-> 0], terminal |-> FALSE]

Comment == [Message EXCEPT !.kind = "comment"]
Junk == [Message EXCEPT !.kind = "junk"]
StreamError == [Message EXCEPT !.kind = "error"]
Done == [Message EXCEPT !.kind = "done"]
Round(key) == [Message EXCEPT !.kind = "item", !.key = key]
Says(text) == [Message EXCEPT !.text = text]
Cites(urls) == [Message EXCEPT !.cites = urls]
Reports(in, out) == [Message EXCEPT !.usage = [in |-> in, out |-> out]]
Terminal(e) == [e EXCEPT !.terminal = TRUE]
Bare(e) == [e EXCEPT !.framed = FALSE]

-----------------------------------------------------------------------------
(* The request.                                                            *)

\* validateSearchRequest with normalizeDomainFilters, and resolveSearchModel.
ValidSearchRequest(req, default) ==
    /\ req.query
    /\ req.tool \in {"web_search", "x_search"}
    /\ req.tool = "web_search" =>
           /\ req.allowed = 0 \/ req.excluded = 0
           /\ req.allowed <= MaxDomains /\ req.excluded <= MaxDomains
           /\ req.allowed + req.excluded > 0 => req.plainHosts
    /\ "grok" \in {req.model, IF req.model = "" THEN default ELSE ""}

\* Where the upstream may search, in the words of each protocol.
ResponsesScope(req) ==
    IF req.tool = "web_search" THEN [source |-> "web", allowed |-> req.allowed, blocked |-> req.excluded]
    ELSE [source |-> "x", allowed |-> 0, blocked |-> 0]

ChatScope(req) ==
    IF req.tool = "web_search" THEN [source |-> "web", allowed |-> req.allowed, blocked |-> req.excluded]
    ELSE [source |-> "x", allowed |-> 0, blocked |-> 0]

\* Anthropic has no tool for X: a web search limited to one host stands in.
AnthropicScope(req) ==
    IF req.tool = "web_search" THEN [source |-> "web", allowed |-> req.allowed, blocked |-> req.excluded]
    ELSE [source |-> "web limited to x.com", allowed |-> 0, blocked |-> 0]

UpstreamScope(protocol, req) ==
    CASE protocol = "responses" -> ResponsesScope(req)
      [] protocol = "chat"      -> ChatScope(req)
      [] protocol = "anthropic" -> AnthropicScope(req)

-----------------------------------------------------------------------------
(* The parsers.  A parser reads events one by one and stops at an error.   *)

NewParser == [events |-> 0, seen |-> {}, answer |-> <<>>, cites |-> {}, completed |-> <<>>,
              usage |-> [in |-> 0, out |-> 0], terminal |-> FALSE, failed |-> FALSE]

Failed(p) == [p EXCEPT !.failed = TRUE]

AppendAnswerText(p, text) ==
    IF Len(p.answer) + Len(text) > MaxAnswer THEN Failed(p) ELSE [p EXCEPT !.answer = @ \o text]

\* citationCollector.add: a URL counts once, and an excess is an error that stays.
AddCitation(p, url) ==
    IF p.failed \/ url \in p.cites THEN p
    ELSE IF Cardinality(p.cites) >= MaxCitations THEN Failed(p)
    ELSE [p EXCEPT !.cites = @ \union {url}]

\* emitSearchRound: a search call is announced once.
EmitSearchRound(p, key) ==
    IF key \in p.seen THEN p
    ELSE IF Cardinality(p.seen) >= MaxRounds THEN Failed(p)
    ELSE [p EXCEPT !.seen = @ \union {key}]

\* Text, then citations; an answer or a list over its limit is an error.
Collect(p, text, urls) ==
    LET appended == AppendAnswerText(p, text)
    IN  IF appended.failed THEN appended ELSE FoldLeft(AddCitation, appended, urls)

\* consumeResponse of the chat parser: the last report of usage counts.
ConsumeChat(p, e) ==
    [Collect(p, e.text, e.cites) EXCEPT !.usage = IF e.usage.in + e.usage.out = 0 THEN @ ELSE e.usage]

\* mergeAnthropicUsage: the last report of each side counts.
MergeUsage(u, new) == [in  |-> IF new.in = 0 THEN u.in ELSE new.in,
                       out |-> IF new.out = 0 THEN u.out ELSE new.out]

\* consumeResponse of the anthropic parser.
ConsumeAnthropic(p, e) ==
    [Collect(p, e.text, e.cites) EXCEPT !.usage = MergeUsage(@, e.usage)]

\* The event callbacks of the three parsers.
HandleResponses(p, e) ==
    CASE e.kind = "item"                    -> EmitSearchRound(p, e.key)
      [] e.kind = "message" /\ e.terminal   -> [p EXCEPT !.completed = <<e>>]
      [] OTHER                              -> p

HandleChat(p, e) ==
    CASE e.kind = "item" -> EmitSearchRound(p, e.key)
      [] e.kind = "done" -> [p EXCEPT !.terminal = TRUE]
      [] OTHER           -> ConsumeChat([p EXCEPT !.terminal = @ \/ e.terminal], e)

HandleAnthropic(p, e) ==
    IF e.kind = "message" THEN ConsumeAnthropic([p EXCEPT !.terminal = @ \/ e.terminal], e) ELSE p

Handle(protocol, p, e) ==
    CASE protocol = "responses" -> HandleResponses(p, e)
      [] protocol = "chat"      -> HandleChat(p, e)
      [] protocol = "anthropic" -> HandleAnthropic(p, e)

\* forEachSSEEventWithDone: a line without "data:" is no event; [DONE] is one.
ConsumeEvent(protocol, p, e) ==
    IF p.failed \/ e.kind = "comment" \/ ~e.framed THEN p
    ELSE IF p.events >= MaxEvents \/ e.kind \in {"junk", "error"} THEN Failed(p)
    ELSE Handle(protocol, [p EXCEPT !.events = @ + 1], e)

\* The text blocks of a completed response, a newline between two of them.
Joined(blocks) ==
    [i \in 1..(IF blocks = <<>> THEN 0 ELSE 2 * Len(blocks) - 1) |->
        IF i % 2 = 1 THEN blocks[(i + 1) \div 2] ELSE "newline"]

BuildSearchResult(p, e) == [Collect(p, Joined(e.text), e.cites) EXCEPT !.usage = e.usage]

\* parseSearchStream after the last event: the last completed response counts.
EndOfResponses(p) ==
    IF p.failed \/ p.completed = <<>> THEN Failed(p) ELSE BuildSearchResult(p, p.completed[1])

\* Mutant: whatever text has arrived is the answer.
EndOfStream_Partial(p) == p

\* The chat and anthropic parsers after the last event: a stream that was not
\* finished by the upstream is not used.
EndOfStream(p) == IF p.terminal THEN p ELSE Failed(p)

\* A response that is no event stream is one JSON value and nothing else.
EndOfChatJSON(values) ==
    IF Len(values) = 1 /\ values[1].kind = "message" THEN ConsumeChat(NewParser, values[1])
    ELSE Failed(NewParser)

EndOfAnthropicJSON(values) ==
    IF Len(values) = 1 /\ values[1].kind = "message" THEN ConsumeAnthropic(NewParser, values[1])
    ELSE Failed(NewParser)

\* identifyChatCompletionsResponse, isAnthropicSSEResponse: the first line that is no
\* comment tells.
IsEventStream(sent) ==
    \E i \in DOMAIN sent :
        /\ sent[i].kind # "comment" /\ sent[i].framed
        /\ \A j \in 1 .. i - 1 : sent[j].kind = "comment"

\* parseAnthropicMessagesResponse: everything is read before anything is parsed.
ParseAnthropic(sent) ==
    IF IsEventStream(sent)
    THEN EndOfStream(FoldLeft(LAMBDA p, e : ConsumeEvent("anthropic", p, e), NewParser, sent))
    ELSE EndOfAnthropicJSON(sent)

\* What the parser makes of the whole response.
ParsedResponse ==
    IF refused THEN Failed(parser)
    ELSE CASE snap.protocol = "responses" -> EndOfResponses(parser)
           [] snap.protocol = "chat"      -> IF IsEventStream(body) THEN EndOfStream(parser) ELSE EndOfChatJSON(body)
           [] snap.protocol = "anthropic" -> ParseAnthropic(body)

\* Only parseSearchStream and the stream branch of parseChatCompletionsResponse call
\* back while they read.
ReadsAsItComes(sent) ==
    /\ ~refused
    /\ \/ snap.protocol = "responses"
       \/ snap.protocol = "chat" /\ IsEventStream(sent)

\* isChatIntermediateAnswer.
IsIntermediate(answer) ==
    /\ Len(answer) <= ShortAnswer
    /\ \E i \in DOMAIN answer : answer[i] \in Announcements

-----------------------------------------------------------------------------
(* The search.                                                             *)

NoResult == [ok |-> FALSE, answer |-> <<>>, cites |-> {}, usage |-> 0]
NoWire == [tool |-> "", model |-> "", scope |-> [source |-> "", allowed |-> 0, blocked |-> 0]]

SearchInit ==
    /\ settings \in Settings
    /\ snap = settings
    /\ wire = NoWire
    /\ phase = "idle"
    /\ attempt = 0
    /\ posts = <<>>
    /\ refused = FALSE /\ body = <<>> /\ parser = NewParser
    /\ tokens = 0 /\ progress = 0
    /\ result = NoResult

\* The search returns; what it has read is dropped.
Return(res) ==
    /\ phase' = "ended"
    /\ result' = res
    /\ refused' = FALSE /\ body' = <<>> /\ parser' = NewParser

\* ApplyServerSettings: under the lock, all fields together.
ApplyServerSettings(new) ==
    /\ settings' = new
    /\ UNCHANGED <<wireVars, phase, answerVars, result>>

\* runSearch and SearchStream up to the request body.
StartSearch(req) ==
    /\ phase = "idle"
    /\ snap' = settings
    /\ IF ValidSearchRequest(req, settings.model)
       THEN /\ wire' = [tool |-> req.tool,
                        model |-> IF req.model = "" THEN settings.model ELSE req.model,
                        scope |-> UpstreamScope(settings.protocol, req)]
            /\ phase' = "post"
            /\ UNCHANGED <<refused, body, parser, result>>
       ELSE Return(NoResult) /\ UNCHANGED wire
    /\ UNCHANGED <<settings, attempt, posts, tokens, progress>>

\* Mutant: the key is read again for every request.
Post_FreshKey(error) ==
    /\ phase = "post"
    /\ posts' = Append(posts, [url |-> snap.url, key |-> settings.key])
    /\ refused' = error /\ body' = <<>> /\ parser' = NewParser
    /\ phase' = "body"
    /\ UNCHANGED <<settings, snap, wire, attempt, tokens, progress, result>>

\* postJSON gets a response; redirects are not followed and count as refusals.
Post(error) ==
    /\ phase = "post"
    /\ posts' = Append(posts, [url |-> snap.url, key |-> snap.key])
    /\ refused' = error /\ body' = <<>> /\ parser' = NewParser
    /\ phase' = "body"
    /\ UNCHANGED <<settings, snap, wire, attempt, tokens, progress, result>>

\* Dialling, the TLS handshake or the wait for headers fails or times out, or the
\* caller is gone.
PostFails ==
    /\ phase = "post"
    /\ posts' = Append(posts, [url |-> snap.url, key |-> snap.key])
    /\ Return(NoResult)
    /\ UNCHANGED <<settings, snap, wire, attempt, tokens, progress>>

\* The upstream sends an event and the client reads it; a response over the limit is
\* given up, and so is one with an error.
Receive(e) ==
    /\ phase = "body"
    /\ LET fits == Len(body) < MaxResponse
           read == IF fits /\ ReadsAsItComes(Append(body, e)) THEN ConsumeEvent(snap.protocol, parser, e) ELSE parser
       IN  /\ progress' = progress + Cardinality(read.seen) - Cardinality(parser.seen)
           /\ IF ~fits \/ read.failed
              THEN Return(NoResult)
              ELSE body' = Append(body, e) /\ parser' = read /\ UNCHANGED <<phase, refused, result>>
    /\ UNCHANGED <<settings, wireVars, tokens>>

\* The connection breaks, or the caller cancels: the read fails.
ReadFails ==
    /\ phase = "body"
    /\ Return(NoResult)
    /\ UNCHANGED <<settings, wireVars, tokens, progress>>

\* Every answer of the search is paid for.
TokensAfter(p) == tokens + p.usage.in + p.usage.out

\* searchChatCompletions asks for another answer.
Continues(p) ==
    /\ snap.protocol = "chat" /\ IsIntermediate(p.answer)
    /\ attempt < MaxContinuations

\* The upstream ends the response.
EndOfResponse ==
    /\ phase = "body"
    /\ LET p == ParsedResponse
       IN  IF p.failed \/ p.answer = <<>> THEN Return(NoResult) /\ UNCHANGED <<attempt, tokens>>
           ELSE /\ tokens' = TokensAfter(p)
                /\ IF Continues(p)
                   THEN /\ attempt' = attempt + 1
                        /\ phase' = "post"
                        /\ refused' = FALSE /\ body' = <<>> /\ parser' = NewParser
                        /\ UNCHANGED result
                   ELSE /\ Return(IF snap.protocol = "chat" /\ IsIntermediate(p.answer) THEN NoResult
                                  ELSE [ok |-> TRUE, answer |-> p.answer, cites |-> p.cites,
                                        usage |-> tokens'])
                        /\ UNCHANGED attempt
    /\ UNCHANGED <<settings, snap, wire, posts, progress>>

\* What the upstream may send next: JSON on its own, or the events of its protocol.
UpstreamEvents ==
    LET texts == {Says(<<t>>) : t \in Pieces}
        answers == {Reports(1, 0), Reports(0, 2), Cites(<<1>>), Cites(<<2>>)} \union texts
        streams == body = <<>> \/ IsEventStream(body)
        bare == IF IsEventStream(body) THEN {} ELSE {Bare(e) : e \in texts \union {Junk, StreamError}}
    IN  {Comment} \union
        IF refused THEN {}
        ELSE IF snap.protocol = "responses" THEN
                {Round(1), Round(2), Round(3), Junk, StreamError, Done}
                    \union {Terminal([Reports(1, 0) EXCEPT !.text = t, !.cites = <<1>>]) :
                                t \in UNION {[1..n -> Pieces] : n \in 0..2}}
                    \union {Terminal([Cites(<<1, 2>>) EXCEPT !.text = <<t>>]) : t \in Pieces}
        ELSE IF ~streams THEN bare
        ELSE IF snap.protocol = "chat" THEN
                {Round(1), Round(2), Junk, StreamError, Done}
                    \union answers \union {Terminal(e) : e \in texts} \union bare
        ELSE {Junk, StreamError, Done, Terminal(Message)} \union answers \union bare

Responds ==
    \/ \E e \in UpstreamEvents : Receive(e)
    \/ EndOfResponse
    \/ ReadFails

\* postJSON: every way it returns.
Posts == PostFails \/ \E error \in BOOLEAN : Post(error)

SearchNext ==
    \/ \E new \in Settings : ApplyServerSettings(new)
    \/ \E req \in SearchRequests : StartSearch(req)
    \/ Posts
    \/ Responds

\* The search goes on whenever it can; only the response itself is bounded by nothing
\* but the upstream and the caller's patience.
SearchSpec ==
    /\ SearchInit /\ [][SearchNext]_searchVars
    /\ WF_searchVars(Posts)

-----------------------------------------------------------------------------
(* What the upstream has said, read off the response as a whole.           *)

\* A message counts in an event stream when it is framed, on its own when it is not.
IsTold(e, streamed) == e.kind = "message" /\ e.framed = streamed
Told(sent, streamed) == {i \in DOMAIN sent : IsTold(sent[i], streamed)}
Finals(sent, streamed) == {i \in Told(sent, streamed) : sent[i].terminal}

TextIn(sent, streamed) ==
    FoldLeft(LAMBDA text, e : IF IsTold(e, streamed) THEN text \o e.text ELSE text, <<>>, sent)

SourcesIn(sent, streamed) == UNION {ToSet(sent[i].cites) : i \in Told(sent, streamed)}

HasDone(sent) == \E i \in DOMAIN sent : sent[i].kind = "done" /\ sent[i].framed

RoundsIn(sent) == {sent[i].key : i \in {j \in DOMAIN sent : sent[j].kind = "item" /\ sent[j].framed}}

\* The last report of a number; no report is zero.
Latest(numbers) ==
    LET given == {i \in DOMAIN numbers : numbers[i] # 0}
    IN  IF given = {} THEN 0 ELSE numbers[Max(given)]

Streamed == snap.protocol = "responses" \/ IsEventStream(body)

Finished ==
    /\ ~refused
    /\ \/ Finals(body, Streamed) # {}
       \/ snap.protocol = "chat" /\ Streamed /\ HasDone(body)
       \/ ~Streamed /\ Len(body) = 1 /\ body[1].kind = "message"

SaidText ==
    IF snap.protocol # "responses" THEN TextIn(body, Streamed)
    ELSE IF Finals(body, Streamed) = {} THEN <<>> ELSE Joined(body[Max(Finals(body, Streamed))].text)

SaidSources ==
    IF snap.protocol # "responses" THEN SourcesIn(body, Streamed)
    ELSE IF Finals(body, Streamed) = {} THEN {} ELSE ToSet(body[Max(Finals(body, Streamed))].cites)

\* What the upstream charges for the response; usage is reported cumulatively.
SaidTokens ==
    LET told == Told(body, Streamed)
        finals == Finals(body, Streamed)
    IN  CASE snap.protocol = "chat" -> Latest([i \in told |-> body[i].usage.in + body[i].usage.out])
          [] snap.protocol = "anthropic" ->
                Latest([i \in told |-> body[i].usage.in]) + Latest([i \in told |-> body[i].usage.out])
          [] OTHER -> IF finals = {} THEN 0
                      ELSE body[Max(finals)].usage.in + body[Max(finals)].usage.out

SaidNow ==
    [finished |-> Finished, text |-> SaidText, sources |-> SaidSources, tokens |-> SaidTokens,
     announces |-> snap.protocol = "chat" /\ IsIntermediate(SaidText),
     calls |-> IF ReadsAsItComes(body) THEN RoundsIn(body) ELSE {}]

Promise == INSTANCE SearchPromise WITH
    said <- SaidNow,
    paid <- tokens,
    asked <- attempt,
    reported <- progress,
    status <- IF phase # "ended" THEN "pending" ELSE IF result.ok THEN "answered" ELSE "failed",
    answer <- [text |-> result.answer, sources |-> result.cites, tokens |-> result.usage]

\* A search is what its caller was promised: its answer is the text, the sources and
\* the whole price of a message the upstream marked as finished, however the stream
\* is cut, repeated or padded, and each search call is reported once.
KeepsPromise == Promise!PromiseSpec

-----------------------------------------------------------------------------
(* Properties.                                                             *)

SearchTypeOK ==
    /\ settings \in Settings /\ snap \in Settings
    /\ phase \in {"idle", "post", "body", "ended"}
    /\ attempt \in Nat /\ tokens \in Nat /\ progress \in Nat
    /\ result.ok \in BOOLEAN

\* A saved change of the settings in the middle of a search neither sends a key to
\* another upstream's address nor mixes two upstreams in one search.
OneUpstream ==
    \A i \in DOMAIN posts :
        /\ posts[i] = posts[1]
        /\ \E s \in Settings : posts[i] = [url |-> s.url, key |-> s.key]

\* Nothing the upstream sends makes a search keep more than its limits allow or ask
\* more often than once and MaxContinuations times.
WithinLimits ==
    /\ Len(posts) <= MaxContinuations + 1
    /\ Len(body) <= MaxResponse
    /\ parser.events <= MaxEvents
    /\ Cardinality(parser.seen) <= MaxRounds
    /\ progress <= MaxRounds * Len(posts)
    /\ Len(parser.answer) <= MaxAnswer /\ Len(result.answer) <= MaxAnswer
    /\ Cardinality(result.cites) <= MaxCitations

\* The upstream is asked for what the caller asked for: a search of X never becomes a
\* search of the open web, and of the two host filters at most one is sent.
AsksWhatWasAsked ==
    posts # <<>> =>
        /\ wire.model = "grok"
        /\ wire.tool = "x_search" <=> wire.scope.source # "web"
        /\ wire.scope.allowed = 0 \/ wire.scope.blocked = 0
        /\ wire.scope.allowed + wire.scope.blocked <= MaxDomains

\* A search stays with one upstream, within its limits and with what was asked, in
\* every state (grok/client.go, chat_completions.go, request.go and sse.go).
SearchInv ==
    /\ SearchTypeOK
    /\ OneUpstream
    /\ WithinLimits
    /\ AsksWhatWasAsked

=============================================================================
