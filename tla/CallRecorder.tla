---------------------------- MODULE CallRecorder ----------------------------
(***************************************************************************)
(* What the usage middleware learns from the bytes of a response while it  *)
(* passes them on (responseRecorder in usage/middleware.go): whether the   *)
(* body reports an error of the tool, found by an incremental reader of    *)
(* event-stream lines and of JSON within a bounded prefix (usage/          *)
(* response_inspector.go), and the bounded sample kept for debugging       *)
(* (usage/debug_capture.go).                                               *)
(*                                                                         *)
(* The response is a sequence of pieces: the prefix "data:", the two       *)
(* halves of a JSON value that reports an error, anything else, newlines.  *)
(* The library cuts it into writes where it likes; sizes count pieces.     *)
(***************************************************************************)
EXTENDS Naturals, Sequences, SequencesExt

CONSTANTS
    InspectionLimit,   \* maxOutcomeInspectionBytes
    SpoolLimit,        \* maxDebugCapturedBodyBytes
    MaxWrite,          \* bound on the length of one write
    MaxWritten        \* bound on the length of the response

ASSUME RecorderConstants ==
    {InspectionLimit, SpoolLimit, MaxWrite, MaxWritten} \subseteq Nat \ {0}

VARIABLES
    response,          \* history: all that was written
    inspector,         \* responseOutcomeInspector
    spool              \* debugBodySpool of the response

recorderVars == <<response, inspector, spool>>

BodyPieces == {"data:", "{error", "}", "text", "\n"}

\* The JSON value is an error response; newlines are white space to JSON.
PayloadHasToolError(payload) ==
    SelectSeq(payload, LAMBDA x : x # "\n") = <<"{error", "}">>

RecorderInit ==
    /\ response = <<>>
    /\ inspector = [capture |-> <<>>, line |-> <<>>, error |-> FALSE, finalized |-> FALSE]
    /\ spool = [count |-> 0, observed |-> 0, truncated |-> FALSE, failed |-> FALSE]

\* inspectSSELine
LineHasToolError(line) ==
    line # <<>> /\ Head(line) = "data:" /\ PayloadHasToolError(Tail(line))

\* Mutant: each write is taken for whole lines.
LineBefore_Fresh(state) == <<>>

\* A line may have begun in an earlier write.
LineBefore(state) == state.line

\* inspect, of the part of a write within the limit: byte by byte.
InspectPiece(state, piece) ==
    IF piece = "\n"
    THEN [state EXCEPT !.line = <<>>, !.error = @ \/ LineHasToolError(state.line)]
    ELSE [state EXCEPT !.line = Append(@, piece)]

Inspect(state, chunk) ==
    LET inspected == Len(state.capture)
        part == SubSeq(chunk, 1, Min({Len(chunk), InspectionLimit - inspected}))
        begun == [state EXCEPT !.capture = @ \o part, !.line = LineBefore(state)]
    IN IF state.finalized \/ inspected >= InspectionLimit THEN state
       ELSE FoldLeft(InspectPiece, begun, part)

\* finalize
Finalize(state) ==
    IF state.finalized THEN state
    ELSE [state EXCEPT !.finalized = TRUE,
                       !.error = @ \/ LineHasToolError(state.line) \/ PayloadHasToolError(state.capture)]

\* debugBodySpool.write: the file takes what is left of the limit, or fails on the way.
SpoolWrite(n) ==
    LET room == SpoolLimit - spool.count
        kept == Min({n, room})
        seen == [spool EXCEPT !.observed = @ + n, !.truncated = @ \/ (~spool.failed /\ n > room)]
    IN IF spool.failed THEN spool' = [spool EXCEPT !.observed = @ + n]
       ELSE \/ spool' = [seen EXCEPT !.count = @ + kept]
            \/ kept > 0 /\ \E k \in 0 .. kept : spool' = [seen EXCEPT !.count = @ + k, !.failed = TRUE]

\* responseRecorder.Write
Write(chunk) ==
    /\ ~inspector.finalized
    /\ Len(response) + Len(chunk) <= MaxWritten
    /\ response' = response \o chunk
    /\ inspector' = Inspect(inspector, chunk)
    /\ SpoolWrite(Len(chunk))

\* The handler has returned: toolError and debugCaptureSession.finalize.
Finish ==
    /\ ~inspector.finalized
    /\ inspector' = Finalize(inspector)
    /\ \/ UNCHANGED spool
       \/ spool' = [spool EXCEPT !.failed = TRUE]
    /\ UNCHANGED response

RecorderNext ==
    \/ \E n \in 1 .. MaxWrite : \E chunk \in [1 .. n -> BodyPieces] : Write(chunk)
    \/ Finish

RecorderSpec == RecorderInit /\ [][RecorderNext]_recorderVars

-----------------------------------------------------------------------------
\* The lines of a text: what stands between two newlines or its ends.
IsLine(text, i, j) ==
    /\ \A k \in i .. j : text[k] # "\n"
    /\ i = 1 \/ text[i - 1] = "\n"
    /\ j = Len(text) \/ text[j + 1] = "\n"

ReportsError(text) ==
    \/ PayloadHasToolError(text)
    \/ \E i, j \in 1 .. Len(text) : IsLine(text, i, j) /\ LineHasToolError(SubSeq(text, i, j))

\* The verdict is that of the prefix as a whole, however it was cut into writes, and an
\* error that was found stays found.
VerdictOfPrefix ==
    LET prefix == SubSeq(response, 1, Min({Len(response), InspectionLimit}))
    IN /\ inspector.error => ReportsError(prefix)
       /\ inspector.finalized => (inspector.error <=> ReportsError(prefix))

\* The sample is a prefix within its limit, and says so when it is not the whole.
SpoolHonest ==
    /\ spool.count <= SpoolLimit
    /\ spool.observed = Len(response)
    /\ ~spool.failed => /\ spool.count = Min({Len(response), SpoolLimit})
                        /\ spool.truncated <=> Len(response) > SpoolLimit

\* What is recorded of a response does not depend on how it was written.
RecorderInv == VerdictOfPrefix /\ SpoolHonest
=============================================================================
