------------------------------- MODULE McpRequest -------------------------------
(***************************************************************************)
(* The life of a tools/call request behind authentication: the search      *)
(* concurrency limiter, the success quota and the usage middleware, in the *)
(* order internal/app/server.go chains them, around the MCP handler.       *)
(*                                                                         *)
(* The limiter and the quota are the component modules; this module says   *)
(* when a request calls them.  A request is a goroutine: pc is the place   *)
(* where it can be overtaken by others, which is before each lock, each    *)
(* database call and the tool itself.  The MCP SDK and the upstream search *)
(* are external: the tool marks an outcome or not, answers or panics.      *)
(***************************************************************************)
EXTENDS SearchConcurrencyLimiter, SuccessQuota

CONSTANT Searches       \* the requests that call a search tool and need a permit

VARIABLES
    pc,         \* request -> the next step of its goroutine
    debug,      \* the runtime debug switch
    capture,    \* request -> who has to remove its spool files
    verdict,    \* request -> how the usage middleware judges the call
    record      \* request -> the outcome handed to the usage writer

usageVars == <<capture, verdict, record>>

mcpVars == <<limiterVars, quotaVars, pc, debug, usageVars>>

McpInit ==
    /\ LimiterInit
    /\ QuotaInit
    /\ pc = [r \in Requests |-> "arrived"]
    /\ debug \in BOOLEAN
    /\ capture = [r \in Requests |-> "none"]
    /\ verdict = [r \in Requests |-> "none"]
    /\ record = [r \in Requests |-> "none"]

Goto(r, place) == pc' = [pc EXCEPT ![r] = place]

-----------------------------------------------------------------------------
(* SearchConcurrencyLimiter.Middleware.                                    *)

AcquirePermit(r) ==
    /\ pc[r] = "arrived" /\ r \in Searches
    /\ TryAcquire(r)
    /\ Goto(r, IF lease'[r] = "held" THEN "admitted" ELSE "done")
    /\ UNCHANGED <<quotaVars, debug, usageVars>>

\* Other tools pass the limiter by.
PassLimiter(r) ==
    /\ pc[r] = "arrived" /\ r \notin Searches
    /\ Goto(r, "admitted")
    /\ UNCHANGED <<limiterVars, quotaVars, debug, usageVars>>

\* Mutant: the middleware still holds the limiter's mutex when the release wants it.
Leave_Deadlocked(r) ==
    /\ pc[r] = "leaving"
    /\ lease[r] # "held"
    /\ Goto(r, "done")
    /\ UNCHANGED <<limiterVars, quotaVars, debug, usageVars>>

\* The deferred release; it finds nothing to do when the permit went back early.
Leave(r) ==
    /\ pc[r] = "leaving"
    /\ IF lease[r] = "held" THEN Release(r) ELSE UNCHANGED limiterVars
    /\ Goto(r, "done")
    /\ UNCHANGED <<quotaVars, debug, usageVars>>

-----------------------------------------------------------------------------
(* quota.MCPMiddleware.                                                    *)

StartReservation(r, limit) ==
    /\ pc[r] = "admitted"
    /\ ReserveBegin(r, limit)
    /\ Goto(r, "reserving")
    /\ UNCHANGED <<limiterVars, debug, usageVars>>

\* 429, 403 and 500 answers leave the chain; a reservation goes on.
FinishReservation(r) ==
    /\ pc[r] = "reserving"
    /\ ReserveGrant(r) \/ ReserveRefuse(r) \/ ReserveFail(r)
    /\ Goto(r, IF quota'[r] = "reserved" THEN "reserved" ELSE "leaving")
    /\ UNCHANGED <<limiterVars, debug, usageVars>>

-----------------------------------------------------------------------------
(* usage.MCPMiddleware.                                                    *)

StartTool(r) ==
    /\ pc[r] = "reserved"
    /\ capture' = [capture EXCEPT ![r] = IF debug THEN "middleware" ELSE "none"]
    /\ Goto(r, "tool")
    /\ UNCHANGED <<limiterVars, quotaVars, debug, verdict, record>>

Markers == {"unknown", "success", "error"}

\* The verdict: a marked outcome decides beside the HTTP status; without one the
\* inspected response does.
Succeeded(marker, httpOK, bodyError) ==
    httpOK /\ (IF marker = "unknown" THEN ~bodyError ELSE marker = "success")

\* The handler returns.
ToolReturns(r, marker, httpOK, bodyError) ==
    /\ pc[r] = "tool"
    /\ verdict' = [verdict EXCEPT ![r] =
                       IF Succeeded(marker, httpOK, bodyError) THEN "success" ELSE "failure"]
    /\ Goto(r, "judged")
    /\ UNCHANGED <<limiterVars, quotaVars, debug, capture, record>>

\* Mutant: nobody recovers.
ToolPanics_NoRecover(r) ==
    /\ pc[r] = "tool"
    /\ verdict' = [verdict EXCEPT ![r] = "panic"]
    /\ Goto(r, "leaving")
    /\ UNCHANGED <<limiterVars, quotaVars, debug, capture, record>>

\* The handler panics: the deferred function removes the spool files, recovers and
\* completes the reservation as failed.
ToolPanics(r) ==
    /\ pc[r] = "tool"
    /\ verdict' = [verdict EXCEPT ![r] = "panic"]
    /\ capture' = [capture EXCEPT ![r] = "none"]
    /\ Goto(r, "judged")
    /\ UNCHANGED <<limiterVars, quotaVars, debug, record>>

\* completeReservedSuccessCall: a failed call gives its permit back before it waits
\* for the database.
BeforeCompletion(r) ==
    /\ pc[r] = "judged"
    /\ IF verdict[r] # "success" /\ lease[r] = "held"
       THEN Release(r) ELSE UNCHANGED limiterVars
    /\ Goto(r, "completing")
    /\ UNCHANGED <<quotaVars, debug, usageVars>>

\* A recovered panic is raised again and skips the record.
AfterCompletion(r) == IF verdict[r] = "panic" THEN "leaving" ELSE "record"

\* The completion commits, or fails and is not tried again.
CompleteQuota(r) ==
    /\ pc[r] = "completing"
    /\ CompleteSuccessCall(r, verdict[r] = "success") \/ CompleteFail(r)
    /\ Goto(r, AfterCompletion(r))
    /\ UNCHANGED <<limiterVars, debug, usageVars>>

\* The record goes to the writer, and the spool files with it.
Enqueue(r) ==
    /\ pc[r] = "record"
    /\ record' = [record EXCEPT ![r] = verdict[r]]
    /\ capture' = [capture EXCEPT ![r] = IF @ = "middleware" THEN "writer" ELSE @]
    /\ Goto(r, "leaving")
    /\ UNCHANGED <<limiterVars, quotaVars, debug, verdict>>

-----------------------------------------------------------------------------
(* What happens around the requests.                                       *)

ToggleDebug ==
    /\ debug' = ~debug
    /\ UNCHANGED <<limiterVars, quotaVars, pc, usageVars>>

LimiterBackground ==
    /\ \/ \E global, perUser \in ConcurrencyLimits : UpdateLimits(global, perUser)
       \/ \E expired \in SUBSET Users : CleanupIdleEntries(expired)
    /\ UNCHANGED <<quotaVars, pc, debug, usageVars>>

QuotaBackground ==
    /\ NextMonth \/ \E u \in Users : DeleteUser(u)
    /\ UNCHANGED <<limiterVars, pc, debug, usageVars>>

\* The tool's own step, which is the upstream's and the caller's to allow.
ToolEnds(r) ==
    \/ \E marker \in Markers, httpOK, bodyError \in BOOLEAN : ToolReturns(r, marker, httpOK, bodyError)
    \/ ToolPanics(r)

\* The steps of one request.
RequestStep(r) ==
    \/ AcquirePermit(r)
    \/ PassLimiter(r)
    \/ \E limit \in SuccessLimits : StartReservation(r, limit)
    \/ FinishReservation(r)
    \/ StartTool(r)
    \/ ToolEnds(r)
    \/ BeforeCompletion(r)
    \/ CompleteQuota(r)
    \/ Enqueue(r)
    \/ Leave(r)

McpNext ==
    \/ \E r \in Requests : RequestStep(r)
    \/ ToggleDebug
    \/ LimiterBackground
    \/ QuotaBackground

McpSpec == McpInit /\ [][McpNext]_mcpVars

\* A goroutine that can go on does, except in the tool: nothing bounds how long an
\* upstream may keep a response open.  A completion ends because its context expires
\* after two seconds.
McpFairSpec == McpSpec /\ \A r \in Requests : WF_mcpVars(pc[r] # "tool" /\ RequestStep(r))

-----------------------------------------------------------------------------
(* Properties.                                                             *)

\* A request is at one step of the chain, and only judged calls are recorded.
McpTypeOK ==
    /\ pc \in [Requests -> {"arrived", "admitted", "reserving", "reserved", "tool", "judged",
                            "completing", "record", "leaving", "done"}]
    /\ debug \in BOOLEAN
    /\ capture \in [Requests -> {"none", "middleware", "writer"}]
    /\ verdict \in [Requests -> {"none", "success", "failure", "panic"}]
    /\ record \in [Requests -> {"none", "success", "failure"}]

\* Whatever way a request takes, panics and refusals included, it ends with no
\* permit, no open reservation and no spool file of its own left behind.
EndsBalanced ==
    \A r \in Requests : pc[r] = "done" =>
        /\ lease[r] # "held"
        /\ quota[r] \notin {"waiting", "reserved"}
        /\ capture[r] # "middleware"

\* A tool only runs for a call that holds what its middlewares hand out.
ToolRunsAdmitted ==
    \A r \in Requests : pc[r] = "tool" =>
        /\ r \in Searches => lease[r] = "held"
        /\ quota[r] = "reserved"
        /\ r \in reservations \/ UserOf[r] \notin exists

\* A rollback waits for the database without holding search capacity.
RollbackHoldsNoPermit ==
    \A r \in Requests : pc[r] = "completing" /\ lease[r] = "held" => verdict[r] = "success"

\* The usage log and the quota never disagree about a call: what is logged as a
\* failure is not charged and what is logged as a success is, unless the completion
\* itself was lost or the user was deleted meanwhile.
LogAgreesWithQuota ==
    \A r \in Requests :
        /\ record[r] = "success" => quota[r] \in {"kept", "abandoned"}
        /\ record[r] = "failure" => \/ quota[r] \in {"rolledBack", "abandoned"}
                                    \/ UserOf[r] \notin exists

\* Each request holds what its place in the chain entitles it to and nothing more: a
\* running tool has permit and reservation, a rollback has no permit, an ended request
\* has nothing; and what is logged about it is what the quota charged.
McpInv ==
    /\ McpTypeOK
    /\ ToolRunsAdmitted
    /\ RollbackHoldsNoPermit
    /\ LogAgreesWithQuota
    /\ EndsBalanced

\* Every admission and every refusal is the one the searches really running and the
\* calls really charged call for, although limits, months and users change between
\* the middlewares.
DecidedByTheCounts ==
    [][/\ AdmitsWithinLimits /\ RefusesOnlyWhenFull
       /\ GrantsWithinAllowance /\ RefusesOnlyWhenExhausted]_mcpVars

\* If every tool ends some time, every permit comes back: whatever is in flight, a
\* moment without a search follows.
PermitReturned ==
    (\A r \in Requests : WF_mcpVars(ToolEnds(r)))
        => ((\E r \in Requests : lease[r] = "held") ~> (\A r \in Requests : lease[r] # "held"))

=============================================================================
