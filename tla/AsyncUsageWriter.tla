--------------------------- MODULE AsyncUsageWriter ---------------------------
(***************************************************************************)
(* The asynchronous usage writer of internal/store/async.go: request       *)
(* goroutines offer usage records to a bounded channel, one worker         *)
(* goroutine collects them into batches and writes each batch to the       *)
(* store, and Close stops admission, waits a bounded time for the worker   *)
(* to flush, then cancels it and drains the channel beside it.             *)
(*                                                                         *)
(* A step is one access to state another goroutine can see: a channel      *)
(* operation, a critical section, a call of the store.  The critical       *)
(* section of Enqueue is one step: nothing reads queuedAt outside          *)
(* queueStatsMu, so a receive between its send and its append cannot be    *)
(* told from one after it.                                                 *)
(***************************************************************************)
EXTENDS Integers, Sequences, FiniteSets

CONSTANTS
    Records,    \* usage records; a request offers its record once
    Buffer,     \* capacity of the channel
    BatchSize,  \* largest batch handed to the store
    StoreKinds, \* stores by whether they implement usageBatchRecorder
    MetricsModes, \* settings of the counters' switch that administrators use
    None        \* no record in hand

ASSUME WriterAssumption ==
    /\ Buffer \in Nat \ {0}
    /\ BatchSize \in Nat \ {0}
    /\ StoreKinds \in SUBSET BOOLEAN
    /\ MetricsModes \in SUBSET BOOLEAN
    /\ IsFiniteSet(Records)
    /\ None \notin Records

VARIABLES
    ch,             \* the channel's buffer
    accepting,      \* admission flag; the channel is closed with it
    queuedAt,       \* markers of admitted records, oldest first
    batching,       \* the store implements usageBatchRecorder
    metricsEnabled, \* runtime switch of the counters
    cancelled,      \* the worker's context is cancelled
    producer,       \* progress of the goroutine that offers a record
    pc,             \* control points of the worker and of Close
    held,           \* record received from the channel and not yet placed
    batch,          \* the worker's batch
    channelClosed,  \* collectBatch saw the closed channel
    observed,       \* metricsEnabled as writeBatch loaded it
    results,        \* records of the batch the store wrote
    counters,       \* the counters Stats reports
    written,        \* history: how often the store committed a record
    failed,         \* history: records the store refused
    dropped,        \* history: records discarded without a write
    cleanups        \* history: how often a record's Cleanup ran

vars == <<ch, accepting, queuedAt, batching, metricsEnabled, cancelled, producer, pc, held,
          batch, channelClosed, observed, results, counters, written, failed, dropped, cleanups>>

queueVars    == <<ch, accepting, queuedAt>>
historyVars  == <<written, failed, dropped, cleanups>>
workerVars   == <<batch, channelClosed, observed, results>>

\* The records of a sequence.
Elems(s) == {s[i] : i \in DOMAIN s}

Threads == {"worker", "closer"}

\* What the counters of Stats would be if nothing had happened.
ZeroCounters ==
    [accepted |-> 0, dropped |-> 0, successes |-> 0, failures |-> 0, inFlight |-> 0]

Goto(t, label) == pc' = [pc EXCEPT ![t] = label]

-----------------------------------------------------------------------------
(* newAsyncUsageWriterWithBatch: an empty channel and a running worker.    *)

Init ==
    /\ ch = <<>>
    /\ accepting = TRUE
    /\ queuedAt = <<>>
    /\ batching \in StoreKinds
    /\ metricsEnabled \in MetricsModes
    /\ cancelled = FALSE
    /\ producer = [r \in Records |-> "new"]
    /\ pc = [worker |-> "select", closer |-> "idle"]
    /\ held = [t \in Threads |-> None]
    /\ batch = <<>>
    /\ channelClosed = FALSE
    /\ observed = FALSE
    /\ results = {}
    /\ counters = ZeroCounters
    /\ written = [r \in Records |-> 0]
    /\ failed = {}
    /\ dropped = {}
    /\ cleanups = [r \in Records |-> 0]

\* SetMetricsEnabled: an administrator switches the counters on or off.
SetMetricsEnabled(enabled) ==
    /\ enabled # metricsEnabled
    /\ metricsEnabled' = enabled
    /\ UNCHANGED <<queueVars, batching, cancelled, producer, pc, held, workerVars, counters, historyVars>>

-----------------------------------------------------------------------------
(* Steps that goroutines share.                                            *)

Count(name, amount) ==
    counters' = [counters EXCEPT ![name] = @ + amount]

CountIf(enabled, name, amount) ==
    IF enabled THEN Count(name, amount) ELSE UNCHANGED counters

\* A per-record history counter, one higher for the records of a set.
Bump(f, rs) == [r \in Records |-> IF r \in rs THEN f[r] + 1 ELSE f[r]]

\* cleanupUsageRecord for every record of a set.
Cleanup(rs) == cleanups' = Bump(cleanups, rs)

\* discardRecord: the record is lost, counted when counters are on, cleaned up.
DiscardRecord(r) ==
    /\ dropped' = dropped \union {r}
    /\ CountIf(metricsEnabled, "dropped", 1)
    /\ Cleanup({r})
    /\ UNCHANGED <<written, failed>>

\* A receive of the oldest record by goroutine t.
Receive(t) ==
    /\ ch # <<>>
    /\ held' = [held EXCEPT ![t] = Head(ch)]
    /\ ch' = Tail(ch)
    /\ UNCHANGED <<accepting, queuedAt>>

\* markRecordDequeued: drop the oldest marker, if there is one.
MarkRecordDequeued ==
    /\ queuedAt' = IF queuedAt # <<>> THEN Tail(queuedAt) ELSE queuedAt
    /\ UNCHANGED <<ch, accepting>>

-----------------------------------------------------------------------------
(* Enqueue.                                                                *)

\* What Enqueue's select finds: room in the channel.
HasRoom == Len(ch) < Buffer

\* What Enqueue checks under admissionMu before it sends.
Admitting == accepting

\* The record is sent and its marker appended.
EnqueueAdmitted(r) ==
    /\ producer[r] = "new"
    /\ Admitting
    /\ HasRoom
    /\ ch' = Append(ch, r)
    /\ queuedAt' = Append(queuedAt, r)
    /\ producer' = [producer EXCEPT ![r] = IF metricsEnabled THEN "count" ELSE "admitted"]
    /\ UNCHANGED <<accepting, batching, metricsEnabled, cancelled, pc, held, workerVars, counters, historyVars>>

\* Writer closed, or buffer full: the record is discarded after the unlock.
EnqueueRefused(r) ==
    /\ producer[r] = "new"
    /\ ~Admitting \/ ~HasRoom
    /\ producer' = [producer EXCEPT ![r] = "discard"]
    /\ UNCHANGED <<queueVars, batching, metricsEnabled, cancelled, pc, held, workerVars, counters, historyVars>>

EnqueueDiscard(r) ==
    /\ producer[r] = "discard"
    /\ DiscardRecord(r)
    /\ producer' = [producer EXCEPT ![r] = "refused"]
    /\ UNCHANGED <<queueVars, batching, metricsEnabled, cancelled, pc, held, workerVars>>

\* acceptedRecords.Add(1), after the record is already visible to the worker.
EnqueueCount(r) ==
    /\ producer[r] = "count"
    /\ Count("accepted", 1)
    /\ producer' = [producer EXCEPT ![r] = "admitted"]
    /\ UNCHANGED <<queueVars, batching, metricsEnabled, cancelled, pc, held, workerVars, historyVars>>

-----------------------------------------------------------------------------
(* run and collectBatch.                                                   *)

\* ctx.Done() or ctx.Err() of the worker's context.
ContextDone == cancelled

\* Mutant: a closed channel is taken for a drained one.
ChannelDrained_WhenClosed == ~accepting

\* A receive reports the closed channel only when it has nothing buffered.
ChannelDrained == ~accepting /\ ch = <<>>

RunReceive ==
    /\ pc["worker"] = "select"
    /\ Receive("worker")
    /\ Goto("worker", "mark")
    /\ UNCHANGED <<batching, metricsEnabled, cancelled, producer, workerVars, counters, historyVars>>

RunCancelled ==
    /\ pc["worker"] = "select"
    /\ ContextDone
    /\ Goto("worker", "drain")
    /\ UNCHANGED <<queueVars, batching, metricsEnabled, cancelled, producer, held, workerVars, counters, historyVars>>

\* The closed channel is empty: the worker ends.
RunClosed ==
    /\ pc["worker"] = "select"
    /\ ChannelDrained
    /\ Goto("worker", "done")
    /\ UNCHANGED <<queueVars, batching, metricsEnabled, cancelled, producer, held, workerVars, counters, historyVars>>

\* A full batch is written, a smaller one waits for more records.
AfterCollect(b) == IF Len(b) >= BatchSize THEN "write" ELSE "collect"

\* The first record of a batch: marked, then discarded if the context is done.
RunMark ==
    /\ pc["worker"] = "mark"
    /\ MarkRecordDequeued
    /\ IF ContextDone
       THEN /\ Goto("worker", "drainDiscard")
            /\ UNCHANGED <<batch, held>>
       ELSE /\ batch' = <<held["worker"]>>
            /\ held' = [held EXCEPT !["worker"] = None]
            /\ Goto("worker", AfterCollect(batch'))
    /\ channelClosed' = FALSE
    /\ UNCHANGED <<batching, metricsEnabled, cancelled, producer, observed, results, counters, historyVars>>

CollectReceive ==
    /\ pc["worker"] = "collect"
    /\ Receive("worker")
    /\ Goto("worker", "collectMark")
    /\ UNCHANGED <<batching, metricsEnabled, cancelled, producer, workerVars, counters, historyVars>>

CollectMark ==
    /\ pc["worker"] = "collectMark"
    /\ MarkRecordDequeued
    /\ batch' = Append(batch, held["worker"])
    /\ held' = [held EXCEPT !["worker"] = None]
    /\ Goto("worker", AfterCollect(batch'))
    /\ UNCHANGED <<batching, metricsEnabled, cancelled, producer, channelClosed, observed, results, counters, historyVars>>

\* Mutant: the batch timer is never started.
CollectTimer_Never == FALSE /\ UNCHANGED vars

\* batchTimer fired: the records collected so far are written.
CollectTimer ==
    /\ pc["worker"] = "collect"
    /\ Goto("worker", "write")
    /\ UNCHANGED <<queueVars, batching, metricsEnabled, cancelled, producer, held, workerVars, counters, historyVars>>

CollectClosed ==
    /\ pc["worker"] = "collect"
    /\ ChannelDrained
    /\ channelClosed' = TRUE
    /\ Goto("worker", "write")
    /\ UNCHANGED <<queueVars, batching, metricsEnabled, cancelled, producer, held, batch, observed, results, counters, historyVars>>

CollectCancelled ==
    /\ pc["worker"] = "collect"
    /\ ContextDone
    /\ Goto("worker", "discardBatch")
    /\ UNCHANGED <<queueVars, batching, metricsEnabled, cancelled, producer, held, workerVars, counters, historyVars>>

\* discardBatch, one record at a time, then discardQueuedRecords.
DiscardBatch ==
    /\ pc["worker"] = "discardBatch"
    /\ IF batch # <<>>
       THEN /\ DiscardRecord(Head(batch))
            /\ batch' = Tail(batch)
            /\ UNCHANGED pc
       ELSE /\ Goto("worker", "drain")
            /\ UNCHANGED <<batch, counters, historyVars>>
    /\ UNCHANGED <<queueVars, batching, metricsEnabled, cancelled, producer, held, channelClosed, observed, results>>

-----------------------------------------------------------------------------
(* writeBatch.                                                             *)

\* The switch is loaded once for the whole write.
WriteStart ==
    /\ pc["worker"] = "write"
    /\ observed' = metricsEnabled
    /\ counters' = IF metricsEnabled
                   THEN [counters EXCEPT !.inFlight = Len(batch)] ELSE counters
    /\ Goto("worker", "store")
    /\ UNCHANGED <<queueVars, batching, metricsEnabled, cancelled, producer, held, batch, channelClosed, results, historyVars>>

\* Mutant: a batch is written record by record, without a transaction around it.
WriteReturns_NoTransaction(ok) ==
    /\ pc["worker"] = "store"
    /\ ok \in SUBSET Elems(batch)
    /\ results' = ok
    /\ written' = Bump(written, ok)
    /\ failed' = failed \union (Elems(batch) \ ok)
    /\ Goto("worker", "settle")
    /\ UNCHANGED <<queueVars, batching, metricsEnabled, cancelled, producer, held, batch, channelClosed, observed, counters, dropped, cleanups>>

\* The store wrote the records of ok: all or none of them when it batches.
WriteReturns(ok) ==
    /\ pc["worker"] = "store"
    /\ ok \in SUBSET Elems(batch)
    /\ batching => ok \in {{}, Elems(batch)}
    /\ results' = ok
    /\ written' = Bump(written, ok)
    /\ failed' = failed \union (Elems(batch) \ ok)
    /\ Goto("worker", "settle")
    /\ UNCHANGED <<queueVars, batching, metricsEnabled, cancelled, producer, held, batch, channelClosed, observed, counters, dropped, cleanups>>

SettledCounters ==
    [counters EXCEPT !.successes = @ + Cardinality(results),
                     !.failures = @ + Len(batch) - Cardinality(results),
                     !.inFlight = 0]

\* Counters, then the deferred cleanup of every record of the batch.
WriteSettle ==
    /\ pc["worker"] = "settle"
    /\ counters' = IF observed THEN SettledCounters ELSE counters
    /\ Cleanup(Elems(batch))
    /\ batch' = <<>>
    /\ results' = {}
    /\ Goto("worker", IF channelClosed THEN "done" ELSE "select")
    /\ UNCHANGED <<queueVars, batching, metricsEnabled, cancelled, producer, held, channelClosed, observed, written, failed, dropped>>

-----------------------------------------------------------------------------
(* discardQueuedRecords, run by the worker and by Close.                   *)

AfterDrain(t) == IF t = "worker" THEN "done" ELSE "grace"

DrainReceive(t) ==
    /\ pc[t] = "drain"
    /\ Receive(t)
    /\ Goto(t, "drainMark")
    /\ UNCHANGED <<batching, metricsEnabled, cancelled, producer, workerVars, counters, historyVars>>

DrainMark(t) ==
    /\ pc[t] = "drainMark"
    /\ MarkRecordDequeued
    /\ Goto(t, "drainDiscard")
    /\ UNCHANGED <<batching, metricsEnabled, cancelled, producer, held, workerVars, counters, historyVars>>

DrainDiscard(t) ==
    /\ pc[t] = "drainDiscard"
    /\ DiscardRecord(held[t])
    /\ held' = [held EXCEPT ![t] = None]
    /\ Goto(t, "drain")
    /\ UNCHANGED <<queueVars, batching, metricsEnabled, cancelled, producer, workerVars>>

DrainEmpty(t) ==
    /\ pc[t] = "drain"
    /\ ch = <<>>
    /\ Goto(t, AfterDrain(t))
    /\ UNCHANGED <<queueVars, batching, metricsEnabled, cancelled, producer, held, workerVars, counters, historyVars>>

-----------------------------------------------------------------------------
(* Close, under closeOnce.                                                 *)

CloseStart ==
    /\ pc["closer"] = "idle"
    /\ accepting' = FALSE
    /\ Goto("closer", "wait")
    /\ UNCHANGED <<ch, queuedAt, batching, metricsEnabled, cancelled, producer, held, workerVars, counters, historyVars>>

\* The worker flushed within closeTimeout.
CloseFlushed ==
    /\ pc["closer"] = "wait"
    /\ pc["worker"] = "done"
    /\ cancelled' = TRUE
    /\ Goto("closer", "returned")
    /\ UNCHANGED <<queueVars, batching, metricsEnabled, producer, held, workerVars, counters, historyVars>>

\* closeTimer fired: cancel the worker and help it to empty the channel.
CloseDeadline ==
    /\ pc["closer"] = "wait"
    /\ cancelled' = TRUE
    /\ Goto("closer", "drain")
    /\ UNCHANGED <<queueVars, batching, metricsEnabled, producer, held, workerVars, counters, historyVars>>

\* Mutant: no grace timer, Close waits for the worker however long it takes.
CloseGrace_NoTimer(outcome) ==
    /\ pc["closer"] = "grace"
    /\ outcome = "returned"
    /\ pc["worker"] = "done"
    /\ Goto("closer", outcome)
    /\ UNCHANGED <<queueVars, batching, metricsEnabled, cancelled, producer, held, workerVars, counters, historyVars>>

\* The worker ended within the grace, or graceTimer fired first.
CloseGrace(outcome) ==
    /\ pc["closer"] = "grace"
    /\ outcome \in {"returned", "abandoned"}
    /\ outcome = "returned" => pc["worker"] = "done"
    /\ Goto("closer", outcome)
    /\ UNCHANGED <<queueVars, batching, metricsEnabled, cancelled, producer, held, workerVars, counters, historyVars>>

-----------------------------------------------------------------------------

Enqueue(r) ==
    \/ EnqueueAdmitted(r) \/ EnqueueRefused(r) \/ EnqueueDiscard(r) \/ EnqueueCount(r)

Drain(t) ==
    \/ DrainReceive(t) \/ DrainMark(t) \/ DrainDiscard(t) \/ DrainEmpty(t)

StoreCall == \E ok \in SUBSET Records : WriteReturns(ok)

\* The worker's own steps: all of them except the return of the store's call.
Run ==
    \/ RunReceive \/ RunCancelled \/ RunClosed \/ RunMark
    \/ CollectReceive \/ CollectMark \/ CollectTimer \/ CollectClosed \/ CollectCancelled
    \/ DiscardBatch \/ WriteStart \/ WriteSettle \/ Drain("worker")

\* What Close does once it has started.
CloseSteps ==
    \/ CloseFlushed \/ CloseDeadline \/ Drain("closer")
    \/ \E outcome \in {"returned", "abandoned"} : CloseGrace(outcome)

Next ==
    \/ \E enabled \in MetricsModes : SetMetricsEnabled(enabled)
    \/ \E r \in Records : Enqueue(r)
    \/ Run
    \/ StoreCall
    \/ CloseStart
    \/ CloseSteps

Safety == Init /\ [][Next]_vars

(***************************************************************************)
(* The scheduler runs the worker and Close, and timers fire.  A store call *)
(* owes nothing: its context has a deadline, but a store may ignore it.    *)
(* Requests and the administrator owe nothing either, except that a        *)
(* goroutine inside Enqueue goes on to its end.                            *)
(***************************************************************************)
Spec ==
    /\ Safety
    /\ WF_vars(CloseSteps)
    /\ WF_vars(Run)
    /\ \A r \in Records : WF_vars(EnqueueDiscard(r) \/ EnqueueCount(r))

-----------------------------------------------------------------------------
(* Properties.                                                             *)

Labels ==
    {"select", "mark", "collect", "collectMark", "write", "store", "settle", "discardBatch",
     "drain", "drainMark", "drainDiscard", "done", "idle", "wait", "grace", "returned", "abandoned"}

\* Every variable has the type its Go counterpart has.
TypeOK ==
    /\ ch \in Seq(Records) /\ Len(ch) <= Buffer
    /\ queuedAt \in Seq(Records)
    /\ accepting \in BOOLEAN /\ batching \in BOOLEAN /\ metricsEnabled \in BOOLEAN /\ cancelled \in BOOLEAN
    /\ producer \in [Records -> {"new", "count", "admitted", "discard", "refused"}]
    /\ pc \in [Threads -> Labels]
    /\ held \in [Threads -> Records \union {None}]
    /\ batch \in Seq(Records) /\ Len(batch) <= BatchSize
    /\ channelClosed \in BOOLEAN /\ observed \in BOOLEAN
    /\ results \in SUBSET Records
    /\ counters \in [{"accepted", "dropped", "successes", "failures", "inFlight"} -> Int]
    /\ written \in [Records -> Nat] /\ cleanups \in [Records -> Nat]
    /\ failed \in SUBSET Records /\ dropped \in SUBSET Records

\* Where a record that the writer still has to deal with can be.
Owned == Elems(ch) \union Elems(batch) \union {held["worker"], held["closer"]}

\* A record's spool files are removed at most once, and never while the record
\* is still queued, in a goroutine's hands or in a batch the store may be reading
\* (the deferred cleanup of writeBatch and the cleanup of discardRecord never meet).
CleanedOnceAndLast ==
    \A r \in Records : /\ cleanups[r] <= 1
                       /\ cleanups[r] = 1 => r \notin Owned

\* Worker and Close drain the same channel, yet no record is written twice or meets
\* two of the ends written, failed and dropped, and its cleanup follows its end.
Ended(r) == r \in dropped \/ ((r \in failed \/ written[r] = 1) /\ r \notin Elems(batch))

OneFate ==
    \A r \in Records : /\ written[r] <= 1
                       /\ written[r] = 1 => r \notin failed \union dropped
                       /\ r \notin failed \intersect dropped
                       /\ cleanups[r] = 1 <=> Ended(r)

\* Goroutines that have received a record and not yet removed its marker.
Unmarked == {t \in Threads : pc[t] \in {"mark", "collectMark", "drainMark"}}

\* The markers behind Stats' oldest-record age: whatever worker and Close have taken
\* out but not yet marked, the newest Len(ch) markers are those of the records queued.
MarkersFollowQueue ==
    /\ Len(queuedAt) = Len(ch) + Cardinality(Unmarked)
    /\ \A i \in 1 .. Len(ch) : queuedAt[Len(queuedAt) - Len(ch) + i] = ch[i]

\* When the worker has ended, admission is closed and nothing is left in the channel
\* or in its batch: no record is stranded by any of run's four ways out.
WorkerLeavesNothing ==
    pc["worker"] = "done" =>
        /\ ~accepting /\ ch = <<>> /\ batch = <<>> /\ held["worker"] = None

\* Counters never claim more than happened, whenever they are switched, and the
\* in-flight gauge is back at zero outside writeBatch.
CountersHonest ==
    /\ counters["accepted"] <= Cardinality({r \in Records : producer[r] = "admitted"})
    /\ counters["dropped"] <= Cardinality(dropped)
    /\ counters["failures"] <= Cardinality(failed)
    /\ counters["successes"] <= Cardinality({r \in Records : written[r] = 1})
    /\ pc["worker"] \notin {"store", "settle"} => counters["inFlight"] = 0

\* The writer's bookkeeping holds together at every step of its goroutines: types and
\* bounds, one end for each record and its files, markers that follow the channel, a worker that
\* strands nothing, counters that claim nothing that did not happen.
WriterInv ==
    /\ TypeOK
    /\ OneFate
    /\ CleanedOnceAndLast
    /\ MarkersFollowQueue
    /\ WorkerLeavesNothing
    /\ CountersHonest

\* Close returns although the store may never answer: it waits for timers only.
CloseReturns ==
    (pc["closer"] = "wait") ~> (pc["closer"] \in {"returned", "abandoned"})

\* If the store's calls end, the writer always catches up: again and again every
\* record offered so far is cleaned up, with or without a Close, so no batch waits
\* for records that never come.
OfferedIsSettled ==
    []<>(pc["worker"] # "store") =>
        []<>(\A r \in Records : producer[r] # "new" => cleanups[r] = 1)

-----------------------------------------------------------------------------
(* The writer implements the ledger.                                       *)

\* The guards exclude each other: a record ends once, and what is refused is never written.
Taken(r) == producer[r] \in {"count", "admitted"}

FateOf(r) ==
    CASE producer[r] = "new"                    -> "new"
      [] producer[r] \in {"discard", "refused"} -> "refused"
      [] Taken(r) /\ written[r] > 0             -> "written"
      [] Taken(r) /\ r \in failed               -> "failed"
      [] Taken(r) /\ r \in dropped              -> "dropped"
      [] OTHER                                  -> "pending"

\* Records wait in the channel and in the batch; Close takes over only what was there.
Ledger == INSTANCE UsageLedger WITH
    Capacity <- Buffer + BatchSize,
    fate     <- [r \in Records |-> FateOf(r)],
    atomic   <- batching,
    closed   <- ~accepting,
    deadline <- cancelled

\* Seen through FateOf, the goroutines of the writer do what the ledger allows: no
\* late admission, whole batches, drops after the deadline, a bounded backlog.
RefinesLedger == Ledger!LedgerSpec

=============================================================================
