------------------------ MODULE AsyncUsageWriterProofs ------------------------
(***************************************************************************)
(* Proofs about the usage log: AsyncUsageWriter for any number of records, *)
(* any channel and any batch size; ToolRouting, which names the tool a     *)
(* call is counted under, for any set of bodies; and UsageHistory, the     *)
(* tables the records end in, for any keys, readers and retentions.        *)
(*                                                                         *)
(* One end per record is not inductive: that a record has had none when it *)
(* is written or dropped follows from where it is.  IWriter therefore says *)
(* where records can be (Placement: in the channel, in the batch or in one *)
(* goroutine's hands, and in one of them only), what has happened to those *)
(* that are in each place (Fates), and which of it goes with each control  *)
(* point (Control).  The refinement of UsageLedger rests on the same       *)
(* invariant.                                                              *)
(*                                                                         *)
(* Conservation of calls is not inductive either: rows of the rollups say  *)
(* how many calls they count and not which.  IHistory therefore splits the *)
(* committed calls over raw rows, hours and days (Split), says how far the *)
(* pass has come (PassSearches), and that what a request for statistics    *)
(* has read is such a split as well (SnapshotOf).  Sums of rows are then   *)
(* cardinalities of sets of calls.                                         *)
(***************************************************************************)
EXTENDS ToolRouting, AsyncUsageWriter, UsageHistory, FiniteSetTheorems, FunctionTheorems,
        WellFoundedInduction, NaturalsInduction, TLAPS

-----------------------------------------------------------------------------
(* The inductive invariant.                                                *)

Distinct(s) == \A i, j \in DOMAIN s : s[i] = s[j] => i = j

WorkerLabels == {"select", "mark", "collect", "collectMark", "write", "store", "settle",
                 "discardBatch", "drain", "drainMark", "drainDiscard", "done"}
CloserLabels == {"idle", "wait", "drain", "drainMark", "drainDiscard", "grace", "returned",
                 "abandoned"}
Holding == {"mark", "collectMark", "drainMark", "drainDiscard"}
Filling == {"collect", "collectMark"}
Writing == {"write", "store", "settle"}

\* A record is in one place at most, and only if it was admitted.
Placement ==
    /\ Distinct(ch) /\ Distinct(batch)
    /\ Elems(ch) \intersect Elems(batch) = {}
    /\ \A t \in Threads : held[t] \notin Elems(ch) \union Elems(batch)
    /\ held["worker"] # None => held["worker"] # held["closer"]
    /\ \A r \in Records : r \in Owned => producer[r] \in {"count", "admitted"}

\* What each control point of the worker and of Close implies.
Control ==
    /\ pc["worker"] \in WorkerLabels /\ pc["closer"] \in CloserLabels
    /\ \A t \in Threads : (held[t] # None) <=> (pc[t] \in Holding)
    /\ pc["worker"] \in Filling => Len(batch) < BatchSize
    /\ pc["worker"] \in Filling \union Writing => batch # <<>>
    /\ pc["worker"] \notin Filling \union Writing \union {"discardBatch"} => batch = <<>>
    /\ channelClosed => ChannelDrained
    /\ pc["worker"] = "done" => ChannelDrained
    /\ accepting <=> (pc["closer"] = "idle")
    /\ cancelled => pc["closer"] \notin {"idle", "wait"}
    /\ pc["closer"] \in {"drain", "drainMark", "drainDiscard"} => cancelled
    /\ pc["worker"] \in {"discardBatch", "drain", "drainMark", "drainDiscard"} => cancelled

\* Nothing has happened to the record yet.
Untouched(r) == written[r] = 0 /\ r \notin failed /\ r \notin dropped /\ cleanups[r] = 0

\* The store has answered for the record, and its cleanup is still to come.
Answered(r) ==
    /\ r \notin dropped /\ cleanups[r] = 0
    /\ IF r \in results THEN written[r] = 1 /\ r \notin failed
                        ELSE written[r] = 0 /\ r \in failed

\* The record has had one end and its cleanup.
Finished(r) ==
    /\ cleanups[r] = 1
    /\ \/ written[r] = 1 /\ r \notin failed /\ r \notin dropped
       \/ written[r] = 0 /\ r \in failed /\ r \notin dropped
       \/ written[r] = 0 /\ r \notin failed /\ r \in dropped

\* What has happened to a record follows from where it is.
Fates ==
    \A r \in Records :
        /\ producer[r] \in {"new", "discard"} => Untouched(r)
        /\ producer[r] = "refused" => Finished(r) /\ r \in dropped
        /\ r \in Owned => IF pc["worker"] = "settle" /\ r \in Elems(batch)
                          THEN Answered(r) ELSE Untouched(r)
        /\ producer[r] \in {"count", "admitted"} /\ r \notin Owned => Finished(r)

\* The store's answer is about the batch.
ResultsFit ==
    /\ results \subseteq Elems(batch)
    /\ pc["worker"] # "settle" => results = {}

\* Counters with what writeBatch is about to add to them.
CountersFit ==
    LET answered == IF pc["worker"] = "settle" THEN Elems(batch) ELSE {}
    IN  /\ counters["accepted"] <= Cardinality({r \in Records : producer[r] = "admitted"})
        /\ counters["dropped"] <= Cardinality(dropped)
        /\ counters["failures"] + Cardinality(answered \ results) <= Cardinality(failed)
        /\ counters["successes"] + Cardinality(results)
             <= Cardinality({r \in Records : written[r] = 1})
        /\ counters["inFlight"] # 0 => pc["worker"] \in {"store", "settle"} /\ observed

IWriter ==
    /\ TypeOK
    /\ Control
    /\ Placement
    /\ Fates
    /\ ResultsFit
    /\ MarkersFollowQueue
    /\ CountersFit

-----------------------------------------------------------------------------
(* Sequences without repetition.                                           *)

LEMMA ElemsOfSeq ==
    ASSUME NEW S, NEW s \in Seq(S)
    PROVE  /\ Elems(s) \subseteq S
           /\ Len(s) \in Nat /\ DOMAIN s = 1 .. Len(s)
           /\ Elems(s) = {} <=> s = <<>>
           /\ Len(s) = 0 <=> s = <<>>
BY DEF Elems

LEMMA AppendElem ==
    ASSUME NEW S, NEW s \in Seq(S), NEW x \in S
    PROVE  /\ Append(s, x) \in Seq(S) /\ Append(s, x) # <<>>
           /\ Len(Append(s, x)) = Len(s) + 1
           /\ Elems(Append(s, x)) = Elems(s) \union {x}
           /\ Distinct(s) /\ x \notin Elems(s) => Distinct(Append(s, x))
<1>1. /\ Append(s, x) \in Seq(S) /\ Len(Append(s, x)) = Len(s) + 1
      /\ DOMAIN Append(s, x) = 1 .. Len(s) + 1 /\ DOMAIN s = 1 .. Len(s) /\ Len(s) \in Nat
      /\ \A i \in 1 .. Len(s) : Append(s, x)[i] = s[i]
      /\ Append(s, x)[Len(s) + 1] = x
  OBVIOUS
<1>2. Elems(Append(s, x)) = Elems(s) \union {x}
  BY <1>1 DEF Elems
<1>3. Distinct(s) /\ x \notin Elems(s) => Distinct(Append(s, x))
  BY <1>1 DEF Elems, Distinct
<1> QED
  BY <1>1, <1>2, <1>3

LEMMA TailElems ==
    ASSUME NEW S, NEW s \in Seq(S), s # <<>>
    PROVE  /\ Head(s) \in S /\ Tail(s) \in Seq(S) /\ Len(Tail(s)) = Len(s) - 1
           /\ Head(s) \in Elems(s)
           /\ Elems(s) = Elems(Tail(s)) \union {Head(s)}
           /\ Distinct(s) => Distinct(Tail(s)) /\ Head(s) \notin Elems(Tail(s))
<1>1. /\ Head(s) \in S /\ Tail(s) \in Seq(S) /\ Len(Tail(s)) = Len(s) - 1
      /\ Len(s) \in Nat \ {0} /\ DOMAIN s = 1 .. Len(s) /\ DOMAIN Tail(s) = 1 .. Len(s) - 1
      /\ \A i \in 1 .. Len(s) - 1 : Tail(s)[i] = s[i + 1]
      /\ Head(s) = s[1]
  OBVIOUS
<1>2. Head(s) \in Elems(s)
  BY <1>1 DEF Elems
<1>3. Elems(s) = Elems(Tail(s)) \union {Head(s)}
  <2>1. ASSUME NEW i \in DOMAIN s
        PROVE  s[i] \in Elems(Tail(s)) \union {Head(s)}
    <3>1. CASE i = 1
      BY <1>1, <3>1
    <3>2. CASE i # 1
      <4>1. i - 1 \in DOMAIN Tail(s) /\ Tail(s)[i - 1] = s[i]
        BY <1>1, <3>2
      <4> QED
        BY <4>1 DEF Elems
    <3> QED
      BY <3>1, <3>2
  <2>2. Elems(Tail(s)) \subseteq Elems(s)
    BY <1>1 DEF Elems
  <2> QED
    BY <1>2, <2>1, <2>2 DEF Elems
<1>4. Distinct(s) => Distinct(Tail(s)) /\ Head(s) \notin Elems(Tail(s))
  BY <1>1 DEF Distinct, Elems
<1> QED
  BY <1>1, <1>2, <1>3, <1>4

LEMMA OneElem ==
    ASSUME NEW S, NEW x \in S
    PROVE  /\ <<x>> \in Seq(S) /\ Len(<<x>>) = 1 /\ <<x>> # <<>>
           /\ Elems(<<x>>) = {x} /\ Distinct(<<x>>)
BY DEF Elems, Distinct

-----------------------------------------------------------------------------
(* Types.                                                                  *)

LEMMA WriterConstants == BatchSize \in Nat /\ BatchSize > 0 /\ Buffer \in Nat /\ Buffer > 0
BY WriterAssumption

\* Counting keeps the counters' type, whatever the switch says.
LEMMA CountTypes ==
    ASSUME TypeOK, NEW name \in {"accepted", "dropped", "successes", "failures"}
    PROVE  /\ Count(name, 1) => counters' \in [{"accepted", "dropped", "successes", "failures", "inFlight"} -> Int]
           /\ CountIf(metricsEnabled, name, 1) =>
                counters' \in [{"accepted", "dropped", "successes", "failures", "inFlight"} -> Int]
BY DEF TypeOK, Count, CountIf

LEMMA BumpTypes ==
    ASSUME NEW f \in [Records -> Nat], NEW rs
    PROVE  /\ Bump(f, rs) \in [Records -> Nat]
           /\ \A r \in Records : Bump(f, rs)[r] = IF r \in rs THEN f[r] + 1 ELSE f[r]
BY DEF Bump

\* A discarded record is dropped and cleaned up, and nothing else.
LEMMA DiscardTypes ==
    ASSUME TypeOK, NEW r \in Records, DiscardRecord(r)
    PROVE  /\ dropped' \in SUBSET Records /\ cleanups' \in [Records -> Nat]
           /\ counters' \in [{"accepted", "dropped", "successes", "failures", "inFlight"} -> Int]
           /\ written' = written /\ failed' = failed
<1>1. dropped' \in SUBSET Records
  BY DEF DiscardRecord, TypeOK
<1>2. cleanups' \in [Records -> Nat]
  <2>1. cleanups \in [Records -> Nat] /\ cleanups' = Bump(cleanups, {r})
    BY DEF DiscardRecord, TypeOK, Cleanup
  <2> QED  BY <2>1, BumpTypes
<1>3. counters' \in [{"accepted", "dropped", "successes", "failures", "inFlight"} -> Int]
  BY CountTypes DEF DiscardRecord
<1>4. written' = written /\ failed' = failed
  BY DEF DiscardRecord
<1> QED  BY <1>1, <1>2, <1>3, <1>4

\* What a receive leaves in the channel and in the goroutine's hands.
LEMMA ReceiveTypes ==
    ASSUME TypeOK, NEW t \in Threads, Receive(t)
    PROVE  /\ ch' \in Seq(Records) /\ Len(ch') <= Buffer
           /\ held' \in [Threads -> Records \union {None}]
           /\ queuedAt' = queuedAt /\ accepting' = accepting
BY TailElems, WriterConstants DEF Receive, TypeOK

LEMMA MarkTypes ==
    ASSUME TypeOK, MarkRecordDequeued
    PROVE  queuedAt' \in Seq(Records) /\ ch' = ch /\ accepting' = accepting
BY TailElems DEF MarkRecordDequeued, TypeOK

\* What the variables hold keeps the types of their Go counterparts.
LEMMA TypesPreserved == TypeOK /\ Control /\ Next => TypeOK'
<1> SUFFICES ASSUME TypeOK, Control, Next PROVE TypeOK'
  OBVIOUS
<1> USE WriterConstants
<1>1. ASSUME NEW enabled \in MetricsModes, SetMetricsEnabled(enabled)
      PROVE  TypeOK'
  BY <1>1, WriterAssumption DEF SetMetricsEnabled, queueVars, workerVars, historyVars, TypeOK
<1>2. ASSUME NEW r \in Records, EnqueueAdmitted(r)
      PROVE  TypeOK'
  <2>1. /\ ch' = Append(ch, r) /\ queuedAt' = Append(queuedAt, r)
        /\ ch \in Seq(Records) /\ queuedAt \in Seq(Records) /\ Len(ch) < Buffer
    BY <1>2 DEF EnqueueAdmitted, HasRoom, TypeOK
  <2>2. /\ ch' \in Seq(Records) /\ queuedAt' \in Seq(Records)
        /\ Len(ch') = Len(ch) + 1 /\ Len(ch) \in Nat
    BY <2>1, AppendElem
  <2>3. Len(ch') <= Buffer
    BY <2>1, <2>2
  <2>4. producer' \in [Records -> {"new", "count", "admitted", "discard", "refused"}]
    BY <1>2 DEF EnqueueAdmitted, TypeOK
  <2>5. UNCHANGED <<accepting, batching, metricsEnabled, cancelled, pc, held, workerVars, counters, historyVars>>
    BY <1>2 DEF EnqueueAdmitted
  <2> QED
    BY <2>2, <2>3, <2>4, <2>5 DEF workerVars, historyVars, TypeOK
<1>3. ASSUME NEW r \in Records, EnqueueRefused(r)
      PROVE  TypeOK'
  BY <1>3 DEF EnqueueRefused, queueVars, workerVars, historyVars, TypeOK
<1>4. ASSUME NEW r \in Records, EnqueueDiscard(r)
      PROVE  TypeOK'
  BY <1>4, DiscardTypes DEF EnqueueDiscard, queueVars, workerVars, TypeOK
<1>5. ASSUME NEW r \in Records, EnqueueCount(r)
      PROVE  TypeOK'
  BY <1>5, CountTypes DEF EnqueueCount, queueVars, workerVars, historyVars, TypeOK
<1>6. ASSUME NEW t \in Threads, Receive(t),
             UNCHANGED <<batching, metricsEnabled, cancelled, producer, workerVars, counters, historyVars>>,
             pc' \in [Threads -> Labels]
      PROVE  TypeOK'
  BY <1>6, ReceiveTypes DEF workerVars, historyVars, TypeOK
<1>7. ASSUME NEW t \in Threads,
             UNCHANGED <<queueVars, batching, metricsEnabled, producer, held, batch, observed, results,
                         counters, historyVars>>,
             cancelled' \in BOOLEAN, channelClosed' \in BOOLEAN, pc' \in [Threads -> Labels]
      PROVE  TypeOK'
  BY <1>7 DEF queueVars, historyVars, TypeOK
<1>8. CASE RunMark
  <2>1. held["worker"] \in Records
    BY <1>8 DEF RunMark, Control, Holding, Threads, TypeOK
  <2>2. batch' \in Seq(Records) /\ Len(batch') <= BatchSize
    <3>1. batch' = batch \/ batch' = <<held["worker"]>>
      BY <1>8 DEF RunMark
    <3>2. <<held["worker"]>> \in Seq(Records) /\ Len(<<held["worker"]>>) = 1
      BY <2>1, OneElem
    <3>3. 1 <= BatchSize
      OBVIOUS
    <3>4. CASE batch' = <<held["worker"]>>
      BY <3>2, <3>3, <3>4, Zenon
    <3> QED
      BY <3>1, <3>4 DEF TypeOK
  <2>3. held' \in [Threads -> Records \union {None}] /\ pc' \in [Threads -> Labels]
    <3>1. AfterCollect(batch') \in Labels
      BY DEF AfterCollect, Labels
    <3> QED
      BY <1>8, <3>1 DEF RunMark, Goto, Threads, Labels, TypeOK
  <2> QED
    BY <1>8, <2>2, <2>3, MarkTypes DEF RunMark, historyVars, TypeOK
<1>9. CASE CollectMark
  <2>1. held["worker"] \in Records /\ Len(batch) < BatchSize
    BY <1>9 DEF CollectMark, Control, Holding, Filling, Threads, TypeOK
  <2>2. batch' \in Seq(Records) /\ Len(batch') <= BatchSize
    BY <1>9, <2>1, AppendElem DEF CollectMark, TypeOK
  <2>3. held' \in [Threads -> Records \union {None}] /\ pc' \in [Threads -> Labels]
    BY <1>9 DEF CollectMark, Goto, AfterCollect, Threads, Labels, TypeOK
  <2> QED
    BY <1>9, <2>2, <2>3, MarkTypes DEF CollectMark, historyVars, TypeOK
<1>10. CASE DiscardBatch
  <2>1. CASE batch # <<>>
    <3>1. Head(batch) \in Records /\ Tail(batch) \in Seq(Records) /\ Len(Tail(batch)) <= BatchSize
      BY <2>1, TailElems DEF TypeOK
    <3> QED
      BY <1>10, <2>1, <3>1, DiscardTypes DEF DiscardBatch, queueVars, TypeOK
  <2>2. CASE batch = <<>>
    BY <1>10, <2>2 DEF DiscardBatch, Goto, Threads, Labels, queueVars, historyVars, TypeOK
  <2> QED
    BY <2>1, <2>2
<1>11. CASE WriteStart
  <2>1. Len(batch) \in Int
    BY DEF TypeOK
  <2>2. counters' \in [{"accepted", "dropped", "successes", "failures", "inFlight"} -> Int]
    BY <1>11, <2>1 DEF WriteStart, TypeOK
  <2> QED
    BY <1>11, <2>2 DEF WriteStart, Goto, Threads, Labels, queueVars, historyVars, TypeOK
<1>12. ASSUME NEW ok \in SUBSET Records, WriteReturns(ok)
       PROVE  TypeOK'
  <2>1. Elems(batch) \subseteq Records
    BY ElemsOfSeq DEF TypeOK
  <2> QED
    BY <1>12, <2>1, BumpTypes DEF WriteReturns, Goto, Threads, Labels, queueVars, TypeOK
<1>13. CASE WriteSettle
  <2>1. Len(batch) \in Nat /\ results \subseteq Records
    BY DEF TypeOK
  <2>2. Cardinality(results) \in Nat
    BY <2>1, WriterAssumption, FS_Subset, FS_CardinalityType
  <2>3. counters' \in [{"accepted", "dropped", "successes", "failures", "inFlight"} -> Int]
    <3>1. \A a, b, c \in Int :
            [counters EXCEPT !.successes = a, !.failures = b, !.inFlight = c]
              \in [{"accepted", "dropped", "successes", "failures", "inFlight"} -> Int]
      BY DEF TypeOK
    <3>2. /\ 0 \in Int
          /\ counters.successes + Cardinality(results) \in Int
          /\ counters.failures + Len(batch) - Cardinality(results) \in Int
      BY <2>1, <2>2 DEF TypeOK
    <3>3. SettledCounters \in [{"accepted", "dropped", "successes", "failures", "inFlight"} -> Int]
      <4>1. SettledCounters =
              [counters EXCEPT !.successes = counters.successes + Cardinality(results),
                               !.failures = counters.failures + Len(batch) - Cardinality(results),
                               !.inFlight = 0]
        BY Zenon DEF SettledCounters
      <4> HIDE DEF SettledCounters
      <4> QED
        BY <3>1, <3>2, <4>1, Zenon
    <3> QED
      BY <1>13, <3>3 DEF WriteSettle, TypeOK
  <2>4. pc' \in [Threads -> Labels] /\ batch' \in Seq(Records) /\ Len(batch') <= BatchSize
    BY <1>13 DEF WriteSettle, Goto, Threads, Labels, TypeOK
  <2> QED
    BY <1>13, <2>3, <2>4, BumpTypes DEF WriteSettle, Cleanup, queueVars, TypeOK
<1>14. ASSUME NEW t \in Threads, DrainMark(t)
       PROVE  TypeOK'
  BY <1>14, MarkTypes DEF DrainMark, Goto, Threads, Labels, workerVars, historyVars, TypeOK
<1>15. ASSUME NEW t \in Threads, DrainDiscard(t)
       PROVE  TypeOK'
  <2>1. held[t] \in Records
    BY <1>15 DEF DrainDiscard, Control, Holding, TypeOK
  <2> QED
    BY <1>15, <2>1, DiscardTypes DEF DrainDiscard, Goto, Labels, queueVars, workerVars, TypeOK
<1>16. CASE CloseStart
  BY <1>16 DEF CloseStart, Goto, Threads, Labels, workerVars, historyVars, TypeOK
<1>17. \A t \in Threads : (DrainReceive(t) \/ DrainEmpty(t)) => pc' \in [Threads -> Labels]
  BY DEF DrainReceive, DrainEmpty, AfterDrain, Goto, Threads, Labels, TypeOK
<1>18. ASSUME RunReceive \/ RunCancelled \/ RunClosed \/ CollectReceive \/ CollectTimer
              \/ CollectClosed \/ CollectCancelled \/ CloseFlushed \/ CloseDeadline
              \/ \E outcome \in {"returned", "abandoned"} : CloseGrace(outcome)
       PROVE  pc' \in [Threads -> Labels]
  BY <1>18
  DEF RunReceive, RunCancelled, RunClosed, CollectReceive, CollectTimer, CollectClosed,
      CollectCancelled, CloseFlushed, CloseDeadline, CloseGrace, Goto, Threads, Labels, TypeOK
<1>19. CASE RunReceive \/ CollectReceive \/ DrainReceive("worker") \/ DrainReceive("closer")
  BY <1>6, <1>17, <1>18, <1>19 DEF RunReceive, CollectReceive, DrainReceive, Threads
<1>20. CASE \/ RunCancelled \/ RunClosed \/ CollectTimer \/ CollectClosed \/ CollectCancelled
            \/ CloseFlushed \/ CloseDeadline \/ DrainEmpty("worker") \/ DrainEmpty("closer")
            \/ \E outcome \in {"returned", "abandoned"} : CloseGrace(outcome)
  <2>1. pc' \in [Threads -> Labels]
    BY <1>17, <1>18, <1>20 DEF Threads
  <2>2. cancelled' \in BOOLEAN /\ channelClosed' \in BOOLEAN
    BY <1>20
    DEF RunCancelled, RunClosed, CollectTimer, CollectClosed, CollectCancelled, CloseFlushed,
        CloseDeadline, CloseGrace, DrainEmpty, workerVars, TypeOK
  <2>3. UNCHANGED <<queueVars, batching, metricsEnabled, producer, held, batch, observed, results,
                    counters, historyVars>>
    BY <1>20
    DEF RunCancelled, RunClosed, CollectTimer, CollectClosed, CollectCancelled, CloseFlushed,
        CloseDeadline, CloseGrace, DrainEmpty, workerVars
  <2> QED
    BY <1>7, <2>1, <2>2, <2>3 DEF Threads
<1> QED
  BY <1>1, <1>2, <1>3, <1>4, <1>5, <1>8, <1>9, <1>10, <1>11, <1>12, <1>13, <1>14, <1>15,
     <1>16, <1>19, <1>20
  DEF Next, Enqueue, Run, StoreCall, CloseSteps, Drain, Threads

-----------------------------------------------------------------------------
(* Control points.                                                         *)

\* A step of another goroutine that leaves this part of the state alone.
LEMMA ControlKept ==
    ASSUME Control,
           UNCHANGED <<accepting, cancelled, pc, held, batch, channelClosed>>,
           ch' = ch \/ accepting
    PROVE  Control'
BY DEF Control, ChannelDrained

\* What each control point of the worker and of Close implies goes on holding.
LEMMA ControlPreserved == TypeOK /\ Control /\ Next => Control'
<1> SUFFICES ASSUME TypeOK, Control, Next PROVE Control'
  OBVIOUS
<1>0. held \in [Threads -> Records \union {None}] /\ pc \in [Threads -> Labels]
  BY DEF TypeOK
<1> USE DEF Threads, Holding, Filling, Writing, WorkerLabels, CloserLabels, ContextDone
<1>1. ASSUME NEW enabled \in MetricsModes, SetMetricsEnabled(enabled)
      PROVE  Control'
  BY <1>1, ControlKept DEF SetMetricsEnabled, queueVars, workerVars
<1>2. ASSUME NEW r \in Records, Enqueue(r)
      PROVE  Control'
  BY <1>2, ControlKept
  DEF Enqueue, EnqueueAdmitted, EnqueueRefused, EnqueueDiscard, EnqueueCount, Admitting,
      queueVars, workerVars
<1>3. ASSUME NEW t \in Threads, Receive(t)
      PROVE  held'[t] # None /\ \A u \in Threads \ {t} : held'[u] = held[u]
  <2>1. Head(ch) \in Records
    BY <1>3, TailElems DEF Receive, TypeOK
  <2> QED
    BY <1>0, <1>3, <2>1, WriterAssumption DEF Receive
<1>4. CASE RunReceive \/ CollectReceive \/ DrainReceive("worker")
  <2>1. Receive("worker")
    BY <1>4 DEF RunReceive, CollectReceive, DrainReceive
  <2> QED
    BY <1>0, <1>3, <1>4, <2>1
    DEF Control, RunReceive, CollectReceive, DrainReceive, Receive, Goto, ChannelDrained, workerVars
<1>5. CASE DrainReceive("closer")
  <2>1. Receive("closer")
    BY <1>5 DEF DrainReceive
  <2> QED
    BY <1>0, <1>3, <1>5, <2>1 DEF Control, DrainReceive, Receive, Goto, ChannelDrained, workerVars
<1>6. CASE RunCancelled \/ RunClosed
  BY <1>0, <1>6 DEF Control, RunCancelled, RunClosed, Goto, ChannelDrained, queueVars, workerVars
<1>7. CASE RunMark
  <2>1. CASE cancelled
    BY <1>0, <1>7, <2>1 DEF Control, RunMark, MarkRecordDequeued, Goto, ChannelDrained
  <2>2. CASE ~cancelled
    <3>1. held["worker"] \in Records
      BY <1>0, <1>7 DEF Control, RunMark
    <3>2. batch' # <<>> /\ Len(batch') \in Nat
      BY <1>7, <2>2, <3>1, OneElem DEF RunMark
    <3>3. Len(batch') < BatchSize \/ AfterCollect(batch') = "write"
      BY <3>2, WriterConstants DEF AfterCollect
    <3>4. AfterCollect(batch') \in {"collect", "write"}
      BY DEF AfterCollect
    <3> QED
      BY <1>0, <1>7, <2>2, <3>2, <3>3, <3>4
      DEF Control, RunMark, MarkRecordDequeued, Goto, ChannelDrained
  <2> QED
    BY <2>1, <2>2
<1>8. CASE CollectMark
  <2>1. held["worker"] \in Records
    BY <1>0, <1>8 DEF Control, CollectMark
  <2>2. batch' # <<>> /\ Len(batch') \in Nat
    <3>1. batch \in Seq(Records)
      BY DEF TypeOK
    <3>2. batch' = Append(batch, held["worker"])
      BY <1>8 DEF CollectMark
    <3> QED
      BY <2>1, <3>1, <3>2, AppendElem
  <2>3. Len(batch') < BatchSize \/ AfterCollect(batch') = "write"
    BY <2>2, WriterConstants DEF AfterCollect
  <2>4. AfterCollect(batch') \in {"collect", "write"}
    BY DEF AfterCollect
  <2> QED
    BY <1>0, <1>8, <2>2, <2>3, <2>4
    DEF Control, CollectMark, MarkRecordDequeued, Goto, ChannelDrained
<1>9. CASE CollectTimer \/ CollectClosed \/ CollectCancelled
  BY <1>0, <1>9
  DEF Control, CollectTimer, CollectClosed, CollectCancelled, Goto, ChannelDrained, queueVars, workerVars
<1>10. CASE DiscardBatch
  BY <1>0, <1>10 DEF Control, DiscardBatch, Goto, ChannelDrained, queueVars
<1>11. CASE WriteStart \/ StoreCall
  BY <1>0, <1>11 DEF Control, WriteStart, StoreCall, WriteReturns, Goto, ChannelDrained, queueVars
<1>12. CASE WriteSettle
  BY <1>0, <1>12 DEF Control, WriteSettle, Goto, ChannelDrained, queueVars
<1>13. ASSUME NEW t \in Threads, DrainMark(t)
       PROVE  Control'
  BY <1>0, <1>13 DEF Control, DrainMark, MarkRecordDequeued, Goto, ChannelDrained, workerVars
<1>14. ASSUME NEW t \in Threads, DrainDiscard(t)
       PROVE  Control'
  BY <1>0, <1>14 DEF Control, DrainDiscard, Goto, ChannelDrained, queueVars, workerVars
<1>15. ASSUME NEW t \in Threads, DrainEmpty(t)
       PROVE  Control'
  BY <1>0, <1>15 DEF Control, DrainEmpty, AfterDrain, Goto, ChannelDrained, queueVars, workerVars
<1>16. CASE CloseStart
  BY <1>0, <1>16 DEF Control, CloseStart, Goto, ChannelDrained, workerVars
<1>17. CASE CloseFlushed \/ CloseDeadline
  BY <1>0, <1>17 DEF Control, CloseFlushed, CloseDeadline, Goto, ChannelDrained, queueVars, workerVars
<1>18. ASSUME NEW outcome \in {"returned", "abandoned"}, CloseGrace(outcome)
       PROVE  Control'
  BY <1>0, <1>18 DEF Control, CloseGrace, Goto, ChannelDrained, queueVars, workerVars
<1> QED
  BY <1>1, <1>2, <1>4, <1>5, <1>6, <1>7, <1>8, <1>9, <1>10, <1>11, <1>12, <1>13, <1>14,
     <1>15, <1>16, <1>17, <1>18
  DEF Next, Run, CloseSteps, Drain

-----------------------------------------------------------------------------
(* Where records are.                                                      *)

\* The channel's oldest record goes into the hands of the goroutine that receives it.
LEMMA ReceiveMoves ==
    ASSUME TypeOK, Control, Placement, NEW t \in Threads, Receive(t), pc[t] \notin Holding,
           UNCHANGED <<batch, producer>>
    PROVE  Placement' /\ Owned' \ {None} = Owned \ {None}
<1> DEFINE x == Head(ch)
<1>1. /\ x \in Records /\ x \in Elems(ch) /\ Elems(ch) = Elems(ch') \union {x}
      /\ Distinct(ch') /\ x \notin Elems(ch')
  BY TailElems DEF Receive, TypeOK, Placement
<1>2. held[t] = None
  BY DEF Control, Threads
<1>3. held' = [held EXCEPT ![t] = x] /\ held \in [Threads -> Records \union {None}]
  BY DEF Receive, TypeOK
<1> HIDE DEF x
<1>4. Owned' \ {None} = Owned \ {None}
  BY <1>1, <1>2, <1>3 DEF Owned, Threads
<1>5. \A u \in Threads : held'[u] \notin Elems(ch') \union Elems(batch)
  BY <1>1, <1>3 DEF Placement
<1>6. held'["worker"] # None => held'["worker"] # held'["closer"]
  BY <1>1, <1>2, <1>3, WriterAssumption DEF Placement, Threads
<1> QED
  BY <1>1, <1>4, <1>5, <1>6, WriterAssumption DEF Placement, TypeOK

\* The record in the worker's hands joins the batch.
LEMMA JoinMoves ==
    ASSUME TypeOK, Placement, held["worker"] \in Records,
           batch' = Append(batch, held["worker"]) \/ (batch = <<>> /\ batch' = <<held["worker"]>>),
           held' = [held EXCEPT !["worker"] = None],
           UNCHANGED <<ch, producer>>
    PROVE  /\ Placement' /\ Owned' \ {None} = Owned \ {None}
           /\ Elems(batch') = Elems(batch) \union {held["worker"]}
<1>1. Distinct(batch') /\ Elems(batch') = Elems(batch) \union {held["worker"]}
  <2>1. CASE batch' = Append(batch, held["worker"])
    BY <2>1, AppendElem DEF Placement, TypeOK, Threads
  <2>2. CASE batch = <<>> /\ batch' = <<held["worker"]>>
    <3>1. Elems(batch) = {}
      BY <2>2 DEF Elems
    <3>2. Distinct(<<held["worker"]>>) /\ Elems(<<held["worker"]>>) = {held["worker"]}
      BY OneElem
    <3> QED
      BY <2>2, <3>1, <3>2, Zenon
  <2> QED
    BY <2>1, <2>2
<1>2. held \in [Threads -> Records \union {None}]
  BY DEF TypeOK
<1>3. Owned' \ {None} = Owned \ {None}
  BY <1>1, <1>2 DEF Owned, Threads
<1>4. Elems(ch) \subseteq Records /\ Elems(batch) \subseteq Records
  BY ElemsOfSeq DEF TypeOK
<1> QED
  BY <1>1, <1>2, <1>3, <1>4, WriterAssumption DEF Placement, Threads

\* A goroutine lets go of the record in its hands.
LEMMA LetGo ==
    ASSUME TypeOK, Placement, NEW t \in Threads, held[t] \in Records,
           held' = [held EXCEPT ![t] = None], UNCHANGED <<ch, batch, producer>>
    PROVE  Placement' /\ Owned' \ {None} = (Owned \ {held[t]}) \ {None}
<1>1. held \in [Threads -> Records \union {None}]
  BY DEF TypeOK
<1>2. Elems(ch) \subseteq Records /\ Elems(batch) \subseteq Records
  BY ElemsOfSeq DEF TypeOK
<1>3. Owned' \ {None} = (Owned \ {held[t]}) \ {None}
  BY <1>1, <1>2, WriterAssumption DEF Owned, Placement, Threads
<1> QED
  BY <1>1, <1>2, <1>3, WriterAssumption DEF Placement, Threads

\* Records leave the batch: the first one, or all of them.
LEMMA BatchShrinks ==
    ASSUME TypeOK, Placement,
           (batch # <<>> /\ batch' = Tail(batch)) \/ batch' = <<>>,
           UNCHANGED <<ch, held, producer>>
    PROVE  /\ Placement'
           /\ Owned' \ {None} = (Owned \ (Elems(batch) \ Elems(batch'))) \ {None}
<1>1. Distinct(batch') /\ Elems(batch') \subseteq Elems(batch)
  <2>1. CASE batch # <<>> /\ batch' = Tail(batch)
    BY <2>1, TailElems DEF Placement, TypeOK
  <2>2. CASE batch' = <<>>
    BY <2>2 DEF Elems, Distinct
  <2> QED
    BY <2>1, <2>2
<1>2. Owned' \ {None} = (Owned \ (Elems(batch) \ Elems(batch'))) \ {None}
  BY <1>1 DEF Owned, Placement, Threads
<1> QED
  BY <1>1, <1>2, WriterAssumption DEF Placement

\* Nothing moves, and no record becomes one that was not admitted.
LEMMA NothingMoves ==
    ASSUME Placement, UNCHANGED <<ch, held, batch>>,
           \A r \in Records : producer[r] \in {"count", "admitted"} =>
                               producer'[r] \in {"count", "admitted"}
    PROVE  Placement' /\ Owned' = Owned
<1>1. Elems(ch') = Elems(ch) /\ Elems(batch') = Elems(batch) /\ Owned' = Owned
  BY DEF Elems, Owned
<1>2. Distinct(ch') /\ Distinct(batch')
  BY DEF Placement
<1> QED
  BY <1>1, <1>2 DEF Placement

\* An admitted record enters the channel and was nowhere before.
LEMMA AdmissionPlaces ==
    ASSUME TypeOK, Placement, NEW r \in Records, EnqueueAdmitted(r)
    PROVE  Placement' /\ Owned' \ {None} = (Owned \union {r}) \ {None}
<1>1. r \notin Owned
  BY DEF EnqueueAdmitted, Placement
<1>2. Elems(ch') = Elems(ch) \union {r} /\ Distinct(ch')
  BY <1>1, AppendElem DEF EnqueueAdmitted, Placement, Owned, TypeOK
<1>3. Owned' = Owned \union {r}
  BY <1>2 DEF EnqueueAdmitted, Owned, workerVars
<1>4. \A q \in Records : q \in Owned' => producer'[q] \in {"count", "admitted"}
  BY <1>3 DEF EnqueueAdmitted, Placement, TypeOK
<1> QED
  BY <1>1, <1>2, <1>3, <1>4 DEF EnqueueAdmitted, Placement, Owned, workerVars, Threads

-----------------------------------------------------------------------------
(* What has happened to records.                                           *)

\* What has happened to one record stays as it is.
SameFate(r) ==
    /\ written'[r] = written[r] /\ cleanups'[r] = cleanups[r]
    /\ r \in failed' <=> r \in failed
    /\ r \in dropped' <=> r \in dropped

\* A record that keeps its place and its history keeps what Fates says of it.
FateFits(r) ==
    /\ producer[r] \in {"new", "discard"} => Untouched(r)
    /\ producer[r] = "refused" => Finished(r) /\ r \in dropped
    /\ r \in Owned => IF pc["worker"] = "settle" /\ r \in Elems(batch)
                      THEN Answered(r) ELSE Untouched(r)
    /\ producer[r] \in {"count", "admitted"} /\ r \notin Owned => Finished(r)

LEMMA FateKept ==
    ASSUME NEW r \in Records, FateFits(r), SameFate(r),
           producer'[r] = producer[r] \/ (producer[r] = "count" /\ producer'[r] = "admitted"),
           r \in Owned' <=> r \in Owned,
           pc'["worker"] = "settle" <=> pc["worker"] = "settle",
           pc["worker"] = "settle" =>
             results' = results /\ (r \in Elems(batch') <=> r \in Elems(batch))
    PROVE  FateFits(r)'
BY DEF FateFits, SameFate, Untouched, Answered, Finished

\* A record that is discarded has its one end with that.
LEMMA DiscardEnds ==
    ASSUME TypeOK, NEW x \in Records, Untouched(x), DiscardRecord(x)
    PROVE  /\ Finished(x)' /\ x \in dropped'
           /\ \A r \in Records \ {x} : SameFate(r)
<1>1. \A r \in Records : cleanups'[r] = IF r \in {x} THEN cleanups[r] + 1 ELSE cleanups[r]
  BY DEF DiscardRecord, Cleanup, Bump
<1>2. written' = written /\ failed' = failed /\ dropped' = dropped \union {x}
  BY DEF DiscardRecord
<1> QED
  BY <1>1, <1>2 DEF Untouched, Finished, SameFate

\* A step that only moves records keeps what has happened to them.
LEMMA MoveKeepsFates ==
    ASSUME TypeOK, Fates, UNCHANGED <<historyVars, producer, results>>,
           Owned' \ {None} = Owned \ {None},
           pc'["worker"] = "settle" <=> pc["worker"] = "settle",
           pc["worker"] = "settle" => batch' = batch
    PROVE  Fates'
<1>1. ASSUME NEW r \in Records
      PROVE  FateFits(r)'
  <2>1. FateFits(r) /\ SameFate(r) /\ (r \in Owned' <=> r \in Owned)
    BY WriterAssumption DEF Fates, FateFits, SameFate, historyVars
  <2> QED
    BY <2>1, FateKept DEF Elems
<1> QED
  BY <1>1 DEF Fates, FateFits

\* Enqueue leaves every record where it should be, with what has happened to it.
LEMMA EnqueuePlaces ==
    ASSUME TypeOK, Control, Placement, Fates, NEW x \in Records, Enqueue(x)
    PROVE  Placement' /\ Fates'
<1>1. \A r \in Records : FateFits(r)
  BY DEF Fates, FateFits
<1>2. ASSUME Placement', \A r \in Records : FateFits(r)'
      PROVE  Placement' /\ Fates'
  BY <1>2 DEF Fates, FateFits
<1>3. CASE EnqueueAdmitted(x)
  <2>1. Placement' /\ Owned' \ {None} = (Owned \union {x}) \ {None} /\ x \notin Owned
    BY <1>3, AdmissionPlaces DEF EnqueueAdmitted, Placement
  <2>2. ASSUME NEW r \in Records, r # x
        PROVE  FateFits(r)'
    <3>1. SameFate(r) /\ producer'[r] = producer[r] /\ (r \in Owned' <=> r \in Owned)
      BY <1>3, <2>1, <2>2, WriterAssumption DEF EnqueueAdmitted, SameFate, historyVars, TypeOK
    <3> QED
      BY <1>1, <1>3, <3>1, FateKept DEF EnqueueAdmitted, workerVars, Elems
  <2>3. FateFits(x)'
    <3>1. Untouched(x)' /\ producer'[x] \in {"count", "admitted"} /\ x \in Owned'
      BY <1>1, <1>3, <2>1, WriterAssumption
      DEF EnqueueAdmitted, FateFits, Untouched, historyVars, TypeOK
    <3>2. x \notin Elems(batch')
      BY <1>3, <2>1 DEF EnqueueAdmitted, workerVars, Owned
    <3> QED
      BY <3>1, <3>2 DEF FateFits
  <2> QED
    BY <1>2, <2>1, <2>2, <2>3
<1>4. CASE EnqueueRefused(x)
  <2>1. Placement' /\ Owned' = Owned
    BY <1>4, NothingMoves DEF EnqueueRefused, queueVars, workerVars, TypeOK
  <2>2. ASSUME NEW r \in Records
        PROVE  FateFits(r)'
    <3>1. SameFate(r)
      BY <1>4 DEF EnqueueRefused, SameFate, historyVars
    <3>2. CASE r = x
      BY <1>1, <1>4, <2>1, <3>1, <3>2
      DEF EnqueueRefused, FateFits, SameFate, Untouched, Placement, TypeOK
    <3>3. CASE r # x
      BY <1>1, <1>4, <2>1, <3>1, <3>3, FateKept DEF EnqueueRefused, workerVars, Elems, TypeOK
    <3> QED
      BY <3>2, <3>3
  <2> QED
    BY <1>2, <2>1, <2>2
<1>5. CASE EnqueueDiscard(x)
  <2>1. Placement' /\ Owned' = Owned /\ x \notin Owned
    <3>1. x \notin Owned
      BY <1>5 DEF EnqueueDiscard, Placement
    <3> QED
      BY <1>5, <3>1, NothingMoves DEF EnqueueDiscard, queueVars, workerVars, TypeOK
  <2>2. Finished(x)' /\ x \in dropped' /\ \A r \in Records \ {x} : SameFate(r)
    BY <1>1, <1>5, DiscardEnds DEF EnqueueDiscard, FateFits
  <2>3. ASSUME NEW r \in Records
        PROVE  FateFits(r)'
    <3>1. CASE r = x
      BY <1>5, <2>1, <2>2, <3>1 DEF EnqueueDiscard, FateFits, TypeOK
    <3>2. CASE r # x
      BY <1>1, <1>5, <2>1, <2>2, <3>2, FateKept DEF EnqueueDiscard, workerVars, Elems, TypeOK
    <3> QED
      BY <3>1, <3>2
  <2> QED
    BY <1>2, <2>1, <2>3
<1>6. CASE EnqueueCount(x)
  <2>1. Placement' /\ Owned' = Owned
    BY <1>6, NothingMoves DEF EnqueueCount, queueVars, workerVars, TypeOK
  <2>2. ASSUME NEW r \in Records
        PROVE  FateFits(r)'
    <3>1. SameFate(r)
      BY <1>6 DEF EnqueueCount, SameFate, historyVars
    <3> QED
      BY <1>1, <1>6, <2>1, <3>1, FateKept DEF EnqueueCount, workerVars, Elems, TypeOK
  <2> QED
    BY <1>2, <2>1, <2>2
<1> QED
  BY <1>3, <1>4, <1>5, <1>6 DEF Enqueue

\* A goroutine that discards the record in its hands gives it its end.
LEMMA DrainEnds ==
    ASSUME TypeOK, Control, Placement, Fates, NEW t \in Threads, DrainDiscard(t)
    PROVE  Placement' /\ Fates'
<1>1. PICK x \in Records : x = held[t] /\ x \in Owned /\ x \notin Elems(batch)
  BY DEF DrainDiscard, Control, Holding, Placement, Owned, TypeOK, Threads
<1>2. UNCHANGED <<ch, batch, producer, results>> /\ DiscardRecord(x)
  BY <1>1 DEF DrainDiscard, queueVars, workerVars
<1>3. Placement' /\ Owned' \ {None} = (Owned \ {x}) \ {None}
  BY <1>1, <1>2, LetGo DEF DrainDiscard
<1>4. Untouched(x)
  BY <1>1 DEF Fates
<1>5. (pc'["worker"] = "settle") <=> (pc["worker"] = "settle")
  BY DEF DrainDiscard, Goto, TypeOK
<1>6. Finished(x)' /\ x \in dropped' /\ \A r \in Records \ {x} : SameFate(r)
  BY <1>1, <1>2, <1>4, DiscardEnds
<1>7. ASSUME NEW r \in Records
      PROVE  FateFits(r)'
  <2>1. FateFits(r)
    BY DEF Fates, FateFits
  <2>2. CASE r = x
    <3>1. x \notin Owned' /\ producer'[x] \in {"count", "admitted"}
      BY <1>1, <1>2, <1>3, WriterAssumption DEF Placement
    <3> QED
      BY <1>6, <2>2, <3>1 DEF FateFits
  <2>3. CASE r # x
    <3>1. r \in Owned' <=> r \in Owned
      BY <1>3, <2>3, WriterAssumption
    <3> QED
      BY <1>2, <1>5, <1>6, <2>1, <2>3, <3>1, FateKept DEF Elems
  <2> QED
    BY <2>2, <2>3
<1> QED
  BY <1>3, <1>7 DEF Fates, FateFits

\* The first record of the batch is discarded, or the empty batch left for the channel.
LEMMA DiscardBatchEnds ==
    ASSUME TypeOK, Control, Placement, Fates, DiscardBatch
    PROVE  Placement' /\ Fates'
<1>1. CASE batch = <<>>
  <2>1. UNCHANGED <<ch, held, batch, producer, results, historyVars>>
    BY <1>1 DEF DiscardBatch, queueVars
  <2>2. pc["worker"] # "settle" /\ pc'["worker"] # "settle"
    BY <1>1 DEF DiscardBatch, Goto, TypeOK, Threads
  <2> QED
    BY <2>1, <2>2, NothingMoves, MoveKeepsFates
<1>2. CASE batch # <<>>
  <2>1. PICK x \in Records :
          /\ x = Head(batch) /\ x \in Elems(batch) /\ Elems(batch) = Elems(Tail(batch)) \union {x}
          /\ x \notin Elems(Tail(batch))
    BY <1>2, TailElems DEF Placement, TypeOK
  <2>2. /\ DiscardRecord(x) /\ batch' = Tail(batch) /\ pc' = pc /\ pc["worker"] = "discardBatch"
        /\ UNCHANGED <<ch, held, producer, results>>
    BY <1>2, <2>1 DEF DiscardBatch, queueVars
  <2>3. Placement' /\ Owned' \ {None} = (Owned \ {x}) \ {None}
    <3>1. /\ Placement'
          /\ Owned' \ {None} = (Owned \ (Elems(batch) \ Elems(batch'))) \ {None}
      BY <1>2, <2>2, BatchShrinks
    <3>2. Elems(batch) \ Elems(batch') = {x}
      BY <2>1, <2>2
    <3> QED
      BY <3>1, <3>2
  <2>4. x \in Owned /\ Untouched(x) /\ producer[x] \in {"count", "admitted"}
    BY <2>1, <2>2 DEF Owned, Fates, Placement
  <2>5. Finished(x)' /\ x \in dropped' /\ \A r \in Records \ {x} : SameFate(r)
    BY <2>1, <2>2, <2>4, DiscardEnds
  <2>6. ASSUME NEW r \in Records
        PROVE  FateFits(r)'
    <3>1. FateFits(r)
      BY DEF Fates, FateFits
    <3>2. CASE r = x
      <4>1. x \notin Owned'
        BY <2>1, <2>3, WriterAssumption
      <4> QED
        BY <2>2, <2>4, <2>5, <3>2, <4>1 DEF FateFits
    <3>3. CASE r # x
      <4>1. r \in Owned' <=> r \in Owned
        BY <2>3, <3>3, WriterAssumption
      <4> QED
        BY <2>2, <2>5, <3>1, <3>3, <4>1, FateKept
    <3> QED
      BY <3>2, <3>3
  <2> QED
    BY <2>3, <2>6 DEF Fates, FateFits
<1> QED
  BY <1>1, <1>2

\* The store answers for every record of the batch and for no other.
LEMMA StoreAnswers ==
    ASSUME TypeOK, Control, Placement, Fates, NEW ok \in SUBSET Records, WriteReturns(ok)
    PROVE  Placement' /\ Fates'
<1>1. UNCHANGED <<ch, held, batch, producer, dropped, cleanups>>
  BY DEF WriteReturns, queueVars
<1>2. Placement' /\ Owned' = Owned
  BY <1>1, NothingMoves
<1>3. /\ pc["worker"] = "store" /\ pc'["worker"] = "settle" /\ results' = ok
      /\ ok \subseteq Elems(batch) /\ failed' = failed \union (Elems(batch) \ ok)
      /\ \A r \in Records : written'[r] = IF r \in ok THEN written[r] + 1 ELSE written[r]
  BY DEF WriteReturns, Goto, Bump, TypeOK, Threads
<1>4. ASSUME NEW r \in Records
      PROVE  FateFits(r)'
  <2>1. FateFits(r)
    BY DEF Fates, FateFits
  <2>2. CASE r \in Elems(batch)
    <3>1. r \in Owned /\ Untouched(r) /\ producer[r] \in {"count", "admitted"}
      BY <1>3, <2>1, <2>2 DEF Owned, FateFits, Placement
    <3>2. Answered(r)'
      BY <1>1, <1>3, <2>2, <3>1 DEF Untouched, Answered
    <3>3. r \in Elems(batch')
      BY <1>1, <2>2
    <3> QED
      BY <1>1, <1>2, <1>3, <3>1, <3>2, <3>3 DEF FateFits
  <2>3. CASE r \notin Elems(batch)
    <3>1. SameFate(r) /\ r \notin Elems(batch')
      BY <1>1, <1>3, <2>3 DEF SameFate
    <3> QED
      BY <1>1, <1>2, <1>3, <2>1, <3>1 DEF FateFits, SameFate, Untouched, Finished
  <2> QED
    BY <2>2, <2>3
<1> QED
  BY <1>2, <1>4 DEF Fates, FateFits

\* The cleanup follows the store's answer, once for each record of the batch.
LEMMA SettleEnds ==
    ASSUME TypeOK, Control, Placement, Fates, WriteSettle
    PROVE  Placement' /\ Fates'
<1>1. UNCHANGED <<ch, held, producer, dropped, written, failed>> /\ batch' = <<>>
  BY DEF WriteSettle, queueVars
<1>2. Elems(batch') = {}
  BY <1>1 DEF Elems
<1>3. Placement' /\ Owned' \ {None} = (Owned \ Elems(batch)) \ {None}
  BY <1>1, <1>2, BatchShrinks
<1>4. /\ pc["worker"] = "settle" /\ pc'["worker"] # "settle"
      /\ \A r \in Records : cleanups'[r] = IF r \in Elems(batch) THEN cleanups[r] + 1 ELSE cleanups[r]
  BY DEF WriteSettle, Goto, Cleanup, Bump, TypeOK, Threads
<1>5. ASSUME NEW r \in Records
      PROVE  FateFits(r)'
  <2>1. FateFits(r)
    BY DEF Fates, FateFits
  <2>2. CASE r \in Elems(batch)
    <3>1. r \in Owned /\ Answered(r) /\ producer[r] \in {"count", "admitted"}
      BY <1>4, <2>1, <2>2 DEF Owned, FateFits, Placement
    <3>2. Finished(r)' /\ r \notin Owned'
      BY <1>1, <1>3, <1>4, <2>2, <3>1, WriterAssumption DEF Answered, Finished
    <3> QED
      BY <1>1, <3>1, <3>2 DEF FateFits
  <2>3. CASE r \notin Elems(batch)
    <3>1. SameFate(r) /\ (r \in Owned' <=> r \in Owned)
      BY <1>1, <1>3, <1>4, <2>3, WriterAssumption DEF SameFate
    <3> QED
      BY <1>1, <1>4, <2>1, <2>3, <3>1 DEF FateFits, SameFate, Untouched, Finished
  <2> QED
    BY <2>2, <2>3
<1> QED
  BY <1>3, <1>5 DEF Fates, FateFits

\* Whoever takes a step, every record is in one place and has what belongs there.
LEMMA RecordsStayPlaced == TypeOK /\ Control /\ Placement /\ Fates /\ Next => Placement' /\ Fates'
<1> SUFFICES ASSUME TypeOK, Control, Placement, Fates, Next PROVE Placement' /\ Fates'
  OBVIOUS
<1>1. ASSUME UNCHANGED <<ch, held, batch, producer, results, historyVars>>,
             (pc'["worker"] = "settle") <=> (pc["worker"] = "settle")
      PROVE  Placement' /\ Fates'
  BY <1>1, NothingMoves, MoveKeepsFates
<1>2. CASE RunReceive \/ CollectReceive \/ \E t \in Threads : DrainReceive(t)
  <2>1. PICK t \in Threads : Receive(t) /\ pc[t] \notin Holding
    BY <1>2 DEF RunReceive, CollectReceive, DrainReceive, Threads, Holding
  <2>2. UNCHANGED <<batch, producer, results, historyVars>>
    BY <1>2 DEF RunReceive, CollectReceive, DrainReceive, workerVars
  <2>3. (pc'["worker"] = "settle") <=> (pc["worker"] = "settle")
    <3>1. \/ pc'["worker"] = pc["worker"]
          \/ pc'["worker"] \in {"mark", "collectMark", "drainMark"} /\ pc["worker"] # "settle"
      BY <1>2 DEF RunReceive, CollectReceive, DrainReceive, Goto, TypeOK, Threads
    <3> QED
      BY <3>1
  <2> QED
    BY <2>1, <2>2, <2>3, ReceiveMoves, MoveKeepsFates
<1>3. CASE CollectMark \/ (RunMark /\ ~cancelled)
  <2>1. held["worker"] \in Records
    BY <1>3 DEF RunMark, CollectMark, Control, Holding, TypeOK, Threads
  <2>2. batch' = Append(batch, held["worker"]) \/ (batch = <<>> /\ batch' = <<held["worker"]>>)
    BY <1>3 DEF RunMark, CollectMark, ContextDone, Control, Filling, Writing
  <2>3. held' = [held EXCEPT !["worker"] = None] /\ UNCHANGED <<ch, producer, results, historyVars>>
    BY <1>3 DEF RunMark, CollectMark, ContextDone, MarkRecordDequeued
  <2>4. pc["worker"] # "settle" /\ pc'["worker"] # "settle"
    BY <1>3 DEF RunMark, CollectMark, ContextDone, AfterCollect, Goto, TypeOK, Threads
  <2> QED
    BY <2>1, <2>2, <2>3, <2>4, JoinMoves, MoveKeepsFates
<1>4. CASE RunMark /\ cancelled
  BY <1>1, <1>4 DEF RunMark, ContextDone, MarkRecordDequeued, Goto, TypeOK, Threads
<1>5. CASE \/ \E enabled \in MetricsModes : SetMetricsEnabled(enabled)
           \/ RunCancelled \/ RunClosed \/ CollectTimer \/ CollectClosed \/ CollectCancelled
           \/ WriteStart \/ CloseStart \/ CloseFlushed \/ CloseDeadline
           \/ \E outcome \in {"returned", "abandoned"} : CloseGrace(outcome)
           \/ \E t \in Threads : DrainMark(t) \/ DrainEmpty(t)
  <2>1. UNCHANGED <<ch, held, batch, producer, results, historyVars>>
    BY <1>5
    DEF SetMetricsEnabled, RunCancelled, RunClosed, CollectTimer, CollectClosed, CollectCancelled,
        WriteStart, CloseStart, CloseFlushed, CloseDeadline, CloseGrace, DrainMark, DrainEmpty,
        MarkRecordDequeued, queueVars, workerVars
  <2>2. (pc'["worker"] = "settle") <=> (pc["worker"] = "settle")
    BY <1>5
    DEF SetMetricsEnabled, RunCancelled, RunClosed, CollectTimer, CollectClosed, CollectCancelled,
        WriteStart, CloseStart, CloseFlushed, CloseDeadline, CloseGrace, DrainMark, DrainEmpty,
        AfterDrain, Goto, TypeOK, Threads
  <2> QED
    BY <1>1, <2>1, <2>2
<1> QED
  BY <1>2, <1>3, <1>4, <1>5, EnqueuePlaces, DrainEnds, DiscardBatchEnds, StoreAnswers, SettleEnds
  DEF Next, Run, StoreCall, CloseSteps, Drain, Threads

LEMMA ResultsPreserved == TypeOK /\ Control /\ ResultsFit /\ Next => ResultsFit'
<1> SUFFICES ASSUME TypeOK, Control, ResultsFit, Next PROVE ResultsFit'
  OBVIOUS
<1>1. ASSUME UNCHANGED <<batch, results>>,
             pc'["worker"] # "settle" => pc["worker"] # "settle"
      PROVE  ResultsFit'
  BY <1>1 DEF ResultsFit, Elems
<1>2. ASSUME UNCHANGED results, pc["worker"] # "settle"
      PROVE  ResultsFit'
  BY <1>2 DEF ResultsFit
<1>3. CASE Run
  <2>1. CASE WriteSettle
    BY <2>1 DEF WriteSettle, ResultsFit
  <2>2. CASE Run /\ ~WriteSettle
    BY <1>2, <2>2
    DEF Run, RunReceive, RunCancelled, RunClosed, RunMark, CollectReceive, CollectMark, CollectTimer,
        CollectClosed, CollectCancelled, DiscardBatch, WriteStart, Drain, DrainReceive, DrainMark,
        DrainDiscard, DrainEmpty, workerVars
  <2> QED
    BY <1>3, <2>1, <2>2
<1>4. CASE StoreCall
  BY <1>4 DEF StoreCall, WriteReturns, ResultsFit, Goto, Elems, TypeOK, Threads
<1>5. CASE CloseStart \/ CloseSteps
  BY <1>1, <1>5
  DEF CloseSteps, CloseStart, CloseFlushed, CloseDeadline, CloseGrace, Drain, DrainReceive, DrainMark,
      DrainDiscard, DrainEmpty, Goto, TypeOK, Threads, workerVars
<1>6. ASSUME NEW r \in Records, Enqueue(r)
      PROVE  ResultsFit'
  BY <1>1, <1>6
  DEF Enqueue, EnqueueAdmitted, EnqueueRefused, EnqueueDiscard, EnqueueCount, workerVars
<1>7. ASSUME NEW enabled \in MetricsModes, SetMetricsEnabled(enabled)
      PROVE  ResultsFit'
  BY <1>1, <1>7 DEF SetMetricsEnabled, workerVars
<1> QED
  BY <1>3, <1>4, <1>5, <1>6, <1>7 DEF Next

-----------------------------------------------------------------------------
(* The markers follow the channel.                                         *)

\* The newest markers are those of the records in the channel.
Follows(markers, records) ==
    \A i \in 1 .. Len(records) : markers[Len(markers) - Len(records) + i] = records[i]

\* Whether the goroutine has a marker to remove.
OwesMark(t) == IF pc[t] \in {"mark", "collectMark", "drainMark"} THEN 1 ELSE 0

LEMMA UnmarkedCount == Cardinality(Unmarked) = OwesMark("worker") + OwesMark("closer")
<1>1. Unmarked = (IF OwesMark("worker") = 1 THEN {"worker"} ELSE {})
                   \union (IF OwesMark("closer") = 1 THEN {"closer"} ELSE {})
  BY DEF Unmarked, OwesMark, Threads
<1>2. Cardinality({"worker"}) = 1 /\ Cardinality({"closer"}) = 1 /\ Cardinality({}) = 0
  BY FS_Singleton, FS_EmptySet
<1>3. Cardinality({"worker"} \union {"closer"}) = 2
  <2>1. IsFiniteSet({"worker"}) /\ "closer" \notin {"worker"}
    BY FS_Singleton
  <2> QED
    BY <1>2, <2>1, FS_AddElement
<1>4. CASE OwesMark("worker") = 1 /\ OwesMark("closer") = 1
  BY <1>1, <1>3, <1>4
<1>5. CASE OwesMark("worker") = 1 /\ OwesMark("closer") # 1
  <2>1. Unmarked = {"worker"} /\ OwesMark("closer") = 0
    BY <1>1, <1>5 DEF OwesMark
  <2> QED
    BY <1>2, <1>5, <2>1
<1>6. CASE OwesMark("worker") # 1 /\ OwesMark("closer") = 1
  <2>1. Unmarked = {"closer"} /\ OwesMark("worker") = 0
    BY <1>1, <1>6 DEF OwesMark
  <2> QED
    BY <1>2, <1>6, <2>1
<1>7. CASE OwesMark("worker") # 1 /\ OwesMark("closer") # 1
  <2>1. Unmarked = {} /\ OwesMark("worker") = 0 /\ OwesMark("closer") = 0
    BY <1>1, <1>7 DEF OwesMark
  <2> QED
    BY <1>2, <2>1
<1> QED
  BY <1>4, <1>5, <1>6, <1>7

LEMMA BothAppend ==
    ASSUME NEW S, NEW q \in Seq(S), NEW c \in Seq(S), NEW x \in S,
           Len(q) >= Len(c), Follows(q, c)
    PROVE  Follows(Append(q, x), Append(c, x))
<1>1. Len(q) \in Nat /\ Len(c) \in Nat
  OBVIOUS
<1>2. ASSUME NEW i \in 1 .. Len(c) + 1
      PROVE  Append(q, x)[(Len(q) + 1) - (Len(c) + 1) + i] = Append(c, x)[i]
  <2>1. CASE i = Len(c) + 1
    BY <1>1, <2>1
  <2>2. CASE i # Len(c) + 1
    <3>1. i \in 1 .. Len(c) /\ Len(q) - Len(c) + i \in 1 .. Len(q)
      BY <1>1, <1>2, <2>2
    <3>2. Append(c, x)[i] = c[i] /\ Append(q, x)[Len(q) - Len(c) + i] = q[Len(q) - Len(c) + i]
      BY <1>1, <3>1
    <3>3. (Len(q) + 1) - (Len(c) + 1) + i = Len(q) - Len(c) + i
      BY <1>1
    <3> QED
      BY <3>1, <3>2, <3>3 DEF Follows
  <2> QED
    BY <2>1, <2>2
<1>3. Len(Append(q, x)) = Len(q) + 1 /\ Len(Append(c, x)) = Len(c) + 1
  OBVIOUS
<1> QED
  BY <1>2, <1>3 DEF Follows

LEMMA ChannelTail ==
    ASSUME NEW S, NEW q \in Seq(S), NEW c \in Seq(S), c # <<>>, Len(q) >= Len(c), Follows(q, c)
    PROVE  Follows(q, Tail(c))
<1>1. Len(q) \in Nat /\ Len(c) \in Nat \ {0} /\ Len(Tail(c)) = Len(c) - 1
  OBVIOUS
<1>2. ASSUME NEW i \in 1 .. Len(c) - 1
      PROVE  q[Len(q) - (Len(c) - 1) + i] = Tail(c)[i]
  <2>1. Tail(c)[i] = c[i + 1] /\ i + 1 \in 1 .. Len(c)
    BY <1>1, <1>2
  <2>2. Len(q) - (Len(c) - 1) + i = Len(q) - Len(c) + (i + 1)
    BY <1>1, <1>2
  <2> QED
    BY <2>1, <2>2 DEF Follows
<1> QED
  BY <1>1, <1>2 DEF Follows

LEMMA MarkersTail ==
    ASSUME NEW S, NEW q \in Seq(S), NEW c \in Seq(S), Len(q) > Len(c), Follows(q, c)
    PROVE  q # <<>> /\ Len(Tail(q)) = Len(q) - 1 /\ Follows(Tail(q), c)
<1>1. Len(q) \in Nat \ {0} /\ Len(c) \in Nat
  OBVIOUS
<1>2. q # <<>> /\ Len(Tail(q)) = Len(q) - 1
  BY <1>1
<1>3. ASSUME NEW i \in 1 .. Len(c)
      PROVE  Tail(q)[(Len(q) - 1) - Len(c) + i] = c[i]
  <2>1. (Len(q) - 1) - Len(c) + i \in 1 .. Len(q) - 1
    BY <1>1, <1>3
  <2>2. Tail(q)[(Len(q) - 1) - Len(c) + i] = q[((Len(q) - 1) - Len(c) + i) + 1]
    BY <1>2, <2>1
  <2>3. ((Len(q) - 1) - Len(c) + i) + 1 = Len(q) - Len(c) + i
    BY <1>1, <1>3
  <2> QED
    BY <2>2, <2>3 DEF Follows
<1> QED
  BY <1>2, <1>3 DEF Follows

MarkersFit ==
    /\ Len(queuedAt) = Len(ch) + (OwesMark("worker") + OwesMark("closer"))
    /\ Follows(queuedAt, ch)

LEMMA MarkersFitIs == MarkersFollowQueue <=> MarkersFit
BY UnmarkedCount DEF MarkersFollowQueue, MarkersFit, Follows

\* Whatever worker and Close have received and not yet marked, the markers left are
\* those of the channel (markRecordDequeued takes the oldest, not its own).
LEMMA MarkersPreserved == TypeOK /\ MarkersFit /\ Next => MarkersFit'
<1> SUFFICES ASSUME TypeOK, MarkersFit, Next PROVE MarkersFit'
  OBVIOUS
<1>0. /\ queuedAt \in Seq(Records) /\ ch \in Seq(Records)
      /\ Len(queuedAt) \in Nat /\ Len(ch) \in Nat /\ Len(queuedAt) >= Len(ch)
      /\ OwesMark("worker") \in {0, 1} /\ OwesMark("closer") \in {0, 1}
  <2>1. queuedAt \in Seq(Records) /\ ch \in Seq(Records)
    BY DEF TypeOK
  <2>2. Len(queuedAt) \in Nat /\ Len(ch) \in Nat
    BY <2>1
  <2>3. OwesMark("worker") \in {0, 1} /\ OwesMark("closer") \in {0, 1}
    BY DEF OwesMark
  <2> QED
    BY <2>1, <2>2, <2>3 DEF MarkersFit
<1>1. ASSUME UNCHANGED <<queuedAt, ch>>,
             OwesMark("worker")' = OwesMark("worker"), OwesMark("closer")' = OwesMark("closer")
      PROVE  MarkersFit'
  BY <1>1 DEF MarkersFit, Follows
<1>2. ASSUME NEW t \in Threads, Receive(t),
             \/ t = "worker" /\ OwesMark("worker")' = 1 /\ OwesMark("worker") = 0
                /\ OwesMark("closer")' = OwesMark("closer")
             \/ t = "closer" /\ OwesMark("closer")' = 1 /\ OwesMark("closer") = 0
                /\ OwesMark("worker")' = OwesMark("worker")
      PROVE  MarkersFit'
  <2>1. ch # <<>> /\ ch' = Tail(ch) /\ queuedAt' = queuedAt /\ Len(ch') = Len(ch) - 1
    BY <1>0, <1>2, TailElems DEF Receive
  <2>2. Follows(queuedAt, Tail(ch))
    BY <1>0, <2>1, ChannelTail DEF MarkersFit
  <2> QED
    BY <1>0, <1>2, <2>1, <2>2 DEF MarkersFit
<1>3. ASSUME MarkRecordDequeued,
             \/ OwesMark("worker")' = 0 /\ OwesMark("worker") = 1
                /\ OwesMark("closer")' = OwesMark("closer")
             \/ OwesMark("closer")' = 0 /\ OwesMark("closer") = 1
                /\ OwesMark("worker")' = OwesMark("worker")
      PROVE  MarkersFit'
  <2>1. Len(queuedAt) > Len(ch)
    BY <1>0, <1>3 DEF MarkersFit
  <2>2. queuedAt # <<>> /\ Len(Tail(queuedAt)) = Len(queuedAt) - 1 /\ Follows(Tail(queuedAt), ch)
    BY <1>0, <2>1, MarkersTail DEF MarkersFit
  <2>3. queuedAt' = Tail(queuedAt) /\ ch' = ch
    BY <1>3, <2>2 DEF MarkRecordDequeued
  <2> QED
    BY <1>0, <1>3, <2>2, <2>3 DEF MarkersFit
<1>4. ASSUME NEW r \in Records, EnqueueAdmitted(r)
      PROVE  MarkersFit'
  <2>1. /\ ch' = Append(ch, r) /\ queuedAt' = Append(queuedAt, r)
        /\ OwesMark("worker")' = OwesMark("worker") /\ OwesMark("closer")' = OwesMark("closer")
    BY <1>4 DEF EnqueueAdmitted, OwesMark
  <2>2. Follows(Append(queuedAt, r), Append(ch, r))
    BY <1>0, BothAppend DEF MarkersFit
  <2>3. Len(ch') = Len(ch) + 1 /\ Len(queuedAt') = Len(queuedAt) + 1
    BY <1>0, <2>1
  <2> QED
    BY <1>0, <2>1, <2>2, <2>3 DEF MarkersFit
<1>5. CASE RunReceive \/ CollectReceive \/ \E t \in Threads : DrainReceive(t)
  <2>1. PICK t \in Threads :
          Receive(t) /\ pc[t] \in {"select", "collect", "drain"}
            /\ \E label \in {"mark", "collectMark", "drainMark"} : Goto(t, label)
    BY <1>5 DEF RunReceive, CollectReceive, DrainReceive, Threads
  <2>2. OwesMark(t)' = 1 /\ OwesMark(t) = 0
        /\ \A u \in Threads \ {t} : OwesMark(u)' = OwesMark(u)
    BY <2>1 DEF Goto, OwesMark, TypeOK
  <2> QED
    BY <1>2, <2>1, <2>2 DEF Threads
<1>6. CASE RunMark \/ CollectMark \/ \E t \in Threads : DrainMark(t)
  <2>1. PICK t \in Threads, label \in Labels :
          /\ MarkRecordDequeued /\ pc[t] \in {"mark", "collectMark", "drainMark"}
          /\ Goto(t, label) /\ label \notin {"mark", "collectMark", "drainMark"}
    BY <1>6 DEF RunMark, CollectMark, DrainMark, AfterCollect, Threads, Labels
  <2>2. OwesMark(t)' = 0 /\ OwesMark(t) = 1
        /\ \A u \in Threads \ {t} : OwesMark(u)' = OwesMark(u)
    BY <2>1 DEF Goto, OwesMark, TypeOK
  <2> QED
    BY <1>3, <2>1, <2>2 DEF Threads
<1>7. CASE \/ \E enabled \in MetricsModes : SetMetricsEnabled(enabled)
           \/ \E r \in Records : EnqueueRefused(r) \/ EnqueueDiscard(r) \/ EnqueueCount(r)
           \/ RunCancelled \/ RunClosed \/ CollectTimer \/ CollectClosed \/ CollectCancelled
           \/ DiscardBatch \/ WriteStart \/ StoreCall \/ WriteSettle
           \/ CloseStart \/ CloseFlushed \/ CloseDeadline
           \/ \E outcome \in {"returned", "abandoned"} : CloseGrace(outcome)
           \/ \E t \in Threads : DrainDiscard(t) \/ DrainEmpty(t)
  <2>1. UNCHANGED <<queuedAt, ch>>
    BY <1>7
    DEF SetMetricsEnabled, EnqueueRefused, EnqueueDiscard, EnqueueCount, RunCancelled, RunClosed,
        CollectTimer, CollectClosed, CollectCancelled, DiscardBatch, WriteStart, StoreCall,
        WriteReturns, WriteSettle, CloseStart, CloseFlushed, CloseDeadline, CloseGrace,
        DrainDiscard, DrainEmpty, queueVars
  <2>2. OwesMark("worker")' = OwesMark("worker") /\ OwesMark("closer")' = OwesMark("closer")
    BY <1>7
    DEF SetMetricsEnabled, EnqueueRefused, EnqueueDiscard, EnqueueCount, RunCancelled, RunClosed,
        CollectTimer, CollectClosed, CollectCancelled, DiscardBatch, WriteStart, StoreCall,
        WriteReturns, WriteSettle, CloseStart, CloseFlushed, CloseDeadline, CloseGrace,
        DrainDiscard, DrainEmpty, AfterDrain, Goto, OwesMark, TypeOK, Threads
  <2> QED
    BY <1>1, <2>1, <2>2
<1> QED
  BY <1>4, <1>5, <1>6, <1>7 DEF Next, Enqueue, Run, CloseSteps, Drain, Threads

-----------------------------------------------------------------------------
(* The counters.                                                           *)

LEMMA RecordsFinite ==
    ASSUME NEW S \in SUBSET Records
    PROVE  IsFiniteSet(S) /\ Cardinality(S) \in Nat
BY WriterAssumption, FS_Subset, FS_CardinalityType

LEMMA MoreRecords ==
    ASSUME NEW S \in SUBSET Records, NEW T \in SUBSET Records, S \subseteq T
    PROVE  Cardinality(S) <= Cardinality(T)
BY RecordsFinite, FS_Subset

LEMMA DisjointRecords ==
    ASSUME NEW S \in SUBSET Records, NEW T \in SUBSET Records, S \intersect T = {}
    PROVE  Cardinality(S \union T) = Cardinality(S) + Cardinality(T)
<1>1. /\ IsFiniteSet(S) /\ IsFiniteSet(T)
      /\ Cardinality(S) \in Nat /\ Cardinality(T) \in Nat
  BY RecordsFinite
<1>2. Cardinality(S \intersect T) = 0
  BY FS_EmptySet
<1>3. Cardinality(S \union T) = Cardinality(S) + Cardinality(T) - Cardinality(S \intersect T)
  BY <1>1, FS_Union
<1> QED
  BY <1>1, <1>2, <1>3

\* A sequence has at most as many records as places, and as many if none is repeated.
LEMMA ElemsCount ==
    ASSUME NEW s \in Seq(Records)
    PROVE  /\ Cardinality(Elems(s)) <= Len(s)
           /\ Distinct(s) => Cardinality(Elems(s)) = Len(s)
<1> DEFINE f == [i \in 1 .. Len(s) |-> s[i]]
<1>1. Len(s) \in Nat /\ DOMAIN s = 1 .. Len(s)
  OBVIOUS
<1>2. IsFiniteSet(1 .. Len(s)) /\ Cardinality(1 .. Len(s)) = Len(s)
  BY <1>1, FS_Interval
<1>3. f \in [1 .. Len(s) -> Elems(s)] /\ \A x \in Elems(s) : \E i \in 1 .. Len(s) : f[i] = x
  BY <1>1 DEF Elems
<1>4. Distinct(s) => \A i, j \in 1 .. Len(s) : f[i] = f[j] => i = j
  BY <1>1 DEF Distinct
<1> HIDE DEF f
<1>5. f \in Surjection(1 .. Len(s), Elems(s))
  BY <1>3, Fun_IsSurj
<1>6. Distinct(s) => f \in Injection(1 .. Len(s), Elems(s))
  BY <1>3, <1>4, Fun_IsInj
<1> QED
  BY <1>2, <1>5, <1>6, FS_Surjection

\* One discarded record more, counted or not.
LEMMA DiscardCounts ==
    ASSUME TypeOK, NEW x \in Records, x \notin dropped, DiscardRecord(x),
           counters["dropped"] <= Cardinality(dropped)
    PROVE  /\ counters'["dropped"] <= Cardinality(dropped')
           /\ \A name \in {"accepted", "successes", "failures", "inFlight"} :
                counters'[name] = counters[name]
<1>1. Cardinality(dropped') = Cardinality(dropped) + 1 /\ Cardinality(dropped) \in Nat
  BY RecordsFinite, FS_AddElement DEF DiscardRecord, TypeOK
<1>2. CASE metricsEnabled
  BY <1>1, <1>2 DEF DiscardRecord, CountIf, Count, TypeOK
<1>3. CASE ~metricsEnabled
  BY <1>1, <1>3 DEF DiscardRecord, CountIf, TypeOK
<1> QED
  BY <1>2, <1>3

Answers == IF pc["worker"] = "settle" THEN Elems(batch) ELSE {}
Accepted == {r \in Records : producer[r] = "admitted"}
Written == {r \in Records : written[r] = 1}

\* The parts of CountersFit, by name.
LEMMA CountersFitIs ==
    CountersFit <=>
        /\ counters["accepted"] <= Cardinality(Accepted)
        /\ counters["dropped"] <= Cardinality(dropped)
        /\ counters["failures"] + Cardinality(Answers \ results) <= Cardinality(failed)
        /\ counters["successes"] + Cardinality(results) <= Cardinality(Written)
        /\ counters["inFlight"] # 0 => pc["worker"] \in {"store", "settle"} /\ observed
BY DEF CountersFit, Answers, Accepted, Written

\* A step that counts nothing, or drops a record, and in which no batch is written.
LEMMA CountersKept ==
    ASSUME CountersFit,
           UNCHANGED <<written, failed, results, observed>>,
           Answers' = Answers,
           counters'["dropped"] <= Cardinality(dropped'),
           counters'["accepted"] <= Cardinality(Accepted'),
           \A name \in {"successes", "failures", "inFlight"} : counters'[name] = counters[name],
           pc["worker"] \in {"store", "settle"} => pc'["worker"] \in {"store", "settle"}
    PROVE  CountersFit'
<1>1. Written' = Written
  BY DEF Written
<1> QED
  BY <1>1, CountersFitIs DEF CountersFit, Answers, Accepted, Written

\* The records of the batch count as written or failed with the store's answer.
LEMMA StoreAnswerCounts ==
    ASSUME TypeOK, Control, Placement, Fates, ResultsFit, CountersFit,
           NEW ok \in SUBSET Records, WriteReturns(ok)
    PROVE  CountersFit'
<1>1. /\ pc["worker"] = "store" /\ pc'["worker"] = "settle" /\ results' = ok
      /\ ok \subseteq Elems(batch) /\ Elems(batch') = Elems(batch)
      /\ failed' = failed \union (Elems(batch) \ ok)
      /\ \A r \in Records : written'[r] = IF r \in ok THEN written[r] + 1 ELSE written[r]
      /\ UNCHANGED <<counters, dropped, producer, observed>>
  BY DEF WriteReturns, Goto, Bump, TypeOK, Threads
<1>2. results = {} /\ Elems(batch) \subseteq Records /\ failed \in SUBSET Records
  BY <1>1, ElemsOfSeq DEF ResultsFit, TypeOK
<1>3. \A r \in Elems(batch) : Untouched(r)
  BY <1>1, <1>2 DEF Fates, Owned
<1>4. Cardinality(failed') = Cardinality(failed) + Cardinality(Elems(batch) \ ok)
  <2>1. failed \intersect (Elems(batch) \ ok) = {}
    BY <1>3 DEF Untouched
  <2> QED
    BY <1>1, <1>2, <2>1, DisjointRecords
<1>5. Cardinality(Written') = Cardinality(Written) + Cardinality(ok)
  <2>1. Written \intersect ok = {} /\ Written' = Written \union ok
    BY <1>1, <1>3 DEF Untouched, Written
  <2> QED
    BY <2>1, DisjointRecords DEF Written
<1>6. Cardinality(results) = 0 /\ Cardinality({} \ results) = 0
  BY <1>2, FS_EmptySet
<1>7. /\ Cardinality(failed) \in Nat /\ Cardinality(Elems(batch) \ ok) \in Nat
      /\ Cardinality(ok) \in Nat /\ Cardinality(Written) \in Nat
  BY <1>2, RecordsFinite DEF Written
<1>8. counters["failures"] \in Int /\ counters["successes"] \in Int
  BY DEF TypeOK
<1>9. counters["failures"] <= Cardinality(failed) /\ counters["successes"] <= Cardinality(Written)
  BY <1>1, <1>6, <1>7, <1>8, CountersFitIs DEF Answers
<1> QED
  BY <1>1, <1>4, <1>5, <1>7, <1>8, <1>9, CountersFitIs DEF CountersFit, Written, Accepted

\* With the cleanup the counters take over what the answer was about.
LEMMA SettleCounts ==
    ASSUME TypeOK, Placement, ResultsFit, CountersFit, WriteSettle
    PROVE  CountersFit'
<1>1. /\ pc["worker"] = "settle" /\ pc'["worker"] \in {"done", "select"} /\ results' = {}
      /\ UNCHANGED <<dropped, producer, observed, written, failed>>
  BY DEF WriteSettle, Goto, TypeOK, Threads
<1>2. /\ results \subseteq Elems(batch) /\ Elems(batch) \subseteq Records
      /\ Cardinality(Elems(batch)) = Len(batch)
  BY ElemsOfSeq, ElemsCount DEF ResultsFit, TypeOK, Placement
<1>3. Cardinality(Elems(batch)) = Cardinality(results) + Cardinality(Elems(batch) \ results)
  <2>1. Elems(batch) = results \union (Elems(batch) \ results)
    BY <1>2
  <2> QED
    BY <1>2, <2>1, DisjointRecords
<1>4. /\ Cardinality(results) \in Nat /\ Cardinality(Elems(batch) \ results) \in Nat
      /\ Cardinality(failed) \in Nat /\ Cardinality(Written) \in Nat
  BY <1>2, RecordsFinite DEF TypeOK, Written
<1>5. /\ counters["failures"] \in Int /\ counters["successes"] \in Int
      /\ counters["failures"] + Cardinality(Elems(batch) \ results) <= Cardinality(failed)
      /\ counters["successes"] + Cardinality(results) <= Cardinality(Written)
  BY <1>1, CountersFitIs DEF TypeOK, Answers
<1>6. /\ counters'["failures"] <= Cardinality(failed)
      /\ counters'["successes"] <= Cardinality(Written)
      /\ counters'["accepted"] = counters["accepted"] /\ counters'["dropped"] = counters["dropped"]
      /\ counters'["inFlight"] = 0
  <2>1. CASE observed
    <3>1. /\ counters'["successes"] = counters["successes"] + Cardinality(results)
          /\ counters'["failures"] = counters["failures"] + Len(batch) - Cardinality(results)
          /\ counters'["accepted"] = counters["accepted"] /\ counters'["dropped"] = counters["dropped"]
          /\ counters'["inFlight"] = 0
      BY <2>1 DEF WriteSettle, SettledCounters, TypeOK
    <3>2. counters["failures"] + Len(batch) - Cardinality(results)
            = counters["failures"] + Cardinality(Elems(batch) \ results)
      BY <1>2, <1>3, <1>4, <1>5
    <3> QED
      BY <1>5, <3>1, <3>2
  <2>2. CASE ~observed
    <3>1. counters' = counters /\ counters["inFlight"] = 0
      BY <2>2, CountersFitIs DEF WriteSettle
    <3> QED
      BY <1>4, <1>5, <3>1
  <2> QED
    BY <2>1, <2>2
<1>7. Cardinality({} \ results') = 0 /\ Cardinality(results') = 0
  BY <1>1, FS_EmptySet
<1>8. Written' = Written /\ Accepted' = Accepted
  BY <1>1 DEF Written, Accepted
<1>9. counters'["failures"] \in Int /\ counters'["successes"] \in Int
  <2>1. Len(batch) \in Nat
    BY <1>2 DEF TypeOK
  <2>2. CASE observed
    <3>1. /\ counters'["successes"] = counters["successes"] + Cardinality(results)
          /\ counters'["failures"] = counters["failures"] + Len(batch) - Cardinality(results)
      BY <2>2 DEF WriteSettle, SettledCounters, TypeOK
    <3> QED
      BY <1>4, <1>5, <2>1, <3>1
  <2>3. CASE ~observed
    BY <1>5, <2>3 DEF WriteSettle
  <2> QED
    BY <2>2, <2>3
<1> QED
  BY <1>1, <1>6, <1>7, <1>8, <1>9, CountersFitIs DEF CountersFit, Written, Accepted

\* No counter claims more than happened, whenever the counters are switched.
LEMMA CountersPreserved ==
    TypeOK /\ Control /\ Placement /\ Fates /\ ResultsFit /\ CountersFit /\ Next => CountersFit'
<1> SUFFICES ASSUME TypeOK, Control, Placement, Fates, ResultsFit, CountersFit, Next
             PROVE  CountersFit'
  OBVIOUS
<1>0. counters["accepted"] <= Cardinality(Accepted) /\ counters["dropped"] <= Cardinality(dropped)
  BY CountersFitIs
<1>1. ASSUME NEW r \in Records, EnqueueAdmitted(r)
      PROVE  CountersFit'
  <2>1. Accepted \subseteq Accepted' /\ UNCHANGED <<counters, dropped, batch, pc, written, failed, results, observed>>
    BY <1>1 DEF EnqueueAdmitted, Accepted, workerVars, historyVars, TypeOK
  <2>2. Cardinality(Accepted) <= Cardinality(Accepted')
    BY <2>1, MoreRecords DEF Accepted
  <2>3. Cardinality(Accepted) \in Nat /\ Cardinality(Accepted') \in Nat /\ counters["accepted"] \in Int
    BY RecordsFinite DEF Accepted, TypeOK
  <2>4. counters'["accepted"] <= Cardinality(Accepted')
    BY <1>0, <2>1, <2>2, <2>3
  <2> QED
    BY <1>0, <2>1, <2>4, CountersKept DEF Answers, Elems
<1>2. ASSUME NEW r \in Records, EnqueueCount(r)
      PROVE  CountersFit'
  <2>1. /\ Accepted' = Accepted \union {r} /\ r \notin Accepted
        /\ counters'["accepted"] = counters["accepted"] + 1
        /\ \A name \in {"dropped", "successes", "failures", "inFlight"} : counters'[name] = counters[name]
        /\ UNCHANGED <<dropped, batch, pc, written, failed, results, observed>>
    BY <1>2 DEF EnqueueCount, Count, Accepted, workerVars, historyVars, TypeOK
  <2>2. Cardinality(Accepted') = Cardinality(Accepted) + 1 /\ Cardinality(Accepted) \in Nat
    BY <2>1, RecordsFinite, FS_AddElement DEF Accepted
  <2>3. counters["accepted"] \in Int
    BY DEF TypeOK
  <2>4. counters'["accepted"] <= Cardinality(Accepted')
    BY <1>0, <2>1, <2>2, <2>3
  <2> QED
    BY <1>0, <2>1, <2>4, CountersKept DEF Answers, Elems
<1>3. ASSUME NEW x \in Records, x \notin dropped, DiscardRecord(x),
             Answers' = Answers, Accepted' = Accepted, UNCHANGED <<results, observed>>,
             pc["worker"] \in {"store", "settle"} => pc'["worker"] \in {"store", "settle"}
      PROVE  CountersFit'
  <2>1. /\ counters'["dropped"] <= Cardinality(dropped')
        /\ \A name \in {"accepted", "successes", "failures", "inFlight"} :
             counters'[name] = counters[name]
    BY <1>0, <1>3, DiscardCounts
  <2> QED
    BY <1>0, <1>3, <2>1, CountersKept DEF DiscardRecord
<1>4. ASSUME NEW r \in Records, EnqueueDiscard(r)
      PROVE  CountersFit'
  <2>1. r \notin dropped
    BY <1>4 DEF EnqueueDiscard, Fates, Untouched
  <2>2. Answers' = Answers /\ Accepted' = Accepted /\ UNCHANGED <<pc, results, observed>>
    BY <1>4 DEF EnqueueDiscard, Answers, Accepted, Elems, workerVars, TypeOK
  <2> QED
    BY <1>3, <1>4, <2>1, <2>2 DEF EnqueueDiscard
<1>5. ASSUME NEW t \in Threads, DrainDiscard(t)
      PROVE  CountersFit'
  <2>1. PICK x \in Records : x = held[t] /\ x \in Owned /\ x \notin Elems(batch)
    BY <1>5 DEF DrainDiscard, Control, Holding, Placement, Owned, TypeOK, Threads
  <2>2. x \notin dropped /\ DiscardRecord(x)
    BY <1>5, <2>1 DEF DrainDiscard, Fates, Untouched
  <2>3. UNCHANGED <<batch, producer, results, observed>>
    BY <1>5 DEF DrainDiscard, workerVars
  <2>4. /\ (pc'["worker"] = "settle") <=> (pc["worker"] = "settle")
        /\ pc["worker"] \in {"store", "settle"} => pc'["worker"] \in {"store", "settle"}
    BY <1>5 DEF DrainDiscard, Goto, TypeOK, Threads
  <2>5. Answers' = Answers /\ Accepted' = Accepted
    BY <2>3, <2>4 DEF Answers, Accepted, Elems
  <2> QED
    BY <1>3, <2>2, <2>3, <2>4, <2>5
<1>6. CASE DiscardBatch /\ batch # <<>>
  <2>1. PICK x \in Records : x = Head(batch) /\ x \in Elems(batch)
    BY <1>6, TailElems DEF TypeOK
  <2>2. /\ DiscardRecord(x) /\ pc' = pc /\ pc["worker"] = "discardBatch"
        /\ UNCHANGED <<producer, results, observed>>
    BY <1>6, <2>1 DEF DiscardBatch
  <2>3. x \notin dropped
    BY <2>1, <2>2 DEF Fates, Owned, Untouched
  <2>4. Answers' = Answers /\ Accepted' = Accepted
    BY <2>2 DEF Answers, Accepted
  <2> QED
    BY <1>3, <2>2, <2>3, <2>4
<1>7. CASE WriteStart
  <2>1. /\ pc["worker"] = "write" /\ pc'["worker"] = "store" /\ observed' = metricsEnabled
        /\ UNCHANGED <<dropped, producer, written, failed, results>>
        /\ \A name \in {"accepted", "dropped", "successes", "failures"} : counters'[name] = counters[name]
        /\ metricsEnabled \/ counters'["inFlight"] = counters["inFlight"]
    BY <1>7 DEF WriteStart, Goto, historyVars, TypeOK, Threads
  <2>2. counters["inFlight"] = 0
    BY <2>1, CountersFitIs
  <2>3. Accepted' = Accepted /\ Written' = Written
    BY <2>1 DEF Accepted, Written
  <2> QED
    BY <2>1, <2>2, <2>3, CountersFitIs DEF CountersFit, Answers, Accepted, Written
<1>8. CASE \/ \E enabled \in MetricsModes : SetMetricsEnabled(enabled)
           \/ \E r \in Records : EnqueueRefused(r)
           \/ RunReceive \/ RunCancelled \/ RunClosed \/ RunMark \/ CollectReceive \/ CollectMark
           \/ CollectTimer \/ CollectClosed \/ CollectCancelled \/ (DiscardBatch /\ batch = <<>>)
           \/ CloseStart \/ CloseFlushed \/ CloseDeadline
           \/ \E outcome \in {"returned", "abandoned"} : CloseGrace(outcome)
           \/ \E t \in Threads : DrainReceive(t) \/ DrainMark(t) \/ DrainEmpty(t)
  <2>1. UNCHANGED <<counters, dropped, written, failed, results, observed>>
    BY <1>8
    DEF SetMetricsEnabled, EnqueueRefused, RunReceive, RunCancelled, RunClosed, RunMark,
        CollectReceive, CollectMark, CollectTimer, CollectClosed, CollectCancelled, DiscardBatch,
        CloseStart, CloseFlushed, CloseDeadline, CloseGrace, DrainReceive, DrainMark, DrainEmpty,
        workerVars, historyVars
  <2>2. Accepted' = Accepted
    BY <1>8
    DEF SetMetricsEnabled, EnqueueRefused, RunReceive, RunCancelled, RunClosed, RunMark,
        CollectReceive, CollectMark, CollectTimer, CollectClosed, CollectCancelled, DiscardBatch,
        CloseStart, CloseFlushed, CloseDeadline, CloseGrace, DrainReceive, DrainMark, DrainEmpty,
        Accepted, TypeOK
  <2>3. \/ pc["worker"] \notin {"store", "settle"} /\ pc'["worker"] # "settle"
        \/ pc'["worker"] = pc["worker"] /\ batch' = batch
    BY <1>8
    DEF SetMetricsEnabled, EnqueueRefused, RunReceive, RunCancelled, RunClosed, RunMark,
        CollectReceive, CollectMark, CollectTimer, CollectClosed, CollectCancelled, DiscardBatch,
        CloseStart, CloseFlushed, CloseDeadline, CloseGrace, DrainReceive, DrainMark, DrainEmpty,
        AfterCollect, AfterDrain, Goto, workerVars, TypeOK, Threads
  <2>4. Answers' = Answers
    BY <2>3 DEF Answers, Elems
  <2> QED
    BY <1>0, <2>1, <2>2, <2>3, <2>4, CountersKept
<1> QED
  BY <1>1, <1>2, <1>4, <1>5, <1>6, <1>7, <1>8, StoreAnswerCounts, SettleCounts
  DEF Next, Enqueue, Run, StoreCall, CloseSteps, Drain, Threads

-----------------------------------------------------------------------------
(* The invariant.                                                          *)

LEMMA WriterInitially == Init => IWriter
<1> SUFFICES ASSUME Init PROVE IWriter
  OBVIOUS
<1>1. Elems(ch) = {} /\ Elems(batch) = {} /\ Owned = {None}
  BY DEF Init, Elems, Owned, Threads
<1>2. TypeOK
  <2>1. pc \in [Threads -> Labels]
    BY DEF Init, Threads, Labels
  <2>2. counters \in [{"accepted", "dropped", "successes", "failures", "inFlight"} -> Int]
    BY DEF Init, ZeroCounters
  <2>3. held \in [Threads -> Records \union {None}] /\ written \in [Records -> Nat]
        /\ cleanups \in [Records -> Nat]
    BY DEF Init
  <2>4. /\ ch \in Seq(Records) /\ Len(ch) <= Buffer /\ queuedAt \in Seq(Records)
        /\ batch \in Seq(Records) /\ Len(batch) <= BatchSize
    BY WriterConstants DEF Init
  <2>5. /\ accepting \in BOOLEAN /\ batching \in BOOLEAN /\ metricsEnabled \in BOOLEAN
        /\ cancelled \in BOOLEAN /\ channelClosed \in BOOLEAN /\ observed \in BOOLEAN
    BY WriterAssumption DEF Init
  <2>6. /\ producer \in [Records -> {"new", "count", "admitted", "discard", "refused"}]
        /\ results \in SUBSET Records /\ failed \in SUBSET Records /\ dropped \in SUBSET Records
    BY DEF Init
  <2> QED
    BY <2>1, <2>2, <2>3, <2>4, <2>5, <2>6 DEF TypeOK
<1>3. Control
  BY DEF Init, Control, Threads, WorkerLabels, CloserLabels, Holding, Filling, Writing
<1>4. Placement
  BY <1>1, WriterAssumption DEF Init, Placement, Distinct, Threads
<1>5. Fates
  BY <1>1, WriterAssumption DEF Init, Fates, Untouched
<1>6. ResultsFit
  BY DEF Init, ResultsFit
<1>7. MarkersFollowQueue
  <2>1. MarkersFit
    BY DEF Init, MarkersFit, Follows, OwesMark
  <2> QED
    BY <2>1, MarkersFitIs
<1>8. CountersFit
  <2>1. Cardinality(Accepted) \in Nat /\ Cardinality(Written) \in Nat
    BY RecordsFinite DEF Accepted, Written
  <2>2. Cardinality({} \ {}) = 0 /\ Cardinality({}) = 0
    BY FS_EmptySet
  <2> QED
    BY <2>1, <2>2, CountersFitIs DEF Init, ZeroCounters, Answers
<1> QED
  BY <1>2, <1>3, <1>4, <1>5, <1>6, <1>7, <1>8 DEF IWriter

LEMMA WriterPreserved == IWriter /\ [Next]_vars => IWriter'
<1>1. (MarkersFollowQueue <=> MarkersFit)'
  BY MarkersFitIs, PTL
<1>2. IWriter /\ Next => IWriter'
  BY <1>1, TypesPreserved, ControlPreserved, RecordsStayPlaced, ResultsPreserved, MarkersFitIs,
     MarkersPreserved, CountersPreserved
  DEF IWriter
<1>3. IWriter /\ UNCHANGED vars => IWriter'
  <2> SUFFICES ASSUME IWriter, UNCHANGED vars PROVE IWriter'
    OBVIOUS
  <2>1. TypeOK' /\ Control'
    BY DEF IWriter, vars, TypeOK, Control, ChannelDrained
  <2>2. Placement' /\ Fates'
    BY DEF IWriter, vars, Placement, Distinct, Elems, Owned, Fates, Untouched, Answered, Finished
  <2>3. ResultsFit' /\ MarkersFollowQueue' /\ CountersFit'
    BY DEF IWriter, vars, ResultsFit, MarkersFollowQueue, Unmarked, CountersFit, Elems
  <2> QED
    BY <2>1, <2>2, <2>3 DEF IWriter
<1> QED
  BY <1>2, <1>3

\* One fate for every record and its files, and a cleanup that comes last.
LEMMA FatesAreOne ==
    ASSUME TypeOK, Placement, Fates, ResultsFit
    PROVE  OneFate /\ CleanedOnceAndLast
<1> SUFFICES ASSUME NEW r \in Records
             PROVE  /\ written[r] <= 1
                    /\ written[r] = 1 => r \notin failed \union dropped
                    /\ r \notin failed \intersect dropped
                    /\ cleanups[r] = 1 <=> Ended(r)
                    /\ cleanups[r] <= 1
                    /\ cleanups[r] = 1 => r \notin Owned
  BY DEF OneFate, CleanedOnceAndLast
<1>1. producer[r] \in {"new", "count", "admitted", "discard", "refused"}
  BY DEF TypeOK
<1>2. CASE r \in Owned /\ r \in Elems(batch)
  BY <1>2 DEF Fates, Untouched, Answered, Ended
<1>3. CASE r \in Owned /\ r \notin Elems(batch)
  BY <1>3 DEF Fates, Untouched, Ended
<1>4. CASE r \notin Owned
  <2>1. r \notin Elems(batch)
    BY <1>4 DEF Owned
  <2> QED
    BY <1>1, <1>4, <2>1 DEF Fates, Untouched, Finished, Ended
<1> QED
  BY <1>2, <1>3, <1>4

\* The writer's bookkeeping holds together at every step of requests, worker and Close
\* (internal/store/async.go): one end for each record and its files, markers that follow
\* the channel, a worker that strands nothing, counters that claim nothing too much.
THEOREM WriterInvariant == Safety => []WriterInv
<1>1. IWriter => WriterInv
  <2> SUFFICES ASSUME IWriter PROVE WriterInv
    OBVIOUS
  <2>1. OneFate /\ CleanedOnceAndLast
    BY FatesAreOne DEF IWriter
  <2>2. WorkerLeavesNothing
    BY DEF IWriter, Control, ChannelDrained, Holding, Filling, Writing, Threads, WorkerLeavesNothing
  <2>3. CountersHonest
    <3>1. /\ Cardinality(Answers \ results) \in Nat /\ Cardinality(results) \in Nat
          /\ Cardinality(failed) \in Nat /\ Cardinality(Written) \in Nat
      BY RecordsFinite, ElemsOfSeq DEF IWriter, TypeOK, Answers, Written
    <3>2. counters["failures"] \in Int /\ counters["successes"] \in Int
      BY DEF IWriter, TypeOK
    <3> QED
      BY <3>1, <3>2, CountersFitIs DEF IWriter, CountersHonest, Accepted, Written
  <2> QED
    BY <2>1, <2>2, <2>3 DEF IWriter, WriterInv
<1> QED
  BY WriterInitially, WriterPreserved, <1>1, PTL DEF Safety

-----------------------------------------------------------------------------
(* The writer implements the ledger.                                       *)

\* What has become of the records, as the ledger sees it.
Fate == [r \in Records |-> FateOf(r)]

LEMMA FateCases ==
    ASSUME TypeOK, Placement, Fates, NEW r \in Records
    PROVE  /\ producer[r] = "new" => FateOf(r) = "new"
           /\ producer[r] \in {"discard", "refused"} => FateOf(r) = "refused"
           /\ r \in Owned /\ Untouched(r) => FateOf(r) = "pending"
           /\ FateOf(r) = "pending" => r \in Owned /\ Untouched(r)
<1>1. producer[r] \in {"new", "count", "admitted", "discard", "refused"} /\ written[r] \in Nat
  BY DEF TypeOK
<1>2. CASE producer[r] \in {"new", "discard", "refused"}
  <2>1. r \notin Owned
    BY <1>2 DEF Placement
  <2>2. CASE producer[r] = "new"
    BY <2>1, <2>2 DEF FateOf, Taken
  <2>3. CASE producer[r] \in {"discard", "refused"}
    BY <2>1, <2>3 DEF FateOf, Taken
  <2> QED
    BY <1>2, <2>2, <2>3
<1>3. CASE producer[r] \in {"count", "admitted"}
  <2>1. Untouched(r) => FateOf(r) = "pending"
    BY <1>3 DEF FateOf, Taken, Untouched
  <2>2. Answered(r) \/ Finished(r) => FateOf(r) # "pending"
    BY <1>1, <1>3 DEF FateOf, Taken, Answered, Finished
  <2>3. \/ r \in Owned /\ (Untouched(r) \/ Answered(r))
        \/ r \notin Owned /\ Finished(r)
    BY <1>3 DEF Fates
  <2> QED
    BY <1>3, <2>1, <2>2, <2>3
<1> QED
  BY <1>1, <1>2, <1>3

\* Records wait in the channel, in the batch and in the worker's hands: never more than
\* the channel and one batch hold, while records are admitted.
LEMMA BacklogBounded ==
    ASSUME TypeOK, Control, Placement, Fates, accepting, Len(ch) < Buffer
    PROVE  Cardinality({r \in Records : FateOf(r) = "pending"}) < Buffer + BatchSize
<1> DEFINE hands == {held["worker"]} \ {None}
           pending == {r \in Records : FateOf(r) = "pending"}
<1>1. held["closer"] = None
  BY DEF Control, Holding, Threads
<1>2. pending \subseteq (Elems(ch) \union Elems(batch)) \union hands
  BY <1>1, FateCases, WriterAssumption DEF Owned
<1>3. Elems(ch) \subseteq Records /\ Elems(batch) \subseteq Records /\ hands \subseteq Records
  BY ElemsOfSeq DEF TypeOK, Threads
<1>4. Cardinality(hands) + Len(batch) <= BatchSize
  <2>1. CASE hands = {}
    <3>1. Cardinality(hands) = 0
      BY <2>1, FS_EmptySet
    <3> QED
      BY <3>1 DEF TypeOK
  <2>2. CASE hands # {}
    <3>1. hands = {held["worker"]} /\ held["worker"] # None
      BY <2>2
    <3>2. Cardinality(hands) = 1
      BY <3>1, FS_Singleton
    <3>3. pc["worker"] \in {"mark", "collectMark"}
      BY <3>1 DEF Control, Holding, Threads
    <3>4. Len(batch) < BatchSize
      BY <3>3, WriterConstants DEF Control, Filling, Writing
    <3> HIDE DEF hands
    <3> QED
      BY <3>2, <3>4, WriterConstants DEF TypeOK
  <2> QED
    BY <2>1, <2>2
<1> HIDE DEF hands, pending
<1>5. /\ Cardinality(Elems(ch)) <= Len(ch) /\ Cardinality(Elems(batch)) <= Len(batch)
      /\ Len(ch) \in Nat /\ Len(batch) \in Nat
  BY ElemsCount DEF TypeOK
<1>6. /\ Cardinality(Elems(ch)) \in Nat /\ Cardinality(Elems(batch)) \in Nat
      /\ Cardinality(hands) \in Nat
  BY <1>3, RecordsFinite
<1>7. Cardinality((Elems(ch) \union Elems(batch)) \union hands)
        <= Cardinality(Elems(ch)) + Cardinality(Elems(batch)) + Cardinality(hands)
  <2>1. /\ IsFiniteSet(Elems(ch)) /\ IsFiniteSet(Elems(batch)) /\ IsFiniteSet(hands)
        /\ IsFiniteSet(Elems(ch) \union Elems(batch))
    BY <1>3, RecordsFinite
  <2>2. /\ Cardinality(Elems(ch) \intersect Elems(batch)) \in Nat
        /\ Cardinality((Elems(ch) \union Elems(batch)) \intersect hands) \in Nat
        /\ Cardinality(Elems(ch) \union Elems(batch)) \in Nat
    BY <1>3, RecordsFinite
  <2>3. Cardinality(Elems(ch) \union Elems(batch))
          = Cardinality(Elems(ch)) + Cardinality(Elems(batch)) - Cardinality(Elems(ch) \intersect Elems(batch))
    BY <2>1, FS_Union
  <2>4. Cardinality((Elems(ch) \union Elems(batch)) \union hands)
          = Cardinality(Elems(ch) \union Elems(batch)) + Cardinality(hands)
              - Cardinality((Elems(ch) \union Elems(batch)) \intersect hands)
    BY <2>1, FS_Union
  <2> QED
    BY <1>6, <2>2, <2>3, <2>4
<1>8. Cardinality(pending) <= Cardinality((Elems(ch) \union Elems(batch)) \union hands)
  BY <1>2, <1>3, MoreRecords
<1>9. Cardinality(pending) \in Nat /\ Cardinality((Elems(ch) \union Elems(batch)) \union hands) \in Nat
  BY <1>2, <1>3, RecordsFinite
<1>10. Cardinality(pending) < Buffer + BatchSize
  BY <1>4, <1>5, <1>6, <1>7, <1>8, <1>9, WriterConstants
<1> QED
  BY <1>10 DEF pending

\* What has become of a record, as the ledger sees it, does not change with its place.
LEMMA FateUnmoved ==
    ASSUME NEW r \in Records, written'[r] = written[r],
           r \in failed' <=> r \in failed, r \in dropped' <=> r \in dropped,
           \/ producer'[r] = producer[r]
           \/ producer[r] = "count" /\ producer'[r] = "admitted"
    PROVE  FateOf(r)' = FateOf(r)
BY DEF FateOf, Taken

\* The ledger counts as the writer does.
LEMMA LedgerCardinality == \A S : Ledger!Cardinality(S) = Cardinality(S)
BY DEF Ledger!Cardinality, Cardinality

\* Steps that the ledger does not see.
LEMMA LedgerStutters ==
    ASSUME \A r \in Records : FateOf(r)' = FateOf(r), UNCHANGED <<batching, accepting, cancelled>>
    PROVE  UNCHANGED Ledger!ledgerVars
<1>1. Fate' = Fate
  BY DEF Fate
<1> QED
  BY <1>1 DEF Ledger!ledgerVars, Fate

\* Enqueue admits or refuses.
LEMMA EnqueueSeen ==
    ASSUME IWriter, NEW x \in Records, Enqueue(x)
    PROVE  Ledger!LedgerNext \/ UNCHANGED Ledger!ledgerVars
<1>0. TypeOK /\ Control /\ Placement /\ Fates
  BY DEF IWriter
<1>1. CASE EnqueueAdmitted(x)
  <2>1. /\ producer[x] = "new" /\ producer'[x] \in {"count", "admitted"} /\ accepting
        /\ Len(ch) < Buffer /\ UNCHANGED <<written, failed, dropped, accepting, batching, cancelled>>
        /\ \A r \in Records \ {x} : producer'[r] = producer[r]
    BY <1>0, <1>1 DEF EnqueueAdmitted, Admitting, HasRoom, historyVars, TypeOK
  <2>2. Untouched(x) /\ FateOf(x) = "new"
    BY <1>0, <2>1, FateCases DEF Fates
  <2>3. FateOf(x)' = "pending"
    BY <2>1, <2>2 DEF FateOf, Taken, Untouched
  <2>4. \A r \in Records \ {x} : FateOf(r)' = FateOf(r)
    BY <2>1, FateUnmoved
  <2>5. Fate' = [Fate EXCEPT ![x] = "pending"]
    BY <2>3, <2>4 DEF Fate
  <2>6. Cardinality({r \in Records : FateOf(r) = "pending"}) < Buffer + BatchSize
    BY <1>0, <2>1, BacklogBounded
  <2>7. Ledger!With("pending") = {r \in Records : FateOf(r) = "pending"}
    BY DEF Ledger!With
  <2>8. Ledger!Admit(x)
    BY <2>1, <2>2, <2>5, <2>6, <2>7, LedgerCardinality DEF Ledger!Admit, Fate
  <2> QED
    BY <2>8 DEF Ledger!LedgerNext
<1>2. CASE EnqueueRefused(x)
  <2>1. /\ producer[x] = "new" /\ producer'[x] = "discard"
        /\ UNCHANGED <<written, failed, dropped, accepting, batching, cancelled>>
        /\ \A r \in Records \ {x} : producer'[r] = producer[r]
    BY <1>0, <1>2 DEF EnqueueRefused, historyVars, queueVars, TypeOK
  <2>2. FateOf(x) = "new"
    BY <1>0, <2>1, FateCases
  <2>3. FateOf(x)' = "refused"
    BY <2>1 DEF FateOf, Taken
  <2>4. \A r \in Records \ {x} : FateOf(r)' = FateOf(r)
    BY <2>1, FateUnmoved
  <2>5. Fate' = [Fate EXCEPT ![x] = "refused"]
    BY <2>3, <2>4 DEF Fate
  <2>6. Ledger!Refuse(x)
    BY <2>1, <2>2, <2>5 DEF Ledger!Refuse, Fate
  <2> QED
    BY <2>6 DEF Ledger!LedgerNext
<1>3. CASE EnqueueDiscard(x)
  <2>1. /\ producer[x] = "discard" /\ producer'[x] = "refused"
        /\ UNCHANGED <<written, failed, accepting, batching, cancelled>>
        /\ dropped' = dropped \union {x}
        /\ \A r \in Records \ {x} : producer'[r] = producer[r]
    BY <1>0, <1>3 DEF EnqueueDiscard, DiscardRecord, queueVars, TypeOK
  <2>2. FateOf(x)' = FateOf(x)
    BY <2>1 DEF FateOf, Taken
  <2>3. \A r \in Records \ {x} : FateOf(r)' = FateOf(r)
    BY <2>1, FateUnmoved
  <2> QED
    BY <2>1, <2>2, <2>3, LedgerStutters
<1>4. CASE EnqueueCount(x)
  <2>1. /\ producer[x] = "count" /\ producer'[x] = "admitted"
        /\ UNCHANGED <<written, failed, dropped, accepting, batching, cancelled>>
        /\ \A r \in Records \ {x} : producer'[r] = producer[r]
    BY <1>0, <1>4 DEF EnqueueCount, historyVars, queueVars, TypeOK
  <2>2. \A r \in Records : FateOf(r)' = FateOf(r)
    BY <2>1, FateUnmoved
  <2> QED
    BY <2>1, <2>2, LedgerStutters
<1> QED
  BY <1>1, <1>2, <1>3, <1>4 DEF Enqueue

\* A record that is discarded on the way out is dropped after the deadline.
LEMMA DiscardSeen ==
    ASSUME IWriter, NEW x \in Records, x \in Owned, Untouched(x), cancelled, DiscardRecord(x),
           UNCHANGED <<producer, accepting, batching, cancelled>>
    PROVE  Ledger!LedgerNext
<1>1. FateOf(x) = "pending" /\ producer[x] \in {"count", "admitted"}
  BY FateCases DEF IWriter, Placement
<1>2. FateOf(x)' = "dropped"
  BY <1>1 DEF DiscardRecord, FateOf, Taken, Untouched
<1>3. \A r \in Records \ {x} : FateOf(r)' = FateOf(r)
  BY FateUnmoved DEF DiscardRecord
<1>4. Fate' = [Fate EXCEPT ![x] = "dropped"]
  BY <1>2, <1>3 DEF Fate
<1>5. Ledger!Drop(x)
  BY <1>1, <1>4 DEF Ledger!Drop, Fate
<1> QED
  BY <1>5 DEF Ledger!LedgerNext

\* The batch comes back from the store whole.
LEMMA BatchSeen ==
    ASSUME IWriter, NEW ok \in SUBSET Records, WriteReturns(ok)
    PROVE  Ledger!LedgerNext
<1> DEFINE b == Elems(batch)
<1>1. /\ pc["worker"] = "store" /\ ok \subseteq b /\ (batching => ok \in {{}, b})
      /\ failed' = failed \union (b \ ok)
      /\ \A r \in Records : written'[r] = IF r \in ok THEN written[r] + 1 ELSE written[r]
      /\ UNCHANGED <<producer, dropped, accepting, batching, cancelled>>
  BY DEF WriteReturns, Bump, queueVars
<1>2. b \subseteq Records /\ b # {} /\ Cardinality(b) <= BatchSize
  <2>1. batch # <<>> /\ batch \in Seq(Records) /\ Len(batch) <= BatchSize
    BY <1>1 DEF IWriter, Control, Writing, Filling, TypeOK
  <2>2. Cardinality(b) <= Len(batch) /\ Cardinality(b) \in Nat /\ Len(batch) \in Nat
    BY <2>1, ElemsCount, ElemsOfSeq, RecordsFinite
  <2> QED
    BY <2>1, <2>2, ElemsOfSeq, WriterConstants
<1>3. \A r \in b : /\ Untouched(r) /\ FateOf(r) = "pending"
                   /\ producer[r] \in {"count", "admitted"}
  BY <1>1, <1>2, FateCases DEF IWriter, Owned, Fates, Placement
<1>4. \A r \in ok : FateOf(r)' = "written"
  BY <1>1, <1>2, <1>3 DEF FateOf, Taken, Untouched
<1>5. \A r \in b \ ok : FateOf(r)' = "failed"
  BY <1>1, <1>2, <1>3 DEF FateOf, Taken, Untouched
<1>6. \A r \in Records \ b : FateOf(r)' = FateOf(r)
  BY <1>1, FateUnmoved
<1> HIDE DEF b
<1>7. Fate' = [r \in Records |-> CASE r \in ok     -> "written"
                                   [] r \in b \ ok -> "failed"
                                   [] OTHER        -> Fate[r]]
  BY <1>1, <1>2, <1>4, <1>5, <1>6 DEF Fate
<1>8. b \subseteq Ledger!With("pending")
  BY <1>2, <1>3 DEF Ledger!With
<1>9. Ledger!Settle(b, ok)
  BY <1>1, <1>2, <1>7, <1>8, LedgerCardinality DEF Ledger!Settle, Fate
<1>10. b \in SUBSET Ledger!With("pending") /\ ok \in SUBSET b
  BY <1>1, <1>8
<1> QED
  BY <1>9, <1>10 DEF Ledger!LedgerNext

LEMMA WriterSeen == IWriter /\ [Next]_vars => [Ledger!LedgerNext]_Ledger!ledgerVars
<1> SUFFICES ASSUME IWriter, [Next]_vars
             PROVE  Ledger!LedgerNext \/ UNCHANGED Ledger!ledgerVars
  OBVIOUS
<1>1. ASSUME UNCHANGED <<producer, written, failed, dropped, batching, accepting, cancelled>>
      PROVE  UNCHANGED Ledger!ledgerVars
  BY <1>1, FateUnmoved, LedgerStutters
<1>2. CASE UNCHANGED vars
  BY <1>1, <1>2 DEF vars
<1>3. CASE \/ \E enabled \in MetricsModes : SetMetricsEnabled(enabled)
           \/ RunReceive \/ RunCancelled \/ RunClosed \/ RunMark \/ CollectReceive \/ CollectMark
           \/ CollectTimer \/ CollectClosed \/ CollectCancelled \/ (DiscardBatch /\ batch = <<>>)
           \/ WriteStart \/ WriteSettle
           \/ \E outcome \in {"returned", "abandoned"} : CloseGrace(outcome)
           \/ \E t \in Threads : DrainReceive(t) \/ DrainMark(t) \/ DrainEmpty(t)
  BY <1>1, <1>3
  DEF SetMetricsEnabled, RunReceive, RunCancelled, RunClosed, RunMark, CollectReceive, CollectMark,
      CollectTimer, CollectClosed, CollectCancelled, DiscardBatch, WriteStart, WriteSettle, CloseGrace,
      DrainReceive, DrainMark, DrainEmpty, Receive, MarkRecordDequeued, queueVars, historyVars
<1>4. CASE DiscardBatch /\ batch # <<>>
  <2>1. PICK x \in Records : x = Head(batch) /\ x \in Elems(batch)
    BY <1>4, TailElems DEF IWriter, TypeOK
  <2>2. pc["worker"] = "discardBatch" /\ DiscardRecord(x) /\ x \in Owned
        /\ UNCHANGED <<producer, accepting, batching, cancelled>>
    BY <1>4, <2>1 DEF DiscardBatch, queueVars, Owned
  <2>3. cancelled /\ Untouched(x)
    BY <2>2 DEF IWriter, Control, Fates
  <2> QED
    BY <2>2, <2>3, DiscardSeen
<1>5. ASSUME NEW t \in Threads, DrainDiscard(t)
      PROVE  Ledger!LedgerNext
  <2>1. PICK x \in Records : x = held[t] /\ x \in Owned /\ x \notin Elems(batch)
    BY <1>5 DEF IWriter, DrainDiscard, Control, Holding, Placement, Owned, TypeOK, Threads
  <2>2. DiscardRecord(x) /\ UNCHANGED <<producer, accepting, batching, cancelled>>
    BY <1>5, <2>1 DEF DrainDiscard, queueVars
  <2>3. cancelled /\ Untouched(x)
    BY <1>5, <2>1 DEF IWriter, DrainDiscard, Control, Fates, Threads
  <2> QED
    BY <2>1, <2>2, <2>3, DiscardSeen
<1>6. CASE CloseStart
  <2>1. accepting' = FALSE /\ UNCHANGED <<producer, written, failed, dropped, batching, cancelled>>
    BY <1>6 DEF CloseStart, historyVars
  <2>2. Fate' = Fate
    BY <2>1, FateUnmoved DEF Fate
  <2> QED
    BY <2>1, <2>2 DEF Ledger!LedgerNext, Ledger!StopAdmission, Fate
<1>7. CASE CloseFlushed \/ CloseDeadline
  <2>1. /\ cancelled' = TRUE /\ pc["closer"] = "wait"
        /\ UNCHANGED <<producer, written, failed, dropped, batching, accepting>>
    BY <1>7 DEF CloseFlushed, CloseDeadline, historyVars, queueVars
  <2>2. ~accepting
    BY <2>1 DEF IWriter, Control
  <2>3. Fate' = Fate
    BY <2>1, FateUnmoved DEF Fate
  <2> QED
    BY <2>1, <2>2, <2>3 DEF Ledger!LedgerNext, Ledger!ReachDeadline, Fate
<1> QED
  BY <1>2, <1>3, <1>4, <1>5, <1>6, <1>7, EnqueueSeen, BatchSeen
  DEF Next, Run, StoreCall, CloseSteps, Drain, Threads

LEMMA LedgerInitially == Init => Ledger!LedgerInit
<1> SUFFICES ASSUME Init PROVE Ledger!LedgerInit
  OBVIOUS
<1>1. \A r \in Records : FateOf(r) = "new"
  BY DEF Init, FateOf, Taken
<1> QED
  BY <1>1, WriterAssumption DEF Init, Ledger!LedgerInit

\* A request that hands the writer a record may count on what UsageLedger promises
\* (Enqueue, writeBatch and Close of internal/store/async.go): no admission after Close,
\* whole batches where the store batches, drops after the deadline only, a bounded backlog.
THEOREM WriterImplementsLedger == Safety => RefinesLedger
BY WriterInitially, WriterPreserved, LedgerInitially, WriterSeen, PTL
DEF Safety, RefinesLedger, Ledger!LedgerSpec

-----------------------------------------------------------------------------
(* The other end of the usage log: the tool a request is counted under     *)
(* (ToolRouting).  A body that is not ambiguous has each routing field at   *)
(* most once and in the exact spelling, so there is nothing the library    *)
(* could take in another way.                                              *)

RoutingNames == {"method", "params", "name"}

LEMMA FieldOnceAndExact ==
    ASSUME NEW fields, DOMAIN fields \subseteq Nat, NEW names, NEW name \in names \cap RoutingNames,
           ~Ambiguous(fields, names), NEW i \in Alike(fields, name)
    PROVE  fields[i].name = name /\ Alike(fields, name) = {i} /\ Exact(fields, name) = {fields[i].value}
<1>1. fields[i].name = name /\ \A j \in Alike(fields, name) : ~(i < j) /\ ~(j < i)
    BY DEF Ambiguous
<1>2. Alike(fields, name) \subseteq Nat
    BY DEF Alike
<1>3. Alike(fields, name) = {i}
    BY <1>1, <1>2
<1>4. Fold(name) = name
    BY DEF Fold, RoutingNames
<1>5. {j \in DOMAIN fields : fields[j].name = name} = {i}
    BY <1>1, <1>3, <1>4 DEF Alike
<1>6. Max({i}) = i
    BY <1>2 DEF Max
<1> QED BY <1>1, <1>3, <1>5, <1>6 DEF Exact

\* The tool that the inspection names is the one the library runs (inspectJSONRPCRequest).
LEMMA InspectionNamesTheTool ==
    ASSUME NEW b \in Bodies, ~InspectJSONRPCRequest(b).ambiguous, NEW t \in Calls(b)
    PROVE  InspectJSONRPCRequest(b).tool = t
<1>1. /\ ~ReadFails(b.size) /\ ~b.batch /\ b.valid /\ t \in Tools
      /\ \E i \in Alike(b.fields, "method") : b.fields[i].value = "tools/call"
      /\ \E i \in Alike(b.fields, "params") :
            /\ b.fields[i].value # NotAnObject
            /\ \E j \in Alike(b.fields[i].value, "name") : b.fields[i].value[j].value = t
    BY DEF Calls
<1>2. ~(b.size > MaxParseBody)
    BY <1>1, RoutingConstants DEF ReadFails, MaxBody
<1>3. Rejected.ambiguous
    BY DEF Rejected
<1>4. ~Ambiguous(b.fields, {"method", "params"})
    BY <1>1, <1>2, <1>3 DEF InspectJSONRPCRequest
<1>5. DOMAIN b.fields \subseteq Nat
    BY RoutingConstants
<1>6. Exact(b.fields, "method") = {"tools/call"}
    BY <1>1, <1>4, <1>5, FieldOnceAndExact DEF RoutingNames
<1>7. PICK i \in Alike(b.fields, "params") :
          /\ b.fields[i].value # NotAnObject
          /\ \E j \in Alike(b.fields[i].value, "name") : b.fields[i].value[j].value = t
    BY <1>1
<1>8. PICK params : params = b.fields[i].value
    OBVIOUS
<1>9. Exact(b.fields, "params") = {params} /\ DOMAIN params \subseteq Nat
    <2>1. "params" \in {"method", "params"} \cap RoutingNames
        BY DEF RoutingNames
    <2>2. Exact(b.fields, "params") = {params}
        BY <1>4, <1>5, <1>7, <1>8, <2>1, FieldOnceAndExact
    <2>3. DOMAIN params \subseteq Nat
        BY <1>7, <1>8, RoutingConstants
    <2> QED BY <2>2, <2>3
<1>10. InspectJSONRPCRequest(b) = InspectParams(params)
    <2>1. (CHOOSE p \in {params} : TRUE) = params
        OBVIOUS
    <2> QED BY <1>1, <1>2, <1>4, <1>6, <1>9, <2>1 DEF InspectJSONRPCRequest
<1>11. ~Ambiguous(params, {"name"})
    BY <1>3, <1>7, <1>8, <1>10 DEF InspectParams
<1>12. Exact(params, "name") = {t}
    BY <1>7, <1>8, <1>9, <1>11, FieldOnceAndExact DEF RoutingNames
<1>13. InspectParams(params) = Named(t)
    <2>1. {t} \cap Tools = {t} /\ {t} # {} /\ (CHOOSE x \in {t} : TRUE) = t
        BY <1>1
    <2> QED BY <1>7, <1>8, <1>11, <1>12, <2>1 DEF InspectParams
<1> QED BY <1>10, <1>13 DEF Named

\* What RoutingInv accepts as a reason for a refusal.
Refusable(b) ==
    \/ b.batch
    \/ \E name \in {"method", "params"} : \E i \in Alike(b.fields, name) :
         \/ b.fields[i].name # name \/ Alike(b.fields, name) # {i}
         \/ name = "params" /\ LET p == b.fields[i].value
                               IN \E j \in Alike(p, "name") :
                                    p[j].name # "name" \/ Alike(p, "name") # {j}

LEMMA OnlyTheAmbiguousIsRefused ==
    ASSUME NEW b \in Bodies, InspectJSONRPCRequest(b).ambiguous
    PROVE  Refusable(b)
<1>1. \A tool : ~Named(tool).ambiguous
    BY DEF Named
<1>2. DOMAIN b.fields \subseteq Nat
    BY RoutingConstants
<1>3. CASE b.batch
    BY <1>3 DEF Refusable
<1>4. CASE Ambiguous(b.fields, {"method", "params"})
    <2>1. PICK name \in {"method", "params"} : \E i \in Alike(b.fields, name) :
             b.fields[i].name # name \/ \E j \in Alike(b.fields, name) : j < i
        BY <1>4 DEF Ambiguous
    <2>2. PICK i \in Alike(b.fields, name) :
             b.fields[i].name # name \/ \E j \in Alike(b.fields, name) : j < i
        BY <2>1
    <2>3. Alike(b.fields, name) \subseteq Nat
        BY <1>2 DEF Alike
    <2>4. b.fields[i].name # name \/ Alike(b.fields, name) # {i}
        BY <2>2, <2>3
    <2> QED BY <2>1, <2>2, <2>4 DEF Refusable
<1>5. CASE ~b.batch /\ ~Ambiguous(b.fields, {"method", "params"})
    <2>1. PICK params : params = CHOOSE p \in Exact(b.fields, "params") : TRUE
        OBVIOUS
    <2>2. /\ Exact(b.fields, "params") # {} /\ InspectParams(params).ambiguous
        BY <1>1, <1>5, <2>1 DEF InspectJSONRPCRequest
    <2>3. PICK i \in DOMAIN b.fields : b.fields[i].name = "params"
        BY <2>2 DEF Exact
    <2>4. i \in Alike(b.fields, "params")
        BY <2>3 DEF Alike, Fold
    <2>5. Exact(b.fields, "params") = {b.fields[i].value}
        BY <1>2, <1>5, <2>4, FieldOnceAndExact DEF RoutingNames
    <2>6. params = b.fields[i].value /\ DOMAIN params \subseteq Nat
        BY <2>1, <2>4, <2>5, RoutingConstants
    <2>7. Ambiguous(params, {"name"})
        BY <1>1, <2>2 DEF InspectParams
    <2>8. PICK j \in Alike(params, "name") :
             params[j].name # "name" \/ \E k \in Alike(params, "name") : k < j
        BY <2>7 DEF Ambiguous
    <2>9. Alike(params, "name") \subseteq Nat
        BY <2>6 DEF Alike
    <2>10. params[j].name # "name" \/ Alike(params, "name") # {j}
        BY <2>8, <2>9
    <2> QED BY <2>4, <2>6, <2>8, <2>10 DEF Refusable
<1> QED BY <1>3, <1>4, <1>5

IRouting ==
    /\ body \in Bodies
    /\ stage \in {"arrived", "refused", "passed"} => executed = NoTool
    /\ stage = "refused" => Refusable(body)
    /\ stage = "passed" =>
          extracted = InspectJSONRPCRequest(body).tool /\ ~InspectJSONRPCRequest(body).ambiguous
    /\ stage = "served" /\ executed # NoTool => executed = extracted
    /\ stage \in {"arrived", "refused", "passed", "served"}

\* For every set of bodies: the tool that runs is the one the limiter, the quota and the
\* usage log were told of, and only a batch or an ambiguous body is refused
\* (ExtractToolNameMiddleware in usage/middleware.go).
THEOREM RoutingInvariant == RoutingSpec => []RoutingInv
<1>1. RoutingInit => IRouting
    BY DEF RoutingInit, IRouting
<1>2. IRouting /\ [RoutingNext]_routingVars => IRouting'
    <2> SUFFICES ASSUME IRouting, [RoutingNext]_routingVars PROVE IRouting'
        OBVIOUS
    <2>1. CASE Extract
        <3>1. /\ stage = "arrived" /\ UNCHANGED <<body, executed>>
              /\ stage' = IF InspectJSONRPCRequest(body).ambiguous THEN "refused" ELSE "passed"
              /\ extracted' = InspectJSONRPCRequest(body).tool
            BY <2>1 DEF Extract
        <3>2. InspectJSONRPCRequest(body).ambiguous => Refusable(body)
            BY OnlyTheAmbiguousIsRefused DEF IRouting
        <3> QED BY <3>1, <3>2 DEF IRouting, Refusable
    <2>2. CASE Serve
        <3>1. /\ stage = "passed" /\ stage' = "served" /\ executed' \in Calls(body) \cup {NoTool}
              /\ UNCHANGED <<body, extracted>>
            BY <2>2 DEF Serve
        <3>2. executed' # NoTool => executed' = extracted
            BY <3>1, InspectionNamesTheTool DEF IRouting
        <3> QED BY <3>1, <3>2 DEF IRouting
    <2>3. CASE UNCHANGED routingVars
        BY <2>3 DEF routingVars, IRouting, Refusable
    <2> QED BY <2>1, <2>2, <2>3 DEF RoutingNext
<1>3. IRouting => RoutingInv
    BY DEF IRouting, RoutingInv, Refusable
<1> QED BY <1>1, <1>2, <1>3, PTL DEF RoutingSpec

-----------------------------------------------------------------------------
(* The usage history: the inductive invariant.                             *)

\* The calls of a key in an hour and on a day.
InHour(set, k, h) == {x \in set : x.key = k /\ HourOf(x.at) = h}
InDay(set, k, d) == {x \in set : x.key = k /\ DayOf(x.at) = d}

\* Rows of the two rollup tables that count the calls of these sets.
RollupsCount(tables, inHours, inDays) ==
  /\ \A k \in Keys, h \in Hours : tables.hourly[k][h] = Cardinality(InHour(inHours, k, h))
  /\ \A k \in Keys, d \in Days : tables.daily[k][d] = Cardinality(InDay(inDays, k, d))

\* The calls that no table has.
Gone(all, tables, inHours, inDays) == all \ (tables.raw \cup inHours \cup inDays)

\* The calls of `all` are split over the three tables, and what is in none of them was
\* older than the last retention at time t.
Split(tables, all, inHours, inDays, t) ==
  /\ tables.raw \cap inHours = {} /\ tables.raw \cap inDays = {} /\ inHours \cap inDays = {}
  /\ tables.raw \subseteq all
  /\ RollupsCount(tables, inHours, inDays)
  /\ \A x \in Gone(all, tables, inHours, inDays) : DayOf(x.at) < DayOf(t - DailyRetention)

\* Each of the calls is in one of the tables, or too old.
Placed(tables, all, t) ==
  \E inHours \in SUBSET all : \E inDays \in SUBSET all : Split(tables, all, inHours, inDays, t)

\* The tables as a request would read them.
Now == [raw |-> raw, hourly |-> hourly, daily |-> daily]

TableTypes == [raw : SUBSET Record, hourly : [Keys -> [Hours -> Nat]],
               daily : [Keys -> [Days -> Nat]]]
ViewTypes == [phase : {"idle", "begun", "rollups", "load"}, since : Times, end : Times, taken : Times,
              tables : TableTypes, total : Nat, exact : SUBSET Record]
PassTypes == [phase : {"idle", "raw", "hourly", "daily", "debug"}, raw : Int, hourly : Int,
              daily : Int, from : Nat, bucket : SUBSET Times, added : SUBSET Record]
WriterTypes == [phase : {"idle", "debug", "reserved", "checked"}, records : SUBSET Record]

IHistoryTypes ==
  /\ now \in Times /\ made \in 0 .. MaxRecords /\ keys \subseteq Keys
  /\ calls \in [Keys -> Nat] /\ lastUsed \in [Keys -> Times]
  /\ queue \subseteq Record /\ debug \subseteq Record /\ recorded \subseteq Record
  /\ Now \in TableTypes
  /\ deleting \subseteq Keys \ keys /\ leftover \subseteq Keys \ keys
  /\ writer \in WriterTypes /\ pass \in PassTypes /\ view \in [Readers -> ViewTypes]

\* A call is made once, and its record is either queued or committed.
CallsAreDistinct(all) ==
  \A x, y \in all : x.id = y.id => x = y
RecordsInOnePlace ==
  /\ CallsAreDistinct(queue \cup recorded)
  /\ queue \cap recorded = {}
  /\ \A x \in queue \cup recorded : x.id <= made /\ x.at <= now
  /\ \A x \in recorded : x.key \in keys

\* How far the pass has come with the rows of its phase.
Searched(times, cutoff) ==
  \A t \in times : t >= cutoff \/ (t >= pass.from /\ \A b \in pass.bucket : t >= b)

PassSearches ==
  /\ pass.phase = "raw" => Searched({x.at : x \in raw \ pass.added}, pass.raw)
  /\ pass.phase = "hourly" => Searched(RowsOf(hourly, Hours), pass.hourly)
  /\ pass.phase = "daily" => Searched(RowsOf(daily, Days), pass.daily)

PassBuckets ==
  /\ Cardinality(pass.bucket) <= 1
  /\ pass.bucket # {} => Compacting
  /\ \A b \in pass.bucket : b \in (IF pass.phase = "raw" THEN Hours ELSE Days)
  /\ pass.phase = "daily" => \A b \in pass.bucket : b < pass.daily
  /\ pass.phase # "idle" => pass.daily <= DayOf(now - DailyRetention)

\* What the writer goes on to insert after it has asked for the keys.
CheckedKeys ==
  writer.phase = "checked" => \A x \in writer.records : x.key \in keys \cup deleting \cup leftover

\* What a request for statistics has read is one state of the tables.
SnapshotOf(v, all) ==
  /\ CallsAreDistinct(all)
  /\ Placed(v.tables, all, v.taken)
  /\ v.total = Cardinality({x \in v.tables.raw : x.at >= v.since})
  /\ v.exact = {x \in all : x.at >= DayOf(v.since)}

ViewsAreSnapshots ==
  \A r \in Readers : view[r].phase = "rollups" =>
     \E all \in SUBSET Record : SnapshotOf(view[r], all)

IHistory ==
  /\ IHistoryTypes
  /\ RecordsInOnePlace
  /\ Placed(Now, recorded, now)
  /\ KeyCountersMatch
  /\ PassSearches /\ PassBuckets /\ PassComplete
  /\ CheckedKeys /\ DebugOfDeletedKeysGone
  /\ ViewsAreSnapshots
-----------------------------------------------------------------------------
(* The usage history: boundaries of hours and days.                        *)

\* A boundary is a multiple of the ticks at most one less than a whole unit before t.
LEMMA BoundaryBefore ==
    ASSUME NEW t \in Int, NEW n \in Nat \ {0}
    PROVE  /\ RollupSince(t, n) \in Int
           /\ RollupSince(t, n) <= t /\ t < RollupSince(t, n) + n
           /\ \E q \in Int : RollupSince(t, n) = q * n
<1>1. PICK q \in Int : q = t \div n
    OBVIOUS
<1>2. q * n <= t /\ t < q * n + n
    BY <1>1
<1>3. RollupSince(t, n) = q * n /\ q * n \in Int
    BY <1>1 DEF RollupSince
<1> QED BY <1>2, <1>3

\* Multiples of n are n apart.
LEMMA MultiplesApart ==
    ASSUME NEW n \in Nat \ {0}, NEW p \in Int, NEW q \in Int, p * n < q * n
    PROVE  p * n + n <= q * n
<1>1. p < q
    OBVIOUS
<1>2. PICK d \in Nat : q = p + d + 1
    BY <1>1
<1>3. q * n = p * n + d * n + n /\ d * n \in Nat
    BY <1>2
<1> QED BY <1>3

\* The multiple of n in whose unit t lies is the boundary of t.
LEMMA BoundaryUnique ==
    ASSUME NEW t \in Int, NEW n \in Nat \ {0}, NEW q \in Int, q * n <= t, t < q * n + n
    PROVE  RollupSince(t, n) = q * n
<1>1. PICK p \in Int : RollupSince(t, n) = p * n
    BY BoundaryBefore
<1>2. PICK a \in Int, b \in Int : a = p * n /\ b = q * n
    OBVIOUS
<1>3. a <= t /\ t < a + n
    BY <1>1, <1>2, BoundaryBefore
<1>4. b <= t /\ t < b + n
    BY <1>2
<1>5. a < b => a + n <= b
    BY <1>2, MultiplesApart
<1>6. b < a => b + n <= a
    BY <1>2, MultiplesApart
<1> QED BY <1>1, <1>2, <1>3, <1>4, <1>5, <1>6

\* Later times have later boundaries, and a boundary is its own.
LEMMA BoundaryMonotone ==
    ASSUME NEW s \in Int, NEW t \in Int, NEW n \in Nat \ {0}
    PROVE  /\ s <= t => RollupSince(s, n) <= RollupSince(t, n)
           /\ RollupSince(RollupSince(t, n), n) = RollupSince(t, n)
           /\ RollupSince(s, n) <= t <=> RollupSince(s, n) <= RollupSince(t, n)
           /\ RollupSince(s, n) < RollupSince(t, n) => RollupSince(s, n) + n <= RollupSince(t, n)
<1>1. PICK p \in Int, q \in Int : RollupSince(s, n) = p * n /\ RollupSince(t, n) = q * n
    BY BoundaryBefore
<1>2. PICK a \in Int, b \in Int : a = p * n /\ b = q * n
    OBVIOUS
<1>3. a <= s /\ s < a + n /\ b <= t /\ t < b + n
    BY <1>1, <1>2, BoundaryBefore
<1>4. a < b => a + n <= b
    BY <1>2, MultiplesApart
<1>5. b < a => b + n <= a
    BY <1>2, MultiplesApart
<1>6. RollupSince(b, n) = b
    BY <1>2, BoundaryUnique
<1> QED BY <1>1, <1>2, <1>3, <1>4, <1>5, <1>6

\* The constants as numbers.
LEMMA HistoryNumbers ==
    /\ HourTicks \in Nat \ {0} /\ DayTicks \in Nat \ {0}
    /\ \E c \in Nat \ {0} : DayTicks = c * HourTicks
    /\ RawRetention \in Nat /\ HourlyRetention \in Nat /\ DailyRetention \in Nat
    /\ MaxTime \in Nat /\ MaxRecords \in Nat /\ Sinces \subseteq Times
<1>1. HourTicks \in Nat \ {0} /\ DayTicks \in Nat \ {0} /\ DayTicks % HourTicks = 0
    BY HistoryConstants
<1>2. PICK c \in Int : c = DayTicks \div HourTicks
    BY <1>1
<1>3. DayTicks = c * HourTicks + (DayTicks % HourTicks)
    BY <1>1, <1>2
<1>4. DayTicks = c * HourTicks
    BY <1>1, <1>3
<1>5. c > 0
    BY <1>1, <1>4
<1>6. \A n \in Nat : DayTicks * n \in Nat
    BY <1>1
<1>7. \A n \in 1 .. MaxTime : DayTicks * n \in Nat
    BY <1>6, HistoryConstants
<1>8. {RawRetention, HourlyRetention, DailyRetention} \subseteq {DayTicks * n : n \in 1 .. MaxTime}
    BY HistoryConstants
<1>9. {DayTicks * n : n \in 1 .. MaxTime} \subseteq Nat
    BY <1>7
<1> QED BY <1>1, <1>4, <1>5, <1>8, <1>9, HistoryConstants DEF Times

\* Hours and days of times: the boundaries of a row and of what it was made of.
LEMMA HourAndDay ==
    ASSUME NEW t \in Int
    PROVE  /\ HourOf(t) = RollupSince(t, HourTicks) /\ DayOf(t) = RollupSince(t, DayTicks)
           /\ HourOf(t) \in Int /\ HourOf(t) <= t /\ t < HourOf(t) + HourTicks
           /\ DayOf(t) \in Int /\ DayOf(t) <= t /\ t < DayOf(t) + DayTicks
           /\ DayOf(HourOf(t)) = DayOf(t)
           /\ HourOf(HourOf(t)) = HourOf(t) /\ DayOf(DayOf(t)) = DayOf(t)
           /\ DayOf(t) <= HourOf(t)
<1>1. HourTicks \in Nat \ {0} /\ DayTicks \in Nat \ {0}
    BY HistoryNumbers
<1>2. HourOf(t) = RollupSince(t, HourTicks) /\ DayOf(t) = RollupSince(t, DayTicks)
    BY DEF HourOf, DayOf, RollupSince
<1>3. PICK h \in Int, d \in Int : h = RollupSince(t, HourTicks) /\ d = RollupSince(t, DayTicks)
    BY <1>1, BoundaryBefore
<1>4. /\ h <= t /\ t < h + HourTicks
      /\ d <= t /\ t < d + DayTicks
      /\ RollupSince(h, HourTicks) = h /\ RollupSince(d, DayTicks) = d
    BY <1>1, <1>3, BoundaryBefore, BoundaryMonotone
<1>5. PICK q \in Int : d = q * DayTicks
    BY <1>1, <1>3, BoundaryBefore
<1>6. PICK c \in Nat \ {0} : DayTicks = c * HourTicks
    BY HistoryNumbers
<1>7. PICK m \in Int : m = q * c
    OBVIOUS
<1>8. d = m * HourTicks
    BY <1>1, <1>5, <1>6, <1>7
<1>9. PICK k \in Int : h = k * HourTicks
    BY <1>1, <1>3, BoundaryBefore
<1>10. h < d => h + HourTicks <= d
    BY <1>1, <1>8, <1>9, MultiplesApart
<1>11. d <= h /\ h < d + DayTicks
    BY <1>1, <1>4, <1>10
<1>12. RollupSince(h, DayTicks) = d
    BY <1>1, <1>5, <1>11, BoundaryUnique
<1> QED BY <1>2, <1>3, <1>4, <1>11, <1>12 DEF HourOf, DayOf, RollupSince
-----------------------------------------------------------------------------
(* The usage history: sums of rows are cardinalities.                      *)

\* When each row counts the members of a set that belong to it, their sum counts the
\* members that belong to one of the rows.
LEMMA SumOfFibers ==
    ASSUME NEW S, IsFiniteSet(S), NEW I, NEW f \in [S -> I], NEW J, NEW counts,
           DOMAIN counts = J, \A j \in J : counts[j] = Cardinality({x \in S : f[x] = j})
    PROVE  SumOf(counts) = Cardinality({x \in S : f[x] \in J})
<1> DEFINE Fiber(j) == {x \in S : f[x] = j}
           T == {x \in S : f[x] \in J}
           U == UNION {{j} \X (1 .. counts[j]) : j \in J}
<1>1. ASSUME NEW j \in J PROVE counts[j] \in Nat /\ Bijection(Fiber(j), 1 .. counts[j]) # {}
    <2>1. IsFiniteSet(Fiber(j))
        BY FS_Subset
    <2>2. counts[j] = Cardinality(Fiber(j))
        OBVIOUS
    <2>3. counts[j] \in Nat /\ ExistsBijection(1 .. counts[j], Fiber(j))
        BY <2>1, <2>2, FS_CardinalityType
    <2>4. ExistsBijection(Fiber(j), 1 .. counts[j])
        BY <2>3, Fun_ExistsBijSymmetric
    <2> QED BY <2>3, <2>4, Fun_ExistsBij
<1>2. PICK g : g = [j \in J |-> CHOOSE b \in Bijection(Fiber(j), 1 .. counts[j]) : TRUE]
    OBVIOUS
<1>3. \A j \in J : g[j] \in Bijection(Fiber(j), 1 .. counts[j])
    BY <1>1, <1>2
<1>4. ASSUME NEW j \in J
      PROVE  /\ g[j] \in [Fiber(j) -> 1 .. counts[j]]
             /\ \A a, b \in Fiber(j) : g[j][a] = g[j][b] => a = b
             /\ \A n \in 1 .. counts[j] : \E a \in Fiber(j) : g[j][a] = n
    <2>1. g[j] \in Bijection(Fiber(j), 1 .. counts[j])
        BY <1>3
    <2>2. PICK b, A, B : b = g[j] /\ A = Fiber(j) /\ B = 1 .. counts[j]
        OBVIOUS
    <2>3. b \in Bijection(A, B)
        BY <2>1, <2>2
    <2>4. /\ b \in [A -> B]
          /\ \A x, y \in A : b[x] = b[y] => x = y
          /\ \A n \in B : \E x \in A : b[x] = n
        BY <2>3, Fun_BijectionProperties
    <2> HIDE DEF Fiber
    <2> QED BY <2>2, <2>4
<1>5. PICK m : m = [x \in T |-> <<f[x], g[f[x]][x]>>]
    OBVIOUS
<1>6. \A x \in T : f[x] \in J /\ x \in Fiber(f[x]) /\ m[x] = <<f[x], g[f[x]][x]>>
    BY <1>5
<1>7. \A u : u \in U <=> \E j \in J : \E n \in 1 .. counts[j] : u = <<j, n>>
    OBVIOUS
<1>8. m \in [T -> U]
    <2>1. \A x \in T : m[x] \in U
        <3> SUFFICES ASSUME NEW x \in T PROVE m[x] \in U
            OBVIOUS
        <3> HIDE DEF U, Fiber, T
        <3>1. f[x] \in J /\ g[f[x]][x] \in 1 .. counts[f[x]]
            BY <1>4, <1>6
        <3> QED BY <3>1, <1>6, <1>7
    <2> HIDE DEF U, Fiber, T
    <2> QED BY <1>5, <2>1
<1>9. \A x, y \in T : m[x] = m[y] => x = y
    <2> SUFFICES ASSUME NEW x \in T, NEW y \in T, m[x] = m[y] PROVE x = y
        OBVIOUS
    <2>1. f[x] = f[y] /\ g[f[x]][x] = g[f[y]][y]
        BY <1>6
    <2> HIDE DEF U, Fiber, T
    <2> QED BY <2>1, <1>4, <1>6
<1>10. \A u \in U : \E x \in T : m[x] = u
    <2> SUFFICES ASSUME NEW j \in J, NEW n \in 1 .. counts[j] PROVE \E x \in T : m[x] = <<j, n>>
        BY <1>7
    <2>1. PICK x \in Fiber(j) : g[j][x] = n
        BY <1>4
    <2>2. x \in T /\ f[x] = j
        OBVIOUS
    <2> QED BY <1>6, <2>1, <2>2
<1>11. ExistsBijection(T, U)
    <2> HIDE DEF T, U
    <2>1. m \in Bijection(T, U)
        BY <1>8, <1>9, <1>10, Fun_IsBij
    <2> QED BY <2>1, Fun_ExistsBij
<1>12. IsFiniteSet(T)
    BY FS_Subset
<1>13. Cardinality(U) = Cardinality(T)
    <2> HIDE DEF T, U
    <2> QED BY <1>11, <1>12, FS_Bijection
<1> QED BY <1>13 DEF SumOf

\* The smallest of a set of numbers is in it.
LEMMA MinOfNaturals ==
    ASSUME NEW S \in SUBSET Nat, S # {}
    PROVE  Min(S) \in S /\ \A u \in S : Min(S) <= u
<1> DEFINE Before == {p \in Nat \X Nat : p[1] < p[2]}
<1>1. OpToRel(<, Nat) = Before
    BY Zenon DEF OpToRel
<1>2. IsWellFoundedOn(Before, Nat)
    BY <1>1, NatLessThanWellFounded, Zenon
<1> HIDE DEF Before
<1>3. PICK t \in S : \A u \in S : ~(<<u, t>> \in Before)
    BY <1>2, WFMin
<1>4. \A u \in S : ~(u < t)
    BY <1>3 DEF Before
<1>5. \A u \in S : t <= u
    BY <1>4
<1> QED BY <1>5 DEF Min

\* So is the largest, when they are bounded.
LEMMA MaxOfNaturals ==
    ASSUME NEW S \in SUBSET Nat, S # {}, NEW n \in Nat, \A u \in S : u <= n
    PROVE  Max(S) \in S /\ \A u \in S : u <= Max(S)
<1> DEFINE D == {n - u : u \in S}
<1>1. D \subseteq Nat /\ D # {}
    <2>1. \A u \in S : n - u \in Nat
        OBVIOUS
    <2> QED BY <2>1
<1>2. PICK d \in D : \A e \in D : d <= e
    <2> HIDE DEF D
    <2> QED BY <1>1, MinOfNaturals
<1>3. PICK t \in S : d = n - t
    BY <1>2
<1>4. \A u \in S : n - u \in D /\ n - t <= n - u
    BY <1>2, <1>3
<1>5. \A u \in S : t >= u
    BY <1>4
<1>6. Max(S) \in S /\ \A u \in S : Max(S) >= u
    BY <1>5 DEF Max
<1> QED BY <1>6

\* The boundaries of times are times.
LEMMA BoundariesAreTimes ==
    ASSUME NEW t \in Times
    PROVE  /\ t \in Nat /\ t \in Int /\ t <= MaxTime
           /\ HourOf(t) \in Hours /\ HourOf(t) \in Times
           /\ DayOf(t) \in Days /\ DayOf(t) \in Times
<1>1. t \in Nat /\ t \in Int /\ t <= MaxTime /\ MaxTime \in Nat
    BY HistoryNumbers DEF Times
<1>2. 0 * HourTicks = 0 /\ 0 * DayTicks = 0 /\ HourTicks \in Nat \ {0} /\ DayTicks \in Nat \ {0}
    BY HistoryNumbers
<1>3. RollupSince(0, HourTicks) = 0 /\ RollupSince(0, DayTicks) = 0
    <2>1. 0 <= 0 /\ 0 < 0 * HourTicks + HourTicks /\ 0 < 0 * DayTicks + DayTicks
        BY <1>2
    <2> QED BY <1>2, <2>1, BoundaryUnique
<1>4. 0 <= HourOf(t) /\ 0 <= DayOf(t)
    BY <1>1, <1>2, <1>3, HourAndDay, BoundaryMonotone
<1>5. HourOf(t) \in Int /\ HourOf(t) <= t /\ DayOf(t) \in Int /\ DayOf(t) <= t
    BY <1>1, HourAndDay
<1> QED BY <1>1, <1>4, <1>5 DEF Times, Hours, Days

\* A boundary is a time and its own boundary.
LEMMA HoursAndDaysAreTimes ==
    /\ Hours \subseteq Times /\ Days \subseteq Times /\ Times \subseteq Nat
    /\ \A h \in Hours : HourOf(h) = h
    /\ \A d \in Days : DayOf(d) = d
<1>1. \A h \in Hours : h \in Times /\ HourOf(h) = h
    <2> SUFFICES ASSUME NEW t \in Times PROVE HourOf(t) \in Times /\ HourOf(HourOf(t)) = HourOf(t)
        BY DEF Hours
    <2> QED BY BoundariesAreTimes, HourAndDay
<1>2. \A d \in Days : d \in Times /\ DayOf(d) = d
    <2> SUFFICES ASSUME NEW t \in Times PROVE DayOf(t) \in Times /\ DayOf(DayOf(t)) = DayOf(t)
        BY DEF Days
    <2> QED BY BoundariesAreTimes, HourAndDay
<1> QED BY <1>1, <1>2, HistoryNumbers DEF Times

\* Distinct calls are finitely many, no more than were made.
LEMMA DistinctCallsAreFew ==
    ASSUME NEW all \in SUBSET Record, CallsAreDistinct(all)
    PROVE  IsFiniteSet(all) /\ Cardinality(all) \in 0 .. MaxRecords
<1>1. PICK f : f = [x \in all |-> x.id]
    OBVIOUS
<1>2. f \in [all -> 1 .. MaxRecords]
    BY <1>1 DEF Record
<1>3. \A x, y \in all : f[x] = f[y] => x = y
    BY <1>1 DEF CallsAreDistinct
<1>4. f \in Injection(all, 1 .. MaxRecords)
    BY <1>2, <1>3, Fun_IsInj
<1>5. IsFiniteSet(1 .. MaxRecords) /\ Cardinality(1 .. MaxRecords) = MaxRecords /\ MaxRecords \in Nat
    BY HistoryNumbers, FS_Interval
<1>6. IsFiniteSet(all) /\ Cardinality(all) <= MaxRecords
    BY <1>4, <1>5, FS_Injection
<1> QED BY <1>5, <1>6, FS_CardinalityType

\* The totals of hourly and of daily rows.
LEMMA HourlyTotal ==
    ASSUME NEW S \in SUBSET Record, IsFiniteSet(S), NEW rows, NEW ks \in SUBSET Keys, NEW hs \in SUBSET Hours,
           \A k \in Keys, h \in Hours : rows[k][h] = Cardinality(InHour(S, k, h))
    PROVE  Total(rows, ks, hs) = Cardinality({x \in S : x.key \in ks /\ HourOf(x.at) \in hs})
<1>1. PICK f : f = [x \in S |-> <<x.key, HourOf(x.at)>>]
    OBVIOUS
<1>2. \A x \in S : x.key \in Keys /\ x.at \in Times
    BY DEF Record
<1>3. f \in [S -> Keys \X Hours]
    BY <1>1, <1>2, BoundariesAreTimes
<1>4. PICK counts : counts = [row \in ks \X hs |-> rows[row[1]][row[2]]]
    OBVIOUS
<1>5. \A j \in ks \X hs : counts[j] = Cardinality({x \in S : f[x] = j})
    <2> SUFFICES ASSUME NEW k \in ks, NEW h \in hs
                 PROVE  counts[<<k, h>>] = Cardinality({x \in S : f[x] = <<k, h>>})
        OBVIOUS
    <2>1. {x \in S : f[x] = <<k, h>>} = InHour(S, k, h)
        BY <1>1 DEF InHour
    <2> QED BY <1>4, <2>1
<1>6. SumOf(counts) = Cardinality({x \in S : f[x] \in ks \X hs})
    <2>1. PICK I, J : I = Keys \X Hours /\ J = ks \X hs
        OBVIOUS
    <2>2. f \in [S -> I] /\ DOMAIN counts = J /\ \A j \in J : counts[j] = Cardinality({x \in S : f[x] = j})
        BY <1>3, <1>4, <1>5, <2>1
    <2>3. SumOf(counts) = Cardinality({x \in S : f[x] \in J})
        BY <2>2, SumOfFibers
    <2> QED BY <2>1, <2>3
<1>7. {x \in S : f[x] \in ks \X hs} = {x \in S : x.key \in ks /\ HourOf(x.at) \in hs}
    BY <1>1
<1> QED BY <1>4, <1>6, <1>7 DEF Total

\* The sum of rows of the daily rollups is the number of the calls they count.
LEMMA DailyTotal ==
    ASSUME NEW S \in SUBSET Record, IsFiniteSet(S), NEW rows, NEW ks \in SUBSET Keys, NEW ds \in SUBSET Days,
           \A k \in Keys, d \in Days : rows[k][d] = Cardinality(InDay(S, k, d))
    PROVE  Total(rows, ks, ds) = Cardinality({x \in S : x.key \in ks /\ DayOf(x.at) \in ds})
<1>1. PICK f : f = [x \in S |-> <<x.key, DayOf(x.at)>>]
    OBVIOUS
<1>2. \A x \in S : x.key \in Keys /\ x.at \in Times
    BY DEF Record
<1>3. f \in [S -> Keys \X Days]
    BY <1>1, <1>2, BoundariesAreTimes
<1>4. PICK counts : counts = [row \in ks \X ds |-> rows[row[1]][row[2]]]
    OBVIOUS
<1>5. \A j \in ks \X ds : counts[j] = Cardinality({x \in S : f[x] = j})
    <2> SUFFICES ASSUME NEW k \in ks, NEW d \in ds
                 PROVE  counts[<<k, d>>] = Cardinality({x \in S : f[x] = <<k, d>>})
        OBVIOUS
    <2>1. {x \in S : f[x] = <<k, d>>} = InDay(S, k, d)
        BY <1>1 DEF InDay
    <2> QED BY <1>4, <2>1
<1>6. SumOf(counts) = Cardinality({x \in S : f[x] \in ks \X ds})
    <2>1. PICK I, J : I = Keys \X Days /\ J = ks \X ds
        OBVIOUS
    <2>2. f \in [S -> I] /\ DOMAIN counts = J /\ \A j \in J : counts[j] = Cardinality({x \in S : f[x] = j})
        BY <1>3, <1>4, <1>5, <2>1
    <2>3. SumOf(counts) = Cardinality({x \in S : f[x] \in J})
        BY <2>2, SumOfFibers
    <2> QED BY <2>1, <2>3
<1>7. {x \in S : f[x] \in ks \X ds} = {x \in S : x.key \in ks /\ DayOf(x.at) \in ds}
    BY <1>1
<1> QED BY <1>4, <1>6, <1>7 DEF Total

\* The members of two disjoint finite sets.
LEMMA TwoParts ==
    ASSUME NEW A, NEW B, IsFiniteSet(A), IsFiniteSet(B), A \cap B = {}
    PROVE  /\ Cardinality(A \cup B) = Cardinality(A) + Cardinality(B)
           /\ Cardinality(A) \in Nat /\ Cardinality(B) \in Nat
<1>1. Cardinality(A \cup B) = Cardinality(A) + Cardinality(B) - Cardinality(A \cap B)
    BY FS_Union
<1>2. Cardinality(A \cap B) = 0
    BY FS_EmptySet
<1>3. PICK a \in Nat, b \in Nat : a = Cardinality(A) /\ b = Cardinality(B)
    BY FS_CardinalityType
<1> QED BY <1>1, <1>2, <1>3

\* Three disjoint parts of a finite set, and how many members they have.
PartsOf(A, B, C, S) ==
  /\ A \subseteq S /\ B \subseteq S /\ C \subseteq S
  /\ A \cap B = {} /\ A \cap C = {} /\ B \cap C = {}
PartsAdd(A, B, C, S) ==
  /\ Cardinality(A) \in Nat /\ Cardinality(B) \in Nat /\ Cardinality(C) \in Nat
  /\ Cardinality(A \cup B \cup C) = Cardinality(A) + Cardinality(B) + Cardinality(C)
  /\ Cardinality(A \cup B \cup C) <= Cardinality(S) /\ Cardinality(S) \in Nat

\* The members of three disjoint parts of a finite set.
LEMMA DisjointParts ==
    ASSUME NEW S, IsFiniteSet(S), NEW A, NEW B, NEW C, PartsOf(A, B, C, S)
    PROVE  PartsAdd(A, B, C, S)
<1>0. /\ A \subseteq S /\ B \subseteq S /\ C \subseteq S
      /\ A \cap B = {} /\ A \cap C = {} /\ B \cap C = {}
    BY DEF PartsOf
<1>1. IsFiniteSet(A) /\ IsFiniteSet(B) /\ IsFiniteSet(C) /\ IsFiniteSet(A \cup B)
    BY <1>0, FS_Subset, A \cup B \in SUBSET S
<1>2. Cardinality({}) = 0
    BY FS_EmptySet
<1>3. Cardinality(A \cup B) = Cardinality(A) + Cardinality(B) - Cardinality(A \cap B)
    BY <1>1, FS_Union
<1>4. Cardinality((A \cup B) \cup C) = Cardinality(A \cup B) + Cardinality(C) - Cardinality((A \cup B) \cap C)
    BY <1>1, FS_Union
<1>5. (A \cup B) \cap C = {}
    BY <1>0
<1>6. /\ Cardinality(A) \in Nat /\ Cardinality(B) \in Nat /\ Cardinality(C) \in Nat /\ Cardinality(S) \in Nat
      /\ Cardinality(A \cup B \cup C) <= Cardinality(S)
    BY <1>0, <1>1, FS_CardinalityType, FS_Subset, A \cup B \cup C \in SUBSET S
<1>7. /\ Cardinality(A \cap B) = 0 /\ Cardinality((A \cup B) \cap C) = 0
      /\ (A \cup B) \cup C = A \cup B \cup C
    BY <1>0, <1>2, <1>5
<1>8. PICK a \in Nat, b \in Nat, c \in Nat : a = Cardinality(A) /\ b = Cardinality(B) /\ c = Cardinality(C)
    BY <1>6
<1>9. Cardinality(A \cup B) = a + b
    BY <1>3, <1>7, <1>8
<1>10. Cardinality(A \cup B \cup C) = a + b + c
    BY <1>4, <1>7, <1>8, <1>9
<1> QED BY <1>6, <1>8, <1>10 DEF PartsAdd
-----------------------------------------------------------------------------
(* The usage history: what follows from where the calls are.               *)

\* No more calls are committed than are made.
LEMMA RecordedAreFew ==
    ASSUME IHistoryTypes, RecordsInOnePlace
    PROVE  IsFiniteSet(recorded) /\ Cardinality(recorded) \in 0 .. MaxRecords
<1>1. recorded \in SUBSET Record /\ CallsAreDistinct(recorded)
    BY DEF IHistoryTypes, RecordsInOnePlace, CallsAreDistinct
<1> QED BY <1>1, DistinctCallsAreFew

\* A rollup row counts no more than the calls that are made.
LEMMA RowsAreBounded ==
    ASSUME IHistoryTypes, RecordsInOnePlace, Placed(Now, recorded, now)
    PROVE  /\ hourly \in [Keys -> [Hours -> 0 .. MaxRecords]]
           /\ daily \in [Keys -> [Days -> 0 .. MaxRecords]]
           /\ raw \subseteq recorded
<1>1. PICK inHours \in SUBSET recorded, inDays \in SUBSET recorded : Split(Now, recorded, inHours, inDays, now)
    BY DEF Placed
<1>2. IsFiniteSet(recorded) /\ Cardinality(recorded) \in 0 .. MaxRecords /\ MaxRecords \in Nat
    BY RecordedAreFew, HistoryNumbers
<1>3. ASSUME NEW T \in SUBSET recorded PROVE Cardinality(T) \in 0 .. MaxRecords
    <2>1. IsFiniteSet(T) /\ Cardinality(T) <= Cardinality(recorded)
        BY <1>2, FS_Subset
    <2> QED BY <1>2, <2>1, FS_CardinalityType
<1>4. \A k \in Keys, h \in Hours : hourly[k][h] \in 0 .. MaxRecords
    <2> SUFFICES ASSUME NEW k \in Keys, NEW h \in Hours PROVE hourly[k][h] \in 0 .. MaxRecords
        OBVIOUS
    <2>1. hourly[k][h] = Cardinality(InHour(inHours, k, h))
        BY <1>1 DEF Split, RollupsCount, Now
    <2>2. InHour(inHours, k, h) \in SUBSET recorded
        BY DEF InHour
    <2> QED BY <1>3, <2>1, <2>2
<1>5. \A k \in Keys, d \in Days : daily[k][d] \in 0 .. MaxRecords
    <2> SUFFICES ASSUME NEW k \in Keys, NEW d \in Days PROVE daily[k][d] \in 0 .. MaxRecords
        OBVIOUS
    <2>1. daily[k][d] = Cardinality(InDay(inDays, k, d))
        BY <1>1 DEF Split, RollupsCount, Now
    <2>2. InDay(inDays, k, d) \in SUBSET recorded
        BY DEF InDay
    <2> QED BY <1>3, <2>1, <2>2
<1>6. hourly \in [Keys -> [Hours -> Nat]] /\ daily \in [Keys -> [Days -> Nat]]
    BY DEF IHistoryTypes, TableTypes, Now
<1>7. \A k \in Keys : hourly[k] \in [Hours -> 0 .. MaxRecords] /\ daily[k] \in [Days -> 0 .. MaxRecords]
    BY <1>4, <1>5, <1>6
<1> QED BY <1>1, <1>6, <1>7 DEF Split, Now

\* The calls of a key on a day are the members of three parts of its records.
LEMMA PlacedIsConserved ==
    ASSUME IHistoryTypes, RecordsInOnePlace, Placed(Now, recorded, now)
    PROVE  HistoryConserved
<1> SUFFICES ASSUME NEW k \in keys, NEW d \in Days
             PROVE  /\ CallsOfDay(k, d) <= RecordedOfDay(k, d)
                    /\ d >= DayOf(now - DailyRetention) => CallsOfDay(k, d) = RecordedOfDay(k, d)
    BY DEF HistoryConserved
<1>1. PICK inHours \in SUBSET recorded, inDays \in SUBSET recorded : Split(Now, recorded, inHours, inDays, now)
    BY DEF Placed
<1>2. k \in Keys /\ recorded \in SUBSET Record /\ inHours \in SUBSET Record /\ inDays \in SUBSET Record
    BY DEF IHistoryTypes
<1>3. IsFiniteSet(recorded)
    BY RecordedAreFew
<1>4. IsFiniteSet(inHours) /\ IsFiniteSet(inDays)
    BY <1>3, FS_Subset
<1>5. PICK A, B, C, S :
          /\ A = {x \in Of(k, raw) : DayOf(x.at) = d}
          /\ B = {x \in inHours : x.key = k /\ DayOf(x.at) = d}
          /\ C = InDay(inDays, k, d)
          /\ S = {x \in Of(k, recorded) : DayOf(x.at) = d}
    OBVIOUS
<1>6. PartsOf(A, B, C, S)
    BY <1>1, <1>5 DEF Split, Now, Of, InDay, PartsOf
<1>7. IsFiniteSet(S)
    BY <1>3, <1>5, FS_Subset, S \in SUBSET recorded DEF Of
<1>8. Total(hourly, {k}, {h \in Hours : DayOf(h) = d}) = Cardinality(B)
    <2>1. PICK ks, hs : ks = {k} /\ hs = {h \in Hours : DayOf(h) = d}
        OBVIOUS
    <2>2. \A j \in Keys, h \in Hours : hourly[j][h] = Cardinality(InHour(inHours, j, h))
        BY <1>1 DEF Split, RollupsCount, Now
    <2>3. Total(hourly, ks, hs) = Cardinality({x \in inHours : x.key \in ks /\ HourOf(x.at) \in hs})
        BY <1>2, <1>4, <2>1, <2>2, HourlyTotal
    <2>4. \A x \in inHours : HourOf(x.at) \in hs <=> DayOf(x.at) = d
        <3> SUFFICES ASSUME NEW x \in inHours PROVE HourOf(x.at) \in hs <=> DayOf(x.at) = d
            OBVIOUS
        <3>1. x.at \in Times
            BY <1>2 DEF Record
        <3> QED BY <2>1, <3>1, BoundariesAreTimes, HourAndDay
    <2>5. {x \in inHours : x.key \in ks /\ HourOf(x.at) \in hs} = B
        BY <1>5, <2>1, <2>4
    <2> QED BY <2>1, <2>3, <2>5
<1>9. daily[k][d] = Cardinality(C)
    BY <1>1, <1>2, <1>5 DEF Split, RollupsCount, Now
<1>10. CallsOfDay(k, d) = Cardinality(A) + Cardinality(B) + Cardinality(C)
    BY <1>5, <1>8, <1>9 DEF CallsOfDay
<1>11. CallsOfDay(k, d) = Cardinality(A \cup B \cup C) /\ CallsOfDay(k, d) <= Cardinality(S)
    <2>1. PartsAdd(A, B, C, S)
        BY <1>6, <1>7, DisjointParts
    <2> QED BY <1>10, <2>1 DEF PartsAdd
<1>12. RecordedOfDay(k, d) = Cardinality(S)
    BY <1>5 DEF RecordedOfDay
<1>13. ASSUME d >= DayOf(now - DailyRetention) PROVE A \cup B \cup C = S
    <2> SUFFICES ASSUME NEW x \in S PROVE x \in A \cup B \cup C
        BY <1>6 DEF PartsOf
    <2>1. x \in recorded /\ x.key = k /\ DayOf(x.at) = d
        BY <1>5 DEF Of
    <2>2. d \in Int /\ DayOf(now - DailyRetention) \in Int
        BY HoursAndDaysAreTimes, HourAndDay, HistoryNumbers DEF IHistoryTypes
    <2>3. x \notin Gone(recorded, Now, inHours, inDays)
        BY <1>1, <1>13, <2>1, <2>2 DEF Split
    <2> QED BY <1>5, <2>1, <2>3 DEF Gone, Now, Of, InDay
<1> QED BY <1>11, <1>12, <1>13
-----------------------------------------------------------------------------
(* The usage history: statistics and chart of one snapshot.                *)

\* The calls that a request counts: raw rows from `since` on, and those of the rollup
\* rows whose bucket ends after it.
RawFrom(v) == {x \in v.tables.raw : x.at >= v.since}
HoursFrom(v, inHours) == {x \in inHours : HourOf(x.at) >= RollupSince(v.since, HourTicks)}
DaysFrom(v, inDays) == {x \in inDays : DayOf(x.at) >= RollupSince(v.since, DayTicks)}
Counted(v, inHours, inDays) == RawFrom(v) \cup HoursFrom(v, inHours) \cup DaysFrom(v, inDays)

\* A view whose tables count the calls of `all`.
Snapshot(v, all, inHours, inDays) ==
  /\ v \in ViewTypes
  /\ all \subseteq Record /\ inHours \subseteq all /\ inDays \subseteq all
  /\ CallsAreDistinct(all)
  /\ Split(v.tables, all, inHours, inDays, v.taken)
  /\ v.total = Cardinality({x \in v.tables.raw : x.at >= v.since})
  /\ v.exact = {x \in all : x.at >= DayOf(v.since)}

\* A snapshot says for every call which table has it.
LEMMA SnapshotIsSplit ==
    ASSUME NEW v \in ViewTypes, NEW all \in SUBSET Record, SnapshotOf(v, all)
    PROVE  \E inHours, inDays : Snapshot(v, all, inHours, inDays)
<1>1. PICK inHours \in SUBSET all, inDays \in SUBSET all : Split(v.tables, all, inHours, inDays, v.taken)
    BY DEF SnapshotOf, Placed
<1>2. Snapshot(v, all, inHours, inDays)
    BY <1>1 DEF SnapshotOf, Snapshot
<1> QED BY <1>2

\* Times of the calls and their boundaries.
LEMMA CallTimes ==
    ASSUME NEW x \in Record
    PROVE  /\ x.key \in Keys /\ x.at \in Times /\ x.at \in Nat
           /\ HourOf(x.at) \in Hours /\ HourOf(x.at) \in Nat /\ HourOf(x.at) <= x.at
           /\ DayOf(x.at) \in Days /\ DayOf(x.at) \in Nat /\ DayOf(x.at) <= x.at
<1>1. x.key \in Keys /\ x.at \in Times
    BY DEF Record
<1> QED BY <1>1, BoundariesAreTimes, HoursAndDaysAreTimes, HourAndDay

\* A view's numbers.
LEMMA ViewNumbers ==
    ASSUME NEW v \in ViewTypes
    PROVE  /\ v.since \in Nat /\ v.end \in Nat /\ v.taken \in Nat /\ v.since \in Times /\ v.end \in Times
           /\ v.tables.raw \subseteq Record /\ v.total \in Nat
           /\ HourOf(v.since) = RollupSince(v.since, HourTicks) /\ HourOf(v.since) \in Nat
           /\ DayOf(v.since) = RollupSince(v.since, DayTicks) /\ DayOf(v.since) \in Nat
           /\ DayOf(v.since) <= HourOf(v.since) /\ HourOf(v.since) <= v.since
<1>1. v.since \in Times /\ v.end \in Times /\ v.taken \in Times /\ v.tables.raw \subseteq Record /\ v.total \in Nat
    BY DEF ViewTypes, TableTypes
<1>2. v.since \in Nat /\ v.end \in Nat /\ v.taken \in Nat /\ HourOf(v.since) \in Nat /\ DayOf(v.since) \in Nat
    BY <1>1, BoundariesAreTimes, HoursAndDaysAreTimes
<1> QED BY <1>1, <1>2, HourAndDay

\* The total of the three queries is the number of calls that are counted.
LEMMA TotalCallsAreCounted ==
    ASSUME NEW r \in Readers, NEW v, v = view[r], NEW all, NEW inHours, NEW inDays,
           Snapshot(v, all, inHours, inDays)
    PROVE  /\ TotalCalls(r) = Cardinality(Counted(v, inHours, inDays))
           /\ IsFiniteSet(all)
           /\ PartsOf(RawFrom(v), HoursFrom(v, inHours), DaysFrom(v, inDays), v.exact)
<1>1. /\ v \in ViewTypes /\ all \in SUBSET Record /\ inHours \in SUBSET all /\ inDays \in SUBSET all
      /\ Split(v.tables, all, inHours, inDays, v.taken)
    BY DEF Snapshot
<1>2. IsFiniteSet(all)
    BY <1>1, DistinctCallsAreFew DEF Snapshot
<1>3. IsFiniteSet(inHours) /\ IsFiniteSet(inDays) /\ IsFiniteSet(v.exact)
    <2>1. v.exact \in SUBSET all
        BY DEF Snapshot
    <2> QED BY <1>1, <1>2, <2>1, FS_Subset
<1>4. inHours \in SUBSET Record /\ inDays \in SUBSET Record
    BY <1>1
<1>5. PartsOf(RawFrom(v), HoursFrom(v, inHours), DaysFrom(v, inDays), v.exact)
    <2>1. /\ RawFrom(v) \cap HoursFrom(v, inHours) = {} /\ RawFrom(v) \cap DaysFrom(v, inDays) = {}
          /\ HoursFrom(v, inHours) \cap DaysFrom(v, inDays) = {}
        BY <1>1 DEF Split, RawFrom, HoursFrom, DaysFrom
    <2>2. ASSUME NEW x \in RawFrom(v) PROVE x \in v.exact
        <3>1. x \in all /\ x \in Record /\ x.at >= v.since
            BY <1>1 DEF Split, RawFrom
        <3> QED BY <1>1, <3>1, ViewNumbers, CallTimes DEF Snapshot
    <2>3. ASSUME NEW x \in HoursFrom(v, inHours) PROVE x \in v.exact
        <3>1. x \in all /\ x \in Record /\ HourOf(x.at) >= HourOf(v.since)
            BY <1>1, ViewNumbers DEF HoursFrom
        <3> QED BY <1>1, <3>1, ViewNumbers, CallTimes DEF Snapshot
    <2>4. ASSUME NEW x \in DaysFrom(v, inDays) PROVE x \in v.exact
        <3>1. x \in all /\ x \in Record /\ DayOf(x.at) >= DayOf(v.since)
            BY <1>1, ViewNumbers DEF DaysFrom
        <3> QED BY <1>1, <3>1, ViewNumbers, CallTimes DEF Snapshot
    <2> QED BY <2>1, <2>2, <2>3, <2>4 DEF PartsOf
<1>6. PICK hs, ds : /\ hs = {h \in Hours : h >= RollupSince(v.since, HourTicks)}
                    /\ ds = {d \in Days : d >= RollupSince(v.since, DayTicks)}
    OBVIOUS
<1>7. Total(v.tables.hourly, Keys, hs) = Cardinality(HoursFrom(v, inHours))
    <2>1. \A k \in Keys, h \in Hours : v.tables.hourly[k][h] = Cardinality(InHour(inHours, k, h))
        BY <1>1 DEF Split, RollupsCount
    <2>2. Total(v.tables.hourly, Keys, hs) = Cardinality({x \in inHours : x.key \in Keys /\ HourOf(x.at) \in hs})
        BY <1>3, <1>4, <1>6, <2>1, HourlyTotal
    <2>3. \A x \in inHours : x.key \in Keys /\ HourOf(x.at) \in Hours
        BY <1>4, CallTimes
    <2>4. {x \in inHours : x.key \in Keys /\ HourOf(x.at) \in hs} = HoursFrom(v, inHours)
        BY <1>6, <2>3 DEF HoursFrom
    <2> QED BY <2>2, <2>4
<1>8. Total(v.tables.daily, Keys, ds) = Cardinality(DaysFrom(v, inDays))
    <2>1. \A k \in Keys, d \in Days : v.tables.daily[k][d] = Cardinality(InDay(inDays, k, d))
        BY <1>1 DEF Split, RollupsCount
    <2>2. Total(v.tables.daily, Keys, ds) = Cardinality({x \in inDays : x.key \in Keys /\ DayOf(x.at) \in ds})
        BY <1>3, <1>4, <1>6, <2>1, DailyTotal
    <2>3. \A x \in inDays : x.key \in Keys /\ DayOf(x.at) \in Days
        BY <1>4, CallTimes
    <2>4. {x \in inDays : x.key \in Keys /\ DayOf(x.at) \in ds} = DaysFrom(v, inDays)
        BY <1>6, <2>3 DEF DaysFrom
    <2> QED BY <2>2, <2>4
<1>9. v.total = Cardinality(RawFrom(v))
    BY DEF Snapshot, RawFrom
<1>10. TotalCalls(r) = v.total + Total(v.tables.hourly, Keys, hs) + Total(v.tables.daily, Keys, ds)
    BY <1>6 DEF TotalCalls, Tables
<1>11. PartsAdd(RawFrom(v), HoursFrom(v, inHours), DaysFrom(v, inDays), v.exact)
    BY <1>3, <1>5, DisjointParts
<1> QED BY <1>2, <1>5, <1>7, <1>8, <1>9, <1>10, <1>11 DEF PartsAdd, Counted

\* Every call from `since` on that is still kept is counted, and besides them only calls
\* of the day in which `since` lies.
LEMMA SnapshotCountsOnce ==
    ASSUME NEW r \in Readers, NEW all, NEW inHours, NEW inDays, Snapshot(view[r], all, inHours, inDays)
    PROVE  /\ TotalCalls(r) <= Cardinality(view[r].exact)
           /\ TotalCalls(r) >= Cardinality({x \in {y \in view[r].exact : y.at >= DayOf(view[r].taken - DailyRetention)} :
                                               x.at >= view[r].since})
<1>1. PICK v, kept : /\ v = view[r]
                     /\ kept = {x \in {y \in v.exact : y.at >= DayOf(v.taken - DailyRetention)} : x.at >= v.since}
    OBVIOUS
<1>2. PICK C : C = Counted(v, inHours, inDays)
    OBVIOUS
<1>3. /\ TotalCalls(r) = Cardinality(C) /\ IsFiniteSet(all)
      /\ PartsOf(RawFrom(v), HoursFrom(v, inHours), DaysFrom(v, inDays), v.exact)
    BY <1>1, <1>2, TotalCallsAreCounted
<1>4. v \in ViewTypes /\ all \in SUBSET Record /\ v.exact \in SUBSET all
    BY <1>1 DEF Snapshot
<1>5. IsFiniteSet(v.exact) /\ C \in SUBSET v.exact
    BY <1>2, <1>3, <1>4, FS_Subset DEF PartsOf, Counted
<1>6. ASSUME NEW x \in kept PROVE x \in C
    <2>1. x \in all /\ x \in Record /\ x.at >= v.since /\ x.at >= DayOf(v.taken - DailyRetention)
        BY <1>1, <1>4
    <2>2. PICK y \in Int : y = v.taken - DailyRetention
        BY <1>4, ViewNumbers, HistoryNumbers
    <2>3. ~(DayOf(x.at) < DayOf(v.taken - DailyRetention))
        <3>1. x.at \in Int /\ DayTicks \in Nat \ {0}
            BY <2>1, CallTimes, HistoryNumbers
        <3>2. RollupSince(y, DayTicks) <= x.at <=> RollupSince(y, DayTicks) <= RollupSince(x.at, DayTicks)
            BY <2>2, <3>1, BoundaryMonotone
        <3> QED BY <2>1, <2>2, <3>1, <3>2, HourAndDay
    <2>4. x \notin Gone(all, v.tables, inHours, inDays)
        BY <1>1, <2>3 DEF Snapshot, Split
    <2>5. x \in v.tables.raw \/ x \in inHours \/ x \in inDays
        BY <2>1, <2>4 DEF Gone
    <2>6. HourOf(x.at) >= HourOf(v.since) /\ DayOf(x.at) >= DayOf(v.since)
        <3>1. x.at \in Int /\ v.since \in Int /\ HourTicks \in Nat \ {0} /\ DayTicks \in Nat \ {0}
            BY <1>4, <2>1, CallTimes, HistoryNumbers, ViewNumbers
        <3>2. RollupSince(v.since, DayTicks) <= RollupSince(x.at, DayTicks)
            BY <2>1, <3>1, BoundaryMonotone
        <3>3. RollupSince(v.since, HourTicks) <= RollupSince(x.at, HourTicks)
            BY <2>1, <3>1, BoundaryMonotone
        <3> QED BY <3>1, <3>2, <3>3, HourAndDay
    <2> QED BY <1>2, <1>4, <2>1, <2>5, <2>6, ViewNumbers DEF Counted, RawFrom, HoursFrom, DaysFrom
<1>7. kept \in SUBSET C /\ IsFiniteSet(C)
    BY <1>5, <1>6, FS_Subset
<1>8. Cardinality(C) <= Cardinality(v.exact) /\ Cardinality(kept) <= Cardinality(C)
    BY <1>5, <1>7, FS_Subset
<1>9. Cardinality(C) \in Nat /\ Cardinality(kept) \in Nat
    BY <1>7, FS_CardinalityType, FS_Subset
<1> QED BY <1>1, <1>3, <1>8, <1>9
-----------------------------------------------------------------------------
(* The usage history: the chart.                                           *)

\* Times of the rows a chart is made of.
RowTimes(v) == {x.at : x \in v.tables.raw} \cup RowsOf(v.tables.hourly, Hours) \cup RowsOf(v.tables.daily, Days)

\* A rollup row with calls is the row of one of them, and the other way round.
LEMMA RowsAreBoundaries ==
    ASSUME NEW v, NEW all, NEW inHours, NEW inDays, Snapshot(v, all, inHours, inDays)
    PROVE  /\ RowsOf(v.tables.hourly, Hours) = {HourOf(x.at) : x \in inHours}
           /\ RowsOf(v.tables.daily, Days) = {DayOf(x.at) : x \in inDays}
<1>1. /\ v \in ViewTypes /\ all \in SUBSET Record /\ inHours \in SUBSET all /\ inDays \in SUBSET all
      /\ RollupsCount(v.tables, inHours, inDays) /\ IsFiniteSet(all)
    BY DistinctCallsAreFew DEF Snapshot, Split
<1>2. IsFiniteSet(inHours) /\ IsFiniteSet(inDays)
    BY <1>1, FS_Subset
<1>3. ASSUME NEW k \in Keys, NEW h \in Hours
      PROVE  v.tables.hourly[k][h] > 0 <=> InHour(inHours, k, h) # {}
    <2>1. InHour(inHours, k, h) \in SUBSET inHours
        BY DEF InHour
    <2>2. IsFiniteSet(InHour(inHours, k, h))
        BY <1>2, <2>1, FS_Subset
    <2>3. /\ Cardinality(InHour(inHours, k, h)) \in Nat
          /\ Cardinality(InHour(inHours, k, h)) = 0 <=> InHour(inHours, k, h) = {}
        BY <2>2, FS_CardinalityType, FS_EmptySet
    <2>4. v.tables.hourly[k][h] = Cardinality(InHour(inHours, k, h))
        BY <1>1 DEF RollupsCount
    <2> QED BY <2>3, <2>4
<1>4. ASSUME NEW k \in Keys, NEW d \in Days
      PROVE  v.tables.daily[k][d] > 0 <=> InDay(inDays, k, d) # {}
    <2>1. InDay(inDays, k, d) \in SUBSET inDays
        BY DEF InDay
    <2>2. IsFiniteSet(InDay(inDays, k, d))
        BY <1>2, <2>1, FS_Subset
    <2>3. /\ Cardinality(InDay(inDays, k, d)) \in Nat
          /\ Cardinality(InDay(inDays, k, d)) = 0 <=> InDay(inDays, k, d) = {}
        BY <2>2, FS_CardinalityType, FS_EmptySet
    <2>4. v.tables.daily[k][d] = Cardinality(InDay(inDays, k, d))
        BY <1>1 DEF RollupsCount
    <2> QED BY <2>3, <2>4
<1>5. \A x \in all : x.key \in Keys /\ HourOf(x.at) \in Hours /\ DayOf(x.at) \in Days
    BY <1>1, CallTimes
<1>6. ASSUME NEW h \in RowsOf(v.tables.hourly, Hours) PROVE h \in {HourOf(x.at) : x \in inHours}
    BY <1>3 DEF RowsOf, InHour
<1>7. ASSUME NEW x \in inHours PROVE HourOf(x.at) \in RowsOf(v.tables.hourly, Hours)
    <2>1. x.key \in Keys /\ HourOf(x.at) \in Hours /\ x \in InHour(inHours, x.key, HourOf(x.at))
        BY <1>1, <1>5 DEF InHour
    <2> QED BY <2>1, <1>3 DEF RowsOf
<1>8. ASSUME NEW d \in RowsOf(v.tables.daily, Days) PROVE d \in {DayOf(x.at) : x \in inDays}
    BY <1>4 DEF RowsOf, InDay
<1>9. ASSUME NEW x \in inDays PROVE DayOf(x.at) \in RowsOf(v.tables.daily, Days)
    <2>1. x.key \in Keys /\ DayOf(x.at) \in Days /\ x \in InDay(inDays, x.key, DayOf(x.at))
        BY <1>1, <1>5 DEF InDay
    <2> QED BY <2>1, <1>4 DEF RowsOf
<1> QED BY <1>6, <1>7, <1>8, <1>9

\* Every call of a snapshot has its row.
LEMMA RowTimesAreNumbers ==
    ASSUME NEW v, NEW all, NEW inHours, NEW inDays, Snapshot(v, all, inHours, inDays)
    PROVE  /\ RowTimes(v) \in SUBSET Nat
           /\ \A x \in v.tables.raw : x.at \in RowTimes(v)
           /\ \A x \in inHours : HourOf(x.at) \in RowTimes(v)
           /\ \A x \in inDays : DayOf(x.at) \in RowTimes(v)
<1>1. /\ all \in SUBSET Record /\ inHours \in SUBSET all /\ inDays \in SUBSET all
      /\ v.tables.raw \in SUBSET all
    BY DEF Snapshot, Split
<1>2. RowTimes(v) = {x.at : x \in v.tables.raw} \cup {HourOf(x.at) : x \in inHours} \cup {DayOf(x.at) : x \in inDays}
    BY RowsAreBoundaries DEF RowTimes
<1>3. \A x \in all : x.at \in Nat /\ HourOf(x.at) \in Nat /\ DayOf(x.at) \in Nat
    BY <1>1, CallTimes
<1> QED BY <1>1, <1>2, <1>3

\* The chart begins before it ends, and its range has the calls that are counted: those
\* from `since` on, or all.
InRange(r, inHours, inDays) ==
  /\ RangeStart(r) \in Int /\ RangeStart(r) < view[r].end
  /\ \A x \in view[r].tables.raw : x.at >= view[r].since <=> x.at >= RangeStart(r)
  /\ \A x \in inHours : HourOf(x.at) >= RollupSince(view[r].since, HourTicks)
                          <=> HourOf(x.at) >= RollupSince(RangeStart(r), HourTicks)
  /\ \A x \in inDays : DayOf(x.at) >= RollupSince(view[r].since, DayTicks)
                          <=> DayOf(x.at) >= RollupSince(RangeStart(r), DayTicks)

\* The chart of a request reaches from a start before its end over every row that counts.
LEMMA ChartRange ==
    ASSUME NEW r \in Readers, NEW all, NEW inHours, NEW inDays, Snapshot(view[r], all, inHours, inDays),
           view[r].since < view[r].end
    PROVE  InRange(r, inHours, inDays)
<1>1. PICK v, s : v = view[r] /\ s = RangeStart(r)
    OBVIOUS
<1>2. v \in ViewTypes /\ Snapshot(v, all, inHours, inDays) /\ v.since < v.end
    BY <1>1 DEF Snapshot
<1>3. v.since \in Nat /\ v.end \in Nat /\ DayTicks \in Nat \ {0} /\ HourTicks \in Nat \ {0}
    BY <1>2, ViewNumbers, HistoryNumbers
<1>4. PICK start : start = IF v.since # 0 THEN {v.since}
                           ELSE IF RowTimes(v) = {} THEN {} ELSE {Min(RowTimes(v))}
    OBVIOUS
<1>5. s = IF \E t \in start : t < v.end THEN Min(start) ELSE v.end - DayTicks
    BY <1>1, <1>4 DEF RangeStart, Tables, RowTimes
<1>6. \A t \in Nat : Min({t}) = t
    BY DEF Min
<1>7. CASE v.since # 0
    <2>1. s = v.since
        BY <1>2, <1>3, <1>4, <1>5, <1>6, <1>7
    <2> QED BY <1>1, <1>2, <1>3, <2>1 DEF InRange
<1>8. CASE v.since = 0
    <2>1. s \in Int /\ s < v.end /\ \A t \in RowTimes(v) : t >= s
        <3>1. CASE RowTimes(v) = {}
            <4>1. s = v.end - DayTicks
                BY <1>4, <1>5, <1>8, <3>1
            <4> QED BY <1>3, <3>1, <4>1
        <3>2. CASE RowTimes(v) # {}
            <4>1. PICK m \in Nat : m = Min(RowTimes(v)) /\ \A t \in RowTimes(v) : m <= t
                BY <1>2, <3>2, RowTimesAreNumbers, MinOfNaturals
            <4>2. start = {m}
                BY <1>4, <1>8, <3>2, <4>1
            <4>3. CASE m < v.end
                <5>1. s = m
                    BY <1>5, <1>6, <4>2, <4>3
                <5> QED BY <1>3, <4>1, <4>3, <5>1, <1>2, RowTimesAreNumbers
            <4>4. CASE ~(m < v.end)
                <5>1. s = v.end - DayTicks
                    BY <1>5, <4>2, <4>4
                <5>2. \A t \in RowTimes(v) : t \in Nat /\ t >= m
                    BY <1>2, <4>1, RowTimesAreNumbers
                <5> QED BY <1>3, <4>4, <5>1, <5>2
            <4> QED BY <4>3, <4>4
        <3> QED BY <3>1, <3>2
    <2>2. RollupSince(s, HourTicks) \in Int /\ RollupSince(s, HourTicks) <= s
        BY <1>3, <2>1, BoundaryBefore
    <2>3. RollupSince(s, DayTicks) \in Int /\ RollupSince(s, DayTicks) <= s
        BY <1>3, <2>1, BoundaryBefore
    <2>4. RollupSince(0, HourTicks) <= 0 /\ RollupSince(0, DayTicks) <= 0
          /\ RollupSince(0, HourTicks) \in Int /\ RollupSince(0, DayTicks) \in Int
        BY <1>3, BoundaryBefore
    <2>5. \A t \in RowTimes(v) : /\ t >= 0 /\ t >= s
                                 /\ t >= RollupSince(0, HourTicks) /\ t >= RollupSince(s, HourTicks)
                                 /\ t >= RollupSince(0, DayTicks) /\ t >= RollupSince(s, DayTicks)
        <3>1. \A t \in RowTimes(v) : t \in Nat /\ t >= s
            BY <1>2, <2>1, RowTimesAreNumbers
        <3> QED BY <2>1, <2>2, <2>3, <2>4, <3>1
    <2>6. /\ \A x \in v.tables.raw : x.at \in RowTimes(v)
          /\ \A x \in inHours : HourOf(x.at) \in RowTimes(v)
          /\ \A x \in inDays : DayOf(x.at) \in RowTimes(v)
        BY <1>2, RowTimesAreNumbers
    <2> QED BY <1>1, <1>8, <2>1, <2>5, <2>6 DEF InRange
<1> QED BY <1>7, <1>8

\* The smaller and the larger of two numbers.
LEMMA MinMaxOfTwo ==
    ASSUME NEW a \in Int, NEW b \in Int
    PROVE  /\ Min({a, b}) = IF a <= b THEN a ELSE b
           /\ Max({a, b}) = IF a >= b THEN a ELSE b
BY DEF Min, Max

\* The bucket of a time is clamped to those of the chart.
LEMMA BucketOfTime ==
    ASSUME NEW t \in Int, NEW start \in Int, NEW duration \in Nat \ {0}
    PROVE  /\ BucketIndex(t, start, duration) \in 0 .. BucketCount - 1
           /\ BucketIndex(t, start, duration) =
                LET q == ((t - start) * BucketCount) \div duration
                IN IF q < 0 THEN 0 ELSE IF q > 7 THEN 7 ELSE q
<1>1. PICK q \in Int : q = ((t - start) * BucketCount) \div duration
    BY DEF BucketCount
<1>2. PICK m \in Int : m = Max({0, q}) /\ m = IF 0 >= q THEN 0 ELSE q
    BY MinMaxOfTwo
<1>3. BucketIndex(t, start, duration) = Min({7, m})
    BY <1>1, <1>2 DEF BucketIndex, BucketCount
<1>4. BucketIndex(t, start, duration) = IF 7 <= m THEN 7 ELSE m
    BY <1>3, MinMaxOfTwo
<1> QED BY <1>1, <1>2, <1>4 DEF BucketCount

\* A time of the range lies between the limits of its bucket.
LEMMA BucketEnclosesTime ==
    ASSUME NEW t \in Int, NEW start \in Int, NEW end \in Int, start <= t, t <= end, start < end,
           NEW i, i = BucketIndex(t, start, end - start)
    PROVE  /\ BucketLimit(i, start, end - start) <= t
           /\ i < BucketCount - 1 => t < BucketLimit(i + 1, start, end - start)
<1>1. PICK n \in Nat \ {0}, a \in Nat : n = end - start /\ a = t - start /\ a <= n /\ t = start + a
    OBVIOUS
<1>2. PICK q \in Int : q = (a * 8) \div n
    BY <1>1
<1>3. q * n <= a * 8 /\ a * 8 < q * n + n
    <2>1. PICK e \in Int : e = a * 8
        BY <1>1
    <2>2. RollupSince(e, n) = q * n
        BY <1>2, <2>1 DEF RollupSince
    <2> QED BY <1>1, <2>1, <2>2, BoundaryBefore
<1>4. q >= 0
    BY <1>1, <1>3
<1>5. i \in 0 .. 7 /\ i = IF q > 7 THEN 7 ELSE q
    BY <1>1, <1>2, <1>4, BucketOfTime DEF BucketCount
<1>6. n * i <= a * 8
    <2>1. CASE q > 7
        <3>1. PICK d \in Nat : q = 7 + d
            BY <2>1, <1>4
        <3>2. q * n = 7 * n + d * n /\ d * n \in Nat
            BY <3>1, <1>1
        <3> QED BY <3>2, <2>1, <1>1, <1>3, <1>5
    <2>2. CASE ~(q > 7)
        BY <2>2, <1>1, <1>3, <1>5
    <2> QED BY <2>1, <2>2
<1>7. i < 7 => a * 8 < n * (i + 1)
    BY <1>1, <1>3, <1>5
<1>8. PICK b \in Int, c \in Int : b = n * i /\ c = n * (i + 1)
    BY <1>1, <1>5
<1>9. BucketLimit(i, start, n) = start + ((b + 7) \div 8)
    BY <1>1, <1>5, <1>8 DEF BucketLimit, CeilingDiv, BucketCount
<1>10. BucketLimit(i + 1, start, n) = start + ((c + 7) \div 8)
    <2>1. PICK j \in Int : j = i + 1
        BY <1>5
    <2>2. c = n * j
        BY <1>8, <2>1
    <2>3. BucketLimit(j, start, n) = start + ((c + 7) \div 8)
        BY <1>1, <2>1, <2>2, <1>8 DEF BucketLimit, CeilingDiv, BucketCount
    <2> QED BY <2>1, <2>3
<1>11. (b + 7) \div 8 <= a
    BY <1>1, <1>6, <1>8
<1>12. i < 7 => a < (c + 7) \div 8
    BY <1>1, <1>7, <1>8
<1>13. ((b + 7) \div 8) \in Int /\ ((c + 7) \div 8) \in Int
    BY <1>8
<1> QED BY <1>1, <1>5, <1>9, <1>10, <1>11, <1>12, <1>13 DEF BucketCount

\* The time of the row that counts a call, and its bucket.
RowTime(v, inHours, x) ==
  IF x \in v.tables.raw THEN x.at ELSE IF x \in inHours THEN HourOf(x.at) ELSE DayOf(x.at)
Bucket(r, inHours, x) ==
  BucketIndex(RowTime(view[r], inHours, x), RangeStart(r), view[r].end - RangeStart(r))

InBucketOf(r, inHours, i, set) == {x \in set : Bucket(r, inHours, x) = i}

\* The chart ends with the request's clock: the calls whose row it shows, and the others.
Shown(v, inHours, set) == {x \in set : RowTime(v, inHours, x) <= v.end}
Late(v, inHours, set) == {x \in set : RowTime(v, inHours, x) > v.end}

\* A bucket of the chart counts the calls whose row it shows.
LEMMA ChartCallsAreCounted ==
    ASSUME NEW r \in Readers, NEW all, NEW inHours, NEW inDays, Snapshot(view[r], all, inHours, inDays),
           InRange(r, inHours, inDays), NEW i \in 0 .. BucketCount - 1
    PROVE  ChartCalls(r, i) = Cardinality(InBucketOf(r, inHours, i, Shown(view[r], inHours, Counted(view[r], inHours, inDays))))
<1>1. PICK v, start, end, dur : v = view[r] /\ start = RangeStart(r) /\ end = v.end /\ dur = end - start
    OBVIOUS
<1>2. /\ v \in ViewTypes /\ all \in SUBSET Record /\ inHours \in SUBSET all /\ inDays \in SUBSET all
      /\ Split(v.tables, all, inHours, inDays, v.taken)
    BY <1>1 DEF Snapshot
<1>3. IsFiniteSet(all) /\ PartsOf(RawFrom(v), HoursFrom(v, inHours), DaysFrom(v, inDays), v.exact)
    BY <1>1, TotalCallsAreCounted
<1>4. IsFiniteSet(inHours) /\ IsFiniteSet(inDays) /\ inHours \in SUBSET Record /\ inDays \in SUBSET Record
    BY <1>2, <1>3, FS_Subset
<1>5. /\ \A x \in v.tables.raw : RowTime(v, inHours, x) = x.at
      /\ \A x \in inHours : RowTime(v, inHours, x) = HourOf(x.at)
      /\ \A x \in inDays : RowTime(v, inHours, x) = DayOf(x.at)
    BY <1>2 DEF Split, RowTime
<1>6. PICK A, B, C : /\ A = InBucketOf(r, inHours, i, Shown(v, inHours, RawFrom(v)))
                     /\ B = InBucketOf(r, inHours, i, Shown(v, inHours, HoursFrom(v, inHours)))
                     /\ C = InBucketOf(r, inHours, i, Shown(v, inHours, DaysFrom(v, inDays)))
    OBVIOUS
<1>7. v.tables.raw \cap inHours = {} /\ v.tables.raw \cap inDays = {} /\ inHours \cap inDays = {}
    BY <1>2 DEF Split
<1>8. {x \in v.tables.raw : x.at >= start /\ x.at <= end /\ BucketIndex(x.at, start, dur) = i} = A
    <2>1. \A x \in v.tables.raw : Bucket(r, inHours, x) = BucketIndex(x.at, start, dur)
        BY <1>1 DEF Bucket, RowTime
    <2>2. \A x \in v.tables.raw : x.at >= v.since <=> x.at >= start
        BY <1>1 DEF InRange
    <2> QED BY <1>1, <1>5, <1>6, <2>1, <2>2 DEF InBucketOf, Shown, RawFrom
<1>9. PICK hs, ds :
        /\ hs = {h \in RowsOf(v.tables.hourly, Hours) :
                   h >= RollupSince(start, HourTicks) /\ h <= end /\ BucketIndex(h, start, dur) = i}
        /\ ds = {d \in RowsOf(v.tables.daily, Days) :
                   d >= RollupSince(start, DayTicks) /\ d <= end /\ BucketIndex(d, start, dur) = i}
    OBVIOUS
<1>10. Total(v.tables.hourly, Keys, hs) = Cardinality(B)
    <2>1. \A k \in Keys, h \in Hours : v.tables.hourly[k][h] = Cardinality(InHour(inHours, k, h))
        BY <1>2 DEF Split, RollupsCount
    <2>2. hs \in SUBSET Hours
        BY <1>9 DEF RowsOf
    <2>3. Total(v.tables.hourly, Keys, hs) = Cardinality({x \in inHours : x.key \in Keys /\ HourOf(x.at) \in hs})
        BY <1>4, <2>1, <2>2, HourlyTotal
    <2>4. \A x \in inHours : x.key \in Keys /\ Bucket(r, inHours, x) = BucketIndex(HourOf(x.at), start, dur)
        BY <1>1, <1>4, <1>7, CallTimes DEF Bucket, RowTime
    <2>5. \A x \in inHours : HourOf(x.at) >= RollupSince(v.since, HourTicks)
                               <=> HourOf(x.at) >= RollupSince(start, HourTicks)
        BY <1>1 DEF InRange
    <2>6. \A x \in inHours : HourOf(x.at) \in RowsOf(v.tables.hourly, Hours)
        BY <1>1, RowsAreBoundaries
    <2>7. {x \in inHours : x.key \in Keys /\ HourOf(x.at) \in hs} = B
        BY <1>1, <1>5, <1>6, <1>9, <2>4, <2>5, <2>6 DEF InBucketOf, Shown, HoursFrom
    <2> QED BY <2>3, <2>7
<1>11. Total(v.tables.daily, Keys, ds) = Cardinality(C)
    <2>1. \A k \in Keys, d \in Days : v.tables.daily[k][d] = Cardinality(InDay(inDays, k, d))
        BY <1>2 DEF Split, RollupsCount
    <2>2. ds \in SUBSET Days
        BY <1>9 DEF RowsOf
    <2>3. Total(v.tables.daily, Keys, ds) = Cardinality({x \in inDays : x.key \in Keys /\ DayOf(x.at) \in ds})
        BY <1>4, <2>1, <2>2, DailyTotal
    <2>4. \A x \in inDays : x.key \in Keys /\ Bucket(r, inHours, x) = BucketIndex(DayOf(x.at), start, dur)
        BY <1>1, <1>4, <1>7, CallTimes DEF Bucket, RowTime
    <2>5. \A x \in inDays : DayOf(x.at) >= RollupSince(v.since, DayTicks)
                              <=> DayOf(x.at) >= RollupSince(start, DayTicks)
        BY <1>1 DEF InRange
    <2>6. \A x \in inDays : DayOf(x.at) \in RowsOf(v.tables.daily, Days)
        BY <1>1, RowsAreBoundaries
    <2>7. {x \in inDays : x.key \in Keys /\ DayOf(x.at) \in ds} = C
        BY <1>1, <1>5, <1>6, <1>9, <2>4, <2>5, <2>6 DEF InBucketOf, Shown, DaysFrom
    <2> QED BY <2>3, <2>7
<1>12. ChartCalls(r, i) = Cardinality(A) + Cardinality(B) + Cardinality(C)
    BY <1>1, <1>8, <1>9, <1>10, <1>11 DEF ChartCalls, Tables
<1>13. PartsOf(A, B, C, v.exact)
    BY <1>3, <1>6 DEF PartsOf, InBucketOf, Shown
<1>14. IsFiniteSet(v.exact)
    <2>1. v.exact \in SUBSET all
        BY <1>1 DEF Snapshot
    <2> QED BY <1>3, <2>1, FS_Subset
<1>15. PartsAdd(A, B, C, v.exact)
    BY <1>13, <1>14, DisjointParts
<1>16. A \cup B \cup C = InBucketOf(r, inHours, i, Shown(v, inHours, Counted(v, inHours, inDays)))
    BY <1>6 DEF InBucketOf, Shown, Counted
<1> QED BY <1>1, <1>12, <1>15, <1>16 DEF PartsAdd

\* The buckets together count the calls whose rows the chart shows.
LEMMA ChartIsWhatIsShown ==
    ASSUME NEW r \in Readers, NEW all, NEW inHours, NEW inDays, Snapshot(view[r], all, inHours, inDays),
           InRange(r, inHours, inDays)
    PROVE  SumOf([i \in 0 .. BucketCount - 1 |-> ChartCalls(r, i)])
             = Cardinality(Shown(view[r], inHours, Counted(view[r], inHours, inDays)))
<1>1. PICK C, J, counts : /\ C = Shown(view[r], inHours, Counted(view[r], inHours, inDays))
                          /\ J = 0 .. BucketCount - 1
                          /\ counts = [i \in J |-> ChartCalls(r, i)]
    OBVIOUS
<1>2. PICK f : f = [x \in C |-> Bucket(r, inHours, x)]
    OBVIOUS
<1>3. /\ view[r] \in ViewTypes /\ all \in SUBSET Record /\ inHours \in SUBSET all /\ inDays \in SUBSET all
      /\ view[r].tables.raw \in SUBSET all
    BY DEF Snapshot, Split
<1>4. C \in SUBSET all
    BY <1>1, <1>3 DEF Shown, Counted, RawFrom, HoursFrom, DaysFrom
<1>5. IsFiniteSet(all)
    BY TotalCallsAreCounted
<1>6. IsFiniteSet(C)
    BY <1>4, <1>5, FS_Subset
<1>7. \A x \in C : Bucket(r, inHours, x) \in J
    <2> SUFFICES ASSUME NEW x \in C PROVE Bucket(r, inHours, x) \in J
        OBVIOUS
    <2>1. x \in Record
        BY <1>3, <1>4
    <2>2. RowTime(view[r], inHours, x) \in Int
        BY <2>1, CallTimes DEF RowTime
    <2>3. RangeStart(r) \in Int /\ view[r].end - RangeStart(r) \in Nat \ {0}
        BY <1>3, ViewNumbers DEF InRange
    <2> QED BY <1>1, <2>2, <2>3, BucketOfTime DEF Bucket
<1>8. f \in [C -> J]
    BY <1>2, <1>7
<1>9. DOMAIN counts = J /\ \A i \in J : counts[i] = Cardinality({x \in C : f[x] = i})
    <2>1. \A i \in J : {x \in C : f[x] = i} = InBucketOf(r, inHours, i, C)
        BY <1>2 DEF InBucketOf
    <2>2. ASSUME NEW i \in 0 .. BucketCount - 1
          PROVE  ChartCalls(r, i)
                   = Cardinality(InBucketOf(r, inHours, i, Shown(view[r], inHours, Counted(view[r], inHours, inDays))))
        BY ChartCallsAreCounted
    <2> QED BY <1>1, <2>1, <2>2
<1>10. SumOf(counts) = Cardinality({x \in C : f[x] \in J})
    BY <1>6, <1>8, <1>9, SumOfFibers
<1>11. {x \in C : f[x] \in J} = C
    BY <1>8
<1> QED BY <1>1, <1>10, <1>11

\* The rows after the end of a request count calls that ended after it.
LEMMA LateCallsAreCounted ==
    ASSUME NEW r \in Readers, NEW v, v = view[r], NEW all, NEW inHours, NEW inDays,
           Snapshot(v, all, inHours, inDays), v.since < v.end
    PROVE  /\ CallsAfterEnd(r) = Cardinality(Late(v, inHours, Counted(v, inHours, inDays)))
           /\ Late(v, inHours, Counted(v, inHours, inDays)) \subseteq {x \in v.exact : x.at > v.end}
<1>1. /\ v \in ViewTypes /\ all \in SUBSET Record /\ inHours \in SUBSET all /\ inDays \in SUBSET all
      /\ Split(v.tables, all, inHours, inDays, v.taken)
    BY DEF Snapshot
<1>2. IsFiniteSet(all) /\ PartsOf(RawFrom(v), HoursFrom(v, inHours), DaysFrom(v, inDays), v.exact)
    BY TotalCallsAreCounted
<1>3. /\ IsFiniteSet(inHours) /\ IsFiniteSet(inDays) /\ IsFiniteSet(v.exact)
      /\ inHours \in SUBSET Record /\ inDays \in SUBSET Record /\ v.exact \in SUBSET all
    <2>1. v.exact \in SUBSET all
        BY DEF Snapshot
    <2> QED BY <1>1, <1>2, <2>1, FS_Subset
<1>4. /\ \A x \in v.tables.raw : RowTime(v, inHours, x) = x.at
      /\ \A x \in inHours : RowTime(v, inHours, x) = HourOf(x.at)
      /\ \A x \in inDays : RowTime(v, inHours, x) = DayOf(x.at)
    BY <1>1 DEF Split, RowTime
<1>5. /\ v.since \in Nat /\ v.end \in Nat /\ RollupSince(v.since, HourTicks) \in Int
      /\ RollupSince(v.since, DayTicks) \in Int /\ RollupSince(v.since, HourTicks) <= v.since
      /\ RollupSince(v.since, DayTicks) <= v.since
    <2>1. v.since \in Nat /\ v.end \in Nat
        BY <1>1, ViewNumbers
    <2>2. v.since \in Int /\ HourTicks \in Nat \ {0} /\ DayTicks \in Nat \ {0}
        BY <2>1, HistoryNumbers
    <2>3. RollupSince(v.since, HourTicks) \in Int /\ RollupSince(v.since, HourTicks) <= v.since
        BY <2>2, BoundaryBefore
    <2>4. RollupSince(v.since, DayTicks) \in Int /\ RollupSince(v.since, DayTicks) <= v.since
        BY <2>2, BoundaryBefore
    <2> QED BY <2>1, <2>3, <2>4
<1>6. \A x \in all : /\ x.key \in Keys /\ x.at \in Nat
                     /\ HourOf(x.at) \in Hours /\ HourOf(x.at) \in Nat /\ HourOf(x.at) <= x.at
                     /\ DayOf(x.at) \in Days /\ DayOf(x.at) \in Nat /\ DayOf(x.at) <= x.at
    BY <1>1, CallTimes
<1>7. PICK A, B, C : /\ A = Late(v, inHours, RawFrom(v))
                     /\ B = Late(v, inHours, HoursFrom(v, inHours))
                     /\ C = Late(v, inHours, DaysFrom(v, inDays))
    OBVIOUS
<1>8. {x \in v.tables.raw : x.at > v.end} = A
    <2>1. v.tables.raw \in SUBSET all
        BY <1>1 DEF Split
    <2> QED BY <1>4, <1>5, <1>6, <1>7, <2>1 DEF Late, RawFrom
<1>9. PICK hs, ds : hs = {h \in Hours : h > v.end} /\ ds = {d \in Days : d > v.end}
    OBVIOUS
<1>10. Total(v.tables.hourly, Keys, hs) = Cardinality(B)
    <2>1. \A k \in Keys, h \in Hours : v.tables.hourly[k][h] = Cardinality(InHour(inHours, k, h))
        BY <1>1 DEF Split, RollupsCount
    <2>2. Total(v.tables.hourly, Keys, hs) = Cardinality({x \in inHours : x.key \in Keys /\ HourOf(x.at) \in hs})
        BY <1>3, <1>9, <2>1, HourlyTotal
    <2>3. {x \in inHours : x.key \in Keys /\ HourOf(x.at) \in hs} = B
        BY <1>1, <1>4, <1>5, <1>6, <1>7, <1>9 DEF Late, HoursFrom
    <2> QED BY <2>2, <2>3
<1>11. Total(v.tables.daily, Keys, ds) = Cardinality(C)
    <2>1. \A k \in Keys, d \in Days : v.tables.daily[k][d] = Cardinality(InDay(inDays, k, d))
        BY <1>1 DEF Split, RollupsCount
    <2>2. Total(v.tables.daily, Keys, ds) = Cardinality({x \in inDays : x.key \in Keys /\ DayOf(x.at) \in ds})
        BY <1>3, <1>9, <2>1, DailyTotal
    <2>3. {x \in inDays : x.key \in Keys /\ DayOf(x.at) \in ds} = C
        BY <1>1, <1>4, <1>5, <1>6, <1>7, <1>9 DEF Late, DaysFrom
    <2> QED BY <2>2, <2>3
<1>12. CallsAfterEnd(r) = Cardinality(A) + Cardinality(B) + Cardinality(C)
    BY <1>8, <1>9, <1>10, <1>11 DEF CallsAfterEnd, Tables
<1>13. PartsAdd(A, B, C, v.exact)
    <2>1. PartsOf(A, B, C, v.exact)
        BY <1>2, <1>7 DEF PartsOf, Late
    <2> QED BY <1>3, <2>1, DisjointParts
<1>14. A \cup B \cup C = Late(v, inHours, Counted(v, inHours, inDays))
    BY <1>7 DEF Late, Counted
<1>15. ASSUME NEW x \in Late(v, inHours, Counted(v, inHours, inDays)) PROVE x \in v.exact /\ x.at > v.end
    <2>1. x \in v.exact /\ x \in all /\ RowTime(v, inHours, x) > v.end
        BY <1>2, <1>3, <1>15 DEF Late, Counted, PartsOf
    <2>2. x \in v.tables.raw \/ x \in inHours \/ x \in inDays
        BY <1>15 DEF Late, Counted, RawFrom, HoursFrom, DaysFrom
    <2> QED BY <1>4, <1>5, <1>6, <2>1, <2>2
<1> QED BY <1>12, <1>13, <1>14, <1>15 DEF PartsAdd

\* What the totals count is in the chart or later than the request.
LEMMA ChartIsTheTotalUntilTheEnd ==
    ASSUME NEW r \in Readers, NEW all, NEW inHours, NEW inDays, Snapshot(view[r], all, inHours, inDays),
           InRange(r, inHours, inDays), view[r].since < view[r].end
    PROVE  /\ SumOf([i \in 0 .. BucketCount - 1 |-> ChartCalls(r, i)]) = TotalCalls(r) - CallsAfterEnd(r)
           /\ CallsAfterEnd(r) <= Cardinality({x \in view[r].exact : x.at > view[r].end})
<1>1. PICK v, C, S, L : /\ v = view[r] /\ C = Counted(v, inHours, inDays)
                        /\ S = Shown(v, inHours, C) /\ L = Late(v, inHours, C)
    OBVIOUS
<1>2. /\ v \in ViewTypes /\ all \in SUBSET Record /\ inHours \in SUBSET all /\ inDays \in SUBSET all
      /\ v.tables.raw \in SUBSET all /\ v.exact \in SUBSET all
    BY <1>1 DEF Snapshot, Split
<1>3. C \in SUBSET all
    BY <1>1, <1>2 DEF Counted, RawFrom, HoursFrom, DaysFrom
<1>4. IsFiniteSet(all) /\ TotalCalls(r) = Cardinality(C)
    BY <1>1, TotalCallsAreCounted
<1>5. \A x \in C : RowTime(v, inHours, x) \in Int
    <2> SUFFICES ASSUME NEW x \in C PROVE RowTime(v, inHours, x) \in Int
        OBVIOUS
    <2>1. x \in Record
        BY <1>2, <1>3
    <2> QED BY <2>1, CallTimes DEF RowTime
<1>6. v.end \in Int
    BY <1>2, ViewNumbers
<1>7. S \cup L = C /\ S \cap L = {}
    BY <1>1, <1>5, <1>6 DEF Shown, Late
<1>8. IsFiniteSet(S) /\ IsFiniteSet(L) /\ IsFiniteSet(v.exact)
    BY <1>2, <1>3, <1>4, <1>7, FS_Subset, S \in SUBSET all, L \in SUBSET all
<1>9. Cardinality(C) = Cardinality(S) + Cardinality(L) /\ Cardinality(S) \in Nat /\ Cardinality(L) \in Nat
    BY <1>7, <1>8, TwoParts
<1>10. CallsAfterEnd(r) = Cardinality(L) /\ L \subseteq {x \in v.exact : x.at > v.end}
    BY <1>1, LateCallsAreCounted
<1>11. Cardinality(L) <= Cardinality({x \in v.exact : x.at > v.end})
    <2>1. {x \in v.exact : x.at > v.end} \in SUBSET v.exact
        OBVIOUS
    <2>2. IsFiniteSet({x \in v.exact : x.at > v.end})
        BY <1>8, <2>1, FS_Subset
    <2> QED BY <1>10, <2>2, FS_Subset
<1>12. SumOf([i \in 0 .. BucketCount - 1 |-> ChartCalls(r, i)]) = Cardinality(S)
    BY <1>1, ChartIsWhatIsShown
<1> QED BY <1>1, <1>4, <1>9, <1>10, <1>11, <1>12

\* Statistics of one snapshot.
LEMMA SnapshotsAreRight ==
    ASSUME IHistoryTypes, ViewsAreSnapshots
    PROVE  StatsInv
<1> SUFFICES ASSUME NEW r \in Readers, view[r].phase = "rollups"
             PROVE  /\ TotalCalls(r) <= Cardinality(view[r].exact)
                    /\ TotalCalls(r) >= Cardinality({x \in {y \in view[r].exact : y.at >= DayOf(view[r].taken - DailyRetention)} :
                                                        x.at >= view[r].since})
                    /\ view[r].since < view[r].end =>
                         /\ SumOf([i \in 0 .. BucketCount - 1 |-> ChartCalls(r, i)]) = TotalCalls(r) - CallsAfterEnd(r)
                         /\ CallsAfterEnd(r) <= Cardinality({x \in view[r].exact : x.at > view[r].end})
                         /\ \A x \in view[r].tables.raw : x.at >= RangeStart(r) /\ x.at <= view[r].end =>
                              LET i == BucketIndex(x.at, RangeStart(r), view[r].end - RangeStart(r))
                              IN /\ BucketLimit(i, RangeStart(r), view[r].end - RangeStart(r)) <= x.at
                                 /\ i < BucketCount - 1 =>
                                      x.at < BucketLimit(i + 1, RangeStart(r), view[r].end - RangeStart(r))
    BY DEF StatsInv, StatsOfOneSnapshot, ChartMatchesTotals
<1>1. view[r] \in ViewTypes
    BY DEF IHistoryTypes
<1>2. PICK all \in SUBSET Record : SnapshotOf(view[r], all)
    BY DEF ViewsAreSnapshots
<1>3. PICK inHours, inDays : Snapshot(view[r], all, inHours, inDays)
    BY <1>1, <1>2, SnapshotIsSplit
<1>4. ASSUME view[r].since < view[r].end
      PROVE  /\ SumOf([i \in 0 .. BucketCount - 1 |-> ChartCalls(r, i)]) = TotalCalls(r) - CallsAfterEnd(r)
             /\ CallsAfterEnd(r) <= Cardinality({x \in view[r].exact : x.at > view[r].end})
             /\ \A x \in view[r].tables.raw : x.at >= RangeStart(r) /\ x.at <= view[r].end =>
                  LET i == BucketIndex(x.at, RangeStart(r), view[r].end - RangeStart(r))
                  IN /\ BucketLimit(i, RangeStart(r), view[r].end - RangeStart(r)) <= x.at
                     /\ i < BucketCount - 1 =>
                          x.at < BucketLimit(i + 1, RangeStart(r), view[r].end - RangeStart(r))
    <2>1. InRange(r, inHours, inDays)
        BY <1>3, <1>4, ChartRange
    <2>2. /\ SumOf([i \in 0 .. BucketCount - 1 |-> ChartCalls(r, i)]) = TotalCalls(r) - CallsAfterEnd(r)
          /\ CallsAfterEnd(r) <= Cardinality({x \in view[r].exact : x.at > view[r].end})
        BY <1>3, <1>4, <2>1, ChartIsTheTotalUntilTheEnd
    <2>3. ASSUME NEW x \in view[r].tables.raw, x.at >= RangeStart(r), x.at <= view[r].end, NEW i,
                 i = BucketIndex(x.at, RangeStart(r), view[r].end - RangeStart(r))
          PROVE  /\ BucketLimit(i, RangeStart(r), view[r].end - RangeStart(r)) <= x.at
                 /\ i < BucketCount - 1 =>
                      x.at < BucketLimit(i + 1, RangeStart(r), view[r].end - RangeStart(r))
        <3>1. PICK start \in Int, end \in Int : start = RangeStart(r) /\ end = view[r].end /\ start < end
            BY <1>1, <2>1, ViewNumbers DEF InRange
        <3>2. x.at \in Int /\ x.at <= end
            BY <1>1, <2>3, <3>1, ViewNumbers, CallTimes
        <3> QED BY <2>3, <3>1, <3>2, BucketEnclosesTime
    <2> QED BY <2>2, <2>3
<1> QED BY <1>3, <1>4, SnapshotCountsOnce
-----------------------------------------------------------------------------
(* The usage history: what the steps of the maintenance do to the tables.  *)

\* The hour, or the day, whose boundary b is.
LEMMA OfTheBucket ==
    ASSUME NEW t \in Times
    PROVE  /\ \A b \in Hours : (t >= b /\ t < b + HourTicks) <=> HourOf(t) = b
           /\ \A b \in Days : (t >= b /\ t < b + DayTicks) <=> DayOf(t) = b
<1>1. t \in Int /\ HourTicks \in Nat \ {0} /\ DayTicks \in Nat \ {0}
    BY BoundariesAreTimes, HistoryNumbers
<1>2. ASSUME NEW b \in Hours PROVE (t >= b /\ t < b + HourTicks) <=> HourOf(t) = b
    <2>1. b \in Int /\ HourOf(b) = b
        BY HoursAndDaysAreTimes
    <2>2. PICK q \in Int : b = q * HourTicks
        <3>1. RollupSince(b, HourTicks) = b
            BY <2>1, HourAndDay
        <3> QED BY <1>1, <2>1, <3>1, BoundaryBefore
    <2>3. (t >= b /\ t < b + HourTicks) => HourOf(t) = b
        BY <1>1, <2>1, <2>2, BoundaryUnique, HourAndDay
    <2> QED BY <1>1, <2>3, HourAndDay
<1>3. ASSUME NEW b \in Days PROVE (t >= b /\ t < b + DayTicks) <=> DayOf(t) = b
    <2>1. b \in Int /\ DayOf(b) = b
        BY HoursAndDaysAreTimes
    <2>2. PICK q \in Int : b = q * DayTicks
        <3>1. RollupSince(b, DayTicks) = b
            BY <2>1, HourAndDay
        <3> QED BY <1>1, <2>1, <3>1, BoundaryBefore
    <2>3. (t >= b /\ t < b + DayTicks) => DayOf(t) = b
        BY <1>1, <2>1, <2>2, BoundaryUnique, HourAndDay
    <2> QED BY <1>1, <2>3, HourAndDay
<1> QED BY <1>2, <1>3

\* The last retention ends later and later.
LEMMA RetentionMoves ==
    ASSUME NEW m \in Nat, NEW n \in Nat, m <= n
    PROVE  /\ DayOf(m - DailyRetention) \in Int /\ DayOf(n - DailyRetention) \in Int
           /\ DayOf(m - DailyRetention) <= DayOf(n - DailyRetention)
<1>1. PICK d \in Nat : d = DailyRetention
    BY HistoryNumbers
<1>2. m - d \in Int /\ n - d \in Int /\ m - d <= n - d
    OBVIOUS
<1>3. PICK a \in Int, b \in Int : a = m - d /\ b = n - d /\ a <= b
    BY <1>2
<1>4. DayOf(a) <= DayOf(b) /\ DayOf(a) \in Int /\ DayOf(b) \in Int
    BY <1>3, HistoryNumbers, HourAndDay, BoundaryMonotone
<1> QED BY <1>1, <1>3, <1>4

\* An hour is added to its rows and leaves the raw rows.
LEMMA CompactRawPlaces ==
    ASSUME IHistoryTypes, RecordsInOnePlace, Placed(Now, recorded, now), NEW b \in Hours, CompactRawUsageHour(b)
    PROVE  Now' \in TableTypes /\ Placed(Now', recorded, now)
<1>1. PICK inHours \in SUBSET recorded, inDays \in SUBSET recorded : Split(Now, recorded, inHours, inDays, now)
    BY DEF Placed
<1>2. PICK moved : moved = {x \in raw : x.at >= b /\ x.at < b + HourTicks}
    OBVIOUS
<1>3. /\ hourly' = [k \in Keys |-> [hourly[k] EXCEPT ![b] = @ + Cardinality(Of(k, moved))]]
      /\ raw' = raw \ moved /\ daily' = daily
    BY <1>2 DEF CompactRawUsageHour, Added
<1>4. /\ raw \in SUBSET Record /\ hourly \in [Keys -> [Hours -> Nat]] /\ daily \in [Keys -> [Days -> Nat]]
      /\ recorded \in SUBSET Record
    BY DEF IHistoryTypes, TableTypes, Now
<1>5. IsFiniteSet(recorded)
    BY RecordedAreFew
<1>6. raw \subseteq recorded /\ moved \in SUBSET raw
    BY <1>1, <1>2 DEF Split, Now
<1>7. \A x \in moved : HourOf(x.at) = b
    BY <1>2, <1>4, OfTheBucket, CallTimes
<1>8. PICK inHours2 : inHours2 = inHours \cup moved
    OBVIOUS
<1>9. ASSUME NEW k \in Keys, NEW h \in Hours
      PROVE  hourly'[k][h] = Cardinality(InHour(inHours2, k, h)) /\ hourly'[k][h] \in Nat
    <2>1. hourly[k][h] = Cardinality(InHour(inHours, k, h))
        BY <1>1 DEF Split, RollupsCount, Now
    <2>2. PICK A, B : A = InHour(inHours, k, h) /\ B = Of(k, moved)
        OBVIOUS
    <2>3. IsFiniteSet(A) /\ IsFiniteSet(B) /\ A \cap B = {}
        <3>1. A \in SUBSET recorded /\ B \in SUBSET recorded
            BY <1>6, <2>2 DEF InHour, Of
        <3>2. A \cap B = {}
            BY <1>1, <1>6, <2>2 DEF Split, Now, InHour, Of
        <3> QED BY <1>5, <3>1, <3>2, FS_Subset
    <2>4. CASE h = b
        <3>1. InHour(inHours2, k, h) = A \cup B
            BY <1>7, <1>8, <2>2, <2>4 DEF InHour, Of
        <3>2. hourly'[k][h] = Cardinality(A) + Cardinality(B)
            BY <1>3, <1>4, <2>1, <2>2, <2>4
        <3>3. Cardinality(A \cup B) = Cardinality(A) + Cardinality(B) /\ Cardinality(A \cup B) \in Nat
            BY <2>3, TwoParts
        <3> QED BY <3>1, <3>2, <3>3
    <2>5. CASE h # b
        <3>1. InHour(inHours2, k, h) = A
            BY <1>7, <1>8, <2>2, <2>5 DEF InHour, Of
        <3>2. hourly'[k][h] = hourly[k][h]
            BY <1>3, <1>4, <2>5
        <3> QED BY <1>4, <2>1, <2>2, <3>1, <3>2
    <2> QED BY <2>4, <2>5
<1>10. PICK t2 : t2 = [raw |-> raw', hourly |-> hourly', daily |-> daily']
    OBVIOUS
<1>11. t2 \in TableTypes
    <2>1. hourly' \in [Keys -> [Hours -> Nat]]
        <3>1. \A k \in Keys : hourly'[k] \in [Hours -> Nat]
            <4> SUFFICES ASSUME NEW k \in Keys PROVE hourly'[k] \in [Hours -> Nat]
                OBVIOUS
            <4>1. \A h \in Hours : hourly'[k][h] \in Nat
                BY <1>9
            <4>2. hourly'[k] = [hourly[k] EXCEPT ![b] = @ + Cardinality(Of(k, moved))]
                BY <1>3
            <4>3. hourly[k] \in [Hours -> Nat]
                BY <1>4
            <4>4. hourly'[k] = [h \in Hours |-> hourly'[k][h]]
                BY <4>2, <4>3
            <4> QED BY <4>1, <4>4
        <3> QED BY <1>3, <3>1
    <2> QED BY <1>3, <1>4, <1>6, <1>10, <2>1 DEF TableTypes
<1>12. Split(t2, recorded, inHours2, inDays, now)
    <2>1. RollupsCount(t2, inHours2, inDays)
        <3>1. \A k \in Keys, d \in Days : daily'[k][d] = Cardinality(InDay(inDays, k, d))
            BY <1>1, <1>3 DEF Split, RollupsCount, Now
        <3> QED BY <1>9, <1>10, <3>1 DEF RollupsCount
    <2>2. Gone(recorded, t2, inHours2, inDays) = Gone(recorded, Now, inHours, inDays)
        BY <1>3, <1>6, <1>8, <1>10 DEF Gone, Now
    <2> QED BY <1>1, <1>3, <1>6, <1>8, <1>10, <2>1, <2>2 DEF Split, Now
<1>13. inHours2 \in SUBSET recorded
    BY <1>6, <1>8
<1> QED BY <1>10, <1>11, <1>12, <1>13 DEF Now, Placed

\* A day is added to its rows and leaves the hourly ones.
LEMMA CompactHourlyPlaces ==
    ASSUME IHistoryTypes, RecordsInOnePlace, Placed(Now, recorded, now), NEW b \in Days, CompactHourlyUsageDay(b)
    PROVE  Now' \in TableTypes /\ Placed(Now', recorded, now)
<1>1. PICK inHours \in SUBSET recorded, inDays \in SUBSET recorded : Split(Now, recorded, inHours, inDays, now)
    BY DEF Placed
<1>2. PICK moved : moved = {h \in Hours : h >= b /\ h < b + DayTicks}
    OBVIOUS
<1>3. /\ daily' = [k \in Keys |-> [daily[k] EXCEPT ![b] = @ + Total(hourly, {k}, moved)]]
      /\ hourly' = [k \in Keys |-> [h \in Hours |-> IF h \in moved THEN 0 ELSE hourly[k][h]]]
      /\ raw' = raw
    BY <1>2 DEF CompactHourlyUsageDay, Added
<1>4. /\ raw \in SUBSET Record /\ hourly \in [Keys -> [Hours -> Nat]] /\ daily \in [Keys -> [Days -> Nat]]
      /\ recorded \in SUBSET Record
    BY DEF IHistoryTypes, TableTypes, Now
<1>5. IsFiniteSet(recorded) /\ IsFiniteSet(inHours)
    BY RecordedAreFew, FS_Subset
<1>6. \A h \in Hours : h \in moved <=> DayOf(h) = b
    BY <1>2, OfTheBucket, HoursAndDaysAreTimes
<1>7. \A x \in recorded : /\ HourOf(x.at) \in Hours /\ DayOf(x.at) \in Days
                          /\ HourOf(x.at) \in moved <=> DayOf(x.at) = b
    <2> SUFFICES ASSUME NEW x \in recorded
                 PROVE  /\ HourOf(x.at) \in Hours /\ DayOf(x.at) \in Days
                        /\ HourOf(x.at) \in moved <=> DayOf(x.at) = b
        OBVIOUS
    <2>1. HourOf(x.at) \in Hours /\ DayOf(x.at) \in Days /\ x.at \in Int
        BY <1>4, CallTimes
    <2> QED BY <2>1, <1>6, HourAndDay
<1>8. PICK inHours2, inDays2, gone : /\ gone = {x \in inHours : DayOf(x.at) = b}
                                     /\ inHours2 = inHours \ gone /\ inDays2 = inDays \cup gone
    OBVIOUS
<1>9. ASSUME NEW k \in Keys, NEW h \in Hours
      PROVE  hourly'[k][h] = Cardinality(InHour(inHours2, k, h)) /\ hourly'[k][h] \in Nat
    <2>1. hourly[k][h] = Cardinality(InHour(inHours, k, h))
        BY <1>1 DEF Split, RollupsCount, Now
    <2>2. CASE h \in moved
        <3>1. \A x \in inHours2 : HourOf(x.at) # h
            BY <1>7, <1>8, <2>2
        <3>2. InHour(inHours2, k, h) = {}
            BY <3>1 DEF InHour
        <3> QED BY <1>3, <2>2, <3>2, FS_EmptySet
    <2>3. CASE h \notin moved
        <3>1. \A x \in gone : HourOf(x.at) # h
            BY <1>7, <1>8, <2>3
        <3>2. InHour(inHours2, k, h) = InHour(inHours, k, h)
            BY <1>8, <3>1 DEF InHour
        <3> QED BY <1>3, <1>4, <2>1, <2>3, <3>2
    <2> QED BY <2>2, <2>3
<1>10. ASSUME NEW k \in Keys, NEW d \in Days
       PROVE  daily'[k][d] = Cardinality(InDay(inDays2, k, d)) /\ daily'[k][d] \in Nat
    <2>1. daily[k][d] = Cardinality(InDay(inDays, k, d))
        BY <1>1 DEF Split, RollupsCount, Now
    <2>2. PICK A, B : A = InDay(inDays, k, d) /\ B = Of(k, gone)
        OBVIOUS
    <2>3. IsFiniteSet(A) /\ IsFiniteSet(B) /\ A \cap B = {}
        <3>1. A \in SUBSET recorded /\ B \in SUBSET recorded
            BY <1>8, <2>2 DEF InDay, Of
        <3>2. A \cap B = {}
            BY <1>1, <1>8, <2>2 DEF Split, Now, InDay, Of
        <3> QED BY <1>5, <3>1, <3>2, FS_Subset
    <2>4. CASE d = b
        <3>1. InDay(inDays2, k, d) = A \cup B
            BY <1>8, <2>2, <2>4 DEF InDay, Of
        <3>2. Total(hourly, {k}, moved) = Cardinality(B)
            <4>1. PICK ks : ks = {k}
                OBVIOUS
            <4>2. \A j \in Keys, h \in Hours : hourly[j][h] = Cardinality(InHour(inHours, j, h))
                BY <1>1 DEF Split, RollupsCount, Now
            <4>3. inHours \in SUBSET Record /\ moved \in SUBSET Hours /\ ks \in SUBSET Keys
                BY <1>2, <1>4, <4>1
            <4>4. Total(hourly, ks, moved) = Cardinality({x \in inHours : x.key \in ks /\ HourOf(x.at) \in moved})
                BY <1>5, <4>2, <4>3, HourlyTotal
            <4>5. {x \in inHours : x.key \in ks /\ HourOf(x.at) \in moved} = B
                BY <1>7, <1>8, <2>2, <4>1 DEF Of
            <4> QED BY <4>1, <4>4, <4>5
        <3>3. daily'[k][d] = Cardinality(A) + Cardinality(B)
            BY <1>3, <1>4, <2>1, <2>2, <2>4, <3>2
        <3>4. Cardinality(A \cup B) = Cardinality(A) + Cardinality(B) /\ Cardinality(A \cup B) \in Nat
            BY <2>3, TwoParts
        <3> QED BY <3>1, <3>3, <3>4
    <2>5. CASE d # b
        <3>1. InDay(inDays2, k, d) = A
            BY <1>8, <2>2, <2>5 DEF InDay, Of
        <3>2. daily'[k][d] = daily[k][d]
            BY <1>3, <1>4, <2>5
        <3> QED BY <1>4, <2>1, <2>2, <3>1, <3>2
    <2> QED BY <2>4, <2>5
<1>11. PICK t2 : t2 = [raw |-> raw', hourly |-> hourly', daily |-> daily']
    OBVIOUS
<1>12. t2 \in TableTypes
    <2>1. hourly' \in [Keys -> [Hours -> Nat]]
        BY <1>3, <1>4
    <2>2. daily' \in [Keys -> [Days -> Nat]]
        <3>1. \A k \in Keys : daily'[k] \in [Days -> Nat]
            <4> SUFFICES ASSUME NEW k \in Keys PROVE daily'[k] \in [Days -> Nat]
                OBVIOUS
            <4>1. \A d \in Days : daily'[k][d] \in Nat
                BY <1>10
            <4>2. daily'[k] = [daily[k] EXCEPT ![b] = @ + Total(hourly, {k}, moved)]
                BY <1>3
            <4>3. daily[k] \in [Days -> Nat]
                BY <1>4
            <4>4. daily'[k] = [d \in Days |-> daily'[k][d]]
                BY <4>2, <4>3
            <4> QED BY <4>1, <4>4
        <3> QED BY <1>3, <3>1
    <2> QED BY <1>3, <1>4, <1>11, <2>1, <2>2 DEF TableTypes
<1>13. Split(t2, recorded, inHours2, inDays2, now)
    <2>1. RollupsCount(t2, inHours2, inDays2)
        BY <1>9, <1>10, <1>11 DEF RollupsCount
    <2>2. Gone(recorded, t2, inHours2, inDays2) = Gone(recorded, Now, inHours, inDays)
        BY <1>3, <1>8, <1>11 DEF Gone, Now
    <2> QED BY <1>1, <1>3, <1>8, <1>11, <2>1, <2>2 DEF Split, Now
<1>14. inHours2 \in SUBSET recorded /\ inDays2 \in SUBSET recorded
    BY <1>8
<1> QED BY <1>11, <1>12, <1>13, <1>14 DEF Now, Placed

\* A day that is deleted is older than the last retention.
LEMMA DeleteDailyPlaces ==
    ASSUME IHistoryTypes, RecordsInOnePlace, Placed(Now, recorded, now), NEW b \in Days,
           b < DayOf(now - DailyRetention), DeleteDailyUsageDay(b)
    PROVE  Now' \in TableTypes /\ Placed(Now', recorded, now)
<1>1. PICK inHours \in SUBSET recorded, inDays \in SUBSET recorded : Split(Now, recorded, inHours, inDays, now)
    BY DEF Placed
<1>2. daily' = [k \in Keys |-> [daily[k] EXCEPT ![b] = 0]] /\ raw' = raw /\ hourly' = hourly
    BY DEF DeleteDailyUsageDay
<1>3. daily \in [Keys -> [Days -> Nat]] /\ Now \in TableTypes
    BY DEF IHistoryTypes, TableTypes, Now
<1>4. PICK inDays2 : inDays2 = {x \in inDays : DayOf(x.at) # b}
    OBVIOUS
<1>5. ASSUME NEW k \in Keys, NEW d \in Days PROVE daily'[k][d] = Cardinality(InDay(inDays2, k, d))
    <2>1. daily[k][d] = Cardinality(InDay(inDays, k, d))
        BY <1>1 DEF Split, RollupsCount, Now
    <2>2. CASE d = b
        <3>1. InDay(inDays2, k, d) = {}
            BY <1>4, <2>2 DEF InDay
        <3> QED BY <1>2, <1>3, <2>2, <3>1, FS_EmptySet
    <2>3. CASE d # b
        <3>1. InDay(inDays2, k, d) = InDay(inDays, k, d)
            BY <1>4, <2>3 DEF InDay
        <3> QED BY <1>2, <1>3, <2>1, <2>3, <3>1
    <2> QED BY <2>2, <2>3
<1>6. PICK t2 : t2 = [raw |-> raw', hourly |-> hourly', daily |-> daily']
    OBVIOUS
<1>7. t2 \in TableTypes
    BY <1>2, <1>3, <1>6 DEF TableTypes, Now
<1>8. Split(t2, recorded, inHours, inDays2, now)
    <2>1. RollupsCount(t2, inHours, inDays2)
        <3>1. \A k \in Keys, h \in Hours : hourly'[k][h] = Cardinality(InHour(inHours, k, h))
            BY <1>1, <1>2 DEF Split, RollupsCount, Now
        <3> QED BY <1>5, <1>6, <3>1 DEF RollupsCount
    <2>2. ASSUME NEW x \in Gone(recorded, t2, inHours, inDays2) PROVE DayOf(x.at) < DayOf(now - DailyRetention)
        <3>1. x \in Gone(recorded, Now, inHours, inDays) \/ DayOf(x.at) = b
            BY <1>2, <1>4, <1>6, <2>2 DEF Gone, Now
        <3> QED BY <1>1, <3>1 DEF Split
    <2> QED BY <1>1, <1>2, <1>4, <1>6, <2>1, <2>2 DEF Split, Now
<1>9. inDays2 \in SUBSET recorded
    BY <1>4
<1> QED BY <1>6, <1>7, <1>8, <1>9 DEF Now, Placed
-----------------------------------------------------------------------------
(* The usage history: every step keeps the calls placed.                   *)

\* A committed batch is new to the tables.
LEMMA PersistPlaces ==
    ASSUME IHistoryTypes, RecordsInOnePlace, Placed(Now, recorded, now), NEW b \in SUBSET queue, PersistPrimary(b)
    PROVE  Placed(Now', recorded', now')
<1>1. PICK inHours \in SUBSET recorded, inDays \in SUBSET recorded : Split(Now, recorded, inHours, inDays, now)
    BY DEF Placed
<1>2. /\ raw' = raw \cup b /\ recorded' = recorded \cup b /\ hourly' = hourly /\ daily' = daily /\ now' = now
      /\ b \cap recorded = {}
    BY DEF PersistPrimary, RecordsInOnePlace
<1>3. PICK t2, all : t2 = [raw |-> raw', hourly |-> hourly', daily |-> daily'] /\ all = recorded \cup b
    OBVIOUS
<1>4. Gone(all, t2, inHours, inDays) = Gone(recorded, Now, inHours, inDays)
    BY <1>2, <1>3 DEF Gone, Now
<1>5. RollupsCount(t2, inHours, inDays)
    BY <1>1, <1>2, <1>3 DEF Split, RollupsCount, Now
<1>6. Split(t2, all, inHours, inDays, now)
    BY <1>1, <1>2, <1>3, <1>4, <1>5 DEF Split, Now
<1>7. Placed(t2, all, now)
    BY <1>3, <1>6 DEF Placed
<1> QED BY <1>2, <1>3, <1>7 DEF Now

\* The calls of a deleted key leave every table.
LEMMA DeleteKeyPlaces ==
    ASSUME IHistoryTypes, RecordsInOnePlace, Placed(Now, recorded, now), NEW k \in Keys, DeleteKey(k)
    PROVE  Placed(Now', recorded', now')
<1>1. PICK inHours \in SUBSET recorded, inDays \in SUBSET recorded : Split(Now, recorded, inHours, inDays, now)
    BY DEF Placed
<1>2. /\ raw' = raw \ Of(k, raw) /\ recorded' = recorded \ Of(k, recorded) /\ now' = now
      /\ hourly' = [hourly EXCEPT ![k] = [b \in Hours |-> 0]]
      /\ daily' = [daily EXCEPT ![k] = [b \in Days |-> 0]]
    BY DEF DeleteKey
<1>3. hourly \in [Keys -> [Hours -> Nat]] /\ daily \in [Keys -> [Days -> Nat]] /\ raw \subseteq recorded
    BY <1>1 DEF IHistoryTypes, TableTypes, Now, Split
<1>4. PICK t2, all, inHours2, inDays2 :
          /\ t2 = [raw |-> raw', hourly |-> hourly', daily |-> daily'] /\ all = recorded \ Of(k, recorded)
          /\ inHours2 = inHours \ Of(k, inHours) /\ inDays2 = inDays \ Of(k, inDays)
    OBVIOUS
<1>5. ASSUME NEW j \in Keys, NEW h \in Hours PROVE hourly'[j][h] = Cardinality(InHour(inHours2, j, h))
    <2>1. hourly[j][h] = Cardinality(InHour(inHours, j, h))
        BY <1>1 DEF Split, RollupsCount, Now
    <2>2. CASE j = k
        <3>1. InHour(inHours2, j, h) = {}
            BY <1>4, <2>2 DEF InHour, Of
        <3> QED BY <1>2, <1>3, <2>2, <3>1, FS_EmptySet
    <2>3. CASE j # k
        <3>1. InHour(inHours2, j, h) = InHour(inHours, j, h)
            BY <1>4, <2>3 DEF InHour, Of
        <3> QED BY <1>2, <1>3, <2>1, <2>3, <3>1
    <2> QED BY <2>2, <2>3
<1>6. ASSUME NEW j \in Keys, NEW d \in Days PROVE daily'[j][d] = Cardinality(InDay(inDays2, j, d))
    <2>1. daily[j][d] = Cardinality(InDay(inDays, j, d))
        BY <1>1 DEF Split, RollupsCount, Now
    <2>2. CASE j = k
        <3>1. InDay(inDays2, j, d) = {}
            BY <1>4, <2>2 DEF InDay, Of
        <3> QED BY <1>2, <1>3, <2>2, <3>1, FS_EmptySet
    <2>3. CASE j # k
        <3>1. InDay(inDays2, j, d) = InDay(inDays, j, d)
            BY <1>4, <2>3 DEF InDay, Of
        <3> QED BY <1>2, <1>3, <2>1, <2>3, <3>1
    <2> QED BY <2>2, <2>3
<1>7. Gone(all, t2, inHours2, inDays2) \subseteq Gone(recorded, Now, inHours, inDays)
    BY <1>2, <1>4 DEF Gone, Now, Of
<1>8. RollupsCount(t2, inHours2, inDays2)
    BY <1>4, <1>5, <1>6 DEF RollupsCount
<1>9. Split(t2, all, inHours2, inDays2, now)
    BY <1>1, <1>2, <1>3, <1>4, <1>7, <1>8 DEF Split, Now, Of
<1>10. inHours2 \in SUBSET all /\ inDays2 \in SUBSET all
    BY <1>4 DEF Of
<1>11. Placed(t2, all, now)
    BY <1>9, <1>10 DEF Placed
<1> QED BY <1>2, <1>4, <1>11 DEF Now

\* What is gone stays old.
LEMMA TimePlaces ==
    ASSUME IHistoryTypes, Placed(Now, recorded, now), UNCHANGED <<raw, hourly, daily, recorded>>,
           now' \in Nat, now' >= now
    PROVE  Placed(Now', recorded', now')
<1>1. PICK inHours \in SUBSET recorded, inDays \in SUBSET recorded : Split(Now, recorded, inHours, inDays, now)
    BY DEF Placed
<1>2. PICK t \in Nat : t = now' /\ now <= t
    OBVIOUS
<1>3. now \in Nat /\ DailyRetention \in Nat /\ DayTicks \in Nat \ {0} /\ recorded \in SUBSET Record
    BY HoursAndDaysAreTimes, HistoryNumbers DEF IHistoryTypes
<1>4. PICK m \in Nat : m = now /\ m <= t
    BY <1>2, <1>3
<1>5. /\ DayOf(m - DailyRetention) \in Int /\ DayOf(t - DailyRetention) \in Int
      /\ DayOf(m - DailyRetention) <= DayOf(t - DailyRetention)
    BY <1>4, RetentionMoves
<1>6. \A x \in Gone(recorded, Now, inHours, inDays) : DayOf(x.at) < DayOf(t - DailyRetention)
    <2> SUFFICES ASSUME NEW x \in Gone(recorded, Now, inHours, inDays)
                 PROVE  DayOf(x.at) < DayOf(t - DailyRetention)
        OBVIOUS
    <2>1. x \in Record
        BY <1>3 DEF Gone
    <2>2. DayOf(x.at) < DayOf(m - DailyRetention) /\ DayOf(x.at) \in Int
        BY <1>1, <1>4, <2>1, CallTimes DEF Split
    <2> QED BY <1>5, <2>2
<1>7. Placed(Now, recorded, t)
    BY <1>1, <1>6 DEF Split, Placed
<1>8. Now' = Now /\ recorded' = recorded
    BY DEF Now
<1> QED BY <1>2, <1>7, <1>8

\* A pass deletes days only that are older than the last retention now.
LEMMA CompactPlaces ==
    ASSUME IHistoryTypes, RecordsInOnePlace, Placed(Now, recorded, now), PassBuckets, CompactBucket
    PROVE  Now' \in TableTypes /\ Placed(Now', recorded', now')
<1>1. PICK b \in pass.bucket : \/ pass.phase = "raw" /\ CompactRawUsageHour(b)
                               \/ pass.phase = "hourly" /\ CompactHourlyUsageDay(b)
                               \/ pass.phase = "daily" /\ DeleteDailyUsageDay(b)
    BY DEF CompactBucket
<1>2. recorded' = recorded /\ now' = now
    BY DEF CompactBucket
<1>3. Now' \in TableTypes /\ Placed(Now', recorded, now)
    <2>1. CASE pass.phase = "raw" /\ CompactRawUsageHour(b)
        BY <2>1, CompactRawPlaces DEF PassBuckets
    <2>2. CASE pass.phase = "hourly" /\ CompactHourlyUsageDay(b)
        BY <2>2, CompactHourlyPlaces DEF PassBuckets
    <2>3. CASE pass.phase = "daily" /\ DeleteDailyUsageDay(b)
        <3>1. b \in Days /\ b < pass.daily /\ pass.daily <= DayOf(now - DailyRetention)
            BY <2>3 DEF PassBuckets
        <3>2. b \in Int /\ pass.daily \in Int /\ DayOf(now - DailyRetention) \in Int
            BY <3>1, HoursAndDaysAreTimes, HourAndDay, HistoryNumbers DEF IHistoryTypes, PassTypes
        <3> QED BY <2>3, <3>1, <3>2, DeleteDailyPlaces
    <2> QED BY <1>1, <2>1, <2>2, <2>3
<1> QED BY <1>2, <1>3

\* The actions that change the tables, the records or the clock.
LEMMA TableActions ==
    ASSUME HistoryNext
    PROVE  \/ \E b \in SUBSET queue : PersistPrimary(b)
           \/ \E k \in Keys : DeleteKey(k)
           \/ CompactBucket
           \/ Tick
           \/ UNCHANGED <<raw, hourly, daily, recorded, now>>
BY DEF HistoryNext, HistoryStep, WriterNext, PassNext, ReaderNext, usageVars, Call, PrimaryFails, ReserveDebug,
       FindExistingKeys, InsertDebug, DebugFails, CleanDebug, CleanDebugFails, StartPass, FindBucket,
       DeleteOldDebug, PassFails, StatsBegin, StatsSnapshot, StatsRollups, StatsLoadDebug, StatsFails, Restart

\* Every step keeps each committed call in one table, or in none when it is older than the
\* last retention.
LEMMA PlacedStep ==
    ASSUME IHistory, HistoryNext
    PROVE  Placed(Now', recorded', now') /\ Now' \in TableTypes
<1>1. /\ IHistoryTypes /\ RecordsInOnePlace /\ Placed(Now, recorded, now) /\ PassBuckets
      /\ now \in Nat /\ Now \in TableTypes /\ queue \subseteq Record
    BY HoursAndDaysAreTimes DEF IHistory, IHistoryTypes
<1>2. ASSUME NEW b \in SUBSET queue, PersistPrimary(b) PROVE Placed(Now', recorded', now') /\ Now' \in TableTypes
    <2>1. raw' = raw \cup b /\ hourly' = hourly /\ daily' = daily
        BY <1>2 DEF PersistPrimary
    <2> QED BY <1>1, <1>2, <2>1, PersistPlaces DEF TableTypes, Now
<1>3. ASSUME NEW k \in Keys, DeleteKey(k) PROVE Placed(Now', recorded', now') /\ Now' \in TableTypes
    <2>1. /\ raw' = raw \ Of(k, raw)
          /\ hourly' = [hourly EXCEPT ![k] = [b \in Hours |-> 0]]
          /\ daily' = [daily EXCEPT ![k] = [b \in Days |-> 0]]
        BY <1>3 DEF DeleteKey
    <2>2. Now' \in TableTypes
        BY <1>1, <2>1 DEF TableTypes, Now
    <2> QED BY <1>1, <1>3, <2>2, DeleteKeyPlaces
<1>4. CASE CompactBucket
    BY <1>1, <1>4, CompactPlaces
<1>5. CASE Tick
    <2>1. now' = now + 1 /\ UNCHANGED <<raw, hourly, daily, recorded>>
        BY <1>5 DEF Tick, usageVars
    <2> QED BY <1>1, <2>1, TimePlaces DEF Now
<1>6. CASE UNCHANGED <<raw, hourly, daily, recorded, now>>
    BY <1>1, <1>6, TimePlaces DEF Now
<1> QED BY <1>2, <1>3, <1>4, <1>5, <1>6, TableActions
-----------------------------------------------------------------------------
(* The usage history: records, counters, views and debug rows.             *)

\* The actions that change what is queued, committed, made or counted.
LEMMA RecordActions ==
    ASSUME HistoryNext
    PROVE  \/ \E k \in Keys, captured \in BOOLEAN : Call(k, captured)
           \/ \E b \in SUBSET queue : PersistPrimary(b)
           \/ \E k \in Keys : DeleteKey(k)
           \/ /\ queue' \subseteq queue /\ UNCHANGED <<recorded, made, keys, calls, lastUsed>>
              /\ now' = now \/ now' = now + 1
<1>1. ASSUME NEW b \in SUBSET queue, PrimaryFails(b)
      PROVE  queue' \subseteq queue /\ UNCHANGED <<recorded, made, keys, calls, lastUsed, now>>
    BY <1>1 DEF PrimaryFails, keyVars
<1>2. CASE Restart
    BY <1>2 DEF Restart, keyVars
<1>3. CASE Tick
    BY <1>3 DEF Tick, keyVars
<1> QED BY <1>1, <1>2, <1>3 DEF HistoryNext, HistoryStep, WriterNext, PassNext, ReaderNext, keyVars, ReserveDebug,
       FindExistingKeys, InsertDebug, DebugFails, CleanDebug, CleanDebugFails, StartPass, FindBucket,
       CompactBucket, DeleteOldDebug, PassFails, StatsBegin, StatsSnapshot, StatsRollups, StatsLoadDebug, StatsFails

\* Every step keeps the calls distinct and each in the queue or committed.
LEMMA RecordsStep ==
    ASSUME IHistory, HistoryNext
    PROVE  RecordsInOnePlace'
<1>1. /\ IHistoryTypes /\ RecordsInOnePlace /\ now \in Nat /\ made \in Nat
      /\ queue \subseteq Record /\ recorded \subseteq Record
    BY HoursAndDaysAreTimes, HistoryNumbers DEF IHistory, IHistoryTypes
<1>2. \A x \in queue \cup recorded : x.id \in Nat /\ x.at \in Nat /\ x.id <= made /\ x.at <= now
    BY <1>1, CallTimes DEF Record, RecordsInOnePlace
<1>3. ASSUME NEW k \in Keys, NEW captured \in BOOLEAN, Call(k, captured) PROVE RecordsInOnePlace'
    <2>1. PICK x : x = [id |-> made + 1, key |-> k, at |-> now, debug |-> captured]
        OBVIOUS
    <2>2. queue' = queue \cup {x} /\ made' = made + 1 /\ UNCHANGED <<recorded, keys, now>>
        BY <1>3, <2>1 DEF Call, keyVars
    <2>3. x.id = made + 1 /\ x.at = now
        BY <2>1
    <2>4. \A y \in queue \cup recorded : y.id # x.id
        BY <1>1, <1>2, <2>3
    <2> QED BY <1>1, <1>2, <2>2, <2>3, <2>4 DEF RecordsInOnePlace, CallsAreDistinct
<1>4. ASSUME NEW b \in SUBSET queue, PersistPrimary(b) PROVE RecordsInOnePlace'
    <2>1. /\ queue' = queue \ b /\ recorded' = recorded \cup b /\ UNCHANGED <<made, keys, now>>
          /\ \A x \in b : x.key \in keys
        BY <1>4 DEF PersistPrimary
    <2> QED BY <1>1, <2>1 DEF RecordsInOnePlace, CallsAreDistinct
<1>5. ASSUME NEW k \in Keys, DeleteKey(k) PROVE RecordsInOnePlace'
    <2>1. keys' = keys \ {k} /\ recorded' = recorded \ Of(k, recorded) /\ UNCHANGED <<made, queue, now>>
        BY <1>5 DEF DeleteKey
    <2> QED BY <1>1, <2>1 DEF RecordsInOnePlace, CallsAreDistinct, Of
<1>6. ASSUME queue' \subseteq queue, UNCHANGED <<recorded, made, keys>>, now' = now \/ now' = now + 1
      PROVE  RecordsInOnePlace'
    <2>1. \A x \in queue \cup recorded : x.at <= now'
        BY <1>1, <1>2, <1>6
    <2> QED BY <1>1, <1>6, <2>1 DEF RecordsInOnePlace, CallsAreDistinct
<1> QED BY <1>3, <1>4, <1>5, <1>6, RecordActions

\* The latest of the times of a key's records, and of these and an earlier one.
LatestOf(k, S) == Max({0} \cup {x.at : x \in Of(k, S)})
LaterThan(first, k, S) == Max({first} \cup {x.at : x \in Of(k, S)})

\* The time of last use after a batch is that of all records, whatever their order.
LEMMA LatestUse ==
    ASSUME NEW S \in SUBSET Record, NEW T \in SUBSET Record, NEW k, NEW n \in Times,
           \A x \in S : x.at <= n, \A x \in T : x.at <= n
    PROVE  /\ LatestOf(k, S) \in Nat /\ LatestOf(k, S) <= n
           /\ LaterThan(LatestOf(k, S), k, T) = LatestOf(k, S \cup T)
<1>1. n \in Nat /\ \A x \in S \cup T : x.at \in Nat /\ x.at <= n
    BY BoundariesAreTimes, CallTimes
<1>2. PICK A, B : A = {x.at : x \in Of(k, S)} /\ B = {x.at : x \in Of(k, T)}
    OBVIOUS
<1>3. A \subseteq Nat /\ B \subseteq Nat /\ (\A a \in A \cup B : a <= n) /\ {x.at : x \in Of(k, S \cup T)} = A \cup B
    BY <1>1, <1>2 DEF Of
<1>4. PICK first, P : P = {0} \cup A /\ first = Max(P)
    OBVIOUS
<1>5. P \in SUBSET Nat /\ P # {} /\ \A u \in P : u <= n
    BY <1>1, <1>3, <1>4
<1>6. first \in P /\ \A u \in P : u <= first
    BY <1>1, <1>4, <1>5, MaxOfNaturals
<1>7. first \in Nat /\ first <= n
    BY <1>5, <1>6
<1>8. PICK second, Q : Q = {first} \cup B /\ second = Max(Q)
    OBVIOUS
<1>9. Q \in SUBSET Nat /\ Q # {} /\ \A u \in Q : u <= n
    BY <1>1, <1>3, <1>7, <1>8
<1>10. second \in Q /\ \A u \in Q : u <= second
    BY <1>1, <1>8, <1>9, MaxOfNaturals
<1>11. PICK third, R : R = {0} \cup (A \cup B) /\ third = Max(R)
    OBVIOUS
<1>12. R \in SUBSET Nat /\ R # {} /\ \A u \in R : u <= n
    BY <1>1, <1>3, <1>11
<1>13. third \in R /\ \A u \in R : u <= third
    BY <1>1, <1>11, <1>12, MaxOfNaturals
<1>14. second \in Nat /\ third \in Nat
    BY <1>9, <1>10, <1>12, <1>13
<1>15. third <= second
    <2>1. first \in Q /\ first <= second
        BY <1>8, <1>10
    <2>2. CASE third \in P
        BY <1>6, <1>7, <1>14, <2>1, <2>2
    <2>3. CASE third \in Q
        BY <1>10, <2>3
    <2> QED BY <1>4, <1>8, <1>11, <1>13, <2>2, <2>3
<1>16. second <= third
    BY <1>4, <1>6, <1>7, <1>8, <1>10, <1>11, <1>13, <1>14
<1>17. second = third
    BY <1>14, <1>15, <1>16
<1> QED BY <1>2, <1>3, <1>4, <1>7, <1>8, <1>11, <1>17 DEF LatestOf, LaterThan

\* Every step keeps the counters of the keys those of their records.
LEMMA KeyCountersStep ==
    ASSUME IHistory, HistoryNext
    PROVE  KeyCountersMatch' /\ calls' \in [Keys -> Nat] /\ lastUsed' \in [Keys -> Nat]
<1>1. /\ IHistoryTypes /\ RecordsInOnePlace /\ KeyCountersMatch
      /\ queue \subseteq Record /\ recorded \subseteq Record /\ keys \subseteq Keys
      /\ calls \in [Keys -> Nat] /\ lastUsed \in [Keys -> Nat] /\ now \in Times
    BY HoursAndDaysAreTimes DEF IHistory, IHistoryTypes
<1>2. IsFiniteSet(recorded)
    BY <1>1, RecordedAreFew
<1>3. ASSUME NEW b \in SUBSET queue, PersistPrimary(b)
      PROVE  KeyCountersMatch' /\ calls' \in [Keys -> Nat] /\ lastUsed' \in [Keys -> Nat]
    <2>1. /\ recorded' = recorded \cup b /\ keys' = keys
          /\ calls' = [k \in Keys |-> calls[k] + Cardinality(Of(k, b))]
          /\ lastUsed' = [k \in Keys |-> Max({lastUsed[k]} \cup {x.at : x \in Of(k, b)})]
        BY <1>3 DEF PersistPrimary, CountCalls
    <2>2. b \in SUBSET Record /\ b \cap recorded = {} /\ (\A x \in b : x.at <= now) /\ \A x \in recorded : x.at <= now
        BY <1>1 DEF RecordsInOnePlace
    <2>3. IsFiniteSet(b)
        BY <1>1, <2>2, DistinctCallsAreFew DEF RecordsInOnePlace, CallsAreDistinct
    <2>4. ASSUME NEW k \in Keys
          PROVE  /\ IsFiniteSet(Of(k, b)) /\ Cardinality(Of(k, b)) \in Nat
                 /\ Cardinality(Of(k, recorded \cup b)) = Cardinality(Of(k, recorded)) + Cardinality(Of(k, b))
        <3>1. PICK A, B : A = Of(k, recorded) /\ B = Of(k, b)
            OBVIOUS
        <3>2. A \in SUBSET recorded /\ B \in SUBSET b /\ A \cap B = {} /\ Of(k, recorded \cup b) = A \cup B
            BY <2>2, <3>1 DEF Of
        <3>3. IsFiniteSet(A) /\ IsFiniteSet(B)
            BY <1>2, <2>3, <3>2, FS_Subset
        <3> QED BY <3>1, <3>2, <3>3, TwoParts
    <2>5. calls' \in [Keys -> Nat]
        <3>1. \A k \in Keys : calls[k] + Cardinality(Of(k, b)) \in Nat
            BY <1>1, <2>4
        <3> QED BY <2>1, <3>1
    <2>6. lastUsed' \in [Keys -> Nat]
        <3>1. ASSUME NEW k \in Keys PROVE Max({lastUsed[k]} \cup {x.at : x \in Of(k, b)}) \in Nat
            <4>1. PICK S : S = {lastUsed[k]} \cup {x.at : x \in Of(k, b)}
                OBVIOUS
            <4>2. now \in Nat /\ lastUsed[k] \in Nat
                BY <1>1, BoundariesAreTimes
            <4>3. PICK n \in Nat : lastUsed[k] <= n /\ now <= n
                BY <4>2
            <4>4. \A x \in Of(k, b) : x.at \in Nat /\ x.at <= n
                <5>1. \A x \in Of(k, b) : x \in Record /\ x.at <= now
                    BY <2>2 DEF Of
                <5> QED BY <4>2, <4>3, <5>1, CallTimes
            <4>5. S \in SUBSET Nat /\ S # {} /\ \A u \in S : u <= n
                BY <4>1, <4>2, <4>3, <4>4
            <4> QED BY <4>1, <4>5, MaxOfNaturals
        <3> QED BY <2>1, <3>1
    <2>7. ASSUME NEW k \in keys
          PROVE  /\ calls'[k] = Cardinality(Of(k, recorded \cup b))
                 /\ lastUsed'[k] = Max({0} \cup {x.at : x \in Of(k, recorded \cup b)})
        <3>1. k \in Keys
            BY <1>1
        <3>2. calls[k] = Cardinality(Of(k, recorded)) /\ lastUsed[k] = LatestOf(k, recorded)
            BY <1>1 DEF KeyCountersMatch, LatestOf
        <3>3. lastUsed'[k] = LaterThan(lastUsed[k], k, b)
            BY <2>1, <3>1 DEF LaterThan
        <3>4. LaterThan(lastUsed[k], k, b) = LatestOf(k, recorded \cup b)
            BY <1>1, <2>2, <3>2, LatestUse
        <3> QED BY <2>1, <2>4, <3>1, <3>2, <3>3, <3>4 DEF LatestOf
    <2> QED BY <2>1, <2>5, <2>6, <2>7 DEF KeyCountersMatch
<1>4. ASSUME NEW k \in Keys, DeleteKey(k)
      PROVE  KeyCountersMatch' /\ calls' \in [Keys -> Nat] /\ lastUsed' \in [Keys -> Nat]
    <2>1. recorded' = recorded \ Of(k, recorded) /\ keys' = keys \ {k} /\ calls' = calls /\ lastUsed' = lastUsed
        BY <1>4 DEF DeleteKey
    <2>2. \A j \in keys \ {k} : Of(j, recorded \ Of(k, recorded)) = Of(j, recorded)
        BY DEF Of
    <2> QED BY <1>1, <2>1, <2>2 DEF KeyCountersMatch
<1>5. ASSUME UNCHANGED <<recorded, keys, calls, lastUsed>>
      PROVE  KeyCountersMatch' /\ calls' \in [Keys -> Nat] /\ lastUsed' \in [Keys -> Nat]
    BY <1>1, <1>5 DEF KeyCountersMatch, Of
<1>6. ASSUME NEW k \in Keys, NEW captured \in BOOLEAN, Call(k, captured)
      PROVE  UNCHANGED <<recorded, keys, calls, lastUsed>>
    BY <1>6 DEF Call, keyVars
<1> QED BY <1>3, <1>4, <1>5, <1>6, RecordActions
-----------------------------------------------------------------------------
(* The usage history: the maintenance pass.                                *)

IPass == PassSearches /\ PassBuckets /\ PassComplete

\* Where the rows of a phase are, and its bucket.
LEMMA PhaseNumbers ==
    ASSUME IHistoryTypes
    PROVE  /\ pass.raw \in Int /\ pass.hourly \in Int /\ pass.daily \in Int /\ pass.from \in Nat
           /\ pass.bucket \subseteq Times
           /\ Compacting => PhaseTimes \subseteq Times /\ PhaseCutoff \in Int
           /\ HourTicks \in Nat \ {0} /\ DayTicks \in Nat \ {0} /\ PhaseTicks \in Nat \ {0}
<1>1. pass \in PassTypes /\ raw \subseteq Record
    BY DEF IHistoryTypes, TableTypes, Now
<1>2. RowsOf(hourly, Hours) \subseteq Times /\ RowsOf(daily, Days) \subseteq Times
    BY HoursAndDaysAreTimes DEF RowsOf
<1>3. {x.at : x \in raw} \subseteq Times
    BY <1>1 DEF Record
<1> QED BY <1>1, <1>2, <1>3, HistoryNumbers DEF PassTypes, Compacting, PhaseTimes, PhaseCutoff, PhaseTicks

\* The oldest row that is found, and its bucket.
LEMMA OldestRow ==
    ASSUME IHistoryTypes, Compacting, NEW old, old = {t \in PhaseTimes : t >= pass.from /\ t < PhaseCutoff}, old # {},
           NEW b, b = PhaseBucket(Min(old))
    PROVE  /\ b \in Times /\ b \in (IF pass.phase = "raw" THEN Hours ELSE Days)
           /\ b < PhaseCutoff /\ \A t \in old : t >= b
<1>1. PhaseTimes \subseteq Times /\ PhaseCutoff \in Int
    BY PhaseNumbers
<1>2. PICK m : m = Min(old) /\ m \in old /\ \A t \in old : m <= t
    <2>1. old \in SUBSET Nat
        BY <1>1, HoursAndDaysAreTimes
    <2> QED BY <2>1, MinOfNaturals
<1>3. m \in Times /\ m < PhaseCutoff
    BY <1>1, <1>2
<1>4. /\ m \in Nat /\ HourOf(m) \in Hours /\ HourOf(m) \in Times /\ DayOf(m) \in Days /\ DayOf(m) \in Times
      /\ HourOf(m) <= m /\ DayOf(m) <= m /\ HourOf(m) \in Int /\ DayOf(m) \in Int
    BY <1>3, BoundariesAreTimes, HourAndDay
<1>5. b = IF pass.phase = "raw" THEN HourOf(m) ELSE DayOf(m)
    BY <1>2 DEF PhaseBucket
<1>6. b \in Int /\ b <= m /\ b \in Times /\ b \in (IF pass.phase = "raw" THEN Hours ELSE Days)
    BY <1>4, <1>5
<1>7. \A t \in old : t \in Int
    BY <1>1, HoursAndDaysAreTimes
<1> QED BY <1>1, <1>2, <1>3, <1>4, <1>6, <1>7

\* What a step that is none of the pass may do to it.
PassKeeps ==
  /\ pass'.phase = pass.phase /\ pass'.bucket = pass.bucket /\ pass'.from = pass.from
  /\ pass'.raw = pass.raw /\ pass'.hourly = pass.hourly /\ pass'.daily = pass.daily
  /\ pass.phase # "idle" => raw' \ pass'.added \subseteq raw \ pass.added
  /\ RowsOf(hourly', Hours) \subseteq RowsOf(hourly, Hours)
  /\ RowsOf(daily', Days) \subseteq RowsOf(daily, Days)
  /\ now' \in Nat /\ now' >= now

\* Records committed meanwhile, deleted keys and the clock do not undo what was searched.
LEMMA PassIsKept ==
    ASSUME IHistoryTypes, IPass, PassKeeps
    PROVE  IPass'
<1>1. pass.phase # "idle" => {x.at : x \in raw' \ pass'.added} \subseteq {x.at : x \in raw \ pass.added}
    BY DEF PassKeeps
<1>2. PassSearches'
    BY <1>1 DEF PassKeeps, IPass, PassSearches, Searched
<1>3. PassComplete'
    BY DEF PassKeeps, IPass, PassComplete
<1>4. PassBuckets'
    <2>1. pass.phase # "idle" => pass.daily <= DayOf(now' - DailyRetention)
        <3> SUFFICES ASSUME pass.phase # "idle" PROVE pass.daily <= DayOf(now' - DailyRetention)
            OBVIOUS
        <3>1. now \in Nat /\ now' \in Nat /\ now <= now'
            BY HoursAndDaysAreTimes DEF PassKeeps, IHistoryTypes
        <3>2. PICK m \in Nat, n \in Nat : m = now /\ n = now' /\ m <= n
            BY <3>1
        <3>3. /\ DayOf(m - DailyRetention) \in Int /\ DayOf(n - DailyRetention) \in Int
              /\ DayOf(m - DailyRetention) <= DayOf(n - DailyRetention)
            BY <3>2, RetentionMoves
        <3>4. pass.daily <= DayOf(m - DailyRetention) /\ pass.daily \in Int
            BY <3>2, PhaseNumbers DEF IPass, PassBuckets
        <3>5. pass.daily <= DayOf(n - DailyRetention)
            BY <3>3, <3>4
        <3> QED BY <3>2, <3>5
    <2> QED BY <2>1 DEF PassKeeps, IPass, PassBuckets, Compacting
<1> QED BY <1>2, <1>3, <1>4 DEF IPass

\* Nothing is known of the tables between passes.
LEMMA IdleAgain ==
    ASSUME pass' = Idle
    PROVE  IPass'
<1>1. pass'.phase = "idle" /\ pass'.bucket = {}
    BY DEF Idle
<1>2. Cardinality(pass'.bucket) <= 1
    BY <1>1, FS_EmptySet
<1> QED BY <1>1, <1>2 DEF IPass, PassSearches, PassBuckets, PassComplete

\* The pass begins at the oldest rows.
LEMMA StartPassSearches ==
    ASSUME IHistoryTypes, IPass, StartPass
    PROVE  IPass'
<1>1. /\ pass'.phase = "raw" /\ pass'.from = 0 /\ pass'.bucket = {} /\ pass'.daily = DayOf(now - DailyRetention)
      /\ raw' = raw /\ now' = now
    BY DEF StartPass, Idle, usageVars
<1>2. Cardinality({}) = 0 /\ \A x \in raw : x.at \in Nat
    BY FS_EmptySet, CallTimes DEF IHistoryTypes, TableTypes, Now
<1>3. DayOf(now - DailyRetention) \in Int
    BY HistoryNumbers, HoursAndDaysAreTimes, HourAndDay DEF IHistoryTypes
<1>4. PassSearches'
    BY <1>1, <1>2 DEF PassSearches, Searched
<1>5. PassBuckets'
    BY <1>1, <1>2, <1>3 DEF PassBuckets, Compacting
<1>6. PassComplete'
    BY <1>1 DEF PassComplete
<1> QED BY <1>4, <1>5, <1>6 DEF IPass

\* A phase ends when nothing old is left, or goes to its oldest row.
LEMMA FindBucketSearches ==
    ASSUME IHistoryTypes, IPass, FindBucket
    PROVE  IPass'
<1>1. PICK old : old = {t \in PhaseTimes : t >= pass.from /\ t < PhaseCutoff}
    OBVIOUS
<1>2. /\ Compacting /\ pass.bucket = {} /\ pass \in PassTypes
      /\ pass' = IF old = {} THEN [pass EXCEPT !.phase = NextPhase, !.from = 0]
                 ELSE [pass EXCEPT !.bucket = {PhaseBucket(Min(old))}]
      /\ UNCHANGED <<raw, hourly, daily, now>>
    BY <1>1 DEF FindBucket, usageVars, IHistoryTypes
<1>3. /\ PhaseTimes \subseteq Times /\ PhaseCutoff \in Int /\ pass.from \in Nat /\ Times \subseteq Nat
      /\ RowsOf(hourly, Hours) \subseteq Nat /\ RowsOf(daily, Days) \subseteq Nat
    BY <1>2, PhaseNumbers, HoursAndDaysAreTimes DEF RowsOf
<1>4. pass.phase \in {"raw", "hourly", "daily"}
    BY <1>2 DEF Compacting
<1>5. Cardinality({}) = 0
    BY FS_EmptySet
<1>6. CASE old = {}
    <2>1. /\ pass'.phase = NextPhase /\ pass'.from = 0 /\ pass'.bucket = {} /\ pass'.added = pass.added
          /\ pass'.raw = pass.raw /\ pass'.hourly = pass.hourly /\ pass'.daily = pass.daily
        BY <1>2, <1>6 DEF PassTypes
    <2>2. \A t \in PhaseTimes : t \in Nat /\ (t >= PhaseCutoff \/ ~(t >= pass.from))
        BY <1>1, <1>3, <1>6
    <2>3. PassSearches'
        BY <1>2, <1>3, <1>4, <2>1 DEF PassSearches, Searched, NextPhase
    <2>4. PassBuckets'
        BY <1>2, <1>4, <1>5, <2>1 DEF PassBuckets, IPass
    <2>5. PassComplete'
        <3>1. CASE pass.phase = "raw"
            <4>1. \A x \in raw : x.at \in PhaseTimes
                BY <3>1 DEF PhaseTimes
            <4>2. \A x \in raw \ pass.added : x.at >= pass.raw
                BY <1>2, <2>2, <3>1, <4>1 DEF IPass, PassSearches, Searched, PhaseCutoff
            <4> QED BY <1>2, <2>1, <3>1, <4>2 DEF PassComplete, NextPhase
        <3>2. CASE pass.phase = "hourly"
            <4>1. \A h \in RowsOf(hourly, Hours) : h >= pass.hourly
                BY <1>2, <2>2, <3>2 DEF IPass, PassSearches, Searched, PhaseCutoff, PhaseTimes
            <4> QED BY <1>2, <2>1, <3>2, <4>1 DEF IPass, PassComplete, NextPhase
        <3>3. CASE pass.phase = "daily"
            <4>1. \A d \in RowsOf(daily, Days) : d >= pass.daily
                BY <1>2, <2>2, <3>3 DEF IPass, PassSearches, Searched, PhaseCutoff, PhaseTimes
            <4> QED BY <1>2, <2>1, <3>3, <4>1 DEF IPass, PassComplete, NextPhase
        <3> QED BY <1>4, <3>1, <3>2, <3>3
    <2> QED BY <2>3, <2>4, <2>5 DEF IPass
<1>7. CASE old # {}
    <2>1. PICK b : b = PhaseBucket(Min(old))
        OBVIOUS
    <2>2. /\ b \in Times /\ b \in (IF pass.phase = "raw" THEN Hours ELSE Days)
          /\ b < PhaseCutoff /\ \A t \in old : t >= b
        BY <1>1, <1>2, <1>7, <2>1, OldestRow
    <2>3. /\ pass'.phase = pass.phase /\ pass'.from = pass.from /\ pass'.bucket = {b} /\ pass'.added = pass.added
          /\ pass'.raw = pass.raw /\ pass'.hourly = pass.hourly /\ pass'.daily = pass.daily
        BY <1>2, <1>7, <2>1 DEF PassTypes
    <2>4. \A t \in PhaseTimes : t >= PhaseCutoff \/ ~(t >= pass.from) \/ t >= b
        BY <1>1, <1>3, <2>2
    <2>5. PassSearches'
        <3>1. CASE pass.phase = "raw"
            <4>1. \A t \in {x.at : x \in raw \ pass.added} : t \in PhaseTimes
                BY <3>1 DEF PhaseTimes
            <4> QED BY <1>2, <2>3, <2>4, <3>1, <4>1 DEF IPass, PassSearches, Searched, PhaseCutoff
        <3>2. CASE pass.phase = "hourly"
            BY <1>2, <2>3, <2>4, <3>2 DEF IPass, PassSearches, Searched, PhaseCutoff, PhaseTimes
        <3>3. CASE pass.phase = "daily"
            BY <1>2, <2>3, <2>4, <3>3 DEF IPass, PassSearches, Searched, PhaseCutoff, PhaseTimes
        <3> QED BY <1>4, <3>1, <3>2, <3>3
    <2>6. PassBuckets'
        <3>1. Cardinality({b}) = 1
            BY FS_Singleton
        <3> QED BY <1>2, <1>4, <2>2, <2>3, <3>1 DEF PassBuckets, IPass, Compacting, PhaseCutoff
    <2>7. PassComplete'
        BY <1>2, <2>3 DEF IPass, PassComplete
    <2> QED BY <2>5, <2>6, <2>7 DEF IPass
<1> QED BY <1>6, <1>7

\* A bucket that is worked off is empty, and the search goes on behind it.
LEMMA RawBucketSearches ==
    ASSUME IHistoryTypes, IPass, CompactBucket, pass.phase = "raw"
    PROVE  IPass'
<1>1. PICK b \in pass.bucket : CompactRawUsageHour(b) /\ pass' = [pass EXCEPT !.from = SearchOn(b), !.bucket = {}]
    BY DEF CompactBucket
<1>2. b \in Hours /\ b \in Nat /\ HourTicks \in Nat \ {0} /\ pass.from \in Nat /\ pass.raw \in Int /\ pass \in PassTypes
    BY HoursAndDaysAreTimes, HistoryNumbers, PhaseNumbers DEF IPass, PassBuckets, IHistoryTypes
<1>3. /\ pass'.phase = "raw" /\ pass'.bucket = {} /\ pass'.from = b + HourTicks /\ pass'.raw = pass.raw
      /\ pass'.daily = pass.daily /\ pass'.added = pass.added
    BY <1>1, <1>2 DEF PassTypes, SearchOn, PhaseTicks
<1>4. raw' = {x \in raw : ~(x.at >= b /\ x.at < b + HourTicks)} /\ now' = now
    BY <1>1 DEF CompactRawUsageHour, CompactBucket
<1>5. PassSearches'
    <2>1. ASSUME NEW x \in raw' \ pass'.added PROVE x.at >= pass.raw \/ x.at >= b + HourTicks
        <3>1. x \in raw \ pass.added /\ x \in Record /\ ~(x.at >= b /\ x.at < b + HourTicks)
            BY <1>3, <1>4 DEF IHistoryTypes, TableTypes, Now
        <3>2. x.at \in Nat
            BY <3>1, CallTimes
        <3>3. x.at >= pass.raw \/ x.at >= b
            BY <1>1, <3>1 DEF IPass, PassSearches, Searched
        <3> QED BY <1>2, <3>1, <3>2, <3>3
    <2> QED BY <1>3, <2>1 DEF PassSearches, Searched
<1>6. Cardinality({}) = 0 /\ PassBuckets'
    BY <1>3, <1>4, FS_EmptySet DEF IPass, PassBuckets
<1>7. PassComplete'
    BY <1>3 DEF PassComplete
<1> QED BY <1>5, <1>6, <1>7 DEF IPass

\* A day of hourly rows is worked off.
LEMMA HourlyBucketSearches ==
    ASSUME IHistoryTypes, IPass, CompactBucket, pass.phase = "hourly"
    PROVE  IPass'
<1>1. PICK b \in pass.bucket : CompactHourlyUsageDay(b) /\ pass' = [pass EXCEPT !.from = SearchOn(b), !.bucket = {}]
    BY DEF CompactBucket
<1>2. b \in Days /\ b \in Nat /\ DayTicks \in Nat \ {0} /\ pass.from \in Nat /\ pass.hourly \in Int /\ pass \in PassTypes
    BY HoursAndDaysAreTimes, HistoryNumbers, PhaseNumbers DEF IPass, PassBuckets, IHistoryTypes
<1>3. /\ pass'.phase = "hourly" /\ pass'.bucket = {} /\ pass'.from = b + DayTicks /\ pass'.hourly = pass.hourly
      /\ pass'.daily = pass.daily /\ pass'.added = pass.added /\ pass'.raw = pass.raw
    BY <1>1, <1>2 DEF PassTypes, SearchOn, PhaseTicks
<1>4. /\ hourly' = [k \in Keys |-> [h \in Hours |->
                      IF h \in {g \in Hours : g >= b /\ g < b + DayTicks} THEN 0 ELSE hourly[k][h]]]
      /\ raw' = raw /\ now' = now
    BY <1>1 DEF CompactHourlyUsageDay, CompactBucket
<1>5. PassSearches'
    <2>1. ASSUME NEW h \in RowsOf(hourly', Hours) PROVE h >= pass.hourly \/ h >= b + DayTicks
        <3>1. h \in Hours /\ h \in Nat
            BY HoursAndDaysAreTimes DEF RowsOf
        <3>2. PICK k \in Keys : hourly'[k][h] > 0
            BY DEF RowsOf
        <3>3. ~(h >= b /\ h < b + DayTicks) /\ hourly[k][h] > 0
            BY <1>4, <3>1, <3>2
        <3>4. h \in RowsOf(hourly, Hours)
            BY <3>1, <3>3 DEF RowsOf
        <3>5. h >= pass.hourly \/ h >= b
            BY <1>1, <3>4 DEF IPass, PassSearches, Searched
        <3> QED BY <1>2, <3>1, <3>3, <3>5
    <2> QED BY <1>3, <2>1 DEF PassSearches, Searched
<1>6. Cardinality({}) = 0 /\ PassBuckets'
    BY <1>3, <1>4, FS_EmptySet DEF IPass, PassBuckets
<1>7. PassComplete'
    BY <1>3, <1>4 DEF IPass, PassComplete
<1> QED BY <1>5, <1>6, <1>7 DEF IPass

\* A day of the last retention is deleted.
LEMMA DailyBucketSearches ==
    ASSUME IHistoryTypes, IPass, CompactBucket, pass.phase = "daily"
    PROVE  IPass'
<1>1. PICK b \in pass.bucket : DeleteDailyUsageDay(b) /\ pass' = [pass EXCEPT !.from = SearchOn(b), !.bucket = {}]
    BY DEF CompactBucket
<1>2. b \in Days /\ b \in Nat /\ DayTicks \in Nat \ {0} /\ pass.from \in Nat /\ pass.daily \in Int /\ pass \in PassTypes
    BY HoursAndDaysAreTimes, HistoryNumbers, PhaseNumbers DEF IPass, PassBuckets, IHistoryTypes
<1>3. /\ pass'.phase = "daily" /\ pass'.bucket = {} /\ pass'.from = b + DayTicks /\ pass'.hourly = pass.hourly
      /\ pass'.daily = pass.daily /\ pass'.added = pass.added /\ pass'.raw = pass.raw
    BY <1>1, <1>2 DEF PassTypes, SearchOn, PhaseTicks
<1>4. /\ daily' = [k \in Keys |-> [daily[k] EXCEPT ![b] = 0]] /\ daily \in [Keys -> [Days -> Nat]]
      /\ raw' = raw /\ hourly' = hourly /\ now' = now
    BY <1>1 DEF DeleteDailyUsageDay, CompactBucket, IHistoryTypes, TableTypes, Now
<1>5. PassSearches'
    <2>1. ASSUME NEW d \in RowsOf(daily', Days) PROVE d >= pass.daily \/ d >= b + DayTicks
        <3>1. d \in Days /\ d \in Times /\ d \in Nat /\ DayOf(d) = d
            BY HoursAndDaysAreTimes DEF RowsOf
        <3>2. PICK k \in Keys : daily'[k][d] > 0
            BY DEF RowsOf
        <3>3. d # b /\ daily[k][d] > 0
            BY <1>2, <1>4, <3>1, <3>2
        <3>4. d \in RowsOf(daily, Days)
            BY <3>1, <3>3 DEF RowsOf
        <3>5. d >= pass.daily \/ d >= b
            BY <1>1, <3>4 DEF IPass, PassSearches, Searched
        <3>6. ~(d >= b /\ d < b + DayTicks)
            BY <1>2, <3>1, <3>3, OfTheBucket
        <3> QED BY <1>2, <3>1, <3>5, <3>6
    <2> QED BY <1>3, <2>1 DEF PassSearches, Searched
<1>6. Cardinality({}) = 0 /\ PassBuckets'
    BY <1>3, <1>4, FS_EmptySet DEF IPass, PassBuckets
<1>7. PassComplete'
    BY <1>3, <1>4 DEF IPass, PassComplete
<1> QED BY <1>5, <1>6, <1>7 DEF IPass

\* What a step does to the pass.
LEMMA PassActions ==
    ASSUME HistoryNext
    PROVE  \/ \E b \in SUBSET queue : PersistPrimary(b)
           \/ \E k \in Keys : DeleteKey(k)
           \/ Tick \/ StartPass \/ FindBucket \/ CompactBucket
           \/ pass' = Idle
           \/ UNCHANGED <<raw, hourly, daily, now, pass>>
BY DEF HistoryNext, HistoryStep, WriterNext, PassNext, ReaderNext, usageVars, Call, PrimaryFails, ReserveDebug,
       FindExistingKeys, InsertDebug, DebugFails, CleanDebug, CleanDebugFails,
       DeleteOldDebug, PassFails, StatsBegin, StatsSnapshot, StatsRollups, StatsLoadDebug, StatsFails, Restart

\* Every step keeps to what the pass has searched.
LEMMA PassStep ==
    ASSUME IHistory, HistoryNext
    PROVE  IPass'
<1>1. /\ IHistoryTypes /\ IPass /\ now \in Nat /\ pass \in PassTypes
      /\ hourly \in [Keys -> [Hours -> Nat]] /\ daily \in [Keys -> [Days -> Nat]]
    BY HoursAndDaysAreTimes DEF IHistory, IHistoryTypes, IPass, TableTypes, Now
<1>2. ASSUME NEW b \in SUBSET queue, PersistPrimary(b) PROVE IPass'
    <2>1. /\ raw' = raw \cup b /\ hourly' = hourly /\ daily' = daily /\ now' = now
          /\ pass' = [pass EXCEPT !.added = @ \cup (IF pass.phase = "idle" THEN {} ELSE b)]
        BY <1>2 DEF PersistPrimary
    <2>2. PassKeeps
        BY <1>1, <2>1 DEF PassKeeps, PassTypes
    <2> QED BY <1>1, <2>2, PassIsKept
<1>3. ASSUME NEW k \in Keys, DeleteKey(k) PROVE IPass'
    <2>1. /\ raw' \subseteq raw /\ now' = now /\ pass' = pass
          /\ hourly' = [hourly EXCEPT ![k] = [b \in Hours |-> 0]]
          /\ daily' = [daily EXCEPT ![k] = [b \in Days |-> 0]]
        BY <1>3 DEF DeleteKey
    <2>2. RowsOf(hourly', Hours) \subseteq RowsOf(hourly, Hours) /\ RowsOf(daily', Days) \subseteq RowsOf(daily, Days)
        BY <1>1, <2>1 DEF RowsOf
    <2>3. now' \in Nat /\ now' >= now
        BY <1>1, <2>1
    <2>4. raw' \ pass'.added \subseteq raw \ pass.added
        BY <2>1
    <2>5. PassKeeps
        BY <2>1, <2>2, <2>3, <2>4 DEF PassKeeps
    <2> QED BY <1>1, <2>5, PassIsKept
<1>4. CASE Tick
    <2>1. now' = now + 1 /\ UNCHANGED <<raw, hourly, daily, pass>>
        BY <1>4 DEF Tick, usageVars
    <2>2. PassKeeps
        BY <1>1, <2>1 DEF PassKeeps
    <2> QED BY <1>1, <2>2, PassIsKept
<1>5. CASE StartPass
    BY <1>1, <1>5, StartPassSearches
<1>6. CASE FindBucket
    BY <1>1, <1>6, FindBucketSearches
<1>7. CASE CompactBucket
    <2>1. pass.phase \in {"raw", "hourly", "daily"}
        BY <1>7 DEF CompactBucket
    <2> QED BY <1>1, <1>7, <2>1, RawBucketSearches, HourlyBucketSearches, DailyBucketSearches
<1>8. CASE pass' = Idle
    BY <1>8, IdleAgain
<1>9. CASE UNCHANGED <<raw, hourly, daily, now, pass>>
    <2>1. PassKeeps
        BY <1>1, <1>9 DEF PassKeeps
    <2> QED BY <1>1, <2>1, PassIsKept
<1> QED BY <1>2, <1>3, <1>4, <1>5, <1>6, <1>7, <1>8, <1>9, PassActions
-----------------------------------------------------------------------------
(* The usage history: debug rows, views and types.                         *)

\* What a step does to the debug rows and to those that know of them.
LEMMA DebugActions ==
    ASSUME HistoryNext
    PROVE  \/ \E k \in Keys : DeleteKey(k) \/ CleanDebug(k) \/ CleanDebugFails(k)
           \/ FindExistingKeys \/ InsertDebug \/ Restart
           \/ /\ debug' \subseteq debug /\ UNCHANGED <<keys, deleting, leftover>>
              /\ writer'.phase = "checked" => writer' = writer
<1>1. CASE DeleteOldDebug
    BY <1>1 DEF DeleteOldDebug, keyVars
<1>2. ASSUME NEW b \in SUBSET queue, PersistPrimary(b) \/ PrimaryFails(b)
      PROVE  /\ UNCHANGED <<debug, keys, deleting, leftover>>
             /\ writer'.phase = "checked" => writer' = writer
    BY <1>2 DEF PersistPrimary, PrimaryFails, keyVars, NoBatch
<1>3. CASE DebugFails
    BY <1>3 DEF DebugFails, NoBatch, keyVars
<1>4. ASSUME ReserveDebug
      PROVE  /\ UNCHANGED <<debug, keys, deleting, leftover>>
             /\ writer'.phase # "checked"
    BY <1>4 DEF ReserveDebug, keyVars
<1> QED BY <1>1, <1>2, <1>3, <1>4 DEF HistoryNext, HistoryStep, WriterNext, PassNext, ReaderNext, keyVars, Call,
       StartPass, FindBucket, CompactBucket, PassFails, StatsBegin, StatsSnapshot, StatsRollups, StatsLoadDebug, StatsFails, Tick

\* Every step keeps a debug row with a key that exists or whose deletion is due or failed.
LEMMA DebugStep ==
    ASSUME IHistory, HistoryNext
    PROVE  CheckedKeys' /\ DebugOfDeletedKeysGone'
<1>1. CheckedKeys /\ DebugOfDeletedKeysGone /\ writer \in WriterTypes /\ deleting \subseteq Keys
    BY DEF IHistory, IHistoryTypes
<1>2. ASSUME NEW k \in Keys, DeleteKey(k) PROVE CheckedKeys' /\ DebugOfDeletedKeysGone'
    <2>1. keys' = keys \ {k} /\ deleting' = deleting \cup {k} /\ UNCHANGED <<writer, debug, leftover>>
        BY <1>2 DEF DeleteKey
    <2> QED BY <1>1, <2>1 DEF CheckedKeys, DebugOfDeletedKeysGone
<1>3. ASSUME NEW k \in Keys, CleanDebug(k) PROVE CheckedKeys' /\ DebugOfDeletedKeysGone'
    <2>1. /\ debug' = debug \ Of(k, debug) /\ deleting' = deleting \ {k} /\ UNCHANGED <<writer, keys, leftover>>
          /\ writer.phase # "checked"
        BY <1>3 DEF CleanDebug, DebugFree, keyVars
    <2> QED BY <1>1, <2>1 DEF CheckedKeys, DebugOfDeletedKeysGone, Of
<1>4. ASSUME NEW k \in Keys, CleanDebugFails(k) PROVE CheckedKeys' /\ DebugOfDeletedKeysGone'
    <2>1. deleting' = deleting \ {k} /\ leftover' = leftover \cup {k} /\ UNCHANGED <<writer, keys, debug>>
        BY <1>4 DEF CleanDebugFails, keyVars
    <2> QED BY <1>1, <2>1 DEF CheckedKeys, DebugOfDeletedKeysGone
<1>5. CASE FindExistingKeys
    <2>1. /\ writer' = [phase |-> "checked", records |-> {x \in writer.records : x.key \in keys}]
          /\ UNCHANGED <<keys, debug, deleting, leftover>>
        BY <1>5 DEF FindExistingKeys, keyVars
    <2> QED BY <1>1, <2>1 DEF CheckedKeys, DebugOfDeletedKeysGone
<1>6. CASE InsertDebug
    <2>1. /\ writer.phase = "checked" /\ debug' = debug \cup writer.records /\ writer'.phase = "idle"
          /\ UNCHANGED <<keys, deleting, leftover>>
        BY <1>6 DEF InsertDebug, NoBatch, keyVars
    <2> QED BY <1>1, <2>1 DEF CheckedKeys, DebugOfDeletedKeysGone
<1>7. CASE Restart
    <2>1. /\ writer'.phase = "idle" /\ deleting' = {} /\ leftover' = leftover \cup deleting
          /\ UNCHANGED <<keys, debug>>
        BY <1>7 DEF Restart, NoBatch, keyVars
    <2> QED BY <1>1, <2>1 DEF CheckedKeys, DebugOfDeletedKeysGone
<1>8. CASE /\ debug' \subseteq debug /\ UNCHANGED <<keys, deleting, leftover>>
           /\ writer'.phase = "checked" => writer' = writer
    BY <1>1, <1>8 DEF CheckedKeys, DebugOfDeletedKeysGone
<1> QED BY <1>2, <1>3, <1>4, <1>5, <1>6, <1>7, <1>8, DebugActions

\* What a step does to the requests for statistics.
LEMMA ViewActions ==
    ASSUME HistoryNext
    PROVE  \/ \E r \in Readers : \/ \E since \in Sinces : StatsBegin(r, since)
                                 \/ StatsSnapshot(r)
                                 \/ view' = [view EXCEPT ![r] = [NoView EXCEPT !.phase = "load"]]
                                 \/ view' = [view EXCEPT ![r] = NoView]
           \/ view' = [r \in Readers |-> NoView]
           \/ view' = view
BY DEF HistoryNext, HistoryStep, WriterNext, PassNext, ReaderNext, Call, PersistPrimary, PrimaryFails, ReserveDebug,
       FindExistingKeys, InsertDebug, DebugFails, DeleteKey, CleanDebug, CleanDebugFails, StartPass, FindBucket,
       CompactBucket, DeleteOldDebug, PassFails, StatsRollups, StatsLoadDebug, StatsFails, Tick, Restart

\* Nothing is read yet.
LEMMA NothingIsRead ==
    /\ NoView \in ViewTypes /\ [NoView EXCEPT !.phase = "load"] \in ViewTypes
    /\ NoView.phase = "idle" /\ [NoView EXCEPT !.phase = "load"].phase = "load"
    /\ NoTables \in TableTypes
<1>1. NoTables \in TableTypes
    BY DEF NoTables, NoRows, TableTypes
<1>2. 0 \in Times
    BY HistoryNumbers DEF Times
<1>3. PICK t \in TableTypes : t = NoTables
    BY <1>1
<1>4. NoView = [phase |-> "idle", since |-> 0, end |-> 0, taken |-> 0, tables |-> t,
                total |-> 0, exact |-> {}]
    BY <1>3 DEF NoView
<1> QED BY <1>1, <1>2, <1>4 DEF ViewTypes

\* Every step keeps what a request has read one state of the tables.
LEMMA ViewsStep ==
    ASSUME IHistory, HistoryNext
    PROVE  ViewsAreSnapshots' /\ view' \in [Readers -> ViewTypes]
<1>1. /\ IHistoryTypes /\ RecordsInOnePlace /\ Placed(Now, recorded, now) /\ ViewsAreSnapshots
      /\ view \in [Readers -> ViewTypes] /\ recorded \in SUBSET Record /\ now \in Times /\ Now \in TableTypes
    BY DEF IHistory, IHistoryTypes
<1>2. ASSUME NEW r \in Readers, StatsSnapshot(r)
      PROVE  ViewsAreSnapshots' /\ view' \in [Readers -> ViewTypes]
    <2>0. PICK since \in Times, end \in Times : since = view[r].since /\ end = view[r].end
        BY <1>1 DEF ViewTypes
    <2>1. PICK v : v = [phase |-> "rollups", since |-> since, end |-> end, taken |-> now, tables |-> Now,
                        total |-> Cardinality({x \in raw : x.at >= since}),
                        exact |-> {x \in recorded : x.at >= DayOf(since)}]
        OBVIOUS
    <2>2. view' = [view EXCEPT ![r] = v]
        BY <1>1, <1>2, <2>0, <2>1 DEF StatsSnapshot, Now
    <2>3. Cardinality({x \in raw : x.at >= since}) \in Nat
        <3>1. {x \in raw : x.at >= since} \in SUBSET recorded
            BY <1>1 DEF Placed, Split, Now
        <3> QED BY <1>1, <3>1, RecordedAreFew, FS_Subset, FS_CardinalityType
    <2>5. v \in ViewTypes
        BY <1>1, <2>1, <2>3 DEF ViewTypes
    <2>6. SnapshotOf(v, recorded)
        <3>1. v.tables = Now /\ v.taken = now /\ v.since = since
            BY <2>1
        <3>2. Placed(v.tables, recorded, v.taken)
            BY <1>1, <3>1
        <3>3. CallsAreDistinct(recorded)
            BY <1>1 DEF RecordsInOnePlace, CallsAreDistinct
        <3>4. v.total = Cardinality({x \in v.tables.raw : x.at >= v.since})
            BY <2>1 DEF Now
        <3>5. v.exact = {x \in recorded : x.at >= DayOf(v.since)}
            BY <2>1
        <3> QED BY <3>2, <3>3, <3>4, <3>5 DEF SnapshotOf
    <2>7. view' \in [Readers -> ViewTypes]
        BY <1>1, <2>2, <2>5
    <2>8. ASSUME NEW s \in Readers, view'[s].phase = "rollups" PROVE \E all \in SUBSET Record : SnapshotOf(view'[s], all)
        <3>1. CASE s = r
            BY <1>1, <2>2, <2>6, <3>1
        <3>2. CASE s # r
            BY <1>1, <2>2, <2>8, <3>2 DEF ViewsAreSnapshots
        <3> QED BY <3>1, <3>2
    <2>9. ViewsAreSnapshots'
        BY <2>8 DEF ViewsAreSnapshots, SnapshotOf
    <2> QED BY <2>7, <2>9
<1>3. ASSUME NEW r \in Readers, NEW v \in ViewTypes, v.phase # "rollups", view' = [view EXCEPT ![r] = v]
      PROVE  ViewsAreSnapshots' /\ view' \in [Readers -> ViewTypes]
    <2>1. \A s \in Readers : view'[s].phase = "rollups" => view'[s] = view[s]
        BY <1>1, <1>3
    <2> QED BY <1>1, <1>3, <2>1 DEF ViewsAreSnapshots
<1>4. CASE view' = [r \in Readers |-> NoView]
    BY <1>4, NothingIsRead DEF ViewsAreSnapshots
<1>5. CASE view' = view
    BY <1>1, <1>5 DEF ViewsAreSnapshots
<1>6. ASSUME NEW r \in Readers, NEW since \in Sinces, StatsBegin(r, since)
      PROVE  ViewsAreSnapshots' /\ view' \in [Readers -> ViewTypes]
    <2>1. PICK v : v = [NoView EXCEPT !.phase = "begun", !.since = since, !.end = now]
        OBVIOUS
    <2>2. v \in ViewTypes /\ v.phase = "begun"
        BY <1>1, <2>1, NothingIsRead, HistoryNumbers DEF ViewTypes
    <2>3. view' = [view EXCEPT ![r] = v]
        BY <1>6, <2>1 DEF StatsBegin
    <2> QED BY <1>3, <2>2, <2>3
<1> QED BY <1>2, <1>3, <1>4, <1>5, <1>6, ViewActions, NothingIsRead

\* The last use of a key is a time.
LEMMA LastUseIsATime ==
    ASSUME IHistory, HistoryNext
    PROVE  lastUsed' \in [Keys -> Times]
<1>1. /\ lastUsed \in [Keys -> Times] /\ queue \subseteq Record /\ Times \subseteq Nat
    BY HoursAndDaysAreTimes DEF IHistory, IHistoryTypes
<1>2. ASSUME NEW b \in SUBSET queue, PersistPrimary(b) PROVE lastUsed' \in [Keys -> Times]
    <2>1. lastUsed' = [k \in Keys |-> Max({lastUsed[k]} \cup {x.at : x \in Of(k, b)})]
        BY <1>2 DEF PersistPrimary, CountCalls
    <2>2. ASSUME NEW k \in Keys PROVE Max({lastUsed[k]} \cup {x.at : x \in Of(k, b)}) \in Times
        <3>1. PICK S : S = {lastUsed[k]} \cup {x.at : x \in Of(k, b)}
            OBVIOUS
        <3>2. S \subseteq Times
            BY <1>1, <3>1, CallTimes DEF Of
        <3>3. S \in SUBSET Nat /\ S # {} /\ MaxTime \in Nat /\ \A u \in S : u <= MaxTime
            BY <1>1, <3>1, <3>2, BoundariesAreTimes, HistoryNumbers
        <3>4. Max(S) \in S
            BY <3>3, MaxOfNaturals
        <3> QED BY <3>1, <3>2, <3>4
    <2> QED BY <2>1, <2>2
<1>3. ASSUME UNCHANGED lastUsed PROVE lastUsed' \in [Keys -> Times]
    BY <1>1, <1>3
<1>4. ASSUME NEW k \in Keys, NEW captured \in BOOLEAN, Call(k, captured) PROVE UNCHANGED lastUsed
    BY <1>4 DEF Call, keyVars
<1>5. ASSUME NEW k \in Keys, DeleteKey(k) PROVE UNCHANGED lastUsed
    BY <1>5 DEF DeleteKey
<1> QED BY <1>2, <1>3, <1>4, <1>5, RecordActions

\* The clock, the calls and what is queued and committed.
LEMMA RecordTypes ==
    ASSUME IHistory, HistoryNext
    PROVE  /\ now' \in Times /\ made' \in 0 .. MaxRecords /\ keys' \subseteq keys
           /\ queue' \subseteq Record /\ recorded' \subseteq Record
<1>1. /\ now \in Times /\ made \in 0 .. MaxRecords /\ keys \subseteq Keys
      /\ queue \subseteq Record /\ recorded \subseteq Record /\ MaxRecords \in Nat /\ MaxTime \in Nat
    BY HistoryNumbers DEF IHistory, IHistoryTypes
<1>2. ASSUME NEW k \in Keys, NEW captured \in BOOLEAN, Call(k, captured)
      PROVE  /\ made' \in 0 .. MaxRecords /\ queue' \subseteq Record /\ UNCHANGED <<recorded, keys, now>>
    <2>1. /\ made < MaxRecords /\ made' = made + 1 /\ UNCHANGED <<recorded, keys, now>>
          /\ queue' = queue \cup {[id |-> made + 1, key |-> k, at |-> now, debug |-> captured]}
        BY <1>2 DEF Call, keyVars
    <2>2. made + 1 \in 1 .. MaxRecords
        BY <1>1, <2>1
    <2> QED BY <1>1, <2>1, <2>2 DEF Record
<1>3. ASSUME NEW b \in SUBSET queue, PersistPrimary(b)
      PROVE  queue' \subseteq queue /\ recorded' \subseteq recorded \cup queue /\ UNCHANGED <<made, keys, now>>
    BY <1>3 DEF PersistPrimary
<1>4. ASSUME NEW k \in Keys, DeleteKey(k)
      PROVE  queue' = queue /\ recorded' \subseteq recorded /\ keys' \subseteq keys /\ UNCHANGED <<made, now>>
    BY <1>4 DEF DeleteKey
<1>5. CASE Tick
    <2>1. now < MaxTime /\ now' = now + 1 /\ UNCHANGED <<made, keys, queue, recorded>>
        BY <1>5 DEF Tick, keyVars
    <2>2. now' \in Times
        BY <1>1, <2>1 DEF Times
    <2> QED BY <1>1, <2>1, <2>2
<1>6. CASE queue' \subseteq queue /\ UNCHANGED <<recorded, made, keys>> /\ now' = now
    BY <1>1, <1>6
<1>7. now' = now \/ Tick
    BY TableActions DEF PersistPrimary, DeleteKey, CompactBucket
<1> QED BY <1>1, <1>2, <1>3, <1>4, <1>5, <1>6, <1>7, RecordActions

\* The keys that are gone: their debug rows are due or could not be deleted.
LEMMA DeletedTypes ==
    ASSUME IHistory, HistoryNext
    PROVE  /\ debug' \subseteq Record
           /\ deleting' \subseteq Keys \ keys' /\ leftover' \subseteq Keys \ keys'
<1>1. /\ debug \subseteq Record /\ deleting \subseteq Keys \ keys /\ leftover \subseteq Keys \ keys
      /\ writer \in WriterTypes /\ keys \subseteq Keys
    BY DEF IHistory, IHistoryTypes
<1>2. ASSUME NEW k \in Keys, DeleteKey(k)
      PROVE  keys' = keys \ {k} /\ deleting' = deleting \cup {k} /\ UNCHANGED <<debug, leftover>> /\ k \in keys
    BY <1>2 DEF DeleteKey
<1>3. ASSUME NEW k \in Keys, CleanDebug(k)
      PROVE  debug' \subseteq debug /\ deleting' \subseteq deleting /\ UNCHANGED <<keys, leftover>>
    BY <1>3 DEF CleanDebug, keyVars
<1>4. ASSUME NEW k \in Keys, CleanDebugFails(k)
      PROVE  k \in deleting /\ deleting' \subseteq deleting /\ leftover' = leftover \cup {k} /\ UNCHANGED <<keys, debug>>
    BY <1>4 DEF CleanDebugFails, keyVars
<1>5. CASE FindExistingKeys
    BY <1>1, <1>5 DEF FindExistingKeys, keyVars
<1>6. CASE InsertDebug
    BY <1>1, <1>6 DEF InsertDebug, WriterTypes, keyVars
<1>7. CASE Restart
    BY <1>1, <1>7 DEF Restart, keyVars
<1>8. CASE debug' \subseteq debug /\ UNCHANGED <<keys, deleting, leftover>>
    BY <1>1, <1>8
<1> QED BY <1>1, <1>2, <1>3, <1>4, <1>5, <1>6, <1>7, <1>8, DebugActions

\* The writer's phase and records.
LEMMA WriterStep ==
    ASSUME IHistory, HistoryNext
    PROVE  writer' \in WriterTypes
<1>1. writer \in WriterTypes /\ queue \subseteq Record
    BY DEF IHistory, IHistoryTypes
<1>2. NoBatch \in WriterTypes
    BY DEF NoBatch, WriterTypes
<1>3. ASSUME NEW b \in SUBSET queue, PersistPrimary(b) PROVE writer' \in WriterTypes
    <2>1. WithDebug(b) \subseteq Record
        BY <1>1 DEF WithDebug
    <2> QED BY <1>2, <1>3, <2>1 DEF PersistPrimary, WriterTypes
<1>4. CASE ReserveDebug
    BY <1>1, <1>4 DEF ReserveDebug, WriterTypes
<1>5. CASE FindExistingKeys
    BY <1>1, <1>5 DEF FindExistingKeys, WriterTypes
<1>6. ASSUME HistoryNext
      PROVE  \/ \E b \in SUBSET queue : PersistPrimary(b)
             \/ ReserveDebug \/ FindExistingKeys \/ writer' = NoBatch \/ writer' = writer
    BY <1>6 DEF HistoryNext, HistoryStep, WriterNext, PassNext, ReaderNext, Call, PrimaryFails,
       InsertDebug, DebugFails, DeleteKey, CleanDebug, CleanDebugFails, StartPass, FindBucket, CompactBucket,
       DeleteOldDebug, PassFails, StatsBegin, StatsSnapshot, StatsRollups, StatsLoadDebug, StatsFails, Tick, Restart
<1> QED BY <1>1, <1>2, <1>3, <1>4, <1>5, <1>6

\* The phase of the pass, its cutoffs and its bucket.
LEMMA PassTypeStep ==
    ASSUME IHistory, HistoryNext
    PROVE  pass' \in PassTypes
<1>1. IHistoryTypes /\ pass \in PassTypes /\ queue \subseteq Record /\ now \in Nat
    BY HoursAndDaysAreTimes DEF IHistory, IHistoryTypes
<1>2. Idle \in PassTypes
    BY DEF Idle, PassTypes
<1>3. ASSUME NEW b \in SUBSET queue, PersistPrimary(b) PROVE pass' \in PassTypes
    <2>1. pass' = [pass EXCEPT !.added = @ \cup (IF pass.phase = "idle" THEN {} ELSE b)]
        BY <1>3 DEF PersistPrimary
    <2> QED BY <1>1, <2>1 DEF PassTypes
<1>4. CASE StartPass
    <2>1. PICK a \in Int, h \in Int, d \in Int :
             a = now - RawRetention /\ h = now - HourlyRetention /\ d = now - DailyRetention
        BY <1>1, HistoryNumbers
    <2>2. HourOf(a) \in Int /\ DayOf(h) \in Int /\ DayOf(d) \in Int
        BY HourAndDay
    <2>3. pass' = [Idle EXCEPT !.phase = "raw", !.raw = HourOf(a), !.hourly = DayOf(h), !.daily = DayOf(d)]
        BY <1>4, <2>1 DEF StartPass
    <2> QED BY <1>2, <2>2, <2>3 DEF PassTypes
<1>5. CASE FindBucket
    <2>1. PICK old : /\ old = {t \in PhaseTimes : t >= pass.from /\ t < PhaseCutoff}
                     /\ pass' = IF old = {} THEN [pass EXCEPT !.phase = NextPhase, !.from = 0]
                                ELSE [pass EXCEPT !.bucket = {PhaseBucket(Min(old))}]
        BY <1>5 DEF FindBucket
    <2>2. Compacting /\ NextPhase \in {"hourly", "daily", "debug"}
        BY <1>5 DEF FindBucket, Compacting, NextPhase
    <2>3. old # {} => PhaseBucket(Min(old)) \in Times
        BY <1>1, <2>1, <2>2, OldestRow
    <2> QED BY <1>1, <2>1, <2>2, <2>3 DEF PassTypes
<1>6. CASE CompactBucket
    <2>1. PICK b \in pass.bucket : pass' = [pass EXCEPT !.from = SearchOn(b), !.bucket = {}]
        BY <1>6 DEF CompactBucket
    <2>2. b \in Times /\ Times \subseteq Nat /\ PhaseTicks \in Nat
        BY <1>1, <2>1, PhaseNumbers, HoursAndDaysAreTimes DEF PassTypes
    <2>3. SearchOn(b) \in Nat
        BY <2>2 DEF SearchOn
    <2> QED BY <1>1, <2>1, <2>3 DEF PassTypes
<1>7. ASSUME NEW k \in Keys, DeleteKey(k) PROVE pass' = pass
    BY <1>7 DEF DeleteKey
<1>8. CASE Tick
    BY <1>1, <1>8 DEF Tick
<1> QED BY <1>1, <1>2, <1>3, <1>4, <1>5, <1>6, <1>7, <1>8, PassActions

\* Every step keeps the types.
LEMMA HistoryTypesStep ==
    ASSUME IHistory, HistoryNext
    PROVE  IHistoryTypes'
<1>1. keys' \subseteq Keys
    BY RecordTypes DEF IHistory, IHistoryTypes
<1> QED BY <1>1, RecordTypes, LastUseIsATime, DeletedTypes, WriterStep, PassTypeStep, PlacedStep, KeyCountersStep,
        ViewsStep DEF IHistoryTypes
-----------------------------------------------------------------------------
(* The usage history: the inductive invariant.                             *)

\* Empty tables fulfil the invariant.
LEMMA HistoryStarts == HistoryInit => IHistory
<1> SUFFICES ASSUME HistoryInit PROVE IHistory
    OBVIOUS
<1> USE DEF HistoryInit
<1>1. 1 \in Times /\ 0 \in Times
    <2>1. PICK n \in 1 .. MaxTime : RawRetention = DayTicks * n
        BY HistoryConstants
    <2> QED BY <2>1, HistoryNumbers DEF Times
<1>2. Now = NoTables
    BY DEF Now, NoTables
<1>3. Cardinality({}) = 0
    BY FS_EmptySet
<1>4. IHistoryTypes
    <2>1. NoBatch \in WriterTypes /\ Idle \in PassTypes
        BY DEF NoBatch, WriterTypes, Idle, PassTypes
    <2> QED BY <1>1, <1>2, <2>1, NothingIsRead, HistoryNumbers DEF IHistoryTypes
<1>5. RecordsInOnePlace
    BY DEF RecordsInOnePlace, CallsAreDistinct
<1>6. Placed(Now, recorded, now)
    <2>1. \A k \in Keys : (\A h \in Hours : InHour({}, k, h) = {}) /\ \A d \in Days : InDay({}, k, d) = {}
        BY DEF InHour, InDay
    <2>2. RollupsCount(Now, {}, {})
        BY <1>3, <2>1 DEF RollupsCount, Now, NoRows
    <2>3. Split(Now, recorded, {}, {}, now)
        BY <2>2 DEF Split, Now, Gone
    <2> QED BY <2>3 DEF Placed
<1>7. KeyCountersMatch
    <2>1. \A k \in keys : Of(k, recorded) = {} /\ {x.at : x \in Of(k, recorded)} = {}
        BY DEF Of
    <2>2. {0} \cup {} = {0} /\ {0} \in SUBSET Nat /\ {0} # {} /\ \A u \in {0} : u <= 0
        OBVIOUS
    <2>3. Max({0}) = 0
        BY <2>2, MaxOfNaturals
    <2> QED BY <1>3, <2>1, <2>2, <2>3 DEF KeyCountersMatch
<1>8. PassSearches /\ PassBuckets /\ PassComplete
    BY <1>3 DEF PassSearches, PassBuckets, PassComplete, Idle
<1>9. CheckedKeys /\ DebugOfDeletedKeysGone
    BY DEF CheckedKeys, DebugOfDeletedKeysGone, NoBatch
<1>10. ViewsAreSnapshots
    BY NothingIsRead DEF ViewsAreSnapshots
<1> QED BY <1>4, <1>5, <1>6, <1>7, <1>8, <1>9, <1>10 DEF IHistory

\* So does a step of nobody.
LEMMA HistoryStays ==
    ASSUME IHistory, UNCHANGED tablesVars
    PROVE  IHistory'
<1> USE DEF tablesVars, keyVars, usageVars
<1>1. Now' = Now
    BY DEF Now
<1>2. IHistoryTypes' /\ RecordsInOnePlace' /\ Placed(Now', recorded', now')
    BY <1>1 DEF IHistory, IHistoryTypes, RecordsInOnePlace
<1>3. KeyCountersMatch' /\ CheckedKeys' /\ DebugOfDeletedKeysGone'
    BY DEF IHistory, KeyCountersMatch, CheckedKeys, DebugOfDeletedKeysGone
<1>4. PassSearches' /\ PassBuckets' /\ PassComplete'
    BY DEF IHistory, PassSearches, PassBuckets, PassComplete, Searched, Compacting
<1>5. ViewsAreSnapshots'
    BY DEF IHistory, ViewsAreSnapshots
<1> QED BY <1>2, <1>3, <1>4, <1>5 DEF IHistory

\* And every step keeps it.
LEMMA HistoryIsInductive ==
    ASSUME IHistory, [HistoryNext]_tablesVars
    PROVE  IHistory'
<1>1. CASE HistoryNext
    BY <1>1, HistoryTypesStep, RecordsStep, PlacedStep, KeyCountersStep, PassStep, DebugStep, ViewsStep
       DEF IHistory, IPass
<1>2. CASE UNCHANGED tablesVars
    BY <1>2, HistoryStays
<1> QED BY <1>1, <1>2

\* IHistory is an invariant of the usage history.
LEMMA HistoryAlways == HistorySpec => []IHistory
<1> QED BY HistoryStarts, HistoryIsInductive, PTL DEF HistorySpec

\* It says what the runs check.
LEMMA HistoryImplied == IHistory => HistoryInv /\ StatsInv
<1> SUFFICES ASSUME IHistory PROVE HistoryInv /\ StatsInv
    OBVIOUS
<1>1. HistoryTypeOK
    <2>1. hourly \in [Keys -> [Hours -> 0 .. MaxRecords]] /\ daily \in [Keys -> [Days -> 0 .. MaxRecords]] /\ raw \subseteq recorded
        BY RowsAreBounded DEF IHistory
    <2>2. Cardinality(pass.bucket) <= 1 /\ \A x \in recorded : x \in Record /\ x.key \in keys
        BY DEF IHistory, PassBuckets, IHistoryTypes, RecordsInOnePlace
    <2>3. writer \in WriterTypes /\ pass \in PassTypes /\ view \in [Readers -> ViewTypes]
        BY DEF IHistory, IHistoryTypes
    <2>4. /\ writer.phase \in {"idle", "debug", "reserved", "checked"} /\ writer.records \subseteq Record
          /\ pass.phase \in {"idle", "raw", "hourly", "daily", "debug"}
          /\ \A r \in Readers : view[r].phase \in {"idle", "begun", "rollups", "load"} /\ view[r].total \in Nat
        BY <2>3 DEF WriterTypes, PassTypes, ViewTypes
    <2> QED BY <2>1, <2>2, <2>4 DEF HistoryTypeOK, IHistory, IHistoryTypes
<1>2. HistoryConserved
    BY PlacedIsConserved DEF IHistory
<1>3. StatsInv
    BY SnapshotsAreRight DEF IHistory
<1> QED BY <1>1, <1>2, <1>3 DEF HistoryInv, IHistory

\* Types, conservation of calls over raw rows and rollups, counters of the keys, completeness
\* of the phases of a pass and no debug row of a deleted key without its deletion due or
\* failed (persistPrimaryUsageBatch, RunUsageMaintenance, deleteUsageDebugByKeyIDsBestEffort),
\* for any keys, readers, retentions and bounds.
THEOREM HistoryInvariant == HistorySpec => []HistoryInv
BY HistoryAlways, HistoryImplied, PTL

\* Totals and chart of a request (queryUsageStats, queryUsageTrafficBuckets) count every call
\* of their snapshot once and in its bucket, whatever the writer and the maintenance do; the
\* chart lacks of the totals just the calls that ended after the request had read its clock.
THEOREM StatsInvariant == HistorySpec => []StatsInv
BY HistoryAlways, HistoryImplied, PTL

\* The end of a pass (RunUsageMaintenance: DELETE FROM usage_debug) deletes every older debug
\* row and none whose raw row was there when the pass began and still is.
THEOREM DebugRowsLeaveWithTheirCalls == HistorySpec => DebugLeavesWithRaw
<1>1. ASSUME IHistory, DeleteOldDebug
      PROVE  /\ \A x \in debug' : x.at >= pass.raw
             /\ debug \cap (raw \ pass.added) \subseteq debug'
    <2>1. /\ debug' = {x \in debug : ~(x.at < pass.raw)} /\ pass.phase = "debug"
        BY <1>1 DEF DeleteOldDebug, DebugExpired
    <2>2. \A x \in debug : x.at \in Nat
        BY <1>1, CallTimes DEF IHistory, IHistoryTypes
    <2>3. pass.raw \in Int
        BY <1>1, PhaseNumbers DEF IHistory
    <2>4. \A x \in raw \ pass.added : x.at >= pass.raw
        BY <1>1, <2>1 DEF IHistory, PassComplete
    <2> QED BY <2>1, <2>2, <2>3, <2>4
<1>2. IHistory /\ [HistoryNext]_tablesVars =>
        [DeleteOldDebug => /\ \A x \in debug' : x.at >= pass.raw
                           /\ debug \cap (raw \ pass.added) \subseteq debug']_tablesVars
    BY <1>1
<1> QED BY <1>2, HistoryAlways, PTL DEF HistorySpec, DebugLeavesWithRaw
=============================================================================
