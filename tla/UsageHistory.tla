--------------------------- MODULE UsageHistory ---------------------------
(***************************************************************************)
(* The usage tables of the two databases: batches of call records and the  *)
(* counters of their keys (store/sqlite_usage_write.go), the debug rows in *)
(* the second database (store/sqlite_debug.go), the maintenance that moves *)
(* old rows into hourly and daily rollups (store/usage_maintenance.go) and *)
(* the statistics that add the three resolutions up again                  *)
(* (store/sqlite_usage_stats.go).                                          *)
(*                                                                         *)
(* The usage writer, the maintenance worker, requests for statistics and   *)
(* deletions of keys run beside each other.  A transaction of the primary  *)
(* database is one step; it has one connection for writing, the debug      *)
(* database has one connection for everything.  A record is its key and    *)
(* its time; tools, durations and outcomes are summed the way calls are.   *)
(***************************************************************************)
EXTENDS Integers, FiniteSets, FiniteSetsExt

CONSTANTS
  Keys,             \* API keys
  Readers,          \* requests for statistics
  Sinces,           \* the times they ask from, 0 for everything
  Storages,         \* whether path may be ":memory:": readers then use the write connection
  HourTicks,        \* seconds of an hour
  DayTicks,         \* seconds of a day
  RawRetention,     \* UsageRetentionPolicy
  HourlyRetention,
  DailyRetention,
  MaxRecords,       \* bound on the calls that are made
  MaxTime           \* bound on the clock

\* UsageRetentionPolicy.Validate
PolicyValid ==
  /\ 0 < RawRetention /\ RawRetention < HourlyRetention /\ HourlyRetention < DailyRetention

\* The configuration gives retentions in whole days.
ASSUME HistoryConstants ==
  /\ Storages \subseteq BOOLEAN
  /\ HourTicks \in Nat \ {0} /\ DayTicks \in Nat \ {0} /\ DayTicks % HourTicks = 0
  /\ {RawRetention, HourlyRetention, DailyRetention} \subseteq {DayTicks * n : n \in 1 .. MaxTime}
  /\ PolicyValid
  /\ MaxRecords \in Nat /\ MaxTime \in Nat /\ Sinces \subseteq 0 .. MaxTime

VARIABLES
  inMemory,    \* readDB is the write connection
  now,
  keys,        \* rows of apikeys
  calls,       \* apikeys.total_calls
  lastUsed,    \* apikeys.last_used_at, 0 is NULL
  made,        \* the number of calls made
  queue,       \* records in the usage writer's queue
  writer,      \* RecordUsageBatch: its phase and the records it still has to write
  raw,         \* usage_log
  hourly,      \* usage_hourly_rollups: total_calls by key and bucket, 0 is no row
  daily,       \* usage_daily_rollups
  debug,       \* usage_debug
  deleting,    \* keys whose debug rows are still to be deleted
  leftover,    \* history: keys whose debug rows could not be deleted
  pass,        \* RunUsageMaintenance
  view,        \* [Readers -> queryUsageStats]
  recorded     \* history: every record that was committed for a key that exists

keyVars == <<keys, calls, lastUsed>>
usageVars == <<raw, hourly, daily>>
tablesVars == <<inMemory, now, keyVars, made, queue, writer, usageVars, debug, deleting,
                 leftover, pass, view, recorded>>

Times == 0 .. MaxTime
\* debug: captured while the debug switch was on
Record == [id : 1 .. MaxRecords, key : Keys, at : Times, debug : BOOLEAN]

HourOf(t) == (t \div HourTicks) * HourTicks
DayOf(t) == (t \div DayTicks) * DayTicks        \* truncateToUTCDay
Hours == {HourOf(t) : t \in Times}
Days == {DayOf(t) : t \in Times}

NoRows(buckets) == [k \in Keys |-> [b \in buckets |-> 0]]
Idle == [phase |-> "idle", raw |-> 0, hourly |-> 0, daily |-> 0, from |-> 0, bucket |-> {},
         added |-> {}]
NoTables == [raw |-> {}, hourly |-> NoRows(Hours), daily |-> NoRows(Days)]
NoView == [phase |-> "idle", since |-> 0, end |-> 0, taken |-> 0, tables |-> NoTables,
           total |-> 0, exact |-> {}]
NoBatch == [phase |-> "idle", records |-> {}]

HistoryInit ==
  /\ inMemory \in Storages
  /\ now = 1
  /\ keys = Keys /\ calls = [k \in Keys |-> 0] /\ lastUsed = [k \in Keys |-> 0]
  /\ made = 0 /\ queue = {} /\ writer = NoBatch
  /\ raw = {} /\ hourly = NoRows(Hours) /\ daily = NoRows(Days)
  /\ debug = {} /\ deleting = {} /\ leftover = {}
  /\ pass = Idle
  /\ view = [r \in Readers |-> NoView]
  /\ recorded = {}

\* The connections.  Only a reader of an in-memory database keeps the primary one
\* over several steps, only the writer keeps that of the debug database.

\* Mutant: the reader keeps its transaction while it loads the debug summaries.
PrimaryFree_Kept == inMemory => \A r \in Readers : view[r].phase = "idle"

PrimaryFree == inMemory => \A r \in Readers : view[r].phase \notin {"begun", "rollups"}

DebugFree == writer.phase \notin {"reserved", "checked"}

Of(k, records) == {x \in records : x.key = k}

\* SUM over rows: one that counts n calls stands for n units, and a sum is the number
\* of units.
SumOf(counts) == Cardinality(UNION {{row} \X (1 .. counts[row]) : row \in DOMAIN counts})
Total(rows, ks, buckets) == SumOf([row \in ks \X buckets |-> rows[row[1]][row[2]]])

-----------------------------------------------------------------------------
(* Writing *)

\* A call ends and its record is queued, with the time it ended.
Call(k, captured) ==
  /\ made < MaxRecords /\ k \in keys
  /\ made' = made + 1
  /\ queue' = queue \cup {[id |-> made + 1, key |-> k, at |-> now, debug |-> captured]}
  /\ UNCHANGED <<now, keyVars, writer, usageVars, debug, deleting, leftover, pass, view, recorded>>

\* updateAPIKeyUsageBatch
CountCalls(batch) ==
  /\ calls' = [k \in Keys |-> calls[k] + Cardinality(Of(k, batch))]
  /\ lastUsed' = [k \in Keys |-> Max({lastUsed[k]} \cup {x.at : x \in Of(k, batch)})]

\* prepareUsageDebugRecord: the records that carry debug data.
WithDebug(batch) == {x \in batch : x.debug}

\* persistPrimaryUsageBatch: one transaction; what carries debug data goes on.
PersistPrimary(batch) ==
  /\ writer.phase = "idle" /\ batch # {} /\ PrimaryFree
  /\ \A x \in batch : x.key \in keys
  /\ queue' = queue \ batch
  /\ raw' = raw \cup batch /\ recorded' = recorded \cup batch
  /\ CountCalls(batch)
  /\ writer' = IF WithDebug(batch) = {} THEN NoBatch
               ELSE [phase |-> "debug", records |-> WithDebug(batch)]
  /\ pass' = [pass EXCEPT !.added = @ \cup (IF pass.phase = "idle" THEN {} ELSE batch)]
  /\ UNCHANGED <<now, keys, made, hourly, daily, debug, deleting, leftover, view>>

\* One record of a key that is gone (its foreign key fails), or a time-out: the
\* whole batch is lost.
PrimaryFails(batch) ==
  /\ writer.phase = "idle" /\ batch # {}
  /\ queue' = queue \ batch
  /\ UNCHANGED <<now, keyVars, made, writer, usageVars, debug, deleting, leftover, pass, view, recorded>>

\* persistUsageDebugRecords begins its transaction and so has the connection.
ReserveDebug ==
  /\ writer.phase = "debug" /\ DebugFree
  /\ writer' = [writer EXCEPT !.phase = "reserved"]
  /\ UNCHANGED <<now, keyVars, made, queue, usageVars, debug, deleting, leftover, pass, view, recorded>>

\* findExistingDebugRecordKeyIDs asks the primary database.
FindExistingKeys ==
  /\ writer.phase = "reserved" /\ PrimaryFree
  /\ writer' = [phase |-> "checked", records |-> {x \in writer.records : x.key \in keys}]
  /\ UNCHANGED <<now, keyVars, made, queue, usageVars, debug, deleting, leftover, pass, view, recorded>>

InsertDebug ==
  /\ writer.phase = "checked"
  /\ debug' = debug \cup writer.records
  /\ writer' = NoBatch
  /\ UNCHANGED <<now, keyVars, made, queue, usageVars, deleting, leftover, pass, view, recorded>>

\* Debug rows are not worth an error: the failure is logged.
DebugFails ==
  /\ writer.phase # "idle"
  /\ writer' = NoBatch
  /\ UNCHANGED <<now, keyVars, made, queue, usageVars, debug, deleting, leftover, pass, view, recorded>>

-----------------------------------------------------------------------------
(* Deletion of keys *)

\* The rows of the key go with it; its debug rows are in the other database.
DeleteKey(k) ==
  /\ k \in keys /\ PrimaryFree
  /\ keys' = keys \ {k}
  /\ raw' = raw \ Of(k, raw) /\ recorded' = recorded \ Of(k, recorded)
  /\ hourly' = [hourly EXCEPT ![k] = [b \in Hours |-> 0]]
  /\ daily' = [daily EXCEPT ![k] = [b \in Days |-> 0]]
  /\ deleting' = deleting \cup {k}
  /\ UNCHANGED <<now, calls, lastUsed, made, queue, writer, debug, leftover, pass, view>>

\* deleteUsageDebugByKeyIDsBestEffort
CleanDebug(k) ==
  /\ k \in deleting /\ DebugFree
  /\ debug' = debug \ Of(k, debug)
  /\ deleting' = deleting \ {k}
  /\ UNCHANGED <<now, keyVars, made, queue, writer, usageVars, leftover, pass, view, recorded>>

CleanDebugFails(k) ==
  /\ k \in deleting
  /\ deleting' = deleting \ {k} /\ leftover' = leftover \cup {k}
  /\ UNCHANGED <<now, keyVars, made, queue, writer, usageVars, debug, pass, view, recorded>>

-----------------------------------------------------------------------------
(* Maintenance *)

\* RunUsageMaintenance begins: the cutoffs are whole hours and days.
StartPass ==
  /\ pass.phase = "idle"
  /\ pass' = [Idle EXCEPT !.phase = "raw", !.raw = HourOf(now - RawRetention),
                          !.hourly = DayOf(now - HourlyRetention),
                          !.daily = DayOf(now - DailyRetention)]
  /\ UNCHANGED <<now, keyVars, made, queue, writer, usageVars, debug, deleting, leftover, view, recorded>>

\* What the phase looks for: the times of its rows, its cutoff and its bucket.
RowsOf(rows, buckets) == {b \in buckets : \E k \in Keys : rows[k][b] > 0}
PhaseTimes ==
  CASE pass.phase = "raw" -> {x.at : x \in raw}
    [] pass.phase = "hourly" -> RowsOf(hourly, Hours)
    [] pass.phase = "daily" -> RowsOf(daily, Days)
PhaseCutoff ==
  CASE pass.phase = "raw" -> pass.raw
    [] pass.phase = "hourly" -> pass.hourly
    [] pass.phase = "daily" -> pass.daily
PhaseTicks == IF pass.phase = "raw" THEN HourTicks ELSE DayTicks
PhaseBucket(t) == IF pass.phase = "raw" THEN HourOf(t) ELSE DayOf(t)
NextPhase ==
  CASE pass.phase = "raw" -> "hourly" [] pass.phase = "hourly" -> "daily"
    [] pass.phase = "daily" -> "debug"

Compacting == pass.phase \in {"raw", "hourly", "daily"}

\* findNextRawUsageHour and its like read the oldest row from the search start on.
FindBucket ==
  /\ Compacting /\ pass.bucket = {} /\ PrimaryFree
  /\ LET old == {t \in PhaseTimes : t >= pass.from /\ t < PhaseCutoff}
     IN pass' = IF old = {} THEN [pass EXCEPT !.phase = NextPhase, !.from = 0]
                            ELSE [pass EXCEPT !.bucket = {PhaseBucket(Min(old))}]
  /\ UNCHANGED <<now, keyVars, made, queue, writer, usageVars, debug, deleting, leftover, view, recorded>>

\* Mutant: a row that is already there is replaced.
Added_Replaces(rows, b, counts) ==
  [k \in Keys |-> [rows[k] EXCEPT ![b] = IF counts[k] = 0 THEN @ ELSE counts[k]]]

\* INSERT ... ON CONFLICT DO UPDATE
Added(rows, b, counts) == [k \in Keys |-> [rows[k] EXCEPT ![b] = @ + counts[k]]]

\* compactRawUsageHour, compactHourlyUsageDay and deleteDailyUsageDay: a transaction.
CompactRawUsageHour(b) ==
  LET moved == {x \in raw : x.at >= b /\ x.at < b + HourTicks}
  IN /\ hourly' = Added(hourly, b, [k \in Keys |-> Cardinality(Of(k, moved))])
     /\ raw' = raw \ moved
     /\ UNCHANGED daily

CompactHourlyUsageDay(b) ==
  LET moved == {h \in Hours : h >= b /\ h < b + DayTicks}
  IN /\ daily' = Added(daily, b, [k \in Keys |-> Total(hourly, {k}, moved)])
     /\ hourly' = [k \in Keys |-> [h \in Hours |-> IF h \in moved THEN 0 ELSE hourly[k][h]]]
     /\ UNCHANGED raw

DeleteDailyUsageDay(b) ==
  /\ daily' = [k \in Keys |-> [daily[k] EXCEPT ![b] = 0]]
  /\ UNCHANGED <<raw, hourly>>

SearchOn(b) == b + PhaseTicks

CompactBucket ==
  /\ PrimaryFree
  /\ \E b \in pass.bucket :
       /\ \/ pass.phase = "raw" /\ CompactRawUsageHour(b)
          \/ pass.phase = "hourly" /\ CompactHourlyUsageDay(b)
          \/ pass.phase = "daily" /\ DeleteDailyUsageDay(b)
       /\ pass' = [pass EXCEPT !.from = SearchOn(b), !.bucket = {}]
  /\ UNCHANGED <<now, keyVars, made, queue, writer, debug, deleting, leftover, view, recorded>>

\* Mutant: debug rows are kept as long as the hourly rollups.
DebugExpired_Hourly(x) == x.at < pass.hourly

DebugExpired(x) == x.at < pass.raw

\* The end of the pass; the checkpoints change no row.
DeleteOldDebug ==
  /\ pass.phase = "debug" /\ DebugFree
  /\ debug' = {x \in debug : ~DebugExpired(x)}
  /\ pass' = Idle
  /\ UNCHANGED <<now, keyVars, made, queue, writer, usageVars, deleting, leftover, view, recorded>>

\* An error ends the pass where it is.
PassFails ==
  /\ pass.phase # "idle"
  /\ pass' = Idle
  /\ UNCHANGED <<now, keyVars, made, queue, writer, usageVars, debug, deleting, leftover, view, recorded>>

-----------------------------------------------------------------------------
(* Statistics *)

\* queryUsageStats begins a read transaction, which is deferred, and reads the clock:
\* queryEnd.
StatsBegin(r, since) ==
  /\ view[r].phase = "idle" /\ PrimaryFree
  /\ view' = [view EXCEPT ![r] = [NoView EXCEPT !.phase = "begun", !.since = since, !.end = now]]
  /\ UNCHANGED <<now, keyVars, made, queue, writer, usageVars, debug, deleting, leftover, pass, recorded>>

\* The first query, of the raw rows from `since` on (0: all), takes the snapshot.
StatsSnapshot(r) ==
  /\ view[r].phase = "begun"
  /\ view' = [view EXCEPT ![r] =
       [phase |-> "rollups", since |-> @.since, end |-> @.end, taken |-> now,
        tables |-> [raw |-> raw, hourly |-> hourly, daily |-> daily],
        total |-> Cardinality({x \in raw : x.at >= @.since}),
        exact |-> {x \in recorded : x.at >= DayOf(@.since)}]]
  /\ UNCHANGED <<now, keyVars, made, queue, writer, usageVars, debug, deleting, leftover, pass, recorded>>

\* Mutant: the queries of the rollups run outside the transaction.
Tables_Live(r) == [raw |-> view[r].tables.raw, hourly |-> hourly, daily |-> daily]

Tables(r) == view[r].tables

\* truncateUsageRollupBoundary: a bucket counts when `since` lies in it.
RollupSince(since, ticks) == (since \div ticks) * ticks

\* addRollupUsageAggregates on top of the raw rows: UsageStats.TotalCalls.
TotalCalls(r) ==
  LET t == Tables(r)
      hours == {h \in Hours : h >= RollupSince(view[r].since, HourTicks)}
      days == {d \in Days : d >= RollupSince(view[r].since, DayTicks)}
  IN view[r].total + Total(t.hourly, Keys, hours) + Total(t.daily, Keys, days)

\* The other queries (TotalCalls above, the chart below) and the commit.
StatsRollups(r) ==
  /\ view[r].phase = "rollups"
  /\ view' = [view EXCEPT ![r] = [NoView EXCEPT !.phase = "load"]]
  /\ UNCHANGED <<now, keyVars, made, queue, writer, usageVars, debug, deleting, leftover, pass, recorded>>

\* loadUsageDebugBodySummaries reads the debug database after the transaction.
StatsLoadDebug(r) ==
  /\ view[r].phase = "load" /\ DebugFree
  /\ view' = [view EXCEPT ![r] = NoView]
  /\ UNCHANGED <<now, keyVars, made, queue, writer, usageVars, debug, deleting, leftover, pass, recorded>>

StatsFails(r) ==
  /\ view[r].phase # "idle"
  /\ view' = [view EXCEPT ![r] = NoView]
  /\ UNCHANGED <<now, keyVars, made, queue, writer, usageVars, debug, deleting, leftover, pass, recorded>>

(* The chart of queryUsageTrafficBuckets, from the same tables. *)

BucketCount == 8                                \* usageTrafficBucketCount

CeilingDiv(a, b) == (a + b - 1) \div b

\* resolveUsageTrafficRangeStart: without `since` the chart begins at the oldest row.
RangeStart(r) ==
  LET t == Tables(r)
      rowTimes == {x.at : x \in t.raw} \cup RowsOf(t.hourly, Hours) \cup RowsOf(t.daily, Days)
      start == IF view[r].since # 0 THEN {view[r].since}
               ELSE IF rowTimes = {} THEN {} ELSE {Min(rowTimes)}
  IN IF \E s \in start : s < view[r].end THEN Min(start) ELSE view[r].end - DayTicks

\* The bucket of a row's time, counted by the database.
BucketIndex(t, start, duration) ==
  Min({BucketCount - 1, Max({0, ((t - start) * BucketCount) \div duration})})

\* createEmptyUsageTrafficBuckets: where bucket i begins and bucket i - 1 ends.
BucketLimit(i, start, duration) == start + CeilingDiv(duration * i, BucketCount)

\* addUsageTrafficSource for the three sources: the calls of bucket i.
ChartCalls(r, i) ==
  LET t == Tables(r)
      start == RangeStart(r)
      end == view[r].end
      InBucket(at, from) == at >= from /\ at <= end /\ BucketIndex(at, start, end - start) = i
  IN Cardinality({x \in t.raw : InBucket(x.at, start)})
     + Total(t.hourly, Keys, {h \in RowsOf(t.hourly, Hours) : InBucket(h, RollupSince(start, HourTicks))})
     + Total(t.daily, Keys, {d \in RowsOf(t.daily, Days) : InBucket(d, RollupSince(start, DayTicks))})

-----------------------------------------------------------------------------
Tick ==
  /\ now < MaxTime
  /\ now' = now + 1
  /\ UNCHANGED <<keyVars, made, queue, writer, usageVars, debug, deleting, leftover, pass, view, recorded>>

\* The process stops between two transactions: what is not in a table is gone.
Restart ==
  /\ queue' = {} /\ writer' = NoBatch /\ pass' = Idle
  /\ view' = [r \in Readers |-> NoView]
  /\ deleting' = {} /\ leftover' = leftover \cup deleting
  /\ UNCHANGED <<now, keyVars, made, usageVars, debug, recorded>>

WriterNext == ReserveDebug \/ FindExistingKeys \/ InsertDebug
ReaderNext(r) == StatsSnapshot(r) \/ StatsRollups(r) \/ StatsLoadDebug(r)
PassNext == FindBucket \/ CompactBucket \/ DeleteOldDebug

HistoryStep ==
  \/ \E k \in Keys, captured \in BOOLEAN : Call(k, captured)
  \/ \E k \in Keys : DeleteKey(k) \/ CleanDebug(k) \/ CleanDebugFails(k)
  \/ \E batch \in SUBSET queue : PersistPrimary(batch) \/ PrimaryFails(batch)
  \/ WriterNext \/ DebugFails
  \/ StartPass \/ PassNext \/ PassFails
  \/ \E r \in Readers : ReaderNext(r) \/ StatsFails(r) \/ \E since \in Sinces : StatsBegin(r, since)
  \/ Tick \/ Restart

HistoryNext == HistoryStep /\ UNCHANGED inMemory

HistorySpec == HistoryInit /\ [][HistoryNext]_tablesVars

-----------------------------------------------------------------------------
(* Properties *)

\* Rows belong to keys that exist, and the writer, the pass and the readers keep
\* their types.
HistoryTypeOK ==
  /\ now \in Times /\ made \in 0 .. MaxRecords /\ keys \subseteq Keys
  /\ calls \in [Keys -> Nat] /\ lastUsed \in [Keys -> Times]
  /\ queue \subseteq Record /\ debug \subseteq Record /\ raw \subseteq recorded
  /\ \A x \in recorded : x \in Record /\ x.key \in keys
  /\ hourly \in [Keys -> [Hours -> 0 .. MaxRecords]]
  /\ daily \in [Keys -> [Days -> 0 .. MaxRecords]]
  /\ deleting \subseteq Keys \ keys /\ leftover \subseteq Keys \ keys
  /\ writer.phase \in {"idle", "debug", "reserved", "checked"} /\ writer.records \subseteq Record
  /\ pass.phase \in {"idle", "raw", "hourly", "daily", "debug"} /\ Cardinality(pass.bucket) <= 1
  /\ \A r \in Readers : view[r].phase \in {"idle", "begun", "rollups", "load"} /\ view[r].total \in Nat

\* The calls of a key on a day, in all three resolutions.
CallsOfDay(k, d) ==
  Cardinality({x \in Of(k, raw) : DayOf(x.at) = d})
  + Total(hourly, {k}, {h \in Hours : DayOf(h) = d}) + daily[k][d]

RecordedOfDay(k, d) == Cardinality({x \in Of(k, recorded) : DayOf(x.at) = d})

\* Compaction neither loses nor doubles a call: a day within the last retention has
\* its calls exactly once in the three tables, also when a record is committed after
\* its hour or its day was rolled up, and an older day never has more than it had.
HistoryConserved ==
  \A k \in keys, d \in Days :
    LET kept == CallsOfDay(k, d)
        all == RecordedOfDay(k, d)
    IN kept <= all /\ (d >= DayOf(now - DailyRetention) => kept = all)

\* The counter of a key and its time of last use are those of its records, in
\* whatever order batches with out-of-order times are committed.
KeyCountersMatch ==
  \A k \in keys :
    /\ calls[k] = Cardinality(Of(k, recorded))
    /\ lastUsed[k] = Max({0} \cup {x.at : x \in Of(k, recorded)})

\* A phase of the pass is over only when nothing older than its cutoff is left but
\* what was committed meanwhile.
PassComplete ==
  /\ pass.phase \in {"hourly", "daily", "debug"} => \A x \in raw \ pass.added : x.at >= pass.raw
  /\ pass.phase \in {"daily", "debug"} => \A h \in RowsOf(hourly, Hours) : h >= pass.hourly
  /\ pass.phase = "debug" => \A d \in RowsOf(daily, Days) : d >= pass.daily

\* Debug rows of a key that is gone stay only when their deletion is still due or
\* has failed: a batch that is written beside the deletion leaves none behind.
DebugOfDeletedKeysGone ==
  \A x \in debug : x.key \in keys \cup deleting \cup leftover

\* The three resolutions, the counters of the keys and the debug rows account for the
\* same calls at every step of the writer, the maintenance and the deletions.
HistoryInv ==
  /\ HistoryTypeOK
  /\ HistoryConserved
  /\ KeyCountersMatch
  /\ PassComplete
  /\ DebugOfDeletedKeysGone

\* Debug rows leave at the end of every pass with the raw rows they belong to: after
\* the pass, none is older than its cutoff and none younger was deleted by it.
DebugLeavesWithRaw ==
  [][DeleteOldDebug => /\ \A x \in debug' : x.at >= pass.raw
                       /\ debug \cap (raw \ pass.added) \subseteq debug']_tablesVars

\* Statistics come from one snapshot: every call from `since` on is counted once, and
\* besides these only calls of the same day, however the maintenance moves the rows
\* while the queries run.
StatsOfOneSnapshot ==
  \A r \in Readers : view[r].phase = "rollups" =>
    LET kept == {x \in view[r].exact : x.at >= DayOf(view[r].taken - DailyRetention)}
    IN /\ TotalCalls(r) <= Cardinality(view[r].exact)
       /\ TotalCalls(r) >= Cardinality({x \in kept : x.at >= view[r].since})

\* Rows later than the request's clock, which the snapshot may have.
CallsAfterEnd(r) ==
  LET t == Tables(r)
      end == view[r].end
  IN Cardinality({x \in t.raw : x.at > end})
     + Total(t.hourly, Keys, {h \in Hours : h > end}) + Total(t.daily, Keys, {d \in Days : d > end})

\* The chart shows the calls of the totals but those that ended after the request had
\* read its clock and before its snapshot, and a raw row in the bucket whose Start and
\* End enclose its time (store.go: Start included, End excluded but for the last).
ChartMatchesTotals ==
  \A r \in Readers : view[r].phase = "rollups" /\ view[r].since < view[r].end =>
    LET start == RangeStart(r)
        duration == view[r].end - start
    IN /\ SumOf([i \in 0 .. BucketCount - 1 |-> ChartCalls(r, i)]) = TotalCalls(r) - CallsAfterEnd(r)
       /\ CallsAfterEnd(r) <= Cardinality({x \in view[r].exact : x.at > view[r].end})
       /\ \A x \in view[r].tables.raw : x.at >= start /\ x.at <= view[r].end =>
            LET i == BucketIndex(x.at, start, duration)
            IN /\ BucketLimit(i, start, duration) <= x.at
               /\ i < BucketCount - 1 => x.at < BucketLimit(i + 1, start, duration)

\* Totals and chart of one request count each call once and in its place, and differ by
\* what was recorded while the request waited for its snapshot and by nothing else.
StatsInv == StatsOfOneSnapshot /\ ChartMatchesTotals

\* Statistics, batches and passes need no time-out to end: whoever is inside the
\* databases, one of them has the connections for its next step, so no two wait for
\* each other's.
NoConnectionDeadlock ==
  writer.phase # "idle" \/ pass.phase # "idle" \/ (\E r \in Readers : view[r].phase # "idle")
    => ENABLED (WriterNext \/ PassNext \/ \E r \in Readers : ReaderNext(r))
=============================================================================
