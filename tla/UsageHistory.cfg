\* Two keys, two calls, one reader; hours of one second, days of two.
CONSTANTS
  Keys = {1, 2}
  Readers = {r1}
  Sinces = {0, 1}
  Storages = {TRUE, FALSE}
  HourTicks = 1
  DayTicks = 2
  RawRetention = 2
  HourlyRetention = 4
  DailyRetention = 6
  MaxRecords = 2
  MaxTime = 8
SPECIFICATION HistorySpec
CONSTRAINT OneEdge
ACTION_CONSTRAINT FirstKeyFirst
INVARIANTS
  HistoryInv
  StatsInv
  NoConnectionDeadlock
PROPERTIES
  DebugLeavesWithRaw
