\* Two shards of one place: late requests to all, or overlapping ones to the first.
SPECIFICATION IPLimiterSpec
CONSTANTS
    Addresses = {0, 1, 2}
    Requests = {1, 2}
    ShardCount = 2
    ShardOf <- MCShardOf
    FallbackLimiters = {b1}
    FallbackIndexOf <- MCFallbackIndexOf
    RequestsPerMinute = 2
    MaximumEntries = 1
    Minute = 2
    EntryIdleTTL = 3
    CleanupInterval = 1
    CleanupShardBatchSize = 1
    Lags = {0, 1}
    MaxTime = 8
CONSTRAINT OneEdge
ACTION_CONSTRAINT NumberedOnArrival
INVARIANTS
    IPLimiterInv
PROPERTIES
    ShardFallbackOnlyWhenFull
