\* Two users for one place, with late requests or with changing RPMs.
SPECIFICATION UserLimiterSpec
CONSTANTS
    Users = {u1, u2}
    Requests = {1, 2}
    Rpms = {0, 1, 2}
    FallbackBuckets = {b1}
    FallbackIndexOf <- MCFallbackIndexOf
    MaximumEntries = 1
    Minute = 2
    EntryIdleTTL = 4
    Lags = {0, 1}
    MaxTime = 7
CONSTRAINT OneEdge
ACTION_CONSTRAINT NumberedOnArrival
INVARIANTS
    RegistryInv
    BucketsInv
PROPERTIES
    FallbackOnlyWhenFull
