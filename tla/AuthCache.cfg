\* Three requests, two keys in a shard of one entry, one or two loads at a time, two administrators.
SPECIFICATION AuthFairSpec
CONSTANTS
    h1 = h1  h2 = h2  s1 = s1  s2 = s2
    Requests = {1, 2, 3}
    Hashes = {h1, h2}
    HashOf <- MCHashOf
    Shards = {s1, s2}
    ShardOf <- MCShardOf
    ShardCapacity = 1
    MissLimits = {1, 2}
    Admins = {1, 2}
    None = None
ACTION_CONSTRAINT NumberedOnArrival
CONSTRAINT OneEdge
INVARIANTS
    AuthInv
PROPERTIES
    AnswersFresh
    EveryResolveReturns
CHECK_DEADLOCK FALSE
