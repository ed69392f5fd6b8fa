\* Three searches of one user and one of another for the components; two searches and a listing for the chain.
SPECIFICATION MCSpec
CONSTANTS
    u1 = u1  u2 = u2
    Requests = {1, 2, 3, 4}
    Searches = {1, 2}
    Users = {u1, u2}
    UserOf <- MCUserOf
    ConcurrencyLimits = {1, 2, 3}
    SuccessLimits = {0, 1}
    MaxPeriod = 2
    NoEntry = NoEntry
    Tools = {"web_search", "list_models"}
    Bodies <- MCBodies
    MaxParseBody = 2
    InspectionLimit = 5
    SpoolLimit = 3
    MaxWrite = 2
    MaxWritten = 6
ACTION_CONSTRAINTS NumberedOnArrival PartBounds
INVARIANTS
    LimiterInv
    QuotaInv
    McpInv
    RoutingInv
    RecorderInv
PROPERTIES
    DecidedByTheCounts
    PermitReturned
CHECK_DEADLOCK FALSE
