\* One search call of one user, followed from the limiter to the upstream.
SPECIFICATION MCSpec
CONSTANTS
    u1 = u1
    Requests = {1}
    Searches = {1}
    Users = {u1}
    UserOf <- MCUserOf
    ConcurrencyLimits = {1}
    SuccessLimits = {1}
    MaxPeriod = 1
    NoEntry = NoEntry
    Caller = 1
    Settings <- MCSettings
    SearchRequests <- MCSearchRequests
    Pieces = {"text", "searching"}
    Announcements = {"searching"}
    MaxResponse = 4
    MaxEvents = 3
    MaxRounds = 2
    MaxAnswer = 2
    MaxCitations = 1
    ShortAnswer = 1
    MaxContinuations = 1
    MaxDomains = 1
ACTION_CONSTRAINTS OneCall SearchBounds EarlyBounds
INVARIANTS
    SearchInv
    ChargedForAnswers
PROPERTIES
    KeepsPromise
    CallEnds
CHECK_DEADLOCK FALSE
