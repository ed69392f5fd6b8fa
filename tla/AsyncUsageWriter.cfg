\* Three records, one place in the channel, batches of two, both kinds of store.
SPECIFICATION Spec
CONSTANTS
    Records = {1, 2, 3}
    Buffer = 1
    BatchSize = 2
    StoreKinds = {TRUE, FALSE}
    MetricsModes = {TRUE, FALSE}
    None = None
ACTION_CONSTRAINT NumberedOnArrival
INVARIANTS
    WriterInv
PROPERTIES
    RefinesLedger
    CloseReturns
    OfferedIsSettled
