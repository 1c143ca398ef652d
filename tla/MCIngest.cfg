SPECIFICATION IngestSpec
CONSTANTS
    StationIds = {"s1"}
    BatchIds = {"b1", "b2"}
    Observations = {"calm"}
    InRange = {"calm"}
    Times = {1, 2, 3}
    MaxFailures = 0
    Operators = {}
    Runner = runner
    Requests = {request}
    MaxBatch = 2
    MaxAge = 1
    Limit = 100
    Batches <- MCBatches
    Uploads <- MCUploads
    FaultPlans <- MCFaultPlans
INVARIANTS
    IngestTypeOK
    QueuedAreKnown
PROPERTIES
    CommittedForGood
    ServiceIsRespected
