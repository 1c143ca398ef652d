SPECIFICATION IngestSpec
CONSTANTS
    StationIds = {"s1"}
    BatchIds = {"b1", "b2"}
    Observations = {"calm"}
    InRange = {"calm"}
    Times = {1}
    MaxFailures = 0
    Operators = {}
    Runner = runner
    Requests = {request}
    MaxBatch = 2
    MaxAge = 1
    Limit = 100
    Batches <- MCBatches
    Uploads <- MCUploads
    FaultPlans <- MCFaultPlans
INVARIANT StorageFailureIsRecoverable
