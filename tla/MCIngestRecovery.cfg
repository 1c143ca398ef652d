SPECIFICATION FairIngestSpec
CONSTANTS
    StationIds = {"s1"}
    BatchIds = {"b1", "b2"}
    Observations = {"calm"}
    InRange = {"calm"}
    Times = {1}
    MaxFailures = 0
    Operators = {o1}
    Runner = runner
    Requests = {}
    MaxBatch = 2
    MaxAge = 1
    Limit = 100
    Batches <- MCBatches
    Uploads <- MCUploads
    FaultPlans <- MCFaultPlans
PROPERTIES
    RecoveryCompletes
