SPECIFICATION StoreSpec
CONSTANTS
    StationIds = {"s1", "s2"}
    BatchIds = {"b1", "b2"}
    Observations = {"calm"}
    InRange = {"calm"}
    Times = {1}
    MaxFailures = 0
    Batches <- MCBatches
    FaultPlans <- MCFaultPlans
PROPERTY MemoryFollowsFile
