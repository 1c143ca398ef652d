SPECIFICATION ReceptionSpec
CONSTANTS
    StationIds = {"s1"}
    BatchIds = {"", "b1", "b2"}
    Observations = {"calm", "dry", "hot", "weak"}
    InRange = {"calm", "dry", "hot", "weak"}
    Dry = {"dry"}
    Weak = {"weak"}
    Hot = {"hot"}
    Times = {1}
    MaxFailures = 0
    Operators = {}
    Posters = {p1}
    Replayers = {runner}
    Expiring = {}
    MaxBatch = 2
    MaxAge = 1
    Limit = 100
    DrainLimits = {1}
    MaxCalls = 3
    JournalSize = 4
    Batches <- MCBatches
    Posts <- MCBatches
    FaultPlans <- MCFaultPlans
INVARIANTS
    AlarmsAreRaised
