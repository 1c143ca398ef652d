SPECIFICATION QuerySpec
CONSTANTS
    StationIds = {"s1"}
    BatchIds = {"b1", "b2"}
    Observations = {"calm"}
    InRange = {"calm"}
    Times = {1}
    MaxFailures = 0
    Operators = {o1}
    Clients = {c1}
    SnapshotLimit = 1
    Batches <- MCBatches
    FaultPlans = {}
    PageLimits = {0, 1}
INVARIANTS
    QueryTypeOK
    ShownFitsTogether
    ShownIsDurable
    PagesJoin
PROPERTIES
    NeverBackwards
