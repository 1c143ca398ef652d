SPECIFICATION ServiceSpec
SYMMETRY OperatorSymmetry
CONSTANTS
    StationIds = {"s1"}
    BatchIds = {"b1"}
    Observations = {"calm"}
    InRange = {"calm"}
    Times = {1}
    MaxFailures = 3
    Operators = {o1}
    Batches <- MCBatches
    FaultPlans = {}
INVARIANT NoProblems
