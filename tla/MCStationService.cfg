SPECIFICATION ServiceSpec
SYMMETRY OperatorSymmetry
CONSTANTS
    StationIds = {"s1"}
    BatchIds = {"b1"}
    Observations = {"calm"}
    InRange = {"calm"}
    Times = {1}
    MaxFailures = 3
    Operators = {o1, o2}
    Batches <- MCBatches
    FaultPlans = {}
INVARIANTS
    ServiceInv
    NeverAhead
PROPERTIES
    RetiredForGood
    ProblemsHaveACause
    StoreIsRespected
