SPECIFICATION Spec
CONSTANTS
    Paths <- MCPaths
    Holder <- MCHolder
    Values <- MCValues
    Plans <- MCPlans
    Variants <- MCVariants
    Settings <- MCSettings
    ValueIn <- MCValueIn
    Units <- MCUnits
    Batches <- MCBatches
    None = None
    Top = "top"
    Capacity = 2
    u1 = u1
    u2 = u2
    u3 = u3
    Sources = {"backend", "app"}
    TrustedSources = {"backend"}
    Goals = {1, 2}
    MaxRows = 2
    Target = 1
    AllowedFaults = 1
    NoRow = NoRow
    NoGoal = NoGoal
    NoDecision = NoDecision
    Idle = Idle
    MaxChanges = 3
SYMMETRY UnitSymmetry
INVARIANTS
    TotalsMatchLedger
    PreflightAgrees
    ShippedIsWinner
PROPERTIES
    DecisionIsFinal
CHECK_DEADLOCK FALSE
