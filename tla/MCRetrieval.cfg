CONSTANTS
    None = None
    Forever = 9
    Row = {1, 2, 3}
    Vault <- MCVault
    Context <- MCContext
    Request <- MCRequest
    Evidence = {"proof"}
    Links <- MCLinks
    Limit = 2
    Reserved = 2
    Low = 2
    Wrap = 1
    Base = 3
    HeadCost = 1
    RoleCost = 1
    LabelCost = 1
    Least = 3
    Needed <- MCNeeded
SPECIFICATION FairSpec
CHECK_DEADLOCK FALSE
INVARIANTS
    FitsBudget
    StateTellsDelivery
    DecisionsTellDelivery
    VisibleIsEligible
PROPERTY Ends
