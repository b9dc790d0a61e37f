SPECIFICATION Spec
CONSTANTS
    N = 2
    Scalings <- MCAdmissible
    Totals <- MCTotals
    Capacities <- MCCapacities
INVARIANT ColdStartOffersEverythingLeft
CHECK_DEADLOCK FALSE
