SPECIFICATION Spec
CONSTANTS
    N = 3
    Scalings <- MCScalings
    Totals <- MCTotals
    Capacities <- MCCapacities
INVARIANTS
    TypeOK
    EveryReplicaAccountedFor
    CeilingHonoured
    CascadeOrder
    DeclaredShareFirst
    FreeCapacityFirst
    UnplacedOnlyAtCeilings
    MatchesClosedForm
PROPERTY ImplementsAllocation
CHECK_DEADLOCK FALSE
