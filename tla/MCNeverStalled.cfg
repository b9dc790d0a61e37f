SPECIFICATION Spec
CONSTANTS
    Scalings <- MCOneGroup
    Totals = {2}
    Deadline = 2
    Faults <- MCFailure
    Budget = 1
PROPERTY EveryStuckGroupReported
