SPECIFICATION Spec
CONSTANTS
    Scalings <- MCOneGroup
    Totals = {0, 2}
    Deadline = 2
    Faults <- MCFaults
    Budget = 2
INVARIANTS ReadyMeansSizedAboveZero FreshDeadline
PROPERTIES StatusEventuallyTrue StuckEventuallyReported
