SPECIFICATION Spec
CONSTANTS
    Floor = 1
    Totals = {3}
    Fits = {0, 1, 3}
    Heartbeat = 2
    VerdictTimeout = 1
    MaxUnschedulable = 1
    Faults <- MCAllFaults
    Budget = 2
PROPERTIES PoolEventuallyWhole CapacityEventuallyUsed ExpiredProbeResolved
