SPECIFICATION Spec
CONSTANTS
    Floor = 1
    Totals = {1, 3}
    Fits = {0, 2, 4}
    Heartbeat = 2
    VerdictTimeout = 1
    MaxUnschedulable = 2
    Faults <- MCClusterFaults
    Budget = 3
INVARIANT OnlyTheProbeIsSurplus
PROPERTY NoSpeculativeKill
