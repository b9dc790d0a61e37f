SPECIFICATION Spec
CONSTANTS
    blue = blue
    green = green
    Pools <- MCPools
    Grace = 1
    Scenarios <- MCScenarios
INVARIANT WatchedOnce
PROPERTIES EventuallyObserved MissingKindReported
