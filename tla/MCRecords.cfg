SPECIFICATION Spec
CONSTANTS
    Groups = {"base", "spot"}
    Opportunistic = {"spot"}
    Erratic = {"spot"}
    Types = {"Ancient", "Foreign"}
    Retired = {"Ancient"}
    Scenarios <- MCScenarios
INVARIANT DeletionNoticed
PROPERTIES GoneIsForgotten LivingIsExported RowsFollowSpec SeriesFollowStatus
CHECK_DEADLOCK FALSE
