SPECIFICATION RenderSpec
CONSTANTS
    Groups = 2
    Templates <- MCTemplates
    Overrides <- MCOverrides
    Maps <- MCMaps
    Depth <- MCDepth
    MaxDepth = 5
    Targets = {2}
    Counts <- MCCounts
    MaxInt32 = 3
INVARIANTS OwnedFieldsWin UserFieldsKept CountsCompareAlike
CHECK_DEADLOCK FALSE
