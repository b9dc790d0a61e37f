SPECIFICATION Spec
CONSTANTS
    Kinds <- MCKinds
    Groups <- MCGroups
    FirstKind = "Deployment"
    Scenarios <- MCScenarios
INVARIANT TypeOK
PROPERTIES ReplacementFirst NewcomerSpared RemovedGroupsSwept GroupsServed
