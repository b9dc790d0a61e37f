SPECIFICATION Spec
CONSTANTS
    Kinds <- MCKinds
    Groups <- MCGroups
    FirstKind = "Deployment"
    Scenarios <- MCKindEdits
PROPERTY StaleKindsSwept
