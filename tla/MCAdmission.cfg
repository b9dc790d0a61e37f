SPECIFICATION Spec
CONSTANTS
    Specs <- MCSpecs
    Totals = {1, 4}
    Capacities = {0, 2}
    Users <- MCUsers
    MayCreate <- MCMayCreate
INVARIANTS AdmittedStaysSound KindAuthorized ErrorsInherited RepairAccepted DefaultedPausable WarningsTrue
