SPECIFICATION Spec
CONSTANTS
    Unset = ""
    MaxExact = 8
    Clients = {c1, c2}
    Ids = {i1, i2}
    Workflows = {"flow"}
    Rules <- ByImpact
    Approval = {"flow"}
    Inputs <- Requests
    NotAnObject = NotAnObject
    None = None
    MaxFaults = 1
INVARIANTS
    TypeOK
    CreationInOrder
    AcknowledgedIsComplete
    ReadsFindRuns
    RoutedAlike
SYMMETRY Symmetry
