CONSTANTS
    Clients = {c1, c2}
    NoClient = NoClient
    Requests <- MCRequests
    RequestBytes = 3
    Backlog = 0
    ImageRows = 2
    Scale = 2
    MaxDraws = 1
SPECIFICATION Spec
CHECK_DEADLOCK FALSE
INVARIANTS
    ServeInv
PROPERTIES
    Served
