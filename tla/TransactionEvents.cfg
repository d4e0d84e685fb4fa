SPECIFICATION Spec
CONSTANTS
    a = a
    b = b
    Workers = {a, b}
    Refs = {"p", "q"}
    NoRef = "none"
    Reports <- SomeReports
    Requested <- SomeRequests
    Fields = {"charge", "no money"}
    Inputs = {1}
    Times = {0, 1}
    Now = 1
    MaxEvents = 3
INVARIANTS TypeOK SingleEvent LedgerShown
PROPERTIES UpdateSticks
CHECK_DEADLOCK FALSE
SYMMETRY WorkerSymmetry
