SPECIFICATION ServerSpec
CONSTANTS
    Sources = {"a", "b"}
    Programs = {"p", "q"}
    Layouts <- MCLayouts
    Requests = {r1}
    MaxEdits = 2
    Faults = {"first"}
    NoSnapshot = NoSnapshot
PROPERTY RequestsAnswered
CHECK_DEADLOCK FALSE
