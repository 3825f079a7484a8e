SPECIFICATION ServerSpec
CONSTANTS
    Sources = {"a", "b"}
    Programs = {"p", "q"}
    Layouts <- MCTwoPrograms
    Requests = {r1}
    MaxEdits = 3
    Faults = {}
    NoSnapshot = NoSnapshot
INVARIANT SettledIsCurrent
CHECK_DEADLOCK FALSE
