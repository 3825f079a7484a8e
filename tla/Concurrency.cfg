SPECIFICATION ConcurrentSpec
CONSTANTS
    Threads = {t1, t2, t3}
    Messages = {m1, m2}
    NoMessage = NoMessage
    Capacity = 2
    Copy = TRUE
    Tasks = {k1, k2}
    MaxDepth = 2
    Main = main
    Workers = {w1, w2}
    Jobs = {j1, j2}
    None = None
    JobCap = 1
    AnswerCap = 0
    PoolCopy = TRUE
    Sources = {"a", "b"}
    Programs = {"p", "q"}
    Layouts <- MCLayouts
    Requests = {r1}
    MaxEdits = 3
    Faults = {}
    NoSnapshot = NoSnapshot
INVARIANTS
    NoLostWakeup
    RingBeforeMessages
    RefsAreHolders
    ThreadOwnsItsTask
    ScopeOutlivesItsTasks
    RunsOnce
    ScopeListIsDense
    FreeIsSafe
    EveryJobAnsweredOnce
    SettledIsCurrent
PROPERTIES
    ImplementsQueue
    ImplementsChannel
    CloseEndsCalls
    WaitsEnd
    PoolFinishes
    RequestsAnswered
