CONSTANTS
    MaxBacklog = 2
    ErrorLimit = 2
    MaxBars = 3
    MaxStarts = 2
    Candidates = {"a", "b"}
    Nobody = "Nobody"
    Window = 2
    MaxMinute = 3
    DecisionIds = {"buy"}
    Signed <- OneUnit
    Runners = {"runner"}
    Agents = {"agent"}
    Operators = {}
    VolumePerUnit = 1
    BrokerId <- OwnId
    NoId = "no_id"
    MaxFailures = 1
    MaxFaults = 1
    MaxRebases = 0
    Jobs = {"j1", "j2"}
    CohortSize = 2
    MAX_ATTEMPTS = 1
    KeptArchives = 1
    MaxMarket = 6
    AccountIds = {"a", "b", "c"}
    Capacity = 1
    KeptArchive = 2
    LastBar = 2
    Plans = {"p", "q"}
    Variants = {"v", "w"}
    ServerCalls = {"c1", "c2"}
    Commands = {"f"}
    MaxVariants = 1
    MaxRunningPlans = 2
    MaxUnresolved = 2
    MAX_MISSING_CHECKS = 2
SPECIFICATION PartsSpec
INVARIANTS
    OrdersAreCertain
PROPERTIES
    HaltsHold
    ValidationIsProtected
    CandidatesTradeSafely
    BooksHold
    CallsAreAccounted
    NotesAreKept
    CallersKeepContract
    OperatorStarts
    ImplementsOrders
VIEW PartView
CHECK_DEADLOCK FALSE
