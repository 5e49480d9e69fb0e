SPECIFICATION WaitsSpec
CONSTANTS
    Workers = {"w1", "w2"}
    Batches = {"b1"}
    Requests = {"r1", "r2"}
    BatchOf <- BothInOne
    Handles = {"h1"}
    NoJob = "none"
    NoOne = "none"
    Size = 3
    Takers = {"t1", "t2"}
    Peers = {"p1", "p2"}
    Setters = {"s1"}
    MaxSets = 2
    MaxMessages = 4
    PageSize = 2
    Callers = {"c1"}
    Orders <- FourOrders
    NoWriter = "none"
    Arrivals = {"q1", "q2"}
    Adders = {"x1"}
    AddsTo <- ToWatchers
    MaxCallbacks = 2
    MaxEvents = 5
    EventsPerPage = 2
PROPERTIES
    PoolAnswers
    GroupsAnswer
    ListenerObeys
    PagesAnswer
    PipelineAnswers
CHECK_DEADLOCK FALSE
