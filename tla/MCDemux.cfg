CONSTANTS
    Frontends = {1}
    Filters = {1, 2, 3}
    Kind <- MCKind
    Pids = {1}
    MaxGen = 2
    EventCapacity = 1
    AvFilters = {1, 2}
    Lengths = {1, 2}
    MaxEventBytes = 2
    MaxOutstanding = 2
    PerFilterBytes = 2
    BudgetBytes = 3
    PendingCapacity = 1
    MaxId = 3
    RecFilters = {1, 2}
    RecDvrs = {d1, d2}
    Room = 1
    IndexCapacity = 1
    MaxOffset = 2
    DelayHint <- MCDelayHint
SPECIFICATION PartsSpec
INVARIANTS
    SourceGraphSound
    NoStaleData
    BudgetExact
    DeliveredStaysMapped
    OffsetExact
CHECK_DEADLOCK FALSE
