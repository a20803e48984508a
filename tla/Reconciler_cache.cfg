SPECIFICATION Spec
CONSTANTS
    Task = {t1, t2, t3}
    Id = {a}
    MaxVersion = 4
    UpdatedAt <- TiedOrUntimed
    StaleReads = FALSE
    EventsAhead = FALSE
    NoTask = NoTask
    NoId = NoId
SYMMETRY TaskSymmetry
INVARIANTS TypeOK LockGuardsRefresh QueueIsExact WatermarkIsReflected
PROPERTIES WatermarkNeverRegresses OrdersNeverRegress
