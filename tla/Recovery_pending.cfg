SPECIFICATION RecoverySpec
CONSTANTS
    Task = {t1, t2}
    Id = {a, b}
    MaxVersion = 1
    UpdatedAt <- SingleState
    StaleReads = TRUE
    EventsAhead = TRUE
    NoTask = NoTask
    NoId = NoId
    Request = {r1, r2}
    ReuseIds = FALSE
    Absent = Absent
    NoRequest = NoRequest
SYMMETRY Symmetry
PROPERTIES ResolvedByItsOwnOrder ReconcilerImplemented
