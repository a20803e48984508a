CONSTANTS
    Task = {t1, t2}
    Conn = {c1, c2}
    Token = {k1}
    Public = {price}
    User = {order}
    MaxAttempts = 2
    MaxAnswers = 2
    OneConnector = TRUE
    NoConn = NoConn
    NoToken = NoToken
SPECIFICATION Spec
SYMMETRY Symmetry
INVARIANTS TypeOK AuthenticatedIsLive SubscriptionsRestored NoOrphanConnection
PROPERTY ClosedWindsDown
