CONSTANTS
    Task = {t1, t2}
    Conn = {c1, c2}
    Login = {l1}
    Order = {o1, o2}
    MaxAttempts = 2
    NoConn = NoConn
    NoRequest = NoRequest
SPECIFICATION Spec
SYMMETRY Symmetry
INVARIANTS TypeOK NothingIsResent
PROPERTIES ClosedWindsDown RequestsImplemented
