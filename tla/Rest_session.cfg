CONSTANTS
    Task = {t1, t2}
    Token = {k1, k2, k3}
    Opaque = {k3}
    NoToken = NoToken
SPECIFICATION Spec
SYMMETRY TaskSymmetry
INVARIANTS TypeOK ExpiryIsOfHeader NothingIsReplayed LoginReachesRequests
CHECK_DEADLOCK FALSE
