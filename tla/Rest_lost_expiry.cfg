CONSTANTS
    Task = {t1}
    Token = {k1, k2}
    Opaque = {}
    NoToken = NoToken
SPECIFICATION Spec
SYMMETRY TaskSymmetry
INVARIANTS ExpiryInSync
