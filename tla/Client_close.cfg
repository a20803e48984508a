CONSTANTS
    Task = {t1, t2}
    Market = {m1, m2}
    Order = {o1}
    Token = {k1, k2}
    MaxCalls = 1
    NoToken = NoToken
SPECIFICATION Spec
SYMMETRY ClientSymmetry
INVARIANTS ClientTypeOK ClosedMeansClosed StreamsShareTheToken
PROPERTY RenewalReachesStreams
CHECK_DEADLOCK FALSE
