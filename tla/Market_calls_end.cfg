CONSTANTS
    Task = {t1, t2}
    Conn = {c1, c2}
    Token = {k1}
    Public = {price}
    User = {}
    MaxAttempts = 2
    MaxAnswers = 1
    OneConnector = TRUE
    NoConn = NoConn
    NoToken = NoToken
SPECIFICATION FairSpec
PROPERTIES CallsEnd
