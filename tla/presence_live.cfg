SPECIFICATION FairSpec
CONSTANTS
    Agent = {a1}
    NoAgent = NoAgent
    Token = {t1}
    NoToken = NoToken
    Conn = {k1}
    NoConn = NoConn
    Req = {q1}
    MaxCrashes = 1
PROPERTIES
    SilentGoesOffline
