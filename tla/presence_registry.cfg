SPECIFICATION Spec
CONSTANTS
    Agent = {a1}
    NoAgent = NoAgent
    Token = {t1, t2}
    NoToken = NoToken
    Conn = {k1, k2}
    NoConn = NoConn
    Req = {q1, q2}
    MaxCrashes = 0
CONSTRAINT Focus
SYMMETRY Interchangeable
INVARIANTS
    TypeOK
    RegistryIsOwn
PROPERTIES
    TokenNeverRevives
