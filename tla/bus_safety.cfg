SPECIFICATION Spec
CONSTANTS
    Cmd = {c1}
    Conn = {k1, k2}
    Worker = {w1, w2}
    Job = {j1}
    NoKey = NoKey
    NoConn = NoConn
    NoCmd = NoCmd
    key = key
    KeyOf <- NoKeys
    MaxAttempts = 2
    ChanCap = 1
    UpCap = 1
    MaxCrashes = 1
    c1 = c1  c2 = c2  k1 = k1  k2 = k2  w1 = w1  w2 = w2  w3 = w3  j1 = j1  j2 = j2
SYMMETRY Slots
INVARIANTS
    TypeOK
    DispatchEvidence
    CompletedWasExecuted
    DeadLetterIsExhausted
    NoLostWakeup
    RegisteredIsOpen
PROPERTIES
    ImplementsContract
