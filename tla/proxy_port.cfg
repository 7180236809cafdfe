SPECIFICATION FairSpec
CONSTANTS
    Proxy = {p1, p2}
    NoProxy = NoProxy
    Port = {n1}
    PortOf <- OnePort
    Node = {v1}
    NodeOf <- OneNode
    Rental = {p1}
    Req = {q1, q2}
    Sweeper = Sweeper
    Main = Main
    Free = Free
    MaxCrashes = 1
    p1 = p1  p2 = p2  n1 = n1  v1 = v1
INVARIANTS
    TypeOK
    RunningHasListener
    StraysWereRaced
PROPERTIES
    BootReopens
    ExpirySettles
