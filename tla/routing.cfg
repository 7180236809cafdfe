SPECIFICATION Spec
CONSTANTS
    Proxy = {x1, x2}
    Agent = {g1, g2}
    Pool = {o1}
    AgentOf <- OwnAgent
    PoolOf <- OnePool
    Key = {k1, k2}
    Anonymous = {k2}
    Fits <- AllFit
    Duration <- Durations
    Req = {q1, q2}
    Latency = {100}
    Window = 1
    MaxLoad = 1
    Nothing = Nothing
SYMMETRY Alike
CONSTRAINT Focus
INVARIANTS
    TypeOK
    StickyKept
    StickyStable
    AvailableWasFit
    
