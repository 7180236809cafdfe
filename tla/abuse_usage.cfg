SPECIFICATION Spec
CONSTANTS
    Customer = {c1}
    Proxy = {x1}
    Owner <- OwnerOf
    Conn = {q1, q2}
    Nobody = Nobody
    Limit = 1
    WarnAt = 2
    BlockAt = 2
    SuspendAt = 3
    WarnSpan = 1
    BlockSpan = 2
    SuspendSpan = 4
    MaxScore = 20
    Delta <- Deltas
CONSTRAINT Focus
INVARIANTS
    UsageIsMetered
