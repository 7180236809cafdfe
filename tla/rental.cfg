SPECIFICATION Spec
CONSTANTS
    Customer = {c1}
    Plan = {p1}
    Sub = {s1}
    Invoice = {i1}
    Alloc = {a1, a2}
    Proxy = {x1, x2}
    Key = {k1}
    Req = {q1, q2}
    Nobody = Nobody
    Nothing = Nothing
    NoCopy = NoCopy
    MaxProxies = 1
    MaxRefunds = 2
    MaxSecrets = 3
SYMMETRY Alike
CONSTRAINT Focus
INVARIANTS
    TypeOK
    QuotaOvershoot
    RefundedOncePerPayment
    RevokedKeysStay
    LoginIsIssued
    BarredLosesProxies
