SPECIFICATION Spec
CONSTANTS
    Node = {v1, v2}
    Agent = {a1}
    LocalAgent = a1
    NoAgent = NoAgent
    Types <- AllTypes
    Req = {q1, q2}
    Free = Free
    NoNode = NoNode
    MaxCrashes = 1
SYMMETRY Alike
INVARIANTS
    TypeOK
    SessionsAgree
    RowsMatchInterfaces
    OrphansWereRaced
    SessionsPerRun
