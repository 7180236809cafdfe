SPECIFICATION Spec
CONSTANTS
    Node = {v1, v2}
    Agent = {a1}
    LocalAgent = a1
    NoAgent = NoAgent
    Types <- MockOnly
    Req = {q1}
    Free = Free
    NoNode = NoNode
    MaxCrashes = 0
SYMMETRY Alike
INVARIANTS
    SingleSession
