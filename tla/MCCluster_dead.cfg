\* Three nodes and three clients; a node may crash, and nothing else goes wrong.
CONSTANTS
    Nodes = {A, B, C}
    Joins = {j1, j2, j3}
    MaxTries = 2
    Disturbances = {"stop"}
    NoNode = NoNode
SPECIFICATION Spec
INVARIANT SingleHost
SYMMETRY Interchangeable
CHECK_DEADLOCK FALSE
