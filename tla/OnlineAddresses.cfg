CONSTANTS
    Addresses = {a1, a2}
    Conns = {c1, c2, c3}
    MaxTime = 5
    None = None
SPECIFICATION Spec
SYMMETRY Symmetry
INVARIANTS TypeOK CountsConnections
PROPERTY NoneMissed
