CONSTANTS
    Users = {u1, u2}
    States = {s1, s2, s3, s4}
    Conns = {c1}
    Chunks = {b1, b2}
    None = None
SPECIFICATION Spec
SYMMETRY Symmetry
INVARIANTS TypeOK RightAccount CountedOnce ServedTrafficKept
PROPERTY ImplementsBilling
VIEW View
