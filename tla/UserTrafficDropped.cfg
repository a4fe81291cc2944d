CONSTANTS
    Users = {u1}
    States = {s1, s2, s3}
    Conns = {c1}
    Chunks = {b1}
    None = None
SPECIFICATION Spec
INVARIANT NothingLeftInDropped
