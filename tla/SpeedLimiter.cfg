CONSTANTS
    Conns = {c1, c2}
    Limits = {0, 1, 3}
    MinBurst = 2
    MaxBurst = 3
    Sizes = {1, 3}
    MaxMade = 3
    MaxSets = 3
    MaxBytes = 6
    None = None
SPECIFICATION FairSpec
INVARIANTS TypeOK RefusedOnlyWhenOvertaken WithinTheLimit
PROPERTY TransferEnds
CHECK_DEADLOCK FALSE
