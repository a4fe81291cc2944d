CONSTANTS
    Keys = {k1, k2, k3, k4, k5}
    repeatWindow = 2
    eventInterval = 1
    eventBurst = 2
    maxTracked = 4
    MaxHeld = 2
    None = None
SPECIFICATION Spec
SYMMETRY Symmetry
INVARIANTS TrackedBounded CountAllOrNone
PROPERTY OncePerWindow
