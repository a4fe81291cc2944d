CONSTANTS
    Users = {u1}
    Limits = {0, 1}
    Listeners = {l1, l2}
    Invalid = {}
    Rules = {}
    BadRules = {}
    CanFail = {"rebuild"}
    MaxChanges = 2
    None = None
SPECIFICATION Spec
INVARIANT SpeedLimitApplied
