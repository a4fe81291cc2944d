CONSTANTS
    Users = {u1}
    Limits = {0}
    Listeners = {l1, l2, bad}
    Invalid = {bad}
    Rules = {r1}
    BadRules = {}
    CanFail = {"rebuild"}
    MaxChanges = 3
    None = None
SPECIFICATION FairSpec
PROPERTIES Converges ListenerClosed
