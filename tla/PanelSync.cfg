CONSTANTS
    Users = {u1}
    Limits = {0, 1, 2}
    Listeners = {l1, l2, bad}
    Invalid = {bad}
    Rules = {r1, r2}
    BadRules = {r2}
    CanFail = {"rebuild", "update"}
    MaxChanges = 2
    None = None
SPECIFICATION Spec
SYMMETRY Symmetry
INVARIANTS TypeOK ETagMeansApplied OneListener AuthenticatesTable SpeedLimitFollows
PROPERTY NodeFollowsTable
