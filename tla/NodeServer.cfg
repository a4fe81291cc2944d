CONSTANTS
    Answers <- MCAnswers
    LocalTLS = {"none", "acme"}
    Invalid = Invalid
    Lists <- MCLists
    UUIDs = {"u1", "u2"}
    UserKeys = {"k1", "k2"}
    Empty = ""
    Conns = {c1}
SPECIFICATION FairSpec
INVARIANTS TypeOK ServiceFollowsList OnlyListedRouted NeverPlain NothingLeftOpen
PROPERTY CloseReturns
CHECK_DEADLOCK FALSE
