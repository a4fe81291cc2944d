CONSTANTS
    Users = {u1}
    w1 = w1
    w2 = w2
    Words = {w1, w2}
    Domains = {w1}
    Addrs <- MCAddrs
    NoAddr = NoAddr
    RuleLists <- MCRuleLists
    Conns = {c1}
    MaxHits = 2
    None = None
SPECIFICATION FairSpec
INVARIANTS TypeOK HitKept PrivateUnreached
PROPERTY HitReported
