SPECIFICATION Spec
CONSTANTS
    Peers = {p1}
    Servers = {p1}
    None = None
    Anchor = 1
    Chunks = 2
    MAX_PAGE_SIZE = 2
    MAX_CONSECUTIVE_SYNC_FAILURES = 2
    MaxTip = 2
    MaxWire = 1
    MaxForks = 1
    MaxLosses = 1
    MaxDrops = 1
INVARIANT NeverHaltsOnHonestPeers
PROPERTY RevertsOnlyTheUncertified
PROPERTY CatchesUp
