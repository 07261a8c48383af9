SPECIFICATION SyncedFairSpec
CONSTANTS
    d1 = d1
    d2 = d2
    Device = {d1, d2}
    top = top
    leaf = leaf
    Row = {top, leaf}
    NoRow = NoRow
    Parent <- MCParent
    Ancestors <- MCAncestors
    CascadeRow = {leaf}
    WireRank <- LeafFirst
    Deletable = {top}
    Refusable = {}
    Resyncs = FALSE
    PageLimit = 2
    MaxClock = 4
    MaxEpoch = 1


PROPERTIES PushesGetThrough
