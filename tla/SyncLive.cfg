SPECIFICATION FairSpec
CONSTANTS
    d1 = d1
    d2 = d2
    Device = {d1, d2}
    top = top
    leaf = leaf
    Row = {top, leaf}
    NoRow = NoRow
    Parent <- MCParent
    Ancestors <- MCAncestors
    CascadeRow = {leaf}
    WireRank <- TopFirst
    Deletable = {leaf}
    Refusable = {}
    Resyncs = FALSE
    PageLimit = 1
    MaxClock = 3
    MaxEpoch = 1


PROPERTIES Converges
