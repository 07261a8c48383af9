SPECIFICATION ParkedSpec
CONSTANTS
    d1 = d1
    d2 = d2
    Device = {d1, d2}
    top = top
    leaf = leaf
    Row = {top, leaf}
    NoRow = NoRow
    Parent <- MCParent
    Ancestors <- MCAncestors
    CascadeRow = {leaf}
    WireRank <- LeafFirst
    Deletable = {top}
    Refusable = {}
    Resyncs = FALSE
    PageLimit = 1
    MaxClock = 5
    MaxEpoch = 1
SYMMETRY DeviceSymmetry
INVARIANTS ForeignKeysHold CleanRowsMatchTheirVersion NoUpsertSkipped
PROPERTIES PendingEditsUntouched VersionsOnlyAdvance
