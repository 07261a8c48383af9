SPECIFICATION Spec
CONSTANTS
    d1 = d1
    d2 = d2
    Device = {d1, d2}
    r1 = r1
    Row = {r1}
    NoRow = NoRow
    Parent <- MCParent
    Ancestors <- MCAncestors
    CascadeRow = {}
    WireRank <- MCRank
    Deletable = {r1}
    Refusable = {r1}
    Resyncs = TRUE
    PageLimit = 1
    MaxClock = 3
    MaxEpoch = 2
SYMMETRY DeviceSymmetry
INVARIANTS TypeOK CleanRowsMatchTheirVersion NoUpsertSkipped
PROPERTIES EditsLeaveOnlyWhenJudged
CHECK_DEADLOCK TRUE
