SPECIFICATION Spec
CONSTANTS
    j1 = j1
    j2 = j2
    d1 = d1
    d2 = d2
    Job = {j1, j2}
    Doc = {d1, d2}
    Files <- OneShared
    MaxItem = 2
    Faults = {"download", "verify", "import", "storage", "damage"}
INVARIANTS
    TypeOK
    ImportedOnce
    ImportedIsWhole
    StagingIsNamed
PROPERTY
    CancelIsHeard
