SPECIFICATION Spec
CONSTANTS
    b1 = b1
    b2 = b2
    Batch = {b1}
    p1 = p1
    Page = {p1}
    NoTask = NoTask
    Ops <- OcrThenDerived
    MaxAttempts = 2
    MaxChanges = 2
    Controls = {"pause", "resume", "cancel", "retry"}
    Overtaken = {"pause", "resume", "cancel"}
    Faults = {"retry", "limited", "fatal", "required", "deferred", "stale", "drift", "publish"}
INVARIANTS TypeOK HolderIsCurrent
PROPERTIES KeepsItsPromise
CHECK_DEADLOCK TRUE
