SPECIFICATION Spec
CONSTANTS
    b1 = b1
    b2 = b2
    Batch = {b1}
    p1 = p1
    Page = {p1}
    NoTask = NoTask
    Ops <- OcrAlone
    MaxAttempts = 1
    MaxChanges = 1
    Controls = {"pause", "resume"}
    Overtaken = {}
    Faults = {}
INVARIANTS ResumedUnitsGoOn
CHECK_DEADLOCK TRUE
