SPECIFICATION Spec
CONSTANTS
    b1 = b1
    b2 = b2
    Batch = {b1}
    p1 = p1
    Page = {p1}
    NoTask = NoTask
    Ops <- WholeChain
    MaxAttempts = 1
    MaxChanges = 1
    Controls = {}
    Overtaken = {}
    Faults = {"fatal"}
INVARIANTS DeadDependenciesSettled
CHECK_DEADLOCK TRUE
