SPECIFICATION Spec
CONSTANTS
    b1 = b1
    b2 = b2
    Batch = {b1, b2}
    p1 = p1
    Page = {p1}
    NoTask = NoTask
    Ops <- DerivedAlone
    MaxAttempts = 1
    MaxChanges = 1
    Controls = {"pause", "resume", "cancel", "retry"}
    Overtaken = {}
    Faults = {"fatal"}
INVARIANTS OneFlight RunsOnlyWhenAsked
PROPERTIES PauseIsReached WithdrawnIsLetGo
CHECK_DEADLOCK TRUE
