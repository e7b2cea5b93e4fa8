SPECIFICATION Spec
CONSTANTS
    t1 = t1
    t2 = t2
    b1 = b1
    b2 = b2
    NoTrace = NoTrace
    Traces <- TwoTraces
    Bodies = {b1}
    BodyOf <- SameBody
    Known <- AllKnown
    Garbled <- FillGarbled
    Answered = {t1, t2}
    Batch = 1
    MaxErrors = 1
    MaxRestarts = 1
    MaxSlow = 1
CHECK_DEADLOCK FALSE
INVARIANTS OneRowPerBody TimeoutOnce StoredWithoutFaults
PROPERTY PicksUnreportedRecent
