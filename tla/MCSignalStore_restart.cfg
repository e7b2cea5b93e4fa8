SPECIFICATION Spec
CONSTANTS
    t1 = t1
    t2 = t2
    b1 = b1
    b2 = b2
    NoTrace = NoTrace
    Traces <- OneTrace
    Bodies = {b1}
    BodyOf <- OneBody
    Known <- OneKnown
    Garbled = {}
    Answered = {t1}
    Batch = 1
    MaxErrors = 0
    MaxRestarts = 1
    MaxSlow = 0
CHECK_DEADLOCK FALSE
INVARIANT AckedSignalIsStored
