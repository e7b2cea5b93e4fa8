SPECIFICATION FairSpec
CONSTANTS
    t1 = t1
    t2 = t2
    b1 = b1
    b2 = b2
    NoTrace = NoTrace
    Traces <- TwoTraces
    Bodies = {b1, b2}
    BodyOf <- OwnBody
    Known <- SignalsKnown
    Garbled = {}
    Answered = {t1}
    Batch = 1
    MaxErrors = 0
    MaxRestarts = 1
    MaxSlow = 0
CHECK_DEADLOCK FALSE
PROPERTIES EveryRowReported
