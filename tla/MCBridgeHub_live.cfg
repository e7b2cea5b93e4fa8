SPECIFICATION FairSpec
CONSTANTS
    c1 = c1
    c2 = c2
    i1 = i1
    i2 = i2
    Instances = {i1}
    Conns = {c1, c2}
    NoConn = NoConn
    NoInst = NoInst
    LossyPublish = FALSE
    MaxRestarts = 0
PROPERTIES
    DeadPeerLeavesHub
CHECK_DEADLOCK FALSE
