SPECIFICATION Spec
CONSTANTS
    c1 = c1
    c2 = c2
    i1 = i1
    i2 = i2
    Instances = {i1, i2}
    Conns = {c1, c2}
    NoConn = NoConn
    NoInst = NoInst
    LossyPublish = TRUE
    MaxRestarts = 1
SYMMETRY Symmetry
INVARIANTS
    TypeOK
    HubEntryIsServed
    SupersededIsClosed
    EventsPaired
PROPERTIES
    ImplementsDirectory
CHECK_DEADLOCK FALSE
