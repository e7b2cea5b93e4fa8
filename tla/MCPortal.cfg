SPECIFICATION MCSpec
CONSTANTS
    s1 = s1
    s2 = s2
    s3 = s3
    Requests = {r1, r2}
    Emails = {e1, e2}
    Instances = {i1, i2}
    Conns = {c1, c2}
    Attempts = {a1}
    MaxTasks = 2
    Raw <- RawOf
    MaxSecrets = 4
    MaxTrades = 2
    MaxFaults = 1
SYMMETRY Symmetry
INVARIANTS
    TwoStatementsAreWhole
    RotationKeepsAccess
    
PROPERTY SecretsMoveForward
CHECK_DEADLOCK FALSE
