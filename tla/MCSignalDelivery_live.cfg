SPECIFICATION FairSpec
CONSTANTS
    m1 = m1
    m2 = m2
    mt5 = mt5
    mt4 = mt4
    c1 = c1
    c2 = c2
    i1 = i1
    Instances = {i1}
    Conns = {c1}
    NoConn = NoConn
    NoInst = NoInst
    Signals = {m1, m2}
    Subs = {mt5}
    InstOf <- OneInst
    SubOf <- OneSub
    Garbled = {m2}
    MaxDeliver = 2
    MaxFaults = 1
    MaxDrops = 1
    MaxRestarts = 1
PROPERTIES
    EverySignalSettles
CHECK_DEADLOCK FALSE
