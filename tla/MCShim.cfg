SPECIFICATION Spec
CONSTANTS
    half = half
    full = full
    walk = walk
    rev = rev
    s1 = s1
    s2 = s2
    Traces = {half, full, walk, rev}
    Signals = {s1, s2}
    Cmd <- CmdOf
    SigOf <- SigOfLeg
    Channel <- ChannelOf
    TPof <- TPofLeg
    Buys = TRUE
    BreakevenOn = {"room"}
    AmendsStop = {}
    MaxExec = 1
    MaxTraces = 3
    MaxFaults = 1
INVARIANTS
    
    BreakevenJustified
    ClosedTradesAreTrue
    ResolutionIsComplete

    
CHECK_DEADLOCK FALSE
