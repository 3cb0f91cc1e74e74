SPECIFICATION FairSpec
PROPERTY OriginDecides
CONSTANTS
    o = o  n = n  c = c  s = s
    b1 = b1  b2 = b2  b3 = b3
    x1 = x1  y1 = y1  y2 = y2  y3 = y3  z1 = z1  z2 = z2  w1 = w1
    Tracker = {o, n, c}
    Bundle = {b1, b2}
    Tx = {x1, z1}
    PeersOf <- MCLineOf
    OriginOf <- MCOriginOf  BundleOf <- MCBundleOf  Order <- MCOrder
    Signed <- MCSigned  Output <- MCOutput  RecordOf <- MCRecordOf
    IndexOf <- MCIndexOf  Spends <- MCSpends  Makes <- MCMakes
    Genesis <- MCGenesis
    FeeVaries = FALSE
    MayLose = TRUE
    SlowTimers = FALSE
CHECK_DEADLOCK FALSE
