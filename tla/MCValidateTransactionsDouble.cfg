SPECIFICATION Spec
INVARIANT NoDoubleSpend
CONSTANTS
    o = o  n = n  c = c  s = s
    b1 = b1  b2 = b2  b3 = b3
    x1 = x1  y1 = y1  y2 = y2  y3 = y3  z1 = z1  z2 = z2  w1 = w1
    Tracker = {o}
    Bundle = {b2}
    Tx = {z1, z2}
    PeersOf <- MCPeersOf
    OriginOf <- MCOriginOf  BundleOf <- MCBundleOf  Order <- MCOrder
    Signed <- MCSigned  Output <- MCOutput  RecordOf <- MCRecordOf
    IndexOf <- MCIndexOf  Spends <- MCSpends  Makes <- MCMakes
    Genesis <- MCGenesis
    FeeVaries = FALSE
    MayLose = FALSE
    SlowTimers = FALSE
CHECK_DEADLOCK FALSE
