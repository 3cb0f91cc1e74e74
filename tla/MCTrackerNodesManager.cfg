SPECIFICATION Spec
INVARIANT LocksAreOrdered
CONSTANTS
    n1 = n1  n2 = n2  k1 = k1
    Node = {n1, n2}
    KeyOf <- MCKeyOf
    AddressOf <- MCAddressOf
    NoNode = NoNode  NoKey = NoKey
CHECK_DEADLOCK FALSE
