SPECIFICATION Spec
CONSTANTS
    g = g  a = a  b = b  c = c  u = u
    k1 = k1  k2 = k2  k3 = k3
    Tx = {g, a, b, c, u}
    Key = {k1, k2, k3}
    Output <- MCOutput
    TxOf <- MCTxOf
    IndexOf <- MCIndexOf
    KeyOf <- MCKeyOf
    Spends <- MCSpends
    Unreadable = {u}
    Validated <- MCValidated
    Retrieved <- MCRetrieved
    Coinbase <- MCCoinbase
    UsedTimePeriod = 1
    PeriodsCount = 2
    Asked = {a}
    MaxTime = 8
    MaxBundles = 5
    MaxCrashes = 1
INVARIANTS
    TypeOK
    ConfirmedIsDurable
    RecentIsFindable
    RecentIsBounded
    IndexAgrees
