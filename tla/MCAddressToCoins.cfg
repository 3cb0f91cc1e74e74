CONSTANTS
    b1 = b1
    b2 = b2
    c1 = c1
    c2 = c2
    c3 = c3
    c4 = c4
    Key = {k1}
    Coin = {c1, c2, c3, c4}
    Bucket = {b1, b2}
    BucketOf <- MCBucketOf
    MaxPending = 2
    MayRestart = TRUE
SPECIFICATION Spec
INVARIANTS
    TypeOK
    NoOrphanCoin
    NoDoubleCoin
PROPERTY
    ImplementsCoinIndex
SYMMETRY
    CoinSymmetry
