-------------------------- MODULE MCAddressToCoins --------------------------
(* Three coins of one bucket, two of which a flush can bring while the third *)
(* leaves a hole, and one coin of another bucket.                            *)
EXTENDS AddressToCoins, TLC
CONSTANTS b1, b2, c1, c2, c3, c4
MCBucketOf == [c \in Coin |-> IF c = c4 THEN b2 ELSE b1]
CoinSymmetry == Permutations({c1, c2, c3})
=============================================================================
