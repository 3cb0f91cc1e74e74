------------------------------ MODULE CoinIndex ------------------------------
(***************************************************************************)
(* What the index from addresses to coins promises its user,               *)
(* CTransactionRecordManager: for every address a set of coins that        *)
(* survives the process, and coins that join it with the next flush, all   *)
(* of them at once or, if the process dies first, none.                    *)
(* AddressToCoins implements it with buckets, slots and batches.           *)
(***************************************************************************)
CONSTANTS Key, Coin

VARIABLES
    stored,   \* stored[k]: what getCoins of the database returns
    pending   \* pending[k]: coins set since the last flush

indexVars == <<stored, pending>>

None == [k \in Key |-> {}]

Init == stored = None /\ pending = None

\* A coin is set for each of the addresses it pays to.
Set(K, c) ==
    /\ pending' = [k \in Key |-> IF k \in K THEN pending[k] \cup {c} ELSE pending[k]]
    /\ UNCHANGED stored

\* Erasing is written through, and does not touch a pending coin.
Erase(k, c) ==
    /\ stored' = [stored EXCEPT ![k] = @ \ {c}]
    /\ UNCHANGED pending

Flush ==
    /\ stored' = [k \in Key |-> stored[k] \cup pending[k]]
    /\ pending' = None

Clear == stored' = None /\ pending' = None

\* The process dies and starts again.
Die == pending' = None /\ UNCHANGED stored

Next ==
    \/ \E K \in SUBSET Key, c \in Coin : Set(K, c)
    \/ \E k \in Key, c \in Coin : Erase(k, c)
    \/ Flush \/ Clear \/ Die

Spec == Init /\ [][Next]_indexVars
=============================================================================
