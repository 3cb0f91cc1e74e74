------------------------ MODULE AddressToCoinsProofs ------------------------
(***************************************************************************)
(* Proofs about AddressToCoins, for any addresses, coins and buckets, any  *)
(* number of coins in a flush, and a crash anywhere in it; the refinement  *)
(* of CoinIndex for flushes of at most two coins of an address.            *)
(***************************************************************************)
EXTENDS AddressToCoins, TLAPS

\* Between flushes the locals of batchWrite do not exist.
IdleEmpty == phase = "idle" => BatchEmpty

\* What the local amount of an address and bucket is worth.  It is the first
\* one of the flush; the batch may be one ahead of it, and then no slot below
\* is free, so that the batch never falls back.
AmountsBound ==
    phase = "batch" => \A k \in Key, b \in Bucket :
        /\ amounts[k][b] = NoAmount => amountBatch[k][b] = NoAmount
        /\ amounts[k][b] # NoAmount =>
              /\ coinsAmount[k][b] <= amounts[k][b]
              /\ \/ amountBatch[k][b] = amounts[k][b]
                 \/ /\ amountBatch[k][b] = amounts[k][b] + 1
                    /\ FreeSlots(k, b) = {}

\* Every coin of the batch lies below the amount written before it.
BatchBelow ==
    \A s \in coinsBatch :
        /\ phase = "batch" => s.id < amountBatch[s.key][BucketOf[s.coin]]
        /\ phase = "coins" => s.id < coinsAmount[s.key][BucketOf[s.coin]]

\* m_recentlyIncluded fills slots the database leaves free, and below the
\* local amount it is what the batch writes.
RecentlyFree ==
    phase = "batch" =>
        /\ \A s \in recently :
              /\ amounts[s.key][BucketOf[s.coin]] # NoAmount
              /\ ~ Holds(slots, s.key, BucketOf[s.coin], s.id)
        /\ \A s \in coinsBatch :
              /\ amounts[s.key][BucketOf[s.coin]] # NoAmount
              /\ s.id < amounts[s.key][BucketOf[s.coin]] => s \in recently

\* The batch holds a coin once, and no coin the database has.
BatchNew ==
    /\ \A s, t \in coinsBatch : s.key = t.key /\ s.coin = t.coin => s = t
    /\ \A s \in coinsBatch, t \in slots : s.key = t.key => s.coin # t.coin

IInv == /\ TypeOK /\ IdleEmpty /\ AmountsBound /\ BatchBelow /\ RecentlyFree
        /\ BatchNew /\ NoOrphanCoin /\ NoDoubleCoin

\* Putting a coin that is not included keeps all the parts (the branch of
\* batchWrite that writes).
LEMMA PutCoinStep ==
    ASSUME IInv, phase = "batch", UNCHANGED <<database, phase>>,
           NEW k \in Key, NEW c \in Coin, ~ Included(k, c),
           NEW b \in Bucket, b = BucketOf[c],
           NEW i \in 0 .. Amount(k, b), IsTarget(k, b, i), PutCoin(k, c, i)
    PROVE  /\ AmountsBound' /\ BatchBelow' /\ RecentlyFree' /\ BatchNew'
           /\ recently' \subseteq Slot /\ coinsBatch' \subseteq Slot
           /\ amounts' \in [Key -> [Bucket -> Nat \cup {NoAmount}]]
           /\ amountBatch' \in [Key -> [Bucket -> Nat \cup {NoAmount}]]
<1> USE AddressToCoinsAssumption DEF NoAmount
<1> DEFINE A == Amount(k, b)
           slot == [key |-> k, id |-> i, coin |-> c]
<1>0. \A s \in slots \cup recently \cup coinsBatch :
          /\ s.key \in Key /\ s.id \in Nat /\ s.coin \in Coin
          /\ BucketOf[s.coin] \in Bucket
  BY DEF IInv, TypeOK, Slot
<1>1. /\ A \in Nat /\ i \in Nat /\ slot \in Slot
      /\ slot.key = k /\ slot.id = i /\ slot.coin = c
  BY DEF IInv, TypeOK, Amount, Slot
<1>2. coinsAmount[k][b] \in Nat /\ coinsAmount[k][b] <= A
  BY <1>1 DEF IInv, TypeOK, AmountsBound, Amount
<1>3. ~ Holds(slots, k, b, i)
  <2>1. CASE FreeSlots(k, b) = {}
    BY <1>1, <1>2, <2>1 DEF IsTarget, IInv, NoOrphanCoin, Holds, TypeOK, Slot
  <2>2. CASE FreeSlots(k, b) # {}
    BY <2>2 DEF IsTarget, FreeSlots
  <2> QED
    BY <2>1, <2>2
<1>4. /\ UNCHANGED <<slots, coinsAmount, phase>>
      /\ coinsBatch' = Overwrite(coinsBatch, {slot})
      /\ recently' = IF Holds(recently, k, b, i) THEN recently
                                                ELSE recently \cup {slot}
      /\ amountBatch' = [amountBatch EXCEPT ![k][b] = IF i = A THEN i + 1 ELSE A]
      /\ amounts' = IF amounts[k][b] # NoAmount THEN amounts
                    ELSE [amounts EXCEPT ![k][b] = IF i = A THEN i + 1 ELSE A]
  BY DEF PutCoin, database
<1> HIDE DEF slot, A
<1>5. /\ recently' \subseteq Slot /\ coinsBatch' \subseteq Slot
      /\ amounts' \in [Key -> [Bucket -> Nat \cup {NoAmount}]]
      /\ amountBatch' \in [Key -> [Bucket -> Nat \cup {NoAmount}]]
  BY <1>1, <1>4 DEF IInv, TypeOK, Overwrite
<1>6. /\ amounts'[k][b] # NoAmount
      /\ \A q \in Key, d \in Bucket : (q # k \/ d # b) =>
             amounts'[q][d] = amounts[q][d] /\ amountBatch'[q][d] = amountBatch[q][d]
      /\ amountBatch'[k][b] = IF i = A THEN i + 1 ELSE A
      /\ amounts[k][b] = NoAmount => amounts'[k][b] = amountBatch'[k][b]
      /\ amounts[k][b] # NoAmount => amounts'[k][b] = amounts[k][b] /\ amounts[k][b] = A
  <2>1. /\ amounts \in [Key -> [Bucket -> Nat \cup {NoAmount}]]
        /\ amountBatch \in [Key -> [Bucket -> Nat \cup {NoAmount}]]
    BY DEF IInv, TypeOK
  <2>2. \A q \in Key, d \in Bucket : (q # k \/ d # b) =>
            amounts'[q][d] = amounts[q][d] /\ amountBatch'[q][d] = amountBatch[q][d]
    BY <1>4, <2>1
  <2>3. amountBatch'[k][b] = IF i = A THEN i + 1 ELSE A
    BY <1>4, <2>1
  <2>4. amounts[k][b] # NoAmount => amounts'[k][b] = amounts[k][b] /\ amounts[k][b] = A
    BY <1>4 DEF A, Amount
  <2>5. amounts[k][b] = NoAmount => amounts'[k][b] = (IF i = A THEN i + 1 ELSE A)
    BY <1>4, <2>1
  <2>6. amounts'[k][b] # NoAmount
    BY <1>1, <2>4, <2>5
  <2> QED
    BY <2>2, <2>3, <2>4, <2>5, <2>6
<1>7. AmountsBound'
  <2>1. ASSUME NEW q \in Key, NEW d \in Bucket, q # k \/ d # b,
               FreeSlots(q, d) = {}
        PROVE  FreeSlots(q, d)' = {}
    BY <1>4, <1>6, <2>1 DEF FreeSlots, Holds, Amount
  <2>2. ASSUME amounts[k][b] # NoAmount, FreeSlots(k, b) = {}
        PROVE  FreeSlots(k, b)' = {}
    BY <1>1, <1>4, <1>6, <2>2 DEF FreeSlots, Holds, Amount
  <2>3. i = A => FreeSlots(k, b) = {}
    BY <1>1 DEF IsTarget, FreeSlots, A
  <2>4. ASSUME NEW q \in Key, NEW d \in Bucket, q # k \/ d # b
        PROVE  /\ amounts'[q][d] = NoAmount => amountBatch'[q][d] = NoAmount
               /\ amounts'[q][d] # NoAmount =>
                     /\ coinsAmount'[q][d] <= amounts'[q][d]
                     /\ \/ amountBatch'[q][d] = amounts'[q][d]
                        \/ /\ amountBatch'[q][d] = amounts'[q][d] + 1
                           /\ FreeSlots(q, d)' = {}
    BY <1>4, <1>6, <2>1, <2>4 DEF IInv, AmountsBound
  <2>5. /\ coinsAmount'[k][b] <= amounts'[k][b]
        /\ \/ amountBatch'[k][b] = amounts'[k][b]
           \/ /\ amountBatch'[k][b] = amounts'[k][b] + 1
              /\ FreeSlots(k, b)' = {}
    <3>1. CASE amounts[k][b] = NoAmount
      BY <1>1, <1>2, <1>4, <1>6, <3>1
    <3>2. CASE amounts[k][b] # NoAmount
      BY <1>1, <1>2, <1>4, <1>6, <2>2, <2>3, <3>2
    <3> QED
      BY <3>1, <3>2
  <2> QED
    BY <1>6, <2>4, <2>5 DEF AmountsBound
<1>8. A <= amountBatch'[k][b] /\ i < amountBatch'[k][b]
      /\ (amounts[k][b] # NoAmount => amountBatch[k][b] <= amountBatch'[k][b])
  <2>1. amounts[k][b] # NoAmount /\ amountBatch[k][b] = A + 1 => i = A
    BY <1>1, <1>6 DEF IInv, AmountsBound, IsTarget, A
  <2> QED
    BY <1>1, <1>6, <2>1 DEF IInv, AmountsBound, TypeOK, A
<1>9. ASSUME NEW s \in coinsBatch'
      PROVE  s = slot \/ (s \in coinsBatch
                            /\ ~ (s.key = k /\ s.id = i /\ BucketOf[s.coin] = b))
  BY <1>1, <1>4 DEF Overwrite
<1>10. BatchBelow'
  <2>1. ASSUME NEW s \in coinsBatch'
        PROVE  s.id < amountBatch'[s.key][BucketOf[s.coin]]
    <3>1. CASE s = slot
      BY <1>1, <1>8, <3>1
    <3>2. CASE s \in coinsBatch /\ s.key = k /\ BucketOf[s.coin] = b
      <4>1. amounts[k][b] # NoAmount /\ s.id < amountBatch[k][b]
        BY <3>2 DEF IInv, RecentlyFree, BatchBelow
      <4> QED
        <5>1. amountBatch[k][b] \in Int /\ amountBatch'[k][b] \in Int /\ s.id \in Nat
          BY <1>0, <1>5, <3>2 DEF IInv, TypeOK
        <5> QED
          BY <1>8, <3>2, <4>1, <5>1
    <3>3. CASE s \in coinsBatch /\ ~ (s.key = k /\ BucketOf[s.coin] = b)
      BY <1>6, <3>3 DEF IInv, BatchBelow, TypeOK, Slot
    <3> QED
      BY <1>9, <3>1, <3>2, <3>3
  <2> QED
    BY <1>4, <2>1 DEF BatchBelow
<1>11. RecentlyFree'
  <2>1. ASSUME NEW s \in recently'
        PROVE  /\ amounts'[s.key][BucketOf[s.coin]] # NoAmount
               /\ ~ Holds(slots, s.key, BucketOf[s.coin], s.id)
    <3>1. CASE s = slot
      BY <1>1, <1>3, <1>6, <3>1
    <3>2. CASE s \in recently
      BY <1>0, <1>6, <3>2 DEF IInv, RecentlyFree
    <3> QED
      BY <1>4, <3>1, <3>2
  <2>2. ASSUME NEW s \in coinsBatch'
        PROVE  /\ amounts'[s.key][BucketOf[s.coin]] # NoAmount
               /\ s.id < amounts'[s.key][BucketOf[s.coin]] => s \in recently'
    <3>1. CASE s = slot
      <4>1. ASSUME i < amounts'[k][b]
            PROVE  ~ Holds(recently, k, b, i)
        <5>1. CASE amounts[k][b] = NoAmount
          BY <5>1 DEF IInv, RecentlyFree, Holds
        <5>2. CASE amounts[k][b] # NoAmount
          BY <1>1, <1>6, <4>1, <5>2 DEF IsTarget, FreeSlots, A
        <5> QED
          BY <5>1, <5>2
      <4> QED
        BY <1>1, <1>4, <1>6, <3>1, <4>1
    <3>2. CASE s \in coinsBatch
      <4>1. /\ amounts[s.key][BucketOf[s.coin]] # NoAmount
            /\ s.id < amounts[s.key][BucketOf[s.coin]] => s \in recently
        BY <3>2 DEF IInv, RecentlyFree
      <4>2. amounts'[s.key][BucketOf[s.coin]] = amounts[s.key][BucketOf[s.coin]]
        BY <1>0, <1>6, <3>2, <4>1
      <4> QED
        BY <1>4, <4>1, <4>2
    <3> QED
      BY <1>9, <3>1, <3>2
  <2> QED
    BY <1>4, <2>1, <2>2 DEF RecentlyFree, Holds
<1>12. BatchNew'
  <2>1. ASSUME NEW t \in slots, t.key = k
        PROVE  t.coin # c
    <3>1. SUFFICES ASSUME t.coin = c
                   PROVE  FALSE
      OBVIOUS
    <3>2. t.id < Amount(k, BucketOf[c])
      BY <1>1, <1>2, <2>1, <3>1 DEF IInv, NoOrphanCoin, TypeOK, Slot, A
    <3>3. ~ Holds(recently, k, BucketOf[c], t.id)
      BY <2>1, <3>1 DEF IInv, RecentlyFree, Holds
    <3> QED
      BY <2>1, <3>1, <3>2, <3>3 DEF Included
  <2>2. ASSUME NEW t \in coinsBatch, t.key = k, t.coin = c
        PROVE  t.id = i
    <3>1. amounts[k][b] # NoAmount /\ A = amounts[k][b]
      BY <1>6, <2>2 DEF IInv, RecentlyFree
    <3>2. ~ (t.id < A)
      BY <2>2, <3>1 DEF IInv, RecentlyFree, Included, A
    <3>3. amountBatch[k][b] = A + 1 /\ FreeSlots(k, b) = {} /\ t.id = A
      <4>1. t.id \in Nat /\ t.id < amountBatch[k][b]
        BY <1>0, <2>2 DEF IInv, BatchBelow
      <4>2. \/ amountBatch[k][b] = A
            \/ amountBatch[k][b] = A + 1 /\ FreeSlots(k, b) = {}
        BY <3>1 DEF IInv, AmountsBound
      <4> QED
        BY <1>1, <3>2, <4>1, <4>2
    <3> QED
      BY <3>3 DEF IsTarget, A
  <2>3. ASSUME NEW s \in coinsBatch', NEW t \in coinsBatch',
               s.key = t.key, s.coin = t.coin
        PROVE  s = t
    BY <1>1, <1>9, <2>2, <2>3 DEF IInv, BatchNew
  <2>4. ASSUME NEW s \in coinsBatch', NEW t \in slots, s.key = t.key
        PROVE  s.coin # t.coin
    BY <1>1, <1>9, <2>1, <2>4 DEF IInv, BatchNew
  <2> QED
    BY <1>4, <2>3, <2>4 DEF BatchNew
<1> QED
  BY <1>5, <1>7, <1>10, <1>11, <1>12

\* With no batch the parts about it hold.
LEMMA NoBatch ==
    ASSUME BatchEmpty, phase \in {"idle", "batch"}
    PROVE  IdleEmpty /\ AmountsBound /\ BatchBelow /\ RecentlyFree /\ BatchNew
  BY DEF BatchEmpty, NoAmounts, NoAmount, IdleEmpty, AmountsBound, BatchBelow,
      RecentlyFree, BatchNew

\* A step that touches neither database nor batch keeps the parts about them.
LEMMA SameBatch ==
    ASSUME IInv, UNCHANGED <<coinsAmount, slots, phase, amounts, recently,
                             amountBatch, coinsBatch>>
    PROVE  /\ AmountsBound' /\ BatchBelow' /\ RecentlyFree' /\ BatchNew'
           /\ NoOrphanCoin' /\ NoDoubleCoin'
<1>1. ASSUME NEW k \in Key, NEW b \in Bucket
      PROVE  FreeSlots(k, b)' = FreeSlots(k, b)
  BY DEF FreeSlots, Holds, Amount
<1>2. AmountsBound'
  BY <1>1 DEF IInv, AmountsBound
<1>3. RecentlyFree'
  BY DEF IInv, RecentlyFree, Holds
<1> QED
  BY <1>2, <1>3 DEF IInv, BatchBelow, BatchNew, NoOrphanCoin, NoDoubleCoin

\* Every step keeps the conjunction.
LEMMA IInvStep ==
    ASSUME IInv, [Next]_vars
    PROVE  IInv'
<1> USE AddressToCoinsAssumption
<1>0. NoCoins \in [Key -> Seq(Coin)]
      /\ NoAmounts \in [Key -> [Bucket -> Nat \cup {NoAmount}]]
  BY DEF NoCoins, NoAmounts
<1>1. ASSUME NEW k \in Key, NEW c \in Coin, SetCoins(k, c)
      PROVE  IInv'
  <2>1. TypeOK'
    BY <1>1 DEF IInv, TypeOK, SetCoins, database, batch
  <2> QED
    BY <1>1, <2>1 DEF SetCoins, database, batch, IInv, IdleEmpty, BatchEmpty,
        AmountsBound, BatchBelow, RecentlyFree, BatchNew, NoOrphanCoin, NoDoubleCoin
<1>2. ASSUME NEW k \in Key, NEW c \in Coin, EraseCoins(k, c)
      PROVE  IInv'
  <2>1. TypeOK'
    BY <1>2 DEF IInv, TypeOK, EraseCoins, ErasedSlots, batch
  <2>2. slots' \subseteq slots /\ phase = "idle"
        /\ UNCHANGED <<coinsAmount, phase, batch>>
    BY <1>2 DEF EraseCoins, ErasedSlots
  <2> QED
    BY <2>1, <2>2 DEF batch, IInv, IdleEmpty, BatchEmpty, AmountsBound, BatchBelow,
        RecentlyFree, BatchNew, NoOrphanCoin, NoDoubleCoin
<1>3. ASSUME NEW k \in Key, FetchCoins(k)
      PROVE  IInv'
  <2>1. StoredCoins(k) \subseteq Coin
    BY DEF StoredCoins, IInv, TypeOK, Slot
  <2>2. TypeOK'
    BY <1>3, <2>1 DEF IInv, TypeOK, FetchCoins, database, batch
  <2> QED
    BY <1>3, <2>2 DEF FetchCoins, database, batch, IInv, IdleEmpty, BatchEmpty,
        AmountsBound, BatchBelow, RecentlyFree, BatchNew, NoOrphanCoin, NoDoubleCoin
<1>4. CASE ClearView
  <2>1. TypeOK'
    BY <1>0, <1>4 DEF IInv, TypeOK, ClearView, batch
  <2> QED
    BY <1>4, <2>1 DEF ClearView, batch, IInv, IdleEmpty, BatchEmpty, AmountsBound,
        BatchBelow, RecentlyFree, BatchNew, NoOrphanCoin, NoDoubleCoin
<1>5. CASE Flush
  <2>1. TypeOK'
    BY <1>5 DEF IInv, TypeOK, Flush, database
  <2>2. amounts = NoAmounts /\ recently = {} /\ amountBatch = NoAmounts
        /\ coinsBatch = {}
    BY <1>5 DEF Flush, IInv, IdleEmpty, BatchEmpty
  <2>3. IdleEmpty' /\ AmountsBound' /\ BatchBelow' /\ RecentlyFree' /\ BatchNew'
    BY <1>5, <2>2 DEF Flush, IdleEmpty, AmountsBound, BatchBelow, RecentlyFree,
        BatchNew, NoAmounts, NoAmount
  <2> QED
    BY <1>5, <2>1, <2>3 DEF Flush, database, IInv, NoOrphanCoin, NoDoubleCoin
<1>6. ASSUME NEW k \in Key, BatchCoin(k)
      PROVE  IInv'
  <2>1. /\ phase = "batch" /\ Head(rest[k]) \in Coin
        /\ rest' \in [Key -> Seq(Coin)]
        /\ UNCHANGED <<coinsAmount, slots, cacheCoins, insertCache, phase>>
    BY <1>6 DEF BatchCoin, IInv, TypeOK, database
  <2>2. CASE UNCHANGED <<amounts, recently, amountBatch, coinsBatch>>
    <3>1. TypeOK' /\ IdleEmpty'
      BY <2>1, <2>2 DEF IInv, TypeOK, IdleEmpty
    <3> QED
      BY <2>1, <2>2, <3>1, SameBatch DEF IInv
  <2>3. ASSUME ~ Included(k, Head(rest[k])),
               NEW i \in 0 .. Amount(k, BucketOf[Head(rest[k])]),
               IsTarget(k, BucketOf[Head(rest[k])], i), PutCoin(k, Head(rest[k]), i)
        PROVE  IInv'
    <3>1. /\ AmountsBound' /\ BatchBelow' /\ RecentlyFree' /\ BatchNew'
          /\ recently' \subseteq Slot /\ coinsBatch' \subseteq Slot
          /\ amounts' \in [Key -> [Bucket -> Nat \cup {NoAmount}]]
          /\ amountBatch' \in [Key -> [Bucket -> Nat \cup {NoAmount}]]
      <4>1. PICK c \in Coin : c = Head(rest[k])
        BY <2>1
      <4>2. PICK b \in Bucket : b = BucketOf[c]
        OBVIOUS
      <4>3. /\ ~ Included(k, c) /\ IsTarget(k, b, i) /\ PutCoin(k, c, i)
            /\ i \in 0 .. Amount(k, b)
        BY <2>3, <4>1, <4>2
      <4> QED
        BY <2>1, <4>2, <4>3, PutCoinStep DEF database
    <3>2. TypeOK' /\ IdleEmpty' /\ NoOrphanCoin' /\ NoDoubleCoin'
      BY <2>1, <3>1 DEF IInv, TypeOK, IdleEmpty, NoOrphanCoin, NoDoubleCoin
    <3> QED
      BY <3>1, <3>2 DEF IInv
  <2> QED
    BY <1>6, <2>2, <2>3 DEF BatchCoin
<1>7. CASE WriteAmounts
  <2>1. /\ phase = "batch" /\ phase' = "coins"
        /\ UNCHANGED <<slots, rest, amounts, recently, amountBatch, coinsBatch>>
    BY <1>7 DEF WriteAmounts, batch
  <2>2. ASSUME NEW k \in Key, NEW b \in Bucket
        PROVE  /\ coinsAmount[k][b] <= coinsAmount'[k][b]
               /\ coinsAmount[k][b] \in Nat /\ coinsAmount'[k][b] \in Nat
               /\ amountBatch[k][b] # NoAmount =>
                      coinsAmount'[k][b] = amountBatch[k][b]
    <3>1. /\ coinsAmount[k][b] \in Nat
          /\ amounts[k][b] \in Nat \cup {NoAmount}
          /\ amountBatch[k][b] \in Nat \cup {NoAmount}
      BY DEF IInv, TypeOK
    <3>2. coinsAmount'[k][b] = IF amountBatch[k][b] # NoAmount THEN amountBatch[k][b]
                                                              ELSE coinsAmount[k][b]
      BY <1>7 DEF WriteAmounts
    <3>3. amountBatch[k][b] # NoAmount =>
              /\ coinsAmount[k][b] <= amounts[k][b] /\ amounts[k][b] # NoAmount
              /\ amounts[k][b] <= amountBatch[k][b]
      BY <2>1, <3>1 DEF IInv, AmountsBound, NoAmount
    <3> QED
      BY <3>1, <3>2, <3>3 DEF NoAmount
  <2>3. TypeOK'
    BY <1>7, <2>2 DEF WriteAmounts, batch, IInv, TypeOK
  <2>4. ASSUME NEW s \in slots \cup coinsBatch
        PROVE  s.key \in Key /\ BucketOf[s.coin] \in Bucket /\ s.id \in Nat
    BY DEF IInv, TypeOK, Slot
  <2>5. NoOrphanCoin'
    BY <2>1, <2>2, <2>4 DEF IInv, NoOrphanCoin
  <2>6. BatchBelow'
    BY <2>1, <2>2, <2>4 DEF IInv, BatchBelow, NoAmount
  <2> QED
    BY <2>1, <2>3, <2>5, <2>6 DEF IInv, IdleEmpty, AmountsBound, RecentlyFree,
        BatchNew, NoDoubleCoin
<1>8. CASE WriteCoins
  <2>1. BatchEmpty' /\ phase' = "idle" /\ phase = "coins"
    BY <1>8 DEF WriteCoins, BatchEmpty
  <2>2. ASSUME NEW s \in slots'
        PROVE  s \in slots \/ s \in coinsBatch
    BY <1>8 DEF WriteCoins, Overwrite
  <2>3. ASSUME NEW k \in Key
        PROVE  {insertCache[k][n] : n \in DOMAIN insertCache[k]} \subseteq Coin
    BY DEF IInv, TypeOK
  <2>4. TypeOK'
    BY <1>0, <1>8, <2>2, <2>3 DEF WriteCoins, IInv, TypeOK
  <2>5. NoOrphanCoin'
    BY <1>8, <2>1, <2>2 DEF WriteCoins, IInv, NoOrphanCoin, BatchBelow
  <2>6. NoDoubleCoin'
    BY <2>2 DEF IInv, NoDoubleCoin, BatchNew
  <2>7. IdleEmpty' /\ AmountsBound' /\ BatchBelow' /\ RecentlyFree' /\ BatchNew'
    BY <2>1 DEF BatchEmpty, IdleEmpty, AmountsBound, BatchBelow, RecentlyFree, BatchNew
  <2> QED
    BY <2>4, <2>5, <2>6, <2>7 DEF IInv
<1>9. CASE Restart
  <2>1. BatchEmpty' /\ phase' = "idle"
    BY <1>9 DEF Restart, BatchEmpty
  <2>2. TypeOK' /\ NoOrphanCoin' /\ NoDoubleCoin'
    BY <1>0, <1>9 DEF Restart, database, IInv, TypeOK, NoOrphanCoin, NoDoubleCoin
  <2>3. IdleEmpty' /\ AmountsBound' /\ BatchBelow' /\ RecentlyFree' /\ BatchNew'
    BY <2>1 DEF BatchEmpty, IdleEmpty, AmountsBound, BatchBelow, RecentlyFree, BatchNew
  <2> QED
    BY <2>2, <2>3 DEF IInv
<1>10. CASE UNCHANGED vars
  <2>1. TypeOK' /\ IdleEmpty'
    BY <1>10 DEF vars, database, batch, IInv, TypeOK, IdleEmpty, BatchEmpty
  <2> QED
    BY <1>10, <2>1, SameBatch DEF vars, database, batch, IInv
<1> QED
  BY <1>1, <1>2, <1>3, <1>4, <1>5, <1>6, <1>7, <1>8, <1>9, <1>10 DEF Next

\* The conjunction is an invariant of the specification.
LEMMA IInvHolds == Spec => []IInv
<1>1. Init => IInv
  <2>1. SUFFICES ASSUME Init
                 PROVE  IInv
    OBVIOUS
  <2>2. NoCoins \in [Key -> Seq(Coin)]
        /\ NoAmounts \in [Key -> [Bucket -> Nat \cup {NoAmount}]]
    BY DEF NoCoins, NoAmounts
  <2>3. TypeOK /\ NoOrphanCoin /\ NoDoubleCoin
    BY <2>1, <2>2 DEF Init, BatchEmpty, TypeOK, NoOrphanCoin, NoDoubleCoin
  <2> QED
    BY <2>1, <2>3, NoBatch DEF Init, IInv
<1>2. IInv /\ [Next]_vars => IInv'
  BY IInvStep
<1> QED
  BY <1>1, <1>2, PTL DEF Spec

\* Database, cache, pending coins and batches stay well typed.
THEOREM TypeCorrect == Spec => []TypeOK
<1>1. IInv => TypeOK
  BY DEF IInv
<1> QED
  BY <1>1, IInvHolds, PTL

\* Whatever is set, erased and flushed, and wherever the process dies, every
\* coin of the database lies below its amount: batchWrite may lose a coin by
\* overwriting its slot, but it never hides one.
THEOREM OrphanTheorem == Spec => []NoOrphanCoin
<1>1. IInv => NoOrphanCoin
  BY DEF IInv
<1> QED
  BY <1>1, IInvHolds, PTL

\* The stale local amount of batchWrite and m_recentlyIncluded together never
\* put a coin into two slots, so one eraseCoin removes a spent coin.
THEOREM DoubleTheorem == Spec => []NoDoubleCoin
<1>1. IInv => NoDoubleCoin
  BY DEF IInv
<1> QED
  BY <1>1, IInvHolds, PTL
-----------------------------------------------------------------------------
(* Flushes of at most two coins of an address implement CoinIndex.  The amount *)
(* batchWrite works with is stale from the second coin of a bucket on, so the  *)
(* second one is put beside the first, and only a third one could be put into  *)
(* a slot of the batch.                                                        *)

Pending(k) == {insertCache[k][n] : n \in DOMAIN insertCache[k]}

\* How many coins of the key batchWrite has looked at
Done(k) == Len(insertCache[k]) - Len(rest[k])

\* The coin is in the database, or in the batch.
Placed(k, c) == \E s \in slots \cup coinsBatch : s.key = k /\ s.coin = c

ShortFlush == \A k \in Key : Len(insertCache[k]) <= MaxPending

RestFollows ==
    phase = "batch" => \A k \in Key :
        /\ Len(rest[k]) <= Len(insertCache[k])
        /\ \A n \in 1 .. Len(rest[k]) : rest[k][n] = insertCache[k][Done(k) + n]

\* What was looked at is placed
DonePlaced ==
    /\ phase = "batch" => \A k \in Key : \A n \in 1 .. Done(k) : Placed(k, insertCache[k][n])
    /\ phase = "coins" => \A k \in Key : \A n \in DOMAIN insertCache[k] :
                              Placed(k, insertCache[k][n])

\* ... and while it is one coin, below the amount that is worked with.
FirstBelow ==
    phase = "batch" => \A k \in Key :
        /\ Done(k) = 0 => \A b \in Bucket : amounts[k][b] = NoAmount
        /\ Done(k) <= 1 => \A s \in coinsBatch :
               s.key = k => s.id < amounts[k][BucketOf[s.coin]]

\* The batch writes pending coins, to slots that are free.
BatchPending ==
    \A s \in coinsBatch : /\ ~ Holds(slots, s.key, BucketOf[s.coin], s.id)
                          /\ s.coin \in Pending(s.key)

\* What m_recentlyIncluded remembers is written.
RecentlyWritten == phase = "batch" => recently \subseteq coinsBatch

RInv == /\ ShortFlush /\ RestFollows /\ DonePlaced /\ FirstBelow
        /\ BatchPending /\ RecentlyWritten

\* The slot a coin is put into is neither in the database nor, for the first two
\* coins of a key, in the batch.
LEMMA TargetFree ==
    ASSUME IInv, RInv, phase = "batch", NEW k \in Key, NEW b \in Bucket, Done(k) <= 1,
           NEW i \in 0 .. Amount(k, b), IsTarget(k, b, i)
    PROVE  /\ ~ Holds(slots, k, b, i) /\ ~ Holds(coinsBatch, k, b, i)
           /\ Done(k) = 0 => \A s \in coinsBatch : s.key # k
<1> USE AddressToCoinsAssumption
<1>1. /\ Amount(k, b) \in Nat /\ i \in Nat
      /\ coinsAmount[k][b] \in Nat /\ coinsAmount[k][b] <= Amount(k, b)
  BY DEF IInv, TypeOK, AmountsBound, Amount, NoAmount
<1>2. \A s \in slots \cup coinsBatch :
          s.key \in Key /\ s.id \in Nat /\ s.coin \in Coin /\ BucketOf[s.coin] \in Bucket
  BY DEF IInv, TypeOK, Slot
<1>3. Done(k) = 0 => \A s \in coinsBatch : s.key # k
  BY <1>2 DEF IInv, RInv, FirstBelow, RecentlyFree
<1>4. ASSUME Holds(slots, k, b, i)
      PROVE  FALSE
  <2>1. PICK s \in slots : s.key = k /\ s.id = i /\ BucketOf[s.coin] = b
    BY <1>4 DEF Holds
  <2>2. i < coinsAmount[k][b]
    BY <2>1 DEF IInv, NoOrphanCoin
  <2>3. i # Amount(k, b)
    BY <1>1, <2>2
  <2> QED
    BY <1>4, <2>3 DEF IsTarget, FreeSlots
<1>5. ASSUME Holds(coinsBatch, k, b, i)
      PROVE  FALSE
  <2>1. PICK s \in coinsBatch : s.key = k /\ s.id = i /\ BucketOf[s.coin] = b
    BY <1>5 DEF Holds
  <2>2. i < amounts[k][b] /\ amounts[k][b] # NoAmount /\ s \in recently
    BY <2>1 DEF IInv, RInv, FirstBelow, RecentlyFree
  <2>3. i # Amount(k, b)
    BY <1>1, <2>2 DEF Amount
  <2>4. Holds(recently, k, b, i)
    BY <2>1, <2>2 DEF Holds
  <2> QED
    BY <2>3, <2>4 DEF IsTarget, FreeSlots
<1> QED
  BY <1>3, <1>4, <1>5

\* batchWrite looks at a coin.
LEMMA BatchCoinPlaces ==
    ASSUME MaxPending <= 2, IInv, RInv, NEW k \in Key, BatchCoin(k)
    PROVE  RInv'
<1> USE AddressToCoinsAssumption
<1> DEFINE c == Head(rest[k])
           d == Done(k)
           After(q, x) == \E s \in slots' \cup coinsBatch' : s.key = q /\ s.coin = x
<1>1. /\ phase = "batch" /\ phase' = "batch" /\ rest[k] # <<>>
      /\ rest' = [rest EXCEPT ![k] = Tail(rest[k])]
      /\ UNCHANGED <<coinsAmount, slots, cacheCoins, insertCache>>
  BY DEF BatchCoin, database
<1>2. /\ insertCache \in [Key -> Seq(Coin)] /\ rest \in [Key -> Seq(Coin)]
      /\ \A q \in Key : Len(insertCache[q]) \in Nat /\ Len(rest[q]) \in Nat
  BY DEF IInv, TypeOK
<1>3. /\ Len(insertCache[k]) <= 2 /\ Len(rest[k]) >= 1 /\ Len(rest[k]) <= Len(insertCache[k])
      /\ c = rest[k][1] /\ c \in Coin
  <2>1. Len(insertCache[k]) <= MaxPending /\ Len(rest[k]) <= Len(insertCache[k])
    BY <1>1 DEF RInv, ShortFlush, RestFollows
  <2>2. rest[k] \in Seq(Coin) /\ rest[k] # <<>>
    BY <1>1, <1>2
  <2>3. Len(rest[k]) >= 1 /\ c = rest[k][1] /\ c \in Coin
    BY <2>2
  <2> QED
    BY <1>2, <2>1, <2>3
<1>4. d \in {0, 1} /\ c = insertCache[k][d + 1] /\ d + 1 \in 1 .. Len(insertCache[k])
  <2>1. d \in {0, 1} /\ d + 1 \in 1 .. Len(insertCache[k]) /\ 1 \in 1 .. Len(rest[k])
    BY <1>2, <1>3 DEF Done
  <2> QED
    BY <1>1, <1>3, <2>1 DEF RInv, RestFollows
<1>5. /\ rest'[k] = Tail(rest[k]) /\ Len(rest'[k]) = Len(rest[k]) - 1
      /\ \A n \in 1 .. Len(rest'[k]) : rest'[k][n] = rest[k][n + 1]
      /\ \A q \in Key \ {k} : rest'[q] = rest[q]
  <2>1. rest[k] \in Seq(Coin) /\ rest[k] # <<>>
    BY <1>1, <1>2
  <2>2. /\ Len(Tail(rest[k])) = Len(rest[k]) - 1
        /\ \A n \in 1 .. Len(Tail(rest[k])) : Tail(rest[k])[n] = rest[k][n + 1]
    BY <2>1
  <2> QED
    BY <1>1, <1>2, <2>2
<1>6. Done(k)' = d + 1 /\ \A q \in Key \ {k} : Done(q)' = Done(q)
  BY <1>1, <1>2, <1>5 DEF Done
<1>7. ShortFlush'
  BY <1>1 DEF RInv, ShortFlush
<1>8. RestFollows'
  <2>1. ASSUME NEW n \in 1 .. Len(rest'[k])
        PROVE  rest'[k][n] = insertCache[k][d + 1 + n]
    <3>1. n + 1 \in 1 .. Len(rest[k]) /\ d + (n + 1) = d + 1 + n
      BY <1>2, <1>4, <1>5, <2>1
    <3> QED
      BY <1>1, <1>5, <3>1 DEF RInv, RestFollows
  <2>2. Len(rest'[k]) <= Len(insertCache[k])
    BY <1>2, <1>3, <1>5
  <2> HIDE DEF d
  <2>3. ASSUME NEW q \in Key
        PROVE  /\ Len(rest'[q]) <= Len(insertCache'[q])
               /\ \A n \in 1 .. Len(rest'[q]) : rest'[q][n] = insertCache'[q][Done(q)' + n]
    <3>1. CASE q = k
      BY <1>1, <1>6, <2>1, <2>2, <3>1
    <3>2. CASE q # k
      BY <1>1, <1>5, <1>6, <3>2 DEF RInv, RestFollows
    <3> QED
      BY <3>1, <3>2
  <2> QED
    BY <2>3 DEF RestFollows
<1>9. /\ RecentlyWritten' /\ BatchPending' /\ FirstBelow'
      /\ coinsBatch \subseteq coinsBatch' /\ After(k, c)
  <2>1. CASE Included(k, c) /\ UNCHANGED <<amounts, recently, amountBatch, coinsBatch>>
    <3>1. RecentlyWritten'
      BY <1>1, <2>1 DEF RInv, RecentlyWritten
    <3>2. BatchPending'
      BY <1>1, <2>1 DEF RInv, BatchPending, Holds, Pending
    <3>3. d = 0 => \A s \in coinsBatch : s.key # k
      BY <1>1 DEF IInv, RInv, FirstBelow, RecentlyFree, TypeOK, Slot
    <3>4. FirstBelow'
      BY <1>1, <1>4, <1>6, <2>1, <3>3 DEF RInv, FirstBelow
    <3>5. Placed(k, c)
      BY <1>1, <2>1 DEF Included, RInv, RecentlyWritten, Placed
    <3> QED
      BY <1>1, <2>1, <3>1, <3>2, <3>4, <3>5 DEF Placed
  <2>2. ASSUME NEW i \in 0 .. Amount(k, BucketOf[c]), IsTarget(k, BucketOf[c], i),
               PutCoin(k, c, i)
        PROVE  /\ RecentlyWritten' /\ BatchPending' /\ FirstBelow'
               /\ coinsBatch \subseteq coinsBatch' /\ After(k, c)
    <3> DEFINE b == BucketOf[c]
               slot == [key |-> k, id |-> i, coin |-> c]
               amount == IF i = Amount(k, b) THEN i + 1 ELSE Amount(k, b)
    <3>1. b \in Bucket
      BY <1>3
    <3>2. /\ ~ Holds(slots, k, b, i) /\ ~ Holds(coinsBatch, k, b, i)
          /\ d = 0 => \A s \in coinsBatch : s.key # k
      BY <1>1, <1>4, <2>2, <3>1, TargetFree
    <3>3. /\ coinsBatch' = Overwrite(coinsBatch, {slot})
          /\ recently' \in {recently, recently \cup {slot}}
          /\ amounts' = IF amounts[k][b] # NoAmount THEN amounts
                        ELSE [amounts EXCEPT ![k][b] = amount]
      BY <2>2 DEF PutCoin
    <3>4. slot.key = k /\ slot.id = i /\ slot.coin = c
      OBVIOUS
    <3>5. Amount(k, b) \in Nat /\ i \in Nat /\ amount \in Nat /\ i < amount
      BY <2>2, <3>1 DEF IInv, TypeOK, Amount, NoAmount
    <3> HIDE DEF slot, amount, b, c, d
    <3>6. coinsBatch' = coinsBatch \cup {slot}
      BY <3>2, <3>3, <3>4 DEF Overwrite, Holds, b
    <3>7. RecentlyWritten'
      BY <1>1, <3>3, <3>6 DEF RInv, RecentlyWritten
    <3>8. After(k, c)
      BY <3>4, <3>6 DEF Placed
    <3>9. c \in Pending(k)
      BY <1>2, <1>4 DEF Pending
    <3>10. BatchPending'
      <4>1. ASSUME NEW s \in coinsBatch \cup {slot}
            PROVE  ~ Holds(slots, s.key, BucketOf[s.coin], s.id) /\ s.coin \in Pending(s.key)
        BY <3>2, <3>4, <3>9 DEF RInv, BatchPending, b
      <4> QED
        BY <1>1, <3>6, <4>1 DEF BatchPending, Holds, Pending
    <3>11. FirstBelow'
      <4>1. /\ \A q \in Key \ {k}, e \in Bucket : amounts'[q][e] = amounts[q][e]
            /\ d = 0 => amounts'[k][b] = amount
        BY <1>1, <1>4, <3>1, <3>3 DEF IInv, TypeOK, RInv, FirstBelow, d
      <4>2. \A s \in coinsBatch : s.key \in Key /\ BucketOf[s.coin] \in Bucket
        BY DEF IInv, TypeOK, Slot
      <4>3. ASSUME NEW q \in Key \ {k}
            PROVE  /\ Done(q)' = 0 => \A e \in Bucket : amounts'[q][e] = NoAmount
                   /\ Done(q)' <= 1 => \A s \in coinsBatch' :
                          s.key = q => s.id < amounts'[q][BucketOf[s.coin]]
        BY <1>1, <1>6, <3>4, <3>6, <4>1, <4>2 DEF RInv, FirstBelow
      <4>4. /\ Done(k)' # 0
            /\ Done(k)' <= 1 => \A s \in coinsBatch' :
                   s.key = k => s.id < amounts'[k][BucketOf[s.coin]]
        BY <1>4, <1>6, <3>2, <3>4, <3>5, <3>6, <4>1 DEF b
      <4> QED
        BY <4>3, <4>4 DEF FirstBelow
    <3> QED
      BY <3>6, <3>7, <3>8, <3>10, <3>11
  <2> QED
    BY <2>1, <2>2 DEF BatchCoin
<1>10. DonePlaced'
  <2>1. ASSUME NEW q \in Key, NEW n \in 1 .. Done(q)'
        PROVE  After(q, insertCache[q][n])
    <3>1. ASSUME n \in 1 .. Done(q)
          PROVE  After(q, insertCache[q][n])
      <4>1. Placed(q, insertCache[q][n])
        BY <1>1, <3>1 DEF RInv, DonePlaced
      <4> QED
        BY <1>1, <1>9, <4>1 DEF Placed
    <3>2. ASSUME n \notin 1 .. Done(q)
          PROVE  q = k /\ n = d + 1
      BY <1>4, <1>6, <2>1, <3>2
    <3>3. After(k, insertCache[k][d + 1])
      <4> HIDE DEF c, d
      <4> QED
        BY <1>1, <1>4, <1>9 DEF Placed
    <3> QED
      BY <3>1, <3>2, <3>3
  <2> QED
    BY <1>1, <2>1 DEF DonePlaced, Placed
<1> QED
  BY <1>7, <1>8, <1>9, <1>10 DEF RInv

\* Every step keeps the parts about a flush.
LEMMA RInvStep ==
    ASSUME MaxPending <= 2, IInv, RInv, [Next]_vars
    PROVE  RInv'
<1> USE AddressToCoinsAssumption
<1>1. ASSUME phase' = "idle", coinsBatch' = {}, ShortFlush'
      PROVE  RInv'
  BY <1>1 DEF RInv, RestFollows, DonePlaced, FirstBelow, BatchPending, RecentlyWritten
<1>2. phase = "idle" => coinsBatch = {} /\ recently = {} /\ amounts = NoAmounts
  BY DEF IInv, IdleEmpty, BatchEmpty
<1>3. insertCache' = NoCoins => ShortFlush'
  BY DEF ShortFlush, NoCoins
<1>4. ASSUME NEW k \in Key, NEW c \in Coin, SetCoins(k, c)
      PROVE  RInv'
  <2>1. /\ phase' = "idle" /\ coinsBatch' = {} /\ Len(insertCache[k]) < MaxPending
        /\ insertCache' = [insertCache EXCEPT ![k] = Append(insertCache[k], c)]
    BY <1>2, <1>4 DEF SetCoins, batch
  <2>2. insertCache \in [Key -> Seq(Coin)] /\ insertCache[k] \in Seq(Coin)
    BY DEF IInv, TypeOK
  <2>3. Len(insertCache'[k]) = Len(insertCache[k]) + 1 /\ Len(insertCache[k]) \in Nat
    BY <2>1, <2>2
  <2>4. ShortFlush'
    BY <2>1, <2>2, <2>3 DEF RInv, ShortFlush
  <2> QED
    BY <1>1, <2>1, <2>4
<1>5. ASSUME NEW k \in Key, NEW c \in Coin, EraseCoins(k, c)
      PROVE  RInv'
  BY <1>1, <1>2, <1>5 DEF EraseCoins, batch, RInv, ShortFlush
<1>6. ASSUME NEW k \in Key, FetchCoins(k)
      PROVE  RInv'
  BY <1>1, <1>2, <1>6 DEF FetchCoins, batch, RInv, ShortFlush
<1>7. CASE ClearView
  BY <1>1, <1>2, <1>3, <1>7 DEF ClearView, batch
<1>8. CASE Flush
  <2>1. /\ phase' = "batch" /\ rest' = insertCache /\ insertCache' = insertCache
        /\ coinsBatch' = {} /\ recently' = {} /\ amounts' = NoAmounts
    BY <1>2, <1>8 DEF Flush
  <2>2. \A k \in Key : Len(insertCache[k]) \in Nat
    BY DEF IInv, TypeOK
  <2>3. \A k \in Key : Done(k)' = 0
    BY <2>1, <2>2 DEF Done
  <2>4. RestFollows' /\ DonePlaced'
    BY <2>1, <2>2, <2>3 DEF RestFollows, DonePlaced
  <2>5. FirstBelow'
    BY <2>1 DEF FirstBelow, NoAmounts
  <2> QED
    BY <2>1, <2>4, <2>5 DEF RInv, ShortFlush, BatchPending, RecentlyWritten
<1>9. ASSUME NEW k \in Key, BatchCoin(k)
      PROVE  RInv'
  BY <1>9, BatchCoinPlaces
<1>10. CASE WriteAmounts
  <2>1. /\ phase = "batch" /\ phase' = "coins" /\ rest = NoCoins
        /\ UNCHANGED <<slots, insertCache, coinsBatch>>
    BY <1>10 DEF WriteAmounts, batch
  <2>2. ASSUME NEW k \in Key, NEW n \in DOMAIN insertCache[k]
        PROVE  Placed(k, insertCache[k][n])
    <3>1. n \in 1 .. Done(k)
      BY <2>1 DEF Done, NoCoins, IInv, TypeOK
    <3> QED
      BY <2>1, <3>1 DEF RInv, DonePlaced
  <2>3. DonePlaced'
    BY <2>1, <2>2 DEF DonePlaced, Placed
  <2> QED
    BY <2>1, <2>3 DEF RInv, ShortFlush, RestFollows, FirstBelow, BatchPending, Pending, Holds,
                      RecentlyWritten
<1>11. CASE WriteCoins
  BY <1>1, <1>3, <1>11 DEF WriteCoins
<1>12. CASE Restart
  BY <1>1, <1>3, <1>12 DEF Restart
<1>13. CASE UNCHANGED vars
  <2>1. UNCHANGED <<slots, insertCache, phase, rest, amounts, recently, coinsBatch>>
    BY <1>13 DEF vars, database, batch
  <2>2. ShortFlush' /\ BatchPending' /\ RecentlyWritten'
    BY <2>1 DEF RInv, ShortFlush, BatchPending, Pending, Holds, RecentlyWritten
  <2>3. \A k \in Key : Done(k)' = Done(k)
    BY <2>1 DEF Done
  <2>4. RestFollows' /\ FirstBelow'
    BY <2>1, <2>3 DEF RInv, RestFollows, FirstBelow
  <2>5. DonePlaced'
    BY <2>1, <2>3 DEF RInv, DonePlaced, Placed
  <2> QED
    BY <2>2, <2>4, <2>5 DEF RInv
<1> QED
  BY <1>4, <1>5, <1>6, <1>7, <1>8, <1>9, <1>10, <1>11, <1>12, <1>13 DEF Next

\* What getCoins of the database returns: no coin is hidden.
CoinsAt(S, k) == {s.coin : s \in {t \in S : t.key = k}}

LEMMA StoredNow ==
    ASSUME NoOrphanCoin, NEW k \in Key
    PROVE  StoredCoins(k) = CoinsAt(slots, k)
BY DEF NoOrphanCoin, StoredCoins, CoinsAt

LEMMA StoredThen ==
    ASSUME NoOrphanCoin', NEW k \in Key
    PROVE  StoredCoins(k)' = CoinsAt(slots', k)
BY DEF NoOrphanCoin, StoredCoins, CoinsAt

\* A step is one of the index, or changes nothing there.
LEMMA IndexStep ==
    ASSUME IInv, IInv', RInv, [Next]_vars
    PROVE  [Index!Next]_(Index!indexVars)
<1> USE AddressToCoinsAssumption
<1> DEFINE stored == [k \in Key |-> StoredCoins(k)]
           pending == [k \in Key |-> {insertCache[k][n] : n \in DOMAIN insertCache[k]}]
<1>1. /\ \A k \in Key : StoredCoins(k) = CoinsAt(slots, k)
      /\ \A k \in Key : StoredCoins(k)' = CoinsAt(slots', k)
  BY StoredNow, StoredThen DEF IInv
<1>2. slots' = slots => stored' = stored
  BY <1>1
<1>3. insertCache' = insertCache => pending' = pending
  OBVIOUS
<1>4. insertCache' = NoCoins => pending' = Index!None
  <2>1. insertCache' = NoCoins => \A k \in Key : pending'[k] = {}
    BY DEF NoCoins
  <2> QED
    BY <2>1 DEF Index!None
<1>5. slots' = {} => stored' = Index!None
  <2>1. slots' = {} => \A k \in Key : stored'[k] = {}
    BY <1>1 DEF CoinsAt
  <2> QED
    BY <2>1 DEF Index!None
<1>6. stored' = stored /\ pending' = pending => [Index!Next]_(Index!indexVars)
  BY DEF Index!indexVars
<1>7. ASSUME NEW k \in Key, NEW c \in Coin, SetCoins(k, c)
      PROVE  Index!Set({k}, c)
  <2>1. slots' = slots /\ insertCache' = [insertCache EXCEPT ![k] = Append(insertCache[k], c)]
    BY <1>7 DEF SetCoins, database
  <2>2. insertCache \in [Key -> Seq(Coin)] /\ insertCache[k] \in Seq(Coin)
    BY DEF IInv, TypeOK
  <2>3. pending'[k] = pending[k] \cup {c}
    <3>1. /\ insertCache'[k] = Append(insertCache[k], c)
          /\ DOMAIN insertCache'[k] = DOMAIN insertCache[k] \cup {Len(insertCache[k]) + 1}
          /\ insertCache'[k][Len(insertCache[k]) + 1] = c
          /\ \A n \in DOMAIN insertCache[k] : insertCache'[k][n] = insertCache[k][n]
      BY <2>1, <2>2
    <3> QED
      BY <3>1
  <2>4. \A q \in Key \ {k} : pending'[q] = pending[q]
    BY <2>1, <2>2
  <2>5. pending' = [q \in Key |-> IF q \in {k} THEN pending[q] \cup {c} ELSE pending[q]]
    BY <2>3, <2>4
  <2> QED
    BY <1>2, <2>1, <2>5 DEF Index!Set
<1>8. ASSUME NEW k \in Key, NEW c \in Coin, EraseCoins(k, c)
      PROVE  Index!Erase(k, c)
  <2>1. slots' = slots \ ErasedSlots(k, c) /\ insertCache' = insertCache
    BY <1>8 DEF EraseCoins
  <2>2. ErasedSlots(k, c) = {s \in slots : s.key = k /\ s.coin = c}
    <3>1. ASSUME NEW s \in slots, s.key = k, s.coin = c
          PROVE  s \in ErasedSlots(k, c)
      <4>1. s.id < coinsAmount[k][BucketOf[c]] /\ s.id \in Nat
        BY <3>1 DEF IInv, NoOrphanCoin, TypeOK, Slot
      <4>2. \A t \in slots : t.key = k /\ t.coin = c => t = s
        BY <3>1 DEF IInv, NoDoubleCoin
      <4> QED
        BY <3>1, <4>1, <4>2 DEF ErasedSlots
    <3> QED
      BY <3>1 DEF ErasedSlots
  <2>3. CoinsAt(slots', k) = CoinsAt(slots, k) \ {c}
    BY <2>1, <2>2 DEF CoinsAt
  <2>4. \A q \in Key \ {k} : CoinsAt(slots', q) = CoinsAt(slots, q)
    BY <2>1, <2>2 DEF CoinsAt
  <2>5. stored' = [stored EXCEPT ![k] = stored[k] \ {c}]
    BY <1>1, <2>3, <2>4
  <2> QED
    BY <1>3, <2>1, <2>5 DEF Index!Erase
<1>9. ASSUME ClearView
      PROVE  Index!Clear
  BY <1>4, <1>5, <1>9 DEF ClearView, Index!Clear
<1>10. ASSUME WriteCoins
       PROVE  Index!Flush
  <2>1. slots' = Overwrite(slots, coinsBatch) /\ insertCache' = NoCoins /\ phase = "coins"
    BY <1>10 DEF WriteCoins
  <2>2. slots' = slots \cup coinsBatch
    BY <2>1 DEF Overwrite, RInv, BatchPending, Holds
  <2>3. ASSUME NEW k \in Key
        PROVE  CoinsAt(slots', k) = CoinsAt(slots, k) \cup pending[k]
    <3>1. ASSUME NEW c \in pending[k]
          PROVE  c \in CoinsAt(slots', k)
      <4>1. Placed(k, c)
        BY <2>1 DEF RInv, DonePlaced
      <4> QED
        BY <2>2, <4>1 DEF Placed, CoinsAt
    <3>2. ASSUME NEW s \in coinsBatch, s.key = k
          PROVE  s.coin \in pending[k]
      BY <3>2 DEF RInv, BatchPending, Pending
    <3> QED
      BY <2>2, <3>1, <3>2 DEF CoinsAt
  <2>4. stored' = [k \in Key |-> stored[k] \cup pending[k]]
    BY <1>1, <2>3
  <2> QED
    BY <1>4, <2>1, <2>4 DEF Index!Flush
<1>11. ASSUME Restart
       PROVE  Index!Die
  BY <1>2, <1>4, <1>11 DEF Restart, database, Index!Die
<1>12. ASSUME \/ \E k \in Key : FetchCoins(k) \/ BatchCoin(k)
              \/ Flush \/ WriteAmounts \/ UNCHANGED vars
       PROVE  slots' = slots /\ insertCache' = insertCache
  BY <1>12 DEF FetchCoins, BatchCoin, Flush, WriteAmounts, vars, database
<1> QED
  <2> HIDE DEF stored, pending
  <2>1. CASE \E k \in Key, c \in Coin : SetCoins(k, c) \/ EraseCoins(k, c)
    BY <1>7, <1>8, <2>1 DEF Index!Next
  <2>2. CASE ClearView \/ WriteCoins \/ Restart
    BY <1>9, <1>10, <1>11, <2>2 DEF Index!Next
  <2>3. CASE \/ \E k \in Key : FetchCoins(k) \/ BatchCoin(k)
             \/ Flush \/ WriteAmounts \/ UNCHANGED vars
    BY <1>2, <1>3, <1>6, <1>12, <2>3
  <2> QED
    BY <2>1, <2>2, <2>3 DEF Next

\* The database, its cache and a flush in two batches are the index of CoinIndex, a
\* crash anywhere in the flush included, if no flush brings more than two coins of an
\* address: the coins of a flush join the stored ones all at once or not at all, and
\* what is erased is gone.
THEOREM IndexImplemented ==
    ASSUME MaxPending <= 2
    PROVE  Spec => ImplementsCoinIndex
<1>1. Init => RInv
  <2>1. insertCache = NoCoins => ShortFlush
    <3>1. insertCache = NoCoins => \A k \in Key : insertCache[k] = <<>>
      BY DEF NoCoins
    <3>2. Len(<<>>) = 0 /\ 0 <= MaxPending
      BY AddressToCoinsAssumption DEF AddressToCoinsAssumption
    <3> QED
      BY <3>1, <3>2 DEF ShortFlush
  <2> QED
    BY <2>1 DEF Init, BatchEmpty, RInv, RestFollows, DonePlaced, FirstBelow, BatchPending,
                RecentlyWritten
<1>2. Init => Index!Init
  BY DEF Init, NoCoins, StoredCoins, Index!Init, Index!None
<1>3. IInv /\ RInv /\ [Next]_vars => RInv'
  BY RInvStep
<1>4. IInv /\ IInv' /\ RInv /\ [Next]_vars => [Index!Next]_(Index!indexVars)
  BY IndexStep
<1> QED
  BY <1>1, <1>2, <1>3, <1>4, IInvHolds, PTL DEF Spec, ImplementsCoinIndex, Index!Spec

=============================================================================
