--------------------------- MODULE AddressToCoins ---------------------------
(***************************************************************************)
(* The index from an address to the transactions that pay it: the LevelDB  *)
(* database CAddressToCoins and the cache in front of it,                  *)
(* CAddressToCoinsViewCache (tracker/addressToCoins.cpp).                  *)
(*                                                                         *)
(* The coins of an address are spread over buckets.  For an address and a  *)
(* bucket the database keeps an amount and the slots key + 0, key + 1, ... *)
(* below it, each empty or holding one coin.  A flush first works out two  *)
(* batches, reading the database as it is, and then writes the amounts and *)
(* the coins one after the other: the process can die in between.          *)
(*                                                                         *)
(* A coin determines its bucket, so a slot that holds a coin is a record   *)
(* [key, id, coin].  m_cacheLock is held for a whole flush.                *)
(***************************************************************************)
EXTENDS Integers, Sequences

CONSTANTS
    Key,         \* addresses (uint160)
    Coin,        \* transaction hashes (uint256)
    Bucket,      \* values of getBucket
    BucketOf,    \* getBucket: the lowest byte of the hash
    MaxPending,  \* bound on the coins of a key set between two flushes
    MayRestart   \* whether the process may die and start again

ASSUME AddressToCoinsAssumption ==
    /\ BucketOf \in [Coin -> Bucket]
    /\ MaxPending \in Nat /\ MayRestart \in BOOLEAN

VARIABLES
    coinsAmount,  \* database: coinsAmount[k][b], 0 when there is no record
    slots,        \* database: the slots that hold a coin
    cacheCoins,   \* m_cacheCoins; flush and fetchCoins keep it free of doubles
    insertCache,  \* m_insertCacheCoins: a multimap keeps the order of insertion
    phase,        \* "idle", or how far a flush has come
    rest,         \* coins of m_insertCacheCoins batchWrite has not looked at
    amounts,      \* local to batchWrite: amounts, NoAmount where absent
    recently,     \* local to batchWrite: m_recentlyIncluded
    amountBatch,  \* the batch of amounts, NoAmount where nothing is written
    coinsBatch    \* the batch of coins

database == <<coinsAmount, slots>>
batch == <<rest, amounts, recently, amountBatch, coinsBatch>>
vars == <<database, cacheCoins, insertCache, phase, batch>>

-----------------------------------------------------------------------------
NoAmount == -1
Slot == [key : Key, id : Nat, coin : Coin]
NoAmounts == [k \in Key |-> [b \in Bucket |-> NoAmount]]
NoCoins == [k \in Key |-> <<>>]

TypeOK ==
    /\ coinsAmount \in [Key -> [Bucket -> Nat]]
    /\ slots \subseteq Slot
    /\ cacheCoins \in [Key -> SUBSET Coin]
    /\ insertCache \in [Key -> Seq(Coin)]
    /\ phase \in {"idle", "batch", "coins"}
    /\ rest \in [Key -> Seq(Coin)]
    /\ amounts \in [Key -> [Bucket -> Nat \cup {NoAmount}]]
    /\ recently \subseteq Slot
    /\ amountBatch \in [Key -> [Bucket -> Nat \cup {NoAmount}]]
    /\ coinsBatch \subseteq Slot

BatchEmpty ==
    /\ rest = NoCoins /\ amounts = NoAmounts /\ recently = {}
    /\ amountBatch = NoAmounts /\ coinsBatch = {}

Init ==
    /\ coinsAmount = [k \in Key |-> [b \in Bucket |-> 0]]
    /\ slots = {}
    /\ cacheCoins = [k \in Key |-> {}]
    /\ insertCache = NoCoins
    /\ phase = "idle"
    /\ BatchEmpty

\* haveCoin( key + id, bucket ) in one of the containers of slots
Holds(S, k, b, i) == \E s \in S : s.key = k /\ s.id = i /\ BucketOf[s.coin] = b

\* A later write to a slot replaces an earlier one.
Overwrite(S, new) ==
    {s \in S : ~ \E n \in new : /\ s.key = n.key /\ s.id = n.id
                                /\ BucketOf[s.coin] = BucketOf[n.coin]} \cup new

\* getCoins of the database: what lies below the amounts
StoredCoins(k) ==
    {s.coin : s \in {t \in slots :
                         t.key = k /\ t.id < coinsAmount[k][BucketOf[t.coin]]}}

-----------------------------------------------------------------------------
SetCoins(k, c) ==
    /\ phase = "idle"
    /\ Len(insertCache[k]) < MaxPending
    /\ insertCache' = [insertCache EXCEPT ![k] = Append(@, c)]
    /\ UNCHANGED <<database, cacheCoins, phase, batch>>

\* eraseCoin of the database: the first slot below the amount with the coin
ErasedSlots(k, c) ==
    LET found == {s \in slots : /\ s.key = k /\ s.coin = c
                                /\ s.id < coinsAmount[k][BucketOf[c]]}
    IN  {s \in found : \A t \in found : s.id <= t.id}

\* eraseCoins: one copy leaves the cache, and one slot is emptied; the amount
\* stays, and a coin not yet flushed stays.
EraseCoins(k, c) ==
    /\ phase = "idle"
    /\ cacheCoins' = [cacheCoins EXCEPT ![k] = @ \ {c}]
    /\ slots' = slots \ ErasedSlots(k, c)
    /\ UNCHANGED <<coinsAmount, insertCache, phase, batch>>

\* getCoins and haveCoins: fetchCoins fills an empty cache from the database.
FetchCoins(k) ==
    /\ phase = "idle"
    /\ cacheCoins[k] = {}
    /\ cacheCoins' = [cacheCoins EXCEPT ![k] = StoredCoins(k)]
    /\ UNCHANGED <<database, insertCache, phase, batch>>

ClearView ==
    /\ phase = "idle"
    /\ cacheCoins' = [k \in Key |-> {}]
    /\ insertCache' = NoCoins
    /\ coinsAmount' = [k \in Key |-> [b \in Bucket |-> 0]]
    /\ slots' = {}
    /\ UNCHANGED <<phase, batch>>

-----------------------------------------------------------------------------
(* flush                                                                   *)

Flush ==
    /\ phase = "idle"
    /\ insertCache # NoCoins
    /\ phase' = "batch"
    /\ rest' = insertCache
    /\ UNCHANGED <<database, cacheCoins, insertCache, amounts, recently,
                   amountBatch, coinsBatch>>

\* The amount batchWrite works with: the local one, else the database's.
Amount(k, b) == IF amounts[k][b] # NoAmount THEN amounts[k][b]
                                            ELSE coinsAmount[k][b]

\* Faulty loop: only the database is asked which slots are free.
FreeSlotsOfDatabase(k, b) ==
    {i \in 0 .. Amount(k, b) - 1 : ~ Holds(slots, k, b, i)}

\* Slots below the amount that neither this flush nor the database fills
FreeSlots(k, b) ==
    {i \in 0 .. Amount(k, b) - 1 : ~ Holds(recently, k, b, i)
                                     /\ ~ Holds(slots, k, b, i)}

\* Faulty loop: the slots filled by this flush are not looked at.
IncludedInDatabase(k, c) ==
    \E s \in slots : /\ s.key = k /\ s.coin = c
                     /\ s.id < Amount(k, BucketOf[c])

\* A slot below the amount holds the coin; a slot of this flush hides what
\* the database has there.
Included(k, c) ==
    \E s \in recently \cup {t \in slots : ~ Holds(recently, k, BucketOf[c], t.id)} :
        /\ s.key = k /\ s.coin = c
        /\ s.id < Amount(k, BucketOf[c])

\* The last free slot, or a new one at the end
IsTarget(k, b, i) ==
    IF FreeSlots(k, b) = {} THEN i = Amount(k, b)
    ELSE i \in FreeSlots(k, b) /\ \A j \in FreeSlots(k, b) : j <= i

\* Faulty loop: an append does not raise the amount.
PutCoinShort(k, c, i) ==
    LET b == BucketOf[c]
        amount == Amount(k, b)
        slot == [key |-> k, id |-> i, coin |-> c]
    IN  /\ coinsBatch' = Overwrite(coinsBatch, {slot})
        /\ recently' = IF Holds(recently, k, b, i) THEN recently
                                                  ELSE recently \cup {slot}
        /\ amountBatch' = [amountBatch EXCEPT ![k][b] = amount]
        /\ amounts' = IF amounts[k][b] # NoAmount THEN amounts
                      ELSE [amounts EXCEPT ![k][b] = amount]

\* The coin goes to slot i of both containers; map insert() keeps an entry
\* that is there, so the local amount is the first one of the flush.
PutCoin(k, c, i) ==
    LET b == BucketOf[c]
        amount == IF i = Amount(k, b) THEN i + 1 ELSE Amount(k, b)
        slot == [key |-> k, id |-> i, coin |-> c]
    IN  /\ coinsBatch' = Overwrite(coinsBatch, {slot})
        /\ recently' = IF Holds(recently, k, b, i) THEN recently
                                                  ELSE recently \cup {slot}
        /\ amountBatch' = [amountBatch EXCEPT ![k][b] = amount]
        /\ amounts' = IF amounts[k][b] # NoAmount THEN amounts
                      ELSE [amounts EXCEPT ![k][b] = amount]

\* One turn of the inner loop of batchWrite.  Its locals belong to one key, so
\* the order in which the keys are taken does not matter.
BatchCoin(k) ==
    /\ phase = "batch" /\ rest[k] # <<>>
    /\ rest' = [rest EXCEPT ![k] = Tail(@)]
    /\ LET c == Head(rest[k]) IN
           \/ /\ Included(k, c)
              /\ UNCHANGED <<amounts, recently, amountBatch, coinsBatch>>
           \/ /\ ~ Included(k, c)
              /\ \E i \in 0 .. Amount(k, BucketOf[c]) :
                     IsTarget(k, BucketOf[c], i) /\ PutCoin(k, c, i)
    /\ UNCHANGED <<database, cacheCoins, insertCache, phase>>

\* Faulty write: amounts the flush did not work out are written too.
WriteAllAmounts ==
    /\ phase = "batch" /\ rest = NoCoins
    /\ phase' = "coins"
    /\ coinsAmount' = amountBatch
    /\ UNCHANGED <<slots, cacheCoins, insertCache, batch>>

\* CAddressToCoinsDatabase::batchWrite( amountBatch ): one atomic LevelDB write
WriteAmounts ==
    /\ phase = "batch" /\ rest = NoCoins
    /\ phase' = "coins"
    /\ coinsAmount' = [k \in Key |-> [b \in Bucket |->
           IF amountBatch[k][b] # NoAmount THEN amountBatch[k][b]
                                           ELSE coinsAmount[k][b]]]
    /\ UNCHANGED <<slots, cacheCoins, insertCache, batch>>

\* CAddressToCoinsDatabase::batchWrite( coinsBatch ), and the rest of flush:
\* the coins join the cache, those already there excepted.
WriteCoins ==
    /\ phase = "coins"
    /\ phase' = "idle"
    /\ slots' = Overwrite(slots, coinsBatch)
    /\ cacheCoins' = [k \in Key |-> cacheCoins[k] \cup
                          {insertCache[k][n] : n \in DOMAIN insertCache[k]}]
    /\ insertCache' = NoCoins
    /\ rest' = NoCoins /\ amounts' = NoAmounts /\ recently' = {}
    /\ amountBatch' = NoAmounts /\ coinsBatch' = {}
    /\ UNCHANGED coinsAmount

\* The process dies, wherever it is, and starts again with empty caches.
Restart ==
    /\ MayRestart
    /\ phase' = "idle"
    /\ cacheCoins' = [k \in Key |-> {}]
    /\ insertCache' = NoCoins
    /\ rest' = NoCoins /\ amounts' = NoAmounts /\ recently' = {}
    /\ amountBatch' = NoAmounts /\ coinsBatch' = {}
    /\ UNCHANGED database

Next ==
    \/ \E k \in Key, c \in Coin : SetCoins(k, c) \/ EraseCoins(k, c)
    \/ \E k \in Key : FetchCoins(k) \/ BatchCoin(k)
    \/ ClearView \/ Flush \/ WriteAmounts \/ WriteCoins \/ Restart

Spec == Init /\ [][Next]_vars

-----------------------------------------------------------------------------
(* Properties.                                                             *)

\* No coin lies at or beyond its amount, where neither getCoins nor eraseCoin
\* would find it and the next append would overwrite it, not even when the
\* process dies between the two batches of a flush (batchWrite).
NoOrphanCoin ==
    \A s \in slots : s.id < coinsAmount[s.key][BucketOf[s.coin]]

\* A coin of an address is in one slot only.  eraseCoin stops at the first
\* match, so a second copy would survive the spending of the coin.
NoDoubleCoin ==
    \A s, t \in slots : s.key = t.key /\ s.coin = t.coin => s = t

\* getCoins, setCoins, eraseCoins and flush implement the index of CoinIndex, a
\* process that dies between the two batches of a flush included, as long as no
\* flush has more than two coins of an address (batchWrite).
Index == INSTANCE CoinIndex WITH
    stored <- [k \in Key |-> StoredCoins(k)],
    pending <- [k \in Key |-> {insertCache[k][n] : n \in DOMAIN insertCache[k]}]
ImplementsCoinIndex == Index!Spec
=============================================================================
