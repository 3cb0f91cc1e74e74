------------------------- MODULE TransactionRecords -------------------------
(***************************************************************************)
(* The records of a tracker (tracker/transactionRecordManager.cpp) step by *)
(* step, with the index of coins below them and the clients that ask for   *)
(* the status of a transaction above (tracker/clientRequestsManager.cpp).  *)
(*                                                                         *)
(* A bundle is recorded in steps of which three last: a coin is erased     *)
(* from the index at once, the new coins of the index are flushed, then    *)
(* the coins database is.  The process may die between any two steps.      *)
(* Only then the transactions are put where getTransaction, called by the  *)
(* thread that serves clients, finds them for a while.  Bundles do not     *)
(* overlap: one thread, the action loop, records them.                     *)
(***************************************************************************)
EXTENDS Integers, Sequences, FiniteSetsExt, SequencesExt

CONSTANTS
    Tx, Output, Key,
    TxOf, IndexOf, KeyOf,   \* an output is output IndexOf of TxOf and pays to KeyOf
    Spends,                 \* the inputs of a transaction, in order
    Unreadable,             \* transactions with an output script that has no end
    Validated, Retrieved, Coinbase,  \* bundles, by how they come
    UsedTimePeriod, PeriodsCount,
    Asked,                  \* transactions clients ask for
    MaxTime, MaxCrashes, MaxBundles     \* bounds of the model

ASSUME RecordsAssumption ==
    /\ TxOf \in [Output -> Tx] /\ IndexOf \in [Output -> Nat] /\ KeyOf \in [Output -> Key]
    /\ Spends \in [Tx -> Seq(Output)] /\ Unreadable \subseteq Tx
    /\ Validated \subseteq Seq(Tx) /\ Retrieved \subseteq Seq(Tx) /\ Coinbase \subseteq Seq(Tx)
    /\ Asked \subseteq Tx
    /\ UsedTimePeriod \in Nat /\ PeriodsCount \in Nat \ {0}
    /\ MaxTime \in Nat /\ MaxCrashes \in Nat /\ MaxBundles \in Nat

VARIABLES
    step,           \* what recording the bundle comes to next
    kind, bundle,   \* the bundle being recorded, and how it came
    inputs, txs,    \* its inputs and its transactions still to do
    coins,          \* the coins database: unspent outputs
    fresh, nulled,  \* in its cache: records set, outputs set to null
    indexed, pending,   \* the index of coins, see CoinIndex
    recentTransactions, lastUsedTime, usedTimes,
    time,           \* GetTime()
    requests,       \* status requests of clients, m_getInfoRequest
    responses,      \* m_infoResponseRecord, by the transaction asked for
    bundles, crashes,   \* how many bundles came, how often the process died
    flushed,        \* transactions the coins database has or had (history)
    damaged,        \* keys of the bundles that were not recorded whole (history)
    recordedAt      \* when a transaction was last remembered (history)

bundleVars == <<step, kind, bundle, inputs, txs, bundles>>
coinsVars == <<coins, fresh, nulled, flushed>>
indexVars == <<indexed, pending>>
recentVars == <<recentTransactions, lastUsedTime, usedTimes, recordedAt>>
clientVars == <<requests, responses>>
vars == <<bundleVars, coinsVars, indexVars, recentVars, clientVars, time, crashes,
          damaged>>

Index == INSTANCE CoinIndex WITH Coin <- Tx, stored <- indexed

TypeOK ==
    /\ step \in {"idle", "spend", "make", "flushIndex", "flushCoins", "remember", "down"}
    /\ kind \in {"none", "validated", "retrieved", "coinbase"}
    /\ bundle \in Seq(Tx) /\ inputs \in Seq(Output) /\ txs \in Seq(Tx)
    /\ coins \subseteq Output /\ fresh \subseteq Tx /\ nulled \subseteq Output
    /\ indexed \in [Key -> SUBSET Tx] /\ pending \in [Key -> SUBSET Tx]
    /\ recentTransactions \subseteq [window : Nat, tx : Tx]
    /\ lastUsedTime \in Nat
    /\ usedTimes \subseteq Nat /\ Cardinality(usedTimes) <= PeriodsCount
    /\ time \in Nat /\ crashes \in Nat /\ bundles \in Nat
    /\ requests \subseteq Tx
    /\ responses \in [Tx -> {"none", "Unconfirmed", "Confirmed"}]
    /\ flushed \subseteq Tx /\ damaged \subseteq Key /\ recordedAt \in [Tx -> Nat]

\* The databases are empty; the clock shows the seconds since 1970.
Init ==
    /\ step = "idle" /\ kind = "none" /\ bundle = <<>> /\ inputs = <<>> /\ txs = <<>>
    /\ coins = {} /\ fresh = {} /\ nulled = {} /\ flushed = {}
    /\ Index!Init
    /\ recentTransactions = {} /\ lastUsedTime = 0 /\ usedTimes = {}
    /\ recordedAt = [x \in Tx |-> 0] /\ time = UsedTimePeriod + 1
    /\ requests = {} /\ responses = [x \in Tx |-> "none"]
    /\ bundles = 0 /\ crashes = 0 /\ damaged = {}

Outputs(X) == {o \in Output : TxOf[o] \in X}
KeysOf(O) == {KeyOf[o] : o \in O}

-----------------------------------------------------------------------------
(* Recording a bundle                                                      *)

Bundles == [validated |-> Validated, retrieved |-> Retrieved, coinbase |-> Coinbase]

\* addValidatedTransactionBundle, addRetrivedTransactionBundle or
\* addCoinbaseTransaction is called; the first goes over the inputs.
Begin(k, b) ==
    /\ step = "idle" /\ b \in Bundles[k]
    /\ bundles < MaxBundles /\ bundles' = bundles + 1
    /\ kind' = k /\ bundle' = b /\ txs' = b
    /\ inputs' = IF k = "validated" THEN FlattenSeq([i \in DOMAIN b |-> Spends[b[i]]])
                                    ELSE <<>>
    /\ step' = "spend"
    /\ UNCHANGED <<coinsVars, indexVars, recentVars, clientVars, time, crashes, damaged>>

\* The keys of everything the bundle spends or makes
Touched ==
    LET X == ToSet(bundle)
    IN  KeysOf(Outputs(X) \cup UNION {ToSet(Spends[x]) : x \in X})

\* The call returns.
Finish(next) ==
    /\ step' = next /\ kind' = "none"
    /\ bundle' = <<>> /\ inputs' = <<>> /\ txs' = <<>>

\* It returns early, with what it did so far in the caches.
Abandon(next) == Finish(next) /\ damaged' = damaged \cup Touched

\* GetCoins: a record is in the cache, or in the database as long as one of its
\* outputs is unspent; it then ends with the last of those.
HasRecord(o) == TxOf[o] \in fresh \/ \E p \in coins : TxOf[p] = TxOf[o]
InRecord(o) == \/ TxOf[o] \in fresh
               \/ \E p \in coins : TxOf[p] = TxOf[o] /\ IndexOf[p] >= IndexOf[o]

\* One input: the coin leaves the index, then the output is set to null in the
\* cache.  Without a record the function returns.  An output the record has no
\* more is read all the same, for its key, and whatever is read decides which
\* coin leaves the index, if any; then vout.at() throws, which ends the loop.
SpendInput ==
    /\ step = "spend" /\ inputs # <<>>
    /\ LET o == Head(inputs)
       IN  \/ /\ ~ HasRecord(o)
              /\ Abandon("idle")
              /\ UNCHANGED <<indexVars, nulled>>
           \/ /\ HasRecord(o) /\ ~ InRecord(o)
              /\ Index!Erase(KeyOf[o], TxOf[o]) \/ UNCHANGED indexVars
              /\ Abandon("down")
              /\ UNCHANGED nulled
           \/ /\ InRecord(o)
              /\ Index!Erase(KeyOf[o], TxOf[o])
              /\ nulled' = nulled \cup {o}
              /\ inputs' = Tail(inputs)
              /\ UNCHANGED <<step, kind, bundle, txs, damaged>>
    /\ UNCHANGED <<bundles, coins, fresh, flushed, recentVars, clientVars, time,
                   crashes>>

EndSpend ==
    /\ step = "spend" /\ inputs = <<>>
    /\ step' = "make"
    /\ UNCHANGED <<kind, bundle, inputs, txs, bundles, coinsVars, indexVars, recentVars,
                   clientVars, time, crashes, damaged>>

\* One transaction: its record is set; an output script that cannot be read ends
\* the call; its coins are set for the keys of its outputs.
MakeOutputs ==
    /\ step = "make" /\ txs # <<>>
    /\ LET x == Head(txs)
       IN  /\ fresh' = fresh \cup {x}
           /\ nulled' = nulled \ Outputs({x})
           /\ \/ /\ x \in Unreadable /\ kind # "coinbase"
                 /\ Abandon("idle")
                 /\ UNCHANGED indexVars
              \/ /\ x \notin Unreadable \/ kind = "coinbase"
                 /\ Index!Set(KeysOf(Outputs({x})), x)
                 /\ txs' = Tail(txs)
                 /\ UNCHANGED <<step, kind, bundle, inputs, damaged>>
    /\ UNCHANGED <<bundles, coins, flushed, recentVars, clientVars, time,
                   crashes>>

EndMake ==
    /\ step = "make" /\ txs = <<>>
    /\ step' = "flushIndex"
    /\ UNCHANGED <<kind, bundle, inputs, txs, bundles, coinsVars, indexVars, recentVars,
                   clientVars, time, crashes, damaged>>

FlushIndex ==
    /\ step = "flushIndex"
    /\ step' = "flushCoins"
    /\ Index!Flush
    /\ UNCHANGED <<kind, bundle, inputs, txs, bundles, coinsVars, recentVars, clientVars, time,
                   crashes, damaged>>

\* Faulty: the records are written, what was spent is not.
FlushCoinsMade ==
    /\ step = "flushCoins"
    /\ coins' = coins \cup Outputs(fresh)
    /\ flushed' = flushed \cup fresh
    /\ fresh' = {} /\ nulled' = {}
    /\ \/ kind = "coinbase" /\ Finish("idle")
       \/ /\ kind # "coinbase"
          /\ step' = "remember" /\ txs' = bundle
          /\ UNCHANGED <<kind, bundle, inputs>>
    /\ UNCHANGED <<bundles, indexVars, recentVars, clientVars, time,
                   crashes, damaged>>

\* CCoinsViewCache::Flush, one batch
FlushCoins ==
    /\ step = "flushCoins"
    /\ coins' = (coins \cup Outputs(fresh)) \ nulled
    /\ flushed' = flushed \cup fresh
    /\ fresh' = {} /\ nulled' = {}
    /\ \/ kind = "coinbase" /\ Finish("idle")
       \/ /\ kind # "coinbase"
          /\ step' = "remember" /\ txs' = bundle
          /\ UNCHANGED <<kind, bundle, inputs>>
    /\ UNCHANGED <<bundles, indexVars, recentVars, clientVars, time,
                   crashes, damaged>>

\* Faulty: the period that ends is counted first.
RotatedEarly ==
    LET used == usedTimes \cup {lastUsedTime}
        gone == IF Cardinality(used) = PeriodsCount THEN {Min(used)} ELSE {}
    IN  [used |-> used \ gone, gone |-> gone, last |-> time]

\* Faulty: the oldest period goes without its transactions.
RotatedForgetful ==
    LET gone == IF Cardinality(usedTimes) = PeriodsCount THEN {Min(usedTimes)} ELSE {}
    IN  [used |-> (usedTimes \ gone) \cup {lastUsedTime}, gone |-> {}, last |-> time]

\* Faulty: the transactions go, the period is still counted.
RotatedGrowing ==
    LET gone == IF Cardinality(usedTimes) >= PeriodsCount THEN {Min(usedTimes)} ELSE {}
    IN  [used |-> usedTimes \cup {lastUsedTime}, gone |-> gone, last |-> time]

\* A new period begins; the oldest one goes, with its transactions, when there
\* are PeriodsCount of them.  The first to be counted is 0, which never was.
Rotated ==
    LET gone == IF Cardinality(usedTimes) = PeriodsCount THEN {Min(usedTimes)} ELSE {}
    IN  [used |-> (usedTimes \ gone) \cup {lastUsedTime}, gone |-> gone, last |-> time]

\* setTransactionToTemporary
SetTransactionToTemporary ==
    /\ step = "remember" /\ txs # <<>>
    /\ txs' = Tail(txs)
    /\ LET x == Head(txs)
           now == IF time - lastUsedTime > UsedTimePeriod THEN Rotated
                  ELSE [used |-> usedTimes, gone |-> {}, last |-> lastUsedTime]
       IN  /\ usedTimes' = now.used
           /\ lastUsedTime' = now.last
           /\ recentTransactions' = {r \in recentTransactions : r.window \notin now.gone}
                                        \cup {[window |-> now.last, tx |-> x]}
           /\ recordedAt' = [recordedAt EXCEPT ![x] = time]
    /\ UNCHANGED <<step, kind, bundle, inputs, bundles, coinsVars, indexVars, clientVars, time,
                   crashes, damaged>>

End ==
    /\ step = "remember" /\ txs = <<>>
    /\ Finish("idle")
    /\ UNCHANGED <<bundles, coinsVars, indexVars, recentVars,
                   clientVars, time, crashes, damaged>>

-----------------------------------------------------------------------------
(* Clients, time and the end of the process                                *)

\* The server stores what a client asks.
AddRequest(x) ==
    /\ x \in Asked \ requests
    /\ requests' = requests \cup {x}
    /\ UNCHANGED <<bundleVars, coinsVars, indexVars, recentVars, responses, time,
                   crashes, damaged>>

\* Faulty: the cache of the coins database is asked too.
GetTransactionCached(x) == x \in fresh \/ \E r \in recentTransactions : r.tx = x

GetTransaction(x) == \E r \in recentTransactions : r.tx = x

\* processRequestLoop visits a CTransactionStatusReq: setClientResponse replaces
\* an answer that was not fetched.
ProcessRequest(x) ==
    /\ x \in requests
    /\ requests' = requests \ {x}
    /\ responses' = [responses EXCEPT ![x] =
                        IF GetTransaction(x) THEN "Confirmed" ELSE "Unconfirmed"]
    /\ UNCHANGED <<bundleVars, coinsVars, indexVars, recentVars, time, crashes, damaged>>

\* The server fetches the answer.
GetResponse(x) ==
    /\ responses[x] # "none"
    /\ responses' = [responses EXCEPT ![x] = "none"]
    /\ UNCHANGED <<bundleVars, coinsVars, indexVars, recentVars, requests, time, crashes,
                   damaged>>

Tick ==
    /\ time < MaxTime
    /\ time' = time + 1
    /\ UNCHANGED <<bundleVars, coinsVars, indexVars, recentVars, clientVars, crashes,
                   damaged>>

\* The process dies and starts again with the databases it has.
Restart ==
    /\ crashes < MaxCrashes
    /\ crashes' = crashes + 1
    /\ Finish("idle")
    /\ fresh' = {} /\ nulled' = {}
    /\ Index!Die
    /\ recentTransactions' = {} /\ lastUsedTime' = 0 /\ usedTimes' = {}
    /\ recordedAt' = [x \in Tx |-> 0]
    /\ requests' = {} /\ responses' = [x \in Tx |-> "none"]
    /\ damaged' = IF step \in {"idle", "remember"} THEN damaged ELSE damaged \cup Touched
    /\ UNCHANGED <<bundles, coins, flushed, time>>

RecordStep ==
    \/ SpendInput \/ EndSpend \/ MakeOutputs \/ EndMake \/ FlushIndex \/ FlushCoins
    \/ SetTransactionToTemporary \/ End

Next ==
    \/ \E k \in DOMAIN Bundles : \E b \in Bundles[k] : Begin(k, b)
    \/ RecordStep
    \/ \E x \in Tx : AddRequest(x) \/ ProcessRequest(x) \/ GetResponse(x)
    \/ Tick \/ Restart

Spec == Init /\ [][Next]_vars

-----------------------------------------------------------------------------
(* Properties                                                              *)

(* A client that hears Confirmed relies on it: getTransaction knows a          *)
(* transaction only after the coins database has it, so that no crash, at any  *)
(* point, takes back what was confirmed.                                       *)
ConfirmedIsDurable == \A x \in Tx : responses[x] = "Confirmed" => x \in flushed

(* setTransactionToTemporary: for PeriodsCount periods after it was recorded a *)
(* client that asks for a transaction finds it, whenever periods begin.        *)
RecentIsFindable ==
    \A x \in Tx : /\ recordedAt[x] # 0
                  /\ time - recordedAt[x] <= PeriodsCount * (UsedTimePeriod + 1)
                  => GetTransaction(x)

(* ... and the recent transactions of more periods are not kept.               *)
RecentIsBounded ==
    Cardinality({r.window : r \in recentTransactions}) <= PeriodsCount + 1

\* Keys that some transaction pays twice: eraseCoins, for one of the two outputs,
\* takes the whole transaction from the index.
PaidTwice == {KeyOf[o] : o \in {p \in Output :
                \E q \in Output \ {p} : TxOf[p] = TxOf[q] /\ KeyOf[p] = KeyOf[q]}}

(* The index and the coins database are written one after the other, and the   *)
(* index in part before either: between bundles they agree, except for the     *)
(* keys of bundles that a crash or an early return cut short.                  *)
IndexAgrees ==
    step = "idle" =>
        \A k \in Key \ (damaged \cup PaidTwice) :
            indexed[k] = {TxOf[o] : o \in {p \in coins : KeyOf[p] = k}}
=============================================================================
