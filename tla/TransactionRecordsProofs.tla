----------------------- MODULE TransactionRecordsProofs -----------------------
(***************************************************************************)
(* Proofs about TransactionRecords, for any transactions, outputs, keys,   *)
(* bundles, periods and crashes.                                           *)
(***************************************************************************)
EXTENDS TransactionRecords, Induction, FiniteSetTheorems, TLAPS

-----------------------------------------------------------------------------
(* The inductive invariant                                                 *)

\* The transactions of O that pay to key k, and what the cache makes of the coins
Paying(k, O) == {TxOf[o] : o \in {p \in O : KeyOf[p] = k}}
View == (coins \cup Outputs(fresh)) \ nulled

\* What the bundle spends
SpentBy(X) == UNION {ToSet(Spends[x]) : x \in X}

\* Between two bundles nothing is kept; inputs and txs are what is left of it.
Work ==
    /\ step \in {"idle", "down"} => bundle = <<>>
    /\ ToSet(inputs) \subseteq SpentBy(ToSet(bundle))
    /\ ToSet(txs) \subseteq ToSet(bundle)
    /\ step = "spend" => txs = bundle
    /\ step \in {"make", "flushIndex", "flushCoins"} =>
           ToSet(bundle) \subseteq fresh \cup ToSet(txs)
    /\ step \in {"flushIndex", "flushCoins"} => txs = <<>>

\* What is remembered and confirmed has been flushed.
Durable ==
    /\ step = "remember" => ToSet(bundle) \subseteq flushed
    /\ \A r \in recentTransactions : r.tx \in flushed
    /\ ConfirmedIsDurable

\* The index and the caches of key k agree with the coins database.
Unused(k) == pending[k] = {} /\ \A o \in Outputs(fresh) : KeyOf[o] # k
Clean(k) == /\ Unused(k) /\ \A o \in nulled : KeyOf[o] # k
            /\ k \notin PaidTwice => indexed[k] = Paying(k, coins)

\* How they come to differ and to agree again while a bundle is recorded
Agreeing(k) ==
    /\ step \in {"idle", "down", "remember"} \/ k \notin Touched => Clean(k)
    /\ step = "spend" =>
           Unused(k) /\ (k \notin PaidTwice => indexed[k] = Paying(k, coins \ nulled))
    /\ step \in {"make", "flushIndex"} /\ k \notin PaidTwice =>
           indexed[k] \cup pending[k] = Paying(k, View)
    /\ step = "flushCoins" =>
           pending[k] = {} /\ (k \notin PaidTwice => indexed[k] = Paying(k, View))

Agreement == \A k \in Key \ damaged : Agreeing(k)

\* Periods are longer than UsedTimePeriod: from one that is counted to the current
\* one there are as many as are counted from there.
Since(W, w) == {v \in W : v >= w}
Apart(W, g, t) == \A w \in W : w + Cardinality(Since(W, w)) * g <= t
Spaced ==
    /\ IsFiniteSet(usedTimes)
    /\ Apart(usedTimes, UsedTimePeriod + 1, lastUsedTime)
    /\ lastUsedTime <= time /\ UsedTimePeriod + 1 <= time

\* A transaction is in the period in which it was recorded, or that was long ago.
Kept(x) ==
    \/ \E r \in recentTransactions : /\ r.tx = x /\ r.window <= recordedAt[x]
                                     /\ recordedAt[x] <= r.window + UsedTimePeriod
    \/ time - recordedAt[x] > PeriodsCount * (UsedTimePeriod + 1)

Recent ==
    /\ \A r \in recentTransactions : r.window \in usedTimes \cup {lastUsedTime}
    /\ \A x \in Tx : recordedAt[x] # 0 => Kept(x)

IInv == TypeOK /\ Work /\ Durable /\ Agreement /\ Spaced /\ Recent

-----------------------------------------------------------------------------
(* Sequences                                                               *)

LEMMA TailSet ==
    ASSUME NEW S, NEW s \in Seq(S), s # <<>>
    PROVE  /\ Tail(s) \in Seq(S) /\ Head(s) \in S /\ Head(s) \in ToSet(s)
           /\ ToSet(Tail(s)) \subseteq ToSet(s) /\ ToSet(s) \subseteq {Head(s)} \cup ToSet(Tail(s))
<1>1. /\ Tail(s) \in Seq(S) /\ Head(s) = s[1] /\ 1 \in DOMAIN s
      /\ Len(Tail(s)) = Len(s) - 1 /\ \A i \in 1 .. Len(s) - 1 : Tail(s)[i] = s[i + 1]
  OBVIOUS
<1>2. ToSet(Tail(s)) \subseteq ToSet(s)
  BY <1>1 DEF ToSet
<1>3. ASSUME NEW i \in DOMAIN s
      PROVE  s[i] \in {Head(s)} \cup ToSet(Tail(s))
  <2>1. CASE i = 1
    BY <1>1, <2>1
  <2>2. CASE i # 1
    <3>1. i - 1 \in DOMAIN Tail(s) /\ Tail(s)[i - 1] = s[i]
      BY <1>1, <2>2
    <3> QED
      BY <3>1 DEF ToSet
  <2> QED
    BY <2>1, <2>2
<1> QED
  BY <1>1, <1>2, <1>3 DEF ToSet

LEMMA EmptySet == ToSet(<<>>) = {}
BY DEF ToSet

\* The recursive function of FlattenSeq exists.
LEMMA FlattenExists ==
    ASSUME NEW S, NEW seqs \in Seq(Seq(S)), Len(seqs) # 0
    PROVE  \E f : /\ f[1] = seqs[1]
                  /\ \A n \in 2 .. Len(seqs) : f[n] = f[n - 1] \o seqs[n]
                  /\ FlattenSeq(seqs) = f[Len(seqs)]
<1> DEFINE Def(f, i) == IF i = 1 THEN seqs[i] ELSE f[i - 1] \o seqs[i]
           P(m) == \E f : f = [i \in 1 .. m |-> Def(f, i)]
           G == {m \in Nat : P(m)}
<1>1. P(0)
  <2>1. [i \in 1 .. 0 |-> <<>>] = [i \in 1 .. 0 |-> Def([k \in 1 .. 0 |-> <<>>], i)]
    OBVIOUS
  <2> QED
    BY <2>1
<1>2. ASSUME NEW m \in Nat, P(m)
      PROVE  P(m + 1)
  <2>1. PICK f : f = [i \in 1 .. m |-> Def(f, i)]
    BY <1>2
  <2> DEFINE g == [i \in 1 .. m + 1 |-> IF i = m + 1 THEN Def(f, m + 1) ELSE f[i]]
  <2>2. \A i \in 1 .. m : g[i] = f[i]
    OBVIOUS
  <2>3. ASSUME NEW i \in 1 .. m + 1
        PROVE  g[i] = Def(g, i)
    <3>1. CASE i = m + 1
      BY <2>2, <3>1
    <3>2. CASE i \in 1 .. m
      <4>1. f[i] = Def(f, i)
        BY <2>1, <3>2
      <4> QED
        BY <2>2, <3>2, <4>1
    <3> QED
      BY <3>1, <3>2
  <2>4. g = [i \in 1 .. m + 1 |-> Def(g, i)]
    BY <2>3
  <2> QED
    BY <2>4
<1>3. Nat \subseteq G
  <2>1. 0 \in G /\ \A n \in Nat : n \in G => n + 1 \in G
    <3> HIDE DEF P
    <3> QED
      BY <1>1, <1>2
  <2> HIDE DEF G
  <2> QED
    BY <2>1, NatInd
<1> DEFINE flatten == CHOOSE f : f = [i \in 1 .. Len(seqs) |-> Def(f, i)]
<1>4. flatten = [i \in 1 .. Len(seqs) |-> Def(flatten, i)]
  <2>1. P(Len(seqs))
    <3> HIDE DEF P
    <3> QED
      BY <1>3
  <2> QED
    BY <2>1
<1>5. FlattenSeq(seqs) = flatten[Len(seqs)]
  BY DEF FlattenSeq
<1> HIDE DEF flatten
<1>6. \A n \in 1 .. Len(seqs) : flatten[n] = Def(flatten, n)
  BY <1>4
<1>7. flatten[1] = seqs[1]
  BY <1>6
<1>8. ASSUME NEW n \in 2 .. Len(seqs)
      PROVE  flatten[n] = flatten[n - 1] \o seqs[n]
  <2>1. n \in 1 .. Len(seqs) /\ n # 1
    OBVIOUS
  <2> QED
    BY <1>6, <2>1
<1> QED
  BY <1>5, <1>7, <1>8

LEMMA ConcatSet ==
    ASSUME NEW S, NEW p \in Seq(S), NEW q \in Seq(S),
           NEW T, ToSet(p) \subseteq T, ToSet(q) \subseteq T
    PROVE  p \o q \in Seq(S) /\ ToSet(p \o q) \subseteq T
<1>1. ASSUME NEW i \in DOMAIN (p \o q)
      PROVE  (p \o q)[i] \in T
  <2>1. CASE i <= Len(p)
    <3>1. i \in DOMAIN p /\ (p \o q)[i] = p[i]
      BY <2>1
    <3> QED
      BY <3>1 DEF ToSet
  <2>2. CASE i > Len(p)
    <3>1. i - Len(p) \in DOMAIN q /\ (p \o q)[i] = q[i - Len(p)]
      BY <2>2
    <3> QED
      BY <3>1 DEF ToSet
  <2> QED
    BY <2>1, <2>2
<1> QED
  BY <1>1 DEF ToSet

LEMMA FlattenSteps ==
    ASSUME NEW S, NEW seqs \in Seq(Seq(S)), Len(seqs) # 0,
           NEW T, \A i \in DOMAIN seqs : ToSet(seqs[i]) \subseteq T,
           NEW f, f[1] = seqs[1], \A n \in 2 .. Len(seqs) : f[n] = f[n - 1] \o seqs[n]
    PROVE  f[Len(seqs)] \in Seq(S) /\ ToSet(f[Len(seqs)]) \subseteq T
<1> DEFINE OK(n) == n + 1 <= Len(seqs) => f[n + 1] \in Seq(S) /\ ToSet(f[n + 1]) \subseteq T
           G == {n \in Nat : OK(n)}
<1>1. OK(0)
  <2>1. 1 \in DOMAIN seqs /\ seqs[1] \in Seq(S) /\ f[0 + 1] = seqs[1]
    OBVIOUS
  <2> QED
    BY <2>1
<1>2. ASSUME NEW n \in Nat, OK(n)
      PROVE  OK(n + 1)
  <2>1. SUFFICES ASSUME (n + 1) + 1 <= Len(seqs)
                 PROVE  f[(n + 1) + 1] \in Seq(S) /\ ToSet(f[(n + 1) + 1]) \subseteq T
    OBVIOUS
  <2>2. f[n + 1] \in Seq(S) /\ ToSet(f[n + 1]) \subseteq T
    BY <1>2, <2>1
  <2>3. /\ (n + 1) + 1 \in 2 .. Len(seqs) /\ ((n + 1) + 1) - 1 = n + 1
        /\ (n + 1) + 1 \in DOMAIN seqs
    BY <2>1
  <2>4. f[(n + 1) + 1] = f[n + 1] \o seqs[(n + 1) + 1]
    BY <2>3
  <2>5. seqs[(n + 1) + 1] \in Seq(S) /\ ToSet(seqs[(n + 1) + 1]) \subseteq T
    BY <2>3
  <2>6. /\ f[n + 1] \o seqs[(n + 1) + 1] \in Seq(S)
        /\ ToSet(f[n + 1] \o seqs[(n + 1) + 1]) \subseteq T
    <3>1. \A p, q \in Seq(S) : ToSet(p) \subseteq T /\ ToSet(q) \subseteq T =>
              p \o q \in Seq(S) /\ ToSet(p \o q) \subseteq T
      BY ConcatSet
    <3> QED
      BY <2>2, <2>5, <3>1
  <2> QED
    BY <2>4, <2>6
<1>3. Nat \subseteq G
  <2>1. 0 \in G /\ \A n \in Nat : n \in G => n + 1 \in G
    <3> HIDE DEF OK
    <3> QED
      BY <1>1, <1>2
  <2> HIDE DEF G
  <2> QED
    BY <2>1, NatInd
<1>4. Len(seqs) - 1 \in Nat /\ (Len(seqs) - 1) + 1 = Len(seqs)
  OBVIOUS
<1>5. OK(Len(seqs) - 1)
  <2> HIDE DEF OK
  <2> QED
    BY <1>3, <1>4
<1> QED
  BY <1>4, <1>5

\* FlattenSeq has the elements of its parts.
LEMMA FlattenParts ==
    ASSUME NEW S, NEW seqs \in Seq(Seq(S)),
           NEW T, \A i \in DOMAIN seqs : ToSet(seqs[i]) \subseteq T
    PROVE  FlattenSeq(seqs) \in Seq(S) /\ ToSet(FlattenSeq(seqs)) \subseteq T
<1>1. CASE Len(seqs) = 0
  <2>1. seqs = <<>> /\ FlattenSeq(seqs) = <<>>
    BY <1>1 DEF FlattenSeq
  <2>2. <<>> \in Seq(S) /\ ToSet(<<>>) \subseteq T
    BY EmptySet
  <2> QED
    BY <2>1, <2>2
<1>2. CASE Len(seqs) # 0
  <2>1. PICK f : /\ f[1] = seqs[1]
                 /\ \A n \in 2 .. Len(seqs) : f[n] = f[n - 1] \o seqs[n]
                 /\ FlattenSeq(seqs) = f[Len(seqs)]
    BY <1>2, FlattenExists
  <2>2. f[1] = seqs[1] /\ \A n \in 2 .. Len(seqs) : f[n] = f[n - 1] \o seqs[n]
    BY <2>1
  <2>3. f[Len(seqs)] \in Seq(S) /\ ToSet(f[Len(seqs)]) \subseteq T
    BY <1>2, <2>2, FlattenSteps
  <2> QED
    BY <2>1, <2>3
<1> QED
  BY <1>1, <1>2

-----------------------------------------------------------------------------
(* Periods                                                                 *)

LEMMA MinIs ==
    ASSUME NEW W, W \subseteq Nat, W # {}
    PROVE  Min(W) \in W /\ \A v \in W : Min(W) <= v
BY NatMin DEF Min

\* A new period begins: what Rotated does to the counted ones W, with L the period
\* that ends, t the time, g the least distance of two periods and D what goes.
Turning(W, L, t, g, N) ==
    /\ W \subseteq Nat /\ IsFiniteSet(W) /\ L \in Nat /\ t \in Nat /\ g \in Nat \ {0}
    /\ L + g <= t /\ Apart(W, g, L)
    /\ N \in Nat \ {0} /\ Cardinality(W) <= N

Turned(V, D, t, g, N) ==
    /\ V \subseteq Nat /\ IsFiniteSet(V) /\ Cardinality(V) <= N /\ Apart(V, g, t)
    /\ \A w \in D : w + (N * g) + g <= t

LEMMA Rotation ==
    ASSUME NEW W, NEW L, NEW t, NEW g, NEW N, Turning(W, L, t, g, N),
           NEW D, D = (IF Cardinality(W) = N THEN {Min(W)} ELSE {}),
           NEW V, V = (W \ D) \cup {L}
    PROVE  Turned(V, D, t, g, N)
<1> USE DEF Turning
<1>1. Cardinality(W) \in Nat
  BY FS_CardinalityType
<1>2. Cardinality(W) = N => /\ W # {} /\ Min(W) \in W /\ \A v \in W : Min(W) <= v
  BY MinIs, FS_EmptySet
<1>3. ASSUME NEW w \in W
      PROVE  /\ IsFiniteSet({v \in W : v >= w}) /\ Cardinality({v \in W : v >= w}) \in Nat \ {0}
             /\ w < L
  <2>1. IsFiniteSet({v \in W : v >= w})
    BY FS_Subset
  <2>2. w \in {v \in W : v >= w}
    OBVIOUS
  <2> DEFINE c == Cardinality({v \in W : v >= w})
  <2>3. c \in Nat /\ c # 0
    BY <2>1, <2>2, FS_CardinalityType, FS_EmptySet
  <2>4. w + c * g <= L
    BY DEF Apart, Since
  <2> HIDE DEF c
  <2>5. c * g >= 1
    BY <2>3
  <2>6. w < L
    BY <2>3, <2>4, <2>5
  <2> QED
    BY <2>1, <2>3, <2>6 DEF c
<1>4. (\A w \in W : w \in Nat /\ w < L) /\ L \notin W
  <2>1. \A w \in W : w < L
    BY <1>3, Zenon
  <2> QED
    BY <2>1
<1>5. V \subseteq Nat
  OBVIOUS
<1>6. IsFiniteSet(W \ D) /\ Cardinality(W \ D) \in Nat /\ Cardinality(W \ D) + 1 <= N
  <2>1. CASE Cardinality(W) = N
    <3>1. D = {Min(W)} /\ Min(W) \in W
      BY <1>2, <2>1
    <3>2. IsFiniteSet(W \ {Min(W)}) /\ Cardinality(W \ {Min(W)}) = Cardinality(W) - 1
      BY <3>1, FS_RemoveElement
    <3> QED
      BY <2>1, <3>1, <3>2
  <2>2. CASE Cardinality(W) # N
    <3>1. D = {} /\ W \ D = W
      BY <2>2
    <3> QED
      BY <1>1, <2>2, <3>1
  <2> QED
    BY <2>1, <2>2
<1>7. IsFiniteSet(V) /\ Cardinality(V) <= N
  <2>1. /\ IsFiniteSet((W \ D) \cup {L})
        /\ Cardinality((W \ D) \cup {L}) = Cardinality(W \ D) + 1
    BY <1>4, <1>6, FS_AddElement
  <2> QED
    BY <1>6, <2>1
<1>8. ASSUME NEW w \in V
      PROVE  w + Cardinality({v \in V : v >= w}) * g <= t
  <2>1. CASE w = L
    <3>1. {v \in V : v >= w} = {L}
      <4>1. ASSUME NEW v \in V, v >= w PROVE v = L
        BY <1>4, <2>1, <4>1
      <4>2. L \in V /\ L >= w
        BY <2>1
      <4> QED
        BY <4>1, <4>2
    <3>2. Cardinality({L}) = 1
      BY FS_Singleton
    <3> QED
      BY <2>1, <3>1, <3>2
  <2>2. CASE w \in W \ D
    <3> DEFINE S == {v \in W : v >= w}
    <3>1. \A v \in D : v \in Nat /\ v < w
      <4>1. SUFFICES ASSUME NEW v \in D
                     PROVE  v \in Nat /\ v < w
        OBVIOUS
      <4>2. Cardinality(W) = N /\ v = Min(W) /\ v # w
        BY <2>2
      <4>3. v \in W /\ v <= w
        BY <1>2, <2>2, <4>2
      <4> QED
        BY <2>2, <4>2, <4>3
    <3>2. {v \in V : v >= w} = S \cup {L}
      <4>1. ASSUME NEW v \in S PROVE v \in V /\ v >= w
        BY <2>2, <3>1
      <4>2. ASSUME NEW v \in V, v >= w PROVE v \in S \cup {L}
        BY <2>2, <4>2
      <4>3. L \in V /\ L >= w
        BY <1>4, <2>2
      <4> QED
        BY <4>1, <4>2, <4>3
    <3>3. IsFiniteSet(S) /\ L \notin S /\ Cardinality(S) \in Nat /\ w + Cardinality(S) * g <= L
      BY <1>3, <1>4, <2>2 DEF Apart, Since
    <3>4. Cardinality(S \cup {L}) = Cardinality(S) + 1
      <4> HIDE DEF S
      <4> QED
        BY <3>3, FS_AddElement
    <3> DEFINE c == Cardinality(S)
    <3>5. Cardinality({v \in V : v >= w}) = c + 1 /\ c \in Nat /\ w + c * g <= L
      BY <3>2, <3>3, <3>4
    <3> HIDE DEF c
    <3>6. (c + 1) * g = c * g + g
      BY <3>5
    <3>7. c * g \in Nat
      BY <3>5
    <3> QED
      BY <3>5, <3>6, <3>7
  <2> QED
    BY <2>1, <2>2
<1>9. ASSUME NEW w \in D
      PROVE  w + (N * g) + g <= t
  <2>1. Cardinality(W) = N /\ w = Min(W)
    OBVIOUS
  <2>2. w \in W /\ {v \in W : v >= w} = W
    BY <1>2, <2>1
  <2>3. w + N * g <= L
    BY <2>1, <2>2 DEF Apart, Since
  <2>4. N * g \in Nat
    OBVIOUS
  <2> QED
    BY <2>2, <2>3, <2>4
<1>10. Apart(V, g, t)
  BY <1>8 DEF Apart, Since
<1> QED
  BY <1>5, <1>7, <1>9, <1>10 DEF Turned

-----------------------------------------------------------------------------
(* Type and work                                                           *)

USE RecordsAssumption

\* setTransactionToTemporary as one formula, for x and a time that is none of the state
LEMMA Temporary ==
    ASSUME TypeOK, Spaced, SetTransactionToTemporary
    PROVE  /\ Head(txs) \in Tx /\ Head(txs) \in ToSet(txs)
           /\ usedTimes' \subseteq Nat /\ IsFiniteSet(usedTimes')
           /\ Cardinality(usedTimes') <= PeriodsCount
           /\ lastUsedTime' \in Nat /\ lastUsedTime' <= time
           /\ time <= lastUsedTime' + UsedTimePeriod
           /\ Apart(usedTimes', UsedTimePeriod + 1, lastUsedTime')
           /\ recordedAt' = [recordedAt EXCEPT ![Head(txs)] = time]
           /\ \E D : /\ recentTransactions' =
                            {r \in recentTransactions : r.window \notin D}
                                \cup {[window |-> lastUsedTime', tx |-> Head(txs)]}
                     /\ usedTimes \cup {lastUsedTime}
                            \subseteq D \cup usedTimes' \cup {lastUsedTime'}
                     /\ \A w \in D \cap Nat :
                            w + PeriodsCount * (UsedTimePeriod + 1) + UsedTimePeriod < time
<1> DEFINE g == UsedTimePeriod + 1
<1>1. Head(txs) \in Tx /\ Head(txs) \in ToSet(txs)
  BY TailSet DEF TypeOK, SetTransactionToTemporary
<1>2. recordedAt' = [recordedAt EXCEPT ![Head(txs)] = time]
  BY DEF SetTransactionToTemporary
<1>3. /\ time \in Nat /\ lastUsedTime \in Nat /\ UsedTimePeriod \in Nat /\ lastUsedTime <= time
      /\ PeriodsCount \in Nat \ {0} /\ usedTimes \subseteq Nat /\ IsFiniteSet(usedTimes)
      /\ Cardinality(usedTimes) <= PeriodsCount /\ g \in Nat \ {0}
      /\ Apart(usedTimes, g, lastUsedTime)
  BY DEF TypeOK, Spaced
<1>4. CASE time - lastUsedTime > UsedTimePeriod
  <2> DEFINE D == IF Cardinality(usedTimes) = PeriodsCount THEN {Min(usedTimes)} ELSE {}
             V == (usedTimes \ D) \cup {lastUsedTime}
  <2>1. usedTimes' = V /\ lastUsedTime' = time
    BY <1>4 DEF SetTransactionToTemporary, Rotated
  <2>2. recentTransactions' = {r \in recentTransactions : r.window \notin D}
                                  \cup {[window |-> time, tx |-> Head(txs)]}
    BY <1>4 DEF SetTransactionToTemporary, Rotated
  <2>3. lastUsedTime + g <= time
    BY <1>3, <1>4
  <2>4. /\ V \subseteq Nat /\ IsFiniteSet(V) /\ Cardinality(V) <= PeriodsCount
        /\ Apart(V, g, time)
        /\ \A w \in D : w + (PeriodsCount * g) + g <= time
    <3>1. /\ D = IF Cardinality(usedTimes) = PeriodsCount THEN {Min(usedTimes)} ELSE {}
          /\ V = (usedTimes \ D) \cup {lastUsedTime}
      OBVIOUS
    <3>2. Turning(usedTimes, lastUsedTime, time, g, PeriodsCount)
      BY <1>3, <2>3 DEF Turning
    <3> HIDE DEF g, D, V
    <3>3. Turned(V, D, time, g, PeriodsCount)
      BY <3>1, <3>2, Rotation, Zenon
    <3> QED
      BY <3>3 DEF Turned
  <2>5. usedTimes \cup {lastUsedTime} \subseteq D \cup V \cup {time}
    OBVIOUS
  <2>6. \A w \in D \cap Nat : w + PeriodsCount * g + UsedTimePeriod < time
    <3>1. PeriodsCount * g \in Nat
      BY <1>3
    <3>2. \A w \in D : w + (PeriodsCount * g) + g <= time
      BY <2>4
    <3> HIDE DEF D
    <3> QED
      BY <1>3, <3>1, <3>2
  <2> HIDE DEF D, V
  <2>7. \E E : /\ recentTransactions' =
                      {r \in recentTransactions : r.window \notin E}
                          \cup {[window |-> time, tx |-> Head(txs)]}
               /\ usedTimes \cup {lastUsedTime} \subseteq E \cup V \cup {time}
               /\ \A w \in E \cap Nat :
                      w + PeriodsCount * g + UsedTimePeriod < time
    BY <2>2, <2>5, <2>6
  <2>8. lastUsedTime' \in Nat /\ lastUsedTime' <= time /\ time <= lastUsedTime' + UsedTimePeriod
    BY <1>3, <2>1
  <2> QED
    BY <1>1, <1>2, <2>1, <2>4, <2>7, <2>8
<1>5. CASE ~ (time - lastUsedTime > UsedTimePeriod)
  <2>1. usedTimes' = usedTimes /\ lastUsedTime' = lastUsedTime
    BY <1>5 DEF SetTransactionToTemporary
  <2>2. recentTransactions' = {r \in recentTransactions : r.window \notin {}}
                                  \cup {[window |-> lastUsedTime, tx |-> Head(txs)]}
    BY <1>5 DEF SetTransactionToTemporary
  <2>3. \E E : /\ recentTransactions' =
                      {r \in recentTransactions : r.window \notin E}
                          \cup {[window |-> lastUsedTime, tx |-> Head(txs)]}
               /\ usedTimes \cup {lastUsedTime} \subseteq E \cup usedTimes \cup {lastUsedTime}
               /\ \A w \in E \cap Nat :
                      w + PeriodsCount * g + UsedTimePeriod < time
    <3>1. \A w \in {} \cap Nat : w + PeriodsCount * g + UsedTimePeriod < time
      OBVIOUS
    <3> HIDE DEF g
    <3> WITNESS {}
    <3> QED
      BY <2>2, <3>1
  <2>4. time <= lastUsedTime + UsedTimePeriod
    BY <1>3, <1>5
  <2> QED
    BY <1>1, <1>2, <1>3, <2>1, <2>3, <2>4
<1> QED
  BY <1>4, <1>5

\* What Begin takes from a bundle
LEMMA BundleParts ==
    ASSUME NEW k \in DOMAIN Bundles, NEW b \in Bundles[k], Begin(k, b)
    PROVE  /\ k \in {"validated", "retrieved", "coinbase"} /\ b \in Seq(Tx)
           /\ inputs' \in Seq(Output) /\ ToSet(inputs') \subseteq SpentBy(ToSet(b))
<1>1. k \in {"validated", "retrieved", "coinbase"} /\ b \in Seq(Tx)
  BY DEF Bundles
<1> DEFINE parts == [i \in DOMAIN b |-> Spends[b[i]]]
<1>2. CASE k = "validated"
  <2>1. inputs' = FlattenSeq(parts)
    BY <1>2 DEF Begin
  <2>2. parts \in Seq(Seq(Output))
    <3>1. DOMAIN b = 1 .. Len(b) /\ Len(b) \in Nat /\ \A i \in DOMAIN b : b[i] \in Tx
      BY <1>1
    <3>2. parts \in [1 .. Len(b) -> Seq(Output)]
      BY <3>1
    <3> QED
      BY <3>1, <3>2
  <2>3. ASSUME NEW i \in DOMAIN parts
        PROVE  ToSet(parts[i]) \subseteq SpentBy(ToSet(b))
    <3>1. i \in DOMAIN b /\ parts[i] = Spends[b[i]]
      OBVIOUS
    <3>2. b[i] \in ToSet(b)
      BY <3>1 DEF ToSet
    <3> QED
      BY <3>1, <3>2 DEF SpentBy
  <2> HIDE DEF parts
  <2>4. FlattenSeq(parts) \in Seq(Output) /\ ToSet(FlattenSeq(parts)) \subseteq SpentBy(ToSet(b))
    BY <2>2, <2>3, FlattenParts
  <2> QED
    BY <1>1, <2>1, <2>4
<1>3. CASE k # "validated"
  <2>1. inputs' = <<>>
    BY <1>3 DEF Begin
  <2> QED
    BY <1>1, <2>1, EmptySet
<1> QED
  BY <1>2, <1>3

LEMMA TouchedKeys == TypeOK => Touched \subseteq Key
<1> SUFFICES ASSUME TypeOK
             PROVE  Touched \subseteq Key
  OBVIOUS
<1>1. ToSet(bundle) \subseteq Tx
  BY DEF ToSet, TypeOK
<1>2. \A x \in Tx : ToSet(Spends[x]) \subseteq Output
  BY DEF ToSet
<1>3. \A O : O \subseteq Output => KeysOf(O) \subseteq Key
  BY DEF KeysOf
<1>4. Outputs(ToSet(bundle)) \cup UNION {ToSet(Spends[x]) : x \in ToSet(bundle)} \subseteq Output
  BY <1>1, <1>2 DEF Outputs
<1> QED
  BY <1>3, <1>4 DEF Touched

\* TypeOK by what the actions change together
BundleType ==
    /\ step \in {"idle", "spend", "make", "flushIndex", "flushCoins", "remember", "down"}
    /\ kind \in {"none", "validated", "retrieved", "coinbase"}
    /\ bundle \in Seq(Tx) /\ inputs \in Seq(Output) /\ txs \in Seq(Tx) /\ bundles \in Nat
CoinsType == coins \subseteq Output /\ fresh \subseteq Tx /\ nulled \subseteq Output /\ flushed \subseteq Tx
IndexType == indexed \in [Key -> SUBSET Tx] /\ pending \in [Key -> SUBSET Tx]
RecentType ==
    /\ recentTransactions \subseteq [window : Nat, tx : Tx]
    /\ lastUsedTime \in Nat
    /\ usedTimes \subseteq Nat /\ Cardinality(usedTimes) <= PeriodsCount
    /\ recordedAt \in [Tx -> Nat]
ClientType == requests \subseteq Tx /\ responses \in [Tx -> {"none", "Unconfirmed", "Confirmed"}]
OtherType == time \in Nat /\ crashes \in Nat /\ damaged \subseteq Key

LEMMA TypeParts ==
    TypeOK <=> BundleType /\ CoinsType /\ IndexType /\ RecentType /\ ClientType /\ OtherType
BY DEF TypeOK, BundleType, CoinsType, IndexType, RecentType, ClientType, OtherType

LEMMA TypeFrames ==
    /\ BundleType /\ UNCHANGED bundleVars => BundleType'
    /\ CoinsType /\ UNCHANGED coinsVars => CoinsType'
    /\ IndexType /\ UNCHANGED indexVars => IndexType'
    /\ RecentType /\ UNCHANGED recentVars => RecentType'
    /\ ClientType /\ UNCHANGED clientVars => ClientType'
    /\ OtherType /\ UNCHANGED <<time, crashes, damaged>> => OtherType'
BY DEF BundleType, CoinsType, IndexType, RecentType, ClientType, OtherType,
       bundleVars, coinsVars, indexVars, recentVars, clientVars

LEMMA FinishType ==
    ASSUME BundleType, UNCHANGED bundles, Finish("idle") \/ Finish("down")
    PROVE  BundleType'
<1>1. <<>> \in Seq(Tx) /\ <<>> \in Seq(Output)
  OBVIOUS
<1>2. /\ step' \in {"idle", "down"} /\ kind' = "none"
      /\ bundle' = <<>> /\ inputs' = <<>> /\ txs' = <<>>
  BY DEF Finish
<1> QED
  BY <1>1, <1>2 DEF BundleType

LEMMA TypeStep == TypeOK /\ Spaced /\ [Next]_vars => TypeOK'
<1> SUFFICES ASSUME TypeOK, Spaced, [Next]_vars
             PROVE  BundleType' /\ CoinsType' /\ IndexType' /\ RecentType' /\ ClientType' /\ OtherType'
  BY DEF TypeOK, BundleType, CoinsType, IndexType, RecentType, ClientType, OtherType
<1> DEFINE Goal == BundleType' /\ CoinsType' /\ IndexType' /\ RecentType' /\ ClientType' /\ OtherType'
<1>0. BundleType /\ CoinsType /\ IndexType /\ RecentType /\ ClientType /\ OtherType
  BY TypeParts
<1>1. ASSUME NEW k \in DOMAIN Bundles, NEW b \in Bundles[k], Begin(k, b)
      PROVE  Goal
  <2>1. BundleType'
    <3>1. /\ k \in {"validated", "retrieved", "coinbase"} /\ b \in Seq(Tx)
          /\ inputs' \in Seq(Output)
      BY <1>1, BundleParts
    <3>2. step' = "spend" /\ kind' = k /\ bundle' = b /\ txs' = b /\ bundles' = bundles + 1
      BY <1>1 DEF Begin
    <3> QED
      BY <1>0, <3>1, <3>2 DEF BundleType
  <2>2. UNCHANGED <<coinsVars, indexVars, recentVars, clientVars, time, crashes, damaged>>
    BY <1>1 DEF Begin
  <2> QED
    BY <1>0, <2>1, <2>2, TypeFrames
<1>2. CASE SpendInput
  <2>1. inputs # <<>> /\ Head(inputs) \in Output /\ Tail(inputs) \in Seq(Output)
    BY <1>0, <1>2, TailSet DEF SpendInput, BundleType
  <2>2. KeyOf[Head(inputs)] \in Key /\ TxOf[Head(inputs)] \in Tx
    BY <2>1
  <2>3. BundleType'
    <3>1. \/ Finish("idle") \/ Finish("down")
          \/ inputs' = Tail(inputs) /\ UNCHANGED <<step, kind, bundle, txs>>
      BY <1>2 DEF SpendInput, Abandon
    <3>2. UNCHANGED bundles
      BY <1>2 DEF SpendInput
    <3>3. CASE inputs' = Tail(inputs) /\ UNCHANGED <<step, kind, bundle, txs>>
      BY <1>0, <2>1, <3>2, <3>3 DEF BundleType
    <3> QED
      BY <1>0, <3>1, <3>2, <3>3, FinishType
  <2>4. CoinsType'
    BY <1>0, <1>2, <2>1 DEF SpendInput, CoinsType
  <2>5. IndexType'
    <3>1. (\E o \in Output : Index!Erase(KeyOf[o], TxOf[o])) \/ UNCHANGED indexVars
      BY <1>2, <2>1 DEF SpendInput
    <3>2. ASSUME NEW o \in Output, Index!Erase(KeyOf[o], TxOf[o])
          PROVE  IndexType'
      BY <1>0, <3>2 DEF Index!Erase, IndexType
    <3> QED
      BY <1>0, <3>1, <3>2 DEF IndexType, indexVars
  <2>6. OtherType'
    BY <1>0, <1>2, TouchedKeys DEF SpendInput, Abandon, OtherType
  <2>7. UNCHANGED <<recentVars, clientVars>>
    BY <1>2 DEF SpendInput
  <2> QED
    BY <1>0, <2>3, <2>4, <2>5, <2>6, <2>7, TypeFrames
<1>3. CASE EndSpend
  BY <1>0, <1>3, TypeFrames DEF EndSpend, BundleType
<1>4. CASE MakeOutputs
  <2>1. txs # <<>> /\ Head(txs) \in Tx /\ Tail(txs) \in Seq(Tx)
    BY <1>0, <1>4, TailSet DEF MakeOutputs, BundleType
  <2>2. BundleType'
    <3>1. \/ Finish("idle")
          \/ txs' = Tail(txs) /\ UNCHANGED <<step, kind, bundle, inputs>>
      BY <1>4 DEF MakeOutputs, Abandon
    <3>2. UNCHANGED bundles
      BY <1>4 DEF MakeOutputs
    <3>3. CASE txs' = Tail(txs) /\ UNCHANGED <<step, kind, bundle, inputs>>
      BY <1>0, <2>1, <3>2, <3>3 DEF BundleType
    <3> QED
      BY <1>0, <3>1, <3>2, <3>3, FinishType
  <2>3. CoinsType'
    BY <1>0, <1>4, <2>1 DEF MakeOutputs, CoinsType
  <2>4. IndexType'
    <3>1. (\E K : Index!Set(K, Head(txs))) \/ UNCHANGED indexVars
      BY <1>4 DEF MakeOutputs
    <3> QED
      BY <1>0, <2>1, <3>1 DEF Index!Set, IndexType, indexVars
  <2>5. OtherType'
    BY <1>0, <1>4, TouchedKeys DEF MakeOutputs, Abandon, OtherType
  <2>6. UNCHANGED <<recentVars, clientVars>>
    BY <1>4 DEF MakeOutputs
  <2> QED
    BY <1>0, <2>2, <2>3, <2>4, <2>5, <2>6, TypeFrames
<1>5. CASE EndMake
  BY <1>0, <1>5, TypeFrames DEF EndMake, BundleType
<1>6. CASE FlushIndex
  <2>1. IndexType'
    BY <1>0, <1>6 DEF FlushIndex, Index!Flush, Index!None, IndexType
  <2>2. BundleType'
    BY <1>0, <1>6 DEF FlushIndex, BundleType
  <2> QED
    BY <1>0, <1>6, <2>1, <2>2, TypeFrames DEF FlushIndex
<1>7. CASE FlushCoins
  <2>1. CoinsType'
    BY <1>0, <1>7 DEF FlushCoins, Outputs, CoinsType
  <2>2. BundleType'
    <3>1. \/ Finish("idle")
          \/ step' = "remember" /\ txs' = bundle /\ UNCHANGED <<kind, bundle, inputs>>
      BY <1>7 DEF FlushCoins
    <3>2. UNCHANGED bundles
      BY <1>7 DEF FlushCoins
    <3>3. CASE step' = "remember" /\ txs' = bundle /\ UNCHANGED <<kind, bundle, inputs>>
      BY <1>0, <3>2, <3>3 DEF BundleType
    <3> QED
      BY <1>0, <3>1, <3>2, <3>3, FinishType
  <2> QED
    BY <1>0, <1>7, <2>1, <2>2, TypeFrames DEF FlushCoins
<1>8. CASE SetTransactionToTemporary
  <2>1. txs' \in Seq(Tx) /\ Head(txs) \in Tx
    BY <1>0, <1>8, TailSet DEF SetTransactionToTemporary, BundleType
  <2>2. /\ usedTimes' \subseteq Nat /\ Cardinality(usedTimes') <= PeriodsCount
        /\ lastUsedTime' \in Nat /\ recordedAt' = [recordedAt EXCEPT ![Head(txs)] = time]
    BY <1>8, Temporary
  <2>3. PICK D : recentTransactions' = {r \in recentTransactions : r.window \notin D}
                                \cup {[window |-> lastUsedTime', tx |-> Head(txs)]}
    BY <1>8, Temporary
  <2>4. recentTransactions' \subseteq [window : Nat, tx : Tx]
    BY <1>0, <2>1, <2>2, <2>3 DEF RecentType
  <2>5. recordedAt' \in [Tx -> Nat]
    BY <1>0, <2>1, <2>2 DEF RecentType, OtherType
  <2>6. RecentType'
    BY <2>2, <2>4, <2>5 DEF RecentType
  <2>7. BundleType'
    BY <1>0, <1>8, <2>1 DEF SetTransactionToTemporary, BundleType
  <2>8. UNCHANGED <<coinsVars, indexVars, clientVars, time, crashes, damaged>>
    BY <1>8 DEF SetTransactionToTemporary
  <2> QED
    BY <1>0, <2>6, <2>7, <2>8, TypeFrames
<1>9. CASE End
  BY <1>0, <1>9, TypeFrames DEF End, Finish, BundleType
<1>10. ASSUME NEW x \in Tx, AddRequest(x) \/ ProcessRequest(x) \/ GetResponse(x)
       PROVE  Goal
  <2>1. ClientType'
    BY <1>0, <1>10 DEF AddRequest, ProcessRequest, GetResponse, ClientType
  <2>2. UNCHANGED <<bundleVars, coinsVars, indexVars, recentVars, time, crashes, damaged>>
    BY <1>10 DEF AddRequest, ProcessRequest, GetResponse
  <2> QED
    BY <1>0, <2>1, <2>2, TypeFrames
<1>11. CASE Tick
  BY <1>0, <1>11, TypeFrames DEF Tick, OtherType
<1>12. CASE Restart
  <2>1. Cardinality({}) = 0
    BY FS_EmptySet
  <2>2. BundleType'
    BY <1>0, <1>12 DEF Restart, Finish, BundleType
  <2>3. CoinsType' /\ IndexType'
    BY <1>0, <1>12 DEF Restart, Index!Die, Index!None, CoinsType, IndexType
  <2>4. RecentType' /\ ClientType'
    BY <1>0, <1>12, <2>1 DEF Restart, RecentType, ClientType
  <2>5. OtherType'
    BY <1>0, <1>12, TouchedKeys DEF Restart, OtherType
  <2> QED
    BY <2>2, <2>3, <2>4, <2>5
<1>13. CASE UNCHANGED vars
  BY <1>0, <1>13, TypeFrames DEF vars
<1> QED
  BY <1>1, <1>2, <1>3, <1>4, <1>5, <1>6, <1>7, <1>8, <1>9, <1>10, <1>11, <1>12, <1>13
  DEF Next, RecordStep

LEMMA FinishWork ==
    ASSUME NEW next \in {"idle", "down"}, Finish(next)
    PROVE  Work'
<1>1. step' \in {"idle", "down"} /\ bundle' = <<>> /\ inputs' = <<>> /\ txs' = <<>>
  BY DEF Finish
<1>2. ToSet(inputs') = {} /\ ToSet(txs') = {}
  BY <1>1, EmptySet
<1> QED
  BY <1>1, <1>2 DEF Work

LEMMA WorkStep == TypeOK /\ Work /\ [Next]_vars => Work'
<1> SUFFICES ASSUME TypeOK, Work, [Next]_vars
             PROVE  Work'
  OBVIOUS
<1>1. ASSUME NEW k \in DOMAIN Bundles, NEW b \in Bundles[k], Begin(k, b)
      PROVE  Work'
  <2>1. step' = "spend" /\ bundle' = b /\ txs' = b
    BY <1>1 DEF Begin
  <2>2. ToSet(inputs') \subseteq SpentBy(ToSet(b))
    BY <1>1, BundleParts
  <2> QED
    BY <2>1, <2>2 DEF Work
<1>2. CASE SpendInput
  <2>1. CASE Finish("idle") \/ Finish("down")
    BY <2>1, FinishWork
  <2>2. CASE inputs' = Tail(inputs) /\ UNCHANGED <<step, bundle, txs>>
    <3>1. ToSet(inputs') \subseteq ToSet(inputs)
      BY <1>2, <2>2, TailSet DEF SpendInput, TypeOK
    <3>2. step = "spend"
      BY <1>2 DEF SpendInput
    <3> QED
      BY <2>2, <3>1, <3>2 DEF Work
  <2> QED
    BY <1>2, <2>1, <2>2 DEF SpendInput, Abandon
<1>3. CASE EndSpend
  BY <1>3 DEF EndSpend, Work, coinsVars
<1>4. CASE MakeOutputs
  <2>1. CASE Finish("idle")
    BY <2>1, FinishWork
  <2>2. CASE txs' = Tail(txs) /\ UNCHANGED <<step, bundle, inputs>>
    <3>1. /\ ToSet(txs') \subseteq ToSet(txs)
          /\ ToSet(txs) \subseteq {Head(txs)} \cup ToSet(txs')
      BY <1>4, <2>2, TailSet DEF MakeOutputs, TypeOK
    <3>2. step = "make" /\ fresh' = fresh \cup {Head(txs)}
      BY <1>4 DEF MakeOutputs
    <3> QED
      BY <2>2, <3>1, <3>2 DEF Work
  <2> QED
    BY <1>4, <2>1, <2>2 DEF MakeOutputs, Abandon
<1>5. CASE EndMake
  BY <1>5 DEF EndMake, Work, coinsVars
<1>6. CASE FlushIndex
  BY <1>6 DEF FlushIndex, Work, coinsVars
<1>7. CASE FlushCoins
  <2>1. CASE Finish("idle")
    BY <2>1, FinishWork
  <2>2. CASE step' = "remember" /\ txs' = bundle /\ UNCHANGED <<bundle, inputs>>
    BY <2>2 DEF Work
  <2> QED
    BY <1>7, <2>1, <2>2 DEF FlushCoins
<1>8. CASE SetTransactionToTemporary
  <2>1. ToSet(txs') \subseteq ToSet(txs)
    BY <1>8, TailSet DEF SetTransactionToTemporary, TypeOK
  <2> QED
    BY <1>8, <2>1 DEF SetTransactionToTemporary, Work
<1>9. CASE End
  BY <1>9, FinishWork DEF End
<1>10. ASSUME NEW x \in Tx, AddRequest(x) \/ ProcessRequest(x) \/ GetResponse(x)
       PROVE  Work'
  BY <1>10 DEF AddRequest, ProcessRequest, GetResponse, Work, bundleVars, coinsVars
<1>11. CASE Tick
  BY <1>11 DEF Tick, Work, bundleVars, coinsVars
<1>12. CASE Restart
  BY <1>12, FinishWork DEF Restart
<1>13. CASE UNCHANGED vars
  BY <1>13 DEF vars, Work, bundleVars, coinsVars
<1> QED
  BY <1>1, <1>2, <1>3, <1>4, <1>5, <1>6, <1>7, <1>8, <1>9, <1>10, <1>11, <1>12, <1>13
  DEF Next, RecordStep

-----------------------------------------------------------------------------
(* Durability                                                              *)

\* Steps that change nothing Durable is about but where the bundle is
LEMMA DurableFrame ==
    ASSUME Durable, UNCHANGED <<recentTransactions, responses, flushed>>,
           step' # "remember" \/ UNCHANGED <<step, bundle>>
    PROVE  Durable'
BY DEF Durable, ConfirmedIsDurable

LEMMA DurableStep == TypeOK /\ Work /\ Durable /\ Spaced /\ [Next]_vars => Durable'
<1> SUFFICES ASSUME TypeOK, Work, Durable, Spaced, [Next]_vars
             PROVE  Durable'
  OBVIOUS
<1> USE DEF bundleVars, coinsVars, indexVars, recentVars, clientVars
<1>1. ASSUME NEW k \in DOMAIN Bundles, NEW b \in Bundles[k], Begin(k, b)
      PROVE  Durable'
  BY <1>1, DurableFrame DEF Begin
<1>2. CASE SpendInput
  BY <1>2, DurableFrame DEF SpendInput, Abandon, Finish
<1>3. CASE EndSpend
  BY <1>3, DurableFrame DEF EndSpend
<1>4. CASE MakeOutputs
  BY <1>4, DurableFrame DEF MakeOutputs, Abandon, Finish
<1>5. CASE EndMake
  BY <1>5, DurableFrame DEF EndMake
<1>6. CASE FlushIndex
  BY <1>6, DurableFrame DEF FlushIndex
<1>7. CASE FlushCoins
  <2>1. ToSet(bundle) \subseteq fresh
    BY <1>7, EmptySet DEF FlushCoins, Work
  <2>2. /\ flushed' = flushed \cup fresh /\ UNCHANGED <<recentTransactions, responses>>
        /\ step' = "remember" => bundle' = bundle
    BY <1>7 DEF FlushCoins, Finish
  <2> QED
    BY <2>1, <2>2 DEF Durable, ConfirmedIsDurable
<1>8. CASE SetTransactionToTemporary
  <2>1. Head(txs) \in ToSet(txs)
    BY <1>8, Temporary
  <2>2. Head(txs) \in flushed
    BY <1>8, <2>1 DEF SetTransactionToTemporary, Work, Durable
  <2>3. PICK D : recentTransactions' = {r \in recentTransactions : r.window \notin D}
                                \cup {[window |-> lastUsedTime', tx |-> Head(txs)]}
    BY <1>8, Temporary
  <2>4. \A r \in recentTransactions' : r.tx \in flushed
    BY <2>2, <2>3 DEF Durable
  <2> QED
    BY <1>8, <2>4 DEF SetTransactionToTemporary, Durable, ConfirmedIsDurable
<1>9. CASE End
  BY <1>9, DurableFrame DEF End, Finish
<1>10. ASSUME NEW x \in Tx, AddRequest(x) \/ ProcessRequest(x) \/ GetResponse(x)
       PROVE  Durable'
  <2>1. CASE AddRequest(x)
    BY <2>1, DurableFrame DEF AddRequest
  <2>2. CASE ProcessRequest(x)
    <3>1. GetTransaction(x) => x \in flushed
      BY DEF GetTransaction, Durable
    <3>2. /\ UNCHANGED <<step, bundle, recentTransactions, flushed>>
          /\ responses' = [responses EXCEPT ![x] =
                               IF GetTransaction(x) THEN "Confirmed" ELSE "Unconfirmed"]
      BY <2>2 DEF ProcessRequest
    <3>3. ConfirmedIsDurable'
      BY <3>1, <3>2 DEF Durable, ConfirmedIsDurable, TypeOK
    <3> QED
      BY <3>2, <3>3 DEF Durable
  <2>3. CASE GetResponse(x)
    <3>1. /\ UNCHANGED <<step, bundle, recentTransactions, flushed>>
          /\ responses' = [responses EXCEPT ![x] = "none"]
      BY <2>3 DEF GetResponse
    <3>2. ConfirmedIsDurable'
      BY <3>1 DEF Durable, ConfirmedIsDurable, TypeOK
    <3> QED
      BY <3>1, <3>2 DEF Durable
  <2> QED
    BY <1>10, <2>1, <2>2, <2>3
<1>11. CASE Tick
  BY <1>11, DurableFrame DEF Tick
<1>12. CASE Restart
  BY <1>12 DEF Restart, Finish, Durable, ConfirmedIsDurable
<1>13. CASE UNCHANGED vars
  BY <1>13, DurableFrame DEF vars
<1> QED
  BY <1>1, <1>2, <1>3, <1>4, <1>5, <1>6, <1>7, <1>8, <1>9, <1>10, <1>11, <1>12, <1>13
  DEF Next, RecordStep

-----------------------------------------------------------------------------
(* Recent transactions                                                     *)

\* Steps that leave the recent transactions alone; the clock may go on.
LEMMA RecentFrame ==
    ASSUME TypeOK, Spaced, Recent, UNCHANGED recentVars, time' \in Nat, time <= time'
    PROVE  Spaced' /\ Recent'
<1>1. UNCHANGED <<recentTransactions, lastUsedTime, usedTimes, recordedAt>>
  BY DEF recentVars
<1>2. Spaced'
  BY <1>1 DEF Spaced, Apart, Since, TypeOK
<1>3. PeriodsCount * (UsedTimePeriod + 1) \in Nat
  OBVIOUS
<1>4. ASSUME NEW x \in Tx, recordedAt[x] # 0
      PROVE  Kept(x)'
  <2>1. Kept(x) /\ recordedAt[x] \in Nat
    BY <1>4 DEF Recent, TypeOK
  <2>2. CASE \E r \in recentTransactions :
                 /\ r.tx = x /\ r.window <= recordedAt[x]
                 /\ recordedAt[x] <= r.window + UsedTimePeriod
    BY <1>1, <2>2 DEF Kept
  <2>3. CASE time - recordedAt[x] > PeriodsCount * (UsedTimePeriod + 1)
    <3> DEFINE n == PeriodsCount * (UsedTimePeriod + 1)
    <3>1. n \in Nat
      OBVIOUS
    <3>2. time - recordedAt[x] > n
      BY <2>3
    <3> HIDE DEF n
    <3>3. time' - recordedAt[x] > n
      BY <2>1, <3>1, <3>2 DEF TypeOK
    <3> QED
      BY <1>1, <3>3 DEF Kept, n
  <2> QED
    BY <2>1, <2>2, <2>3 DEF Kept
<1> QED
  BY <1>1, <1>2, <1>4 DEF Recent

LEMMA RecentRemember ==
    ASSUME TypeOK, Spaced, Recent, SetTransactionToTemporary
    PROVE  Spaced' /\ Recent'
<1> DEFINE y == Head(txs)
           n == PeriodsCount * (UsedTimePeriod + 1)
<1>1. /\ y \in Tx /\ IsFiniteSet(usedTimes') /\ usedTimes' \subseteq Nat
      /\ lastUsedTime' \in Nat /\ lastUsedTime' <= time
      /\ time <= lastUsedTime' + UsedTimePeriod
      /\ Apart(usedTimes', UsedTimePeriod + 1, lastUsedTime')
      /\ recordedAt' = [recordedAt EXCEPT ![y] = time]
  BY Temporary
<1>2. time' = time /\ time \in Nat /\ UsedTimePeriod \in Nat /\ n \in Nat
  BY DEF SetTransactionToTemporary, TypeOK
<1>3. PICK D : /\ recentTransactions' = {r \in recentTransactions : r.window \notin D}
                                            \cup {[window |-> lastUsedTime', tx |-> y]}
               /\ usedTimes \cup {lastUsedTime} \subseteq D \cup usedTimes' \cup {lastUsedTime'}
               /\ \A w \in D \cap Nat : w + n + UsedTimePeriod < time
  BY Temporary
<1>4. Spaced'
  BY <1>1, <1>2 DEF Spaced
<1> HIDE DEF y, n
<1>5. ASSUME NEW r \in recentTransactions'
      PROVE  r.window \in usedTimes' \cup {lastUsedTime'}
  <2>1. CASE r \in recentTransactions /\ r.window \notin D
    <3>1. r.window \in usedTimes \cup {lastUsedTime}
      BY <2>1 DEF Recent
    <3> QED
      BY <1>3, <2>1, <3>1
  <2>2. CASE r = [window |-> lastUsedTime', tx |-> y]
    BY <2>2
  <2>3. r \in {q \in recentTransactions : q.window \notin D}
                  \cup {[window |-> lastUsedTime', tx |-> y]}
    BY <1>3
  <2> QED
    BY <2>1, <2>2, <2>3
<1>6. ASSUME NEW x \in Tx, recordedAt'[x] # 0
      PROVE  Kept(x)'
  <2>1. CASE x = y
    <3>1. recordedAt'[x] = time
      BY <1>1, <2>1 DEF TypeOK
    <3>2. [window |-> lastUsedTime', tx |-> y] \in recentTransactions'
      BY <1>3
    <3>3. \E r \in recentTransactions' : /\ r.tx = x /\ r.window <= recordedAt'[x]
                                         /\ recordedAt'[x] <= r.window + UsedTimePeriod
      BY <1>1, <2>1, <3>1, <3>2
    <3> QED
      BY <3>3 DEF Kept
  <2>2. CASE x # y
    <3>1. recordedAt'[x] = recordedAt[x] /\ recordedAt[x] \in Nat
      BY <1>1, <2>2 DEF TypeOK
    <3>2. Kept(x)
      BY <1>6, <3>1 DEF Recent
    <3>3. CASE \E r \in recentTransactions :
                   /\ r.tx = x /\ r.window <= recordedAt[x]
                   /\ recordedAt[x] <= r.window + UsedTimePeriod
      <4>1. PICK r \in recentTransactions : /\ r.tx = x /\ r.window <= recordedAt[x]
                                            /\ recordedAt[x] <= r.window + UsedTimePeriod
        BY <3>3
      <4>2. r.window \in Nat
        BY DEF TypeOK
      <4>3. CASE r.window \in D
        <5>1. r.window + n + UsedTimePeriod < time
          BY <1>3, <4>2, <4>3
        <5>2. time - recordedAt[x] > n
          BY <1>2, <3>1, <4>1, <4>2, <5>1
        <5> QED
          BY <1>2, <3>1, <5>2 DEF Kept, n
      <4>4. CASE r.window \notin D
        <5>1. r \in recentTransactions'
          BY <1>3, <4>4
        <5> QED
          BY <3>1, <4>1, <5>1 DEF Kept
      <4> QED
        BY <4>3, <4>4
    <3>4. CASE time - recordedAt[x] > n
      BY <1>2, <3>1, <3>4 DEF Kept, n
    <3> QED
      BY <3>2, <3>3, <3>4 DEF Kept, n
  <2> QED
    BY <2>1, <2>2
<1> QED
  BY <1>4, <1>5, <1>6 DEF Recent

LEMMA RecentStep == TypeOK /\ Spaced /\ Recent /\ [Next]_vars => Spaced' /\ Recent'
<1> SUFFICES ASSUME TypeOK, Spaced, Recent, [Next]_vars
             PROVE  Spaced' /\ Recent'
  OBVIOUS
<1>1. CASE SetTransactionToTemporary
  BY <1>1, RecentRemember
<1>2. CASE Restart
  <2>1. /\ recentTransactions' = {} /\ lastUsedTime' = 0 /\ usedTimes' = {} /\ time' = time
        /\ recordedAt' = [x \in Tx |-> 0]
    BY <1>2 DEF Restart
  <2>2. Spaced'
    BY <2>1, FS_EmptySet DEF Spaced, Apart, TypeOK
  <2> QED
    BY <2>1, <2>2 DEF Recent
<1>3. CASE UNCHANGED recentVars /\ (time' = time \/ time' = time + 1)
  <2>1. time' \in Nat /\ time <= time'
    BY <1>3 DEF TypeOK
  <2> QED
    BY <1>3, <2>1, RecentFrame
<1>4. ASSUME Next, ~ SetTransactionToTemporary, ~ Restart
      PROVE  UNCHANGED recentVars /\ (time' = time \/ time' = time + 1)
  <2>1. ASSUME NEW k \in DOMAIN Bundles, NEW b \in Bundles[k], Begin(k, b)
        PROVE  UNCHANGED <<recentVars, time>>
    BY <2>1 DEF Begin
  <2>2. ASSUME SpendInput \/ EndSpend \/ MakeOutputs \/ EndMake \/ FlushIndex \/ FlushCoins \/ End
        PROVE  UNCHANGED <<recentVars, time>>
    BY <2>2 DEF SpendInput, EndSpend, MakeOutputs, EndMake, FlushIndex, FlushCoins, End
  <2>3. ASSUME NEW x \in Tx, AddRequest(x) \/ ProcessRequest(x) \/ GetResponse(x)
        PROVE  UNCHANGED <<recentVars, time>>
    BY <2>3 DEF AddRequest, ProcessRequest, GetResponse
  <2>4. ASSUME Tick
        PROVE  UNCHANGED recentVars /\ time' = time + 1
    BY <2>4 DEF Tick
  <2> QED
    BY <1>4, <2>1, <2>2, <2>3, <2>4 DEF Next, RecordStep
<1>5. CASE UNCHANGED vars
  BY <1>3, <1>5 DEF vars
<1> QED
  BY <1>1, <1>2, <1>3, <1>4, <1>5

-----------------------------------------------------------------------------
(* The index and the coins database                                        *)

LEMMA PayingOther ==
    ASSUME NEW k, NEW O, NEW P, \A o \in P : KeyOf[o] # k
    PROVE  Paying(k, O \cup P) = Paying(k, O) /\ Paying(k, O \ P) = Paying(k, O)
BY DEF Paying

\* No other output of the transaction pays to a key that it does not pay twice.
LEMMA PaysOnce ==
    ASSUME NEW o \in Output, NEW p \in Output, p # o, KeyOf[p] = KeyOf[o],
           KeyOf[o] \notin PaidTwice
    PROVE  TxOf[p] # TxOf[o]
BY DEF PaidTwice

LEMMA PayingOutputs ==
    ASSUME NEW k, NEW x
    PROVE  Paying(k, Outputs({x})) = IF k \in KeysOf(Outputs({x})) THEN {x} ELSE {}
BY DEF Paying, Outputs, KeysOf

LEMMA OutputsUnion ==
    ASSUME NEW X, NEW Y
    PROVE  Outputs(X \cup Y) = Outputs(X) \cup Outputs(Y)
BY DEF Outputs

\* Keys of what the bundle spends and makes are touched.
LEMMA TouchedBy ==
    /\ \A o \in SpentBy(ToSet(bundle)) : KeyOf[o] \in Touched
    /\ \A x \in ToSet(bundle) : KeysOf(Outputs({x})) \subseteq Touched
<1>1. \A o \in SpentBy(ToSet(bundle)) : KeyOf[o] \in Touched
  BY DEF SpentBy, Touched, KeysOf
<1>2. ASSUME NEW x \in ToSet(bundle), NEW o \in Outputs({x})
      PROVE  KeyOf[o] \in Touched
  <2>1. o \in Outputs(ToSet(bundle))
    BY DEF Outputs
  <2> QED
    BY <2>1 DEF Touched, KeysOf
<1> QED
  BY <1>1, <1>2 DEF KeysOf

\* Clean is about the caches and the index of one key.
LEMMA CleanFrame ==
    ASSUME NEW k, Clean(k), fresh' = fresh, nulled' = nulled, coins' = coins,
           indexed'[k] = indexed[k], pending'[k] = pending[k]
    PROVE  Clean(k)'
BY DEF Clean, Unused, Paying, Outputs, PaidTwice

\* A step that clears the caches keeps a clean key clean.
LEMMA CleanCleared ==
    ASSUME NEW k, Clean(k), fresh' = {}, nulled' = {}, coins' = coins,
           indexed'[k] = indexed[k], pending'[k] = {}
    PROVE  Clean(k)'
BY DEF Clean, Unused, Paying, Outputs, PaidTwice

\* The call returned early: keys that the bundle does not touch are clean.
LEMMA AgreementRests ==
    ASSUME step' \in {"idle", "down", "remember"}, \A k \in Key \ damaged' : Clean(k)'
    PROVE  Agreement'
BY DEF Agreement, Agreeing

LEMMA AgreementFrame ==
    ASSUME Agreement,
           UNCHANGED <<step, bundle, coins, fresh, nulled, indexed, pending, damaged>>
    PROVE  Agreement'
BY DEF Agreement, Agreeing, Clean, Unused, Paying, View, Outputs, Touched, PaidTwice, KeysOf

LEMMA AgreementBegin ==
    ASSUME TypeOK, Agreement, NEW k \in DOMAIN Bundles, NEW b \in Bundles[k], Begin(k, b)
    PROVE  Agreement'
<1>1. /\ step = "idle" /\ step' = "spend"
      /\ UNCHANGED <<coins, fresh, nulled, indexed, pending, damaged>>
  BY DEF Begin, coinsVars, indexVars
<1>2. ASSUME NEW q \in Key \ damaged'
      PROVE  Agreeing(q)'
  <2>1. Clean(q)
    BY <1>1 DEF Agreement, Agreeing
  <2>2. Clean(q)'
    BY <1>1, <2>1, CleanFrame
  <2>3. Paying(q, coins' \ nulled') = Paying(q, coins')
    BY <2>2, PayingOther DEF Clean
  <2>4. Unused(q)' /\ (q \notin PaidTwice => indexed'[q] = Paying(q, coins' \ nulled'))
    BY <2>2, <2>3 DEF Clean, PaidTwice, Paying
  <2> QED
    BY <1>1, <2>2, <2>4 DEF Agreeing, PaidTwice, Paying
<1> QED
  BY <1>2 DEF Agreement

LEMMA AgreementSpend ==
    ASSUME TypeOK, Work, Agreement, SpendInput
    PROVE  Agreement'
<1> DEFINE o == Head(inputs)
<1>1. /\ o \in Output /\ o \in ToSet(inputs) /\ step = "spend"
      /\ UNCHANGED <<coins, fresh, pending>>
  BY TailSet DEF SpendInput, TypeOK, Index!Erase, indexVars
<1>2. KeyOf[o] \in Key /\ KeyOf[o] \in Touched
  BY <1>1, TouchedBy DEF Work
<1> HIDE DEF o
<1>3. indexed' = indexed \/ indexed' = [indexed EXCEPT ![KeyOf[o]] = @ \ {TxOf[o]}]
  BY DEF SpendInput, Index!Erase, indexVars, o
<1>4. \A q \in Key : q # KeyOf[o] => indexed'[q] = indexed[q]
  BY <1>3 DEF TypeOK
<1>5. CASE /\ step' \in {"idle", "down"} /\ damaged' = damaged \cup Touched
           /\ nulled' = nulled
  <2>1. ASSUME NEW q \in Key \ damaged'
        PROVE  Clean(q)'
    <3>1. q \notin Touched /\ q \notin damaged /\ indexed'[q] = indexed[q]
      BY <1>2, <1>4, <1>5
    <3>2. Clean(q)
      BY <3>1 DEF Agreement, Agreeing
    <3> QED
      BY <1>1, <1>5, <3>1, <3>2, CleanFrame
  <2> QED
    BY <1>5, <2>1, AgreementRests
<1>6. CASE /\ UNCHANGED <<step, bundle, damaged>> /\ nulled' = nulled \cup {o}
           /\ indexed' = [indexed EXCEPT ![KeyOf[o]] = @ \ {TxOf[o]}]
  <2>1. ASSUME NEW q \in Key \ damaged'
        PROVE  Agreeing(q)'
    <3>1. Agreeing(q)
      BY <1>6 DEF Agreement
    <3>2. Touched' = Touched
      BY <1>6 DEF Touched
    <3>3. Unused(q)'
      BY <1>1, <3>1 DEF Agreeing, Unused, Outputs
    <3>4. ASSUME q \notin PaidTwice
          PROVE  indexed'[q] = Paying(q, coins \ nulled')
      <4>1. indexed[q] = Paying(q, coins \ nulled)
        BY <1>1, <3>1, <3>4 DEF Agreeing
      <4>2. coins \ nulled' = (coins \ nulled) \ {o}
        BY <1>6
      <4>3. CASE q = KeyOf[o]
        <5>1. Paying(q, (coins \ nulled) \ {o}) = Paying(q, coins \ nulled) \ {TxOf[o]}
          <6>1. \A p \in coins \ nulled : p # o /\ KeyOf[p] = q => TxOf[p] # TxOf[o]
            BY <1>1, <3>4, <4>3, PaysOnce DEF TypeOK
          <6> QED
            BY <4>3, <6>1 DEF Paying
        <5>2. indexed'[q] = indexed[q] \ {TxOf[o]}
          BY <1>6, <4>3 DEF TypeOK
        <5> QED
          BY <4>1, <4>2, <5>1, <5>2
      <4>4. CASE q # KeyOf[o]
        <5>1. \A p \in {o} : KeyOf[p] # q
          BY <4>4
        <5>2. Paying(q, (coins \ nulled) \ {o}) = Paying(q, coins \ nulled)
          BY <5>1, PayingOther
        <5> QED
          BY <1>4, <4>1, <4>2, <4>4, <5>2
      <4> QED
        BY <4>3, <4>4
    <3>5. q \notin Touched => Clean(q)'
      <4>1. SUFFICES ASSUME q \notin Touched
                     PROVE  Clean(q)'
        OBVIOUS
      <4>2. Clean(q) /\ q # KeyOf[o] /\ indexed'[q] = indexed[q]
        BY <1>2, <1>4, <3>1, <4>1 DEF Agreeing
      <4> QED
        BY <1>1, <1>6, <3>3, <4>2 DEF Clean, Paying, PaidTwice
    <3> QED
      BY <1>1, <1>6, <3>2, <3>3, <3>4, <3>5 DEF Agreeing, PaidTwice, Paying
  <2> QED
    BY <2>1 DEF Agreement
<1> QED
  BY <1>1, <1>5, <1>6 DEF SpendInput, Abandon, Finish, Index!Erase, indexVars, o

LEMMA AgreementEndSpend ==
    ASSUME TypeOK, Agreement, EndSpend
    PROVE  Agreement'
<1>1. /\ step = "spend" /\ step' = "make"
      /\ UNCHANGED <<bundle, coins, fresh, nulled, indexed, pending, damaged>>
  BY DEF EndSpend, coinsVars, indexVars
<1>2. ASSUME NEW q \in Key \ damaged'
      PROVE  Agreeing(q)'
  <2>1. Agreeing(q)
    BY <1>1 DEF Agreement
  <2>2. Touched' = Touched
    BY <1>1 DEF Touched
  <2>3. q \notin Touched => Clean(q)'
    BY <1>1, <2>1, CleanFrame DEF Agreeing
  <2>4. ASSUME q \notin PaidTwice
        PROVE  indexed[q] \cup pending[q] = Paying(q, View)
    <3>1. Unused(q) /\ indexed[q] = Paying(q, coins \ nulled)
      BY <1>1, <2>1, <2>4 DEF Agreeing
    <3>2. Paying(q, (coins \ nulled) \cup (Outputs(fresh) \ nulled)) = Paying(q, coins \ nulled)
      <4>1. \A o \in Outputs(fresh) \ nulled : KeyOf[o] # q
        BY <3>1 DEF Unused
      <4> QED
        BY <4>1, PayingOther
    <3>3. View = (coins \ nulled) \cup (Outputs(fresh) \ nulled)
      BY DEF View
    <3> QED
      BY <3>1, <3>2, <3>3 DEF Unused
  <2>5. View' = View
    BY <1>1 DEF View, Outputs
  <2> QED
    BY <1>1, <2>2, <2>3, <2>4, <2>5 DEF Agreeing, PaidTwice, Paying
<1> QED
  BY <1>2 DEF Agreement

LEMMA AgreementMake ==
    ASSUME TypeOK, Work, Agreement, MakeOutputs
    PROVE  Agreement'
<1> DEFINE x == Head(txs)
<1>1. /\ x \in Tx /\ x \in ToSet(bundle) /\ step = "make" /\ UNCHANGED <<coins, indexed>>
      /\ fresh' = fresh \cup {x} /\ nulled' = nulled \ Outputs({x})
  BY TailSet DEF MakeOutputs, TypeOK, Work, Index!Set, indexVars
<1>2. KeysOf(Outputs({x})) \subseteq Touched
  BY <1>1, TouchedBy
<1>3. \/ /\ step' = "idle" /\ damaged' = damaged \cup Touched /\ UNCHANGED pending
      \/ /\ UNCHANGED <<step, bundle, damaged>>
         /\ pending' = [k \in Key |-> IF k \in KeysOf(Outputs({x})) THEN pending[k] \cup {x}
                                      ELSE pending[k]]
  BY DEF MakeOutputs, Abandon, Finish, Index!Set, indexVars
<1> HIDE DEF x
<1>4. Outputs(fresh') = Outputs(fresh) \cup Outputs({x})
  BY <1>1, OutputsUnion
<1>5. ASSUME NEW q \in Key \ Touched, Clean(q)
      PROVE  Clean(q)'
  <2>1. \A p \in Outputs({x}) : KeyOf[p] # q
    BY <1>2, <1>5 DEF KeysOf
  <2>2. pending'[q] = pending[q]
    BY <1>2, <1>3
  <2>3. Unused(q)'
    <3>1. Outputs(fresh)' = Outputs(fresh')
      BY DEF Outputs
    <3> QED
      BY <1>4, <1>5, <2>1, <2>2, <3>1 DEF Clean, Unused
  <2> QED
    BY <1>1, <1>5, <2>3 DEF Clean, Paying, PaidTwice
<1>6. CASE step' = "idle" /\ damaged' = damaged \cup Touched
  <2>1. ASSUME NEW q \in Key \ damaged'
        PROVE  Clean(q)'
    <3>1. q \notin Touched /\ q \notin damaged
      BY <1>6
    <3>2. Clean(q)
      BY <3>1 DEF Agreement, Agreeing
    <3> QED
      BY <1>5, <3>1, <3>2
  <2> QED
    BY <1>6, <2>1, AgreementRests
<1>7. CASE /\ UNCHANGED <<step, bundle, damaged>>
           /\ pending' = [k \in Key |-> IF k \in KeysOf(Outputs({x})) THEN pending[k] \cup {x}
                                        ELSE pending[k]]
  <2>1. ASSUME NEW q \in Key \ damaged'
        PROVE  Agreeing(q)'
    <3>1. Agreeing(q)
      BY <1>7 DEF Agreement
    <3>2. Touched' = Touched
      BY <1>7 DEF Touched
    <3>3. q \notin Touched => Clean(q)'
      BY <1>5, <3>1 DEF Agreeing
    <3>4. View' = View \cup Outputs({x})
      BY <1>1, <1>4 DEF View, Outputs
    <3>5. ASSUME q \notin PaidTwice
          PROVE  indexed'[q] \cup pending'[q] = Paying(q, View \cup Outputs({x}))
      <4>1. indexed[q] \cup pending[q] = Paying(q, View)
        BY <1>1, <3>1, <3>5 DEF Agreeing
      <4>2. pending'[q] = pending[q] \cup Paying(q, Outputs({x}))
        BY <1>7, PayingOutputs
      <4>3. Paying(q, View \cup Outputs({x})) = Paying(q, View) \cup Paying(q, Outputs({x}))
        BY DEF Paying
      <4> QED
        BY <1>1, <4>1, <4>2, <4>3
    <3> QED
      BY <1>1, <1>7, <3>2, <3>3, <3>4, <3>5 DEF Agreeing, PaidTwice, Paying
  <2> QED
    BY <2>1 DEF Agreement
<1> QED
  BY <1>3, <1>6, <1>7

LEMMA AgreementEndMake ==
    ASSUME Agreement, EndMake
    PROVE  Agreement'
<1>1. /\ step = "make" /\ step' = "flushIndex"
      /\ UNCHANGED <<bundle, coins, fresh, nulled, indexed, pending, damaged>>
  BY DEF EndMake, coinsVars, indexVars
<1>2. ASSUME NEW q \in Key \ damaged'
      PROVE  Agreeing(q)'
  <2>1. Agreeing(q)
    BY <1>1 DEF Agreement
  <2>2. Touched' = Touched /\ View' = View
    BY <1>1 DEF Touched, View, Outputs
  <2>3. q \notin Touched => Clean(q)'
    BY <1>1, <2>1, CleanFrame DEF Agreeing
  <2>4. q \notin PaidTwice => indexed[q] \cup pending[q] = Paying(q, View)
    BY <1>1, <2>1 DEF Agreeing
  <2> QED
    BY <1>1, <2>2, <2>3, <2>4 DEF Agreeing, PaidTwice, Paying
<1> QED
  BY <1>2 DEF Agreement

LEMMA AgreementFlushIndex ==
    ASSUME TypeOK, Agreement, FlushIndex
    PROVE  Agreement'
<1>1. /\ step = "flushIndex" /\ step' = "flushCoins"
      /\ UNCHANGED <<bundle, coins, fresh, nulled, damaged>>
      /\ \A q \in Key : indexed'[q] = indexed[q] \cup pending[q] /\ pending'[q] = {}
  BY DEF FlushIndex, coinsVars, Index!Flush, Index!None
<1>2. ASSUME NEW q \in Key \ damaged'
      PROVE  Agreeing(q)'
  <2>1. Agreeing(q)
    BY <1>1 DEF Agreement
  <2>2. Touched' = Touched /\ View' = View
    BY <1>1 DEF Touched, View, Outputs
  <2>3. q \notin Touched => Clean(q)'
    <3>1. SUFFICES ASSUME Clean(q)
                   PROVE  Clean(q)'
      BY <2>1 DEF Agreeing
    <3>2. indexed'[q] = indexed[q] /\ pending'[q] = pending[q]
      BY <1>1, <3>1 DEF Clean, Unused
    <3> QED
      BY <1>1, <3>1, <3>2, CleanFrame
  <2>4. q \notin PaidTwice => indexed'[q] = Paying(q, View)
    BY <1>1, <2>1 DEF Agreeing
  <2> QED
    BY <1>1, <2>2, <2>3, <2>4 DEF Agreeing, PaidTwice, Paying
<1> QED
  BY <1>2 DEF Agreement

LEMMA AgreementFlushCoins ==
    ASSUME TypeOK, Agreement, FlushCoins
    PROVE  Agreement'
<1>1. /\ step = "flushCoins" /\ step' \in {"idle", "remember"}
      /\ coins' = View /\ fresh' = {} /\ nulled' = {}
      /\ UNCHANGED <<indexed, pending, damaged>>
  BY DEF FlushCoins, Finish, View, indexVars
<1>2. ASSUME NEW q \in Key \ damaged'
      PROVE  Clean(q)'
  <2>1. pending[q] = {} /\ (q \notin PaidTwice => indexed[q] = Paying(q, View))
    BY <1>1 DEF Agreement, Agreeing
  <2> QED
    BY <1>1, <2>1 DEF Clean, Unused, Paying, PaidTwice, Outputs
<1> QED
  BY <1>1, <1>2, AgreementRests

LEMMA AgreementRestart ==
    ASSUME TypeOK, Agreement, Restart
    PROVE  Agreement'
<1>1. /\ step' = "idle" /\ fresh' = {} /\ nulled' = {} /\ UNCHANGED <<coins, indexed>>
      /\ \A q \in Key : pending'[q] = {}
      /\ damaged' = IF step \in {"idle", "remember"} THEN damaged ELSE damaged \cup Touched
  BY DEF Restart, Finish, Index!Die, Index!None
<1>2. ASSUME NEW q \in Key \ damaged'
      PROVE  Clean(q)'
  <2>1. q \notin damaged /\ (step \in {"idle", "remember"} \/ q \notin Touched)
    BY <1>1
  <2>2. Clean(q)
    BY <2>1 DEF Agreement, Agreeing
  <2> QED
    BY <1>1, <2>2, CleanCleared
<1> QED
  BY <1>1, <1>2, AgreementRests

LEMMA AgreementStep == TypeOK /\ Work /\ Agreement /\ [Next]_vars => Agreement'
<1> SUFFICES ASSUME TypeOK, Work, Agreement, [Next]_vars
             PROVE  Agreement'
  OBVIOUS
<1> USE DEF bundleVars, coinsVars, indexVars
<1>1. ASSUME NEW k \in DOMAIN Bundles, NEW b \in Bundles[k], Begin(k, b)
      PROVE  Agreement'
  BY <1>1, AgreementBegin
<1>2. CASE SetTransactionToTemporary
  BY <1>2, AgreementFrame DEF SetTransactionToTemporary
<1>3. CASE End
  <2>1. /\ step = "remember" /\ step' = "idle"
        /\ UNCHANGED <<coins, fresh, nulled, indexed, pending, damaged>>
    BY <1>3 DEF End, Finish
  <2>2. ASSUME NEW q \in Key \ damaged'
        PROVE  Clean(q)'
    <3>1. Clean(q)
      BY <2>1 DEF Agreement, Agreeing
    <3> QED
      BY <2>1, <3>1, CleanFrame
  <2> QED
    BY <2>1, <2>2, AgreementRests
<1>4. ASSUME NEW x \in Tx, AddRequest(x) \/ ProcessRequest(x) \/ GetResponse(x)
      PROVE  Agreement'
  BY <1>4, AgreementFrame DEF AddRequest, ProcessRequest, GetResponse
<1>5. CASE Tick
  BY <1>5, AgreementFrame DEF Tick
<1>6. CASE UNCHANGED vars
  BY <1>6, AgreementFrame DEF vars
<1> QED
  BY <1>1, <1>2, <1>3, <1>4, <1>5, <1>6, AgreementSpend, AgreementEndSpend, AgreementMake,
     AgreementEndMake, AgreementFlushIndex, AgreementFlushCoins, AgreementRestart
  DEF Next, RecordStep

-----------------------------------------------------------------------------
(* The theorems                                                            *)

LEMMA InitIInv == Init => IInv
<1> SUFFICES ASSUME Init
             PROVE  IInv
  OBVIOUS
<1>1. Cardinality({}) = 0 /\ IsFiniteSet({})
  BY FS_EmptySet
<1>2. TypeOK
  BY <1>1 DEF Init, TypeOK, Index!Init, Index!None
<1>3. Work
  BY EmptySet DEF Init, Work
<1>4. Durable
  BY DEF Init, Durable, ConfirmedIsDurable
<1>5. \A k \in Key : Clean(k)
  BY DEF Init, Clean, Unused, Paying, Outputs, Index!Init, Index!None
<1>6. Agreement
  BY <1>5 DEF Init, Agreement, Agreeing
<1>7. Spaced
  BY <1>1, <1>2 DEF Init, Spaced, Apart
<1>8. Recent
  BY DEF Init, Recent
<1> QED
  BY <1>2, <1>3, <1>4, <1>6, <1>7, <1>8 DEF IInv

(* The inductive invariant of the records: what is left of a bundle, what has  *)
(* reached the coins database, how index, caches and database come to differ   *)
(* and to agree again, and how far the counted periods are apart.              *)
THEOREM Invariance == Spec => []IInv
<1>1. IInv /\ [Next]_vars => IInv'
  BY TypeStep, WorkStep, DurableStep, AgreementStep, RecentStep DEF IInv
<1> QED
  BY <1>1, InitIInv, PTL DEF Spec

(* The state of the record manager keeps its types, among them that no more    *)
(* than PeriodsCount periods are counted.                                      *)
THEOREM TypeCorrect == Spec => []TypeOK
<1>1. IInv => TypeOK
  BY DEF IInv
<1> QED
  BY <1>1, Invariance, PTL

(* A client is told Confirmed only what the coins database has, so that no     *)
(* crash takes it back, whatever the bundles, the periods and the crashes.     *)
THEOREM ConfirmedSurvives == Spec => []ConfirmedIsDurable
<1>1. IInv => ConfirmedIsDurable
  BY DEF IInv, Durable
<1> QED
  BY <1>1, Invariance, PTL

(* Between bundles the index and the coins database agree on every key that no *)
(* crash and no early return disturbed and no transaction pays twice.          *)
THEOREM DatabasesAgree == Spec => []IndexAgrees
<1>1. IInv => IndexAgrees
  <2> SUFFICES ASSUME IInv, step = "idle", NEW k \in Key \ (damaged \cup PaidTwice)
               PROVE  indexed[k] = {TxOf[o] : o \in {p \in coins : KeyOf[p] = k}}
    BY DEF IndexAgrees
  <2>1. Clean(k)
    BY DEF IInv, Agreement, Agreeing
  <2> QED
    BY <2>1 DEF Clean, Paying
<1> QED
  BY <1>1, Invariance, PTL

(* setTransactionToTemporary: for PeriodsCount periods of UsedTimePeriod + 1   *)
(* seconds a recorded transaction is found, whenever periods begin.            *)
THEOREM RecentFound == Spec => []RecentIsFindable
<1>1. IInv => RecentIsFindable
  <2> SUFFICES ASSUME IInv, NEW x \in Tx, recordedAt[x] # 0,
                      time - recordedAt[x] <= PeriodsCount * (UsedTimePeriod + 1)
               PROVE  GetTransaction(x)
    BY DEF RecentIsFindable
  <2>1. Kept(x) /\ time \in Nat /\ recordedAt[x] \in Nat
    BY DEF IInv, Recent, TypeOK
  <2> DEFINE n == PeriodsCount * (UsedTimePeriod + 1)
  <2>2. n \in Nat /\ time - recordedAt[x] <= n
    OBVIOUS
  <2>3. Kept(x) => GetTransaction(x) \/ time - recordedAt[x] > n
    BY DEF Kept, GetTransaction
  <2> HIDE DEF n
  <2> QED
    BY <2>1, <2>2, <2>3
<1> QED
  BY <1>1, Invariance, PTL

(* ... and those of at most PeriodsCount + 1 periods are kept.                 *)
THEOREM RecentBounded == Spec => []RecentIsBounded
<1>1. IInv => RecentIsBounded
  <2> SUFFICES ASSUME IInv
               PROVE  Cardinality({r.window : r \in recentTransactions}) <= PeriodsCount + 1
    BY DEF RecentIsBounded
  <2> DEFINE windows == {r.window : r \in recentTransactions}
             W == usedTimes \cup {lastUsedTime}
  <2>1. IsFiniteSet(usedTimes) /\ Cardinality(usedTimes) <= PeriodsCount
    BY DEF IInv, Spaced, TypeOK
  <2>2. IsFiniteSet(W) /\ Cardinality(W) <= Cardinality(usedTimes) + 1
    <3>1. CASE lastUsedTime \in usedTimes
      <4>1. W = usedTimes
        BY <3>1
      <4>2. Cardinality(usedTimes) \in Nat
        BY <2>1, FS_CardinalityType
      <4> HIDE DEF W
      <4> QED
        BY <2>1, <4>1, <4>2
    <3>2. CASE lastUsedTime \notin usedTimes
      <4>1. IsFiniteSet(W) /\ Cardinality(W) = Cardinality(usedTimes) + 1
        BY <2>1, <3>2, FS_AddElement
      <4>2. Cardinality(usedTimes) \in Nat
        BY <2>1, FS_CardinalityType
      <4> QED
        BY <4>1, <4>2
    <3> QED
      BY <3>1, <3>2
  <2>3. windows \subseteq W
    BY DEF IInv, Recent
  <2> HIDE DEF windows, W
  <2>4. Cardinality(windows) <= Cardinality(W)
    BY <2>2, <2>3, FS_Subset
  <2>5. Cardinality(windows) \in Nat /\ Cardinality(W) \in Nat /\ Cardinality(usedTimes) \in Nat
    BY <2>1, <2>2, <2>3, FS_Subset, FS_CardinalityType
  <2>6. Cardinality(windows) <= PeriodsCount + 1
    BY <2>1, <2>2, <2>4, <2>5
  <2> QED
    BY <2>6 DEF windows
<1> QED
  BY <1>1, Invariance, PTL
=============================================================================
