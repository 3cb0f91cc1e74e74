--------------------- MODULE ValidateTransactionsProofs ---------------------
(***************************************************************************)
(* Proofs about ValidateTransactions, for any trackers and whom they know, *)
(* any bundles, losses and timers that fire at any time.                   *)
(***************************************************************************)
EXTENDS ValidateTransactions, Induction, TLAPS

\* What is on its way from t to u
Content(ch, t, u) == {ch[t][u][i] : i \in DOMAIN ch[t][u]}
Sent(t, u) == Content(channel, t, u)

\* None of s is in B; the first that is in B is e.
Silent(s, B) == \A i \in DOMAIN s : s[i] \notin B
Begins(s, B, e) == \E j \in DOMAIN s : s[j] = e /\ \A i \in 1 .. j - 1 : s[i] \notin B

\* The time events of a bundle
About(b) == Tracker \X {b}

OriginState(b) == action[OriginOf[b]][b].state
Early == {"origin", "originChecked"}

\* The origin waits for the others.
Waiting(b) == OriginState(b) = "propagate" /\ OriginOf[b] \notin down

\* The origin has nothing more to say to its clients.
Decided(b) == /\ b \in started
              /\ OriginOf[b] \in down \/ OriginState(b) \notin Early \cup {"propagate"}

Told == {x \in Tx : response[x] = "Validated"}
AllVouched(b) == PeersOf[OriginOf[b]] \subseteq vouched[b]

\* Whatever is said about a bundle is about these transactions.
Known(b) ==
    {x \in Tx : \E t \in Tracker :
        \/ x \in action[t][b].txs \cup action[t][b].message.txs
        \/ \E u \in Tracker : \E m \in Sent(t, u) : m.about = b /\ x \in m.txs}

\* Only the origin is in its states, and without a message to pass on; an action that
\* is none is empty.
Formed(t, b) ==
    LET a == action[t][b]
    IN  /\ a.state \in Early \cup {"propagate"} =>
               t = OriginOf[b] /\ b \in started /\ a.message.txs = {}
        /\ a.state = "none" => a = NoAction(t, b)
        /\ a.message.about = b /\ a.message.kind \in {"Transactions", "Validated"}

Shape(b) == (\A t \in Tracker : Formed(t, b)) /\ Known(b) \subseteq TxsOf(b)

\* Before the origin has validated a bundle nobody else knows of it.
Lively(b) == b \in started /\ OriginState(b) \notin Early
Unheard(b) ==
    /\ \A t \in Tracker : t # OriginOf[b] => action[t][b].state = "none"
    /\ b \notin started => OriginState(b) = "none"
    /\ \A t, u \in Tracker : \A m \in Sent(t, u) : m.about # b
    /\ Silent(timers, About(b))
Quiet(b) == Lively(b) \/ Unheard(b)

\* t has passed the bundle on, and waits.
Passed(t, b) == t = OriginOf[b] \/ action[t][b].state \in {"broadcast", "validate"}

\* An action has the bundle, and not a report, from one that passed it on.
Loyal(t, b) ==
    action[t][b].state \in {"pass", "passChecked", "broadcast", "validate"} =>
        action[t][b].message.kind = "Transactions" /\ Passed(action[t][b].initiator, b)

\* A message m from t to u is the bundle, from one that passed it on, or a report, to
\* one that passed it on, that only those signed who vouch.
Honest(t, u, m, b) ==
    /\ m.kind = "Transactions" => Passed(t, b)
    /\ m.kind = "Validated" => Passed(u, b) /\ m.path \subseteq vouched[b]

\* While the origin waits no other time event about the bundle comes, so whoever
\* passed it on waits too, and none takes a report for a bundle.
Race(b) ==
    Waiting(b) =>
        /\ Begins(timers, About(b), <<OriginOf[b], b>>)
        /\ \A t \in Tracker : Loyal(t, b)
        /\ \A t, u \in Tracker : \A m \in Sent(t, u) : m.about = b => Honest(t, u, m, b)
        /\ PeersOf[OriginOf[b]] \ action[OriginOf[b]][b].partners \subseteq vouched[b]

Confirming(b) ==
    \E t, u \in Tracker : \E m \in Sent(t, u) : m.kind = "Confirmed" /\ m.about = b

\* Confirmed is sent when the origin has decided and all have vouched.
ConfirmedLate(b) == Confirming(b) => Decided(b) /\ AllVouched(b)

\* As long as a bundle may be stored, its clients were told Validated.
Open(b) == OriginState(b) = "propagate" \/ Confirming(b)
Agreed(b) == Open(b) => Known(b) \subseteq Told

StoredLate(b) ==
    \A t \in Tracker : \A x \in stored[t] \cap TxsOf(b) :
        Decided(b) /\ AllVouched(b) /\ x \in Told

BundleInv(b) == /\ Shape(b) /\ Quiet(b) /\ Race(b) /\ ConfirmedLate(b) /\ Agreed(b)
                /\ StoredLate(b)

IInv == TypeOK /\ \A b \in Bundle : BundleInv(b)

-----------------------------------------------------------------------------
(* Sequences of timers and messages                                        *)

Channels == [Tracker -> [Tracker -> Seq(Message)]]

\* The recursive function of Without exists.
LEMMA WithoutKept ==
    ASSUME NEW S, NEW s \in Seq(S), NEW e
    PROVE  \E kept : /\ kept[0] = <<>>
                     /\ \A n \in 1 .. Len(s) : kept[n] =
                            IF s[n] = e THEN kept[n - 1] ELSE Append(kept[n - 1], s[n])
                     /\ Without(s, e) = kept[Len(s)]
<1> DEFINE Def(f, n) == IF n = 0 THEN <<>>
                        ELSE IF s[n] = e THEN f[n - 1] ELSE Append(f[n - 1], s[n])
           P(m) == \E f : f = [n \in 0 .. m |-> Def(f, n)]
           G == {m \in Nat : P(m)}
<1>1. P(0)
  <2>1. [n \in 0 .. 0 |-> <<>>] = [n \in 0 .. 0 |-> Def([k \in 0 .. 0 |-> <<>>], n)]
    OBVIOUS
  <2> QED
    BY <2>1
<1>2. ASSUME NEW m \in Nat, P(m)
      PROVE  P(m + 1)
  <2>1. PICK f : f = [n \in 0 .. m |-> Def(f, n)]
    BY <1>2
  <2> DEFINE g == [n \in 0 .. m + 1 |-> IF n = m + 1 THEN Def(f, m + 1) ELSE f[n]]
  <2>2. \A n \in 0 .. m : g[n] = f[n]
    OBVIOUS
  <2>3. ASSUME NEW n \in 0 .. m + 1
        PROVE  g[n] = Def(g, n)
    <3>1. CASE n = m + 1
      BY <2>2, <3>1
    <3>2. CASE n \in 0 .. m
      <4>1. f[n] = Def(f, n)
        BY <2>1, <3>2
      <4> QED
        BY <2>2, <3>2, <4>1
    <3> QED
      BY <3>1, <3>2
  <2>4. g = [n \in 0 .. m + 1 |-> Def(g, n)]
    BY <2>3
  <2> QED
    BY <2>4
<1>3. Nat \subseteq G
  <2>1. 0 \in G /\ \A n \in Nat : n \in G => n + 1 \in G
    <3> HIDE DEF P
    <3> QED
      BY <1>1, <1>2
  <2> HIDE DEF G
  <2> QED
    BY <2>1, NatInd
<1> DEFINE kept == CHOOSE f : f = [n \in 0 .. Len(s) |-> Def(f, n)]
<1>4. kept = [n \in 0 .. Len(s) |-> Def(kept, n)]
  <2>1. P(Len(s))
    <3> HIDE DEF P
    <3> QED
      BY <1>3
  <2> QED
    BY <2>1
<1>5. Without(s, e) = kept[Len(s)]
  BY DEF Without
<1> HIDE DEF kept
<1>6. \A n \in 0 .. Len(s) : kept[n] = Def(kept, n)
  BY <1>4
<1>7. kept[0] = <<>>
  BY <1>6
<1>8. ASSUME NEW n \in 1 .. Len(s)
      PROVE  kept[n] = IF s[n] = e THEN kept[n - 1] ELSE Append(kept[n - 1], s[n])
  BY <1>6
<1> QED
  BY <1>5, <1>7, <1>8

\* What remains true of a sequence of timers when one is appended or taken
LEMMA AppendOrder ==
    ASSUME NEW S, NEW s \in Seq(S), NEW e \in S
    PROVE  /\ Append(s, e) \in Seq(S)
           /\ \A B : e \notin B /\ Silent(s, B) => Silent(Append(s, e), B)
           /\ \A B, f : Begins(s, B, f) => Begins(Append(s, e), B, f)
           /\ \A B : Silent(s, B) => Begins(Append(s, e), B, e)
<1>1. /\ Append(s, e) \in Seq(S) /\ Len(Append(s, e)) = Len(s) + 1
      /\ Append(s, e)[Len(s) + 1] = e
      /\ \A i \in 1 .. Len(s) : Append(s, e)[i] = s[i]
  OBVIOUS
<1> DEFINE r == Append(s, e)
<1> HIDE DEF r
<1>2. ASSUME NEW B, e \notin B, Silent(s, B)
      PROVE  Silent(Append(s, e), B)
  BY <1>1, <1>2 DEF Silent
<1>3. ASSUME NEW B, NEW f, Begins(s, B, f)
      PROVE  Begins(Append(s, e), B, f)
  BY <1>1, <1>3 DEF Begins
<1>4. ASSUME NEW B, Silent(s, B)
      PROVE  Begins(Append(s, e), B, e)
  <2>1. Len(s) + 1 \in DOMAIN Append(s, e)
        /\ \A i \in 1 .. (Len(s) + 1) - 1 : Append(s, e)[i] \notin B
    BY <1>1, <1>4 DEF Silent
  <2> QED
    BY <1>1, <2>1 DEF Begins
<1> QED
  BY <1>1, <1>2, <1>3, <1>4

\* Without keeps the order of what it keeps.
LEMMA WithoutOrder ==
    ASSUME NEW S, NEW s \in Seq(S), NEW e
    PROVE  /\ Without(s, e) \in Seq(S)
           /\ \A B : Silent(s, B) => Silent(Without(s, e), B)
           /\ \A B, f : e \notin B /\ f \in B /\ Begins(s, B, f) =>
                            Begins(Without(s, e), B, f)
<1>1. PICK kept : /\ kept[0] = <<>>
                  /\ \A n \in 1 .. Len(s) : kept[n] =
                         IF s[n] = e THEN kept[n - 1] ELSE Append(kept[n - 1], s[n])
                  /\ Without(s, e) = kept[Len(s)]
  BY WithoutKept
<1>0. kept[0] = <<>> /\ Without(s, e) = kept[Len(s)] /\ Len(s) \in Nat
  BY <1>1
<1>2. ASSUME NEW n \in Nat, n + 1 <= Len(s)
      PROVE  kept[n + 1] = IF s[n + 1] = e THEN kept[n] ELSE Append(kept[n], s[n + 1])
  <2>1. n + 1 \in 1 .. Len(s) /\ (n + 1) - 1 = n
    BY <1>2
  <2> QED
    BY <1>1, <2>1
<1> DEFINE Typed == {n \in Nat : n <= Len(s) => kept[n] \in Seq(S)}
<1>3. Nat \subseteq Typed
  <2>1. 0 \in Typed
    <3>1. kept[0] \in Seq(S)
      BY <1>0
    <3> QED
      BY <3>1
  <2>2. ASSUME NEW n \in Nat, n \in Typed
        PROVE  n + 1 \in Typed
    <3>1. SUFFICES ASSUME n + 1 <= Len(s)
                   PROVE  kept[n + 1] \in Seq(S)
      OBVIOUS
    <3>2. kept[n] \in Seq(S) /\ s[n + 1] \in S
      BY <2>2, <3>1
    <3>3. kept[n + 1] = IF s[n + 1] = e THEN kept[n] ELSE Append(kept[n], s[n + 1])
      BY <1>2, <3>1
    <3> QED
      BY <3>2, <3>3
  <2> HIDE DEF Typed
  <2> QED
    BY <2>1, <2>2, NatInd
<1>4. ASSUME NEW n \in Nat, n <= Len(s)
      PROVE  kept[n] \in Seq(S)
  BY <1>3, <1>4
<1>5. ASSUME NEW B, NEW m \in Nat, m <= Len(s), \A i \in 1 .. m : s[i] \notin B
      PROVE  Silent(kept[m], B)
  <2> DEFINE Quiets == {n \in Nat : n <= m => Silent(kept[n], B)}
  <2>1. 0 \in Quiets
    BY <1>0 DEF Silent
  <2>2. ASSUME NEW n \in Nat, n \in Quiets
        PROVE  n + 1 \in Quiets
    <3>1. SUFFICES ASSUME n + 1 <= m
                   PROVE  Silent(kept[n + 1], B)
      OBVIOUS
    <3>2. Silent(kept[n], B) /\ s[n + 1] \notin B
      BY <1>5, <2>2, <3>1
    <3>3. kept[n + 1] = IF s[n + 1] = e THEN kept[n] ELSE Append(kept[n], s[n + 1])
      BY <1>2, <1>5, <3>1
    <3>4. kept[n] \in Seq(S) /\ s[n + 1] \in S
      BY <1>4, <1>5, <3>1
    <3> QED
      BY <3>2, <3>3, <3>4 DEF Silent
  <2>3. Nat \subseteq Quiets
    <3> HIDE DEF Quiets
    <3> QED
      BY <2>1, <2>2, NatInd
  <2> QED
    BY <2>3
<1>6. ASSUME NEW B, Silent(s, B)
      PROVE  Silent(Without(s, e), B)
  <2>1. \A i \in 1 .. Len(s) : s[i] \notin B
    BY <1>6 DEF Silent
  <2> QED
    BY <1>0, <1>5, <2>1
<1>7. ASSUME NEW B, NEW f, e \notin B, f \in B, Begins(s, B, f)
      PROVE  Begins(Without(s, e), B, f)
  <2>1. PICK j \in 1 .. Len(s) : s[j] = f /\ \A i \in 1 .. j - 1 : s[i] \notin B
    BY <1>7 DEF Begins
  <2> DEFINE k == j - 1
  <2>2. k \in Nat /\ k + 1 = j /\ k + 1 <= Len(s) /\ k <= Len(s)
    BY <2>1
  <2>3. Silent(kept[k], B) /\ kept[k] \in Seq(S)
    BY <1>4, <1>5, <2>1, <2>2
  <2>4. kept[j] = Append(kept[k], f) /\ f \in S
    <3>1. s[k + 1] = f /\ f # e /\ f \in S
      BY <1>7, <2>1, <2>2
    <3> QED
      BY <1>2, <2>2, <3>1
  <2>5. Begins(kept[j], B, f)
    <3> HIDE DEF k
    <3>1. Len(kept[j]) = Len(kept[k]) + 1 /\ kept[j][Len(kept[k]) + 1] = f
          /\ \A i \in 1 .. Len(kept[k]) : kept[j][i] = kept[k][i]
      BY <2>3, <2>4
    <3>2. \A i \in 1 .. (Len(kept[k]) + 1) - 1 : kept[j][i] \notin B
      BY <2>3, <3>1 DEF Silent
    <3>3. kept[j] \in Seq(S)
      BY <2>3, <2>4
    <3>4. Len(kept[k]) + 1 \in DOMAIN kept[j]
      BY <2>3, <3>1, <3>3
    <3> QED
      BY <3>1, <3>2, <3>4 DEF Begins
  <2> DEFINE Found == {n \in Nat : j <= n /\ n <= Len(s) => Begins(kept[n], B, f)}
  <2>6. 0 \in Found
    OBVIOUS
  <2>7. ASSUME NEW n \in Nat, n \in Found
        PROVE  n + 1 \in Found
    <3>1. SUFFICES ASSUME j <= n + 1, n + 1 <= Len(s)
                   PROVE  Begins(kept[n + 1], B, f)
      OBVIOUS
    <3>2. CASE n + 1 = j
      BY <2>5, <3>2
    <3>3. CASE j <= n
      <4>1. Begins(kept[n], B, f) /\ kept[n] \in Seq(S) /\ s[n + 1] \in S
        BY <1>4, <2>7, <3>1, <3>3
      <4>2. kept[n + 1] = IF s[n + 1] = e THEN kept[n] ELSE Append(kept[n], s[n + 1])
        BY <1>2, <3>1
      <4>3. Begins(Append(kept[n], s[n + 1]), B, f)
        BY <4>1, AppendOrder
      <4> QED
        BY <4>1, <4>2, <4>3
    <3> QED
      BY <3>1, <3>2, <3>3
  <2>8. Nat \subseteq Found
    <3> HIDE DEF Found
    <3> QED
      BY <2>6, <2>7, NatInd
  <2> QED
    BY <1>0, <2>1, <2>8
<1> QED
  BY <1>0, <1>4, <1>6, <1>7

LEMMA TailOrder ==
    ASSUME NEW S, NEW s \in Seq(S), s # <<>>
    PROVE  /\ Tail(s) \in Seq(S) /\ Head(s) \in S
           /\ \A B : Silent(s, B) => Silent(Tail(s), B) /\ Head(s) \notin B
           /\ \A B, f : Head(s) \notin B /\ f \in B /\ Begins(s, B, f) =>
                            Begins(Tail(s), B, f)
           /\ \A B, f : Head(s) \in B /\ Begins(s, B, f) => Head(s) = f
<1>1. /\ Tail(s) \in Seq(S) /\ Head(s) \in S /\ Head(s) = s[1] /\ 1 \in DOMAIN s
      /\ Len(Tail(s)) = Len(s) - 1 /\ \A i \in 1 .. Len(s) - 1 : Tail(s)[i] = s[i + 1]
  OBVIOUS
<1>2. ASSUME NEW B, Silent(s, B)
      PROVE  Silent(Tail(s), B) /\ Head(s) \notin B
  BY <1>1, <1>2 DEF Silent
<1>3. ASSUME NEW B, NEW f, Head(s) \notin B, f \in B, Begins(s, B, f)
      PROVE  Begins(Tail(s), B, f)
  <2>1. PICK j \in 1 .. Len(s) : s[j] = f /\ \A i \in 1 .. j - 1 : s[i] \notin B
    BY <1>3 DEF Begins
  <2>2. PICK k \in 1 .. Len(s) - 1 : j = k + 1
    BY <1>1, <1>3, <2>1
  <2>3. k \in DOMAIN Tail(s) /\ Tail(s)[k] = f
    BY <1>1, <2>1, <2>2
  <2>4. \A i \in 1 .. k - 1 : Tail(s)[i] \notin B
    BY <1>1, <2>1, <2>2
  <2> QED
    BY <2>3, <2>4 DEF Begins
<1>4. ASSUME NEW B, NEW f, Head(s) \in B, Begins(s, B, f)
      PROVE  Head(s) = f
  BY <1>1, <1>4 DEF Begins
<1> QED
  BY <1>1, <1>2, <1>3, <1>4

LEMMA TakenContent ==
    ASSUME NEW ch \in Channels, NEW t \in Tracker, NEW u \in Tracker, ch[u][t] # <<>>
    PROVE  LET left == [ch EXCEPT ![u][t] = Tail(@)]
           IN  /\ left \in Channels
               /\ Head(ch[u][t]) \in Message /\ Head(ch[u][t]) \in Content(ch, u, t)
               /\ \A v, w \in Tracker : Content(left, v, w) \subseteq Content(ch, v, w)
<1> DEFINE left == [ch EXCEPT ![u][t] = Tail(@)]
<1>1. ch[u][t] \in Seq(Message)
  BY DEF Channels
<1>2. /\ Tail(ch[u][t]) \in Seq(Message) /\ Head(ch[u][t]) = ch[u][t][1]
      /\ 1 \in DOMAIN ch[u][t] /\ Len(Tail(ch[u][t])) = Len(ch[u][t]) - 1
      /\ \A i \in 1 .. Len(ch[u][t]) - 1 : Tail(ch[u][t])[i] = ch[u][t][i + 1]
  BY <1>1
<1>3. left \in Channels /\ left[u][t] = Tail(ch[u][t])
      /\ \A v, w \in Tracker : v # u \/ w # t => left[v][w] = ch[v][w]
  BY <1>1, <1>2 DEF Channels
<1>4. ASSUME NEW v \in Tracker, NEW w \in Tracker
      PROVE  Content(left, v, w) \subseteq Content(ch, v, w)
  <2>1. CASE v = u /\ w = t
    BY <1>1, <1>2, <1>3, <2>1 DEF Content
  <2>2. CASE v # u \/ w # t
    BY <1>3, <2>2 DEF Content
  <2> QED
    BY <2>1, <2>2
<1> QED
  BY <1>1, <1>2, <1>3, <1>4 DEF Content

LEMMA SendContent ==
    ASSUME NEW ch \in Channels, NEW t \in Tracker, NEW targets, NEW m \in Message
    PROVE  /\ Send(ch, t, targets, m) \in Channels /\ Wrapped(m, t) \in Message
           /\ \A v, w \in Tracker : \A n \in Content(Send(ch, t, targets, m), v, w) :
                  n \in Content(ch, v, w) \/ (v = t /\ w \in targets /\ n = Wrapped(m, t))
<1> DEFINE sent == Send(ch, t, targets, m)
<1>1. Wrapped(m, t) \in Message
  BY DEF Wrapped, Message
<1>2. \A v, w \in Tracker : ch[v][w] \in Seq(Message)
  BY DEF Channels
<1>3. /\ sent \in Channels
      /\ \A w \in Tracker : sent[t][w] = IF w \in targets THEN Append(ch[t][w], Wrapped(m, t))
                                                          ELSE ch[t][w]
      /\ \A v, w \in Tracker : v # t => sent[v][w] = ch[v][w]
  BY <1>1, <1>2 DEF Send, Channels
<1>4. ASSUME NEW v \in Tracker, NEW w \in Tracker, NEW n \in Content(sent, v, w)
      PROVE  n \in Content(ch, v, w) \/ (v = t /\ w \in targets /\ n = Wrapped(m, t))
  <2>1. CASE v = t /\ w \in targets
    <3>1. sent[v][w] = Append(ch[v][w], Wrapped(m, t)) /\ ch[v][w] \in Seq(Message)
      BY <1>2, <1>3, <2>1
    <3> QED
      BY <1>1, <2>1, <3>1 DEF Content
  <2>2. CASE ~ (v = t /\ w \in targets)
    <3>1. sent[v][w] = ch[v][w]
      BY <1>3, <2>2
    <3> QED
      BY <3>1 DEF Content
  <2> QED
    BY <2>1, <2>2
<1> QED
  BY <1>1, <1>3, <1>4

-----------------------------------------------------------------------------
(* Steps about one bundle leave the others alone                           *)

\* The first time event about c stays the first.
TimersKeep(c) ==
    /\ Silent(timers, About(c)) => Silent(timers', About(c))
    /\ Begins(timers, About(c), <<OriginOf[c], c>>) =>
           Begins(timers', About(c), <<OriginOf[c], c>>)

\* What a step that is not about c does to it: it may take messages about c
Untouched(c) ==
    /\ \A t \in Tracker : action'[t][c] = action[t][c]
    /\ \A t, u \in Tracker : \A m \in Sent(t, u)' : m.about = c => m \in Sent(t, u)
    /\ c \in started' <=> c \in started
    /\ \A x \in TxsOf(c) : response'[x] = response[x]
    /\ \A t \in Tracker : \A x \in stored'[t] \cap TxsOf(c) : x \in stored[t]
    /\ vouched'[c] = vouched[c] /\ down \subseteq down' /\ TimersKeep(c)

LEMMA OtherBundle ==
    ASSUME IInv, NEW c \in Bundle, Untouched(c)
    PROVE  BundleInv(c)'
<1> USE ValidateTransactionsAssumption
<1>0. BundleInv(c) /\ OriginOf[c] \in Tracker
  BY DEF IInv
<1>1. /\ \A t \in Tracker : action'[t][c] = action[t][c]
      /\ \A t, u \in Tracker : \A m \in Sent(t, u)' : m.about = c => m \in Sent(t, u)
      /\ c \in started' <=> c \in started
      /\ \A x \in TxsOf(c) : response'[x] = response[x]
      /\ \A t \in Tracker : \A x \in stored'[t] \cap TxsOf(c) : x \in stored[t]
      /\ vouched'[c] = vouched[c] /\ down \subseteq down' /\ TimersKeep(c)
  BY DEF Untouched
<1>2. OriginState(c)' = OriginState(c) /\ AllVouched(c)' = AllVouched(c)
  BY <1>0, <1>1 DEF OriginState, AllVouched
<1>3. Waiting(c)' => Waiting(c)
  BY <1>1, <1>2 DEF Waiting
<1>4. Decided(c) => Decided(c)'
  BY <1>1, <1>2 DEF Decided
<1>5. Confirming(c)' => Confirming(c)
  BY <1>1 DEF Confirming
<1>6. \A x \in TxsOf(c) : x \in Told <=> x \in Told'
  BY <1>1 DEF Told, TxsOf
<1>7. Known(c)' \subseteq Known(c)
  BY <1>1 DEF Known
<1>8. Shape(c)'
  <2>1. ASSUME NEW t \in Tracker
        PROVE  Formed(t, c)'
    <3>1. Formed(t, c)
      BY <1>0 DEF BundleInv, Shape
    <3> QED
      BY <1>1, <3>1 DEF Formed
  <2>2. TxsOf(c)' = TxsOf(c)
    BY DEF TxsOf
  <2> QED
    BY <1>0, <1>7, <2>1, <2>2 DEF BundleInv, Shape
<1>9. Quiet(c)'
  <2>1. CASE Lively(c)
    BY <1>1, <1>2, <2>1 DEF Quiet, Lively
  <2>2. CASE Unheard(c)
    BY <1>1, <1>2, <2>2 DEF Quiet, Unheard, TimersKeep
  <2> QED
    BY <1>0, <2>1, <2>2 DEF BundleInv, Quiet
<1>10. Race(c)'
  <2>1. SUFFICES ASSUME Waiting(c)'
                 PROVE  Race(c)'
    BY DEF Race
  <2>2. Race(c) /\ Waiting(c)
    BY <1>0, <1>3, <2>1 DEF BundleInv
  <2>3. Begins(timers', About(c), <<OriginOf[c], c>>)
    BY <1>1, <2>2 DEF Race, TimersKeep
  <2>4. \A t \in Tracker : Passed(t, c)' = Passed(t, c)
    BY <1>1 DEF Passed
  <2>5. ASSUME NEW t \in Tracker
        PROVE  Loyal(t, c)'
    <3>1. action[t][c].initiator \in Tracker /\ Loyal(t, c)
      BY <2>2 DEF IInv, TypeOK, Action, Race
    <3> QED
      BY <1>1, <2>4, <3>1 DEF Loyal
  <2>6. ASSUME NEW t \in Tracker, NEW u \in Tracker, NEW m \in Sent(t, u)', m.about = c
        PROVE  Honest(t, u, m, c)'
    <3>1. Honest(t, u, m, c)
      BY <1>1, <2>2, <2>6 DEF Race
    <3> QED
      BY <1>1, <2>4, <3>1 DEF Honest
  <2>7. PeersOf[OriginOf[c]] \ action'[OriginOf[c]][c].partners \subseteq vouched'[c]
    BY <1>0, <1>1, <2>2 DEF Race
  <2> QED
    BY <2>3, <2>5, <2>6, <2>7 DEF Race
<1>11. ConfirmedLate(c)'
  BY <1>0, <1>2, <1>4, <1>5 DEF BundleInv, ConfirmedLate
<1>12. Agreed(c)'
  BY <1>0, <1>2, <1>5, <1>6, <1>7 DEF BundleInv, Agreed, Shape, Open
<1>13. StoredLate(c)'
  BY <1>0, <1>1, <1>2, <1>4, <1>6 DEF BundleInv, StoredLate, TxsOf
<1> QED
  BY <1>8, <1>9, <1>10, <1>11, <1>12, <1>13 DEF BundleInv

-----------------------------------------------------------------------------
(* Steps of a bundle whose origin has validated it                         *)

\* Who has an action, or gets a message, knows of a live bundle.
LEMMA LivelyIs ==
    ASSUME IInv, NEW b \in Bundle, NEW t \in Tracker,
           \/ action[t][b].state \notin Early \cup {"none"}
           \/ \E u, v \in Tracker : \E m \in Sent(u, v) : m.about = b
    PROVE  Lively(b)
<1>1. Quiet(b) /\ Shape(b)
  BY DEF IInv, BundleInv
<1>2. ASSUME Unheard(b), ~ Lively(b)
      PROVE  FALSE
  <2>1. t = OriginOf[b] /\ action[t][b].state \notin Early \cup {"none"}
    BY <1>2 DEF Unheard
  <2> QED
    BY <1>2, <2>1 DEF Lively, Unheard, OriginState
<1> QED
  BY <1>1, <1>2 DEF Quiet

\* Tracker t makes a step about b, after the clients have been told Validated.
LEMMA LivelyStep ==
    ASSUME IInv, NEW b \in Bundle, NEW t \in Tracker, Lively(b),
           started' = started, down \subseteq down', vouched[b] \subseteq vouched'[b],
           \A v \in Tracker : v # t => action'[v][b] = action[v][b],
           action'[t][b].state \notin Early,
           action'[t][b].state = "propagate" => action[t][b].state = "propagate",
           Formed(t, b)', Known(b)' \subseteq Known(b), Race(b)',
           \A x \in TxsOf(b) : response'[x] = response[x],
           Confirming(b)' =>
               Confirming(b) \/ (OriginState(b) = "propagate" /\ Decided(b)' /\ AllVouched(b)),
           \A v \in Tracker : \A x \in stored'[v] \cap TxsOf(b) :
               x \in stored[v] \/ (x \in Known(b) /\ Open(b) /\ Decided(b)' /\ AllVouched(b))
    PROVE  BundleInv(b)'
<1> USE ValidateTransactionsAssumption
<1>0. BundleInv(b) /\ OriginOf[b] \in Tracker /\ TxsOf(b)' = TxsOf(b)
  BY DEF IInv, TxsOf
<1>1. OriginState(b)' \notin Early /\ (OriginState(b)' = "propagate" => OriginState(b) = "propagate")
  BY <1>0 DEF OriginState, Lively
<1>2. Lively(b)' /\ Quiet(b)'
  BY <1>1 DEF Lively, Quiet
<1>3. Decided(b) => Decided(b)'
  BY <1>1 DEF Decided
<1>4. AllVouched(b) => AllVouched(b)'
  BY DEF AllVouched
<1>5. \A x \in TxsOf(b) : x \in Told <=> x \in Told'
  BY DEF Told, TxsOf
<1>6. Shape(b)'
  <2>1. ASSUME NEW v \in Tracker
        PROVE  Formed(v, b)'
    <3>1. Formed(v, b)
      BY <1>0 DEF BundleInv, Shape
    <3> QED
      BY <3>1 DEF Formed
  <2> QED
    BY <1>0, <2>1 DEF BundleInv, Shape
<1>7. ConfirmedLate(b)'
  BY <1>0, <1>3, <1>4 DEF BundleInv, ConfirmedLate
<1>8. Open(b)' => Open(b)
  BY <1>1 DEF Open
<1>9. Agreed(b)'
  BY <1>0, <1>5, <1>8 DEF BundleInv, Agreed, Shape
<1>10. StoredLate(b)'
  <2>1. ASSUME NEW v \in Tracker, NEW x \in stored'[v] \cap TxsOf(b)
        PROVE  Decided(b)' /\ AllVouched(b)' /\ x \in Told'
    <3>1. CASE x \in stored[v]
      BY <1>0, <1>3, <1>4, <1>5, <3>1 DEF BundleInv, StoredLate
    <3>2. CASE x \in Known(b) /\ Open(b) /\ Decided(b)' /\ AllVouched(b)
      BY <1>0, <1>4, <1>5, <3>2 DEF BundleInv, Agreed
    <3> QED
      BY <3>1, <3>2
  <2> QED
    BY <1>0, <2>1 DEF StoredLate
<1> QED
  BY <1>2, <1>6, <1>7, <1>9, <1>10 DEF BundleInv

\* The origin waits on.
LEMMA RaceStep ==
    ASSUME IInv, NEW b \in Bundle, NEW t \in Tracker, Waiting(b),
           \A v \in Tracker : v # t => action'[v][b] = action[v][b],
           vouched[b] \subseteq vouched'[b],
           Begins(timers, About(b), <<OriginOf[b], b>>) =>
               Begins(timers', About(b), <<OriginOf[b], b>>),
           Passed(t, b) => Passed(t, b)',
           Loyal(t, b)',
           \A v, w \in Tracker : \A m \in Sent(v, w)' :
               m.about = b => m \in Sent(v, w) \/ Honest(v, w, m, b)',
           t = OriginOf[b] => PeersOf[t] \ action'[t][b].partners \subseteq vouched'[b]
    PROVE  Race(b)'
<1> USE ValidateTransactionsAssumption
<1>0. Race(b) /\ OriginOf[b] \in Tracker
  BY DEF IInv, BundleInv
<1>1. \A v \in Tracker : Passed(v, b) => Passed(v, b)'
  BY DEF Passed
<1>2. ASSUME NEW v \in Tracker
      PROVE  Loyal(v, b)'
  <2>1. CASE v = t
    BY <2>1
  <2>2. CASE v # t
    <3>1. Loyal(v, b) /\ action[v][b].initiator \in Tracker
      BY <1>0 DEF Race, IInv, TypeOK, Action
    <3> QED
      BY <1>1, <2>2, <3>1 DEF Loyal
  <2> QED
    BY <2>1, <2>2
<1>3. ASSUME NEW v \in Tracker, NEW w \in Tracker, NEW m \in Sent(v, w)', m.about = b
      PROVE  Honest(v, w, m, b)'
  <2>1. CASE m \in Sent(v, w)
    <3>1. Honest(v, w, m, b)
      BY <1>0, <1>3, <2>1 DEF Race
    <3> QED
      BY <1>1, <3>1 DEF Honest
  <2> QED
    BY <1>3, <2>1
<1>4. PeersOf[OriginOf[b]] \ action'[OriginOf[b]][b].partners \subseteq vouched'[b]
  BY <1>0 DEF Race
<1>5. Begins(timers', About(b), <<OriginOf[b], b>>)
  BY <1>0 DEF Race
<1> QED
  BY <1>2, <1>3, <1>4, <1>5 DEF Race

\* A step about b keeps the invariant.
Keeps(b) == TypeOK' /\ BundleInv(b)' /\ \A c \in Bundle : c # b => Untouched(c)

\* The action of b at t turns into a.
Turns(t, b, a) ==
    /\ action' \in [Tracker -> [Bundle -> Action]] /\ action'[t][b] = a
    /\ \A v \in Tracker, c \in Bundle : v # t \/ c # b => action'[v][c] = action[v][c]

LEMMA BecomeTurns ==
    ASSUME TypeOK, NEW t \in Tracker, NEW b \in Bundle, NEW a \in Action, Become(t, b, a)
    PROVE  Turns(t, b, a)
BY DEF TypeOK, Become, Turns

\* All that is new is m, from t to the targets.
Says(t, targets, m) ==
    /\ channel' \in Channels
    /\ \A v, w \in Tracker : \A n \in Sent(v, w)' :
           n \in Sent(v, w) \/ (v = t /\ w \in targets /\ n = Wrapped(m, t))

LEMMA WrappedIs ==
    ASSUME NEW m \in Message, NEW t \in Tracker
    PROVE  /\ Wrapped(m, t) \in Message /\ Wrapped(m, t).kind = m.kind
           /\ Wrapped(m, t).about = m.about /\ Wrapped(m, t).txs = m.txs
           /\ Wrapped(m, t).path = m.path \cup {t}
BY DEF Wrapped, Message

\* What a step must see to while the origin waits
Steady(t, b, targets, m) ==
    /\ Begins(timers, About(b), <<OriginOf[b], b>>) =>
           Begins(timers', About(b), <<OriginOf[b], b>>)
    /\ Passed(t, b) => Passed(t, b)'
    /\ Loyal(t, b)'
    /\ \A w \in targets \cap Tracker : Honest(t, w, Wrapped(m, t), b)'
    /\ t = OriginOf[b] => PeersOf[t] \ action'[t][b].partners \subseteq vouched'[b]

\* The step of LivelyStep, with its frame
LEMMA LivelyKeeps ==
    ASSUME IInv, NEW b \in Bundle, NEW t \in Tracker, Lively(b),
           NEW a \in Action, Turns(t, b, a), Formed(t, b)', a.state \notin Early,
           a.state = "propagate" => action[t][b].state = "propagate",
           a.state = "passChecked" => a.invalid \subseteq a.txs,
           NEW m \in Message, m.about = b, NEW targets, Says(t, targets, m),
           a.txs \cup a.message.txs \cup m.txs \subseteq Known(b),
           UNCHANGED <<started, response>>, down \subseteq down', down' \subseteq Tracker,
           vouched' \in [Bundle -> SUBSET Tracker],
           \A c \in Bundle : vouched[c] \subseteq vouched'[c],
           \A c \in Bundle : c # b => vouched'[c] = vouched[c] /\ TimersKeep(c),
           timers' \in Seq(Tracker \X Bundle), coins' \in [Tracker -> SUBSET Output],
           nulled' \in [Tracker -> SUBSET Output], stored' \in [Tracker -> SUBSET Tx],
           Waiting(b) /\ Waiting(b)' => Steady(t, b, targets, m),
           m.kind = "Confirmed" /\ targets # {} => Open(b) /\ Decided(b)' /\ AllVouched(b),
           \A v \in Tracker : \A x \in stored'[v] :
               x \in stored[v] \/ (x \in a.txs /\ Open(b) /\ Decided(b)' /\ AllVouched(b))
    PROVE  Keeps(b)
<1> USE ValidateTransactionsAssumption
<1>0. BundleInv(b) /\ Known(b) \subseteq TxsOf(b) /\ TypeOK
  BY DEF IInv, BundleInv, Shape
<1>1. /\ Wrapped(m, t).kind = m.kind /\ Wrapped(m, t).about = b
      /\ Wrapped(m, t).txs = m.txs
  BY WrappedIs
<1>2. /\ action'[t][b] = a
      /\ \A v \in Tracker, c \in Bundle : v # t \/ c # b => action'[v][c] = action[v][c]
      /\ action' \in [Tracker -> [Bundle -> Action]]
  BY DEF Turns
<1>3. channel' \in Channels /\ \A v, w \in Tracker : \A n \in Sent(v, w)' :
           n \in Sent(v, w) \/ (v = t /\ w \in targets /\ n = Wrapped(m, t))
  BY DEF Says
<1>4. TypeOK'
  <2>1. ASSUME NEW v \in Tracker, NEW c \in Bundle,
               action'[v][c].state \in {"originChecked", "passChecked"}
        PROVE  action'[v][c].invalid \subseteq action'[v][c].txs
    <3>1. CASE v = t /\ c = b
      BY <1>2, <2>1, <3>1 DEF Early
    <3>2. CASE v # t \/ c # b
      <4>1. action'[v][c] = action[v][c]
        BY <1>2, <3>2
      <4> QED
        BY <1>0, <2>1, <4>1 DEF TypeOK
    <3> QED
      BY <3>1, <3>2
  <2> QED
    BY <1>0, <1>2, <1>3, <2>1 DEF TypeOK, Channels
<1>5. Known(b)' \subseteq Known(b)
  <2>1. ASSUME NEW x \in Tx, NEW v \in Tracker,
               x \in action'[v][b].txs \cup action'[v][b].message.txs
        PROVE  x \in Known(b)
    <3>1. CASE v = t
      BY <1>2, <2>1, <3>1
    <3>2. CASE v # t
      <4>1. x \in action[v][b].txs \cup action[v][b].message.txs
        BY <1>2, <2>1, <3>2
      <4> QED
        BY <4>1 DEF Known
    <3> QED
      BY <3>1, <3>2
  <2>2. ASSUME NEW x \in Tx, NEW v \in Tracker, NEW u \in Tracker,
               NEW n \in Sent(v, u)', n.about = b, x \in n.txs
        PROVE  x \in Known(b)
    BY <1>1, <1>3, <2>2 DEF Known
  <2> QED
    BY <2>1, <2>2 DEF Known
<1>6. ASSUME NEW c \in Bundle, c # b
      PROVE  Untouched(c)
  <2>1. \A v, w \in Tracker : \A n \in Sent(v, w)' : n.about = c => n \in Sent(v, w)
    BY <1>1, <1>3, <1>6
  <2>2. \A v \in Tracker : \A x \in stored'[v] \cap TxsOf(c) : x \in stored[v]
    BY <1>0, <1>6 DEF TxsOf
  <2> QED
    BY <1>2, <1>6, <2>1, <2>2 DEF Untouched
<1>7. Confirming(b)' =>
        Confirming(b) \/ (OriginState(b) = "propagate" /\ Decided(b)' /\ AllVouched(b))
  BY <1>1, <1>3 DEF Confirming, Open
<1>8. BundleInv(b)'
  <2>1. /\ \A v \in Tracker : v # t => action'[v][b] = action[v][b]
        /\ action'[t][b].state \notin Early
        /\ action'[t][b].state = "propagate" => action[t][b].state = "propagate"
    BY <1>2
  <2>2. \A v \in Tracker : \A x \in stored'[v] \cap TxsOf(b) :
            x \in stored[v] \/ (x \in Known(b) /\ Open(b) /\ Decided(b)' /\ AllVouched(b))
    OBVIOUS
  <2>3. \A x \in TxsOf(b) : response'[x] = response[x]
    OBVIOUS
  <2>4. vouched[b] \subseteq vouched'[b] /\ started' = started
    OBVIOUS
  <2>5. Race(b)'
    <3>1. SUFFICES ASSUME Waiting(b)'
                   PROVE  Race(b)'
      BY DEF Race
    <3>2. Waiting(b)
      <4>1. OriginState(b) = "propagate"
        BY <2>1, <3>1 DEF Waiting, OriginState
      <4> QED
        BY <3>1, <4>1 DEF Waiting
    <3>3. Steady(t, b, targets, m)
      BY <3>1, <3>2
    <3>4. \A v, w \in Tracker : \A n \in Sent(v, w)' :
              n.about = b => n \in Sent(v, w) \/ Honest(v, w, n, b)'
      BY <1>3, <3>3 DEF Steady
    <3> QED
      BY <2>1, <2>4, <3>2, <3>3, <3>4, RaceStep DEF Steady
  <2> QED
    BY <1>5, <1>7, <2>1, <2>2, <2>3, <2>4, <2>5, LivelyStep
<1> QED
  BY <1>4, <1>6, <1>8 DEF Keeps

\* Messages that are gone are missed by no part of the invariant.
LEMMA LessSent ==
    ASSUME IInv, UNCHANGED <<action, started, response, timers, records, vouched, down>>,
           channel' \in Channels, \A t, u \in Tracker : Sent(t, u)' \subseteq Sent(t, u)
    PROVE  IInv'
<1>1. TypeOK'
  BY DEF IInv, TypeOK, Channels, records
<1>2. \A c \in Bundle : Untouched(c)
  BY DEF Untouched, TimersKeep, records
<1> QED
  BY <1>1, <1>2, OtherBundle DEF IInv

-----------------------------------------------------------------------------
(* What the operations do to timers, channels and records                  *)

LEMMA TimersStep ==
    ASSUME TypeOK, NEW t \in Tracker, NEW b \in Bundle,
           \/ timers' \in {timers, WithoutTimers(t, b), Append(timers, <<t, b>>)}
           \/ /\ timers # <<>> /\ Head(timers) = <<t, b>>
              /\ timers' \in {Tail(timers), Append(Tail(timers), <<t, b>>)}
    PROVE  timers' \in Seq(Tracker \X Bundle) /\ \A c \in Bundle : c # b => TimersKeep(c)
<1> DEFINE S == Tracker \X Bundle
           e == <<t, b>>
<1>0. e \in S /\ timers \in Seq(S) /\ \A c \in Bundle : c # b => e \notin About(c)
  BY DEF TypeOK, About
<1>1. \A c \in Bundle : OriginOf[c] \in Tracker /\ <<OriginOf[c], c>> \in About(c)
  BY ValidateTransactionsAssumption DEF About
<1> HIDE DEF S, e
<1>2. CASE timers' = timers
  BY <1>0, <1>2 DEF TimersKeep, S
<1>3. CASE timers' = Without(timers, e)
  BY <1>0, <1>1, <1>3, WithoutOrder DEF TimersKeep, S
<1>4. CASE timers' = Append(timers, e)
  BY <1>0, <1>1, <1>4, AppendOrder DEF TimersKeep, S
<1>5. ASSUME timers # <<>>, Head(timers) = e
      PROVE  /\ Tail(timers) \in Seq(S)
             /\ \A c \in Bundle : c # b =>
                    /\ Silent(timers, About(c)) => Silent(Tail(timers), About(c))
                    /\ Begins(timers, About(c), <<OriginOf[c], c>>) =>
                           Begins(Tail(timers), About(c), <<OriginOf[c], c>>)
  BY <1>0, <1>1, <1>5, TailOrder
<1>6. CASE timers # <<>> /\ Head(timers) = e /\ timers' = Tail(timers)
  BY <1>5, <1>6 DEF TimersKeep, S
<1>7. CASE timers # <<>> /\ Head(timers) = e /\ timers' = Append(Tail(timers), e)
  <2> DEFINE r == Tail(timers)
  <2>1. r \in Seq(S)
    BY <1>5, <1>7
  <2> HIDE DEF r
  <2>2. /\ Append(r, e) \in Seq(S)
        /\ \A B : e \notin B /\ Silent(r, B) => Silent(Append(r, e), B)
        /\ \A B, f : Begins(r, B, f) => Begins(Append(r, e), B, f)
    BY <1>0, <2>1, AppendOrder
  <2> QED
    BY <1>0, <1>5, <1>7, <2>2 DEF TimersKeep, S, r
<1> QED
  BY <1>2, <1>3, <1>4, <1>6, <1>7 DEF WithoutTimers, e

LEMMA TakenIs ==
    ASSUME TypeOK, NEW t \in Tracker, NEW u \in Tracker, channel[u][t] # <<>>
    PROVE  /\ Taken(t, u) \in Channels
           /\ Head(channel[u][t]) \in Message /\ Head(channel[u][t]) \in Sent(u, t)
           /\ \A v, w \in Tracker : Content(Taken(t, u), v, w) \subseteq Sent(v, w)
<1>1. channel \in Channels
  BY DEF TypeOK, Channels
<1> QED
  BY <1>1, TakenContent DEF Taken, Sent

LEMMA SendSays ==
    ASSUME NEW ch \in Channels, NEW t \in Tracker, NEW targets, NEW m \in Message,
           \A v, w \in Tracker : Content(ch, v, w) \subseteq Sent(v, w),
           channel' = Send(ch, t, targets, m)
    PROVE  Says(t, targets, m)
BY SendContent DEF Says, Sent

LEMMA NothingSaid ==
    ASSUME channel' \in Channels, \A v, w \in Tracker : Content(channel', v, w) \subseteq Sent(v, w),
           NEW t, NEW m
    PROVE  Says(t, {}, m)
BY DEF Says, Sent

LEMMA StatusIs ==
    ASSUME NEW b \in Bundle, NEW k \in Kind
    PROVE  /\ Status(k, b) \in Message /\ Status(k, b).about = b
           /\ Status(k, b).kind = k /\ Status(k, b).txs = {} /\ Status(k, b).path = {}
BY DEF Status, Message

LEMMA NoActionIs ==
    ASSUME NEW t \in Tracker, NEW b \in Bundle
    PROVE  /\ NoAction(t, b) \in Action /\ NoAction(t, b).state = "none"
           /\ NoAction(t, b).txs = {} /\ NoAction(t, b).message.txs = {}
           /\ NoAction(t, b).message.about = b
           /\ NoAction(t, b).message.kind = "Transactions"
BY DEF NoAction, Action, Message, Kind

\* The three ways CApproved ends
LEMMA ApproveIs ==
    ASSUME TypeOK, NEW t \in Tracker, NEW b \in Bundle, NEW a \in Action,
           NEW before, NEW after, Approve(t, b, a, before, after)
    PROVE  /\ timers' = WithoutTimers(t, b)
           /\ coins' \in [Tracker -> SUBSET Output] /\ nulled' \in [Tracker -> SUBSET Output]
           /\ stored' \in [Tracker -> SUBSET Tx]
           /\ down \subseteq down' /\ down' \subseteq Tracker
           /\ \/ /\ Become(t, b, [a EXCEPT !.state = "approved"]) /\ channel' = after
                 /\ down' = down /\ \A v \in Tracker : stored'[v] \subseteq stored[v] \cup a.txs
              \/ Exit(t, b) /\ channel' = after /\ down' = down /\ stored' = stored
              \/ action' = action /\ channel' = before /\ stored' = stored /\ t \in down'
<1> USE ValidateTransactionsAssumption
<1> DEFINE X == a.txs
           missing == {x \in X : \E o \in Spends[x] : ~ HasRecord(t, o)}
           cut == {x \in X : \E o \in Spends[x] : HasRecord(t, o) /\ ~ InRecord(t, o)}
           First(x) == \A y \in missing \cup cut : ~ Before(y, x)
<1>0. /\ X \subseteq Tx /\ coins \in [Tracker -> SUBSET Output]
      /\ nulled \in [Tracker -> SUBSET Output] /\ stored \in [Tracker -> SUBSET Tx]
      /\ down \subseteq Tracker
  BY DEF TypeOK, Action
<1>1. \A Y \in SUBSET Tx : Spent(Y) \subseteq Output /\ Made(Y) \subseteq Output
  BY DEF Spent, Made
<1>2. timers' = WithoutTimers(t, b)
  BY DEF Approve
<1>3. CASE /\ coins' = [coins EXCEPT ![t] = (@ \ (nulled[t] \cup Spent(X))) \cup Made(X)]
           /\ nulled' = [nulled EXCEPT ![t] = {}]
           /\ stored' = [stored EXCEPT ![t] = @ \cup X]
           /\ Become(t, b, [a EXCEPT !.state = "approved"])
           /\ channel' = after
           /\ UNCHANGED down
  BY <1>0, <1>1, <1>2, <1>3
<1>4. CASE \E x \in missing :
                /\ First(x)
                /\ \E part \in SUBSET {o \in Spends[x] : InRecord(t, o)} :
                     nulled' = [nulled EXCEPT ![t] =
                                    @ \cup Spent({y \in X : Before(y, x)}) \cup part]
                /\ Exit(t, b)
                /\ channel' = after
                /\ UNCHANGED <<coins, stored, down>>
  <2>1. PICK x \in missing :
                /\ \E part \in SUBSET {o \in Spends[x] : InRecord(t, o)} :
                     nulled' = [nulled EXCEPT ![t] =
                                    @ \cup Spent({y \in X : Before(y, x)}) \cup part]
                /\ Exit(t, b)
                /\ channel' = after
                /\ UNCHANGED <<coins, stored, down>>
    BY <1>4
  <2>2. PICK part \in SUBSET {o \in Spends[x] : InRecord(t, o)} :
                     nulled' = [nulled EXCEPT ![t] =
                                    @ \cup Spent({y \in X : Before(y, x)}) \cup part]
    BY <2>1
  <2>3. part \subseteq Output /\ Spent({y \in X : Before(y, x)}) \subseteq Output
    BY <1>0, <1>1
  <2>4. nulled' \in [Tracker -> SUBSET Output]
    BY <1>0, <2>2, <2>3
  <2> QED
    BY <1>0, <1>2, <2>1, <2>4
<1>5. CASE /\ \E x \in cut : First(x)
           /\ down' = down \cup {t}
           /\ channel' = before
           /\ UNCHANGED <<records, action>>
  BY <1>0, <1>2, <1>5 DEF records
<1> QED
  BY <1>3, <1>4, <1>5 DEF Approve

-----------------------------------------------------------------------------
(* The steps of a tracker that gets the bundle                             *)

LEMMA KnownHas ==
    ASSUME IInv, NEW b \in Bundle, NEW t \in Tracker
    PROVE  /\ action[t][b] \in Action /\ Formed(t, b)
           /\ action[t][b].txs \cup action[t][b].message.txs \subseteq Known(b)
           /\ \A u \in Tracker : \A m \in Sent(t, u) :
                 m \in Message /\ (m.about = b => m.txs \subseteq Known(b) /\ Lively(b))
<1>1. action[t][b] \in Action /\ Formed(t, b)
  BY DEF IInv, TypeOK, BundleInv, Shape
<1>2. action[t][b].txs \cup action[t][b].message.txs \subseteq Known(b)
  BY <1>1 DEF Known, Action, Message
<1>3. ASSUME NEW u \in Tracker, NEW m \in Sent(t, u)
      PROVE  m \in Message /\ (m.about = b => m.txs \subseteq Known(b) /\ Lively(b))
  <2>1. m \in Message
    <3>1. channel[t][u] \in Seq(Message)
      BY DEF IInv, TypeOK
    <3> QED
      BY <3>1 DEF Sent, Content
  <2> QED
    BY <2>1, LivelyIs DEF Known, Message
<1> QED
  BY <1>1, <1>2, <1>3

\* The action stays as it is, a message may be taken.
LEMMA IdleKeeps ==
    ASSUME IInv, NEW b \in Bundle, NEW t \in Tracker, Lively(b),
           UNCHANGED <<action, started, response, vouched, stored>>,
           coins' \in [Tracker -> SUBSET Output], nulled' \in [Tracker -> SUBSET Output],
           down \subseteq down', down' \subseteq Tracker, channel' \in Channels,
           \A v, w \in Tracker : Content(channel', v, w) \subseteq Sent(v, w),
           timers' \in Seq(Tracker \X Bundle), \A c \in Bundle : c # b => TimersKeep(c),
           Waiting(b) /\ Waiting(b)' =>
               /\ Begins(timers, About(b), <<OriginOf[b], b>>) =>
                      Begins(timers', About(b), <<OriginOf[b], b>>)
    PROVE  Keeps(b)
<1> DEFINE a == action[t][b]
           m == Status("NotValid", b)
<1>1. a \in Action /\ Formed(t, b) /\ a.txs \cup a.message.txs \subseteq Known(b)
  BY KnownHas
<1>2. m \in Message /\ m.about = b /\ m.kind = "NotValid" /\ m.txs = {}
  BY StatusIs DEF Kind
<1>3. Says(t, {}, m)
  BY NothingSaid
<1>4. TypeOK /\ Turns(t, b, a)
  BY DEF IInv, TypeOK, Turns
<1>5. Formed(t, b)' /\ a.state \notin Early
  BY <1>1 DEF Formed, Lively, OriginState
<1>6. a.state = "passChecked" => a.invalid \subseteq a.txs
  BY <1>4 DEF TypeOK
<1>7. Waiting(b) /\ Waiting(b)' => Steady(t, b, {}, m)
  <2>1. SUFFICES ASSUME Waiting(b), Waiting(b)'
                 PROVE  Steady(t, b, {}, m)
    OBVIOUS
  <2>2. Race(b)
    BY DEF IInv, BundleInv
  <2>3. Loyal(t, b) /\ (t = OriginOf[b] => PeersOf[t] \ a.partners \subseteq vouched[b])
    BY <2>1, <2>2 DEF Race
  <2>4. \A v : Passed(v, b)' = Passed(v, b)
    BY DEF Passed
  <2>5. Loyal(t, b)'
    BY <2>3, <2>4 DEF Loyal
  <2> QED
    BY <2>1, <2>3, <2>4, <2>5 DEF Steady
<1>8. vouched' \in [Bundle -> SUBSET Tracker] /\ stored' \in [Tracker -> SUBSET Tx]
  BY <1>4 DEF TypeOK
<1>9. a.txs \cup a.message.txs \cup m.txs \subseteq Known(b)
  BY <1>1, <1>2
<1> HIDE DEF a, m
<1> QED
  BY <1>1, <1>2, <1>3, <1>4, <1>5, <1>6, <1>7, <1>8, <1>9, LivelyKeeps DEF a

LEMMA PassBundleKeeps ==
    ASSUME IInv, NEW t \in Tracker, NEW u \in Tracker, channel[u][t] # <<>>,
           NEW m, m = Head(channel[u][t]), NEW b, b = m.about,
           action[t][b].state \in {"none", "pass", "passChecked"}, PassBundle(t, u, b, m)
    PROVE  Keeps(b)
<1>0. TypeOK
  BY DEF IInv
<1>1. /\ Taken(t, u) \in Channels /\ m \in Message /\ m \in Sent(u, t)
      /\ \A v, w \in Tracker : Content(Taken(t, u), v, w) \subseteq Sent(v, w)
  BY <1>0, TakenIs
<1>2. b \in Bundle
  BY <1>1 DEF Message
<1>3. Lively(b) /\ m.txs \subseteq Known(b)
  BY <1>1, <1>2, KnownHas
<1>4. channel' = Taken(t, u) /\ UNCHANGED <<started, response, timers, records, vouched>>
  BY DEF PassBundle
<1>5. /\ coins' \in [Tracker -> SUBSET Output] /\ nulled' \in [Tracker -> SUBSET Output]
      /\ stored' \in [Tracker -> SUBSET Tx] /\ vouched' \in [Bundle -> SUBSET Tracker]
      /\ timers' \in Seq(Tracker \X Bundle) /\ \A c \in Bundle : TimersKeep(c)
  BY <1>0, <1>4 DEF TypeOK, TimersKeep, records
<1>6. CASE down' = down \cup {t} /\ UNCHANGED action
  <2>1. down \subseteq down' /\ down' \subseteq Tracker
    BY <1>0, <1>6 DEF TypeOK
  <2> QED
    BY <1>1, <1>2, <1>3, <1>4, <1>5, <1>6, <2>1, IdleKeeps DEF records
<1>7. CASE /\ m.kind \in {"Transactions", "Validated"}
           /\ Become(t, b, [NoAction(t, b) EXCEPT !.state = "pass", !.txs = m.txs,
                                !.initiator = u, !.message = m])
           /\ UNCHANGED down
  <2> DEFINE a == [NoAction(t, b) EXCEPT !.state = "pass", !.txs = m.txs,
                       !.initiator = u, !.message = m]
             n == Status("NotValid", b)
  <2>1. a \in Action /\ a.state = "pass" /\ a.txs = m.txs /\ a.initiator = u /\ a.message = m
    BY <1>1, <1>2 DEF NoAction, Action, Message
  <2> HIDE DEF a
  <2>2. n \in Message /\ n.about = b /\ n.kind = "NotValid" /\ n.txs = {}
    BY <1>2, StatusIs DEF Kind
  <2>3. Says(t, {}, n)
    BY <1>1, <1>4, NothingSaid
  <2>4. Turns(t, b, a)
    BY <1>0, <1>2, <1>7, <2>1, BecomeTurns DEF a
  <2>5. Formed(t, b)' /\ a.state \notin Early
    BY <1>1, <1>7, <2>1, <2>4 DEF Formed, Turns, Early
  <2>6. Waiting(b) => Steady(t, b, {}, n)
    <3>1. SUFFICES ASSUME Waiting(b)
                   PROVE  Steady(t, b, {}, n)
      OBVIOUS
    <3>2. Honest(u, t, m, b)
      BY <1>1, <1>2, <3>1 DEF IInv, BundleInv, Race
    <3>3. t # OriginOf[b] /\ ~ Passed(t, b)
      BY <3>1 DEF Waiting, OriginState, Passed
    <3>4. m.kind = "Transactions" /\ Passed(u, b)
      BY <1>7, <3>2, <3>3 DEF Honest
    <3>5. Passed(u, b)'
      BY <1>2, <2>4, <3>3, <3>4 DEF Turns, Passed
    <3>6. Loyal(t, b)'
      BY <2>1, <2>4, <3>4, <3>5 DEF Turns, Loyal
    <3> QED
      BY <1>4, <3>3, <3>6 DEF Steady
  <2>7. a.txs \cup a.message.txs \cup n.txs \subseteq Known(b)
    BY <1>3, <2>1, <2>2
  <2>8. down \subseteq down' /\ down' \subseteq Tracker
    BY <1>0, <1>7 DEF TypeOK
  <2>9. /\ UNCHANGED <<started, response>> /\ vouched' = vouched /\ stored' = stored
        /\ a.state # "propagate" /\ a.state # "passChecked"
    BY <1>4, <2>1 DEF records
  <2> HIDE DEF n
  <2> QED
    BY <1>2, <1>3, <1>5, <2>1, <2>2, <2>3, <2>4, <2>5, <2>6, <2>7, <2>8, <2>9, LivelyKeeps
<1> QED
  BY <1>6, <1>7 DEF PassBundle

\* What most steps leave alone keeps its type.
LEMMA RestIs ==
    ASSUME TypeOK
    PROVE  /\ UNCHANGED records =>
                  /\ coins' \in [Tracker -> SUBSET Output] /\ nulled' \in [Tracker -> SUBSET Output]
                  /\ stored' \in [Tracker -> SUBSET Tx] /\ stored' = stored
           /\ UNCHANGED vouched => vouched' \in [Bundle -> SUBSET Tracker]
           /\ UNCHANGED down => down \subseteq down' /\ down' \subseteq Tracker
           /\ UNCHANGED channel =>
                  /\ channel' \in Channels
                  /\ \A v, w \in Tracker : Content(channel', v, w) \subseteq Sent(v, w)
BY DEF TypeOK, records, Channels, Sent

\* Validate of a tracker that got the bundle
LEMMA ValidatePassKeeps ==
    ASSUME IInv, NEW t \in Tracker, NEW b \in Bundle, In(t, b, "pass"), Validate(t, b)
    PROVE  Keeps(b)
<1> DEFINE o == action[t][b]
           a == [o EXCEPT !.state = "passChecked", !.invalid = InvalidTransactions(t, o.txs)]
           n == Status("NotValid", b)
<1>0. TypeOK /\ o.state = "pass"
  BY DEF IInv, In
<1>1. o \in Action /\ Formed(t, b) /\ o.txs \cup o.message.txs \subseteq Known(b)
  BY KnownHas
<1>2. Lively(b)
  BY <1>0, LivelyIs DEF Early
<1>3. /\ Become(t, b, a)
      /\ UNCHANGED <<started, response, channel, timers, records, vouched, down>>
  BY <1>0 DEF Validate, In
<1>4. /\ a \in Action /\ a.state = "passChecked" /\ a.txs = o.txs /\ a.message = o.message
      /\ a.initiator = o.initiator /\ a.invalid \subseteq a.txs
  BY <1>1 DEF Action, InvalidTransactions
<1> HIDE DEF a
<1>5. Turns(t, b, a)
  BY <1>0, <1>3, <1>4, BecomeTurns
<1>6. n \in Message /\ n.about = b /\ n.kind = "NotValid" /\ n.txs = {}
  BY StatusIs DEF Kind
<1>7. Says(t, {}, n)
  BY <1>0, <1>3, RestIs, NothingSaid
<1>8. Formed(t, b)' /\ a.state \notin Early
  BY <1>1, <1>4, <1>5 DEF Formed, Turns, Early
<1>9. Waiting(b) => Steady(t, b, {}, n)
  <2>1. SUFFICES ASSUME Waiting(b)
                 PROVE  Steady(t, b, {}, n)
    OBVIOUS
  <2>2. t # OriginOf[b] /\ ~ Passed(t, b)
    BY <1>0, <2>1 DEF Waiting, OriginState, Passed
  <2>3. PICK u \in Tracker : u = o.initiator /\ o.message.kind = "Transactions" /\ Passed(u, b)
    BY <1>0, <1>1, <2>1 DEF IInv, BundleInv, Race, Loyal, Action
  <2>4. Passed(u, b)'
    BY <1>5, <2>2, <2>3 DEF Turns, Passed
  <2>5. Loyal(t, b)'
    BY <1>4, <1>5, <2>3, <2>4 DEF Turns, Loyal
  <2> QED
    BY <1>3, <2>2, <2>5 DEF Steady
<1>10. timers' \in Seq(Tracker \X Bundle) /\ \A c \in Bundle : TimersKeep(c)
  BY <1>0, <1>3 DEF TypeOK, TimersKeep
<1>11. a.txs \cup a.message.txs \cup n.txs \subseteq Known(b)
  BY <1>1, <1>4, <1>6
<1>12. /\ UNCHANGED <<started, response>> /\ vouched' = vouched
       /\ a.state # "propagate"
  BY <1>3, <1>4
<1> HIDE DEF n
<1> QED
  BY <1>0, <1>2, <1>3, <1>4, <1>5, <1>6, <1>7, <1>8, <1>9, <1>10, <1>11, <1>12, RestIs, LivelyKeeps

\* A step that changes one action and says nothing
LEMMA ChangeKeeps ==
    ASSUME IInv, NEW b \in Bundle, NEW t \in Tracker, Lively(b),
           NEW a \in Action, Become(t, b, a), a.state \notin Early,
           a.state = "propagate" => action[t][b].state = "propagate"
                                    /\ a.message = action[t][b].message,
           a.state # "passChecked", a.state = "none" => a = NoAction(t, b),
           a.message.about = b, a.message.kind \in {"Transactions", "Validated"},
           a.txs \cup a.message.txs \subseteq Known(b),
           channel' \in Channels,
           \A v, w \in Tracker : Content(channel', v, w) \subseteq Sent(v, w),
           UNCHANGED <<started, response, records, vouched, down>>,
           timers' \in Seq(Tracker \X Bundle), \A c \in Bundle : c # b => TimersKeep(c),
           Waiting(b) /\ Waiting(b)' => Steady(t, b, {}, Status("NotValid", b))
    PROVE  Keeps(b)
<1> DEFINE n == Status("NotValid", b)
<1>0. TypeOK
  BY DEF IInv
<1>1. Turns(t, b, a)
  BY <1>0, BecomeTurns
<1>2. n \in Message /\ n.about = b /\ n.kind = "NotValid" /\ n.txs = {}
  BY StatusIs DEF Kind
<1>3. Says(t, {}, n)
  BY NothingSaid
<1>4. Formed(t, b)'
  <2>1. a.state = "propagate" => t = OriginOf[b] /\ b \in started /\ a.message.txs = {}
    BY KnownHas DEF Formed
  <2> QED
    BY <1>1, <2>1 DEF Turns, Formed
<1>5. a.txs \cup a.message.txs \cup n.txs \subseteq Known(b)
  BY <1>2
<1>6. /\ coins' \in [Tracker -> SUBSET Output] /\ nulled' \in [Tracker -> SUBSET Output]
      /\ stored' \in [Tracker -> SUBSET Tx] /\ stored' = stored
      /\ vouched' \in [Bundle -> SUBSET Tracker] /\ down \subseteq down' /\ down' \subseteq Tracker
      /\ \A c \in Bundle : vouched'[c] = vouched[c] /\ vouched[c] \subseteq vouched'[c]
  BY <1>0, RestIs
<1> HIDE DEF n
<1> QED
  BY <1>1, <1>2, <1>3, <1>4, <1>5, <1>6, LivelyKeeps DEF n

LEMMA PassValidatedKeeps ==
    ASSUME IInv, NEW t \in Tracker, NEW b \in Bundle, PassValidated(t, b)
    PROVE  Keeps(b)
<1> DEFINE o == action[t][b]
<1>0. TypeOK /\ o.state = "passChecked"
  BY DEF IInv, PassValidated, In
<1>1. o \in Action /\ Formed(t, b) /\ o.txs \cup o.message.txs \subseteq Known(b)
  BY KnownHas
<1>2. Lively(b)
  BY <1>0, LivelyIs DEF Early
<1>3. UNCHANGED <<started, response, records, vouched, down>>
  BY DEF PassValidated
<1>4. Waiting(b) => t # OriginOf[b] /\ ~ Passed(t, b)
  BY <1>0 DEF Waiting, OriginState, Passed
<1>5. /\ coins' \in [Tracker -> SUBSET Output] /\ nulled' \in [Tracker -> SUBSET Output]
      /\ stored' \in [Tracker -> SUBSET Tx] /\ stored' = stored
      /\ vouched' \in [Bundle -> SUBSET Tracker] /\ down \subseteq down' /\ down' \subseteq Tracker
      /\ \A c \in Bundle : vouched'[c] = vouched[c] /\ vouched[c] \subseteq vouched'[c]
  BY <1>0, <1>3, RestIs
<1>6. channel \in Channels /\ \A v, w \in Tracker : Content(channel, v, w) \subseteq Sent(v, w)
  BY <1>0 DEF TypeOK, Channels, Sent
<1>7. CASE PassBundleInvalidate(t, b, o)
  <2> DEFINE a == NoAction(t, b)
             m == Status("NotValid", b)
  <2>1. /\ a \in Action /\ a.state = "none" /\ a.txs = {} /\ a.message.txs = {}
        /\ a.message.about = b /\ a.message.kind = "Transactions"
    BY NoActionIs
  <2>2. m \in Message /\ m.about = b /\ m.kind = "NotValid" /\ m.txs = {}
    BY StatusIs DEF Kind
  <2>3. Says(t, {o.initiator}, m)
    BY <1>6, <1>7, <2>2, SendSays DEF PassBundleInvalidate
  <2>4. Turns(t, b, a)
    BY <1>0, <1>7, <2>1, BecomeTurns DEF PassBundleInvalidate, Exit
  <2> HIDE DEF a, m
  <2>5. Formed(t, b)' /\ a.state \notin Early
    BY <2>1, <2>4 DEF Formed, Turns, Early, a
  <2>6. timers' = timers
    BY <1>7 DEF PassBundleInvalidate
  <2>7. timers' \in Seq(Tracker \X Bundle) /\ \A c \in Bundle : TimersKeep(c)
    BY <1>0, <2>6 DEF TypeOK, TimersKeep
  <2>8. Waiting(b) => Steady(t, b, {o.initiator}, m)
    <3>1. Loyal(t, b)'
      BY <2>1, <2>4 DEF Turns, Loyal
    <3>2. Wrapped(m, t).kind = "NotValid"
      BY <2>2, WrappedIs
    <3>3. \A w : Honest(t, w, Wrapped(m, t), b)'
      BY <3>2 DEF Honest
    <3> QED
      BY <1>4, <2>6, <3>1, <3>3 DEF Steady
  <2>9. a.txs \cup a.message.txs \cup m.txs \subseteq Known(b) /\ a.state # "propagate"
        /\ a.state # "passChecked"
    BY <2>1, <2>2
  <2> QED
    BY <1>2, <1>3, <1>5, <2>1, <2>2, <2>3, <2>4, <2>5, <2>7, <2>8, <2>9, LivelyKeeps
<1>8. CASE BroadcastBundle(t, b, o)
  <2> DEFINE others == PeersOf[t] \ {o.initiator}
             a == [o EXCEPT !.state = "broadcast", !.partners = others]
  <2>1. /\ a \in Action /\ a.state = "broadcast" /\ a.txs = o.txs /\ a.message = o.message
        /\ a.initiator = o.initiator
    BY <1>1, ValidateTransactionsAssumption DEF Action
  <2>2. PICK m \in Message : m = o.message /\ m.about = b /\ m.kind \in {"Transactions", "Validated"}
    BY <1>1 DEF Action, Formed
  <2>3. PICK targets : targets = others
    OBVIOUS
  <2>4. Says(t, targets, m)
    BY <1>6, <1>8, <2>2, <2>3, SendSays DEF BroadcastBundle
  <2>5. Turns(t, b, a)
    BY <1>0, <1>8, <2>1, BecomeTurns DEF BroadcastBundle
  <2> HIDE DEF a
  <2>6. Formed(t, b)' /\ a.state \notin Early
    BY <2>1, <2>2, <2>5 DEF Formed, Turns, Early
  <2>7. timers' = Append(timers, <<t, b>>)
    BY <1>8 DEF BroadcastBundle
  <2>8. timers' \in Seq(Tracker \X Bundle) /\ \A c \in Bundle : c # b => TimersKeep(c)
    BY <1>0, <2>7, TimersStep
  <2>9. Waiting(b) => Steady(t, b, targets, m)
    <3>1. SUFFICES ASSUME Waiting(b)
                   PROVE  Steady(t, b, targets, m)
      OBVIOUS
    <3>2. PICK u \in Tracker : u = o.initiator /\ o.message.kind = "Transactions" /\ Passed(u, b)
      BY <1>0, <1>1, <3>1 DEF IInv, BundleInv, Race, Loyal, Action
    <3>3. Passed(u, b)' /\ Passed(t, b)'
      BY <1>4, <2>1, <2>5, <3>1, <3>2 DEF Turns, Passed
    <3>4. Loyal(t, b)'
      BY <2>1, <2>5, <3>2, <3>3 DEF Turns, Loyal
    <3>5. Wrapped(m, t).kind = "Transactions"
      BY <2>2, <3>2, WrappedIs
    <3>6. \A w : Honest(t, w, Wrapped(m, t), b)'
      BY <3>3, <3>5 DEF Honest
    <3>7. \A B, f : Begins(timers, B, f) => Begins(timers', B, f)
      <4>1. timers \in Seq(Tracker \X Bundle) /\ <<t, b>> \in Tracker \X Bundle
        BY <1>0 DEF TypeOK
      <4> QED
        BY <2>7, <4>1, AppendOrder
    <3> QED
      BY <1>4, <3>1, <3>4, <3>6, <3>7 DEF Steady
  <2>10. a.txs \cup a.message.txs \cup m.txs \subseteq Known(b) /\ a.state # "propagate"
         /\ a.state # "passChecked" /\ m.kind # "Confirmed"
    BY <1>1, <2>1, <2>2
  <2> QED
    BY <1>2, <1>3, <1>5, <2>1, <2>2, <2>4, <2>5, <2>6, <2>8, <2>9, <2>10, LivelyKeeps
<1> QED
  BY <1>7, <1>8 DEF PassValidated

\* A tracker that has passed the bundle on vouches for it.
LEMMA VouchKeeps ==
    ASSUME IInv, NEW t \in Tracker, NEW b \in Bundle, action[t][b].state = "broadcast",
           NEW a \in Action, a.txs = action[t][b].txs, a.message = action[t][b].message,
           a.initiator = action[t][b].initiator,
           NEW ch \in Channels, \A v, w \in Tracker : Content(ch, v, w) \subseteq Sent(v, w),
           NEW left, left = timers \/ (timers # <<>> /\ Head(timers) = <<t, b>> /\ left = Tail(timers)),
           NEW targets, PassBundleValidate(t, b, a, ch, left, targets),
           Waiting(b) => left = timers /\ targets = {a.initiator},
           UNCHANGED <<started, response, records, down>>
    PROVE  Keeps(b)
<1> DEFINE c == [a EXCEPT !.state = "validate"]
           m == Status("Validated", b)
<1>0. TypeOK
  BY DEF IInv
<1>1. Formed(t, b) /\ a.txs \cup a.message.txs \subseteq Known(b)
  BY KnownHas
<1>2. Lively(b)
  BY LivelyIs DEF Early
<1>3. /\ c \in Action /\ c.state = "validate" /\ c.txs = a.txs /\ c.message = a.message
      /\ c.initiator = a.initiator
  BY DEF Action
<1>4. m \in Message /\ m.about = b /\ m.kind = "Validated" /\ m.txs = {} /\ m.path = {}
  BY StatusIs DEF Kind
<1>5. Says(t, targets, m)
  BY <1>4, SendSays DEF PassBundleValidate
<1>6. Turns(t, b, c)
  BY <1>0, <1>3, BecomeTurns DEF PassBundleValidate
<1> HIDE DEF c, m
<1>7. Formed(t, b)' /\ c.state \notin Early
  BY <1>1, <1>3, <1>6 DEF Formed, Turns, Early
<1>8. timers' = Append(left, <<t, b>>)
  BY DEF PassBundleValidate
<1>9. timers' \in Seq(Tracker \X Bundle) /\ \A d \in Bundle : d # b => TimersKeep(d)
  BY <1>0, <1>8, TimersStep
<1>10. /\ vouched' \in [Bundle -> SUBSET Tracker] /\ t \in vouched'[b]
       /\ \A d \in Bundle : vouched[d] \subseteq vouched'[d] /\ (d # b => vouched'[d] = vouched[d])
  BY <1>0 DEF PassBundleValidate, TypeOK
<1>11. Waiting(b) => Steady(t, b, targets, m)
  <2>1. SUFFICES ASSUME Waiting(b)
                 PROVE  Steady(t, b, targets, m)
    OBVIOUS
  <2>2. Loyal(t, b) /\ t # OriginOf[b] /\ Passed(t, b)
    BY <2>1 DEF IInv, BundleInv, Race, Waiting, OriginState, Passed
  <2>3. PICK u \in Tracker : u = a.initiator /\ a.message.kind = "Transactions" /\ Passed(u, b)
    BY <2>2 DEF Loyal, Action
  <2>4. Passed(u, b)' /\ Passed(t, b)'
    BY <1>3, <1>6, <2>3 DEF Turns, Passed
  <2>5. Loyal(t, b)'
    BY <1>3, <1>6, <2>3, <2>4 DEF Turns, Loyal
  <2>6. Wrapped(m, t).kind = "Validated" /\ Wrapped(m, t).path \subseteq vouched'[b]
    BY <1>4, <1>10, WrappedIs
  <2>7. Honest(t, u, Wrapped(m, t), b)'
    BY <2>4, <2>6 DEF Honest
  <2>8. \A B, f : Begins(timers, B, f) => Begins(timers', B, f)
    <3>1. timers \in Seq(Tracker \X Bundle) /\ <<t, b>> \in Tracker \X Bundle
      BY <1>0 DEF TypeOK
    <3> QED
      BY <1>8, <2>1, <3>1, AppendOrder
  <2> QED
    BY <2>1, <2>2, <2>3, <2>4, <2>5, <2>7, <2>8 DEF Steady
<1>12. /\ c.txs \cup c.message.txs \cup m.txs \subseteq Known(b) /\ c.state # "propagate"
       /\ c.state # "passChecked" /\ m.kind # "Confirmed"
  BY <1>1, <1>3, <1>4
<1>13. /\ coins' \in [Tracker -> SUBSET Output] /\ nulled' \in [Tracker -> SUBSET Output]
       /\ stored' \in [Tracker -> SUBSET Tx] /\ stored' = stored
       /\ down \subseteq down' /\ down' \subseteq Tracker
  BY <1>0, RestIs
<1> QED
  BY <1>2, <1>3, <1>4, <1>5, <1>6, <1>7, <1>9, <1>10, <1>11, <1>12, <1>13, LivelyKeeps

LEMMA NoMediumKeeps ==
    ASSUME IInv, NEW t \in Tracker, NEW b \in Bundle, NoMedium(t, b)
    PROVE  Keeps(b)
<1>1. action[t][b] \in Action /\ action[t][b].state = "broadcast"
  BY KnownHas DEF NoMedium, In
<1>2. channel \in Channels /\ \A v, w \in Tracker : Content(channel, v, w) \subseteq Sent(v, w)
  BY DEF IInv, TypeOK, Channels, Sent
<1> QED
  BY <1>1, <1>2, VouchKeeps DEF NoMedium

\* An action that waits takes a message and remembers who signed it.
LEMMA HearKeeps ==
    ASSUME IInv, NEW t \in Tracker, NEW b \in Bundle,
           action[t][b].state \in {"broadcast", "validate"},
           NEW a \in Action, a.state = action[t][b].state, a.txs = action[t][b].txs,
           a.message = action[t][b].message, a.initiator = action[t][b].initiator,
           Become(t, b, a), channel' \in Channels,
           \A v, w \in Tracker : Content(channel', v, w) \subseteq Sent(v, w),
           UNCHANGED <<started, response, timers, records, vouched, down>>
    PROVE  Keeps(b)
<1>0. TypeOK
  BY DEF IInv
<1>1. Formed(t, b) /\ a.txs \cup a.message.txs \subseteq Known(b)
  BY KnownHas
<1>2. Lively(b)
  BY LivelyIs DEF Early
<1>3. Turns(t, b, a)
  BY <1>0, BecomeTurns
<1>4. timers' \in Seq(Tracker \X Bundle) /\ \A c \in Bundle : c # b => TimersKeep(c)
  BY <1>0, TimersStep
<1>5. Waiting(b) => Steady(t, b, {}, Status("NotValid", b))
  <2>1. SUFFICES ASSUME Waiting(b)
                 PROVE  Steady(t, b, {}, Status("NotValid", b))
    OBVIOUS
  <2>2. Loyal(t, b) /\ t # OriginOf[b] /\ Passed(t, b)
    BY <2>1 DEF IInv, BundleInv, Race, Waiting, OriginState, Passed
  <2>3. PICK u \in Tracker : u = a.initiator /\ a.message.kind = "Transactions" /\ Passed(u, b)
    BY <2>2 DEF Loyal, Action
  <2>4. Passed(u, b)' /\ Passed(t, b)'
    BY <1>3, <2>2, <2>3 DEF Turns, Passed
  <2>5. Loyal(t, b)'
    BY <1>3, <2>3, <2>4 DEF Turns, Loyal
  <2> QED
    BY <2>2, <2>4, <2>5 DEF Steady
<1>6. /\ a.state \notin Early /\ a.state # "propagate" /\ a.state # "passChecked"
      /\ a.state # "none" /\ a.message.about = b
      /\ a.message.kind \in {"Transactions", "Validated"}
  BY <1>1 DEF Early, Formed
<1> QED
  BY <1>1, <1>2, <1>4, <1>5, <1>6, ChangeKeeps

LEMMA BroadcastStatusKeeps ==
    ASSUME IInv, NEW t \in Tracker, NEW u \in Tracker, channel[u][t] # <<>>,
           NEW m, m = Head(channel[u][t]), NEW b, b = m.about, BroadcastStatus(t, u, b, m)
    PROVE  Keeps(b)
<1> DEFINE o == action[t][b]
           a == [o EXCEPT !.validated = IF m.kind = "Validated" THEN @ \cup m.path ELSE @]
<1>0. TypeOK
  BY DEF IInv
<1>1. /\ Taken(t, u) \in Channels /\ m \in Message /\ m \in Sent(u, t) /\ b \in Bundle
      /\ \A v, w \in Tracker : Content(Taken(t, u), v, w) \subseteq Sent(v, w)
  BY <1>0, TakenIs DEF Message
<1>2. o \in Action /\ o.state = "broadcast"
  BY <1>1, KnownHas DEF BroadcastStatus, In
<1>3. /\ a \in Action /\ a.state = "broadcast" /\ a.txs = o.txs /\ a.message = o.message
      /\ a.initiator = o.initiator
  BY <1>1, <1>2 DEF Action, Message
<1>4. CASE PassBundleValidate(t, b, a, Taken(t, u), timers, {a.initiator})
  <2> HIDE DEF a
  <2> QED
    BY <1>1, <1>2, <1>3, <1>4, VouchKeeps DEF BroadcastStatus
<1>5. CASE Become(t, b, a) /\ channel' = Taken(t, u) /\ UNCHANGED <<timers, vouched>>
  <2>1. UNCHANGED <<started, response, records, down>>
    BY DEF BroadcastStatus
  <2> HIDE DEF a
  <2> QED
    BY <1>1, <1>2, <1>3, <1>5, <2>1, HearKeeps
<1> QED
  BY <1>4, <1>5 DEF BroadcastStatus

\* CApproved, at the origin or where Confirmed comes: all have vouched.
LEMMA ApproveKeeps ==
    ASSUME IInv, NEW t \in Tracker, NEW b \in Bundle, Lively(b),
           NEW a \in Action, a.txs \cup a.message.txs \subseteq Known(b),
           a.message.about = b, a.message.kind \in {"Transactions", "Validated"},
           NEW ch \in Channels, \A v, w \in Tracker : Content(ch, v, w) \subseteq Sent(v, w),
           NEW m \in Message, m.about = b, m.txs \subseteq Known(b), NEW targets,
           Approve(t, b, a, ch, Send(ch, t, targets, m)),
           UNCHANGED <<started, response, vouched>>,
           Open(b), AllVouched(b), t = OriginOf[b] \/ Decided(b)
    PROVE  Keeps(b)
<1> DEFINE Approved == [a EXCEPT !.state = "approved"]
<1>0. TypeOK
  BY DEF IInv
<1>1. /\ timers' = WithoutTimers(t, b)
      /\ coins' \in [Tracker -> SUBSET Output] /\ nulled' \in [Tracker -> SUBSET Output]
      /\ stored' \in [Tracker -> SUBSET Tx] /\ down \subseteq down' /\ down' \subseteq Tracker
  BY <1>0, ApproveIs
<1>2. timers' \in Seq(Tracker \X Bundle) /\ \A c \in Bundle : c # b => TimersKeep(c)
  BY <1>0, <1>1, TimersStep
<1>3. /\ vouched' \in [Bundle -> SUBSET Tracker]
      /\ \A c \in Bundle : vouched'[c] = vouched[c] /\ vouched[c] \subseteq vouched'[c]
  BY <1>0, RestIs
<1>4. ASSUME NEW c \in Action, Turns(t, b, c), c.state \in {"none", "approved"},
             c.state = "none" => c = NoAction(t, b), channel' = Send(ch, t, targets, m),
             c.message.about = b, c.message.kind \in {"Transactions", "Validated"},
             c.txs \cup c.message.txs \subseteq Known(b),
             \A v \in Tracker : stored'[v] \subseteq stored[v] \cup c.txs
      PROVE  Keeps(b)
  <2>1. Says(t, targets, m)
    BY <1>4, SendSays
  <2>2. Formed(t, b)' /\ c.state \notin Early /\ c.state # "propagate" /\ c.state # "passChecked"
    BY <1>4 DEF Formed, Turns, Early
  <2>3. Decided(b)'
    <3>1. CASE t = OriginOf[b]
      BY <1>4, <2>2, <3>1 DEF Decided, Turns, OriginState, Lively
    <3>2. CASE t # OriginOf[b] /\ Decided(b)
      <4>1. OriginOf[b] \in Tracker
        BY ValidateTransactionsAssumption
      <4> QED
        BY <1>1, <1>4, <3>2, <4>1 DEF Decided, Turns, OriginState
    <3> QED
      BY <3>1, <3>2
  <2>4. ~ Waiting(b)'
    BY <2>3 DEF Decided, Waiting
  <2>5. \A v \in Tracker : \A x \in stored'[v] :
            x \in stored[v] \/ (x \in c.txs /\ Open(b) /\ Decided(b)' /\ AllVouched(b))
    BY <1>4, <2>3
  <2>6. c.txs \cup c.message.txs \cup m.txs \subseteq Known(b)
    BY <1>4
  <2> QED
    BY <1>1, <1>2, <1>3, <1>4, <2>1, <2>2, <2>3, <2>4, <2>5, <2>6, LivelyKeeps
<1>5. CASE /\ Become(t, b, Approved) /\ channel' = Send(ch, t, targets, m)
           /\ \A v \in Tracker : stored'[v] \subseteq stored[v] \cup a.txs
  <2>1. /\ Approved \in Action /\ Approved.state = "approved" /\ Approved.txs = a.txs
        /\ Approved.message = a.message
    BY DEF Action
  <2> HIDE DEF Approved
  <2>2. Turns(t, b, Approved)
    BY <1>0, <1>5, <2>1, BecomeTurns
  <2> QED
    BY <1>4, <1>5, <2>1, <2>2
<1>6. CASE Exit(t, b) /\ channel' = Send(ch, t, targets, m) /\ stored' = stored
  <2> DEFINE c == NoAction(t, b)
  <2>1. /\ c \in Action /\ c.state = "none" /\ c.txs = {} /\ c.message.txs = {}
        /\ c.message.about = b /\ c.message.kind = "Transactions"
    BY NoActionIs
  <2>2. Turns(t, b, c)
    BY <1>0, <1>6, <2>1, BecomeTurns DEF Exit
  <2> HIDE DEF c
  <2>3. \A v \in Tracker : stored'[v] \subseteq stored[v] \cup c.txs
    BY <1>6
  <2> QED
    BY <1>4, <1>6, <2>1, <2>2, <2>3 DEF c
<1>7. CASE action' = action /\ channel' = ch /\ stored' = stored /\ t \in down'
  <2>1. ~ Waiting(b)'
    <3>1. CASE t = OriginOf[b]
      BY <1>7, <3>1 DEF Waiting
    <3>2. CASE Decided(b)
      BY <1>1, <1>7, <3>2 DEF Waiting, Decided, OriginState
    <3> QED
      BY <3>1, <3>2
  <2> QED
    BY <1>1, <1>2, <1>7, <2>1, IdleKeeps
<1> QED
  BY <1>0, <1>5, <1>6, <1>7, ApproveIs

LEMMA ValidateStatusKeeps ==
    ASSUME IInv, NEW t \in Tracker, NEW u \in Tracker, channel[u][t] # <<>>,
           NEW m, m = Head(channel[u][t]), NEW b, b = m.about, ValidateStatus(t, u, b, m)
    PROVE  Keeps(b)
<1> DEFINE o == action[t][b]
           a == [o EXCEPT !.exceptions = @ \cup m.path]
<1>0. TypeOK
  BY DEF IInv
<1>1. /\ Taken(t, u) \in Channels /\ m \in Message /\ m \in Sent(u, t) /\ b \in Bundle
      /\ \A v, w \in Tracker : Content(Taken(t, u), v, w) \subseteq Sent(v, w)
  BY <1>0, TakenIs DEF Message
<1>2. /\ o \in Action /\ Formed(t, b) /\ o.state = "validate"
      /\ o.txs \cup o.message.txs \subseteq Known(b) /\ Lively(b) /\ m.txs \subseteq Known(b)
  BY <1>1, KnownHas DEF ValidateStatus, In
<1>3. /\ a \in Action /\ a.state = "validate" /\ a.txs = o.txs /\ a.message = o.message
      /\ a.initiator = o.initiator
  BY <1>1, <1>2 DEF Action, Message
<1>4. a.message.about = b /\ a.message.kind \in {"Transactions", "Validated"}
  BY <1>2, <1>3 DEF Formed
<1>5. UNCHANGED <<started, response, vouched>>
  BY DEF ValidateStatus
<1>6. CASE m.kind = "Confirmed" /\ Approve(t, b, a, Taken(t, u),
                         Send(Taken(t, u), t, PeersOf[t] \ a.exceptions, m))
  <2>1. Confirming(b)
    BY <1>1, <1>6 DEF Confirming
  <2>2. Open(b) /\ Decided(b) /\ AllVouched(b)
    BY <1>1, <2>1 DEF Open, IInv, BundleInv, ConfirmedLate
  <2> HIDE DEF a
  <2> QED
    BY <1>1, <1>2, <1>3, <1>4, <1>5, <1>6, <2>2, ApproveKeeps
<1>7. CASE channel' = Taken(t, u) /\ Become(t, b, a) /\ UNCHANGED <<timers, records, down>>
  <2> HIDE DEF a
  <2> QED
    BY <1>1, <1>2, <1>3, <1>5, <1>7, HearKeeps
<1> QED
  BY <1>6, <1>7 DEF ValidateStatus

\* An action ends, without a word.
LEMMA ExitKeeps ==
    ASSUME IInv, NEW t \in Tracker, NEW b \in Bundle, Lively(b), Exit(t, b),
           channel' \in Channels,
           \A v, w \in Tracker : Content(channel', v, w) \subseteq Sent(v, w),
           UNCHANGED <<started, response, records, vouched, down>>,
           timers' \in Seq(Tracker \X Bundle), \A c \in Bundle : c # b => TimersKeep(c),
           Waiting(b) /\ Waiting(b)' => timers' = timers /\ ~ Passed(t, b)
    PROVE  Keeps(b)
<1> DEFINE a == NoAction(t, b)
<1>1. /\ a \in Action /\ a.state = "none" /\ a.txs = {} /\ a.message.txs = {}
      /\ a.message.about = b /\ a.message.kind = "Transactions"
  BY NoActionIs
<1>2. TypeOK /\ Become(t, b, a)
  BY DEF IInv, Exit
<1> HIDE DEF a
<1>3. Waiting(b) /\ Waiting(b)' => Steady(t, b, {}, Status("NotValid", b))
  <2>1. SUFFICES ASSUME Waiting(b), Waiting(b)'
                 PROVE  Steady(t, b, {}, Status("NotValid", b))
    OBVIOUS
  <2>2. Turns(t, b, a)
    BY <1>1, <1>2, BecomeTurns
  <2>3. Loyal(t, b)'
    BY <1>1, <2>2 DEF Turns, Loyal
  <2> QED
    BY <2>1, <2>3 DEF Steady, Passed
<1>4. a.state \notin Early /\ a.state # "passChecked" /\ a.state # "propagate"
      /\ a.txs \cup a.message.txs \subseteq Known(b)
      /\ a.message.kind \in {"Transactions", "Validated"}
  BY <1>1 DEF Early
<1> QED
  BY <1>1, <1>2, <1>3, <1>4, ChangeKeeps DEF a

LEMMA MonitorAnswerKeeps ==
    ASSUME IInv, NEW t \in Tracker, NEW b \in Bundle, MonitorAnswer(t, b)
    PROVE  Keeps(b)
<1>0. TypeOK /\ action[t][b].state = "approved" /\ Exit(t, b)
      /\ UNCHANGED <<started, response, channel, timers, records, vouched, down>>
  BY DEF IInv, MonitorAnswer, In
<1>1. Lively(b)
  BY <1>0, LivelyIs DEF Early
<1>2. Waiting(b) => ~ Passed(t, b)
  BY <1>0 DEF Waiting, Passed, OriginState
<1>3. channel' \in Channels /\ \A v, w \in Tracker : Content(channel', v, w) \subseteq Sent(v, w)
  BY <1>0, RestIs
<1>4. timers' \in Seq(Tracker \X Bundle) /\ \A c \in Bundle : c # b => TimersKeep(c)
  BY <1>0, TimersStep
<1> QED
  BY <1>0, <1>1, <1>2, <1>3, <1>4, ExitKeeps

\* A time event about a bundle is about a live one, and its origin's while that waits.
LEMMA TimerIs ==
    ASSUME IInv, timers # <<>>, NEW t \in Tracker, NEW b \in Bundle, Head(timers) = <<t, b>>
    PROVE  Lively(b) /\ (Waiting(b) => t = OriginOf[b])
<1>0. timers \in Seq(Tracker \X Bundle) /\ Head(timers) \in About(b)
  BY DEF IInv, TypeOK, About
<1>1. /\ \A B : Silent(timers, B) => Head(timers) \notin B
      /\ \A B, f : Head(timers) \in B /\ Begins(timers, B, f) => Head(timers) = f
  BY <1>0, TailOrder
<1>2. Quiet(b) /\ Race(b)
  BY DEF IInv, BundleInv
<1>3. Lively(b)
  BY <1>0, <1>1, <1>2 DEF Quiet, Unheard
<1>4. Waiting(b) => Head(timers) = <<OriginOf[b], b>>
  BY <1>0, <1>1, <1>2 DEF Race
<1> QED
  BY <1>3, <1>4

LEMMA TimeoutKeeps ==
    ASSUME IInv, Timeout
    PROVE  \E b \in Bundle : Keeps(b)
<1>0. TypeOK /\ timers # <<>> /\ UNCHANGED <<started, response, records, down>>
  BY DEF IInv, Timeout
<1>1. PICK t \in Tracker, b \in Bundle : Head(timers) = <<t, b>>
  <2>1. timers \in Seq(Tracker \X Bundle)
    BY <1>0 DEF TypeOK
  <2>2. Head(timers) \in Tracker \X Bundle
    BY <1>0, <2>1
  <2> QED
    BY <2>2
<1>2. Lively(b) /\ (Waiting(b) => t = OriginOf[b])
  BY <1>0, <1>1, TimerIs
<1>3. channel \in Channels /\ \A v, w \in Tracker : Content(channel, v, w) \subseteq Sent(v, w)
  BY <1>0 DEF TypeOK, Channels, Sent
<1>4. CASE /\ Exit(t, b) /\ timers' = WithoutTimers(t, b) /\ UNCHANGED <<channel, vouched>>
  <2>1. timers' \in Seq(Tracker \X Bundle) /\ \A c \in Bundle : c # b => TimersKeep(c)
    BY <1>0, <1>4, TimersStep
  <2>2. ASSUME Waiting(b), Waiting(b)'
        PROVE  FALSE
    <3>1. OriginState(b)' = "none"
      <4>1. NoAction(t, b) \in Action /\ NoAction(t, b).state = "none"
        BY NoActionIs
      <4>2. Turns(t, b, NoAction(t, b))
        BY <1>0, <1>4, <4>1, BecomeTurns DEF Exit
      <4> QED
        BY <1>2, <2>2, <4>1, <4>2 DEF Turns, OriginState
    <3> QED
      BY <2>2, <3>1 DEF Waiting
  <2> QED
    BY <1>0, <1>2, <1>3, <1>4, <2>1, <2>2, ExitKeeps
<1>5. CASE /\ In(t, b, "broadcast")
           /\ PassBundleValidate(t, b, action[t][b], channel, Tail(timers), action[t][b].partners)
  <2>1. action[t][b] \in Action /\ action[t][b].state = "broadcast"
    BY <1>5, KnownHas DEF In
  <2>2. ~ Waiting(b)
    BY <1>2, <2>1 DEF Waiting, OriginState
  <2> QED
    BY <1>0, <1>1, <1>3, <1>5, <2>1, <2>2, VouchKeeps
<1>6. CASE t \in down /\ timers' = Tail(timers) /\ UNCHANGED <<action, channel, vouched>>
  <2>1. timers' \in Seq(Tracker \X Bundle) /\ \A c \in Bundle : c # b => TimersKeep(c)
    BY <1>0, <1>1, <1>6, TimersStep
  <2>2. ~ Waiting(b)
    BY <1>2, <1>6 DEF Waiting
  <2>3. /\ coins' \in [Tracker -> SUBSET Output] /\ nulled' \in [Tracker -> SUBSET Output]
        /\ down \subseteq down' /\ down' \subseteq Tracker /\ UNCHANGED stored
    BY <1>0, RestIs
  <2> QED
    BY <1>0, <1>2, <1>3, <1>6, <2>1, <2>2, <2>3, IdleKeeps
<1> QED
  BY <1>1, <1>4, <1>5, <1>6 DEF Timeout

-----------------------------------------------------------------------------
(* The steps of the origin                                                 *)

\* Until it has decided nothing of the bundle is confirmed or stored.
LEMMA Undecided ==
    ASSUME IInv, NEW b \in Bundle, ~ Decided(b)
    PROVE  ~ Confirming(b) /\ \A v \in Tracker : stored[v] \cap TxsOf(b) = {}
BY DEF IInv, BundleInv, ConfirmedLate, StoredLate

\* A refusal: the action ends and the clients are told.
LEMMA RefusedKeeps ==
    ASSUME IInv, NEW b \in Bundle, NEW t, t = OriginOf[b],
           action[t][b].state \in {"originChecked", "propagate"}, t \notin down, Exit(t, b),
           UNCHANGED <<started, records, vouched, down>>,
           response' \in [Tx -> {"none", "Invalid", "Validated"}],
           \A x \in Tx : x \notin TxsOf(b) => response'[x] = response[x],
           channel' \in Channels,
           \A v, w \in Tracker : Content(channel', v, w) \subseteq Sent(v, w),
           timers' \in Seq(Tracker \X Bundle), \A c \in Bundle : c # b => TimersKeep(c)
    PROVE  Keeps(b)
<1> DEFINE a == NoAction(t, b)
<1>0. TypeOK /\ t \in Tracker
  BY ValidateTransactionsAssumption DEF IInv
<1>1. /\ a \in Action /\ a.state = "none" /\ a.txs = {} /\ a.message.txs = {}
      /\ a.message.about = b /\ a.message.kind = "Transactions"
  BY <1>0, NoActionIs
<1>2. Turns(t, b, a)
  BY <1>0, <1>1, BecomeTurns DEF Exit
<1> HIDE DEF a
<1>3. /\ action'[t][b] = a
      /\ \A v \in Tracker, c \in Bundle : v # t \/ c # b => action'[v][c] = action[v][c]
      /\ action' \in [Tracker -> [Bundle -> Action]]
  BY <1>2 DEF Turns
<1>4. BundleInv(b) /\ TxsOf(b)' = TxsOf(b)
  BY DEF IInv, TxsOf
<1>5. ~ Decided(b) /\ b \in started
  BY <1>0, KnownHas DEF Decided, OriginState, Formed, Early
<1>6. ~ Confirming(b) /\ \A v \in Tracker : stored[v] \cap TxsOf(b) = {}
  BY <1>5, Undecided
<1>7. TypeOK'
  <2>1. ASSUME NEW v \in Tracker, NEW c \in Bundle,
               action'[v][c].state \in {"originChecked", "passChecked"}
        PROVE  action'[v][c].invalid \subseteq action'[v][c].txs
    <3>1. action'[v][c] = action[v][c]
      BY <1>1, <1>3, <2>1
    <3> QED
      BY <1>0, <2>1, <3>1 DEF TypeOK
  <2> QED
    BY <1>0, <1>3, <2>1 DEF TypeOK, Channels, records
<1>8. \A v, w \in Tracker : Sent(v, w)' \subseteq Sent(v, w)
  BY DEF Sent
<1>9. ASSUME NEW c \in Bundle, c # b
      PROVE  Untouched(c)
  BY <1>3, <1>8, <1>9 DEF Untouched, records, TxsOf
<1>10. OriginState(b)' = "none" /\ ~ Confirming(b)' /\ Lively(b)'
  BY <1>1, <1>3, <1>5, <1>6, <1>8 DEF OriginState, Confirming, Lively, Early
<1>11. Shape(b)'
  <2>1. ASSUME NEW v \in Tracker
        PROVE  Formed(v, b)'
    <3>1. CASE v = t
      BY <1>1, <1>3, <3>1 DEF Formed, Early, a
    <3>2. CASE v # t
      <4>1. Formed(v, b) /\ action'[v][b] = action[v][b]
        BY <1>3, <1>4, <3>2 DEF BundleInv, Shape
      <4> QED
        BY <4>1 DEF Formed
    <3> QED
      BY <3>1, <3>2
  <2>2. Known(b)' \subseteq Known(b)
    <3>1. ASSUME NEW x \in Tx, NEW v \in Tracker,
                 x \in action'[v][b].txs \cup action'[v][b].message.txs
          PROVE  x \in Known(b)
      <4>1. x \in action[v][b].txs \cup action[v][b].message.txs
        BY <1>1, <1>3, <3>1
      <4> QED
        BY <4>1 DEF Known
    <3>2. ASSUME NEW x \in Tx, NEW v \in Tracker, NEW u \in Tracker,
                 NEW n \in Sent(v, u)', n.about = b, x \in n.txs
          PROVE  x \in Known(b)
      BY <1>8, <3>2 DEF Known
    <3> QED
      BY <3>1, <3>2 DEF Known
  <2> QED
    BY <1>4, <2>1, <2>2 DEF BundleInv, Shape
<1>12. Quiet(b)' /\ Race(b)' /\ ConfirmedLate(b)' /\ Agreed(b)'
  BY <1>10 DEF Quiet, Race, Waiting, ConfirmedLate, Agreed, Open
<1>13. StoredLate(b)'
  BY <1>4, <1>6 DEF StoredLate, records
<1> QED
  BY <1>7, <1>9, <1>11, <1>12, <1>13 DEF Keeps, BundleInv

LEMMA TellIs ==
    ASSUME TypeOK, NEW X \in SUBSET Tx, NEW answer \in {"none", "Invalid", "Validated"}
    PROVE  /\ Tell(X, answer) \in [Tx -> {"none", "Invalid", "Validated"}]
           /\ \A x \in Tx : x \notin X => Tell(X, answer)[x] = response[x]
BY DEF TypeOK, Tell

LEMMA PropagateStatusKeeps ==
    ASSUME IInv, NEW t \in Tracker, NEW u \in Tracker, channel[u][t] # <<>>,
           NEW m, m = Head(channel[u][t]), NEW b, b = m.about, PropagateStatus(t, u, b, m)
    PROVE  Keeps(b)
<1> DEFINE o == action[t][b]
           waiting == o.partners \ m.path
<1>0. TypeOK
  BY DEF IInv
<1>1. /\ Taken(t, u) \in Channels /\ m \in Message /\ m \in Sent(u, t) /\ b \in Bundle
      /\ \A v, w \in Tracker : Content(Taken(t, u), v, w) \subseteq Sent(v, w)
  BY <1>0, TakenIs DEF Message
<1>2. /\ o \in Action /\ Formed(t, b) /\ o.state = "propagate" /\ t \notin down
      /\ o.txs \cup o.message.txs \subseteq Known(b) /\ Lively(b)
  BY <1>1, KnownHas DEF PropagateStatus, In
<1>3. t = OriginOf[b] /\ Waiting(b) /\ Open(b)
  BY <1>2 DEF Formed, Waiting, OriginState, Open
<1>4. o.message.about = b /\ o.message.kind \in {"Transactions", "Validated"}
  BY <1>2 DEF Formed
<1>5. UNCHANGED <<started, vouched>>
  BY DEF PropagateStatus
<1>6. /\ m.kind = "Validated" => m.path \subseteq vouched[b]
      /\ PeersOf[t] \ o.partners \subseteq vouched[b]
  <2>1. Race(b)
    BY <1>1 DEF IInv, BundleInv
  <2>2. Honest(u, t, m, b) /\ PeersOf[t] \ o.partners \subseteq vouched[b]
    BY <1>1, <1>3, <2>1 DEF Race
  <2> QED
    BY <2>2 DEF Honest
<1>7. CASE /\ m.kind = "Validated"
           /\ Become(t, b, [o EXCEPT !.partners = waiting])
           /\ channel' = Taken(t, u)
           /\ UNCHANGED <<response, timers, records, down>>
  <2> DEFINE a == [o EXCEPT !.partners = waiting]
  <2>1. /\ a \in Action /\ a.state = "propagate" /\ a.txs = o.txs /\ a.message = o.message
        /\ a.partners = waiting
    BY <1>2 DEF Action
  <2> HIDE DEF a
  <2>2. Become(t, b, a)
    BY <1>7 DEF a
  <2>3. Steady(t, b, {}, Status("NotValid", b))
    <3>1. Turns(t, b, a)
      BY <1>0, <1>1, <2>1, <2>2, BecomeTurns
    <3>2. Loyal(t, b)'
      BY <2>1, <3>1 DEF Turns, Loyal
    <3>3. PeersOf[t] \ action'[t][b].partners \subseteq vouched'[b]
      BY <1>5, <1>6, <1>7, <2>1, <3>1 DEF Turns
    <3> QED
      BY <1>3, <1>7, <3>2, <3>3 DEF Steady, Passed
  <2>4. timers' \in Seq(Tracker \X Bundle) /\ \A c \in Bundle : c # b => TimersKeep(c)
    BY <1>0, <1>1, <1>7, TimersStep
  <2>5. a.state \notin Early /\ a.txs \cup a.message.txs \subseteq Known(b)
    BY <1>2, <2>1 DEF Early
  <2> QED
    BY <1>1, <1>2, <1>4, <1>5, <1>7, <2>1, <2>2, <2>3, <2>4, <2>5, ChangeKeeps
<1>8. CASE /\ m.kind = "Validated" /\ waiting = {}
           /\ Approve(t, b, [o EXCEPT !.partners = {}], Taken(t, u),
                      Send(Taken(t, u), t, PeersOf[t], Status("Confirmed", b)))
           /\ UNCHANGED response
  <2> DEFINE a == [o EXCEPT !.partners = {}]
             n == Status("Confirmed", b)
  <2>1. a \in Action /\ a.txs = o.txs /\ a.message = o.message
    BY <1>2 DEF Action
  <2>2. n \in Message /\ n.about = b /\ n.txs = {}
    BY <1>1, StatusIs DEF Kind
  <2>3. AllVouched(b)
    BY <1>3, <1>6, <1>8 DEF AllVouched
  <2>4. Approve(t, b, a, Taken(t, u), Send(Taken(t, u), t, PeersOf[t], n))
    BY <1>8
  <2> HIDE DEF a, n
  <2>5. a.txs \cup a.message.txs \subseteq Known(b) /\ n.txs \subseteq Known(b)
    BY <1>2, <2>1, <2>2
  <2> QED
    BY <1>1, <1>2, <1>3, <1>4, <1>5, <1>8, <2>1, <2>2, <2>3, <2>4, <2>5, ApproveKeeps
<1>9. CASE /\ response' = Tell(o.txs, "Invalid")
           /\ Exit(t, b) /\ timers' = WithoutTimers(t, b)
           /\ channel' = Taken(t, u)
           /\ UNCHANGED <<records, down>>
  <2>1. timers' \in Seq(Tracker \X Bundle) /\ \A c \in Bundle : c # b => TimersKeep(c)
    BY <1>0, <1>1, <1>9, TimersStep
  <2>2. o.txs \subseteq TxsOf(b) /\ o.txs \subseteq Tx
    BY <1>1, <1>2 DEF IInv, BundleInv, Shape, Action
  <2>3. /\ response' \in [Tx -> {"none", "Invalid", "Validated"}]
        /\ \A x \in Tx : x \notin TxsOf(b) => response'[x] = response[x]
    BY <1>0, <1>9, <2>2, TellIs
  <2> QED
    BY <1>1, <1>2, <1>3, <1>5, <1>9, <2>1, <2>3, RefusedKeeps
<1> QED
  BY <1>7, <1>8, <1>9 DEF PropagateStatus

\* A step of the origin while nobody else knows of the bundle
LEMMA FirstKeeps ==
    ASSUME IInv, NEW b \in Bundle, NEW t, t = OriginOf[b], t \notin down, ~ Lively(b),
           NEW a \in Action, Turns(t, b, a), Formed(t, b)',
           a.state \in {"originChecked", "passChecked"} => a.invalid \subseteq a.txs,
           a.txs \cup a.message.txs \subseteq TxsOf(b),
           NEW m \in Message, m.about = b, m.kind = "Transactions", m.txs \subseteq TxsOf(b),
           NEW targets, Says(t, targets, m),
           started' \in {started, started \cup {b}}, UNCHANGED vouched,
           down \subseteq down', down' \subseteq Tracker,
           timers' \in Seq(Tracker \X Bundle), \A c \in Bundle : c # b => TimersKeep(c),
           coins' \in [Tracker -> SUBSET Output], nulled' \in [Tracker -> SUBSET Output],
           stored' \in [Tracker -> SUBSET Tx],
           response' \in [Tx -> {"none", "Invalid", "Validated"}],
           \A x \in Tx : x \notin TxsOf(b) => response'[x] = response[x],
           Quiet(b)', Race(b)',
           a.state = "propagate" => a.txs \cup a.message.txs \cup m.txs \subseteq Told',
           \A v \in Tracker : \A x \in stored'[v] :
               x \in stored[v] \/ (x \in a.txs /\ Decided(b)' /\ AllVouched(b) /\ x \in Told')
    PROVE  Keeps(b)
<1>0. TypeOK /\ t \in Tracker /\ BundleInv(b) /\ TxsOf(b)' = TxsOf(b)
  BY ValidateTransactionsAssumption DEF IInv, TxsOf
<1>1. Unheard(b) /\ \A v \in Tracker : Formed(v, b)
  BY <1>0 DEF BundleInv, Quiet, Shape
<1>2. /\ action'[t][b] = a
      /\ \A v \in Tracker, c \in Bundle : v # t \/ c # b => action'[v][c] = action[v][c]
      /\ action' \in [Tracker -> [Bundle -> Action]]
  BY DEF Turns
<1>3. channel' \in Channels /\ \A v, w \in Tracker : \A n \in Sent(v, w)' :
           n \in Sent(v, w) \/ (v = t /\ w \in targets /\ n = Wrapped(m, t))
  BY DEF Says
<1>4. /\ Wrapped(m, t).kind = "Transactions" /\ Wrapped(m, t).about = b
      /\ Wrapped(m, t).txs = m.txs
  BY <1>0, WrappedIs
<1>5. ~ Decided(b)
  BY DEF Lively, Decided
<1>6. \A v \in Tracker : stored[v] \cap TxsOf(b) = {}
  BY <1>5, Undecided
<1>7. TypeOK'
  <2>1. ASSUME NEW v \in Tracker, NEW c \in Bundle,
               action'[v][c].state \in {"originChecked", "passChecked"}
        PROVE  action'[v][c].invalid \subseteq action'[v][c].txs
    <3>1. CASE v = t /\ c = b
      BY <1>2, <2>1, <3>1
    <3>2. CASE v # t \/ c # b
      <4>1. action'[v][c] = action[v][c]
        BY <1>2, <3>2
      <4> QED
        BY <1>0, <2>1, <4>1 DEF TypeOK
    <3> QED
      BY <3>1, <3>2
  <2> QED
    BY <1>0, <1>2, <1>3, <2>1 DEF TypeOK, Channels
<1>8. ASSUME NEW c \in Bundle, c # b
      PROVE  Untouched(c)
  <2>1. \A v, w \in Tracker : \A n \in Sent(v, w)' : n.about = c => n \in Sent(v, w)
    BY <1>3, <1>4, <1>8
  <2>2. \A v \in Tracker : \A x \in stored'[v] \cap TxsOf(c) : x \in stored[v]
    BY <1>0, <1>8 DEF TxsOf
  <2>3. \A x \in TxsOf(c) : response'[x] = response[x]
    BY <1>8 DEF TxsOf
  <2> QED
    BY <1>2, <1>8, <2>1, <2>2, <2>3 DEF Untouched
<1>9. \A v, w \in Tracker : \A n \in Sent(v, w)' :
         n.about = b => n.kind = "Transactions" /\ n.txs = m.txs
  BY <1>1, <1>3, <1>4 DEF Unheard
<1>10. ~ Confirming(b)'
  BY <1>9 DEF Confirming
<1>11. \A v \in Tracker : v # t => action'[v][b] = NoAction(v, b)
  BY <1>1, <1>2 DEF Unheard, Formed
<1>12. Known(b)' \subseteq a.txs \cup a.message.txs \cup m.txs
  <2>1. ASSUME NEW x \in Tx, NEW v \in Tracker,
               x \in action'[v][b].txs \cup action'[v][b].message.txs
        PROVE  x \in a.txs \cup a.message.txs
    <3>1. CASE v # t
      BY <1>11, <2>1, <3>1, NoActionIs
    <3> QED
      BY <1>2, <2>1, <3>1
  <2> QED
    BY <1>9, <2>1 DEF Known
<1>13. Shape(b)'
  <2>1. ASSUME NEW v \in Tracker
        PROVE  Formed(v, b)'
    <3>1. CASE v # t
      BY <1>11, <3>1, NoActionIs DEF Formed, Early
    <3> QED
      BY <3>1
  <2> QED
    BY <1>0, <1>12, <2>1 DEF Shape
<1>14. ConfirmedLate(b)' /\ Agreed(b)'
  BY <1>2, <1>10, <1>12 DEF ConfirmedLate, Agreed, Open, OriginState
<1>15. StoredLate(b)'
  <2>1. AllVouched(b) => AllVouched(b)'
    BY DEF AllVouched
  <2> QED
    BY <1>0, <1>6, <2>1 DEF StoredLate
<1> QED
  BY <1>7, <1>8, <1>13, <1>14, <1>15 DEF Keeps, BundleInv

LEMMA StartKeeps ==
    ASSUME IInv, NEW b \in Bundle, Start(b)
    PROVE  Keeps(b)
<1> DEFINE t == OriginOf[b]
           m == Status("Transactions", b)
<1>0. TypeOK /\ t \in Tracker /\ t \notin down /\ action[t][b].state = "none" /\ b \notin started
  BY ValidateTransactionsAssumption DEF IInv, Start, In
<1>1. PICK kept \in SUBSET TxsOf(b), refused \in SUBSET TxsOf(b) :
         /\ Become(t, b, [NoAction(t, b) EXCEPT !.state = "origin", !.txs = kept])
         /\ response' = Tell(refused, "Invalid")
  BY DEF Start
<1>2. started' = started \cup {b} /\ UNCHANGED <<channel, timers, records, vouched, down>>
  BY DEF Start
<1> DEFINE a == [NoAction(t, b) EXCEPT !.state = "origin", !.txs = kept]
<1>3. kept \subseteq Tx /\ refused \subseteq Tx
  BY DEF TxsOf
<1>4. /\ a \in Action /\ a.state = "origin" /\ a.txs = kept /\ a.message.txs = {}
      /\ a.message.about = b /\ a.message.kind = "Transactions"
  BY <1>0, <1>3 DEF NoAction, Action, Message, Kind
<1> HIDE DEF a, t
<1>5. Turns(t, b, a)
  BY <1>0, <1>1, <1>4, BecomeTurns DEF a
<1>6. m \in Message /\ m.about = b /\ m.kind = "Transactions" /\ m.txs = {}
  BY StatusIs DEF Kind
<1>7. Says(t, {}, m)
  BY <1>0, <1>2, RestIs, NothingSaid
<1>8. /\ timers' \in Seq(Tracker \X Bundle) /\ \A c \in Bundle : c # b => TimersKeep(c)
  BY <1>0, <1>2, TimersStep
<1>9. /\ response' \in [Tx -> {"none", "Invalid", "Validated"}]
      /\ \A x \in Tx : x \notin TxsOf(b) => response'[x] = response[x]
  BY <1>0, <1>1, <1>3, TellIs
<1>10. Formed(t, b)'
  BY <1>2, <1>4, <1>5 DEF Formed, Turns, t
<1>11. ~ Lively(b) /\ Unheard(b)
  BY <1>0 DEF Lively, IInv, BundleInv, Quiet
<1>12. Quiet(b)'
  <2>1. \A v \in Tracker : v # OriginOf[b] => action'[v][b].state = "none"
    BY <1>5, <1>11 DEF Unheard, Turns, t
  <2>2. \A v, u \in Tracker : Sent(v, u)' = Sent(v, u)
    BY <1>2 DEF Sent
  <2>3. Silent(timers', About(b))
    BY <1>2, <1>11 DEF Unheard
  <2> QED
    BY <1>2, <1>11, <2>1, <2>2, <2>3 DEF Quiet, Unheard
<1>13. Race(b)'
  BY <1>4, <1>5 DEF Race, Waiting, OriginState, Turns, t
<1>14. /\ coins' \in [Tracker -> SUBSET Output] /\ nulled' \in [Tracker -> SUBSET Output]
       /\ stored' \in [Tracker -> SUBSET Tx] /\ stored' = stored
       /\ down \subseteq down' /\ down' \subseteq Tracker
  BY <1>0, <1>2, RestIs
<1>15. a.txs \cup a.message.txs \subseteq TxsOf(b) /\ m.txs \subseteq TxsOf(b)
       /\ a.state \notin {"originChecked", "passChecked", "propagate"}
  BY <1>4, <1>6
<1> HIDE DEF m
<1> QED
  BY <1>0, <1>2, <1>4, <1>5, <1>6, <1>7, <1>8, <1>9, <1>10, <1>11, <1>12, <1>13, <1>14,
     <1>15, FirstKeeps DEF t

LEMMA ValidateOriginKeeps ==
    ASSUME IInv, NEW t \in Tracker, NEW b \in Bundle, In(t, b, "origin"), Validate(t, b)
    PROVE  Keeps(b)
<1> DEFINE o == action[t][b]
           a == [o EXCEPT !.state = "originChecked", !.invalid = InvalidTransactions(t, o.txs)]
           m == Status("Transactions", b)
<1>0. TypeOK /\ o.state = "origin" /\ t \notin down
  BY DEF IInv, In
<1>1. o \in Action /\ Formed(t, b) /\ o.txs \subseteq TxsOf(b)
  <2>1. o.txs \subseteq Known(b) /\ Known(b) \subseteq TxsOf(b)
    BY KnownHas DEF IInv, BundleInv, Shape
  <2> QED
    BY <2>1, KnownHas
<1>2. t = OriginOf[b] /\ b \in started /\ o.message.txs = {}
  BY <1>0, <1>1 DEF Formed, Early
<1>3. /\ Become(t, b, a)
      /\ UNCHANGED <<started, response, channel, timers, records, vouched, down>>
  BY <1>0 DEF Validate, In
<1>4. /\ a \in Action /\ a.state = "originChecked" /\ a.txs = o.txs /\ a.message = o.message
      /\ a.invalid \subseteq a.txs
  BY <1>1 DEF Action, InvalidTransactions
<1> HIDE DEF a
<1>5. Turns(t, b, a)
  BY <1>0, <1>3, <1>4, BecomeTurns
<1>6. m \in Message /\ m.about = b /\ m.kind = "Transactions" /\ m.txs = {}
  BY StatusIs DEF Kind
<1>7. Says(t, {}, m)
  BY <1>0, <1>3, RestIs, NothingSaid
<1>8. /\ timers' \in Seq(Tracker \X Bundle) /\ \A c \in Bundle : c # b => TimersKeep(c)
  BY <1>0, <1>3, TimersStep
<1>9. Formed(t, b)'
  BY <1>1, <1>2, <1>3, <1>4, <1>5 DEF Formed, Turns
<1>10. ~ Lively(b) /\ Unheard(b)
  BY <1>0, <1>2 DEF Lively, IInv, BundleInv, Quiet, OriginState, Early
<1>11. Quiet(b)'
  <2>1. \A v \in Tracker : v # OriginOf[b] => action'[v][b].state = "none"
    BY <1>2, <1>5, <1>10 DEF Unheard, Turns
  <2>2. \A v, u \in Tracker : Sent(v, u)' = Sent(v, u)
    BY <1>3 DEF Sent
  <2>3. Silent(timers', About(b))
    BY <1>3, <1>10 DEF Unheard
  <2> QED
    BY <1>2, <1>3, <1>10, <2>1, <2>2, <2>3 DEF Quiet, Unheard
<1>12. Race(b)'
  BY <1>2, <1>4, <1>5 DEF Race, Waiting, OriginState, Turns
<1>13. /\ coins' \in [Tracker -> SUBSET Output] /\ nulled' \in [Tracker -> SUBSET Output]
       /\ stored' \in [Tracker -> SUBSET Tx] /\ stored' = stored
       /\ down \subseteq down' /\ down' \subseteq Tracker
  BY <1>0, <1>3, RestIs
<1>14. a.txs \cup a.message.txs \subseteq TxsOf(b) /\ m.txs \subseteq TxsOf(b) /\ a.state # "propagate"
  BY <1>1, <1>2, <1>4, <1>6
<1>15. response' = response /\ response' \in [Tx -> {"none", "Invalid", "Validated"}]
  BY <1>0, <1>3 DEF TypeOK
<1> HIDE DEF m
<1> QED
  BY <1>0, <1>2, <1>3, <1>4, <1>5, <1>6, <1>7, <1>8, <1>9, <1>10, <1>11, <1>12, <1>13, <1>14,
     <1>15, FirstKeeps

LEMMA OriginValidatedKeeps ==
    ASSUME IInv, NEW t \in Tracker, NEW b \in Bundle, OriginValidated(t, b)
    PROVE  Keeps(b)
<1> DEFINE o == action[t][b]
<1>0. TypeOK /\ o.state = "originChecked" /\ t \notin down
  BY DEF IInv, OriginValidated, In
<1>1. o \in Action /\ Formed(t, b) /\ o.txs \subseteq TxsOf(b) /\ o.txs \subseteq Tx
  <2>1. o.txs \subseteq Known(b) /\ Known(b) \subseteq TxsOf(b)
    BY KnownHas DEF IInv, BundleInv, Shape
  <2> QED
    BY <2>1, KnownHas DEF TxsOf
<1>2. t = OriginOf[b] /\ b \in started /\ o.message.txs = {} /\ o.message.about = b
      /\ o.message.kind \in {"Transactions", "Validated"}
  BY <1>0, <1>1 DEF Formed, Early
<1>3. PICK X \in SUBSET o.txs : X = o.txs \ o.invalid
  OBVIOUS
<1>4. /\ response' \in [Tx -> {"none", "Invalid", "Validated"}]
      /\ \A x \in Tx : x \notin TxsOf(b) => response'[x] = response[x]
      /\ X \subseteq Told'
  <2>1. response' = [x \in Tx |-> IF x \in X THEN "Validated" ELSE Tell(o.invalid, "Invalid")[x]]
    BY <1>3 DEF OriginValidated
  <2>2. o.invalid \subseteq o.txs
    BY <1>0 DEF TypeOK
  <2>3. /\ Tell(o.invalid, "Invalid") \in [Tx -> {"none", "Invalid", "Validated"}]
        /\ \A x \in Tx : x \notin o.invalid => Tell(o.invalid, "Invalid")[x] = response[x]
    BY <1>0, <1>1, <2>2, TellIs
  <2> QED
    BY <1>1, <1>3, <2>1, <2>2, <2>3 DEF Told
<1>5. UNCHANGED <<started, vouched>>
  BY DEF OriginValidated
<1>6. ~ Lively(b) /\ Unheard(b)
  BY <1>0, <1>2 DEF Lively, IInv, BundleInv, Quiet, OriginState, Early
<1>7. channel \in Channels /\ \A v, w \in Tracker : Content(channel, v, w) \subseteq Sent(v, w)
  BY <1>0 DEF TypeOK, Channels, Sent
<1> DEFINE next == [o EXCEPT !.txs = X]
<1>8. /\ next \in Action /\ next.txs = X /\ next.message = o.message
      /\ next.state = "originChecked"
  BY <1>0, <1>1, <1>3 DEF Action
<1> HIDE DEF next
<1>9. CASE Exit(t, b) /\ UNCHANGED <<channel, timers, records, down>>
  <2>1. timers' \in Seq(Tracker \X Bundle) /\ \A c \in Bundle : c # b => TimersKeep(c)
    BY <1>0, <1>9, TimersStep
  <2> QED
    BY <1>0, <1>2, <1>4, <1>5, <1>7, <1>9, <2>1, RefusedKeeps
<1>10. CASE PropagateBundle(t, b, next)
  <2> DEFINE a == [next EXCEPT !.state = "propagate", !.partners = PeersOf[t]]
             m == [Status("Transactions", b) EXCEPT !.txs = next.txs]
  <2>1. /\ a \in Action /\ a.state = "propagate" /\ a.txs = X /\ a.message = o.message
        /\ a.partners = PeersOf[t]
    BY <1>8, ValidateTransactionsAssumption DEF Action
  <2>2. m \in Message /\ m.about = b /\ m.kind = "Transactions" /\ m.txs = X
    BY <1>1, <1>8 DEF Status, Message, Kind
  <2>3. /\ channel' = Send(channel, t, PeersOf[t], m) /\ Become(t, b, a)
        /\ timers' = Append(timers, <<t, b>>) /\ UNCHANGED <<records, down>>
    BY <1>10 DEF PropagateBundle
  <2> HIDE DEF a, m
  <2>4. Says(t, PeersOf[t], m)
    BY <1>7, <2>2, <2>3, SendSays
  <2>5. Turns(t, b, a)
    BY <1>0, <2>1, <2>3, BecomeTurns
  <2>6. timers' \in Seq(Tracker \X Bundle) /\ \A c \in Bundle : c # b => TimersKeep(c)
    BY <1>0, <2>3, TimersStep
  <2>7. Formed(t, b)'
    BY <1>2, <1>5, <2>1, <2>5 DEF Formed, Turns
  <2>8. Quiet(b)'
    BY <1>2, <1>5, <2>1, <2>5 DEF Quiet, Lively, OriginState, Turns, Early
  <2>9. Race(b)'
    <3>1. Begins(timers', About(b), <<OriginOf[b], b>>)
      <4>1. timers \in Seq(Tracker \X Bundle) /\ <<t, b>> \in Tracker \X Bundle
        BY <1>0 DEF TypeOK
      <4>2. Silent(timers, About(b))
        BY <1>6 DEF Unheard
      <4> QED
        BY <1>2, <2>3, <4>1, <4>2, AppendOrder
    <3>2. ASSUME NEW v \in Tracker
          PROVE  Loyal(v, b)'
      <4>1. action'[v][b].state \in {"none", "propagate"}
        BY <1>2, <1>6, <2>1, <2>5 DEF Unheard, Turns
      <4> QED
        BY <4>1 DEF Loyal
    <3>3. ASSUME NEW v \in Tracker, NEW w \in Tracker, NEW n \in Sent(v, w)', n.about = b
          PROVE  Honest(v, w, n, b)'
      <4>1. v = t /\ n = Wrapped(m, t)
        BY <1>6, <2>4, <3>3 DEF Unheard, Says
      <4>2. n.kind = "Transactions"
        BY <2>2, <4>1, WrappedIs
      <4> QED
        BY <1>2, <4>1, <4>2 DEF Honest, Passed
    <3>4. PeersOf[OriginOf[b]] \ action'[OriginOf[b]][b].partners \subseteq vouched'[b]
      BY <1>2, <2>1, <2>5 DEF Turns
    <3> QED
      BY <3>1, <3>2, <3>3, <3>4 DEF Race
  <2>10. /\ coins' \in [Tracker -> SUBSET Output] /\ nulled' \in [Tracker -> SUBSET Output]
         /\ stored' \in [Tracker -> SUBSET Tx] /\ stored' = stored
         /\ down \subseteq down' /\ down' \subseteq Tracker
    BY <1>0, <2>3, RestIs
  <2>11. /\ a.txs \cup a.message.txs \subseteq TxsOf(b) /\ m.txs \subseteq TxsOf(b)
         /\ a.txs \cup a.message.txs \cup m.txs \subseteq Told'
         /\ a.state \notin {"originChecked", "passChecked"}
    BY <1>1, <1>2, <1>4, <2>1, <2>2
  <2> QED
    BY <1>0, <1>2, <1>4, <1>5, <1>6, <2>1, <2>2, <2>4, <2>5, <2>6, <2>7, <2>8, <2>9, <2>10,
       <2>11, FirstKeeps
<1>11. CASE PeersOf[t] = {} /\ Approve(t, b, next, channel, channel)
  <2> DEFINE m == Status("Transactions", b)
  <2>1. m \in Message /\ m.about = b /\ m.kind = "Transactions" /\ m.txs = {}
    BY StatusIs DEF Kind
  <2> HIDE DEF m
  <2>2. /\ timers' = WithoutTimers(t, b)
        /\ coins' \in [Tracker -> SUBSET Output] /\ nulled' \in [Tracker -> SUBSET Output]
        /\ stored' \in [Tracker -> SUBSET Tx] /\ down \subseteq down' /\ down' \subseteq Tracker
        /\ channel' = channel
    BY <1>0, <1>8, <1>11, ApproveIs
  <2>3. timers' \in Seq(Tracker \X Bundle) /\ \A c \in Bundle : c # b => TimersKeep(c)
    BY <1>0, <2>2, TimersStep
  <2>4. Says(t, {}, m)
    BY <1>7, <2>2, NothingSaid
  <2>5. AllVouched(b)
    BY <1>2, <1>11 DEF AllVouched
  <2>6. ASSUME NEW a \in Action, Turns(t, b, a), a.state \in {"none", "approved"},
               a.state = "none" => a = NoAction(t, b), a.message.about = b,
               a.message.kind \in {"Transactions", "Validated"},
               a.txs \subseteq X, a.message.txs = {},
               \A v \in Tracker : stored'[v] \subseteq stored[v] \cup a.txs
        PROVE  Keeps(b)
    <3>1. Formed(t, b)'
      BY <2>6 DEF Formed, Turns, Early
    <3>2. OriginState(b)' = a.state
      BY <1>2, <2>6 DEF OriginState, Turns
    <3>3. Quiet(b)' /\ Race(b)' /\ Decided(b)'
      BY <1>2, <1>5, <2>6, <3>2 DEF Quiet, Lively, Race, Waiting, Decided, Early
    <3>4. \A v \in Tracker : \A x \in stored'[v] :
              x \in stored[v] \/ (x \in a.txs /\ Decided(b)' /\ AllVouched(b) /\ x \in Told')
      BY <1>4, <2>5, <2>6, <3>3
    <3>5. /\ a.txs \cup a.message.txs \subseteq TxsOf(b) /\ m.txs \subseteq TxsOf(b)
          /\ a.state \notin {"originChecked", "passChecked", "propagate"}
      BY <1>1, <2>1, <2>6
    <3> QED
      BY <1>0, <1>2, <1>4, <1>5, <1>6, <2>1, <2>2, <2>3, <2>4, <2>6, <3>1, <3>3, <3>4, <3>5,
         FirstKeeps
  <2>7. CASE /\ Become(t, b, [next EXCEPT !.state = "approved"])
             /\ \A v \in Tracker : stored'[v] \subseteq stored[v] \cup next.txs
    <3> DEFINE a == [next EXCEPT !.state = "approved"]
    <3>1. a \in Action /\ a.state = "approved" /\ a.txs = X /\ a.message = o.message
      BY <1>8 DEF Action
    <3> HIDE DEF a
    <3>2. Turns(t, b, a)
      BY <1>0, <2>7, <3>1, BecomeTurns DEF a
    <3> QED
      BY <1>2, <1>8, <2>6, <2>7, <3>1, <3>2
  <2>8. CASE Exit(t, b) /\ stored' = stored
    <3> DEFINE a == NoAction(t, b)
    <3>1. /\ a \in Action /\ a.state = "none" /\ a.txs = {} /\ a.message.txs = {}
          /\ a.message.about = b /\ a.message.kind = "Transactions"
      BY NoActionIs
    <3>2. Turns(t, b, a)
      BY <1>0, <2>8, <3>1, BecomeTurns DEF Exit
    <3> HIDE DEF a
    <3>3. a.txs \subseteq X /\ \A v \in Tracker : stored'[v] \subseteq stored[v] \cup a.txs
      BY <2>8, <3>1
    <3> QED
      BY <2>6, <3>1, <3>2, <3>3 DEF a
  <2>9. CASE action' = action /\ stored' = stored /\ t \in down'
    <3>1. PICK a \in Action : a = o
      BY <1>1
    <3>2. Turns(t, b, a)
      BY <1>0, <2>9, <3>1 DEF Turns, TypeOK
    <3>3. Formed(t, b)'
      BY <1>1, <1>5, <2>9 DEF Formed
    <3>4. Quiet(b)' /\ Race(b)'
      <4>1. \A v, u \in Tracker : Sent(v, u)' = Sent(v, u)
        BY <2>2 DEF Sent
      <4>2. Silent(timers', About(b))
        <5>1. timers \in Seq(Tracker \X Bundle)
          BY <1>0 DEF TypeOK
        <5> QED
          BY <1>6, <2>2, <5>1, WithoutOrder DEF Unheard, WithoutTimers
      <4>3. Unheard(b)'
        BY <1>2, <1>5, <1>6, <2>9, <4>1, <4>2 DEF Unheard
      <4>4. ~ Waiting(b)'
        BY <1>2, <2>9 DEF Waiting
      <4> QED
        BY <4>3, <4>4 DEF Quiet, Race
    <3>5. /\ a.txs \cup a.message.txs \subseteq TxsOf(b) /\ m.txs \subseteq TxsOf(b)
          /\ a.state # "propagate" /\ a.invalid \subseteq a.txs
      BY <1>0, <1>1, <1>2, <2>1, <3>1 DEF TypeOK
    <3> QED
      BY <1>0, <1>2, <1>4, <1>5, <1>6, <2>1, <2>2, <2>3, <2>4, <2>9, <3>2, <3>3, <3>4, <3>5,
         FirstKeeps
  <2> QED
    BY <1>0, <1>8, <1>11, <2>7, <2>8, <2>9, ApproveIs
<1> QED
  BY <1>3, <1>9, <1>10, <1>11 DEF OriginValidated, next

-----------------------------------------------------------------------------
(* The theorems                                                            *)

LEMMA KeepsAll ==
    ASSUME IInv, NEW b \in Bundle, Keeps(b)
    PROVE  IInv'
<1>1. ASSUME NEW c \in Bundle
      PROVE  BundleInv(c)'
  BY OtherBundle DEF Keeps
<1> QED
  BY <1>1 DEF Keeps, IInv

LEMMA InitInv ==
    ASSUME Init
    PROVE  IInv
<1> USE ValidateTransactionsAssumption
<1>1. \A t \in Tracker, b \in Bundle : NoAction(t, b) \in Action /\ NoAction(t, b).state = "none"
  BY NoActionIs
<1>2. \A t \in Tracker, b \in Bundle : action[t][b] = NoAction(t, b)
  BY DEF Init
<1>3. TypeOK
  <2>1. action \in [Tracker -> [Bundle -> Action]]
    BY <1>1 DEF Init
  <2>2. \A t \in Tracker, b \in Bundle : action[t][b].state = "none"
    BY <1>1, <1>2
  <2>3. channel \in [Tracker -> [Tracker -> Seq(Message)]] /\ timers \in Seq(Tracker \X Bundle)
    BY DEF Init
  <2> QED
    BY <2>1, <2>2, <2>3 DEF Init, TypeOK
<1>4. ASSUME NEW b \in Bundle
      PROVE  BundleInv(b)
  <2>1. \A t, u \in Tracker : Sent(t, u) = {}
    BY DEF Init, Sent, Content
  <2>2. OriginState(b) = "none" /\ b \notin started
    BY <1>1, <1>2 DEF Init, OriginState
  <2>3. Shape(b)
    <3>1. ASSUME NEW t \in Tracker
          PROVE  Formed(t, b)
      <4>1. action[t][b] = NoAction(t, b)
        BY <1>2
      <4>2. /\ NoAction(t, b).state = "none" /\ NoAction(t, b).message.about = b
            /\ NoAction(t, b).message.kind = "Transactions"
        BY NoActionIs
      <4> QED
        BY <4>1, <4>2 DEF Formed, Early
    <3>2. Known(b) = {}
      BY <1>2, <2>1, NoActionIs DEF Known
    <3> QED
      BY <3>1, <3>2 DEF Shape
  <2>4. Quiet(b)
    <3>1. \A t \in Tracker : action[t][b].state = "none"
      BY <1>1, <1>2
    <3>2. Silent(timers, About(b))
      BY DEF Init, Silent
    <3> QED
      BY <2>1, <2>2, <3>1, <3>2 DEF Quiet, Unheard
  <2>5. ~ Confirming(b)
    BY <2>1 DEF Confirming
  <2>6. Race(b) /\ ConfirmedLate(b) /\ Agreed(b)
    BY <2>2, <2>5 DEF Race, Waiting, ConfirmedLate, Agreed, Open
  <2>7. StoredLate(b)
    BY DEF Init, StoredLate
  <2> QED
    BY <2>3, <2>4, <2>6, <2>7 DEF BundleInv
<1> QED
  BY <1>3, <1>4 DEF IInv

LEMMA ReceiveInv ==
    ASSUME IInv, NEW t \in Tracker, NEW u \in Tracker, Receive(t, u)
    PROVE  IInv'
<1>0. TypeOK /\ channel[u][t] # <<>>
  BY DEF IInv, Receive
<1>1. /\ Taken(t, u) \in Channels /\ Head(channel[u][t]) \in Message
      /\ \A v, w \in Tracker : Content(Taken(t, u), v, w) \subseteq Sent(v, w)
  BY <1>0, TakenIs
<1>2. PICK m \in Message : m = Head(channel[u][t])
  BY <1>1
<1>3. PICK b \in Bundle : b = m.about
  BY DEF Message
<1>4. CASE /\ action[t][b].state \in {"none", "pass", "passChecked"}
           /\ PassBundle(t, u, b, m)
  BY <1>0, <1>2, <1>3, <1>4, PassBundleKeeps, KeepsAll
<1>5. CASE PropagateStatus(t, u, b, m)
  BY <1>0, <1>2, <1>3, <1>5, PropagateStatusKeeps, KeepsAll
<1>6. CASE BroadcastStatus(t, u, b, m)
  BY <1>0, <1>2, <1>3, <1>6, BroadcastStatusKeeps, KeepsAll
<1>7. CASE ValidateStatus(t, u, b, m)
  BY <1>0, <1>2, <1>3, <1>7, ValidateStatusKeeps, KeepsAll
<1>8. CASE Discard(t, u, b, m)
  <2>1. channel' = Taken(t, u)
        /\ UNCHANGED <<action, started, response, timers, records, vouched, down>>
    BY <1>8 DEF Discard
  <2>2. channel' \in Channels /\ \A v, w \in Tracker : Sent(v, w)' \subseteq Sent(v, w)
    BY <1>1, <2>1 DEF Sent
  <2> QED
    BY <2>1, <2>2, LessSent
<1> QED
  BY <1>2, <1>3, <1>4, <1>5, <1>6, <1>7, <1>8 DEF Receive, In

LEMMA LoseInv ==
    ASSUME IInv, NEW t \in Tracker, NEW u \in Tracker, Lose(t, u)
    PROVE  IInv'
<1>1. channel' = [channel EXCEPT ![t][u] = <<>>]
      /\ UNCHANGED <<action, started, response, timers, records, vouched, down>>
  BY DEF Lose
<1>2. channel \in [Tracker -> [Tracker -> Seq(Message)]]
  BY DEF IInv, TypeOK
<1>3. channel' \in Channels
  BY <1>1, <1>2 DEF Channels
<1>4. ASSUME NEW v \in Tracker, NEW w \in Tracker
      PROVE  Sent(v, w)' \subseteq Sent(v, w)
  <2>1. channel'[v][w] = <<>> \/ channel'[v][w] = channel[v][w]
    BY <1>1, <1>2
  <2> QED
    BY <2>1 DEF Sent, Content
<1> QED
  BY <1>1, <1>3, <1>4, LessSent

LEMMA NextInv ==
    ASSUME IInv, [Next]_vars
    PROVE  IInv'
<1>1. ASSUME NEW b \in Bundle, Start(b)
      PROVE  IInv'
  BY <1>1, StartKeeps, KeepsAll
<1>2. ASSUME NEW t \in Tracker, NEW b \in Bundle, Step(t, b)
      PROVE  IInv'
  <2>1. CASE Validate(t, b)
    <3>1. In(t, b, "origin") \/ In(t, b, "pass")
      BY <2>1 DEF Validate
    <3> QED
      BY <2>1, <3>1, ValidateOriginKeeps, ValidatePassKeeps, KeepsAll
  <2>2. CASE OriginValidated(t, b)
    BY <2>2, OriginValidatedKeeps, KeepsAll
  <2>3. CASE PassValidated(t, b)
    BY <2>3, PassValidatedKeeps, KeepsAll
  <2>4. CASE NoMedium(t, b)
    BY <2>4, NoMediumKeeps, KeepsAll
  <2> QED
    BY <1>2, <2>1, <2>2, <2>3, <2>4 DEF Step
<1>3. ASSUME NEW t \in Tracker, NEW b \in Bundle, MonitorAnswer(t, b)
      PROVE  IInv'
  BY <1>3, MonitorAnswerKeeps, KeepsAll
<1>4. ASSUME NEW t \in Tracker, NEW u \in Tracker, Receive(t, u) \/ Lose(t, u)
      PROVE  IInv'
  BY <1>4, ReceiveInv, LoseInv
<1>5. ASSUME Timeout
      PROVE  IInv'
  BY <1>5, TimeoutKeeps, KeepsAll
<1>6. CASE UNCHANGED vars
  <2>1. UNCHANGED <<action, started, response, timers, records, vouched, down>> /\ channel' = channel
    BY <1>6 DEF vars, records
  <2>2. channel' \in Channels /\ \A v, w \in Tracker : Sent(v, w)' \subseteq Sent(v, w)
    BY <2>1 DEF Sent, IInv, TypeOK, Channels
  <2> QED
    BY <2>1, <2>2, LessSent
<1> QED
  BY <1>1, <1>2, <1>3, <1>4, <1>5, <1>6 DEF Next

\* The inductive invariant of the agreement.
THEOREM Invariance == Spec => []IInv
BY InitInv, NextInv, PTL DEF Spec

\* The actions, messages, time events and records of validateTransactionsAction.cpp
\* have their types, and an answer of the medium names transactions of its bundle.
THEOREM TypeCorrect == Spec => []TypeOK
<1>1. IInv => TypeOK
  BY DEF IInv
<1> QED
  BY <1>1, Invariance, PTL

LEMMA StoredWasAgreed ==
    ASSUME IInv, NEW t \in Tracker, NEW x \in stored[t]
    PROVE  AllVouched(BundleOf[x]) /\ response[x] = "Validated"
<1>1. x \in Tx /\ BundleOf[x] \in Bundle
  BY ValidateTransactionsAssumption DEF IInv, TypeOK
<1>2. x \in stored[t] \cap TxsOf(BundleOf[x])
  BY <1>1 DEF TxsOf
<1> QED
  BY <1>1, <1>2 DEF IInv, BundleInv, StoredLate, Told

\* CPropagateBundle waits for all: what any tracker stores, all trackers its origin
\* knows have reported as Validated.
THEOREM NobodyAlone == Spec => []NoLoneApproval
<1>1. IInv => NoLoneApproval
  BY StoredWasAgreed DEF NoLoneApproval, AllVouched
<1> QED
  BY <1>1, Invariance, PTL

\* setClientResponse( Invalid ): no tracker stores what a client was last told is
\* invalid.
THEOREM NothingRejected == Spec => []RejectedNowhere
<1>1. IInv => RejectedNowhere
  BY StoredWasAgreed DEF RejectedNowhere
<1> QED
  BY <1>1, Invariance, PTL
=============================================================================
