--------------------------- MODULE AdmissionProofs ---------------------------
(***************************************************************************)
(* Proofs about Admission, for any number of attempts, headers, blocks,    *)
(* retries and losses.                                                     *)
(***************************************************************************)
EXTENDS Admission, TLAPS

-----------------------------------------------------------------------------
(* The inductive invariant.  Of an attempt, r is the register action, s the   *)
(* tracker's synchronisation action, t the monitor's, and l the last id.      *)

\* A request or an answer that is the one the tracker's action waits for
Matches(s, m) ==
    \/ s.state = "ask" /\ m.kind \in {"SyncAsk", "Sync"}
    \/ s.state = "bitcoin" /\ m.kind \in {"BitcoinAsk", "BitcoinHeader"}
    \/ s.state = "info" /\ m.kind \in {"StorageAsk", "Info"}
    \/ s.state = "headers" /\ m.kind \in {"GetHeader", "Header"} /\ m.n = s.k
    \/ s.state = "blocks" /\ m.kind \in {"GetBlock", "Block"} /\ m.n = s.k

\* What carries the id of a request that is open, or was in this turn, matches.
Open(s) == IF s.state = "done" THEN {} ELSE {s.id, s.old}
Fits(s, m) == m.id \in Open(s) => Matches(s, m)

Copying == {"info", "headers", "blocks", "done"}
Serving == {"headers", "blocks", "done"}
Ending == {"blocks", "done"}

\* A message m on its way to the monitor
Requesting == {"SyncAsk", "BitcoinAsk", "StorageAsk", "GetHeader", "GetBlock"}

GetBlockGood(m, s) ==
    s.state \in Ending /\ m.n <= s.k /\ (s.result = "good" \/ m.n < s.size)

AckGood(m, s, t) ==
    /\ m.id \notin {s.id, s.old}
    /\ t.state = "serve" /\ t.last => s.result = "good" /\ t.stored = s.size

ToMonitorGood(m, s, t, r, l) ==
    /\ m.id \in 1 .. l
    /\ m.kind \in Requesting \cup {"AdmitAsk", "AdmitAck", "Ack"}
    /\ m.kind \in Requesting => Fits(s, m)
    /\ m.kind = "SyncAsk" => t.state = "none" /\ r.state \in {"sync", "done"}
    /\ m.kind = "StorageAsk" => s.state \in Copying /\ (s.state = "info" => m.id = s.id)
    /\ m.kind = "GetBlock" => GetBlockGood(m, s)
    /\ m.kind = "Ack" => AckGood(m, s, t)

\* ... and x before y: there is one SyncAsk, and an Ack that follows a request for
\* the last block is one for the last block.
InOrder(x, y, s) ==
    /\ ~ (x.kind = "SyncAsk" /\ y.kind = "SyncAsk")
    /\ x.kind = "GetBlock" /\ y.kind = "Ack" =>
           x.n < s.size /\ (x.n + 1 >= s.size => s.result = "good")

\* ... and on its way to the tracker
ToTrackerGood(m, s, l, was, n) ==
    /\ m.id \in 1 .. l
    /\ m.kind \in {"Admit", "Sync", "BitcoinHeader", "Info", "Header", "Block"}
    /\ m.kind # "Admit" => Fits(s, m)
    /\ m.kind = "Sync" /\ m.n = 1 => was
    /\ m.kind = "Info" => m.n \in 1 .. n

MonitorGood ==
    {m \in Message : ToMonitorGood(m, sync[m.a], session[m.a], reg[m.a], lastId[m.a])}
MonitorOrder ==
    {p \in Message \X Message : p[1].a = p[2].a => InOrder(p[1], p[2], sync[p[1].a])}
TrackerGood ==
    {m \in Message : ToTrackerGood(m, sync[m.a], lastId[m.a], wasRegistered, blocks)}

Ordered(q, R) == \A i, j \in DOMAIN q : i < j => <<q[i], q[j]>> \in R

ToMonitorOK == toMonitor \in Seq(MonitorGood) /\ Ordered(toMonitor, MonitorOrder)
ToTrackerOK == toTracker \in Seq(TrackerGood)

Before == {"none", "terms", "ask"}

\* The tracker's side of an attempt: what it stored is what it was told to.
TrackerSide(s, r, l, was, n) ==
    /\ s.id <= l /\ s.old <= l
    /\ r.state \in Before => s = NoSync
    /\ s.result = "good" => /\ s.exit /\ s.old = 0 /\ (s.timer = "late" => s.id = 0)
                            /\ s.state \in Ending /\ s.k = s.size
    /\ s.state = "headers" => 0 < s.size
    /\ s.state = "blocks" /\ s.result # "good" => s.k < s.size
    /\ s.size <= n
    /\ s.state \in {"bitcoin", "info", "headers", "blocks"} \/ s.result = "good" => was

\* ... and the monitor's: it serves whom it told the sizes, who knows no larger one.
MonitorSide(t, s, r, l) ==
    /\ r.state \in Before => t.state = "none"
    /\ t.state = "none" => t = NoSession
    /\ t.state = "uninit" => t.id = 0
    /\ t.state = "copy" =>
           /\ t.key \in 1 .. l /\ t.id \in {0, t.key}
           /\ s.state \in Copying /\ (s.state = "info" => t.key = s.id)
           /\ t.key \in Open(s) => s.state = "info"
    /\ t.state = "serve" =>
           /\ s.state \in Serving /\ s.size <= t.stored
           /\ t.last => /\ s.state \in Ending /\ s.k + 1 >= s.size
                        /\ s.result # "good" => t.stored = s.size

Sides ==
    \A a \in Attempt :
        /\ TrackerSide(sync[a], reg[a], lastId[a], wasRegistered, blocks)
        /\ MonitorSide(session[a], sync[a], reg[a], lastId[a])

Marked(s, t) == /\ s.result = "good"
                /\ t.state = "done" \/ (t.state = "serve" /\ t.stored = s.size)

Membership ==
    /\ allowed \/ connected # {} => wasRegistered
    /\ \A a \in marked : Marked(sync[a], session[a])

IInv == TypeOK /\ ToMonitorOK /\ ToTrackerOK /\ Sides /\ Membership

-----------------------------------------------------------------------------
(* Queues                                                                  *)

LEMMA OrderedTail ==
    ASSUME NEW S, NEW q \in Seq(S), q # <<>>, NEW R, Ordered(q, R)
    PROVE  /\ Tail(q) \in Seq(S) /\ Ordered(Tail(q), R) /\ Head(q) \in S
           /\ \A i \in DOMAIN Tail(q) : Tail(q)[i] \in S /\ <<Head(q), Tail(q)[i]>> \in R
<1>1. /\ Tail(q) \in Seq(S) /\ Head(q) = q[1] /\ 1 \in DOMAIN q /\ q[1] \in S
      /\ \A i \in DOMAIN Tail(q) : i + 1 \in DOMAIN q /\ Tail(q)[i] = q[i + 1] /\ i \in Nat /\ 1 < i + 1
  OBVIOUS
<1>2. ASSUME NEW i \in DOMAIN Tail(q), NEW j \in DOMAIN Tail(q), i < j
      PROVE  <<Tail(q)[i], Tail(q)[j]>> \in R
  <2>1. i + 1 < j + 1
    BY <1>1, <1>2
  <2> QED
    BY <1>1, <2>1 DEF Ordered
<1>3. ASSUME NEW i \in DOMAIN Tail(q)
      PROVE  Tail(q)[i] \in S /\ <<Head(q), Tail(q)[i]>> \in R
  BY <1>1 DEF Ordered
<1> QED
  BY <1>1, <1>2, <1>3 DEF Ordered

LEMMA Removed ==
    ASSUME NEW S, NEW q \in Seq(S), NEW i \in DOMAIN q
    PROVE  /\ RemoveAt(q, i) \in Seq(S)
           /\ \A j \in DOMAIN RemoveAt(q, i) :
                  /\ j \in Nat
                  /\ RemoveAt(q, i)[j] = q[IF j < i THEN j ELSE j + 1]
                  /\ (IF j < i THEN j ELSE j + 1) \in DOMAIN q
<1> DEFINE p == SubSeq(q, 1, i - 1)
           r == SubSeq(q, i + 1, Len(q))
<1>1. i \in 1 .. Len(q) /\ Len(q) \in Nat
  OBVIOUS
<1>2. p \in Seq(S) /\ Len(p) = i - 1 /\ \A j \in 1 .. i - 1 : p[j] = q[j]
  BY <1>1
<1>3. r \in Seq(S) /\ Len(r) = Len(q) - i /\ \A j \in 1 .. Len(q) - i : r[j] = q[i + j]
  BY <1>1
<1>4. RemoveAt(q, i) = p \o r
  BY DEF RemoveAt
<1> HIDE DEF p, r
<1>5. p \o r \in Seq(S) /\ DOMAIN (p \o r) = 1 .. Len(q) - 1
  BY <1>1, <1>2, <1>3
<1>6. ASSUME NEW j \in 1 .. Len(q) - 1
      PROVE  (p \o r)[j] = q[IF j < i THEN j ELSE j + 1]
  <2>1. CASE j < i
    BY <1>1, <1>2, <1>3, <2>1
  <2>2. CASE ~ (j < i)
    <3>1. j - (i - 1) \in 1 .. Len(q) - i /\ i + (j - (i - 1)) = j + 1
      BY <1>1, <2>2
    <3>2. (p \o r)[j] = r[j - Len(p)]
      <4>1. p \in Seq(S) /\ r \in Seq(S) /\ j \in DOMAIN (p \o r) /\ j > Len(p)
        BY <1>1, <1>2, <1>3, <1>5, <2>2
      <4> QED
        BY <4>1
    <3>3. r[j - Len(p)] = q[j + 1]
      BY <1>2, <1>3, <3>1
    <3> QED
      BY <2>2, <3>2, <3>3
  <2> QED
    BY <2>1, <2>2
<1>7. \A j \in 1 .. Len(q) - 1 : j \in Nat /\ (IF j < i THEN j ELSE j + 1) \in DOMAIN q
  BY <1>1
<1>8. RemoveAt(q, i) \in Seq(S) /\ DOMAIN RemoveAt(q, i) = 1 .. Len(q) - 1
  BY <1>4, <1>5
<1>9. \A j \in 1 .. Len(q) - 1 : RemoveAt(q, i)[j] = q[IF j < i THEN j ELSE j + 1]
  BY <1>4, <1>6
<1> QED
  BY <1>7, <1>8, <1>9

LEMMA OrderedRemoved ==
    ASSUME NEW S, NEW q \in Seq(S), NEW i \in DOMAIN q, NEW R, Ordered(q, R)
    PROVE  RemoveAt(q, i) \in Seq(S) /\ Ordered(RemoveAt(q, i), R)
<1> DEFINE at(j) == IF j < i THEN j ELSE j + 1
<1>1. ASSUME NEW j \in DOMAIN RemoveAt(q, i), NEW k \in DOMAIN RemoveAt(q, i), j < k
      PROVE  <<RemoveAt(q, i)[j], RemoveAt(q, i)[k]>> \in R
  <2>1. /\ j \in Nat /\ k \in Nat /\ i \in Nat /\ at(j) \in DOMAIN q /\ at(k) \in DOMAIN q
        /\ RemoveAt(q, i)[j] = q[at(j)] /\ RemoveAt(q, i)[k] = q[at(k)]
    BY Removed
  <2>2. at(j) < at(k)
    BY <1>1, <2>1
  <2> HIDE DEF at
  <2> QED
    BY <2>1, <2>2 DEF Ordered
<1> QED
  BY <1>1, Removed DEF Ordered

LEMMA OrderedAppend ==
    ASSUME NEW S, NEW q \in Seq(S), NEW R, Ordered(q, R),
           NEW x \in S, \A i \in DOMAIN q : <<q[i], x>> \in R
    PROVE  Append(q, x) \in Seq(S) /\ Ordered(Append(q, x), R)
<1>1. ASSUME NEW i \in DOMAIN Append(q, x), NEW j \in DOMAIN Append(q, x), i < j
      PROVE  <<Append(q, x)[i], Append(q, x)[j]>> \in R
  <2>1. i \in DOMAIN q /\ Append(q, x)[i] = q[i]
    BY <1>1
  <2>2. CASE j = Len(q) + 1
    BY <2>1, <2>2
  <2>3. CASE j # Len(q) + 1
    <3>1. j \in DOMAIN q /\ Append(q, x)[j] = q[j]
      BY <2>3
    <3> QED
      BY <1>1, <2>1, <3>1 DEF Ordered
  <2> QED
    BY <2>2, <2>3
<1> QED
  BY <1>1 DEF Ordered

LEMMA SeqIn ==
    ASSUME NEW S, NEW q \in Seq(S), NEW T, \A i \in DOMAIN q : q[i] \in T
    PROVE  q \in Seq(T)
<1>1. DOMAIN q = 1 .. Len(q) /\ Len(q) \in Nat /\ q = [i \in 1 .. Len(q) |-> q[i]]
  OBVIOUS
<1>2. q \in [1 .. Len(q) -> T]
  BY <1>1
<1> QED
  BY <1>1, <1>2

LEMMA OrderedIn ==
    ASSUME NEW S, NEW q \in Seq(S), NEW R, Ordered(q, R), NEW T, S \subseteq T,
           NEW V, \A x, y \in S : <<x, y>> \in R => <<x, y>> \in V
    PROVE  q \in Seq(T) /\ Ordered(q, V)
<1>1. \A i \in DOMAIN q : q[i] \in S
  OBVIOUS
<1>2. q \in Seq(T)
  BY <1>1, SeqIn
<1> QED
  BY <1>1, <1>2 DEF Ordered

-----------------------------------------------------------------------------
(* Steps of the tracker in one attempt                                     *)

Same(s, s2) == s2.state = s.state /\ s2.k = s.k /\ s2.size = s.size

\* A request is answered
Goes(s, s2, was, n) ==
    /\ s2.old = 0 /\ s.result # "good" /\ s2.result = s.result
    /\ \/ s.state = "ask" /\ s2.state = "bitcoin" /\ was /\ s2.k = s.k /\ s2.size = s.size
       \/ s.state = "bitcoin" /\ s2.state = "info" /\ s2.k = s.k /\ s2.size = s.size
       \/ s.state = "info" /\ s2.state = "headers" /\ s2.size \in 1 .. n
       \/ /\ s.state = "headers" /\ s2.state \in {"headers", "blocks"} /\ s2.size = s.size
          /\ s2.state = "blocks" => s2.k = 0
       \/ /\ s.state = "blocks" /\ s2.state = "blocks" /\ s2.size = s.size
          /\ s2.k = s.k + 1 /\ s2.k < s.size

\* ... and the next one sent.
Answers(s, s2, r, r2, l, l2, was, n) ==
    Goes(s, s2, was, n) /\ s2.id = l2 /\ l2 = l + 1 /\ r2 = r

\* The last answer: the result is there.
Exits(s, s2, r, r2, l, l2) ==
    /\ s2.old = 0 /\ s2.id = 0 /\ s2.exit /\ l2 = l /\ r2 = r
    /\ s2.state = s.state /\ s2.size = s.size /\ s.result # "good"
    /\ \/ s.state = "ask" /\ s2.result = "bad" /\ s2.k = s.k
       \/ s.state = "blocks" /\ s2.result = "good" /\ s2.k = s.k + 1 /\ s.size <= s2.k

\* A time event makes the action leave
Leaves(s, s2, r, r2, l, l2) ==
    /\ Same(s, s2) /\ s2.id = 0 /\ s2.old \in {s.id, s.old} /\ l2 = l /\ r2 = r
    /\ s2.result \in {s.result, "bad"} /\ s.state \in {"ask", "bitcoin"}

\* ... or send its request again.
AsksAgain(s, s2, r, r2, l, l2) ==
    /\ Same(s, s2) /\ s2.id = l2 /\ s2.old \in {s.id, s.old} /\ l2 = l + 1 /\ r2 = r
    /\ s2.result = s.result /\ s2.exit = s.exit /\ s2.timer = "set"
    /\ s.state \in {"headers", "blocks"} /\ (s.result = "good" => s2.old = 0)

\* A turn is over.
Turns(s, s2, r, r2, l, l2) ==
    /\ Same(s, s2) /\ s2.id = s.id /\ s2.old = 0 /\ l2 = l /\ r2 = r
    /\ s2.result = s.result /\ s2.exit = s.exit /\ s.state # "none"
    /\ s2.timer = IF s.timer = "late" THEN "none" ELSE s.timer

\* The action is deleted.
Ends(s, s2, r, r2, l, l2) ==
    /\ s2 = [s EXCEPT !.state = "done"] /\ s.exit
    /\ l2 = l /\ r2.state = r.state

\* The action is made.
Begins(s, s2, r, r2, l, l2) ==
    /\ s2.id = l2 /\ s2.old = 0 /\ s2.state = "ask" /\ s2.k = 0 /\ s2.size = 0
    /\ s2.result = "none" /\ l2 = l + 1
    /\ r.state = "ask" /\ r2.state = "sync"

\* The register action goes on.
Registers(s, s2, r, r2, l, l2) ==
    /\ s2 = s /\ l2 \in {l, l + 1}
    /\ r2.state \in Before => r.state \in Before
    /\ r.state \in {"sync", "done"} => r2.state \in {"sync", "done"}

Moves(s, s2, r, r2, l, l2, was, n) ==
    \/ Answers(s, s2, r, r2, l, l2, was, n) \/ Exits(s, s2, r, r2, l, l2)
    \/ Leaves(s, s2, r, r2, l, l2) \/ AsksAgain(s, s2, r, r2, l, l2)
    \/ Turns(s, s2, r, r2, l, l2) \/ Ends(s, s2, r, r2, l, l2)
    \/ Begins(s, s2, r, r2, l, l2) \/ Registers(s, s2, r, r2, l, l2)

RegType == [state : {"none", "terms", "ask", "sync", "done"}, id : Nat, exit : BOOLEAN]
SyncType == [state : {"none", "ask", "bitcoin", "info", "headers", "blocks", "done"},
             id : Nat, old : Nat, timer : {"none", "set", "late"}, exit : BOOLEAN,
             k : Nat, size : 0 .. MaxBlocks, result : {"none", "bad", "good"}]
SessionType == [state : {"none", "uninit", "copy", "serve", "done"},
                key : Nat, id : Nat, old : Nat, exit : BOOLEAN, asked : BOOLEAN,
                stored : 0 .. MaxBlocks, last : BOOLEAN]

\* What is known of an attempt
Known(s, t, r, l, was, n) ==
    /\ s \in SyncType /\ t \in SessionType /\ r \in RegType /\ l \in Nat
    /\ was \in BOOLEAN /\ n \in Nat
    /\ TrackerSide(s, r, l, was, n) /\ MonitorSide(t, s, r, l)

\* A step from s, r and l keeps it, and the messages good.
Keeps(s, s2, t, r, r2, l, l2, was, n) ==
    /\ TrackerSide(s2, r2, l2, was, n) /\ MonitorSide(t, s2, r2, l2)
    /\ \A m \in Message : ToMonitorGood(m, s, t, r, l) => ToMonitorGood(m, s2, t, r2, l2)
    /\ \A x, y \in Message : ToMonitorGood(x, s, t, r, l) /\ InOrder(x, y, s) =>
                                 InOrder(x, y, s2)
    /\ \A m \in Message : ToTrackerGood(m, s, l, was, n) => ToTrackerGood(m, s2, l2, was, n)
    /\ Marked(s, t) => Marked(s2, t)

USE AdmissionAssumption

\* What still matches does so for a reason that did not change.
LEMMA FitsKept ==
    ASSUME NEW s, NEW s2, NEW l \in Nat,
           \/ Open(s2) \cap (1 .. l) = {}
           \/ Open(s2) \cap (1 .. l) \subseteq Open(s) /\ s2.state = s.state /\ s2.k = s.k,
           NEW m \in Message, m.id \in 1 .. l, Fits(s, m)
    PROVE  Fits(s2, m)
BY DEF Fits, Matches

LEMMA MovesKeep ==
    ASSUME NEW s, NEW t, NEW r, NEW l, NEW was, NEW n, Known(s, t, r, l, was, n),
           NEW s2 \in SyncType, NEW r2, NEW l2, Moves(s, s2, r, r2, l, l2, was, n)
    PROVE  Keeps(s, s2, t, r, r2, l, l2, was, n)
<1> USE DEF Known
<1> USE DEF Moves, Answers, Goes, Exits, Leaves, AsksAgain, Turns, Ends, Begins, Registers, Same
<1>0. l2 \in {l, l + 1} /\ l2 \in Nat
  OBVIOUS
<1>1. TrackerSide(s2, r2, l2, was, n)
  BY DEF TrackerSide, SyncType, RegType, NoSync, Ending, Before
<1>2. MonitorSide(t, s2, r2, l2)
  BY DEF TrackerSide, MonitorSide, SyncType, SessionType, RegType, NoSync, Ending, Before,
         Copying, Serving, Open
<1>3. Open(s2) \cap (1 .. l) = {} \/ /\ Open(s2) \cap (1 .. l) \subseteq Open(s)
                                     /\ s2.state = s.state /\ s2.k = s.k
  BY DEF SyncType, Open, TrackerSide, NoSync
<1>4. ASSUME NEW m \in Message, ToMonitorGood(m, s, t, r, l)
      PROVE  ToMonitorGood(m, s2, t, r2, l2)
  <2>1. m.id \in 1 .. l /\ m.id \in 1 .. l2
    BY <1>0, <1>4 DEF ToMonitorGood
  <2>2. m.kind \in Requesting => Fits(s2, m)
    BY <1>3, <1>4, <2>1, FitsKept DEF ToMonitorGood
  <2>3. m.kind = "SyncAsk" => t.state = "none" /\ r2.state \in {"sync", "done"}
    BY <1>4 DEF ToMonitorGood
  <2>4. m.kind = "StorageAsk" => s2.state \in Copying /\ (s2.state = "info" => m.id = s2.id)
    BY <1>4 DEF ToMonitorGood, TrackerSide, Copying, NoSync, Before, SyncType
  <2>5. m.kind = "GetBlock" => GetBlockGood(m, s2)
    BY <1>4 DEF ToMonitorGood, GetBlockGood, TrackerSide, Ending, SyncType, Message, NoSync,
                Before
  <2>6. m.kind = "Ack" => AckGood(m, s2, t)
    BY <1>4, <2>1 DEF ToMonitorGood, AckGood, TrackerSide, MonitorSide, SyncType, NoSync, Before,
                      Ending
  <2> QED
    BY <1>4, <2>1, <2>2, <2>3, <2>4, <2>5, <2>6 DEF ToMonitorGood
<1>5. ASSUME NEW x \in Message, NEW y \in Message, ToMonitorGood(x, s, t, r, l), InOrder(x, y, s)
      PROVE  InOrder(x, y, s2)
  BY <1>5 DEF ToMonitorGood, InOrder, GetBlockGood, TrackerSide, Ending, SyncType, Message,
              NoSync, Before
<1>6. ASSUME NEW m \in Message, ToTrackerGood(m, s, l, was, n)
      PROVE  ToTrackerGood(m, s2, l2, was, n)
  <2>1. m.id \in 1 .. l /\ m.id \in 1 .. l2
    BY <1>0, <1>6 DEF ToTrackerGood
  <2>2. m.kind # "Admit" => Fits(s2, m)
    BY <1>3, <1>6, <2>1, FitsKept DEF ToTrackerGood
  <2> QED
    BY <1>6, <2>1, <2>2 DEF ToTrackerGood
<1>7. Marked(s, t) => Marked(s2, t)
  BY DEF Marked, TrackerSide, SyncType, NoSync, Before, Ending
<1> QED
  BY <1>1, <1>2, <1>4, <1>5, <1>6, <1>7 DEF Keeps

\* The Ack of an answer, and the next request
LEMMA AckFollows ==
    ASSUME NEW s, NEW t, NEW r, NEW l, NEW was, NEW n, Known(s, t, r, l, was, n),
           NEW s2 \in SyncType, NEW r2, NEW l2,
           Answers(s, s2, r, r2, l, l2, was, n) \/ Exits(s, s2, r, r2, l, l2),
           NEW m \in Message, m.kind = "Ack", m.id \in 1 .. l
    PROVE  /\ ToMonitorGood(m, s2, t, r2, l2)
           /\ \A x \in Message : ToMonitorGood(x, s, t, r, l) => InOrder(x, m, s2)
<1> USE DEF Known
<1>1. m.id \in 1 .. l2
  BY DEF Answers, Goes, Exits
<1>2. AckGood(m, s2, t)
  BY DEF Answers, Goes, Exits, AckGood, TrackerSide, MonitorSide, SyncType, SessionType, Ending
<1>3. ToMonitorGood(m, s2, t, r2, l2)
  BY <1>1, <1>2 DEF ToMonitorGood, Requesting
<1>4. ASSUME NEW x \in Message, ToMonitorGood(x, s, t, r, l)
      PROVE  InOrder(x, m, s2)
  BY <1>4 DEF ToMonitorGood, InOrder, Answers, Goes, Exits, GetBlockGood, Ending, TrackerSide, SyncType,
              Message
<1> QED
  BY <1>3, <1>4

LEMMA RequestFollows ==
    ASSUME NEW s, NEW t, NEW r, NEW l, NEW was, NEW n, Known(s, t, r, l, was, n),
           NEW s2 \in SyncType, NEW r2, NEW l2,
           Answers(s, s2, r, r2, l, l2, was, n) \/ AsksAgain(s, s2, r, r2, l, l2),
           NEW m \in Message, m.id = l2, m.kind \in Requesting \ {"SyncAsk"}, Matches(s2, m)
    PROVE  /\ ToMonitorGood(m, s2, t, r2, l2)
           /\ \A x \in Message : InOrder(x, m, s2)
<1> USE DEF Known
<1>1. m.id \in 1 .. l2 /\ m.id = s2.id
  BY DEF Answers, Goes, AsksAgain
<1>2. m.kind = "StorageAsk" => s2.state \in Copying
  BY DEF Matches, Requesting, Copying
<1>3. m.kind = "GetBlock" => GetBlockGood(m, s2)
  BY DEF Matches, Requesting, GetBlockGood, Ending, Answers, Goes, AsksAgain, Same, TrackerSide, SyncType
<1>4. ToMonitorGood(m, s2, t, r2, l2)
  BY <1>1, <1>2, <1>3 DEF ToMonitorGood, Requesting, Fits
<1>5. \A x \in Message : InOrder(x, m, s2)
  BY DEF InOrder, Requesting
<1> QED
  BY <1>4, <1>5

-----------------------------------------------------------------------------
(* Steps of the monitor in one attempt                                     *)

\* The monitor's action stays in its state.
Stays(t, t2) ==
    /\ t.state # "none" /\ t2.state = t.state /\ t2.key = t.key /\ t2.stored = t.stored
    /\ t2.last => t.last
    /\ t2.id \in {0, t.id} \/ t.state = "serve" \/ (t.state = "copy" /\ t2.id = t.key)

\* It waits for a copy of the storage
Copies(t, t2, s, l) ==
    /\ t.state = "uninit" /\ t2.state = "copy" /\ t2.id = t.id /\ t2.key \in 1 .. l
    /\ s.state \in Copying /\ (s.state = "info" => t2.key = s.id)
    /\ t2.key \in Open(s) => s.state = "info"

\* ... serves it
Starts(t, t2, s, n) ==
    /\ t.state = "copy" /\ t2.state = "serve" /\ t2.stored = n /\ ~ t2.last
    /\ s.state # "info"

\* ... and is deleted.
Stops(t, t2) == t.state # "none" /\ t2.state = "done"

Works(t, t2, s, l, n) ==
    Stays(t, t2) \/ Copies(t, t2, s, l) \/ Starts(t, t2, s, n) \/ Stops(t, t2)

LEMMA WorksKeep ==
    ASSUME NEW s, NEW t, NEW r, NEW l, NEW was, NEW n, Known(s, t, r, l, was, n),
           NEW t2 \in SessionType, Works(t, t2, s, l, n)
    PROVE  /\ MonitorSide(t2, s, r, l)
           /\ \A m \in Message : ToMonitorGood(m, s, t, r, l) => ToMonitorGood(m, s, t2, r, l)
           /\ Marked(s, t) => Marked(s, t2)
<1> USE DEF Known, Works, Stays, Copies, Starts, Stops
<1>1. MonitorSide(t2, s, r, l)
  BY DEF TrackerSide, MonitorSide, SyncType, SessionType, Ending, Before, Copying, Serving
<1>2. \A m \in Message : ToMonitorGood(m, s, t, r, l) => ToMonitorGood(m, s, t2, r, l)
  BY DEF ToMonitorGood, AckGood, SessionType
<1>3. Marked(s, t) => Marked(s, t2)
  BY DEF Marked
<1> QED
  BY <1>1, <1>2, <1>3

\* The last block is asked for: m_exit is set.
LEMMA LastKeeps ==
    ASSUME NEW s, NEW t, NEW r, NEW l, NEW was, NEW n, Known(s, t, r, l, was, n),
           NEW x \in Message, x.kind = "GetBlock", ToMonitorGood(x, s, t, r, l),
           NEW t2 \in SessionType, t.state = "serve", t2.state = "serve", t2.stored = t.stored,
           x.n = t.stored - 1
    PROVE  /\ MonitorSide(t2, s, r, l)
           /\ \A m \in Message : ToMonitorGood(m, s, t, r, l) /\ InOrder(x, m, s) =>
                                     ToMonitorGood(m, s, t2, r, l)
           /\ Marked(s, t) => Marked(s, t2)
<1> USE DEF Known
<1>1. MonitorSide(t2, s, r, l)
  BY DEF TrackerSide, MonitorSide, SyncType, SessionType, Ending, Before, Copying, Serving,
         ToMonitorGood, GetBlockGood, Message
<1>2. \A m \in Message : ToMonitorGood(m, s, t, r, l) /\ InOrder(x, m, s) =>
                             ToMonitorGood(m, s, t2, r, l)
  BY DEF ToMonitorGood, AckGood, InOrder, SessionType, SyncType, MonitorSide, Message
<1>3. Marked(s, t) => Marked(s, t2)
  BY DEF Marked
<1> QED
  BY <1>1, <1>2, <1>3

-----------------------------------------------------------------------------
(* Steps of the tracker in the whole system                                *)

Types == /\ reg \in [Attempt -> RegType] /\ sync \in [Attempt -> SyncType]
         /\ lastId \in [Attempt -> Nat]

\* The messages that are on their way stay good, and so do those who are done.
StaysGood == /\ toMonitor \in Seq(MonitorGood') /\ Ordered(toMonitor, MonitorOrder')
             /\ toTracker \in Seq(TrackerGood')
StaysMarked == \A b \in Attempt : Marked(sync[b], session[b]) => Marked(sync[b], session[b])'

LEMMA Locals ==
    ASSUME IInv, NEW a \in Attempt
    PROVE  Known(sync[a], session[a], reg[a], lastId[a], wasRegistered, blocks)
BY DEF IInv, TypeOK, Sides, Known, SyncType, SessionType, RegType

\* One attempt moves.
Step(a, s2, r2, l2) ==
    /\ Moves(sync[a], s2, reg[a], r2, lastId[a], l2, wasRegistered, blocks)
    /\ sync' = [sync EXCEPT ![a] = s2] /\ reg' = [reg EXCEPT ![a] = r2]
    /\ lastId' = [lastId EXCEPT ![a] = l2]
    /\ UNCHANGED <<session, wasRegistered, blocks>>

LEMMA StepKeeps ==
    ASSUME IInv, NEW a \in Attempt, NEW s2 \in SyncType, NEW r2 \in RegType, NEW l2 \in Nat,
           Step(a, s2, r2, l2)
    PROVE  Types' /\ Sides' /\ StaysGood /\ StaysMarked
<1> USE DEF Step
<1>1. Known(sync[a], session[a], reg[a], lastId[a], wasRegistered, blocks)
  BY Locals
<1>2. Keeps(sync[a], s2, session[a], reg[a], r2, lastId[a], l2, wasRegistered, blocks)
  BY <1>1, MovesKeep
<1>3. Types /\ Types'
  BY DEF IInv, TypeOK, Types, RegType, SyncType
<1>4. /\ sync'[a] = s2 /\ reg'[a] = r2 /\ lastId'[a] = l2
      /\ \A b \in Attempt \ {a} : sync'[b] = sync[b] /\ reg'[b] = reg[b] /\ lastId'[b] = lastId[b]
      /\ session' = session /\ wasRegistered' = wasRegistered /\ blocks' = blocks
  BY <1>3 DEF Types
<1>5. Sides'
  BY <1>2, <1>4 DEF Keeps, Sides, IInv
<1>6. \A m \in Message : m.a \in Attempt
  BY DEF Message
<1>7. MonitorGood \subseteq MonitorGood'
  BY <1>2, <1>4, <1>6 DEF Keeps, MonitorGood
<1>8. TrackerGood \subseteq TrackerGood'
  BY <1>2, <1>4, <1>6 DEF Keeps, TrackerGood
<1>9. ASSUME NEW x \in MonitorGood, NEW y \in MonitorGood, <<x, y>> \in MonitorOrder
      PROVE  <<x, y>> \in MonitorOrder'
  <2>1. x \in Message /\ y \in Message /\ x.a \in Attempt
    BY <1>6 DEF MonitorGood
  <2>2. ToMonitorGood(x, sync[x.a], session[x.a], reg[x.a], lastId[x.a])
    BY DEF MonitorGood
  <2>3. x.a = y.a => InOrder(x, y, sync[x.a])
    BY <1>9 DEF MonitorOrder
  <2>4. x.a = y.a => InOrder(x, y, sync'[x.a])
    BY <1>2, <1>4, <2>1, <2>2, <2>3 DEF Keeps
  <2> QED
    BY <2>1, <2>4 DEF MonitorOrder
<1>10. toMonitor \in Seq(MonitorGood) /\ Ordered(toMonitor, MonitorOrder)
       /\ toTracker \in Seq(TrackerGood)
  BY DEF IInv, ToMonitorOK, ToTrackerOK
<1>11. StaysGood
  <2>1. toMonitor \in Seq(MonitorGood') /\ Ordered(toMonitor, MonitorOrder')
    BY <1>7, <1>9, <1>10, OrderedIn
  <2>2. toTracker \in Seq(TrackerGood')
    BY <1>8, <1>10, SeqIn
  <2> QED
    BY <2>1, <2>2 DEF StaysGood
<1>12. StaysMarked
  BY <1>2, <1>4 DEF Keeps, StaysMarked
<1> QED
  BY <1>3, <1>5, <1>11, <1>12

\* A message that is appended
LEMMA Sent ==
    ASSUME StaysGood, NEW x \in MonitorGood', \A y \in MonitorGood' : <<y, x>> \in MonitorOrder',
           toMonitor' = Append(toMonitor, x)
    PROVE  ToMonitorOK'
<1>1. toMonitor \in Seq(MonitorGood') /\ Ordered(toMonitor, MonitorOrder')
  BY DEF StaysGood
<1>2. \A i \in DOMAIN toMonitor : <<toMonitor[i], x>> \in MonitorOrder'
  BY <1>1
<1> QED
  BY <1>1, <1>2, OrderedAppend DEF ToMonitorOK

\* An Ack, and perhaps a request after it
LEMMA AckSent ==
    ASSUME IInv, StaysGood, NEW x \in MonitorGood',
           \A y \in MonitorGood : <<y, x>> \in MonitorOrder'
    PROVE  /\ toMonitor' = toMonitor \o <<x>> => ToMonitorOK'
           /\ \A z \in MonitorGood' :
                  /\ \A y \in MonitorGood \cup {x} : <<y, z>> \in MonitorOrder'
                  /\ toMonitor' = (toMonitor \o <<x>>) \o <<z>>
                  => ToMonitorOK'
<1>1. toMonitor \in Seq(MonitorGood') /\ Ordered(toMonitor, MonitorOrder')
  BY DEF StaysGood
<1>2. \A i \in DOMAIN toMonitor : <<toMonitor[i], x>> \in MonitorOrder'
  BY DEF IInv, ToMonitorOK
<1> DEFINE q == Append(toMonitor, x)
<1>3. q \in Seq(MonitorGood') /\ Ordered(q, MonitorOrder')
  BY <1>1, <1>2, OrderedAppend
<1>4. toMonitor \o <<x>> = q
  BY <1>1
<1> HIDE DEF q
<1>5. toMonitor' = toMonitor \o <<x>> => ToMonitorOK'
  BY <1>3, <1>4 DEF ToMonitorOK
<1>6. ASSUME NEW z \in MonitorGood',
             \A y \in MonitorGood \cup {x} : <<y, z>> \in MonitorOrder',
             toMonitor' = (toMonitor \o <<x>>) \o <<z>>
      PROVE  ToMonitorOK'
  <2>1. toMonitor' = Append(q, z)
    BY <1>3, <1>4, <1>6
  <2>2. \A i \in DOMAIN q : <<q[i], z>> \in MonitorOrder'
    <3>1. toMonitor \in Seq(MonitorGood) /\ \A i \in DOMAIN q : q[i] \in MonitorGood \cup {x}
      BY DEF q, IInv, ToMonitorOK
    <3> QED
      BY <1>6, <3>1
  <2> QED
    BY <1>3, <1>6, <2>1, <2>2, OrderedAppend DEF ToMonitorOK
<1> QED
  BY <1>5, <1>6

\* The tracker takes an answer: it acknowledges it and sends the next request
Kept == Types' /\ Sides' /\ StaysMarked /\ ToMonitorOK' /\ toTracker \in Seq(TrackerGood')

LEMMA MsgIn ==
    ASSUME NEW a \in Attempt, NEW id \in Nat, NEW n \in Nat,
           NEW kind \in Requesting \cup Asks \cup
                        {"AdmitAck", "Ack", "Admit", "Sync", "BitcoinHeader", "Info",
                         "Header", "Block"}
    PROVE  /\ Msg(a, kind, id, n) \in Message
           /\ Msg(a, kind, id, n).a = a /\ Msg(a, kind, id, n).kind = kind
           /\ Msg(a, kind, id, n).id = id /\ Msg(a, kind, id, n).n = n
BY DEF Msg, Message, Requesting, Asks

Answering(a, s2, id, kind, n) ==
    /\ Answers(sync[a], s2, reg[a], reg[a], lastId[a], lastId[a] + 1, wasRegistered, blocks)
    /\ sync' = [sync EXCEPT ![a] = s2] /\ lastId' = [lastId EXCEPT ![a] = lastId[a] + 1]
    /\ UNCHANGED <<reg, session, wasRegistered, blocks>>
    /\ Matches(s2, Msg(a, kind, lastId[a] + 1, n))
    /\ toMonitor' = (toMonitor \o <<Msg(a, "Ack", id, 0)>>)
                        \o <<Msg(a, kind, lastId[a] + 1, n)>>

LEMMA AnsweringKeeps ==
    ASSUME IInv, NEW a \in Attempt, NEW s2 \in SyncType, NEW id \in 1 .. lastId[a],
           NEW kind \in Requesting \ {"SyncAsk"}, NEW n \in Nat,
           Answering(a, s2, id, kind, n)
    PROVE  Kept
<1> DEFINE l2 == lastId[a] + 1
           ack == Msg(a, "Ack", id, 0)
           m == Msg(a, kind, l2, n)
<1>1. lastId[a] \in Nat /\ reg[a] \in RegType /\ l2 \in Nat /\ id \in Nat
  BY DEF IInv, TypeOK, RegType
<1>2. Known(sync[a], session[a], reg[a], lastId[a], wasRegistered, blocks)
  BY Locals
<1>3. Step(a, s2, reg[a], l2)
  BY <1>1 DEF Answering, Step, Moves, IInv, TypeOK
<1>4. Types' /\ Sides' /\ StaysGood /\ StaysMarked
  BY <1>1, <1>3, StepKeeps
<1>5. /\ sync'[a] = s2 /\ reg'[a] = reg[a] /\ lastId'[a] = l2 /\ session'[a] = session[a]
  BY DEF Answering, IInv, TypeOK
<1>6. ack \in Message /\ ack.a = a /\ ack.kind = "Ack" /\ ack.id = id
  BY <1>1, MsgIn
<1>7. m \in Message /\ m.a = a /\ m.kind = kind /\ m.id = l2 /\ m.n = n
  BY <1>1, MsgIn
<1>8. Matches(s2, m) /\ Answers(sync[a], s2, reg[a], reg[a], lastId[a], l2, wasRegistered, blocks)
      /\ toMonitor' = (toMonitor \o <<ack>>) \o <<m>>
  BY DEF Answering
<1> HIDE DEF l2, ack, m
<1>9. /\ ToMonitorGood(ack, s2, session[a], reg[a], l2)
      /\ \A x \in Message : ToMonitorGood(x, sync[a], session[a], reg[a], lastId[a]) =>
                                InOrder(x, ack, s2)
  BY <1>2, <1>6, <1>8, AckFollows
<1>10. /\ ToMonitorGood(m, s2, session[a], reg[a], l2)
       /\ \A x \in Message : InOrder(x, m, s2)
  BY <1>2, <1>7, <1>8, RequestFollows
<1>11. ack \in MonitorGood' /\ m \in MonitorGood'
  BY <1>5, <1>6, <1>7, <1>9, <1>10 DEF MonitorGood
<1>12. ASSUME NEW y \in MonitorGood
       PROVE  <<y, ack>> \in MonitorOrder'
  BY <1>5, <1>6, <1>9 DEF MonitorGood, MonitorOrder
<1>13. ASSUME NEW y \in MonitorGood \cup {ack}
       PROVE  <<y, m>> \in MonitorOrder'
  <2>1. y \in Message
    BY <1>6 DEF MonitorGood
  <2> QED
    BY <1>5, <1>7, <1>10, <2>1 DEF MonitorOrder
<1>14. ToMonitorOK'
  BY <1>4, <1>8, <1>11, <1>12, <1>13, AckSent
<1> QED
  BY <1>4, <1>14 DEF Kept, StaysGood

\* ... or is done
Finishing(a, s2, id) ==
    /\ Exits(sync[a], s2, reg[a], reg[a], lastId[a], lastId[a])
    /\ sync' = [sync EXCEPT ![a] = s2]
    /\ UNCHANGED <<lastId, reg, session, wasRegistered, blocks>>
    /\ toMonitor' = toMonitor \o <<Msg(a, "Ack", id, 0)>>

LEMMA FinishingKeeps ==
    ASSUME IInv, NEW a \in Attempt, NEW s2 \in SyncType, NEW id \in 1 .. lastId[a],
           Finishing(a, s2, id)
    PROVE  Kept
<1> DEFINE ack == Msg(a, "Ack", id, 0)
<1>1. lastId[a] \in Nat /\ reg[a] \in RegType /\ id \in Nat
  BY DEF IInv, TypeOK, RegType
<1>2. Known(sync[a], session[a], reg[a], lastId[a], wasRegistered, blocks)
  BY Locals
<1>3. Step(a, s2, reg[a], lastId[a])
  BY <1>1 DEF Finishing, Step, Moves, IInv, TypeOK
<1>4. Types' /\ Sides' /\ StaysGood /\ StaysMarked
  BY <1>1, <1>3, StepKeeps
<1>5. /\ sync'[a] = s2 /\ reg'[a] = reg[a] /\ lastId'[a] = lastId[a] /\ session'[a] = session[a]
  BY DEF Finishing, IInv, TypeOK
<1>6. ack \in Message /\ ack.a = a /\ ack.kind = "Ack" /\ ack.id = id
  BY <1>1, MsgIn
<1>8. Exits(sync[a], s2, reg[a], reg[a], lastId[a], lastId[a])
      /\ toMonitor' = toMonitor \o <<ack>>
  BY DEF Finishing
<1> HIDE DEF ack
<1>9. /\ ToMonitorGood(ack, s2, session[a], reg[a], lastId[a])
      /\ \A x \in Message : ToMonitorGood(x, sync[a], session[a], reg[a], lastId[a]) =>
                                InOrder(x, ack, s2)
  BY <1>2, <1>6, <1>8, AckFollows
<1>11. ack \in MonitorGood'
  BY <1>5, <1>6, <1>9 DEF MonitorGood
<1>12. ASSUME NEW y \in MonitorGood
       PROVE  <<y, ack>> \in MonitorOrder'
  BY <1>5, <1>6, <1>9 DEF MonitorGood, MonitorOrder
<1>14. ToMonitorOK'
  BY <1>4, <1>8, <1>11, <1>12, AckSent
<1> QED
  BY <1>4, <1>14 DEF Kept, StaysGood

\* ... or asks again.
Repeating(a, s2, kind, n) ==
    /\ AsksAgain(sync[a], s2, reg[a], reg[a], lastId[a], lastId[a] + 1)
    /\ sync' = [sync EXCEPT ![a] = s2] /\ lastId' = [lastId EXCEPT ![a] = lastId[a] + 1]
    /\ UNCHANGED <<reg, session, wasRegistered, blocks>>
    /\ Matches(s2, Msg(a, kind, lastId[a] + 1, n))
    /\ toMonitor' = Append(toMonitor, Msg(a, kind, lastId[a] + 1, n))

LEMMA RepeatingKeeps ==
    ASSUME IInv, NEW a \in Attempt, NEW s2 \in SyncType,
           NEW kind \in Requesting \ {"SyncAsk"}, NEW n \in Nat,
           Repeating(a, s2, kind, n)
    PROVE  Kept
<1> DEFINE l2 == lastId[a] + 1
           m == Msg(a, kind, l2, n)
<1>1. lastId[a] \in Nat /\ reg[a] \in RegType /\ l2 \in Nat
  BY DEF IInv, TypeOK, RegType
<1>2. Known(sync[a], session[a], reg[a], lastId[a], wasRegistered, blocks)
  BY Locals
<1>3. Step(a, s2, reg[a], l2)
  BY <1>1 DEF Repeating, Step, Moves, IInv, TypeOK
<1>4. Types' /\ Sides' /\ StaysGood /\ StaysMarked
  BY <1>1, <1>3, StepKeeps
<1>5. /\ sync'[a] = s2 /\ reg'[a] = reg[a] /\ lastId'[a] = l2 /\ session'[a] = session[a]
  BY DEF Repeating, IInv, TypeOK
<1>7. m \in Message /\ m.a = a /\ m.kind = kind /\ m.id = l2 /\ m.n = n
  BY <1>1, MsgIn
<1>8. Matches(s2, m) /\ AsksAgain(sync[a], s2, reg[a], reg[a], lastId[a], l2)
      /\ toMonitor' = Append(toMonitor, m)
  BY DEF Repeating
<1> HIDE DEF l2, m
<1>10. /\ ToMonitorGood(m, s2, session[a], reg[a], l2)
       /\ \A x \in Message : InOrder(x, m, s2)
  BY <1>2, <1>7, <1>8, RequestFollows
<1>11. m \in MonitorGood'
  BY <1>5, <1>7, <1>10 DEF MonitorGood
<1>13. ASSUME NEW y \in MonitorGood'
       PROVE  <<y, m>> \in MonitorOrder'
  BY <1>5, <1>7, <1>10 DEF MonitorGood, MonitorOrder
<1>14. ToMonitorOK'
  BY <1>4, <1>8, <1>11, <1>13, Sent
<1> QED
  BY <1>4, <1>14 DEF Kept, StaysGood

\* ... or sends nothing.
LEMMA SilentKeeps ==
    ASSUME IInv, NEW a \in Attempt, NEW s2 \in SyncType, NEW r2 \in RegType, NEW l2 \in Nat,
           Step(a, s2, r2, l2), toMonitor' = toMonitor
    PROVE  Kept
BY StepKeeps DEF Kept, StaysGood, ToMonitorOK

LEMMA QueueTypes ==
    ASSUME ToMonitorOK', ToTrackerOK'
    PROVE  toMonitor' \in Seq(Message) /\ toTracker' \in Seq(Message)
<1>1. MonitorGood' \subseteq Message /\ TrackerGood' \subseteq Message
  BY DEF MonitorGood, TrackerGood
<1>2. toMonitor' \in Seq(MonitorGood') /\ toTracker' \in Seq(TrackerGood')
  BY DEF ToMonitorOK, ToTrackerOK
<1>3. toMonitor' \in Seq(Message)
  BY <1>1, <1>2, SeqIn
<1>4. toTracker' \in Seq(Message)
  BY <1>1, <1>2, SeqIn
<1> QED
  BY <1>3, <1>4

LEMMA KeptIsEnough ==
    ASSUME IInv, Kept, UNCHANGED <<monitor, storage>>,
           toTracker' = toTracker \/ (toTracker # <<>> /\ toTracker' = Tail(toTracker)),
           connected' \subseteq Attempt, connected' # {} => wasRegistered,
           retries' \in 0 .. MaxRetries, disturbed' \in BOOLEAN
    PROVE  IInv'
<1>1. ToTrackerOK'
  <2>1. toTracker \in Seq(TrackerGood')
    BY DEF Kept
  <2> QED
    BY <2>1 DEF ToTrackerOK
<1>2. ToMonitorOK' /\ Sides'
  BY DEF Kept
<1>3. TypeOK'
  <2>1. toMonitor' \in Seq(Message) /\ toTracker' \in Seq(Message)
    BY <1>1, <1>2, QueueTypes
  <2> QED
    BY <2>1 DEF Kept, Types, RegType, SyncType, IInv, TypeOK, monitor, reputation, storage
<1>4. Membership'
  <2>1. marked' = marked /\ marked \subseteq Attempt /\ allowed' = allowed
        /\ wasRegistered' = wasRegistered /\ Membership
    BY DEF IInv, TypeOK, monitor, reputation
  <2>2. \A a \in marked' : Marked(sync[a], session[a])'
    BY <2>1 DEF Membership, Kept, StaysMarked
  <2>3. allowed' \/ connected' # {} => wasRegistered'
    BY <2>1 DEF Membership
  <2> QED
    BY <2>2, <2>3 DEF Membership
<1> QED
  BY <1>1, <1>2, <1>3, <1>4 DEF IInv

\* The answers that reach an action
LEMMA AnswerHeld ==
    ASSUME IInv, NEW a \in Attempt, NEW R, NEW kind, Answered(a, R, kind)
    PROVE  /\ Head(toTracker) \in Message
           /\ ToTrackerGood(Head(toTracker), sync[a], lastId[a], wasRegistered, blocks)
           /\ Head(toTracker).id \in 1 .. lastId[a] /\ Head(toTracker).id \in R
           /\ Head(toTracker).kind = kind
           /\ toTracker # <<>> /\ toTracker' = Tail(toTracker)
<1>1. toTracker \in Seq(TrackerGood) /\ toTracker # <<>>
  BY DEF IInv, ToTrackerOK, Answered
<1>2. Head(toTracker) \in TrackerGood
  BY <1>1
<1> QED
  BY <1>1, <1>2 DEF TrackerGood, ToTrackerGood, Answered

\* One that has joined the network has no request open.
LEMMA NotYetGood ==
    ASSUME IInv, NEW a \in Attempt, NEW id \in Requests(a), id \in 1 .. lastId[a]
    PROVE  sync[a].result # "good"
BY DEF IInv, Sides, TrackerSide, Requests, TypeOK
-----------------------------------------------------------------------------
(* Actions of the tracker                                                  *)

LEMMA AskKeeps ==
    ASSUME IInv, NEW a \in Attempt, NEW s1 \in SyncType, NEW id \in 1 .. lastId[a],
           NEW kind \in Requesting \ {"SyncAsk"}, NEW n \in Nat, NEW timer \in BOOLEAN,
           Ask(a, s1, <<Msg(a, "Ack", id, 0)>>, kind, n, timer),
           UNCHANGED <<reg, session, wasRegistered, blocks>>,
           Goes(sync[a], s1, wasRegistered, blocks),
           Matches(s1, Msg(a, kind, lastId[a] + 1, n))
    PROVE  Kept
<1> DEFINE late == IF timer THEN "set" ELSE IF s1.timer = "none" THEN s1.timer ELSE "late"
           s2 == [s1 EXCEPT !.id = lastId[a] + 1, !.timer = late]
<1>1. lastId[a] \in Nat /\ lastId \in [Attempt -> Nat] /\ lastId[a] + 1 \in Nat
  BY DEF IInv, TypeOK
<1>2. late \in {"none", "set", "late"}
  BY DEF SyncType
<1>3. lastId' = [lastId EXCEPT ![a] = lastId[a] + 1] /\ lastId'[a] = lastId[a] + 1
  BY <1>1 DEF Ask
<1>4. sync' = [sync EXCEPT ![a] = s2]
  BY <1>3 DEF Ask
<1> HIDE DEF late
<1>5. /\ s2 \in SyncType /\ s2.id = lastId[a] + 1 /\ s2.old = s1.old /\ s2.state = s1.state
      /\ s2.k = s1.k /\ s2.size = s1.size /\ s2.result = s1.result
  BY <1>1, <1>2 DEF SyncType
<1> HIDE DEF s2
<1>6. Answers(sync[a], s2, reg[a], reg[a], lastId[a], lastId[a] + 1, wasRegistered, blocks)
  BY <1>5 DEF Answers, Goes
<1>7. Matches(s2, Msg(a, kind, lastId[a] + 1, n))
  BY <1>5 DEF Matches
<1>8. Answering(a, s2, id, kind, n)
  BY <1>3, <1>4, <1>6, <1>7 DEF Answering, Ask
<1> QED
  BY <1>5, <1>8, AnsweringKeeps

\* What else an answer changes
LEMMA AnswerIsEnough ==
    ASSUME IInv, Kept, toTracker # <<>>, toTracker' = Tail(toTracker),
           UNCHANGED <<connected, monitor, storage, retries, disturbed>>
    PROVE  IInv'
<1>1. connected' \subseteq Attempt /\ (connected' # {} => wasRegistered)
      /\ retries' \in 0 .. MaxRetries /\ disturbed' \in BOOLEAN
  BY DEF IInv, TypeOK, Membership
<1> QED
  BY <1>1, KeptIsEnough

LEMMA SyncResultKeeps ==
    ASSUME IInv, NEW a \in Attempt, SyncResult(a)
    PROVE  IInv'
<1> DEFINE m == Head(toTracker)
           s == sync[a]
<1>1. /\ m \in Message /\ ToTrackerGood(m, s, lastId[a], wasRegistered, blocks)
      /\ m.id \in 1 .. lastId[a] /\ m.id \in Requests(a) /\ m.kind = "Sync"
      /\ toTracker # <<>> /\ toTracker' = Tail(toTracker)
  BY AnswerHeld DEF SyncResult
<1>2. s.result # "good"
  BY <1>1, NotYetGood
<1>3. s \in SyncType /\ s.state = "ask"
  BY DEF IInv, TypeOK, SyncType, SyncResult
<1>4. UNCHANGED <<reg, session, wasRegistered, blocks>>
  BY DEF SyncResult, monitor, reputation, storage
<1>5. Kept
  <2>1. CASE m.n = 1 /\ Ask(a, [Taken(s) EXCEPT !.state = "bitcoin"], SyncAck(a),
                            "BitcoinAsk", 0, TRUE)
    <3> DEFINE s1 == [Taken(s) EXCEPT !.state = "bitcoin"]
    <3>1. s1 \in SyncType /\ Goes(s, s1, wasRegistered, blocks)
      BY <1>1, <1>2, <1>3, <2>1 DEF Goes, ToTrackerGood, SyncType, Taken
    <3>2. Matches(s1, Msg(a, "BitcoinAsk", lastId[a] + 1, 0))
      BY <1>3 DEF Matches, Msg, SyncType, Taken
    <3>3. Ask(a, s1, <<Msg(a, "Ack", m.id, 0)>>, "BitcoinAsk", 0, TRUE)
      BY <2>1 DEF SyncAck
    <3> HIDE DEF s1
    <3> QED
      BY <1>1, <1>4, <3>1, <3>2, <3>3, AskKeeps DEF Requesting
  <2>2. CASE /\ m.n = 0 /\ sync' = [sync EXCEPT ![a] = Exit(@, "bad")]
             /\ toMonitor' = toMonitor \o SyncAck(a)
             /\ UNCHANGED lastId
    <3> DEFINE s2 == Exit(s, "bad")
    <3>1. s2 \in SyncType /\ Exits(s, s2, reg[a], reg[a], lastId[a], lastId[a])
      BY <1>2, <1>3 DEF Exit, Exits, SyncType
    <3>2. Finishing(a, s2, m.id)
      BY <1>4, <2>2, <3>1 DEF Finishing, SyncAck
    <3> HIDE DEF s2
    <3> QED
      BY <1>1, <3>1, <3>2, FinishingKeeps
  <2> QED
    BY <2>1, <2>2 DEF SyncResult
<1> QED
  BY <1>1, <1>5, AnswerIsEnough DEF SyncResult

LEMMA BitcoinHeaderKeeps ==
    ASSUME IInv, NEW a \in Attempt, BitcoinHeader(a)
    PROVE  IInv'
<1> DEFINE m == Head(toTracker)
           s == sync[a]
           s1 == [Taken(s) EXCEPT !.state = "info", !.timer = "none"]
<1>1. /\ m.id \in 1 .. lastId[a] /\ m.id \in Requests(a)
      /\ toTracker # <<>> /\ toTracker' = Tail(toTracker)
  BY AnswerHeld DEF BitcoinHeader
<1>2. s.result # "good"
  BY <1>1, NotYetGood
<1>3. s \in SyncType /\ s.state = "bitcoin"
  BY DEF IInv, TypeOK, SyncType, BitcoinHeader
<1>4. UNCHANGED <<reg, session, wasRegistered, blocks>>
  BY DEF BitcoinHeader, monitor, reputation, storage
<1>5. Kept
  <2>1. s1 \in SyncType /\ Goes(s, s1, wasRegistered, blocks)
    BY <1>2, <1>3 DEF Goes, SyncType, Taken
  <2>2. Matches(s1, Msg(a, "StorageAsk", lastId[a] + 1, 0))
    BY <1>3 DEF Matches, Msg, SyncType, Taken
  <2>3. Ask(a, s1, <<Msg(a, "Ack", m.id, 0)>>, "StorageAsk", 0, FALSE)
    BY DEF BitcoinHeader, SyncAck
  <2> HIDE DEF s1
  <2> QED
    BY <1>1, <1>4, <2>1, <2>2, <2>3, AskKeeps DEF Requesting
<1> QED
  BY <1>1, <1>5, AnswerIsEnough DEF BitcoinHeader

LEMMA SynchronizationInfoKeeps ==
    ASSUME IInv, NEW a \in Attempt, SynchronizationInfo(a)
    PROVE  IInv'
<1> DEFINE m == Head(toTracker)
           s == sync[a]
           s1 == [Taken(s) EXCEPT !.state = "headers", !.k = 0, !.size = m.n]
<1>1. /\ m \in Message /\ ToTrackerGood(m, s, lastId[a], wasRegistered, blocks)
      /\ m.id \in 1 .. lastId[a] /\ m.id \in Requests(a) /\ m.kind = "Info"
      /\ toTracker # <<>> /\ toTracker' = Tail(toTracker)
  BY AnswerHeld DEF SynchronizationInfo
<1>2. s.result # "good"
  BY <1>1, NotYetGood
<1>3. s \in SyncType /\ s.state = "info"
  BY DEF IInv, TypeOK, SyncType, SynchronizationInfo
<1>4. UNCHANGED <<reg, session, wasRegistered, blocks>>
  BY DEF SynchronizationInfo, monitor, reputation, storage
<1>5. m.n \in 1 .. blocks /\ blocks \in FirstBlocks .. MaxBlocks
  BY <1>1 DEF ToTrackerGood, IInv, TypeOK
<1>6. m.n \in 0 .. MaxBlocks
  BY <1>5
<1>7. Kept
  <2>1. s1 \in SyncType /\ Goes(s, s1, wasRegistered, blocks)
    BY <1>2, <1>3, <1>5, <1>6 DEF Goes, SyncType, Taken
  <2>2. Matches(s1, Msg(a, "GetHeader", lastId[a] + 1, 0))
    BY <1>3 DEF Matches, Msg, SyncType, Taken
  <2>3. Ask(a, s1, <<Msg(a, "Ack", m.id, 0)>>, "GetHeader", 0, TRUE)
    BY DEF SynchronizationInfo, SyncAck
  <2> HIDE DEF s1
  <2> QED
    BY <1>1, <1>4, <2>1, <2>2, <2>3, AskKeeps DEF Requesting
<1> QED
  BY <1>1, <1>7, AnswerIsEnough DEF SynchronizationInfo

LEMMA HeaderReceivedKeeps ==
    ASSUME IInv, NEW a \in Attempt, HeaderReceived(a)
    PROVE  IInv'
<1> DEFINE m == Head(toTracker)
           s == sync[a]
           k == s.k + 1
<1>1. /\ m.id \in 1 .. lastId[a] /\ m.id \in Requests(a)
      /\ toTracker # <<>> /\ toTracker' = Tail(toTracker)
  BY AnswerHeld DEF HeaderReceived
<1>2. s.result # "good"
  BY <1>1, NotYetGood
<1>3. s \in SyncType /\ s.state = "headers" /\ k \in Nat
  <2>1. s \in SyncType
    BY DEF IInv, TypeOK, SyncType
  <2> QED
    BY <2>1 DEF SyncType, HeaderReceived
<1>4. UNCHANGED <<reg, session, wasRegistered, blocks>>
  BY DEF HeaderReceived, monitor, reputation, storage
<1>5. Kept
  <2>1. CASE Ask(a, [Taken(s) EXCEPT !.k = k], SyncAck(a), "GetHeader", k, FALSE)
    <3> DEFINE s1 == [Taken(s) EXCEPT !.k = k]
    <3>1. s1 \in SyncType /\ Goes(s, s1, wasRegistered, blocks)
      BY <1>2, <1>3 DEF Goes, SyncType, Taken
    <3>2. Matches(s1, Msg(a, "GetHeader", lastId[a] + 1, k))
      BY <1>3 DEF Matches, Msg, SyncType, Taken
    <3>3. Ask(a, s1, <<Msg(a, "Ack", m.id, 0)>>, "GetHeader", k, FALSE)
      BY <2>1 DEF SyncAck
    <3> HIDE DEF s1
    <3> QED
      BY <1>1, <1>3, <1>4, <3>1, <3>2, <3>3, AskKeeps DEF Requesting
  <2>2. CASE Ask(a, [Taken(s) EXCEPT !.state = "blocks", !.k = 0], SyncAck(a), "GetBlock",
                 0, TRUE)
    <3> DEFINE s1 == [Taken(s) EXCEPT !.state = "blocks", !.k = 0]
    <3>1. s1 \in SyncType /\ Goes(s, s1, wasRegistered, blocks)
      BY <1>2, <1>3 DEF Goes, SyncType, Taken
    <3>2. Matches(s1, Msg(a, "GetBlock", lastId[a] + 1, 0))
      BY <1>3 DEF Matches, Msg, SyncType, Taken
    <3>3. Ask(a, s1, <<Msg(a, "Ack", m.id, 0)>>, "GetBlock", 0, TRUE)
      BY <2>2 DEF SyncAck
    <3> HIDE DEF s1
    <3> QED
      BY <1>1, <1>4, <3>1, <3>2, <3>3, AskKeeps DEF Requesting
  <2> QED
    BY <2>1, <2>2 DEF HeaderReceived
<1> QED
  BY <1>1, <1>5, AnswerIsEnough DEF HeaderReceived

LEMMA BlockReceivedKeeps ==
    ASSUME IInv, NEW a \in Attempt, BlockReceived(a)
    PROVE  IInv'
<1> DEFINE m == Head(toTracker)
           s == sync[a]
           k == s.k + 1
           s1 == [Taken(s) EXCEPT !.k = k]
<1>1. /\ m.id \in 1 .. lastId[a] /\ m.id \in Requests(a)
      /\ toTracker # <<>> /\ toTracker' = Tail(toTracker)
  BY AnswerHeld DEF BlockReceived
<1>2. s.result # "good"
  BY <1>1, NotYetGood
<1>3. s \in SyncType /\ s.state = "blocks" /\ k \in Nat
  <2>1. s \in SyncType
    BY DEF IInv, TypeOK, SyncType
  <2> QED
    BY <2>1 DEF SyncType, BlockReceived
<1>4. UNCHANGED <<reg, session, wasRegistered, blocks>>
  BY DEF BlockReceived, monitor, reputation, storage
<1>5. Kept
  <2>1. CASE s.size > k /\ Ask(a, s1, SyncAck(a), "GetBlock", k, FALSE)
    <3>1. s1 \in SyncType /\ Goes(s, s1, wasRegistered, blocks)
      BY <1>2, <1>3, <2>1 DEF Goes, SyncType, Taken
    <3>2. Matches(s1, Msg(a, "GetBlock", lastId[a] + 1, k))
      BY <1>3 DEF Matches, Msg, SyncType, Taken
    <3>3. Ask(a, s1, <<Msg(a, "Ack", m.id, 0)>>, "GetBlock", k, FALSE)
      BY <2>1 DEF SyncAck
    <3> HIDE DEF s1
    <3> QED
      BY <1>1, <1>3, <1>4, <3>1, <3>2, <3>3, AskKeeps DEF Requesting
  <2>2. CASE /\ s.size <= k /\ sync' = [sync EXCEPT ![a] = Exit(s1, "good")]
             /\ toMonitor' = toMonitor \o SyncAck(a)
             /\ UNCHANGED lastId
    <3> DEFINE s2 == Exit(s1, "good")
    <3>1. s2 \in SyncType /\ Exits(s, s2, reg[a], reg[a], lastId[a], lastId[a])
      BY <1>2, <1>3, <2>2 DEF Exit, Exits, SyncType, Taken
    <3>2. Finishing(a, s2, m.id)
      BY <1>4, <2>2, <3>1 DEF Finishing, SyncAck
    <3> HIDE DEF s2
    <3> QED
      BY <1>1, <3>1, <3>2, FinishingKeeps
  <2> QED
    BY <2>1, <2>2 DEF BlockReceived
<1> QED
  BY <1>1, <1>5, AnswerIsEnough DEF BlockReceived

LEMMA SyncTimeoutKeeps ==
    ASSUME IInv, NEW a \in Attempt, SyncTimeout(a)
    PROVE  IInv'
<1> DEFINE s == sync[a]
           old == IF s.old = 0 THEN s.id ELSE s.old
           s1 == [s EXCEPT !.old = old]
<1>1. /\ s \in SyncType /\ lastId[a] \in Nat /\ lastId \in [Attempt -> Nat]
      /\ lastId[a] + 1 \in Nat /\ reg[a] \in RegType /\ reg = [reg EXCEPT ![a] = reg[a]]
      /\ lastId = [lastId EXCEPT ![a] = lastId[a]]
  BY DEF IInv, TypeOK, SyncType, RegType
<1>2. UNCHANGED <<reg, session, wasRegistered, blocks>>
  BY DEF SyncTimeout, monitor, reputation, storage
<1>3. old \in {s.id, s.old} /\ old \in Nat
  BY <1>1 DEF SyncType
<1>4. s.result = "good" => old = 0
  BY DEF IInv, Sides, TrackerSide, SyncTimeout
<1> HIDE DEF old
<1>5. /\ s1 \in SyncType /\ s1.old = old /\ s1.state = s.state /\ s1.k = s.k
      /\ s1.size = s.size /\ s1.result = s.result /\ s1.exit = s.exit
  BY <1>1, <1>3 DEF SyncType
<1>6. Kept
  <2>1. CASE /\ s1.state \in {"ask", "bitcoin"}
             /\ sync' = [sync EXCEPT ![a] = [s1 EXCEPT !.exit = TRUE, !.timer = "none",
                    !.id = 0, !.result = IF s1.state = "bitcoin" THEN "bad" ELSE @]]
             /\ UNCHANGED <<lastId, toMonitor, retries>>
    <3> DEFINE result == IF s1.state = "bitcoin" THEN "bad" ELSE s1.result
               s2 == [s1 EXCEPT !.exit = TRUE, !.timer = "none", !.id = 0, !.result = result]
    <3>1. result \in {"none", "bad", "good"} /\ result \in {s.result, "bad"}
          /\ sync' = [sync EXCEPT ![a] = s2]
      BY <1>1, <1>5, <2>1 DEF SyncType
    <3> HIDE DEF s1, result
    <3>2. s2 \in SyncType /\ Leaves(s, s2, reg[a], reg[a], lastId[a], lastId[a])
      BY <1>3, <1>5, <2>1, <3>1 DEF SyncType, Leaves, Same
    <3>3. Step(a, s2, reg[a], lastId[a])
      BY <1>1, <1>2, <2>1, <3>1, <3>2 DEF Step, Moves
    <3> QED
      BY <1>1, <2>1, <3>2, <3>3, SilentKeeps
  <2>2. CASE /\ s1.state \in {"headers", "blocks"}
             /\ Ask(a, s1, <<>>, IF s1.state = "headers" THEN "GetHeader" ELSE "GetBlock",
                    s1.k, TRUE)
    <3> DEFINE kind == IF s1.state = "headers" THEN "GetHeader" ELSE "GetBlock"
               s2 == [s1 EXCEPT !.id = lastId[a] + 1, !.timer = "set"]
    <3>1. /\ lastId' = [lastId EXCEPT ![a] = lastId[a] + 1] /\ lastId'[a] = lastId[a] + 1
          /\ kind \in Requesting \ {"SyncAsk"}
      BY <1>1, <2>2 DEF Ask, Requesting
    <3>2. sync' = [sync EXCEPT ![a] = s2]
          /\ toMonitor' = (toMonitor \o <<>>) \o <<Msg(a, kind, lastId[a] + 1, s1.k)>>
      BY <2>2, <3>1 DEF Ask
    <3> HIDE DEF s1
    <3>3. s2 \in SyncType /\ s2.state = s.state /\ s2.k = s.k /\ s.k \in Nat
          /\ AsksAgain(s, s2, reg[a], reg[a], lastId[a], lastId[a] + 1)
      BY <1>1, <1>3, <1>4, <1>5, <2>2 DEF SyncType, AsksAgain, Same
    <3> HIDE DEF s2
    <3>4. Matches(s2, Msg(a, kind, lastId[a] + 1, s.k))
      BY <1>5, <2>2, <3>3 DEF Matches, Msg
    <3> HIDE DEF kind
    <3>5. toMonitor' = Append(toMonitor, Msg(a, kind, lastId[a] + 1, s.k))
      <4>1. toMonitor \in Seq(Message)
        BY DEF IInv, TypeOK
      <4> QED
        BY <1>5, <3>2, <4>1
    <3>6. Repeating(a, s2, kind, s.k)
      BY <1>2, <3>1, <3>2, <3>3, <3>4, <3>5 DEF Repeating
    <3> QED
      BY <3>1, <3>3, <3>6, RepeatingKeeps
  <2> QED
    BY <2>1, <2>2 DEF SyncTimeout, old
<1>7. connected' \subseteq Attempt /\ (connected' # {} => wasRegistered)
      /\ disturbed' \in BOOLEAN /\ toTracker' = toTracker /\ UNCHANGED <<monitor, storage>>
  BY DEF SyncTimeout, IInv, TypeOK, Membership
<1>8. retries' \in 0 .. MaxRetries
  <2>1. retries' = retries \/ (retries < MaxRetries /\ retries' = retries + 1)
    BY DEF SyncTimeout
  <2>2. retries \in 0 .. MaxRetries
    BY DEF IInv, TypeOK
  <2> QED
    BY <2>1, <2>2
<1> QED
  BY <1>6, <1>7, <1>8, KeptIsEnough

LEMMA SyncTurnKeeps ==
    ASSUME IInv, NEW a \in Attempt, SyncTurn(a)
    PROVE  IInv'
<1> DEFINE s == sync[a]
           timer == IF s.timer = "late" THEN "none" ELSE s.timer
           s2 == [s EXCEPT !.old = 0, !.timer = timer]
<1>1. /\ s \in SyncType /\ lastId[a] \in Nat /\ reg[a] \in RegType
      /\ reg = [reg EXCEPT ![a] = reg[a]] /\ lastId = [lastId EXCEPT ![a] = lastId[a]]
  BY DEF IInv, TypeOK, SyncType, RegType
<1>2. UNCHANGED <<reg, lastId, session, wasRegistered, blocks, toMonitor>>
  BY DEF SyncTurn, monitor, reputation, storage
<1>3. sync' = [sync EXCEPT ![a] = s2] /\ s.state # "none"
  BY DEF SyncTurn, IInv, TypeOK
<1>4. s2 \in SyncType /\ Turns(s, s2, reg[a], reg[a], lastId[a], lastId[a])
  BY <1>1, <1>3 DEF SyncType, Turns, Same
<1> HIDE DEF s2
<1>5. Step(a, s2, reg[a], lastId[a])
  BY <1>1, <1>2, <1>3, <1>4 DEF Step, Moves
<1>6. Kept
  BY <1>1, <1>2, <1>4, <1>5, SilentKeeps
<1>7. /\ connected' \subseteq Attempt /\ (connected' # {} => wasRegistered)
      /\ retries' \in 0 .. MaxRetries
      /\ disturbed' \in BOOLEAN /\ toTracker' = toTracker /\ UNCHANGED <<monitor, storage>>
  BY DEF SyncTurn, IInv, TypeOK, Membership
<1> QED
  BY <1>6, <1>7, KeptIsEnough

LEMMA SyncEndKeeps ==
    ASSUME IInv, NEW a \in Attempt, SyncEnd(a)
    PROVE  IInv'
<1> DEFINE s == sync[a]
           s2 == [s EXCEPT !.state = "done"]
<1>1. /\ s \in SyncType /\ lastId[a] \in Nat /\ reg[a] \in RegType
      /\ reg \in [Attempt -> RegType] /\ lastId = [lastId EXCEPT ![a] = lastId[a]]
      /\ reg = [reg EXCEPT ![a] = reg[a]]
  BY DEF IInv, TypeOK, SyncType, RegType
<1>2. UNCHANGED <<lastId, session, wasRegistered, blocks, toMonitor>>
  BY DEF SyncEnd, monitor, reputation, storage
<1>3. sync' = [sync EXCEPT ![a] = s2] /\ s.exit
  BY DEF SyncEnd, IInv, TypeOK
<1>4. PICK exit \in BOOLEAN : reg' = [reg EXCEPT ![a] = [reg[a] EXCEPT !.exit = exit]]
  <2>1. reg' = [reg EXCEPT ![a] = [reg[a] EXCEPT !.exit = TRUE]] \/ reg' = reg
    BY DEF SyncEnd, SynchronizationResult
  <2>2. reg[a].exit \in BOOLEAN /\ [reg[a] EXCEPT !.exit = reg[a].exit] = reg[a]
    BY <1>1 DEF RegType
  <2>3. CASE reg' = reg
    <3>1. reg' = [reg EXCEPT ![a] = [reg[a] EXCEPT !.exit = reg[a].exit]]
      BY <1>1, <2>2, <2>3
    <3> QED
      BY <2>2, <3>1
  <2> QED
    BY <2>1, <2>3
<1> DEFINE r2 == [reg[a] EXCEPT !.exit = exit]
<1>5. r2 \in RegType /\ r2.state = reg[a].state
  BY <1>1 DEF RegType
<1>6. s2 \in SyncType
  BY <1>1 DEF SyncType
<1>7. Ends(s, s2, reg[a], r2, lastId[a], lastId[a])
  BY <1>3, <1>5 DEF Ends
<1> HIDE DEF s2, r2
<1>8. Step(a, s2, r2, lastId[a])
  BY <1>1, <1>2, <1>3, <1>4, <1>7 DEF Step, Moves, r2
<1>9. Kept
  BY <1>1, <1>2, <1>5, <1>6, <1>8, SilentKeeps
<1>10. s.result = "good" => wasRegistered
  BY DEF IInv, Sides, TrackerSide
<1>11. connected' \subseteq Attempt /\ (connected' # {} => wasRegistered)
  BY <1>10 DEF SyncEnd, SynchronizationResult, IInv, TypeOK, Membership
<1>12. /\ retries' \in 0 .. MaxRetries /\ disturbed' \in BOOLEAN /\ toTracker' = toTracker
       /\ UNCHANGED <<monitor, storage>>
  BY DEF SyncEnd, IInv, TypeOK
<1> QED
  BY <1>9, <1>11, <1>12, KeptIsEnough

\* The register action takes a step of its own.
LEMMA RegisterStepKeeps ==
    ASSUME IInv, NEW a \in Attempt, NEW r2 \in RegType,
           Registers(sync[a], sync[a], reg[a], r2, lastId[a], lastId[a]),
           reg' = [reg EXCEPT ![a] = r2],
           UNCHANGED <<sync, lastId, connected, monitor, storage, toMonitor, retries>>,
           toTracker' = toTracker, disturbed' \in BOOLEAN
    PROVE  IInv'
<1>1. /\ sync[a] \in SyncType /\ lastId[a] \in Nat
      /\ sync = [sync EXCEPT ![a] = sync[a]] /\ lastId = [lastId EXCEPT ![a] = lastId[a]]
  BY DEF IInv, TypeOK, SyncType
<1>2. Step(a, sync[a], r2, lastId[a])
  BY <1>1 DEF Step, Moves, monitor, reputation, storage
<1>3. Kept
  BY <1>1, <1>2, SilentKeeps
<1>4. /\ connected' \subseteq Attempt /\ (connected' # {} => wasRegistered)
      /\ retries' \in 0 .. MaxRetries
  BY DEF IInv, TypeOK, Membership
<1> QED
  BY <1>3, <1>4, KeptIsEnough

LEMMA RegisterActionKeeps ==
    ASSUME IInv, NEW a \in Attempt,
           Register(a) \/ NoTerms(a) \/ RegisterTimeout(a) \/ RegisterEnd(a)
    PROVE  IInv'
<1>1. reg[a] \in RegType /\ disturbed \in BOOLEAN
  BY DEF IInv, TypeOK, RegType
<1>2. CASE Register(a)
  <2> DEFINE r2 == [reg[a] EXCEPT !.state = "terms"]
  <2>1. r2 \in RegType /\ Registers(sync[a], sync[a], reg[a], r2, lastId[a], lastId[a])
    BY <1>1, <1>2 DEF Register, Registers, RegType, Before
  <2>2. reg' = [reg EXCEPT ![a] = r2]
    BY <1>2 DEF Register
  <2> HIDE DEF r2
  <2> QED
    BY <1>1, <1>2, <2>1, <2>2, RegisterStepKeeps DEF Register
<1>3. CASE NoTerms(a) \/ RegisterTimeout(a)
  <2> DEFINE r2 == [reg[a] EXCEPT !.exit = TRUE]
  <2>1. r2 \in RegType /\ Registers(sync[a], sync[a], reg[a], r2, lastId[a], lastId[a])
    BY <1>1 DEF Registers, RegType
  <2>2. reg' = [reg EXCEPT ![a] = r2]
    BY <1>3 DEF NoTerms, RegisterTimeout
  <2> HIDE DEF r2
  <2> QED
    BY <1>1, <1>3, <2>1, <2>2, RegisterStepKeeps DEF NoTerms, RegisterTimeout
<1>4. CASE RegisterEnd(a)
  <2> DEFINE r2 == [reg[a] EXCEPT !.state = "done"]
  <2>1. r2 \in RegType /\ Registers(sync[a], sync[a], reg[a], r2, lastId[a], lastId[a])
    BY <1>1 DEF Registers, RegType, Before
  <2>2. reg' = [reg EXCEPT ![a] = r2]
    BY <1>4 DEF RegisterEnd
  <2> HIDE DEF r2
  <2> QED
    BY <1>1, <1>4, <2>1, <2>2, RegisterStepKeeps DEF RegisterEnd
<1> QED
  BY <1>2, <1>3, <1>4

LEMMA TermsKeeps ==
    ASSUME IInv, NEW a \in Attempt, Terms(a)
    PROVE  IInv'
<1> DEFINE l2 == lastId[a] + 1
           r2 == [reg[a] EXCEPT !.state = "ask", !.id = l2]
           m == Msg(a, "AdmitAsk", l2, 0)
<1>1. /\ sync[a] \in SyncType /\ lastId[a] \in Nat /\ lastId \in [Attempt -> Nat] /\ l2 \in Nat
      /\ reg[a] \in RegType /\ sync = [sync EXCEPT ![a] = sync[a]]
  BY DEF IInv, TypeOK, SyncType, RegType
<1>2. UNCHANGED <<sync, session, wasRegistered, blocks>>
  BY DEF Terms, monitor, reputation, storage
<1>3. lastId' = [lastId EXCEPT ![a] = l2] /\ lastId'[a] = l2
  BY <1>1 DEF Terms
<1>4. reg' = [reg EXCEPT ![a] = r2] /\ toMonitor' = Append(toMonitor, m)
  BY <1>3 DEF Terms
<1>5. r2 \in RegType /\ Registers(sync[a], sync[a], reg[a], r2, lastId[a], l2)
  BY <1>1 DEF RegType, Registers, Before, Terms
<1>6. m \in Message /\ m.a = a /\ m.kind = "AdmitAsk" /\ m.id = l2
  BY <1>1 DEF Msg, Message, Asks
<1>7. m.id \in 1 .. lastId'[a]
  BY <1>1, <1>3, <1>6
<1> HIDE DEF l2, r2, m
<1>8. Step(a, sync[a], r2, l2)
  BY <1>1, <1>2, <1>3, <1>4, <1>5 DEF Step, Moves
<1>9. Types' /\ Sides' /\ StaysGood /\ StaysMarked
  BY <1>1, <1>5, <1>8, StepKeeps
<1>10. m \in MonitorGood'
  BY <1>6, <1>7 DEF MonitorGood, ToMonitorGood, Requesting
<1>11. ASSUME NEW y \in MonitorGood'
       PROVE  <<y, m>> \in MonitorOrder'
  BY <1>6 DEF MonitorGood, MonitorOrder, InOrder
<1>12. ToMonitorOK'
  BY <1>4, <1>9, <1>10, <1>11, Sent
<1>13. Kept
  BY <1>9, <1>12 DEF Kept, StaysGood
<1>14. /\ connected' \subseteq Attempt /\ (connected' # {} => wasRegistered)
       /\ retries' \in 0 .. MaxRetries /\ disturbed' \in BOOLEAN /\ toTracker' = toTracker
       /\ UNCHANGED <<monitor, storage>>
  BY DEF Terms, IInv, TypeOK, Membership
<1> QED
  BY <1>13, <1>14, KeptIsEnough

LEMMA AdmitAckGood ==
    ASSUME NEW a \in Attempt, NEW id \in 1 .. lastId'[a], lastId'[a] \in Nat
    PROVE  /\ Msg(a, "AdmitAck", id, 0) \in MonitorGood'
           /\ \A y \in Message : <<y, Msg(a, "AdmitAck", id, 0)>> \in MonitorOrder'
<1> DEFINE m == Msg(a, "AdmitAck", id, 0)
<1>1. m \in Message /\ m.a = a /\ m.kind = "AdmitAck" /\ m.id = id
  BY MsgIn
<1> HIDE DEF m
<1>2. m \in MonitorGood'
  BY <1>1 DEF MonitorGood, ToMonitorGood, Requesting
<1>3. \A y \in Message : <<y, m>> \in MonitorOrder'
  BY <1>1 DEF MonitorOrder, InOrder
<1> QED
  BY <1>2, <1>3 DEF m

LEMMA AdmitResultKeeps ==
    ASSUME IInv, NEW a \in Attempt, AdmitResult(a)
    PROVE  IInv'
<1> DEFINE m == Head(toTracker)
           ack == Msg(a, "AdmitAck", m.id, 0)
<1>1. /\ m.id \in 1 .. lastId[a] /\ toTracker # <<>> /\ toTracker' = Tail(toTracker)
  BY AnswerHeld DEF AdmitResult
<1>2. /\ sync[a] \in SyncType /\ lastId[a] \in Nat /\ lastId \in [Attempt -> Nat]
      /\ reg[a] \in RegType /\ sync = [sync EXCEPT ![a] = sync[a]]
      /\ lastId = [lastId EXCEPT ![a] = lastId[a]] /\ reg[a].state = "ask"
  <2>1. Types /\ reg[a].state = "ask"
    BY DEF IInv, TypeOK, Types, SyncType, RegType, AdmitResult
  <2> QED
    BY <2>1 DEF Types
<1>3. UNCHANGED <<session, wasRegistered, blocks>>
  BY DEF AdmitResult, monitor, reputation, storage
<1>4. MonitorGood \subseteq Message
  BY DEF MonitorGood
<1>5. Kept
  <2>1. CASE /\ reg' = [reg EXCEPT ![a].state = "sync"]
             /\ lastId' = [lastId EXCEPT ![a] = @ + 1]
             /\ sync' = [sync EXCEPT ![a].state = "ask", ![a].id = lastId'[a],
                                     ![a].timer = "set"]
             /\ toMonitor' = toMonitor \o <<ack, Msg(a, "SyncAsk", lastId'[a], 0)>>
    <3> DEFINE l2 == lastId[a] + 1
               s2 == [sync[a] EXCEPT !.state = "ask", !.id = l2, !.timer = "set"]
               r2 == [reg[a] EXCEPT !.state = "sync"]
               z == Msg(a, "SyncAsk", l2, 0)
    <3>1. lastId' = [lastId EXCEPT ![a] = l2] /\ lastId'[a] = l2 /\ l2 \in Nat
      BY <1>2, <2>1
    <3>2. sync' = [sync EXCEPT ![a] = s2] /\ reg' = [reg EXCEPT ![a] = r2]
          /\ toMonitor' = toMonitor \o <<ack, z>>
      BY <2>1, <3>1
    <3>3. sync[a] = NoSync /\ session[a].state = "none"
      BY <1>2 DEF IInv, Sides, TrackerSide, MonitorSide, Before
    <3>4. s2 \in SyncType /\ r2 \in RegType
          /\ Begins(sync[a], s2, reg[a], r2, lastId[a], l2)
      <4>1. r2 \in RegType /\ r2.state = "sync"
        BY <1>2 DEF RegType
      <4>2. s2 = [NoSync EXCEPT !.state = "ask", !.id = l2, !.timer = "set"]
        BY <3>3
      <4>3. l2 \in Nat
        BY <3>1
      <4> HIDE DEF r2, s2, l2
      <4>4. NoSync \in SyncType
        BY DEF SyncType, NoSync
      <4>5. /\ s2 \in SyncType /\ s2.id = l2 /\ s2.old = 0 /\ s2.state = "ask" /\ s2.k = 0
            /\ s2.size = 0 /\ s2.result = "none"
        BY <4>2, <4>3, <4>4 DEF SyncType, NoSync
      <4> QED
        BY <1>2, <4>1, <4>5 DEF Begins, l2
    <3>5. /\ z \in Message /\ z.a = a /\ z.kind = "SyncAsk" /\ z.id = l2
          /\ z.id \in 1 .. l2
      BY <1>2 DEF Msg, Message, Asks
    <3>6. s2.id = l2 /\ s2.old = 0 /\ s2.state = "ask" /\ r2.state = "sync"
      BY <3>4 DEF Begins
    <3>7. m.id \in 1 .. lastId'[a]
      BY <1>1, <1>2, <3>1
    <3> HIDE DEF l2, s2, r2, z, m
    <3>8. Step(a, s2, r2, l2)
      BY <1>3, <3>1, <3>2, <3>4 DEF Step, Moves
    <3>9. Types' /\ Sides' /\ StaysGood /\ StaysMarked
      BY <3>1, <3>4, <3>8, StepKeeps
    <3>10. sync'[a] = s2 /\ reg'[a] = r2 /\ session'[a] = session[a]
      BY <1>3, <3>2 DEF IInv, TypeOK
    <3>11. ack \in MonitorGood' /\ \A y \in Message : <<y, ack>> \in MonitorOrder'
      BY <3>1, <3>7, AdmitAckGood
    <3>12. z \in MonitorGood'
      BY <3>1, <3>3, <3>5, <3>6, <3>10
         DEF MonitorGood, ToMonitorGood, Requesting, Fits, Matches
    <3>13. ASSUME NEW y \in MonitorGood \cup {ack}
           PROVE  <<y, z>> \in MonitorOrder'
      <4>1. ack.kind = "AdmitAck" /\ y \in Message
        BY <3>11 DEF Msg, MonitorGood
      <4>2. y.a = a => y.kind # "SyncAsk"
        BY <1>2, <4>1 DEF MonitorGood, ToMonitorGood
      <4> QED
        BY <3>5, <4>1, <4>2 DEF MonitorOrder, InOrder
    <3>14. toMonitor' = (toMonitor \o <<ack>>) \o <<z>>
      <4>1. toMonitor \in Seq(Message)
        BY DEF IInv, TypeOK
      <4> HIDE DEF ack
      <4> QED
        BY <3>2, <4>1
    <3> HIDE DEF ack
    <3>15. ToMonitorOK'
      BY <1>4, <3>9, <3>11, <3>12, <3>13, <3>14, AckSent
    <3> QED
      BY <3>9, <3>15 DEF Kept, StaysGood
  <2>2. CASE /\ reg' = [reg EXCEPT ![a].exit = TRUE] /\ toMonitor' = Append(toMonitor, ack)
             /\ UNCHANGED <<sync, lastId>>
    <3> DEFINE r2 == [reg[a] EXCEPT !.exit = TRUE]
    <3>1. r2 \in RegType /\ Registers(sync[a], sync[a], reg[a], r2, lastId[a], lastId[a])
          /\ reg' = [reg EXCEPT ![a] = r2]
      BY <1>2, <2>2 DEF RegType, Registers
    <3> HIDE DEF r2, m
    <3>2. Step(a, sync[a], r2, lastId[a])
      BY <1>2, <1>3, <2>2, <3>1 DEF Step, Moves
    <3>3. Types' /\ Sides' /\ StaysGood /\ StaysMarked
      BY <1>2, <3>1, <3>2, StepKeeps
    <3>4. ack \in MonitorGood' /\ \A y \in Message : <<y, ack>> \in MonitorOrder'
      BY <1>1, <1>2, <2>2, AdmitAckGood
    <3>5. MonitorGood' \subseteq Message
      BY DEF MonitorGood
    <3> HIDE DEF ack
    <3>6. ToMonitorOK'
      BY <2>2, <3>3, <3>4, <3>5, Sent
    <3> QED
      BY <3>3, <3>6 DEF Kept, StaysGood
  <2> QED
    BY <2>1, <2>2 DEF AdmitResult
<1> QED
  BY <1>1, <1>5, AnswerIsEnough DEF AdmitResult

LEMMA TrackerIgnoresKeeps ==
    ASSUME IInv, TrackerIgnores
    PROVE  IInv'
<1>1. UNCHANGED <<tracker, monitor, storage, toMonitor, retries, disturbed>>
      /\ toTracker # <<>> /\ toTracker' = Tail(toTracker)
  BY DEF TrackerIgnores
<1>2. UNCHANGED <<reg, sync, lastId, session, wasRegistered, blocks, connected, toMonitor>>
  BY <1>1 DEF tracker, monitor, reputation, storage
<1>3. MonitorGood' = MonitorGood /\ MonitorOrder' = MonitorOrder /\ TrackerGood' = TrackerGood
  BY <1>2 DEF MonitorGood, MonitorOrder, TrackerGood
<1>4. Kept
  BY <1>2, <1>3 DEF Kept, Types, RegType, SyncType, Sides, StaysMarked, IInv, TypeOK, ToMonitorOK,
                    ToTrackerOK
<1> QED
  BY <1>1, <1>2, <1>4, AnswerIsEnough

-----------------------------------------------------------------------------
(* Steps of the monitor in the whole system                                *)

SessionsOK == /\ session \in [Attempt -> SessionType]
              /\ \A a \in Attempt : session[a].state = "serve" => session[a].stored > 0

\* What is left to show of a step of the monitor
LEMMA Assembled ==
    ASSUME IInv, UNCHANGED <<tracker, retries>>,
           Sides', StaysMarked, ToMonitorOK', ToTrackerOK', SessionsOK',
           admit' \in [Attempt -> {"none", "wait", "done"}],
           registered' \in BOOLEAN, allowed' \in BOOLEAN, synchronized' \in BOOLEAN,
           wasRegistered' \in BOOLEAN, allowed' => wasRegistered', wasRegistered => wasRegistered',
           marked' \subseteq Attempt,
           \A a \in marked' \ marked : Marked(sync[a], session[a])',
           blocks' \in FirstBlocks .. MaxBlocks,
           copy' \in [request : BOOLEAN, copying : BOOLEAN, created : BOOLEAN],
           disturbed' \in BOOLEAN
    PROVE  IInv'
<1>1. toMonitor' \in Seq(Message) /\ toTracker' \in Seq(Message)
  BY QueueTypes
<1>2. UNCHANGED <<reg, sync, lastId, connected, retries>>
  BY DEF tracker
<1>3. TypeOK'
  BY <1>1, <1>2 DEF IInv, TypeOK, SessionsOK, SessionType
<1>4. \A a \in marked' : Marked(sync[a], session[a])'
  BY <1>2 DEF StaysMarked, IInv, Membership, TypeOK
<1>5. allowed' \/ connected' # {} => wasRegistered'
  BY <1>2 DEF IInv, Membership
<1>6. Membership'
  BY <1>4, <1>5 DEF Membership
<1> QED
  BY <1>3, <1>6 DEF IInv

\* The same, for what changes no action of the tracker and none of the monitor's
\* for synchronisation
Rest == /\ UNCHANGED <<tracker, session, wasRegistered, marked, blocks>>
        /\ UNCHANGED retries

LEMMA RestKeeps ==
    ASSUME IInv, Rest
    PROVE  /\ Sides' /\ StaysMarked /\ SessionsOK'
           /\ MonitorGood' = MonitorGood /\ MonitorOrder' = MonitorOrder
           /\ TrackerGood' = TrackerGood
<1>1. UNCHANGED <<reg, sync, lastId, session, wasRegistered, blocks>>
  BY DEF Rest, tracker
<1>2. MonitorGood' = MonitorGood /\ MonitorOrder' = MonitorOrder /\ TrackerGood' = TrackerGood
  BY <1>1 DEF MonitorGood, MonitorOrder, TrackerGood
<1>3. Sides' /\ StaysMarked /\ SessionsOK'
  BY <1>1 DEF Sides, StaysMarked, SessionsOK, SessionType, IInv, TypeOK
<1> QED
  BY <1>2, <1>3

\* The monitor's action of one attempt works.
Work(a, t2) ==
    /\ Works(session[a], t2, sync[a], lastId[a], blocks)
    /\ session' = [session EXCEPT ![a] = t2]
    /\ UNCHANGED <<tracker, wasRegistered, blocks>>

LEMMA WorkKeeps ==
    ASSUME IInv, NEW a \in Attempt, NEW t2 \in SessionType, Work(a, t2)
    PROVE  /\ Sides' /\ StaysMarked /\ SessionsOK'
           /\ MonitorGood \subseteq MonitorGood' /\ MonitorOrder' = MonitorOrder
           /\ TrackerGood' = TrackerGood
<1> DEFINE s == sync[a]
           t == session[a]
           r == reg[a]
           l == lastId[a]
<1>1. Known(s, t, r, l, wasRegistered, blocks)
  BY Locals
<1>2. /\ MonitorSide(t2, s, r, l)
      /\ \A m \in Message : ToMonitorGood(m, s, t, r, l) => ToMonitorGood(m, s, t2, r, l)
      /\ Marked(s, t) => Marked(s, t2)
  BY <1>1, WorksKeep DEF Work
<1>3. /\ UNCHANGED <<sync, reg, lastId, wasRegistered, blocks>>
      /\ session \in [Attempt -> SessionType]
      /\ session' \in [Attempt -> SessionType] /\ session'[a] = t2
      /\ \A b \in Attempt \ {a} : session'[b] = session[b]
  BY DEF Work, tracker, IInv, TypeOK, SessionType
<1>4. MonitorOrder' = MonitorOrder /\ TrackerGood' = TrackerGood
  BY <1>3 DEF MonitorOrder, TrackerGood
<1>5. \A m \in Message : m.a \in Attempt
  BY DEF Message
<1>6. MonitorGood \subseteq MonitorGood'
  BY <1>2, <1>3, <1>5 DEF MonitorGood
<1>7. Sides' /\ StaysMarked
  BY <1>2, <1>3 DEF Sides, StaysMarked, IInv
<1>8. blocks \in Nat /\ blocks > 0
  BY DEF IInv, TypeOK
<1>9. t2.state = "serve" => t2.stored > 0
  BY <1>8 DEF Work, Works, Stays, Copies, Starts, Stops, IInv, TypeOK
<1>10. SessionsOK'
  BY <1>3, <1>9 DEF SessionsOK, IInv, TypeOK
<1> QED
  BY <1>4, <1>6, <1>7, <1>10

\* The loop takes the first message.
LEMMA TakenFirst ==
    ASSUME IInv, NEW kind, Stored(kind)
    PROVE  /\ Head(toMonitor) \in Message /\ Head(toMonitor).a \in Attempt
           /\ Head(toMonitor).kind = kind
           /\ ToMonitorGood(Head(toMonitor), sync[Head(toMonitor).a], session[Head(toMonitor).a],
                            reg[Head(toMonitor).a], lastId[Head(toMonitor).a])
           /\ toMonitor' \in Seq(MonitorGood) /\ Ordered(toMonitor', MonitorOrder)
           /\ \A i \in DOMAIN toMonitor' :
                  toMonitor'[i] \in MonitorGood /\ <<Head(toMonitor), toMonitor'[i]>> \in MonitorOrder
<1>1. toMonitor \in Seq(MonitorGood) /\ toMonitor # <<>> /\ Ordered(toMonitor, MonitorOrder)
      /\ toMonitor' = Tail(toMonitor)
  BY DEF IInv, ToMonitorOK, Stored
<1>2. /\ Tail(toMonitor) \in Seq(MonitorGood) /\ Ordered(Tail(toMonitor), MonitorOrder)
      /\ Head(toMonitor) \in MonitorGood
      /\ \A i \in DOMAIN Tail(toMonitor) :
             /\ Tail(toMonitor)[i] \in MonitorGood
             /\ <<Head(toMonitor), Tail(toMonitor)[i]>> \in MonitorOrder
  BY <1>1, OrderedTail
<1>3. Head(toMonitor) \in Message /\ Head(toMonitor).a \in Attempt
  BY <1>2 DEF MonitorGood, Message
<1>4. ToMonitorGood(Head(toMonitor), sync[Head(toMonitor).a], session[Head(toMonitor).a],
                    reg[Head(toMonitor).a], lastId[Head(toMonitor).a])
  BY <1>2 DEF MonitorGood
<1> QED
  BY <1>1, <1>2, <1>3, <1>4 DEF Stored

\* An answer to a request fits if the request does.
LEMMA AnswerGood ==
    ASSUME IInv, NEW a \in Attempt, NEW id \in 1 .. lastId[a], NEW n \in Nat,
           NEW kind \in {"Admit", "Sync", "BitcoinHeader", "Info", "Header", "Block"},
           kind # "Admit" => Fits(sync[a], Msg(a, kind, id, n)),
           kind = "Sync" /\ n = 1 => wasRegistered, kind = "Info" => n \in 1 .. blocks,
           TrackerGood' = TrackerGood, toTracker' = Append(toTracker, Msg(a, kind, id, n))
    PROVE  ToTrackerOK'
<1> DEFINE m == Msg(a, kind, id, n)
<1>1. lastId[a] \in Nat /\ id \in Nat
  BY DEF IInv, TypeOK
<1>2. m \in Message /\ m.a = a /\ m.kind = kind /\ m.id = id /\ m.n = n
  BY <1>1 DEF Msg, Message
<1> HIDE DEF m
<1>3. m \in TrackerGood
  BY <1>2 DEF TrackerGood, ToTrackerGood, m
<1>4. toTracker \in Seq(TrackerGood)
  BY DEF IInv, ToTrackerOK
<1>5. Append(toTracker, m) \in Seq(TrackerGood)
  BY <1>3, <1>4
<1> QED
  BY <1>5 DEF ToTrackerOK, m

-----------------------------------------------------------------------------
(* Actions of the monitor                                                  *)

\* The message that an action is made of
LEMMA TakenAnywhere ==
    ASSUME IInv, NEW i, NEW kind, Arrives(i, kind)
    PROVE  /\ toMonitor[i] \in Message /\ toMonitor[i].a \in Attempt /\ toMonitor[i].kind = kind
           /\ ToMonitorGood(toMonitor[i], sync[toMonitor[i].a], session[toMonitor[i].a],
                            reg[toMonitor[i].a], lastId[toMonitor[i].a])
           /\ toMonitor' \in Seq(MonitorGood) /\ Ordered(toMonitor', MonitorOrder)
<1>1. toMonitor \in Seq(MonitorGood) /\ Ordered(toMonitor, MonitorOrder) /\ i \in DOMAIN toMonitor
      /\ toMonitor' = RemoveAt(toMonitor, i)
  BY DEF IInv, ToMonitorOK, Arrives
<1>2. RemoveAt(toMonitor, i) \in Seq(MonitorGood) /\ Ordered(RemoveAt(toMonitor, i), MonitorOrder)
  BY <1>1, OrderedRemoved
<1>3. toMonitor[i] \in MonitorGood
  BY <1>1
<1>4. toMonitor[i] \in Message /\ toMonitor[i].a \in Attempt
  BY <1>3 DEF MonitorGood, Message
<1>5. ToMonitorGood(toMonitor[i], sync[toMonitor[i].a], session[toMonitor[i].a],
                    reg[toMonitor[i].a], lastId[toMonitor[i].a])
  BY <1>3 DEF MonitorGood
<1> QED
  BY <1>1, <1>2, <1>4, <1>5 DEF Arrives

LEMMA AdmitAskKeeps ==
    ASSUME IInv, NEW i, AdmitAsk(i)
    PROVE  IInv'
<1> DEFINE m == toMonitor[i]
<1>1. /\ m.a \in Attempt /\ ToMonitorGood(m, sync[m.a], session[m.a], reg[m.a], lastId[m.a])
      /\ toMonitor' \in Seq(MonitorGood) /\ Ordered(toMonitor', MonitorOrder)
  BY TakenAnywhere DEF AdmitAsk
<1>2. PICK n \in {0, 1} :
          /\ toTracker' = Append(toTracker, Msg(m.a, "Admit", m.id, n))
          /\ admit' = [admit EXCEPT ![m.a] = IF n = 1 THEN "wait" ELSE "done"]
  BY DEF AdmitAsk
<1>3. Rest /\ UNCHANGED <<tracker, retries, reputation, storage, disturbed>>
  BY DEF AdmitAsk, Rest, reputation, storage
<1> HIDE DEF m
<1>4. /\ Sides' /\ StaysMarked /\ SessionsOK' /\ MonitorGood' = MonitorGood
      /\ MonitorOrder' = MonitorOrder /\ TrackerGood' = TrackerGood
  BY <1>3, RestKeeps
<1>5. ToMonitorOK'
  BY <1>1, <1>4 DEF ToMonitorOK
<1>6. ToTrackerOK'
  <2>1. m.id \in 1 .. lastId[m.a] /\ n \in Nat
    BY <1>1 DEF ToMonitorGood
  <2> QED
    BY <1>1, <1>2, <1>4, <2>1, AnswerGood
<1>7. admit' \in [Attempt -> {"none", "wait", "done"}]
  BY <1>2 DEF IInv, TypeOK
<1>8. /\ registered' = registered /\ registered \in BOOLEAN
      /\ allowed' = allowed /\ allowed \in BOOLEAN
      /\ synchronized' = synchronized /\ synchronized \in BOOLEAN
      /\ wasRegistered' = wasRegistered /\ wasRegistered \in BOOLEAN
      /\ allowed => wasRegistered
      /\ marked' = marked /\ marked \subseteq Attempt
      /\ blocks' = blocks /\ blocks \in FirstBlocks .. MaxBlocks
      /\ copy' = copy /\ copy \in [request : BOOLEAN, copying : BOOLEAN, created : BOOLEAN]
      /\ disturbed' = disturbed /\ disturbed \in BOOLEAN
  BY <1>3 DEF IInv, TypeOK, Membership, reputation, storage
<1> QED
  BY <1>3, <1>4, <1>5, <1>6, <1>7, <1>8, Assembled

\* Steps that leave the reputation alone
LEMMA Served ==
    ASSUME IInv, Sides', StaysMarked, SessionsOK', ToMonitorOK', ToTrackerOK',
           UNCHANGED <<tracker, retries, admit, reputation, blocks>>, disturbed' \in BOOLEAN,
           copy' \in [request : BOOLEAN, copying : BOOLEAN, created : BOOLEAN]
    PROVE  IInv'
<1>1. /\ registered' = registered /\ registered \in BOOLEAN
      /\ allowed' = allowed /\ allowed \in BOOLEAN
      /\ synchronized' = synchronized /\ synchronized \in BOOLEAN
      /\ wasRegistered' = wasRegistered /\ wasRegistered \in BOOLEAN
      /\ allowed => wasRegistered
      /\ marked' = marked /\ marked \subseteq Attempt
      /\ blocks' = blocks /\ blocks \in FirstBlocks .. MaxBlocks
      /\ admit' = admit /\ admit \in [Attempt -> {"none", "wait", "done"}]
  BY DEF IInv, TypeOK, Membership, reputation
<1> QED
  BY <1>1, Assembled

LEMMA BitcoinAskKeeps ==
    ASSUME IInv, BitcoinAsk
    PROVE  IInv'
<1> DEFINE m == Head(toMonitor)
<1>1. /\ m.a \in Attempt /\ ToMonitorGood(m, sync[m.a], session[m.a], reg[m.a], lastId[m.a])
      /\ toMonitor' \in Seq(MonitorGood) /\ Ordered(toMonitor', MonitorOrder)
      /\ m.kind = "BitcoinAsk"
  BY TakenFirst DEF BitcoinAsk
<1>2. toTracker' = Append(toTracker, Msg(m.a, "BitcoinHeader", m.id, 0))
  BY DEF BitcoinAsk
<1>3. Rest /\ UNCHANGED <<tracker, retries, admit, reputation, storage, disturbed>>
  BY DEF BitcoinAsk, Rest, monitor, reputation, storage
<1> HIDE DEF m
<1>4. /\ Sides' /\ StaysMarked /\ SessionsOK' /\ MonitorGood' = MonitorGood
      /\ MonitorOrder' = MonitorOrder /\ TrackerGood' = TrackerGood
  BY <1>3, RestKeeps
<1>5. ToMonitorOK'
  BY <1>1, <1>4 DEF ToMonitorOK
<1>6. ToTrackerOK'
  <2>1. m.id \in 1 .. lastId[m.a] /\ Fits(sync[m.a], m)
    BY <1>1 DEF ToMonitorGood, Requesting
  <2>2. Fits(sync[m.a], Msg(m.a, "BitcoinHeader", m.id, 0))
    BY <1>1, <2>1 DEF Fits, Matches, Msg
  <2> QED
    BY <1>1, <1>2, <1>4, <2>1, <2>2, AnswerGood
<1> QED
  BY <1>3, <1>4, <1>5, <1>6, Served DEF IInv, TypeOK, storage

LEMMA MonitorIgnoresKeeps ==
    ASSUME IInv, MonitorIgnores
    PROVE  IInv'
<1>1. toMonitor # <<>> /\ toMonitor' = Tail(toMonitor) /\ toTracker' = toTracker
  BY DEF MonitorIgnores
<1>2. toMonitor' \in Seq(MonitorGood) /\ Ordered(toMonitor', MonitorOrder)
  BY <1>1, OrderedTail DEF IInv, ToMonitorOK
<1>3. Rest /\ UNCHANGED <<tracker, retries, admit, reputation, storage, disturbed>>
  BY DEF MonitorIgnores, Rest, monitor, reputation, storage
<1>4. /\ Sides' /\ StaysMarked /\ SessionsOK' /\ MonitorGood' = MonitorGood
      /\ MonitorOrder' = MonitorOrder /\ TrackerGood' = TrackerGood
  BY <1>3, RestKeeps
<1>5. ToMonitorOK' /\ ToTrackerOK'
  BY <1>1, <1>2, <1>4 DEF ToMonitorOK, ToTrackerOK, IInv
<1> QED
  BY <1>3, <1>4, <1>5, Served DEF IInv, TypeOK, storage

\* The queue to the monitor after a step of its action
LEMMA WorkServes ==
    ASSUME IInv, NEW a \in Attempt, NEW t2 \in SessionType, Work(a, t2),
           toMonitor' \in Seq(MonitorGood), Ordered(toMonitor', MonitorOrder),
           TrackerGood' = TrackerGood => ToTrackerOK',
           UNCHANGED <<retries, admit, reputation>>, disturbed' \in BOOLEAN,
           copy' \in [request : BOOLEAN, copying : BOOLEAN, created : BOOLEAN]
    PROVE  IInv'
<1>1. /\ Sides' /\ StaysMarked /\ SessionsOK' /\ MonitorGood \subseteq MonitorGood'
      /\ MonitorOrder' = MonitorOrder /\ TrackerGood' = TrackerGood
  BY WorkKeeps
<1>2. toMonitor' \in Seq(MonitorGood')
  BY <1>1, SeqIn
<1>3. ToMonitorOK'
  BY <1>1, <1>2 DEF ToMonitorOK
<1>4. UNCHANGED <<tracker, blocks>>
  BY DEF Work
<1> QED
  BY <1>1, <1>3, <1>4, Served

LEMMA StorageAskKeeps ==
    ASSUME IInv, StorageAsk
    PROVE  IInv'
<1> DEFINE m == Head(toMonitor)
           a == m.a
           t2 == [session[a] EXCEPT !.state = "copy", !.key = m.id]
<1>1. /\ a \in Attempt /\ ToMonitorGood(m, sync[a], session[a], reg[a], lastId[a])
      /\ toMonitor' \in Seq(MonitorGood) /\ Ordered(toMonitor', MonitorOrder)
      /\ m.kind = "StorageAsk"
  BY TakenFirst DEF StorageAsk
<1>2. session' = [session EXCEPT ![a] = t2] /\ session[a].state = "uninit"
  BY DEF StorageAsk
<1>3. UNCHANGED <<tracker, admit, reputation, storage, toTracker, retries, disturbed>>
  BY DEF StorageAsk
<1> HIDE DEF m
<1>4. /\ m.id \in 1 .. lastId[a] /\ Fits(sync[a], m) /\ sync[a].state \in Copying
      /\ (sync[a].state = "info" => m.id = sync[a].id) /\ lastId[a] \in Nat
      /\ session[a] \in SessionType
  BY <1>1 DEF ToMonitorGood, Requesting, IInv, TypeOK, SessionType
<1> HIDE DEF a
<1>5. t2 \in SessionType /\ Copies(session[a], t2, sync[a], lastId[a])
  <2>1. m.id \in Nat
    BY <1>4
  <2>2. /\ t2 \in SessionType /\ t2.state = "copy" /\ t2.key = m.id
        /\ t2.id = session[a].id
    BY <1>4, <2>1 DEF SessionType
  <2>3. m.id \in Open(sync[a]) => sync[a].state = "info"
    BY <1>1, <1>4 DEF Fits, Matches
  <2> QED
    BY <1>2, <1>4, <2>2, <2>3 DEF Copies
<1> HIDE DEF t2
<1>6. Work(a, t2)
  BY <1>2, <1>3, <1>5 DEF Work, Works, reputation, storage
<1>7. TrackerGood' = TrackerGood => ToTrackerOK'
  BY <1>3 DEF IInv, ToTrackerOK
<1> QED
  BY <1>1, <1>3, <1>5, <1>6, <1>7, WorkServes DEF IInv, TypeOK, storage

LEMMA InfoAckKeeps ==
    ASSUME IInv, InfoAck
    PROVE  IInv'
<1> DEFINE m == Head(toMonitor)
           a == m.a
           t2 == [session[a] EXCEPT !.state = "serve", !.id = 0, !.last = FALSE,
                                    !.stored = blocks]
<1>1. /\ a \in Attempt /\ ToMonitorGood(m, sync[a], session[a], reg[a], lastId[a])
      /\ toMonitor' \in Seq(MonitorGood) /\ Ordered(toMonitor', MonitorOrder)
      /\ m.kind = "Ack"
  BY TakenFirst DEF InfoAck
<1>2. session' = [session EXCEPT ![a] = t2] /\ session[a].state = "copy" /\ session[a].id = m.id
  BY DEF InfoAck
<1>3. UNCHANGED <<tracker, admit, reputation, storage, toTracker, retries, disturbed>>
  BY DEF InfoAck
<1> HIDE DEF m
<1>4. /\ m.id \in 1 .. lastId[a] /\ m.id # sync[a].id /\ lastId[a] \in Nat
      /\ session[a] \in SessionType /\ MonitorSide(session[a], sync[a], reg[a], lastId[a])
      /\ blocks \in 0 .. MaxBlocks
  <2>1. m.id \in 1 .. lastId[a] /\ m.id # sync[a].id
    BY <1>1 DEF ToMonitorGood, AckGood
  <2>2. blocks \in FirstBlocks .. MaxBlocks
    BY DEF IInv, TypeOK
  <2>3. blocks \in 0 .. MaxBlocks
    BY <2>2
  <2> QED
    BY <1>1, <2>1, <2>3 DEF IInv, TypeOK, SessionType, Sides
<1> HIDE DEF a
<1>5. sync[a].state # "info"
  BY <1>2, <1>4 DEF MonitorSide
<1>6. t2 \in SessionType /\ Starts(session[a], t2, sync[a], blocks)
  BY <1>2, <1>4, <1>5 DEF SessionType, Starts
<1> HIDE DEF t2
<1>7. Work(a, t2)
  BY <1>2, <1>3, <1>6 DEF Work, Works, reputation, storage
<1>8. TrackerGood' = TrackerGood => ToTrackerOK'
  BY <1>3 DEF IInv, ToTrackerOK
<1> QED
  BY <1>1, <1>3, <1>6, <1>7, <1>8, WorkServes DEF IInv, TypeOK, storage

LEMMA GetKeeps ==
    ASSUME IInv, Get
    PROVE  IInv'
<1> DEFINE m == Head(toMonitor)
           a == m.a
           t == session[a]
           block == m.kind = "GetBlock" /\ m.n < t.stored
           header == m.kind = "GetHeader" /\ m.n < Headers
           answer == IF block THEN "Block" ELSE "Header"
           last == IF block THEN IsLast(m.n, t.stored) ELSE t.last
           t2 == [t EXCEPT !.id = m.id, !.old = t.id, !.last = last]
<1>1. PICK kind \in {"GetHeader", "GetBlock"} : Stored(kind)
  BY DEF Get
<1>2. /\ a \in Attempt /\ ToMonitorGood(m, sync[a], session[a], reg[a], lastId[a])
      /\ toMonitor' \in Seq(MonitorGood) /\ Ordered(toMonitor', MonitorOrder)
      /\ \A i \in DOMAIN toMonitor' :
             toMonitor'[i] \in MonitorGood /\ <<m, toMonitor'[i]>> \in MonitorOrder
      /\ m.kind \in {"GetHeader", "GetBlock"} /\ m \in Message
  BY <1>1, TakenFirst
<1>3. /\ t.state = "serve" /\ UNCHANGED <<tracker, admit, reputation, storage, retries, disturbed>>
      /\ \/ /\ block \/ header
            /\ toTracker' = Append(toTracker, Msg(a, answer, m.id, m.n))
            /\ session' = [session EXCEPT ![a] = t2]
         \/ UNCHANGED <<toTracker, session>>
  BY DEF Get
<1> HIDE DEF m
<1>4. /\ m.id \in 1 .. lastId[a] /\ Fits(sync[a], m) /\ lastId[a] \in Nat /\ m.id \in Nat
      /\ m.n \in Nat
  BY <1>2 DEF ToMonitorGood, Requesting, IInv, TypeOK, Message
<1>5. t \in SessionType /\ session \in [Attempt -> SessionType]
  BY <1>2 DEF IInv, TypeOK, SessionType
<1> HIDE DEF a
<1>6. CASE UNCHANGED <<toTracker, session>>
  <2>1. Rest
    BY <1>3, <1>6 DEF Rest, reputation, storage
  <2>2. /\ Sides' /\ StaysMarked /\ SessionsOK' /\ MonitorGood' = MonitorGood
        /\ MonitorOrder' = MonitorOrder /\ TrackerGood' = TrackerGood
    BY <2>1, RestKeeps
  <2>3. ToMonitorOK' /\ ToTrackerOK'
    BY <1>2, <1>6, <2>2 DEF ToMonitorOK, ToTrackerOK, IInv
  <2> QED
    BY <1>3, <2>2, <2>3, Served DEF IInv, TypeOK, storage
<1>7. CASE /\ block \/ header
           /\ toTracker' = Append(toTracker, Msg(a, answer, m.id, m.n))
           /\ session' = [session EXCEPT ![a] = t2]
  <2>1. last \in BOOLEAN
    BY <1>5 DEF SessionType, IsLast
  <2>2. /\ t2 \in SessionType /\ t2.state = "serve" /\ t2.key = t.key /\ t2.stored = t.stored
        /\ t2.last = last
    <3> HIDE DEF last
    <3> QED
      BY <1>3, <1>4, <1>5, <2>1 DEF SessionType
  <2>3. /\ Fits(sync[a], Msg(a, answer, m.id, m.n))
        /\ answer \in {"Header", "Block"}
    BY <1>2, <1>4, <1>7 DEF Fits, Matches, Msg
  <2> HIDE DEF t2, answer
  <2>4. TrackerGood' = TrackerGood => ToTrackerOK'
    BY <1>2, <1>4, <1>7, <2>3, AnswerGood
  <2>5. CASE last => t.last
    <3>1. Stays(t, t2)
      BY <1>3, <2>2, <2>5 DEF Stays
    <3>2. Work(a, t2)
      BY <1>3, <1>7, <3>1 DEF Work, Works, reputation, storage
    <3> QED
      BY <1>2, <1>3, <2>2, <2>4, <3>2, WorkServes DEF IInv, TypeOK, storage
  <2>6. CASE m.kind = "GetBlock" /\ m.n = t.stored - 1
    <3>1. Known(sync[a], t, reg[a], lastId[a], wasRegistered, blocks)
      BY <1>2, Locals
    <3>2. /\ MonitorSide(t2, sync[a], reg[a], lastId[a])
          /\ \A x \in Message : /\ ToMonitorGood(x, sync[a], t, reg[a], lastId[a])
                                /\ InOrder(m, x, sync[a])
                                => ToMonitorGood(x, sync[a], t2, reg[a], lastId[a])
          /\ Marked(sync[a], t) => Marked(sync[a], t2)
      BY <1>2, <1>3, <2>2, <2>6, <3>1, LastKeeps
    <3>3. /\ UNCHANGED <<sync, reg, lastId, wasRegistered, blocks>>
          /\ session' \in [Attempt -> SessionType] /\ session'[a] = t2
          /\ \A b \in Attempt \ {a} : session'[b] = session[b]
      BY <1>2, <1>3, <1>5, <1>7, <2>2 DEF tracker, reputation, storage
    <3>4. MonitorOrder' = MonitorOrder /\ TrackerGood' = TrackerGood
      BY <3>3 DEF MonitorOrder, TrackerGood
    <3>5. Sides' /\ StaysMarked
      BY <3>2, <3>3 DEF Sides, StaysMarked, IInv
    <3>6. SessionsOK'
      BY <1>2, <1>3, <2>2, <3>3 DEF SessionsOK, IInv, TypeOK
    <3>7. ASSUME NEW i \in DOMAIN toMonitor'
          PROVE  toMonitor'[i] \in MonitorGood'
      <4> DEFINE x == toMonitor'[i]
      <4>1. x \in MonitorGood /\ <<m, x>> \in MonitorOrder
        BY <1>2
      <4> HIDE DEF x
      <4>2. /\ x \in Message /\ x.a \in Attempt
            /\ ToMonitorGood(x, sync[x.a], session[x.a], reg[x.a], lastId[x.a])
        BY <4>1 DEF MonitorGood, Message
      <4>3. x.a = a => InOrder(m, x, sync[a])
        BY <4>1 DEF MonitorOrder, a
      <4>4. ToMonitorGood(x, sync'[x.a], session'[x.a], reg'[x.a], lastId'[x.a])
        BY <3>2, <3>3, <4>2, <4>3
      <4> QED
        BY <4>2, <4>4 DEF MonitorGood, x
    <3>8. toMonitor' \in Seq(MonitorGood')
      BY <1>2, <3>7, SeqIn
    <3>9. ToMonitorOK' /\ ToTrackerOK'
      BY <1>2, <2>4, <3>4, <3>8 DEF ToMonitorOK
    <3> QED
      BY <1>3, <3>5, <3>6, <3>9, Served DEF IInv, TypeOK, storage
  <2> QED
    BY <2>5, <2>6 DEF IsLast
<1> QED
  BY <1>3, <1>6, <1>7

LEMMA SynchronizationAskKeeps ==
    ASSUME IInv, NEW i, SynchronizationAsk(i)
    PROVE  IInv'
<1> DEFINE m == toMonitor[i]
           a == m.a
           t == session[a]
           n == IF allowed THEN 1 ELSE 0
           t2 == [t EXCEPT !.state = "uninit", !.exit = ~ allowed]
<1>1. /\ m \in Message /\ a \in Attempt /\ m.kind = "SyncAsk"
      /\ ToMonitorGood(m, sync[a], session[a], reg[a], lastId[a])
      /\ toMonitor' \in Seq(MonitorGood) /\ Ordered(toMonitor', MonitorOrder)
  BY TakenAnywhere DEF SynchronizationAsk
<1>2. /\ toTracker' = Append(toTracker, Msg(a, "Sync", m.id, n))
      /\ session' = [session EXCEPT ![a] = t2]
      /\ UNCHANGED <<tracker, admit, reputation, storage, retries, disturbed>>
      /\ i \in DOMAIN toMonitor /\ toMonitor' = RemoveAt(toMonitor, i)
  BY DEF SynchronizationAsk, Arrives
<1>3. ASSUME NEW j \in DOMAIN toMonitor, j # i
      PROVE  ~ (toMonitor[j].kind = "SyncAsk" /\ toMonitor[j].a = a)
  <2>1. i \in Nat /\ j \in Nat /\ Ordered(toMonitor, MonitorOrder)
    BY <1>2 DEF IInv, ToMonitorOK
  <2>2. <<toMonitor[j], m>> \in MonitorOrder \/ <<m, toMonitor[j]>> \in MonitorOrder
    <3>1. i < j \/ j < i
      BY <1>3, <2>1
    <3> QED
      BY <1>2, <2>1, <3>1 DEF Ordered
  <2> HIDE DEF m
  <2> QED
    BY <1>1, <2>2 DEF MonitorOrder, InOrder
<1>4. ASSUME NEW j \in DOMAIN toMonitor'
      PROVE  /\ toMonitor'[j] \in MonitorGood
             /\ ~ (toMonitor'[j].kind = "SyncAsk" /\ toMonitor'[j].a = a)
  <2> DEFINE at == IF j < i THEN j ELSE j + 1
  <2>1. toMonitor \in Seq(MonitorGood)
    BY DEF IInv, ToMonitorOK
  <2>2. j \in Nat /\ toMonitor'[j] = toMonitor[at] /\ at \in DOMAIN toMonitor /\ i \in Nat
    BY <1>2, <2>1, Removed
  <2>3. at # i
    BY <2>2
  <2> HIDE DEF at
  <2> QED
    BY <1>3, <2>1, <2>2, <2>3
<1> HIDE DEF m
<1>5. /\ m.id \in 1 .. lastId[a] /\ Fits(sync[a], m) /\ lastId[a] \in Nat
      /\ t.state = "none" /\ reg[a].state \in {"sync", "done"}
  BY <1>1 DEF ToMonitorGood, Requesting, IInv, TypeOK
<1>6. t \in SessionType /\ session \in [Attempt -> SessionType] /\ t = NoSession
  BY <1>1, <1>5 DEF IInv, TypeOK, SessionType, Sides, MonitorSide
<1> HIDE DEF a
<1>7. t2 \in SessionType /\ t2.state = "uninit" /\ t2.id = 0
  <2>1. t2 \in SessionType /\ t2.state = "uninit" /\ t2.id = t.id
    BY <1>6 DEF SessionType
  <2>2. t.id = 0
    BY <1>6 DEF NoSession
  <2> QED
    BY <2>1, <2>2
<1> HIDE DEF t2
<1>8. /\ UNCHANGED <<sync, reg, lastId, wasRegistered, blocks>>
      /\ session' \in [Attempt -> SessionType] /\ session'[a] = t2
      /\ \A b \in Attempt \ {a} : session'[b] = session[b]
  BY <1>1, <1>2, <1>6, <1>7 DEF tracker, reputation, storage
<1>9. MonitorOrder' = MonitorOrder /\ TrackerGood' = TrackerGood
  BY <1>8 DEF MonitorOrder, TrackerGood
<1>10. MonitorSide(t2, sync[a], reg[a], lastId[a]) /\ ~ Marked(sync[a], t)
  BY <1>5, <1>7 DEF MonitorSide, Before, Marked
<1>11. Sides' /\ StaysMarked
  BY <1>8, <1>10 DEF Sides, StaysMarked, IInv
<1>12. SessionsOK'
  BY <1>7, <1>8 DEF SessionsOK, IInv, TypeOK
<1>13. ASSUME NEW j \in DOMAIN toMonitor'
       PROVE  toMonitor'[j] \in MonitorGood'
  <2> DEFINE x == toMonitor'[j]
  <2>1. x \in MonitorGood /\ ~ (x.kind = "SyncAsk" /\ x.a = a)
    BY <1>4
  <2> HIDE DEF x
  <2>2. /\ x \in Message /\ x.a \in Attempt
        /\ ToMonitorGood(x, sync[x.a], session[x.a], reg[x.a], lastId[x.a])
    BY <2>1 DEF MonitorGood, Message
  <2>3. ToMonitorGood(x, sync'[x.a], session'[x.a], reg'[x.a], lastId'[x.a])
    BY <1>7, <1>8, <2>1, <2>2 DEF ToMonitorGood, AckGood
  <2> QED
    BY <2>2, <2>3 DEF MonitorGood, x
<1>14. toMonitor' \in Seq(MonitorGood')
  BY <1>1, <1>13, SeqIn
<1>15. ToMonitorOK'
  BY <1>1, <1>9, <1>14 DEF ToMonitorOK
<1>16. ToTrackerOK'
  <2>1. n \in Nat /\ (n = 1 => wasRegistered)
    BY DEF IInv, Membership
  <2>2. Fits(sync[a], Msg(a, "Sync", m.id, n))
    BY <1>1, <1>5 DEF Fits, Matches, Msg
  <2> HIDE DEF n
  <2> QED
    BY <1>1, <1>2, <1>5, <1>9, <2>1, <2>2, AnswerGood
<1> QED
  BY <1>2, <1>11, <1>12, <1>15, <1>16, Served DEF IInv, TypeOK, storage

LEMMA BlockAckKeeps ==
    ASSUME IInv, BlockAck
    PROVE  IInv'
<1> DEFINE m == Head(toMonitor)
           a == m.a
           t == session[a]
           t2 == [t EXCEPT !.id = 0, !.old = 0, !.exit = t.exit \/ t.last]
<1>1. /\ a \in Attempt /\ ToMonitorGood(m, sync[a], session[a], reg[a], lastId[a])
      /\ toMonitor' \in Seq(MonitorGood) /\ Ordered(toMonitor', MonitorOrder)
      /\ m.kind = "Ack"
  BY TakenFirst DEF BlockAck
<1>2. /\ t.state = "serve" /\ session' = [session EXCEPT ![a] = t2]
      /\ marked' = IF t.last THEN marked \cup {a} ELSE marked
      /\ synchronized' = (synchronized \/ (t.last /\ registered))
      /\ UNCHANGED <<tracker, admit, registered, allowed, wasRegistered, storage, toTracker,
                     retries, disturbed>>
  BY DEF BlockAck
<1> HIDE DEF m
<1>3. t \in SessionType /\ session \in [Attempt -> SessionType]
  BY <1>1 DEF IInv, TypeOK, SessionType
<1>4. t.last => sync[a].result = "good" /\ t.stored = sync[a].size
  BY <1>1, <1>2 DEF ToMonitorGood, AckGood
<1> HIDE DEF a
<1>5. (t.exit \/ t.last) \in BOOLEAN
  BY <1>3 DEF SessionType
<1>6. /\ t2 \in SessionType /\ t2.state = "serve" /\ t2.key = t.key /\ t2.stored = t.stored
      /\ t2.last = t.last /\ t2.id = 0
  BY <1>2, <1>3, <1>5 DEF SessionType
<1> HIDE DEF t2
<1>7. Work(a, t2)
  BY <1>2, <1>6 DEF Work, Works, Stays, storage
<1>8. /\ Sides' /\ StaysMarked /\ SessionsOK' /\ MonitorGood \subseteq MonitorGood'
      /\ MonitorOrder' = MonitorOrder /\ TrackerGood' = TrackerGood
  BY <1>1, <1>6, <1>7, WorkKeeps
<1>9. toMonitor' \in Seq(MonitorGood')
  BY <1>1, <1>8, SeqIn
<1>10. ToMonitorOK' /\ ToTrackerOK'
  BY <1>1, <1>2, <1>8, <1>9 DEF ToMonitorOK, ToTrackerOK, IInv
<1>11. \A b \in marked' \ marked : Marked(sync[b], session[b])'
  <2>1. \A b \in marked' \ marked : b = a /\ t.last
    BY <1>2
  <2>2. session'[a] = t2 /\ sync' = sync
    BY <1>1, <1>2, <1>3 DEF tracker
  <2>3. t.last => Marked(sync'[a], session'[a])
    BY <1>4, <1>6, <2>2 DEF Marked
  <2> QED
    BY <2>1, <2>3
<1>12. marked' \subseteq Attempt /\ synchronized' \in BOOLEAN
  BY <1>1, <1>2, <1>3 DEF IInv, TypeOK, SessionType
<1>13. /\ registered' = registered /\ registered \in BOOLEAN
       /\ allowed' = allowed /\ allowed \in BOOLEAN
       /\ wasRegistered' = wasRegistered /\ wasRegistered \in BOOLEAN
       /\ allowed => wasRegistered
       /\ blocks' = blocks /\ blocks \in FirstBlocks .. MaxBlocks
       /\ copy' = copy /\ copy \in [request : BOOLEAN, copying : BOOLEAN, created : BOOLEAN]
       /\ admit' = admit /\ admit \in [Attempt -> {"none", "wait", "done"}]
       /\ disturbed' = disturbed /\ disturbed \in BOOLEAN
  BY <1>2 DEF IInv, TypeOK, Membership, storage
<1> QED
  BY <1>2, <1>8, <1>10, <1>11, <1>12, <1>13, Assembled

\* What the monitor does of its own
LEMMA SessionStepKeeps ==
    ASSUME IInv, NEW a \in Attempt, NEW t2 \in SessionType,
           Stays(session[a], t2) \/ Stops(session[a], t2),
           session' = [session EXCEPT ![a] = t2],
           UNCHANGED <<tracker, admit, reputation, blocks, toMonitor, retries>>,
           TrackerGood' = TrackerGood => ToTrackerOK',
           disturbed' \in BOOLEAN,
           copy' \in [request : BOOLEAN, copying : BOOLEAN, created : BOOLEAN]
    PROVE  IInv'
<1>1. Work(a, t2)
  BY DEF Work, Works, reputation
<1>2. toMonitor' \in Seq(MonitorGood) /\ Ordered(toMonitor', MonitorOrder)
  BY DEF IInv, ToMonitorOK
<1> QED
  BY <1>1, <1>2, WorkServes

LEMMA SessionKeeps ==
    ASSUME IInv, NEW a \in Attempt, SessionTimeout(a) \/ SessionTurn(a) \/ SessionEnd(a)
    PROVE  IInv'
<1> DEFINE t == session[a]
<1>1. /\ t \in SessionType /\ (t.state = "none" => t = NoSession)
      /\ disturbed' \in BOOLEAN
      /\ copy' \in [request : BOOLEAN, copying : BOOLEAN, created : BOOLEAN]
      /\ UNCHANGED <<tracker, admit, reputation, blocks, toMonitor, retries>>
      /\ TrackerGood' = TrackerGood => ToTrackerOK'
  <2>1. t \in SessionType /\ (t.state = "none" => t = NoSession)
    BY DEF IInv, TypeOK, SessionType, Sides, MonitorSide
  <2>2. /\ UNCHANGED <<tracker, admit, reputation, storage, toMonitor, toTracker, retries>>
        /\ disturbed' \in {disturbed, TRUE}
    BY DEF SessionTimeout, SessionTurn, SessionEnd
  <2>3. TrackerGood' = TrackerGood => ToTrackerOK'
    BY <2>2 DEF IInv, ToTrackerOK
  <2> QED
    BY <2>1, <2>2, <2>3 DEF IInv, TypeOK, storage
<1>2. t.exit \/ t.old # 0 => t.state # "none"
  BY <1>1 DEF NoSession
<1>3. CASE SessionTimeout(a)
  <2> DEFINE t2 == [t EXCEPT !.exit = TRUE]
  <2>1. t2 \in SessionType /\ Stays(t, t2)
    BY <1>1, <1>3 DEF SessionType, Stays, SessionTimeout
  <2>2. session' = [session EXCEPT ![a] = t2]
    BY <1>3 DEF SessionTimeout
  <2> HIDE DEF t2
  <2> QED
    BY <1>1, <2>1, <2>2, SessionStepKeeps
<1>4. CASE SessionTurn(a)
  <2> DEFINE t2 == [t EXCEPT !.old = 0]
  <2>1. t2 \in SessionType /\ Stays(t, t2)
    BY <1>1, <1>2, <1>4 DEF SessionType, Stays, SessionTurn
  <2>2. session' = [session EXCEPT ![a] = t2]
    BY <1>4 DEF SessionTurn
  <2> HIDE DEF t2
  <2> QED
    BY <1>1, <2>1, <2>2, SessionStepKeeps
<1>5. CASE SessionEnd(a)
  <2> DEFINE t2 == [NoSession EXCEPT !.state = "done"]
  <2>1. t2 \in SessionType /\ Stops(t, t2)
    <3>1. NoSession \in SessionType
      BY DEF SessionType, NoSession
    <3>2. t2 \in SessionType /\ t2.state = "done"
      BY <3>1 DEF SessionType
    <3> QED
      BY <1>2, <1>5, <3>2 DEF Stops, SessionEnd
  <2>2. session' = [session EXCEPT ![a] = t2]
    BY <1>5 DEF SessionEnd
  <2> HIDE DEF t2
  <2> QED
    BY <1>1, <2>1, <2>2, SessionStepKeeps
<1> QED
  BY <1>3, <1>4, <1>5

LEMMA CopyTimeoutKeeps ==
    ASSUME IInv, NEW a \in Attempt, CopyTimeout(a)
    PROVE  IInv'
<1> DEFINE t == session[a]
           Copy == [request : BOOLEAN, copying : BOOLEAN, created : BOOLEAN]
<1>1. t \in SessionType /\ t.state = "copy" /\ copy \in Copy /\ disturbed' \in BOOLEAN
      /\ UNCHANGED <<tracker, admit, reputation, blocks, toMonitor, retries>>
  BY DEF IInv, TypeOK, SessionType, CopyTimeout
<1>2. CASE /\ session' = [session EXCEPT ![a].asked = ~ copy.request]
           /\ copy' = [copy EXCEPT !.request = TRUE] /\ UNCHANGED toTracker
  <2> DEFINE t2 == [t EXCEPT !.asked = ~ copy.request]
  <2>1. t2 \in SessionType /\ Stays(t, t2)
    BY <1>1 DEF SessionType, Stays
  <2>2. session' = [session EXCEPT ![a] = t2] /\ copy' \in Copy
    BY <1>1, <1>2
  <2>3. TrackerGood' = TrackerGood => ToTrackerOK'
    BY <1>2 DEF IInv, ToTrackerOK
  <2> HIDE DEF t2
  <2> QED
    BY <1>1, <2>1, <2>2, <2>3, SessionStepKeeps
<1>3. CASE /\ toTracker' = Append(toTracker, Msg(a, "Info", t.key, blocks))
           /\ session' = [session EXCEPT ![a].id = t.key] /\ UNCHANGED copy
  <2> DEFINE t2 == [t EXCEPT !.id = t.key]
  <2>1. t2 \in SessionType /\ Stays(t, t2)
    BY <1>1 DEF SessionType, Stays
  <2>2. session' = [session EXCEPT ![a] = t2] /\ copy' \in Copy
    BY <1>1, <1>3
  <2>3. t.key \in 1 .. lastId[a] /\ (t.key \in Open(sync[a]) => sync[a].state = "info")
    BY <1>1 DEF IInv, Sides, MonitorSide
  <2>4. blocks \in Nat /\ blocks \in 1 .. blocks
    BY DEF IInv, TypeOK
  <2>5. Fits(sync[a], Msg(a, "Info", t.key, blocks))
    BY <2>3 DEF Fits, Matches, Msg
  <2>6. TrackerGood' = TrackerGood => ToTrackerOK'
    BY <1>3, <2>3, <2>4, <2>5, AnswerGood
  <2> HIDE DEF t2
  <2> QED
    BY <1>1, <2>1, <2>2, <2>6, SessionStepKeeps
<1> QED
  BY <1>2, <1>3 DEF CopyTimeout

-----------------------------------------------------------------------------
(* The reputation, the storage and the connection                          *)

LEMMA AdmitAckKeeps ==
    ASSUME IInv, AdmitAck
    PROVE  IInv'
<1>1. toMonitor' \in Seq(MonitorGood) /\ Ordered(toMonitor', MonitorOrder)
  BY TakenFirst DEF AdmitAck
<1>2. /\ UNCHANGED <<reg, sync, lastId, session, blocks, toTracker>>
      /\ wasRegistered' = TRUE /\ UNCHANGED <<tracker, retries>>
  BY DEF AdmitAck, tracker, storage
<1>3. MonitorGood' = MonitorGood /\ MonitorOrder' = MonitorOrder
  BY <1>2 DEF MonitorGood, MonitorOrder
<1>4. TrackerGood \subseteq TrackerGood'
  BY <1>2 DEF TrackerGood, ToTrackerGood
<1>5. ToTrackerOK'
  <2>1. toTracker \in Seq(TrackerGood')
    BY <1>4, SeqIn DEF IInv, ToTrackerOK
  <2> QED
    BY <1>2, <2>1 DEF ToTrackerOK
<1>6. ToMonitorOK'
  BY <1>1, <1>3 DEF ToMonitorOK
<1>7. Sides' /\ StaysMarked /\ SessionsOK'
  BY <1>2 DEF Sides, TrackerSide, StaysMarked, SessionsOK, SessionType, IInv, TypeOK
<1>8. /\ synchronized' = synchronized /\ synchronized \in BOOLEAN
      /\ registered' = TRUE /\ allowed' = TRUE
      /\ marked' = marked /\ marked \subseteq Attempt
      /\ blocks' = blocks /\ blocks \in FirstBlocks .. MaxBlocks
      /\ copy' = copy /\ copy \in [request : BOOLEAN, copying : BOOLEAN, created : BOOLEAN]
      /\ disturbed' = disturbed /\ disturbed \in BOOLEAN
      /\ admit' \in [Attempt -> {"none", "wait", "done"}]
  BY DEF AdmitAck, IInv, TypeOK, storage
<1> QED
  BY <1>2, <1>5, <1>6, <1>7, <1>8, Assembled

LEMMA CopyKeeps ==
    ASSUME IInv, BeginCopy \/ EndCopy
    PROVE  IInv'
<1>1. /\ Rest /\ UNCHANGED <<tracker, retries, admit, reputation, blocks, disturbed>>
      /\ UNCHANGED <<toMonitor, toTracker>>
  BY DEF BeginCopy, EndCopy, Rest, monitor, reputation
<1>2. /\ Sides' /\ StaysMarked /\ SessionsOK' /\ MonitorGood' = MonitorGood
      /\ MonitorOrder' = MonitorOrder /\ TrackerGood' = TrackerGood
  BY <1>1, RestKeeps
<1>3. ToMonitorOK' /\ ToTrackerOK'
  BY <1>1, <1>2 DEF ToMonitorOK, ToTrackerOK, IInv
<1>4. copy' \in [request : BOOLEAN, copying : BOOLEAN, created : BOOLEAN]
  <2>1. copy \in [request : BOOLEAN, copying : BOOLEAN, created : BOOLEAN]
    BY DEF IInv, TypeOK
  <2>2. CASE BeginCopy
    BY <2>1, <2>2 DEF BeginCopy
  <2>3. CASE EndCopy
    BY <2>3 DEF EndCopy
  <2> QED
    BY <2>2, <2>3
<1> QED
  BY <1>1, <1>2, <1>3, <1>4, Served DEF IInv, TypeOK

LEMMA LoseKeeps ==
    ASSUME IInv, Lose
    PROVE  IInv'
<1>1. /\ Rest /\ UNCHANGED <<tracker, retries, admit, reputation, storage>>
      /\ toMonitor' = <<>> /\ toTracker' = <<>> /\ disturbed' = TRUE
  BY DEF Lose, Rest, monitor, reputation, storage
<1>2. /\ Sides' /\ StaysMarked /\ SessionsOK'
  BY <1>1, RestKeeps
<1>3. ToMonitorOK' /\ ToTrackerOK'
  BY <1>1 DEF ToMonitorOK, ToTrackerOK, Ordered
<1> QED
  BY <1>1, <1>2, <1>3, Served DEF IInv, TypeOK, storage

LEMMA ExpireKeeps ==
    ASSUME IInv, Expire
    PROVE  IInv'
<1>1. /\ Rest /\ UNCHANGED <<tracker, retries, toMonitor, toTracker>>
  BY DEF Expire, Rest, storage
<1>2. /\ Sides' /\ StaysMarked /\ SessionsOK' /\ MonitorGood' = MonitorGood
      /\ MonitorOrder' = MonitorOrder /\ TrackerGood' = TrackerGood
  BY <1>1, RestKeeps
<1>3. ToMonitorOK' /\ ToTrackerOK'
  BY <1>1, <1>2 DEF ToMonitorOK, ToTrackerOK, IInv
<1>4. /\ registered' = FALSE /\ allowed' = FALSE /\ disturbed' = TRUE
      /\ synchronized' = synchronized /\ synchronized \in BOOLEAN
      /\ wasRegistered' = wasRegistered /\ wasRegistered \in BOOLEAN
      /\ marked' = marked /\ marked \subseteq Attempt
      /\ blocks' = blocks /\ blocks \in FirstBlocks .. MaxBlocks
      /\ copy' = copy /\ copy \in [request : BOOLEAN, copying : BOOLEAN, created : BOOLEAN]
      /\ admit' = admit /\ admit \in [Attempt -> {"none", "wait", "done"}]
  BY DEF Expire, IInv, TypeOK, storage
<1> QED
  BY <1>1, <1>2, <1>3, <1>4, Assembled

LEMMA GrowKeeps ==
    ASSUME IInv, Grow
    PROVE  IInv'
<1>1. /\ UNCHANGED <<reg, sync, lastId, session, wasRegistered, toMonitor, toTracker>>
      /\ UNCHANGED <<tracker, retries, admit, reputation, copy, disturbed>>
      /\ blocks' = blocks + 1 /\ blocks \in FirstBlocks .. MaxBlocks /\ blocks < MaxBlocks
  BY DEF Grow, tracker, monitor, reputation, IInv, TypeOK
<1>2. blocks \in Nat /\ blocks' \in FirstBlocks .. MaxBlocks /\ blocks' \in Nat
  BY <1>1
<1>3. MonitorGood' = MonitorGood /\ MonitorOrder' = MonitorOrder
  BY <1>1 DEF MonitorGood, MonitorOrder
<1>4. 1 .. blocks \subseteq 1 .. blocks'
  BY <1>1, <1>2
<1>5. TrackerGood \subseteq TrackerGood'
  BY <1>1, <1>4 DEF TrackerGood, ToTrackerGood
<1>6. toTracker' \in Seq(TrackerGood')
  <2>1. toTracker \in Seq(TrackerGood')
    BY <1>5, SeqIn DEF IInv, ToTrackerOK
  <2> QED
    BY <1>1, <2>1
<1>7. ToMonitorOK' /\ ToTrackerOK'
  BY <1>1, <1>3, <1>6 DEF ToMonitorOK, ToTrackerOK, IInv
<1>8. Sides'
  <2> SUFFICES ASSUME NEW a \in Attempt
               PROVE  /\ TrackerSide(sync[a], reg[a], lastId[a], wasRegistered, blocks')
                      /\ MonitorSide(session[a], sync[a], reg[a], lastId[a])
    BY <1>1 DEF Sides
  <2>1. sync[a].size \in 0 .. MaxBlocks
    BY DEF IInv, TypeOK
  <2> QED
    BY <1>1, <1>2, <2>1 DEF IInv, Sides, TrackerSide
<1>9. StaysMarked /\ SessionsOK'
  BY <1>1 DEF StaysMarked, SessionsOK, SessionType, IInv, TypeOK
<1>10. /\ registered' = registered /\ registered \in BOOLEAN
       /\ allowed' = allowed /\ allowed \in BOOLEAN
       /\ synchronized' = synchronized /\ synchronized \in BOOLEAN
       /\ wasRegistered' = wasRegistered /\ wasRegistered \in BOOLEAN
       /\ allowed => wasRegistered
       /\ marked' = marked /\ marked \subseteq Attempt
       /\ copy' = copy /\ copy \in [request : BOOLEAN, copying : BOOLEAN, created : BOOLEAN]
       /\ admit' = admit /\ admit \in [Attempt -> {"none", "wait", "done"}]
       /\ disturbed' = disturbed /\ disturbed \in BOOLEAN
  BY <1>1 DEF IInv, TypeOK, Membership, reputation
<1> QED
  BY <1>1, <1>2, <1>7, <1>8, <1>9, <1>10, Assembled

-----------------------------------------------------------------------------
(* The theorems                                                            *)

LEMMA InitHolds == Init => IInv
<1> SUFFICES ASSUME Init
             PROVE  IInv
  OBVIOUS
<1>1. TypeOK
  <2>1. NoReg \in RegType
    BY DEF NoReg, RegType
  <2>2. NoSync \in SyncType
    BY DEF NoSync, SyncType
  <2>3. NoSession \in SessionType /\ NoSession.state # "serve"
    BY DEF NoSession, SessionType
  <2>4. /\ reg \in [Attempt -> RegType] /\ sync \in [Attempt -> SyncType]
        /\ session \in [Attempt -> SessionType]
        /\ \A a \in Attempt : session[a].state # "serve"
    BY <2>1, <2>2, <2>3 DEF Init
  <2>5. copy \in [request : BOOLEAN, copying : BOOLEAN, created : BOOLEAN]
    BY DEF Init
  <2>6. /\ connected \subseteq Attempt
        /\ registered \in BOOLEAN /\ allowed \in BOOLEAN
        /\ synchronized \in BOOLEAN /\ wasRegistered \in BOOLEAN
        /\ marked \subseteq Attempt /\ disturbed \in BOOLEAN
    BY Zenon DEF Init
  <2>7. toMonitor \in Seq(Message) /\ toTracker \in Seq(Message)
    BY DEF Init
  <2>8. lastId \in [Attempt -> Nat]
    BY DEF Init
  <2>9. admit \in [Attempt -> {"none", "wait", "done"}]
    BY DEF Init
  <2>10. blocks \in FirstBlocks .. MaxBlocks
    BY DEF Init
  <2>11. retries \in 0 .. MaxRetries
    BY DEF Init
  <2> QED
    BY <2>4, <2>5, <2>6, <2>7, <2>8, <2>9, <2>10, <2>11 DEF TypeOK, RegType, SyncType, SessionType
<1>2. ToMonitorOK /\ ToTrackerOK
  BY DEF Init, ToMonitorOK, ToTrackerOK, Ordered
<1>3. Sides
  BY DEF Init, Sides, TrackerSide, MonitorSide, NoReg, NoSync, NoSession, Before
<1>4. Membership
  BY DEF Init, Membership
<1> QED
  BY <1>1, <1>2, <1>3, <1>4 DEF IInv

LEMMA StutterKeeps ==
    ASSUME IInv, UNCHANGED vars
    PROVE  IInv'
<1>1. UNCHANGED <<reg, sync, lastId, connected, admit, session, registered, allowed,
                  synchronized, wasRegistered, marked, blocks, copy, toMonitor, toTracker,
                  retries, disturbed>>
  BY DEF vars, tracker, monitor, reputation, storage
<1>2. MonitorGood' = MonitorGood /\ MonitorOrder' = MonitorOrder /\ TrackerGood' = TrackerGood
  BY <1>1 DEF MonitorGood, MonitorOrder, TrackerGood
<1> QED
  BY <1>1, <1>2 DEF IInv, TypeOK, ToMonitorOK, ToTrackerOK, Sides, Membership

LEMMA NextKeeps ==
    ASSUME IInv, [Next]_vars
    PROVE  IInv'
<1>1. ASSUME NEW a \in Attempt,
             \/ Register(a) \/ Terms(a) \/ NoTerms(a) \/ AdmitResult(a) \/ RegisterTimeout(a)
             \/ RegisterEnd(a)
      PROVE  IInv'
  BY <1>1, RegisterActionKeeps, TermsKeeps, AdmitResultKeeps
<1>2. ASSUME NEW a \in Attempt,
             \/ SyncResult(a) \/ BitcoinHeader(a) \/ SynchronizationInfo(a)
             \/ HeaderReceived(a) \/ BlockReceived(a) \/ SyncTimeout(a) \/ SyncTurn(a)
             \/ SyncEnd(a)
      PROVE  IInv'
  BY <1>2, SyncResultKeeps, BitcoinHeaderKeeps, SynchronizationInfoKeeps, HeaderReceivedKeeps,
     BlockReceivedKeeps, SyncTimeoutKeeps, SyncTurnKeeps, SyncEndKeeps
<1>3. ASSUME NEW a \in Attempt,
             SessionTurn(a) \/ SessionEnd(a) \/ SessionTimeout(a) \/ CopyTimeout(a)
      PROVE  IInv'
  BY <1>3, SessionKeeps, CopyTimeoutKeeps
<1>4. CASE MonitorStep
  BY <1>4, AdmitAskKeeps, SynchronizationAskKeeps, AdmitAckKeeps, BitcoinAskKeeps,
     StorageAskKeeps, InfoAckKeeps, GetKeeps, BlockAckKeeps, MonitorIgnoresKeeps
     DEF MonitorStep
<1>5. CASE TrackerIgnores \/ BeginCopy \/ EndCopy \/ Grow \/ Expire \/ Lose
  BY <1>5, TrackerIgnoresKeeps, CopyKeeps, GrowKeeps, ExpireKeeps, LoseKeeps
<1>6. CASE UNCHANGED vars
  BY <1>6, StutterKeeps
<1> QED
  BY <1>1, <1>2, <1>3, <1>4, <1>5, <1>6 DEF Next, TrackerStep

\* The inductive invariant of joining holds in every reachable state, however many
\* attempts a user starts and whatever is lost, late or sent again.
THEOREM Invariance == Spec => []IInv
<1>1. IInv /\ [Next]_vars => IInv'
  BY NextKeeps
<1> QED
  BY InitHolds, <1>1, PTL DEF Spec

\* The state of both sides always has its type; a session that serves has blocks.
THEOREM TypeCorrect == Spec => []TypeOK
<1>1. IInv => TypeOK
  BY DEF IInv
<1> QED
  BY Invariance, <1>1, PTL

\* Whoever called setInNetwork was registered: CSynchronizationAction is only told to
\* go on by a monitor that had allowed it, which addTracker does.
THEOREM MembersWereAdmitted == Spec => []JoinedWasAdmitted
<1>1. IInv => JoinedWasAdmitted
  BY DEF IInv, Membership, JoinedWasAdmitted
<1> QED
  BY Invariance, <1>1, PTL

\* onSynchronizedExit is called only for an attempt that stored every block.
THEOREM SynchronizedComplete == Spec => []SynchronizedHasEverything
<1>1. IInv => SynchronizedHasEverything
  <2> SUFFICES ASSUME IInv, NEW a \in marked
               PROVE  /\ sync[a].result = "good" /\ sync[a].k = sync[a].size
                      /\ session[a].state = "serve" => sync[a].size = session[a].stored
    BY DEF SynchronizedHasEverything
  <2>1. a \in Attempt /\ Marked(sync[a], session[a])
    BY DEF IInv, TypeOK, Membership
  <2> QED
    BY <2>1 DEF IInv, Sides, TrackerSide, Marked
<1> QED
  BY Invariance, <1>1, PTL

\* No answer trips the asserts of the states of CSynchronizationAction.
THEOREM AnswersAreExpected == Spec => []AnswerFits
<1>1. IInv => AnswerFits
  <2> DEFINE m == Head(toTracker)
             s == sync[m.a]
  <2> SUFFICES ASSUME IInv, toTracker # <<>>, m.kind # "Admit", m.id \in Requests(m.a),
                      s.state # "done"
               PROVE  \/ s.state = "ask" /\ m.kind = "Sync"
                      \/ s.state = "bitcoin" /\ m.kind = "BitcoinHeader"
                      \/ s.state = "info" /\ m.kind = "Info"
                      \/ s.state = "headers" /\ m.kind = "Header" /\ m.n = s.k
                      \/ s.state = "blocks" /\ m.kind = "Block" /\ m.n = s.k
    BY DEF AnswerFits
  <2>1. m \in TrackerGood
    BY DEF IInv, ToTrackerOK
  <2>2. ToTrackerGood(m, s, lastId[m.a], wasRegistered, blocks)
    BY <2>1 DEF TrackerGood
  <2> HIDE DEF m
  <2>3. m.id \in Open(s)
    BY DEF Requests, Open
  <2>4. Matches(s, m)
    BY <2>2, <2>3 DEF ToTrackerGood, Fits
  <2> QED
    BY <2>2, <2>4 DEF Matches, ToTrackerGood
<1> QED
  BY Invariance, <1>1, PTL

==============================================================================
