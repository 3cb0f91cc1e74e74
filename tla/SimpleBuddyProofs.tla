-------------------------- MODULE SimpleBuddyProofs --------------------------
(***************************************************************************)
(* Proofs about SimpleBuddy, for a segment of any size: the marks of the   *)
(* tree fit each other, and the tree implements Allocator.                 *)
(***************************************************************************)
EXTENDS SimpleBuddy, FiniteSetTheorems, Induction

-----------------------------------------------------------------------------
(* Powers of two: the library knows them as the sizes of sets of subsets.  *)

LEMMA PowerIsCount ==
    ASSUME NEW n \in Nat
    PROVE  /\ IsFiniteSet(1 .. n) /\ IsFiniteSet(SUBSET (1 .. n))
           /\ Cardinality(SUBSET (1 .. n)) = 2 ^ n /\ 2 ^ n \in Nat
<1>1. IsFiniteSet(1 .. n) /\ Cardinality(1 .. n) = n
  BY FS_Interval
<1>2. IsFiniteSet(SUBSET (1 .. n)) /\ Cardinality(SUBSET (1 .. n)) = 2 ^ Cardinality(1 .. n)
  BY <1>1, FS_SUBSET
<1> QED
  BY <1>1, <1>2, FS_CardinalityType

LEMMA PowerDoubles ==
    ASSUME NEW n \in Nat
    PROVE  2 ^ (n + 1) = 2 * 2 ^ n
<1> DEFINE S == SUBSET (1 .. n)
           T == {A \cup {n + 1} : A \in S}
           f == [A \in S |-> A \cup {n + 1}]
<1>1. IsFiniteSet(S) /\ Cardinality(S) = 2 ^ n /\ 2 ^ n \in Nat
  BY PowerIsCount
<1>2. SUBSET (1 .. n + 1) = S \cup T
  <2>1. ASSUME NEW A \in SUBSET (1 .. n + 1)
        PROVE  A \in S \cup T
    <3>1. A \ {n + 1} \in S
      OBVIOUS
    <3>2. n + 1 \in A => A = (A \ {n + 1}) \cup {n + 1}
      OBVIOUS
    <3> QED
      BY <3>1, <3>2
  <2>2. S \cup T \subseteq SUBSET (1 .. n + 1)
    <3>1. 1 .. n \subseteq 1 .. n + 1 /\ n + 1 \in 1 .. n + 1
      OBVIOUS
    <3> QED
      BY <3>1
  <2> QED
    BY <2>1, <2>2
<1>3. S \cap T = {}
  OBVIOUS
<1>4. f \in Bijection(S, T)
  <2>1. ASSUME NEW A \in S, NEW B \in S, f[A] = f[B]
        PROVE  A = B
    <3>1. A = f[A] \ {n + 1} /\ B = f[B] \ {n + 1}
      OBVIOUS
    <3> QED
      BY <2>1, <3>1
  <2>2. f \in [S -> T] /\ \A t \in T : \E s \in S : f[s] = t
    OBVIOUS
  <2> HIDE DEF S, T, f
  <2> QED
    BY <2>1, <2>2 DEF Bijection, Injection, Surjection, IsInjective
<1>5. IsFiniteSet(T) /\ Cardinality(T) = Cardinality(S)
  <2> HIDE DEF S, T, f
  <2> QED
    BY <1>1, <1>4, FS_Bijection DEF ExistsBijection
<1>6. Cardinality(S \cup T) = Cardinality(S) + Cardinality(T)
  <2> HIDE DEF S, T, f
  <2>1. Cardinality(S \cup T) = Cardinality(S) + Cardinality(T) - Cardinality(S \cap T)
    BY <1>1, <1>5, FS_Union
  <2>2. Cardinality(S \cap T) = 0
    BY <1>3, FS_EmptySet
  <2> QED
    BY <1>1, <1>5, <2>1, <2>2
<1>7. Cardinality(SUBSET (1 .. n + 1)) = 2 ^ (n + 1)
  BY PowerIsCount, n + 1 \in Nat
<1> QED
  <2> HIDE DEF S, T, f
  <2>1. Cardinality(S \cup T) = 2 ^ n + 2 ^ n
    BY <1>1, <1>5, <1>6
  <2>2. 2 ^ (n + 1) = 2 ^ n + 2 ^ n
    BY <1>2, <1>7, <2>1
  <2> QED
    BY <1>1, <2>2

LEMMA PowerPositive == \A n \in Nat : 2 ^ n \in Nat /\ 2 ^ n >= 1
<1> DEFINE G == {n \in Nat : 2 ^ n >= 1}
<1>1. 0 \in G
  OBVIOUS
<1>2. ASSUME NEW n \in Nat, n \in G
      PROVE  n + 1 \in G
  <2>1. 2 ^ (n + 1) = 2 * 2 ^ n /\ 2 ^ n \in Nat /\ 2 ^ n >= 1
    BY <1>2, PowerDoubles, PowerIsCount
  <2> QED
    BY <2>1
<1>3. Nat \subseteq G
  <2> HIDE DEF G
  <2> QED
    BY <1>1, <1>2, NatInd
<1> QED
  BY <1>3, PowerIsCount

LEMMA PowerGrows ==
    ASSUME NEW m \in Nat, NEW n \in Nat, m < n
    PROVE  2 * 2 ^ m <= 2 ^ n
<1> DEFINE G == {d \in Nat : 2 * 2 ^ m <= 2 ^ (m + 1 + d)}
<1>1. 0 \in G
  <2>1. m + 1 + 0 = m + 1
    OBVIOUS
  <2>2. 2 ^ (m + 1) = 2 * 2 ^ m /\ 2 ^ m \in Nat
    BY PowerDoubles, PowerIsCount
  <2> QED
    BY <2>1, <2>2
<1>2. ASSUME NEW d \in Nat, d \in G
      PROVE  d + 1 \in G
  <2>1. m + 1 + d \in Nat /\ (m + 1 + d) + 1 = m + 1 + (d + 1)
    OBVIOUS
  <2>2. 2 ^ (m + 1 + (d + 1)) = 2 * 2 ^ (m + 1 + d) /\ 2 ^ (m + 1 + d) \in Nat /\ 2 ^ m \in Nat
    BY <2>1, PowerDoubles, PowerIsCount
  <2> QED
    BY <1>2, <2>2
<1>3. Nat \subseteq G
  <2> HIDE DEF G
  <2> QED
    BY <1>1, <1>2, NatInd
<1>4. n - m - 1 \in Nat /\ m + 1 + (n - m - 1) = n
  OBVIOUS
<1>5. n - m - 1 \in G
  BY <1>3, <1>4
<1> QED
  BY <1>4, <1>5

-----------------------------------------------------------------------------
(* The shape of the tree                                                    *)

\* The last node
Last == 2 ^ (BaseLevel + 1) - 2

LEMMA LastIs ==
    /\ BaseLevel \in Nat /\ Node = 0 .. Last /\ Last \in Nat
    /\ 2 ^ BaseLevel \in Nat /\ 2 ^ BaseLevel >= 1 /\ Last = 2 * 2 ^ BaseLevel - 2
<1>1. BaseLevel \in Nat
  BY BaseLevelAssumption
<1>2. 2 ^ BaseLevel \in Nat /\ 2 ^ BaseLevel >= 1 /\ 2 ^ (BaseLevel + 1) = 2 * 2 ^ BaseLevel
  BY <1>1, PowerPositive, PowerDoubles
<1> QED
  BY <1>1, <1>2 DEF Node, Last

\* The parent of a node, and the node that has the same one.
LEMMA Family ==
    ASSUME NEW i \in Node, i # 0
    PROVE  /\ Parent(i) \in Node /\ Parent(i) < i
           /\ i = 2 * Parent(i) + 1 \/ i = 2 * Parent(i) + 2
           /\ Buddy(i) \in Node /\ Buddy(i) # 0 /\ Buddy(i) # i
           /\ Parent(Buddy(i)) = Parent(i) /\ Buddy(Buddy(i)) = i
           /\ \A j \in Node : j # 0 /\ Parent(j) = Parent(i) => j \in {i, Buddy(i)}
<1>1. PICK h \in Nat : Last = 2 * h /\ Node = 0 .. 2 * h
  <2>1. 2 ^ BaseLevel - 1 \in Nat /\ Last = 2 * (2 ^ BaseLevel - 1)
    BY LastIs
  <2> QED
    BY <2>1, LastIs
<1>2. i \in Nat /\ i >= 1 /\ i <= 2 * h
  BY <1>1
<1>3. PICK q \in Nat : i = 2 * q + 1 \/ i = 2 * q + 2
  <2>1. (i - 1) \div 2 \in Nat /\ (i = 2 * ((i - 1) \div 2) + 1 \/ i = 2 * ((i - 1) \div 2) + 2)
    BY <1>2
  <2> QED
    BY <2>1
<1>4. Parent(i) = q /\ Buddy(i) = (IF i = 2 * q + 1 THEN i + 1 ELSE i - 1)
  BY <1>2, <1>3 DEF Parent, Buddy
<1>5. Buddy(i) \in Node /\ Buddy(i) # 0 /\ Buddy(i) # i
  BY <1>1, <1>2, <1>3, <1>4
<1>6. Parent(Buddy(i)) = q /\ Buddy(Buddy(i)) = i
  BY <1>2, <1>3, <1>4 DEF Parent, Buddy
<1>7. ASSUME NEW j \in Node, j # 0, Parent(j) = q
      PROVE  j \in {i, Buddy(i)}
  <2>1. j \in Nat /\ (j = 2 * q + 1 \/ j = 2 * q + 2)
    BY <1>1, <1>7 DEF Parent
  <2> QED
    BY <1>3, <1>4, <2>1
<1> QED
  BY <1>1, <1>2, <1>3, <1>4, <1>5, <1>6, <1>7

\* What holds of the root, and of a node if of its parent, holds of all.
LEMMA NodeInd ==
    ASSUME NEW G, 0 \in G, \A i \in Node : i # 0 /\ Parent(i) \in G => i \in G
    PROVE  Node \subseteq G
<1>1. SUFFICES ASSUME Node \ G # {}
               PROVE  FALSE
  OBVIOUS
<1>2. Node \ G \subseteq Nat
  BY LastIs
<1>3. PICK x \in Node \ G : \A y \in Node \ G : x <= y
  BY <1>1, <1>2, NatMin
<1>4. x # 0 /\ Parent(x) \in Node /\ Parent(x) < x /\ Parent(x) \in Nat /\ x \in Nat
  BY <1>2, <1>3, Family, LastIs
<1> QED
  BY <1>3, <1>4

\* A set of nodes has a last one.
LEMMA NodeMax ==
    ASSUME NEW T, T \subseteq Node, T # {}
    PROVE  \E x \in T : \A y \in T : y <= x
<1> DEFINE D == {Last - x : x \in T}
<1>1. D \subseteq Nat /\ D # {}
  <2>1. ASSUME NEW x \in T
        PROVE  Last - x \in Nat
    BY LastIs, x \in 0 .. Last
  <2> QED
    BY <2>1
<1>2. PICK d \in D : \A e \in D : d <= e
  <2> HIDE DEF D
  <2> QED
    BY <1>1, NatMin
<1>3. PICK x \in T : d = Last - x
  BY <1>2
<1>4. ASSUME NEW y \in T
      PROVE  y <= x
  <2>1. d <= Last - y
    BY <1>2
  <2> QED
    BY <1>3, <2>1, LastIs
<1> QED
  BY <1>4

\* Path is what its definition says: such a function exists.
LEMMA PathIs ==
    \A i \in Node : Path[i] = {i} \cup (IF i = 0 THEN {} ELSE Path[Parent(i)])
<1> DEFINE Good(n, f) == f = [i \in 0 .. n |-> {i} \cup (IF i = 0 THEN {} ELSE f[Parent(i)])]
           G == {n \in Nat : n <= Last => \E f : Good(n, f)}
<1>1. 0 \in G
  <2>1. Good(0, [i \in 0 .. 0 |-> {i}])
    OBVIOUS
  <2> QED
    BY <2>1
<1>2. ASSUME NEW n \in Nat, n \in G
      PROVE  n + 1 \in G
  <2>1. SUFFICES ASSUME n + 1 <= Last
                 PROVE  \E f : Good(n + 1, f)
    OBVIOUS
  <2>2. PICK f : Good(n, f)
    BY <1>2, <2>1, LastIs
  <2> DEFINE g == [i \in 0 .. n + 1 |-> IF i = n + 1 THEN {i} \cup f[Parent(i)] ELSE f[i]]
  <2>3. ASSUME NEW i \in 0 .. n + 1
        PROVE  g[i] = {i} \cup (IF i = 0 THEN {} ELSE g[Parent(i)])
    <3>1. i # 0 => Parent(i) \in 0 .. n /\ g[Parent(i)] = f[Parent(i)]
      <4>1. i \in Node
        BY <2>1, LastIs
      <4>2. i # 0 => Parent(i) \in Nat /\ Parent(i) < i
        BY <4>1, Family, LastIs
      <4> QED
        BY <4>2
    <3>2. CASE i = n + 1
      BY <3>1, <3>2
    <3>3. CASE i # n + 1
      <4>1. i \in 0 .. n
        BY <3>3
      <4>2. f[i] = {i} \cup (IF i = 0 THEN {} ELSE f[Parent(i)])
        BY <2>2, <4>1
      <4> QED
        BY <3>1, <3>3, <4>2
    <3> QED
      BY <3>2, <3>3
  <2>4. Good(n + 1, g)
    <3>1. g = [i \in 0 .. n + 1 |-> g[i]]
      OBVIOUS
    <3> HIDE DEF g
    <3> QED
      BY <2>3, <3>1
  <2> HIDE DEF Good, g
  <2> QED
    BY <2>4
<1>3. Nat \subseteq G
  <2> HIDE DEF G
  <2> QED
    BY <1>1, <1>2, NatInd
<1>4. PICK f : Good(Last, f)
  <2>1. Last \in Nat /\ Last <= Last
    BY LastIs
  <2> HIDE DEF Good
  <2> QED
    BY <1>3, <2>1
<1>5. f = [i \in Node |-> {i} \cup (IF i = 0 THEN {} ELSE f[Parent(i)])]
  BY <1>4, LastIs
<1>6. Path = [i \in Node |-> {i} \cup (IF i = 0 THEN {} ELSE Path[Parent(i)])]
  <2> HIDE DEF Good, G
  <2> QED
    BY <1>5 DEF Path
<1> QED
  BY <1>6

\* A path goes from a node to the root, and is a chain.
LEMMA PathStart ==
    /\ Path[0] = {0}
    /\ \A i \in Node : i # 0 => Path[i] = {i} \cup Path[Parent(i)]
<1>1. 0 \in Node
  BY LastIs
<1> QED
  BY <1>1, PathIs

LEMMA PathFacts ==
    \A i \in Node : /\ Path[i] \subseteq Node /\ i \in Path[i] /\ 0 \in Path[i]
                    /\ \A a \in Path[i] : a <= i /\ Path[a] \subseteq Path[i]
<1> DEFINE G == {i \in Node : /\ Path[i] \subseteq Node /\ i \in Path[i] /\ 0 \in Path[i]
                              /\ \A a \in Path[i] : a <= i /\ Path[a] \subseteq Path[i]}
<1>1. 0 \in G
  BY PathStart, LastIs
<1>2. ASSUME NEW i \in Node, i # 0, Parent(i) \in G
      PROVE  i \in G
  <2>1. Path[i] = {i} \cup Path[Parent(i)] /\ Parent(i) < i
    BY <1>2, PathStart, Family
  <2>2. /\ Path[Parent(i)] \subseteq Node /\ 0 \in Path[Parent(i)]
        /\ \A a \in Path[Parent(i)] : a <= Parent(i) /\ Path[a] \subseteq Path[Parent(i)]
    BY <1>2
  <2>3. ASSUME NEW a \in Path[i]
        PROVE  a <= i /\ Path[a] \subseteq Path[i]
    <3>1. CASE a = i
      BY <3>1, LastIs
    <3>2. CASE a \in Path[Parent(i)]
      <4>1. a \in Nat /\ i \in Nat /\ Parent(i) \in Nat
        BY <1>2, <2>2, <3>2, Family, LastIs
      <4> QED
        BY <2>1, <2>2, <3>2, <4>1
    <3> QED
      BY <2>1, <3>1, <3>2
  <2> QED
    BY <2>1, <2>2, <2>3
<1>3. Node \subseteq G
  <2> HIDE DEF G
  <2> QED
    BY <1>1, <1>2, NodeInd
<1> QED
  BY <1>3

LEMMA AboveIs ==
    ASSUME NEW i \in Node
    PROVE  /\ Above(i) \subseteq Node /\ i \notin Above(i) /\ Path[i] = {i} \cup Above(i)
           /\ Above(0) = {}
           /\ i # 0 => Above(i) = Path[Parent(i)]
           /\ \A a \in Above(i) : a < i /\ Path[a] \subseteq Above(i)
<1>1. Path[i] \subseteq Node /\ i \in Path[i] /\ \A a \in Path[i] : a <= i /\ Path[a] \subseteq Path[i]
  BY PathFacts
<1>2. Node \subseteq Nat /\ 0 \in Node
  BY LastIs
<1>3. ASSUME NEW a \in Above(i)
      PROVE  a < i /\ Path[a] \subseteq Above(i)
  <2>1. a \in Path[i] /\ a # i /\ a \in Nat /\ i \in Nat /\ a \in Node
    BY <1>1, <1>2, <1>3 DEF Above
  <2>2. a < i
    BY <1>1, <2>1
  <2>3. i \notin Path[a]
    BY <2>1, <2>2, PathFacts
  <2> QED
    BY <1>1, <2>1, <2>2, <2>3 DEF Above
<1>4. i # 0 => Above(i) = Path[Parent(i)]
  <2>1. SUFFICES ASSUME i # 0
                 PROVE  Above(i) = Path[Parent(i)]
    OBVIOUS
  <2>2. Path[i] = {i} \cup Path[Parent(i)] /\ Parent(i) < i /\ Parent(i) \in Node
    BY <2>1, PathStart, Family
  <2>3. i \notin Path[Parent(i)]
    <3>1. \A a \in Path[Parent(i)] : a <= Parent(i)
      BY <2>2, PathFacts
    <3>2. i \in Nat /\ Parent(i) \in Nat
      BY <1>2, <2>2
    <3> QED
      BY <2>2, <3>1, <3>2
  <2> QED
    BY <2>2, <2>3 DEF Above
<1>5. Above(0) = {}
  BY PathStart DEF Above
<1> QED
  BY <1>1, <1>3, <1>4, <1>5 DEF Above

\* The child of an ancestor on the way down to a node
LEMMA WayDown ==
    \A i \in Node : \A a \in Above(i) :
        \E c \in Path[i] : /\ c # 0 /\ Parent(c) = a /\ c \notin Path[a]
                           /\ Path[i] \ Path[a] = (Path[i] \ Path[c]) \cup {c}
<1> DEFINE Step(i, a, c) == /\ c # 0 /\ Parent(c) = a /\ c \notin Path[a]
                            /\ Path[i] \ Path[a] = (Path[i] \ Path[c]) \cup {c}
           G == {i \in Node : \A a \in Above(i) : \E c \in Path[i] : Step(i, a, c)}
<1>1. 0 \in G
  BY AboveIs, LastIs
<1>2. ASSUME NEW i \in Node, i # 0, Parent(i) \in G
      PROVE  i \in G
  <2>1. /\ Path[i] = {i} \cup Path[Parent(i)] /\ Parent(i) \in Node
        /\ Above(i) = Path[Parent(i)] /\ i \notin Above(i) /\ i \in Path[i]
    BY <1>2, PathStart, Family, AboveIs, PathFacts
  <2>2. ASSUME NEW a \in Above(i)
        PROVE  \E c \in Path[i] : Step(i, a, c)
    <3>1. CASE a = Parent(i)
      <4>1. Step(i, a, i)
        BY <1>2, <2>1, <3>1
      <4> QED
        BY <2>1, <4>1
    <3>2. CASE a # Parent(i)
      <4>1. a \in Above(Parent(i))
        BY <2>1, <3>2 DEF Above
      <4>2. PICK c \in Path[Parent(i)] : Step(Parent(i), a, c)
        BY <1>2, <4>1
      <4>3. i \notin Path[a] /\ i \notin Path[c]
        BY <2>1, <2>2, <4>2, AboveIs
      <4>4. Step(i, a, c)
        BY <2>1, <4>2, <4>3
      <4> QED
        BY <2>1, <4>2, <4>4
    <3> QED
      BY <3>1, <3>2
  <2> QED
    BY <2>2
<1>3. Node \subseteq G
  <2> HIDE DEF G
  <2> QED
    BY <1>1, <1>2, NodeInd
<1> QED
  BY <1>3

LEMMA Chain ==
    \A i \in Node : \A a, b \in Path[i] : a \in Path[b] \/ b \in Path[a]
<1> DEFINE G == {i \in Node : \A a, b \in Path[i] : a \in Path[b] \/ b \in Path[a]}
<1>1. 0 \in G
  BY PathStart, LastIs
<1>2. ASSUME NEW i \in Node, i # 0, Parent(i) \in G
      PROVE  i \in G
  <2>1. Path[i] = {i} \cup Path[Parent(i)]
    BY <1>2, PathStart
  <2> QED
    BY <1>2, <2>1
<1>3. Node \subseteq G
  <2> HIDE DEF G
  <2> QED
    BY <1>1, <1>2, NodeInd
<1> QED
  BY <1>3

\* The way down passes one of two buddies only.
LEMMA BuddyBeside ==
    ASSUME NEW i \in Node, NEW c \in Path[i], c # 0
    PROVE  Buddy(c) \notin Path[i]
<1>1. c \in Node /\ Node \subseteq Nat
  BY PathFacts, LastIs
<1>2. /\ Buddy(c) \in Node /\ Buddy(c) # 0 /\ Buddy(c) # c
      /\ Parent(Buddy(c)) = Parent(c) /\ Parent(c) \in Node
  BY <1>1, Family
<1>3. Path[c] = {c} \cup Above(c) /\ Path[Buddy(c)] = {Buddy(c)} \cup Above(Buddy(c))
  BY <1>1, <1>2, AboveIs
<1>4. Above(c) = Path[Parent(c)] /\ Above(Buddy(c)) = Path[Parent(c)]
  BY <1>1, <1>2, AboveIs
<1>5. c \notin Above(c) /\ Buddy(c) \notin Above(Buddy(c))
  BY <1>1, <1>2, AboveIs
<1> QED
  BY <1>2, <1>3, <1>4, <1>5, Chain

-----------------------------------------------------------------------------
(* Levels and units                                                         *)

LEMMA LevelStep ==
    /\ LevelOf(0) = 0
    /\ \A i \in Node : /\ LevelOf(i) \in Nat
                       /\ i # 0 => LevelOf(i) = LevelOf(Parent(i)) + 1
<1>1. LevelOf(0) = 0
  <2>1. 0 \in Node
    BY LastIs
  <2>2. Above(0) = {}
    BY <2>1, AboveIs
  <2> QED
    BY <2>2, FS_EmptySet DEF LevelOf
<1>2. IsFiniteSet(Node)
  BY LastIs, FS_Interval
<1>3. ASSUME NEW i \in Node
      PROVE  IsFiniteSet(Above(i)) /\ LevelOf(i) \in Nat
  <2>1. Above(i) \in SUBSET Node
    BY AboveIs
  <2>2. IsFiniteSet(Above(i))
    BY <1>2, <2>1, FS_Subset
  <2> QED
    BY <2>2, FS_CardinalityType DEF LevelOf
<1>4. ASSUME NEW i \in Node, i # 0
      PROVE  LevelOf(i) = LevelOf(Parent(i)) + 1
  <2>1. Parent(i) \in Node
    BY <1>4, Family
  <2>2. /\ Above(i) = Above(Parent(i)) \cup {Parent(i)}
        /\ Parent(i) \notin Above(Parent(i)) /\ IsFiniteSet(Above(Parent(i)))
    BY <1>3, <1>4, <2>1, AboveIs
  <2>3. Cardinality(Above(Parent(i)) \cup {Parent(i)}) = Cardinality(Above(Parent(i))) + 1
    BY <2>2, FS_AddElement
  <2> QED
    BY <2>2, <2>3 DEF LevelOf
<1> QED
  BY <1>1, <1>3, <1>4

\* The nodes of a level are numbered one after the other.
LEMMA LevelBounds ==
    \A i \in Node : /\ LevelOf(i) \in 0 .. BaseLevel /\ 2 ^ LevelOf(i) \in Nat
                    /\ 2 ^ LevelOf(i) <= i + 1 /\ i + 1 < 2 * 2 ^ LevelOf(i)
<1> DEFINE G == {i \in Node : 2 ^ LevelOf(i) <= i + 1 /\ i + 1 < 2 * 2 ^ LevelOf(i)}
<1>1. 0 \in G
  <2>1. LevelOf(0) = 0 /\ 0 \in Node
    BY LevelStep, LastIs
  <2>2. 2 ^ 0 = 1
    OBVIOUS
  <2>3. 2 ^ LevelOf(0) = 1
    BY <2>1, <2>2
  <2> QED
    BY <2>1, <2>3
<1>2. ASSUME NEW i \in Node, i # 0, Parent(i) \in G
      PROVE  i \in G
  <2>1. /\ LevelOf(i) = LevelOf(Parent(i)) + 1 /\ LevelOf(Parent(i)) \in Nat
        /\ i \in Nat /\ Parent(i) \in Nat
        /\ i = 2 * Parent(i) + 1 \/ i = 2 * Parent(i) + 2
    BY <1>2, LevelStep, Family, LastIs
  <2> DEFINE p == 2 ^ LevelOf(Parent(i))
  <2>2. p \in Nat /\ 2 ^ LevelOf(i) = 2 * p
    BY <2>1, PowerDoubles, PowerPositive
  <2>3. p <= Parent(i) + 1 /\ Parent(i) + 1 < 2 * p
    BY <1>2
  <2> HIDE DEF p
  <2>4. 2 * p <= i + 1 /\ i + 1 < 2 * (2 * p)
    BY <2>1, <2>2, <2>3
  <2> QED
    BY <2>2, <2>4
<1>3. Node \subseteq G
  <2> HIDE DEF G
  <2> QED
    BY <1>1, <1>2, NodeInd
<1>4. ASSUME NEW i \in Node
      PROVE  LevelOf(i) <= BaseLevel
  <2>1. LevelOf(i) \in Nat /\ BaseLevel \in Nat /\ 2 ^ LevelOf(i) \in Nat
    BY LevelStep, LastIs, PowerPositive
  <2>2. 2 ^ LevelOf(i) <= i + 1 /\ i + 1 <= 2 * 2 ^ BaseLevel - 1 /\ i \in Nat /\ 2 ^ BaseLevel \in Nat
    BY <1>3, LastIs
  <2>3. BaseLevel < LevelOf(i) => 2 * 2 ^ BaseLevel <= 2 ^ LevelOf(i)
    BY <2>1, PowerGrows
  <2> QED
    BY <2>1, <2>2, <2>3
<1> QED
  BY <1>3, <1>4, LevelStep, PowerPositive, LastIs

LEMMA LevelsApart ==
    ASSUME NEW level \in 0 .. BaseLevel
    PROVE  /\ AtLevel(level) \subseteq Node
           /\ \A i \in Node : i \in AtLevel(level) <=> LevelOf(i) = level
<1>1. level \in Nat /\ 2 ^ level \in Nat /\ 2 ^ level >= 1 /\ 2 ^ (level + 1) = 2 * 2 ^ level
  BY LastIs, PowerPositive, PowerDoubles
<1>2. AtLevel(level) = 2 ^ level - 1 .. 2 * 2 ^ level - 2
  BY <1>1 DEF AtLevel
<1>3. 2 * 2 ^ level <= 2 * 2 ^ BaseLevel
  <2>1. level = BaseLevel \/ level < BaseLevel
    BY LastIs
  <2>2. level < BaseLevel => 2 * 2 ^ level <= 2 ^ BaseLevel
    BY <1>1, LastIs, PowerGrows
  <2> QED
    BY <1>1, <2>1, <2>2, LastIs
<1>4. AtLevel(level) \subseteq Node
  BY <1>1, <1>2, <1>3, LastIs
<1>5. ASSUME NEW i \in Node
      PROVE  i \in AtLevel(level) <=> LevelOf(i) = level
  <2>1. /\ i \in Nat /\ LevelOf(i) \in Nat /\ 2 ^ LevelOf(i) \in Nat
        /\ 2 ^ LevelOf(i) <= i + 1 /\ i + 1 < 2 * 2 ^ LevelOf(i)
    BY LevelBounds, LastIs
  <2>2. LevelOf(i) < level => 2 * 2 ^ LevelOf(i) <= 2 ^ level
    BY <1>1, <2>1, PowerGrows
  <2>3. level < LevelOf(i) => 2 * 2 ^ level <= 2 ^ LevelOf(i)
    BY <1>1, <2>1, PowerGrows
  <2>4. i \in AtLevel(level) <=> 2 ^ level <= i + 1 /\ i + 1 < 2 * 2 ^ level
    BY <1>1, <1>2, <2>1
  <2>5. i \in AtLevel(level) => ~ (LevelOf(i) < level) /\ ~ (level < LevelOf(i))
    <3> DEFINE p == 2 ^ level
               q == 2 ^ LevelOf(i)
    <3>1. p \in Nat /\ q \in Nat /\ i \in Nat /\ q <= i + 1 /\ i + 1 < 2 * q
      BY <1>1, <2>1
    <3> HIDE DEF p, q
    <3>2. i \in AtLevel(level) => p <= i + 1 /\ i + 1 < 2 * p
      BY <2>4 DEF p
    <3>3. (LevelOf(i) < level => 2 * q <= p) /\ (level < LevelOf(i) => 2 * p <= q)
      BY <2>2, <2>3 DEF p, q
    <3> QED
      BY <3>1, <3>2, <3>3
  <2>6. LevelOf(i) = level => i \in AtLevel(level)
    BY <2>1, <2>4
  <2> QED
    BY <1>1, <2>1, <2>5, <2>6
<1> QED
  BY <1>4, <1>5

LEMMA LengthFacts ==
    /\ \A l \in 0 .. BaseLevel : Length(l) \in Nat /\ Length(l) >= 1
    /\ \A l \in 0 .. BaseLevel : l > 0 => Length(l - 1) = 2 * Length(l)
<1>1. BaseLevel \in Nat
  BY LastIs
<1>2. \A l \in 0 .. BaseLevel : BaseLevel - l \in Nat
  BY <1>1
<1>3. ASSUME NEW l \in 0 .. BaseLevel, l > 0
      PROVE  Length(l - 1) = 2 * Length(l)
  <2>1. BaseLevel - (l - 1) = (BaseLevel - l) + 1
    BY <1>1
  <2>2. 2 ^ ((BaseLevel - l) + 1) = 2 * 2 ^ (BaseLevel - l)
    BY <1>2, PowerDoubles
  <2> QED
    BY <2>1, <2>2 DEF Length
<1> QED
  BY <1>2, <1>3, PowerPositive DEF Length

\* A node is cut in two.
LEMMA Halves ==
    ASSUME NEW i \in Node, i # 0
    PROVE  /\ IndexOffset(Parent(i)) \in Nat
           /\ Length(LevelOf(Parent(i))) = 2 * Length(LevelOf(i))
           /\ IndexOffset(i) = IndexOffset(Parent(i)) +
                  (IF i = 2 * Parent(i) + 1 THEN 0 ELSE Length(LevelOf(i)))
<1>1. /\ i = 2 * Parent(i) + 1 \/ i = 2 * Parent(i) + 2
      /\ Parent(i) \in Node /\ Parent(i) \in Nat /\ i \in Nat
  BY Family, LastIs
<1>2. /\ LevelOf(i) \in 0 .. BaseLevel /\ LevelOf(Parent(i)) \in Nat
      /\ LevelOf(i) = LevelOf(Parent(i)) + 1 /\ LevelOf(Parent(i)) = LevelOf(i) - 1 /\ LevelOf(i) > 0
  <2>1. LevelOf(i) \in 0 .. BaseLevel /\ LevelOf(Parent(i)) \in Nat
    BY <1>1, LevelStep, LevelBounds
  <2>2. LevelOf(i) = LevelOf(Parent(i)) + 1
    BY LevelStep
  <2> QED
    BY <2>1, <2>2
<1> DEFINE p == 2 ^ LevelOf(Parent(i))
           x == Parent(i) + 1 - p
           L == Length(LevelOf(i))
<1>3. p \in Nat /\ 2 ^ LevelOf(i) = 2 * p /\ p <= Parent(i) + 1
  BY <1>1, <1>2, PowerDoubles, LevelBounds
<1>4. L \in Nat /\ Length(LevelOf(Parent(i))) = 2 * L
  BY <1>2, LengthFacts
<1>5. IndexOffset(Parent(i)) = x * (2 * L) /\ x \in Nat
  BY <1>1, <1>3, <1>4 DEF IndexOffset
<1>6. IndexOffset(i) = (i + 1 - 2 * p) * L
  BY <1>3 DEF IndexOffset
<1>7. i + 1 - 2 * p = (IF i = 2 * Parent(i) + 1 THEN 2 * x ELSE 2 * x + 1)
  BY <1>1, <1>3
<1> HIDE DEF x, L, p
<1>8. /\ (2 * x) * L = x * (2 * L) /\ (2 * x + 1) * L = x * (2 * L) + L
      /\ x * (2 * L) \in Nat
  BY <1>4, <1>5
<1>9. IndexOffset(i) = IndexOffset(Parent(i)) + (IF i = 2 * Parent(i) + 1 THEN 0 ELSE L)
  BY <1>4, <1>5, <1>6, <1>7, <1>8
<1> QED
  BY <1>4, <1>5, <1>8, <1>9 DEF L

LEMMA OffsetFacts ==
    \A i \in Node : /\ IndexOffset(i) \in Nat
                    /\ Length(LevelOf(i)) \in Nat /\ Length(LevelOf(i)) >= 1
                    /\ Units(i) \subseteq Offsets /\ IndexOffset(i) \in Units(i)
<1>1. ASSUME NEW i \in Node
      PROVE  Length(LevelOf(i)) \in Nat /\ Length(LevelOf(i)) >= 1
  BY LevelBounds, LengthFacts
<1>2. ASSUME NEW i \in Node
      PROVE  IndexOffset(i) \in Nat
  <2>1. CASE i = 0
    <3>1. LevelOf(0) = 0 /\ 2 ^ 0 = 1
      BY LevelStep
    <3>2. 2 ^ LevelOf(0) = 1
      BY <3>1
    <3> QED
      BY <1>1, <2>1, <3>2 DEF IndexOffset
  <2>2. CASE i # 0
    BY <1>1, <2>2, Halves
  <2> QED
    BY <2>1, <2>2
<1> DEFINE G == {i \in Node : Units(i) \subseteq Offsets}
<1>3. 0 \in G
  <2>1. LevelOf(0) = 0 /\ 0 \in Node /\ 2 ^ 0 = 1
    BY LevelStep, LastIs
  <2>2. 2 ^ LevelOf(0) = 1 /\ Length(LevelOf(0)) = Length(0) /\ Length(0) \in Nat
    BY <1>1, <2>1
  <2>3. IndexOffset(0) = 0
    BY <2>2 DEF IndexOffset
  <2> QED
    BY <2>1, <2>2, <2>3 DEF Units, Offsets
<1>4. ASSUME NEW i \in Node, i # 0, Parent(i) \in G
      PROVE  i \in G
  <2>1. /\ IndexOffset(Parent(i)) \in Nat /\ Length(LevelOf(i)) \in Nat
        /\ Length(LevelOf(Parent(i))) = 2 * Length(LevelOf(i))
        /\ \/ IndexOffset(i) = IndexOffset(Parent(i))
           \/ IndexOffset(i) = IndexOffset(Parent(i)) + Length(LevelOf(i))
    BY <1>1, <1>4, Halves
  <2>2. Units(i) \subseteq Units(Parent(i))
    BY <2>1 DEF Units
  <2> QED
    BY <1>4, <2>2
<1>5. Node \subseteq G
  <2> HIDE DEF G
  <2> QED
    BY <1>3, <1>4, NodeInd
<1>6. ASSUME NEW i \in Node
      PROVE  IndexOffset(i) \in Units(i)
  BY <1>1, <1>2 DEF Units
<1> QED
  BY <1>1, <1>2, <1>5, <1>6

LEMMA HalvesCover ==
    ASSUME NEW i \in Node, i # 0
    PROVE  /\ Units(Parent(i)) = Units(i) \cup Units(Buddy(i))
           /\ Units(i) \cap Units(Buddy(i)) = {}
<1> DEFINE b == Buddy(i)
           q == Parent(i)
           o == IndexOffset(q)
           L == Length(LevelOf(i))
<1>1. /\ b \in Node /\ b # 0 /\ Parent(b) = q /\ q \in Node
      /\ i = 2 * q + 1 \/ i = 2 * q + 2
      /\ b = 2 * q + 1 \/ b = 2 * q + 2
      /\ b # i
  BY Family
<1>2. LevelOf(i) = LevelOf(q) + 1 /\ LevelOf(b) = LevelOf(q) + 1
  BY <1>1, LevelStep
<1>3. Length(LevelOf(b)) = L /\ L \in Nat /\ L >= 1 /\ o \in Nat
  BY <1>1, <1>2, OffsetFacts
<1>4. /\ Length(LevelOf(q)) = 2 * L
      /\ IndexOffset(i) = o + (IF i = 2 * q + 1 THEN 0 ELSE L)
  BY Halves
<1>5. IndexOffset(b) = o + (IF b = 2 * q + 1 THEN 0 ELSE L)
  BY <1>1, <1>3, Halves
<1>6. \/ IndexOffset(i) = o + 0 /\ IndexOffset(b) = o + L
      \/ IndexOffset(i) = o + L /\ IndexOffset(b) = o + 0
  <2>1. q \in Nat
    BY <1>1, LastIs
  <2> HIDE DEF b, q, o, L
  <2> QED
    BY <1>1, <1>4, <1>5, <2>1
<1>7. /\ Units(q) = o .. o + 2 * L - 1
      /\ Units(i) = IndexOffset(i) .. IndexOffset(i) + L - 1
      /\ Units(b) = IndexOffset(b) .. IndexOffset(b) + L - 1
  BY <1>3, <1>4 DEF Units
<1>8. Units(q) = Units(i) \cup Units(b) /\ Units(i) \cap Units(b) = {}
  <2> HIDE DEF b, q, o, L
  <2> QED
    BY <1>3, <1>6, <1>7
<1> QED
  BY <1>8

LEMMA UnitsNested ==
    \A i \in Node : \A a \in Path[i] : Units(i) \subseteq Units(a)
<1> DEFINE G == {i \in Node : \A a \in Path[i] : Units(i) \subseteq Units(a)}
<1>1. 0 \in G
  BY PathStart, LastIs
<1>2. ASSUME NEW i \in Node, i # 0, Parent(i) \in G
      PROVE  i \in G
  <2>1. Units(i) \subseteq Units(Parent(i)) /\ Path[i] = {i} \cup Path[Parent(i)]
    BY <1>2, HalvesCover, PathStart
  <2> QED
    BY <1>2, <2>1
<1>3. Node \subseteq G
  <2> HIDE DEF G
  <2> QED
    BY <1>1, <1>2, NodeInd
<1> QED
  BY <1>3

\* Two nodes share no unit unless one is on the path of the other.
LEMMA UnitsApart ==
    \A i, j \in Node : i \in Path[j] \/ j \in Path[i] \/ Units(i) \cap Units(j) = {}
<1> DEFINE Apart(i, j) == i \in Path[j] \/ j \in Path[i] \/ Units(i) \cap Units(j) = {}
           G == {i \in Node : \A j \in Node : Apart(i, j)}
<1>1. 0 \in G
  BY PathFacts, LastIs
<1>2. ASSUME NEW i \in Node, i # 0, Parent(i) \in G
      PROVE  i \in G
  <2>1. SUFFICES ASSUME NEW j \in Node
                 PROVE  Apart(i, j)
    OBVIOUS
  <2>2. /\ Path[i] = {i} \cup Path[Parent(i)] /\ Parent(i) \in Node
        /\ Units(i) \subseteq Units(Parent(i)) /\ Units(i) \cap Units(Buddy(i)) = {}
    BY <1>2, PathStart, Family, HalvesCover
  <2>3. CASE j \in Path[Parent(i)] \/ Units(Parent(i)) \cap Units(j) = {}
    BY <2>2, <2>3
  <2>4. CASE Parent(i) \in Path[j]
    <3>1. CASE Parent(i) = j
      BY <2>2, <3>1, PathFacts
    <3>2. CASE Parent(i) # j
      <4>1. PICK c \in Path[j] : c # 0 /\ Parent(c) = Parent(i)
        BY <2>4, <3>2, WayDown DEF Above
      <4>2. c \in {i, Buddy(i)}
        BY <1>2, <4>1, Family, PathFacts
      <4>3. c = Buddy(i) => Units(j) \subseteq Units(Buddy(i))
        BY <4>1, UnitsNested
      <4> QED
        BY <2>2, <4>1, <4>2, <4>3
    <3> QED
      BY <3>1, <3>2
  <2> QED
    BY <1>2, <2>3, <2>4
<1>3. Node \subseteq G
  <2> HIDE DEF G
  <2> QED
    BY <1>1, <1>2, NodeInd
<1> QED
  BY <1>3

-----------------------------------------------------------------------------
(* The inductive invariant                                                  *)

Children(n) == {c \in Node : c # 0 /\ Parent(c) = n}

\* Nothing is marked below a block, given out or not.
QuietBelow ==
    \A n \in Node : tree[n] \in {"used", "unused"} => \A c \in Children(n) : tree[c] = "unused"

\* No room is below a full node.
FullBelow ==
    \A n \in Node : tree[n] = "full" =>
        Children(n) # {} /\ \A c \in Children(n) : tree[c] \in Occupied

\* Something is in use below a split one.
SplitBelow ==
    \A n \in Node : tree[n] = "split" => \E c \in Children(n) : tree[c] # "unused"

IInv == TypeOK /\ QuietBelow /\ FullBelow /\ SplitBelow

-----------------------------------------------------------------------------
(* Blocks of the allocator are nodes of the tree                            *)

BlockAt(i) == [level |-> LevelOf(i), offset |-> IndexOffset(i)]

LEMMA Multiple ==
    ASSUME NEW x \in Nat, NEW L \in Nat, L >= 1
    PROVE  (x * L) % L = 0
<1> DEFINE q == (x * L) \div L
           r == (x * L) % L
<1>1. x * L \in Nat
  OBVIOUS
<1>2. q \in Int /\ r \in Int /\ x * L = L * q + r /\ 0 <= r /\ r < L
  BY <1>1
<1> HIDE DEF q, r
<1>3. (x - q) * L = r
  BY <1>2
<1>4. x - q >= 1 => (x - q) * L >= L
  BY <1>2
<1>5. x - q <= -1 => (x - q) * L <= - L
  BY <1>2
<1>6. x - q = 0
  BY <1>2, <1>3, <1>4, <1>5
<1>7. r = 0
  BY <1>2, <1>3, <1>6
<1> QED
  BY <1>7 DEF r

LEMMA Quotient ==
    ASSUME NEW o \in Nat, NEW L \in Nat, L >= 1, o % L = 0, NEW m \in Nat, o < m * L
    PROVE  \E q \in Nat : o = q * L /\ q < m
<1> DEFINE q == o \div L
<1>1. q \in Int /\ o = L * q
  OBVIOUS
<1> HIDE DEF q
<1>2. q >= 0
  <2>1. q <= -1 => L * q <= - L
    BY <1>1
  <2> QED
    BY <1>1, <2>1
<1>3. q >= m => q * L >= m * L
  BY <1>1
<1>4. o = q * L /\ q < m
  BY <1>1, <1>3
<1> QED
  BY <1>1, <1>2, <1>4

LEMMA LengthProduct ==
    \A l \in 0 .. BaseLevel : 2 ^ l * Length(l) = Length(0)
<1> DEFINE G == {l \in Nat : l <= BaseLevel => 2 ^ l * Length(l) = Length(0)}
<1>1. 0 \in G
  <2>1. 2 ^ 0 = 1 /\ 0 \in 0 .. BaseLevel
    BY LastIs
  <2>2. Length(0) \in Nat
    BY <2>1, LengthFacts
  <2> QED
    BY <2>1, <2>2
<1>2. ASSUME NEW l \in Nat, l \in G
      PROVE  l + 1 \in G
  <2>1. SUFFICES ASSUME l + 1 <= BaseLevel
                 PROVE  2 ^ (l + 1) * Length(l + 1) = Length(0)
    OBVIOUS
  <2>2. l <= BaseLevel /\ l + 1 \in 0 .. BaseLevel /\ (l + 1) - 1 = l /\ l + 1 > 0
    BY <2>1, LastIs
  <2>3. Length(l) = 2 * Length(l + 1) /\ Length(l + 1) \in Nat
    BY <2>2, LengthFacts
  <2>4. 2 ^ (l + 1) = 2 * 2 ^ l /\ 2 ^ l \in Nat
    BY PowerDoubles, PowerPositive
  <2>5. 2 ^ l * Length(l) = Length(0)
    BY <1>2, <2>2
  <2> DEFINE p == 2 ^ l
             L == Length(l + 1)
  <2>6. p \in Nat /\ L \in Nat /\ p * (2 * L) = Length(0)
    BY <2>3, <2>4, <2>5
  <2>7. 2 ^ (l + 1) * Length(l + 1) = (2 * p) * L
    BY <2>4
  <2> HIDE DEF p, L
  <2>8. (2 * p) * L = p * (2 * L)
    BY <2>6
  <2> QED
    BY <2>6, <2>7, <2>8
<1>3. Nat \subseteq G
  <2> HIDE DEF G
  <2> QED
    BY <1>1, <1>2, NatInd
<1> QED
  BY <1>3, LastIs

LEMMA NodeIsBlock ==
    ASSUME NEW i \in Node
    PROVE  BlockAt(i) \in Area!Block /\ Area!Units(BlockAt(i)) = Units(i)
<1> DEFINE l == LevelOf(i)
           x == i + 1 - 2 ^ l
           L == Length(l)
<1>1. l \in 0 .. BaseLevel /\ 2 ^ l \in Nat /\ 2 ^ l <= i + 1 /\ i \in Nat
  BY LevelBounds, LastIs
<1>2. x \in Nat /\ IndexOffset(i) = x * L
  BY <1>1 DEF IndexOffset
<1>3. L \in Nat /\ L >= 1
  BY <1>1, LengthFacts
<1>4. IndexOffset(i) % L = 0
  <2> HIDE DEF l, x, L
  <2> QED
    BY <1>2, <1>3, Multiple
<1>5. IndexOffset(i) \in 0 .. Length(0) - 1
  BY OffsetFacts DEF Offsets
<1>6. \A v \in 0 .. BaseLevel : Area!Length(v) = Length(v)
  BY DEF Area!Length, Length
<1>7. 0 \in 0 .. BaseLevel /\ Area!Length(0) = Length(0)
  BY <1>6, LastIs
<1>8. BlockAt(i).level = l /\ BlockAt(i).offset = IndexOffset(i)
  BY DEF BlockAt
<1>9. BlockAt(i) \in [level : 0 .. BaseLevel, offset : 0 .. Length(0) - 1]
  BY <1>1, <1>5 DEF BlockAt
<1> QED
  BY <1>1, <1>4, <1>6, <1>7, <1>8, <1>9 DEF Area!Block, Area!Units, Units

LEMMA BlockIsNode ==
    ASSUME NEW b \in Area!Block
    PROVE  \E i \in Node : b = BlockAt(i) /\ i \in AtLevel(b.level)
<1>1. \A v \in 0 .. BaseLevel : Area!Length(v) = Length(v)
  BY DEF Area!Length, Length
<1> DEFINE l == b.level
           o == b.offset
           L == Length(l)
<1>2. l \in 0 .. BaseLevel /\ 0 \in 0 .. BaseLevel
  BY LastIs DEF Area!Block
<1>3. /\ o \in 0 .. Length(0) - 1 /\ o % L = 0
      /\ b = [level |-> l, offset |-> o]
  BY <1>1, <1>2 DEF Area!Block
<1>4. L \in Nat /\ L >= 1 /\ Length(0) \in Nat /\ 2 ^ l * L = Length(0)
  BY <1>2, LengthFacts, LengthProduct
<1>5. 2 ^ l \in Nat /\ 2 ^ (l + 1) = 2 * 2 ^ l
  BY <1>2, PowerPositive, PowerDoubles
<1>6. PICK q \in Nat : o = q * L /\ q < 2 ^ l
  <2> DEFINE m == 2 ^ l
  <2>1. m \in Nat /\ o \in Nat /\ o < m * L /\ o % L = 0 /\ L \in Nat /\ L >= 1
    BY <1>3, <1>4, <1>5
  <2> HIDE DEF l, o, L, m
  <2>2. \E q \in Nat : o = q * L /\ q < m
    BY <2>1, Quotient
  <2> QED
    BY <2>2 DEF m
<1> DEFINE i == q + 2 ^ l - 1
<1>7. i \in AtLevel(l) /\ i + 1 - 2 ^ l = q
  BY <1>5, <1>6 DEF AtLevel
<1>8. i \in Node /\ LevelOf(i) = l
  BY <1>2, <1>7, LevelsApart
<1>9. IndexOffset(i) = o
  BY <1>6, <1>7, <1>8 DEF IndexOffset
<1> QED
  BY <1>3, <1>7, <1>8, <1>9 DEF BlockAt

-----------------------------------------------------------------------------
(* What the invariant says of a whole path                                  *)

LEMMA ChildFacts ==
    ASSUME NEW n \in Node, NEW c \in Children(n)
    PROVE  /\ c \in Node /\ c # 0 /\ Parent(c) = n
           /\ n \in Path[c] /\ n < c /\ c \notin Path[n] /\ Path[c] = {c} \cup Path[n]
           /\ \A i \in Node : c \in Path[i] => n \in Above(i)
<1>1. c \in Node /\ c # 0 /\ Parent(c) = n
  BY DEF Children
<1>2. n < c /\ Path[c] = {c} \cup Path[n] /\ Above(c) = Path[n] /\ c \notin Above(c) /\ n \in Path[n]
  BY <1>1, Family, PathStart, AboveIs, PathFacts
<1>3. ASSUME NEW i \in Node, c \in Path[i]
      PROVE  n \in Above(i)
  <2>1. Path[c] \subseteq Path[i] /\ c <= i /\ c \in Nat /\ n \in Nat /\ i \in Nat
    BY <1>1, <1>3, PathFacts, LastIs
  <2> QED
    BY <1>2, <2>1 DEF Above
<1> QED
  BY <1>1, <1>2, <1>3

\* The two halves of an ancestor: one on the path, one beside it.
LEMMA ChildOnPath ==
    ASSUME NEW i \in Node, NEW n \in Above(i)
    PROVE  \E c \in Path[i] : /\ c \in Children(n) /\ Buddy(c) \in Children(n)
                              /\ Buddy(c) \notin Path[i]
                              /\ Path[i] \ Path[n] = (Path[i] \ Path[c]) \cup {c}
                              /\ \A d \in Children(n) : d = c \/ d = Buddy(c)
<1>1. PICK c \in Path[i] : /\ c # 0 /\ Parent(c) = n
                           /\ Path[i] \ Path[n] = (Path[i] \ Path[c]) \cup {c}
  BY WayDown
<1>2. c \in Node
  BY PathFacts
<1>3. /\ Buddy(c) \in Node /\ Buddy(c) # 0 /\ Parent(Buddy(c)) = n
      /\ \A j \in Node : j # 0 /\ Parent(j) = n => j \in {c, Buddy(c)}
  BY <1>1, <1>2, Family
<1>4. Buddy(c) \notin Path[i]
  BY <1>1, BuddyBeside
<1> QED
  BY <1>1, <1>2, <1>3, <1>4 DEF Children

\* Everything below a block is unused.
LEMMA BlockBelow ==
    IInv => \A i \in Node : \A a \in Above(i) :
                tree[a] \in {"used", "unused"} => tree[i] = "unused"
<1>1. SUFFICES ASSUME IInv
               PROVE  \A i \in Node : \A a \in Above(i) :
                          tree[a] \in {"used", "unused"} => tree[i] = "unused"
  OBVIOUS
<1> DEFINE G == {i \in Node : \A a \in Above(i) : tree[a] \in {"used", "unused"} => tree[i] = "unused"}
<1>2. 0 \in G
  BY AboveIs, LastIs
<1>3. ASSUME NEW i \in Node, i # 0, Parent(i) \in G
      PROVE  i \in G
  <2>1. Parent(i) \in Node /\ Above(i) = Path[Parent(i)] /\ i \in Children(Parent(i))
    BY <1>3, Family, AboveIs DEF Children
  <2>2. tree[Parent(i)] \in {"used", "unused"} => tree[i] = "unused"
    BY <1>1, <2>1 DEF IInv, QuietBelow
  <2> QED
    BY <1>3, <2>1, <2>2 DEF Above
<1>4. Node \subseteq G
  <2> HIDE DEF G
  <2> QED
    BY <1>2, <1>3, NodeInd
<1> QED
  BY <1>4

LEMMA UnusedDown ==
    ASSUME IInv, NEW i \in Node, NEW a \in Path[i], tree[a] = "unused"
    PROVE  tree[i] = "unused"
BY BlockBelow DEF Above

\* Below a node that is not unused something is used.
LEMMA UsedWithin ==
    ASSUME IInv, NEW n \in Node, tree[n] # "unused"
    PROVE  \E u \in Node : n \in Path[u] /\ tree[u] = "used"
<1> DEFINE T == {m \in Node : n \in Path[m] /\ tree[m] # "unused"}
<1>1. n \in T
  BY PathFacts
<1>2. PICK m \in T : \A k \in T : k <= m
  <2>1. T \subseteq Node /\ T # {}
    BY <1>1
  <2> HIDE DEF T
  <2> QED
    BY <2>1, NodeMax
<1>3. m \in Node /\ n \in Path[m] /\ tree[m] \in {"used", "split", "full"}
  BY <1>2 DEF IInv, TypeOK, NodeState
<1>4. ASSUME NEW c \in Children(m), tree[c] # "unused"
      PROVE  FALSE
  <2>1. c \in Node /\ m < c /\ Path[c] = {c} \cup Path[m]
    BY <1>3, ChildFacts
  <2>2. c \in T
    BY <1>3, <1>4, <2>1
  <2>3. c <= m /\ c \in Nat /\ m \in Nat
    BY <1>2, <1>3, <2>1, <2>2, LastIs
  <2> QED
    BY <2>1, <2>3
<1>5. tree[m] # "split"
  BY <1>3, <1>4 DEF IInv, SplitBelow
<1>6. tree[m] # "full"
  <2>1. SUFFICES ASSUME tree[m] = "full"
                 PROVE  FALSE
    OBVIOUS
  <2>2. PICK c \in Children(m) : tree[c] \in Occupied
    BY <1>3, <2>1 DEF IInv, FullBelow
  <2> QED
    BY <1>4, <2>2 DEF Occupied
<1> QED
  BY <1>3, <1>5, <1>6

\* A full node is full down to the blocks in use.
LEMMA FullDown ==
    ASSUME IInv
    PROVE  \A i \in Node : \A a \in Path[i] :
               tree[a] = "full" => tree[i] = "full" \/ \E u \in Path[i] : tree[u] = "used"
<1> DEFINE G == {i \in Node : \A a \in Path[i] :
                    tree[a] = "full" => tree[i] = "full" \/ \E u \in Path[i] : tree[u] = "used"}
<1>1. 0 \in G
  BY PathStart, LastIs
<1>2. ASSUME NEW i \in Node, i # 0, Parent(i) \in G
      PROVE  i \in G
  <2>1. Path[i] = {i} \cup Path[Parent(i)] /\ Parent(i) \in Node /\ i \in Children(Parent(i))
    BY <1>2, PathStart, Family DEF Children
  <2>2. tree[Parent(i)] = "full" => tree[i] \in {"used", "full"}
    BY <2>1 DEF IInv, FullBelow, Occupied
  <2> QED
    BY <1>2, <2>1, <2>2
<1>3. Node \subseteq G
  <2> HIDE DEF G
  <2> QED
    BY <1>1, <1>2, NodeInd
<1> QED
  BY <1>3

\* No used node is hidden: what a search from the root sees is every used node.
LEMMA UsedIs ==
    IInv => Used = {BlockAt(i) : i \in {n \in Node : tree[n] = "used"}}
<1>1. SUFFICES ASSUME IInv
               PROVE  Used = {BlockAt(i) : i \in {n \in Node : tree[n] = "used"}}
  OBVIOUS
<1>2. \A n \in Node : tree[n] = "used" => \A a \in Above(n) : tree[a] \notin {"used", "unused"}
  BY <1>1, BlockBelow
<1> QED
  BY <1>2 DEF Used, BlockAt

-----------------------------------------------------------------------------
(* buddyAlloc                                                               *)

\* What is written: the node, and marks on its path; nothing beside it.
LEMMA AllocWrites ==
    ASSUME IInv, NEW level \in 0 .. BaseLevel, NEW i \in Available(level)
    PROVE  /\ i \in Node /\ LevelOf(i) = level
           /\ tree[i] = "unused" /\ \A a \in Above(i) : tree[a] \in {"unused", "split"}
           /\ LET new == MarkParent(Taken(i), i)
              IN  /\ new \in [Node -> NodeState] /\ new[i] = "used"
                  /\ \A n \in Node : n \notin Path[i] => new[n] = tree[n]
                  /\ \A n \in Above(i) :
                        /\ new[n] \in {"split", "full"}
                        /\ new[n] = "full" <=>
                              \A c \in Path[i] \ Path[n] : tree[Buddy(c)] \in Occupied
<1>1. i \in Node /\ LevelOf(i) = level
  BY LevelsApart DEF Available
<1>2. Above(i) \subseteq Node /\ i \notin Above(i) /\ Path[i] = {i} \cup Above(i)
  BY <1>1, AboveIs
<1>3. tree \in [Node -> NodeState]
  BY DEF IInv, TypeOK
<1>4. tree[i] = "unused"
  BY <1>1, UnusedDown DEF Available
<1>5. ASSUME NEW a \in Above(i)
      PROVE  tree[a] \in {"unused", "split"}
  BY <1>2, <1>3 DEF Available, Occupied, NodeState
<1> DEFINE torn == {a \in Above(i) : \E b \in Path[a] : tree[b] = "unused"}
           t == Taken(i)
           new == MarkParent(t, i)
<1>6. ASSUME NEW n \in Node
      PROVE  t[n] = IF n = i THEN "used"
                    ELSE IF n \in torn THEN "split"
                    ELSE IF n # 0 /\ Parent(n) \in torn THEN "unused"
                    ELSE tree[n]
  BY DEF Taken
<1>7. ASSUME NEW n \in Node
      PROVE  new[n] = IF n \in Above(i) /\ \A c \in Path[i] \ Path[n] : t[Buddy(c)] \in Occupied
                      THEN "full" ELSE t[n]
  BY DEF MarkParent
<1>8. ASSUME NEW n \in Node, n # 0, Parent(n) \in torn
      PROVE  tree[n] = "unused" /\ \E b \in Path[n] : tree[b] = "unused"
  <2>1. PICK b \in Path[Parent(n)] : tree[b] = "unused"
    BY <1>8
  <2>2. b \in Path[n]
    BY <1>8, <2>1, PathStart
  <2> QED
    BY <2>1, <2>2, UnusedDown
<1>9. \A n \in Node : n \notin Path[i] => t[n] = tree[n]
  <2> HIDE DEF t
  <2> QED
    BY <1>2, <1>6, <1>8
<1>10. ASSUME NEW n \in Above(i)
       PROVE  t[n] = "split"
  <2>1. n \in Node /\ n # i
    BY <1>2
  <2>2. CASE n \in torn
    BY <1>6, <2>1, <2>2
  <2>3. CASE n \notin torn
    <3>1. ~ (n # 0 /\ Parent(n) \in torn)
      <4> HIDE DEF t
      <4> QED
        BY <1>8, <2>1, <2>3
    <3>2. tree[n] # "unused"
      BY <2>1, <2>3, PathFacts
    <3> QED
      <4> HIDE DEF t, torn
      <4> QED
        BY <1>5, <1>6, <2>1, <2>3, <3>1, <3>2
  <2> QED
    BY <2>2, <2>3
<1>11. \A n \in Node : n \notin Path[i] => new[n] = tree[n]
  <2> HIDE DEF t, new
  <2> QED
    BY <1>2, <1>7, <1>9
<1>12. new[i] = "used"
  <2> HIDE DEF t, new
  <2> QED
    BY <1>1, <1>2, <1>6, <1>7
<1>13. ASSUME NEW n \in Above(i)
       PROVE  /\ new[n] \in {"split", "full"}
              /\ new[n] = "full" <=> \A c \in Path[i] \ Path[n] : tree[Buddy(c)] \in Occupied
  <2>1. ASSUME NEW c \in Path[i] \ Path[n]
        PROVE  t[Buddy(c)] = tree[Buddy(c)]
    <3>1. c # 0 /\ c \in Node
      BY <1>1, <1>2, PathFacts
    <3>2. Buddy(c) \in Node /\ Buddy(c) \notin Path[i]
      BY <1>1, <3>1, Family, BuddyBeside
    <3> HIDE DEF t
    <3> QED
      BY <1>9, <3>2
  <2> HIDE DEF t, new
  <2> QED
    BY <1>2, <1>7, <1>10, <2>1
<1>14. new \in [Node -> NodeState]
  <2>1. \A n \in Node : new[n] \in NodeState
    <3> HIDE DEF t, new
    <3> QED
      BY <1>2, <1>3, <1>11, <1>12, <1>13 DEF NodeState
  <2>2. new = [n \in Node |-> new[n]]
    BY DEF MarkParent
  <2> HIDE DEF new
  <2> QED
    BY <2>1, <2>2
<1> QED
  <2> HIDE DEF torn
  <2> QED
    BY <1>1, <1>4, <1>5, <1>11, <1>12, <1>13, <1>14

LEMMA AllocKeeps ==
    ASSUME IInv, NEW level \in 0 .. BaseLevel, NEW i \in Available(level),
           tree' = MarkParent(Taken(i), i)
    PROVE  QuietBelow' /\ FullBelow' /\ SplitBelow'
<1>1. /\ i \in Node /\ tree[i] = "unused" /\ \A a \in Above(i) : tree[a] \in {"unused", "split"}
      /\ tree'[i] = "used"
      /\ \A n \in Node : n \notin Path[i] => tree'[n] = tree[n]
      /\ \A n \in Above(i) :
            /\ tree'[n] \in {"split", "full"}
            /\ tree'[n] = "full" <=> \A c \in Path[i] \ Path[n] : tree[Buddy(c)] \in Occupied
  BY AllocWrites
<1>2. Above(i) \subseteq Node /\ i \notin Above(i) /\ Path[i] = {i} \cup Above(i)
  BY <1>1, AboveIs
<1>3. ASSUME NEW n \in Node, n \notin Above(i), NEW c \in Children(n)
      PROVE  c \in Node /\ c \notin Path[i] /\ tree'[c] = tree[c]
  BY <1>1, <1>3, ChildFacts
<1>4. QuietBelow'
  <2>1. SUFFICES ASSUME NEW n \in Node, tree'[n] \in {"used", "unused"}, NEW c \in Children(n)
                 PROVE  tree'[c] = "unused"
    BY DEF QuietBelow, Children, Node, Parent
  <2>2. n \notin Above(i)
    BY <1>1, <2>1
  <2>3. tree[n] \in {"used", "unused"}
    BY <1>1, <1>2, <2>1, <2>2
  <2> QED
    BY <1>3, <2>1, <2>2, <2>3 DEF IInv, QuietBelow
<1>5. FullBelow'
  <2>1. SUFFICES ASSUME NEW n \in Node, tree'[n] = "full"
                 PROVE  Children(n) # {} /\ \A c \in Children(n) : tree'[c] \in Occupied
    BY DEF FullBelow, Children, Node, Parent, Occupied
  <2>2. CASE n \notin Above(i)
    <3>1. tree[n] = "full"
      BY <1>1, <1>2, <2>1, <2>2
    <3> QED
      BY <1>3, <2>2, <3>1 DEF IInv, FullBelow
  <2>3. CASE n \in Above(i)
    <3>1. PICK c \in Path[i] : /\ c \in Children(n) /\ Buddy(c) \in Children(n)
                               /\ Buddy(c) \notin Path[i]
                               /\ Path[i] \ Path[n] = (Path[i] \ Path[c]) \cup {c}
                               /\ \A d \in Children(n) : d = c \/ d = Buddy(c)
      BY <1>1, <2>3, ChildOnPath
    <3>2. \A d \in Path[i] \ Path[n] : tree[Buddy(d)] \in Occupied
      BY <1>1, <2>1, <2>3
    <3>3. tree'[c] \in Occupied
      BY <1>1, <1>2, <3>1, <3>2 DEF Occupied
    <3>4. tree'[Buddy(c)] \in Occupied
      <4>1. Buddy(c) \in Node
        BY <3>1 DEF Children
      <4> QED
        BY <1>1, <3>1, <3>2, <4>1
    <3> QED
      BY <3>1, <3>3, <3>4
  <2> QED
    BY <2>2, <2>3
<1>6. SplitBelow'
  <2>1. SUFFICES ASSUME NEW n \in Node, tree'[n] = "split"
                 PROVE  \E c \in Children(n) : tree'[c] # "unused"
    BY DEF SplitBelow, Children, Node, Parent
  <2>2. CASE n \notin Above(i)
    <3>1. tree[n] = "split"
      BY <1>1, <1>2, <2>1, <2>2
    <3> QED
      BY <1>3, <2>2, <3>1 DEF IInv, SplitBelow
  <2>3. CASE n \in Above(i)
    <3>1. PICK c \in Path[i] : c \in Children(n)
      BY <1>1, <2>3, ChildOnPath
    <3>2. tree'[c] # "unused"
      BY <1>1, <1>2, <3>1
    <3> QED
      BY <3>1, <3>2
  <2> QED
    BY <2>2, <2>3
<1> QED
  BY <1>4, <1>5, <1>6

-----------------------------------------------------------------------------
(* buddyFree                                                                *)

LEMMA RootUnits == Units(0) = Offsets
<1>1. LevelOf(0) = 0 /\ 0 \in Node /\ 2 ^ 0 = 1
  BY LevelStep, LastIs
<1>2. 2 ^ LevelOf(0) = 1 /\ Length(LevelOf(0)) = Length(0) /\ Length(0) \in Nat
  BY <1>1, OffsetFacts
<1>3. IndexOffset(0) = 0
  BY <1>2 DEF IndexOffset
<1> QED
  BY <1>1, <1>2, <1>3 DEF Units, Offsets

\* The descent for an offset ends.
LEMMA FoundIs ==
    ASSUME IInv, NEW offset \in Offsets
    PROVE  /\ Found(offset) \in Node /\ offset \in Units(Found(offset))
           /\ tree[Found(offset)] \in {"used", "unused"}
           /\ \A a \in Above(Found(offset)) : tree[a] \in {"split", "full"}
<1> DEFINE T == {i \in Node : offset \in Units(i) /\ \A a \in Above(i) : tree[a] \in {"split", "full"}}
<1>1. 0 \in T
  <2>1. 0 \in Node /\ Above(0) = {}
    BY LastIs, AboveIs
  <2> QED
    BY <2>1, RootUnits
<1>2. PICK m \in T : \A k \in T : k <= m
  <2>1. T \subseteq Node /\ T # {}
    BY <1>1
  <2> HIDE DEF T
  <2> QED
    BY <2>1, NodeMax
<1>3. /\ m \in Node /\ offset \in Units(m) /\ \A a \in Above(m) : tree[a] \in {"split", "full"}
      /\ tree[m] \in {"used", "unused", "split", "full"}
  BY <1>2 DEF IInv, TypeOK, NodeState
<1>4. tree[m] \notin {"split", "full"}
  <2>1. SUFFICES ASSUME tree[m] \in {"split", "full"}
                 PROVE  FALSE
    OBVIOUS
  <2>2. PICK c \in Children(m) : TRUE
    BY <1>3, <2>1 DEF IInv, SplitBelow, FullBelow
  <2>3. c \in Node /\ c # 0 /\ Parent(c) = m
    BY <1>3, <2>2, ChildFacts
  <2>4. PICK d \in {c, Buddy(c)} : offset \in Units(d)
    BY <1>3, <2>3, HalvesCover
  <2>5. d \in Node /\ d # 0 /\ Parent(d) = m
    BY <2>3, <2>4, Family
  <2>6. Above(d) = Path[m] /\ m < d /\ Path[m] = {m} \cup Above(m)
    BY <1>3, <2>5, AboveIs, Family
  <2>7. d \in T
    BY <1>3, <2>1, <2>4, <2>5, <2>6
  <2>8. d <= m /\ d \in Nat /\ m \in Nat
    BY <1>2, <1>3, <2>5, <2>7, LastIs
  <2> QED
    BY <2>6, <2>8
<1>5. \E i \in Node : /\ offset \in Units(i)
                      /\ tree[i] \in {"used", "unused"}
                      /\ \A a \in Above(i) : tree[a] \in {"split", "full"}
  BY <1>3, <1>4
<1> QED
  BY <1>5 DEF Found

\* What is written: the node and its ancestors alone.
LEMMA CombineWrites ==
    ASSUME IInv, NEW i \in Node, tree[i] = "used",
           \A a \in Above(i) : tree[a] \in {"split", "full"}
    PROVE  /\ i \in Merged(i) /\ Merged(i) \subseteq Path[i]
           /\ Combine(i) \in [Node -> NodeState]
           /\ \A n \in Node : n \notin Path[i] => Combine(i)[n] = tree[n]
           /\ \A n \in Merged(i) : Combine(i)[n] = "unused"
           /\ \A n \in Path[i] \ Merged(i) :
                 /\ Combine(i)[n] \in {"split", "full"}
                 /\ Combine(i)[n] = "full" <=>
                       /\ tree[n] = "full"
                       /\ \E a \in (Path[i] \ Merged(i)) \ Above(n) : tree[a] # "full"
<1>1. Path[i] \subseteq Node /\ i \in Path[i] /\ Path[i] = {i} \cup Above(i)
  BY PathFacts, AboveIs
<1>2. Merged(i) \subseteq Path[i] /\ i \in Merged(i)
  BY <1>1 DEF Merged
<1> DEFINE rest == Path[i] \ Merged(i)
           new == Combine(i)
<1>3. ASSUME NEW n \in Node
      PROVE  new[n] = IF n \in Merged(i) THEN "unused"
                      ELSE IF n \in rest /\ \A a \in rest \ Above(n) : tree[a] = "full"
                      THEN "split" ELSE tree[n]
  BY DEF Combine
<1>4. tree \in [Node -> NodeState]
  BY DEF IInv, TypeOK
<1>5. \A n \in Node : n \notin Path[i] => new[n] = tree[n]
  <2> HIDE DEF new
  <2> QED
    BY <1>2, <1>3
<1>6. \A n \in Merged(i) : new[n] = "unused"
  <2> HIDE DEF new
  <2> QED
    BY <1>1, <1>2, <1>3
<1>7. ASSUME NEW n \in rest
      PROVE  /\ new[n] \in {"split", "full"}
             /\ new[n] = "full" <=>
                   tree[n] = "full" /\ \E a \in rest \ Above(n) : tree[a] # "full"
  <2>1. n \in Node /\ n \notin Merged(i) /\ tree[n] \in {"split", "full"}
    BY <1>1, <1>2
  <2> HIDE DEF new
  <2> QED
    BY <1>3, <2>1
<1>8. new \in [Node -> NodeState]
  <2>1. \A n \in Node : new[n] \in NodeState
    <3> HIDE DEF new
    <3> QED
      BY <1>1, <1>4, <1>5, <1>6, <1>7 DEF NodeState
  <2>2. new = [n \in Node |-> new[n]]
    BY DEF Combine
  <2> HIDE DEF new
  <2> QED
    BY <2>1, <2>2
<1> QED
  BY <1>2, <1>5, <1>6, <1>7, <1>8

LEMMA CombineKeeps ==
    ASSUME IInv, NEW i \in Node, tree[i] = "used",
           \A a \in Above(i) : tree[a] \in {"split", "full"},
           tree' = Combine(i)
    PROVE  QuietBelow' /\ FullBelow' /\ SplitBelow'
<1> DEFINE rest == Path[i] \ Merged(i)
<1>1. /\ i \in Merged(i) /\ Merged(i) \subseteq Path[i]
      /\ \A n \in Node : n \notin Path[i] => tree'[n] = tree[n]
      /\ \A n \in Merged(i) : tree'[n] = "unused"
      /\ \A n \in rest :
            /\ tree'[n] \in {"split", "full"}
            /\ tree'[n] = "full" <=>
                  tree[n] = "full" /\ \E a \in rest \ Above(n) : tree[a] # "full"
  BY CombineWrites
<1>2. Above(i) \subseteq Node /\ i \notin Above(i) /\ Path[i] = {i} \cup Above(i)
  BY AboveIs
<1>3. ASSUME NEW n \in Node, n \notin Above(i), NEW c \in Children(n)
      PROVE  c \in Node /\ c \notin Path[i] /\ tree'[c] = tree[c]
  BY <1>1, <1>3, ChildFacts
\* The halves of an ancestor, and when it is merged.
<1>4. ASSUME NEW n \in Above(i)
      PROVE  \E c \in Path[i] : /\ c \in Children(n) /\ Buddy(c) \in Children(n)
                                /\ Buddy(c) \notin Path[i] /\ tree'[Buddy(c)] = tree[Buddy(c)]
                                /\ Path[i] \ Path[n] = (Path[i] \ Path[c]) \cup {c}
                                /\ \A d \in Children(n) : d = c \/ d = Buddy(c)
                                /\ n \in Merged(i) <=> c \in Merged(i) /\ tree[Buddy(c)] = "unused"
  <2>1. PICK c \in Path[i] : /\ c \in Children(n) /\ Buddy(c) \in Children(n)
                             /\ Buddy(c) \notin Path[i]
                             /\ Path[i] \ Path[n] = (Path[i] \ Path[c]) \cup {c}
                             /\ \A d \in Children(n) : d = c \/ d = Buddy(c)
    BY ChildOnPath
  <2>2. n \in Merged(i) <=> c \in Merged(i) /\ tree[Buddy(c)] = "unused"
    BY <1>2, <2>1 DEF Merged
  <2>3. tree'[Buddy(c)] = tree[Buddy(c)]
    BY <1>1, <2>1 DEF Children
  <2> QED
    BY <2>1, <2>2, <2>3
<1>5. QuietBelow'
  <2>1. SUFFICES ASSUME NEW n \in Node, tree'[n] \in {"used", "unused"}, NEW c \in Children(n)
                 PROVE  tree'[c] = "unused"
    BY DEF QuietBelow, Children, Node, Parent
  <2>2. CASE n \notin Above(i)
    <3>1. tree[n] \in {"used", "unused"}
      BY <1>1, <1>2, <2>1, <2>2
    <3> QED
      BY <1>3, <2>2, <3>1 DEF IInv, QuietBelow
  <2>3. CASE n \in Above(i)
    <3>1. n \in Merged(i)
      BY <1>1, <1>2, <2>1, <2>3
    <3> QED
      BY <1>1, <1>4, <2>3, <3>1
  <2> QED
    BY <2>2, <2>3
<1>6. FullBelow'
  <2>1. SUFFICES ASSUME NEW n \in Node, tree'[n] = "full"
                 PROVE  Children(n) # {} /\ \A c \in Children(n) : tree'[c] \in Occupied
    BY DEF FullBelow, Children, Node, Parent, Occupied
  <2>2. CASE n \notin Above(i)
    <3>1. tree[n] = "full"
      BY <1>1, <1>2, <2>1, <2>2
    <3> QED
      BY <1>3, <2>2, <3>1 DEF IInv, FullBelow
  <2>3. CASE n \in Above(i)
    <3>1. n \in rest /\ n \in Node
      BY <1>1, <1>2, <2>1, <2>3
    <3>2. tree[n] = "full"
      BY <1>1, <2>1, <3>1
    <3>3. PICK c \in Path[i] : /\ c \in Children(n) /\ Buddy(c) \in Children(n)
                               /\ tree'[Buddy(c)] = tree[Buddy(c)]
                               /\ Path[i] \ Path[n] = (Path[i] \ Path[c]) \cup {c}
                               /\ \A d \in Children(n) : d = c \/ d = Buddy(c)
      BY <1>4, <2>3
    <3>4. tree[c] \in Occupied /\ tree[Buddy(c)] \in Occupied
      BY <3>1, <3>2, <3>3 DEF IInv, FullBelow
    <3>5. PICK a \in rest \ Above(n) : tree[a] # "full"
      BY <1>1, <2>1, <3>1
    <3>6. a # n /\ a \in Path[i] /\ n \in Path[i]
      BY <1>2, <2>3, <3>2, <3>5
    <3>7. a \notin Path[n]
      BY <3>1, <3>5, <3>6 DEF Above
    <3>8. c \in rest /\ tree'[c] = "full"
      <4>1. a = c \/ a \in Path[i] \ Path[c]
        BY <3>3, <3>6, <3>7
      <4>2. c \in Merged(i) /\ a # c => a \in Merged(i)
        <5>1. SUFFICES ASSUME c \in Merged(i), a # c
                       PROVE  a \in Merged(i)
          OBVIOUS
        <5>2. c \in Path[a] /\ a \in Node
          BY <3>3, <3>6, <4>1, <5>1, Chain, PathFacts
        <5>3. Path[c] \subseteq Path[a]
          BY <5>2, PathFacts
        <5> QED
          BY <3>6, <5>1, <5>3 DEF Merged
      <4>3. c \in rest
        BY <3>3, <3>5, <4>2
      <4>4. tree[c] = "full"
        BY <1>1, <1>2, <3>4, <4>3 DEF Occupied
      <4>5. Above(c) = Path[n]
        BY <3>1, <3>3, AboveIs DEF Children
      <4>6. a \in rest \ Above(c)
        BY <3>5, <3>7, <4>5
      <4> QED
        BY <1>1, <3>5, <4>3, <4>4, <4>6
    <3> QED
      BY <3>3, <3>4, <3>8 DEF Occupied
  <2> QED
    BY <2>2, <2>3
<1>7. SplitBelow'
  <2>1. SUFFICES ASSUME NEW n \in Node, tree'[n] = "split"
                 PROVE  \E c \in Children(n) : tree'[c] # "unused"
    BY DEF SplitBelow, Children, Node, Parent
  <2>2. CASE n \notin Above(i)
    <3>1. tree[n] = "split"
      BY <1>1, <1>2, <2>1, <2>2
    <3> QED
      BY <1>3, <2>2, <3>1 DEF IInv, SplitBelow
  <2>3. CASE n \in Above(i)
    <3>1. n \notin Merged(i)
      BY <1>1, <2>1
    <3>2. PICK c \in Path[i] : /\ c \in Children(n) /\ Buddy(c) \in Children(n)
                               /\ tree'[Buddy(c)] = tree[Buddy(c)]
                               /\ n \in Merged(i) <=> c \in Merged(i) /\ tree[Buddy(c)] = "unused"
      BY <1>4, <2>3
    <3>3. CASE c \in Merged(i)
      BY <3>1, <3>2, <3>3
    <3>4. CASE c \in rest
      BY <1>1, <3>2, <3>4
    <3> QED
      BY <3>2, <3>3, <3>4
  <2> QED
    BY <2>2, <2>3
<1> QED
  BY <1>5, <1>6, <1>7

-----------------------------------------------------------------------------
(* The theorems                                                             *)

LEMMA InitSound == Init => IInv
<1> SUFFICES ASSUME Init
             PROVE  IInv
  OBVIOUS
<1>1. tree \in [Node -> NodeState] /\ \A n \in Node : tree[n] = "unused"
  BY DEF Init, NodeState
<1>2. 0 \in 0 .. BaseLevel /\ Length(0) \in Nat
  BY LastIs, LengthFacts
<1>3. TypeOK
  BY <1>1, <1>2 DEF TypeOK, Init, Nothing
<1> QED
  BY <1>1, <1>3 DEF IInv, QuietBelow, FullBelow, SplitBelow, Children

LEMMA StepSound == IInv /\ [Next]_vars => IInv'
<1> SUFFICES ASSUME IInv, [Next]_vars
             PROVE  IInv'
  OBVIOUS
<1>1. 0 \in 0 .. BaseLevel /\ Length(0) \in Nat
  BY LastIs, LengthFacts
<1>2. tree' = tree => QuietBelow' /\ FullBelow' /\ SplitBelow' /\ tree' \in [Node -> NodeState]
  BY DEF IInv, TypeOK, QuietBelow, FullBelow, SplitBelow
<1>3. ASSUME NEW level \in 0 .. BaseLevel, BuddyAlloc(level)
      PROVE  IInv'
  <2>1. CASE Available(level) = {} /\ result' = NoRoom(level) /\ UNCHANGED tree
    <3>1. NoRoom(level) \in [level : 0 .. BaseLevel, offset : -2 .. Length(0) - 1]
      BY <1>1 DEF NoRoom
    <3> QED
      BY <1>2, <2>1, <3>1 DEF IInv, TypeOK
  <2>2. ASSUME NEW i \in Available(level), tree' = MarkParent(Taken(i), i),
               result' = [level |-> level, offset |-> IndexOffset(i)]
        PROVE  IInv'
    <3>1. i \in Node /\ tree' \in [Node -> NodeState]
      BY <2>2, AllocWrites
    <3>2. IndexOffset(i) \in 0 .. Length(0) - 1
      BY <3>1, OffsetFacts DEF Offsets
    <3>3. IndexOffset(i) \in -2 .. Length(0) - 1
      BY <1>1, <3>2
    <3>4. result' \in [level : 0 .. BaseLevel, offset : -2 .. Length(0) - 1]
      BY <2>2, <3>3
    <3>5. QuietBelow' /\ FullBelow' /\ SplitBelow'
      BY <2>2, AllocKeeps
    <3> QED
      BY <3>1, <3>4, <3>5 DEF IInv, TypeOK
  <2> QED
    BY <1>3, <2>1, <2>2 DEF BuddyAlloc
<1>4. ASSUME NEW offset \in Offsets, BuddyFree(offset)
      PROVE  IInv'
  <2>1. result' \in [level : 0 .. BaseLevel, offset : -2 .. Length(0) - 1]
    BY <1>1, <1>4 DEF BuddyFree, Nothing
  <2>2. CASE tree[Found(offset)] # "used"
    BY <1>2, <1>4, <2>1, <2>2 DEF BuddyFree, IInv, TypeOK
  <2>3. CASE tree[Found(offset)] = "used"
    <3>1. /\ Found(offset) \in Node
          /\ \A a \in Above(Found(offset)) : tree[a] \in {"split", "full"}
      BY FoundIs
    <3>2. tree' = Combine(Found(offset))
      BY <1>4, <2>3 DEF BuddyFree
    <3>3. tree' \in [Node -> NodeState]
      BY <2>3, <3>1, <3>2, CombineWrites
    <3>4. QuietBelow' /\ FullBelow' /\ SplitBelow'
      BY <2>3, <3>1, <3>2, CombineKeeps
    <3> QED
      BY <2>1, <3>3, <3>4 DEF IInv, TypeOK
  <2> QED
    BY <2>2, <2>3
<1>5. CASE UNCHANGED vars
  BY <1>2, <1>5 DEF vars, IInv, TypeOK
<1> QED
  BY <1>3, <1>4, <1>5 DEF Next

\* The marks of the tree (m_tree) fit: nothing below a block, no room below a full
\* node, something in use below a split one, whatever was allocated and freed.
THEOREM Invariance == Spec => []IInv
BY InitSound, StepSound, PTL DEF Spec

\* buddyAlloc and buddyFree leave a tree of marks and return offsets of the area.
THEOREM TypeCorrect == Spec => []TypeOK
<1>1. IInv => TypeOK
  BY DEF IInv
<1> QED
  BY <1>1, Invariance, PTL

\* getNotEmptyIndexes, which looks at every node of a level, gives the blocks in use
\* and no other: no mark of a freed part is left behind.
THEOREM ReadsUsed == Spec => []ReadsWhatIsUsed
<1>1. IInv => ReadsWhatIsUsed
  <2>1. SUFFICES ASSUME IInv
                 PROVE  ReadsWhatIsUsed
    OBVIOUS
  <2>2. Used = {BlockAt(i) : i \in {n \in Node : tree[n] = "used"}}
    BY <2>1, UsedIs
  <2>3. ASSUME NEW level \in 0 .. BaseLevel
        PROVE  GetNotEmptyIndexes(level) =
                   {BlockAt(i) : i \in {n \in Node : LevelOf(n) = level /\ tree[n] = "used"}}
    BY LevelsApart DEF GetNotEmptyIndexes, BlockAt
  <2>4. \A n \in Node : LevelOf(n) \in 0 .. BaseLevel
    BY LevelBounds
  <2> QED
    BY <2>2, <2>3, <2>4 DEF ReadsWhatIsUsed
<1> QED
  BY <1>1, Invariance, PTL

\* A request is refused only if nothing is free.
LEMMA RefusedFull ==
    ASSUME IInv, NEW level \in 0 .. BaseLevel, Available(level) = {},
           NEW i \in Node, LevelOf(i) = level
    PROVE  \E u \in Node : tree[u] = "used" /\ Units(u) \cap Units(i) # {}
<1>1. i \in AtLevel(level)
  BY LevelsApart
<1>2. Above(i) \subseteq Node /\ Path[i] = {i} \cup Above(i) /\ Path[i] \subseteq Node
  BY AboveIs, PathFacts
<1>3. Units(i) # {}
  BY OffsetFacts
<1>4. ASSUME NEW u \in Path[i], tree[u] = "used"
      PROVE  u \in Node /\ Units(u) \cap Units(i) # {}
  BY <1>2, <1>3, UnitsNested
<1>5. ASSUME tree[i] # "unused"
      PROVE  \E u \in Node : tree[u] = "used" /\ Units(u) \cap Units(i) # {}
  <2>1. PICK u \in Node : i \in Path[u] /\ tree[u] = "used"
    BY <1>5, UsedWithin
  <2>2. Units(u) \subseteq Units(i) /\ Units(u) # {}
    BY <2>1, UnitsNested, OffsetFacts
  <2> QED
    BY <2>1, <2>2
<1>6. CASE \E a \in Above(i) : tree[a] \in Occupied
  <2>1. PICK a \in Above(i) : tree[a] = "used" \/ tree[a] = "full"
    BY <1>6 DEF Occupied
  <2>2. tree[i] = "full" \/ \E u \in Path[i] : tree[u] = "used"
    BY <1>2, <2>1, FullDown
  <2> QED
    BY <1>4, <1>5, <2>2
<1>7. CASE \A a \in Path[i] : tree[a] # "unused"
  BY <1>2, <1>5, <1>7
<1> QED
  BY <1>1, <1>6, <1>7 DEF Available

LEMMA AreaStep == IInv /\ IInv' /\ [Next]_vars => [Area!Next]_<<Used, result>>
<1> SUFFICES ASSUME IInv, IInv', [Next]_vars
             PROVE  [Area!Next]_<<Used, result>>
  OBVIOUS
<1>1. Used = {BlockAt(i) : i \in {n \in Node : tree[n] = "used"}}
  BY UsedIs
<1>2. Used' = {BlockAt(i) : i \in {n \in Node : tree'[n] = "used"}}
  <2>1. (IInv => Used = {BlockAt(i) : i \in {n \in Node : tree[n] = "used"}})'
    BY UsedIs, PTL
  <2> QED
    BY <2>1 DEF BlockAt, LevelOf, IndexOffset, Node, Above
<1>3. ASSUME NEW i \in Node
      PROVE  BlockAt(i) \in Area!Block /\ Area!Units(BlockAt(i)) = Units(i)
  BY NodeIsBlock
<1>4. ASSUME NEW level \in 0 .. BaseLevel, BuddyAlloc(level)
      PROVE  Area!Alloc(level) \/ Area!Refuse(level)
  <2>1. CASE Available(level) = {} /\ result' = NoRoom(level) /\ UNCHANGED tree
    <3>1. ASSUME NEW b \in Area!Block, b.level = level
          PROVE  ~ Area!Free(b)
      <4>1. PICK i \in Node : b = BlockAt(i) /\ i \in AtLevel(b.level)
        BY BlockIsNode
      <4>2. LevelOf(i) = level
        BY <3>1, <4>1, LevelsApart
      <4>3. PICK u \in Node : tree[u] = "used" /\ Units(u) \cap Units(i) # {}
        BY <2>1, <4>2, RefusedFull
      <4>4. BlockAt(u) \in Used
        BY <1>1, <4>3
      <4> QED
        BY <1>3, <4>1, <4>3, <4>4 DEF Area!Free
    <3>2. Used' = Used
      BY <1>1, <1>2, <2>1
    <3> QED
      BY <2>1, <3>1, <3>2 DEF Area!Refuse, NoRoom
  <2>2. ASSUME NEW i \in Available(level), tree' = MarkParent(Taken(i), i),
               result' = [level |-> level, offset |-> IndexOffset(i)]
        PROVE  Area!Alloc(level)
    <3>1. /\ i \in Node /\ LevelOf(i) = level /\ tree[i] = "unused"
          /\ \A a \in Above(i) : tree[a] \in {"unused", "split"}
          /\ tree'[i] = "used" /\ \A n \in Node : n \notin Path[i] => tree'[n] = tree[n]
          /\ \A n \in Above(i) : tree'[n] \in {"split", "full"}
      BY <2>2, AllocWrites
    <3>2. Path[i] = {i} \cup Above(i)
      BY <3>1, AboveIs
    <3>3. {n \in Node : tree'[n] = "used"} = {n \in Node : tree[n] = "used"} \cup {i}
      BY <3>1, <3>2
    <3>4. Used' = Used \cup {BlockAt(i)}
      BY <1>1, <1>2, <3>3
    <3>5. ASSUME NEW u \in Node, tree[u] = "used"
          PROVE  Units(u) \cap Units(i) = {}
      <4>1. u \notin Path[i]
        BY <3>1, <3>2, <3>5
      <4>2. i \notin Path[u]
        BY <3>1, <3>5, UnusedDown
      <4> QED
        BY <3>1, <4>1, <4>2, UnitsApart
    <3>6. Area!Free(BlockAt(i))
      BY <1>1, <1>3, <3>1, <3>5 DEF Area!Free
    <3>7. BlockAt(i).level = level /\ result' = BlockAt(i) /\ BlockAt(i) \in Area!Block
      BY <1>3, <2>2, <3>1 DEF BlockAt
    <3> QED
      BY <3>4, <3>6, <3>7 DEF Area!Alloc
  <2> QED
    BY <1>4, <2>1, <2>2 DEF BuddyAlloc
<1>5. ASSUME NEW offset \in Offsets, BuddyFree(offset)
      PROVE  Area!Release(offset)
  <2> DEFINE i == Found(offset)
  <2>1. /\ i \in Node /\ offset \in Units(i) /\ tree[i] \in {"used", "unused"}
        /\ \A a \in Above(i) : tree[a] \in {"split", "full"}
    BY FoundIs
  <2>2. result' = Area!Nothing /\ tree' = IF tree[i] = "used" THEN Combine(i) ELSE tree
    BY <1>5 DEF BuddyFree, Nothing, Area!Nothing
  <2> HIDE DEF i
  <2>3. Path[i] = {i} \cup Above(i)
    BY <2>1, AboveIs
  <2>4. ASSUME NEW u \in Node, tree[u] = "used", offset \in Units(u)
        PROVE  u = i
    <3>1. u \in Path[i] \/ i \in Path[u]
      BY <2>1, <2>4, UnitsApart
    <3>2. CASE u \in Path[i]
      BY <2>1, <2>3, <2>4, <3>2
    <3>3. CASE i \in Path[u] /\ u # i
      <4>1. i \in Above(u)
        BY <3>3 DEF Above
      <4> QED
        BY <2>1, <2>4, <4>1, BlockBelow
    <3> QED
      BY <3>1, <3>2, <3>3
  <2>5. {n \in Node : tree'[n] = "used"} = {n \in Node : tree[n] = "used"} \ {i}
    <3>1. CASE tree[i] = "used"
      <4>1. /\ i \in Merged(i) /\ Merged(i) \subseteq Path[i]
            /\ \A n \in Node : n \notin Path[i] => tree'[n] = tree[n]
            /\ \A n \in Merged(i) : tree'[n] = "unused"
            /\ \A n \in Path[i] \ Merged(i) : tree'[n] \in {"split", "full"}
        BY <2>1, <2>2, <3>1, CombineWrites
      <4> QED
        BY <2>1, <2>3, <4>1
    <3>2. CASE tree[i] # "used"
      BY <2>2, <3>2
    <3> QED
      BY <3>1, <3>2
  <2>6. Used' = {b \in Used : offset \notin Area!Units(b)}
    BY <1>1, <1>2, <1>3, <2>1, <2>4, <2>5
  <2> QED
    BY <2>2, <2>6 DEF Area!Release
<1>6. UNCHANGED vars => Used' = Used /\ result' = result
  BY <1>1, <1>2 DEF vars
<1>7. Offsets = 0 .. Area!Length(0) - 1
  BY DEF Offsets, Length, Area!Length
<1> QED
  BY <1>4, <1>5, <1>6, <1>7 DEF Next, Area!Next

\* The tree of buddyAlloc and buddyFree is an allocator of an area of any size: the
\* blocks given out never overlap, a request is refused only when no aligned block of
\* its size is free, and freeing takes back the one block that holds the offset.
THEOREM AllocatorImplemented == Spec => ImplementsAllocator
<1>1. Init => Area!Init
  BY DEF Init, Used, Area!Init, Nothing, Area!Nothing
<1> QED
  BY <1>1, AreaStep, Invariance, PTL DEF Spec, ImplementsAllocator, Area!Spec

=============================================================================
