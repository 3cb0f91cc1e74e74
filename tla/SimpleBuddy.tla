----------------------------- MODULE SimpleBuddy -----------------------------
(* CSimpleBuddy (common/simpleBuddy.cpp): which parts of a segment of the      *)
(* transaction storage are in use, as a binary tree in an array.  Node 0 is    *)
(* the whole segment, nodes 2 i + 1 and 2 i + 2 are the halves of node i.      *)
(* Unused nodes that are buddies become one again when they are freed; Full is *)
(* a mark that keeps the search out of subtrees without room.                  *)
EXTENDS Integers, FiniteSetsExt

CONSTANT BaseLevel      \* ms_buddyBaseLevel: the level of the smallest parts

ASSUME BaseLevelAssumption == BaseLevel \in Nat \ {0}

VARIABLES
    tree,       \* m_tree
    result      \* what the last call returned, with its level

vars == <<tree, result>>

Node == 0 .. 2 ^ (BaseLevel + 1) - 2
Length(level) == 2 ^ (BaseLevel - level)
Offsets == 0 .. Length(0) - 1

NodeState == {"unused", "used", "split", "full"}
Nothing == [level |-> 0, offset |-> -2]
NoRoom(level) == [level |-> level, offset |-> -1]

TypeOK ==
    /\ tree \in [Node -> NodeState]
    /\ result \in [level : 0 .. BaseLevel, offset : -2 .. Length(0) - 1]

-----------------------------------------------------------------------------
(* The shape of the tree                                                    *)

Parent(i) == (i + 1) \div 2 - 1
Buddy(i) == i - 1 + (i % 2) * 2
AtLevel(level) == 2 ^ level - 1 .. 2 ^ (level + 1) - 2

\* A node with its ancestors
Path[i \in Node] == {i} \cup (IF i = 0 THEN {} ELSE Path[Parent(i)])
Above(i) == Path[i] \ {i}

LevelOf(i) == Cardinality(Above(i))

\* Faulty: off by one.
IndexOffsetNext(i) == (i + 2 - 2 ^ LevelOf(i)) * Length(LevelOf(i))

IndexOffset(i) == (i + 1 - 2 ^ LevelOf(i)) * Length(LevelOf(i))

Units(i) == IndexOffset(i) .. IndexOffset(i) + Length(LevelOf(i)) - 1

Occupied == {"used", "full"}

-----------------------------------------------------------------------------
(* buddyAlloc                                                               *)

\* The search comes to every node of the level that is not below an occupied
\* one, and takes those that are unused or come out of an unused one.
Available(level) ==
    {i \in AtLevel(level) :
        /\ \A a \in Above(i) : tree[a] \notin Occupied
        /\ \E a \in Path[i] : tree[a] = "unused"}

\* The unused ancestors of i are split on the way down.
Taken(i) ==
    LET torn == {a \in Above(i) : \E b \in Path[a] : tree[b] = "unused"}
    IN  [n \in Node |->
            IF n = i THEN "used"
            ELSE IF n \in torn THEN "split"
            ELSE IF n # 0 /\ Parent(n) \in torn THEN "unused"
            ELSE tree[n]]

\* markParent: as far up as the buddies are occupied too.
MarkParent(t, i) ==
    [n \in Node |->
        IF n \in Above(i) /\ \A c \in Path[i] \ Path[n] : t[Buddy(c)] \in Occupied
        THEN "full" ELSE t[n]]

\* Depth first and left to right: the first node found has the lowest index.
BuddyAlloc(level) ==
    \/ \E i \in Available(level) :
          /\ \A j \in Available(level) : i <= j
          /\ tree' = MarkParent(Taken(i), i)
          /\ result' = [level |-> level, offset |-> IndexOffset(i)]
    \/ /\ Available(level) = {}
       /\ result' = NoRoom(level)
       /\ UNCHANGED tree

-----------------------------------------------------------------------------
(* buddyFree                                                                *)

\* A node and those of its ancestors that are unused once it is: as far up as
\* the buddies are unused
Merged(i) == {a \in Path[i] : \A c \in Path[i] \ Path[a] : tree[Buddy(c)] = "unused"}

\* Faulty: the full ancestors stay full.
CombineFullKept(i) ==
    [n \in Node |-> IF n \in Merged(i) THEN "unused" ELSE tree[n]]

\* Faulty: the whole is unused, the half that was freed is not.
CombineHalfKept(i) ==
    LET merged == Merged(i)
        top == Min(merged)
    IN  [n \in Node |-> IF n = top THEN "unused"
                        ELSE IF n \in Above(top) THEN "split" ELSE tree[n]]

\* combine: the ancestors above the merged nodes, as long as they are full, are
\* full no more.
Combine(i) ==
    LET merged == Merged(i)
        rest == Path[i] \ merged
    IN  [n \in Node |->
            IF n \in merged THEN "unused"
            ELSE IF n \in rest /\ \A a \in rest \ Above(n) : tree[a] = "full"
            THEN "split" ELSE tree[n]]

\* Where the descent for an offset ends
Found(offset) ==
    CHOOSE i \in Node : /\ offset \in Units(i)
                        /\ tree[i] \in {"used", "unused"}
                        /\ \A a \in Above(i) : tree[a] \in {"split", "full"}

\* The assertions that a used node starting at the offset is found are empty:
\* inside a used node it is the node that is freed, in an unused one nothing.
BuddyFree(offset) ==
    /\ tree' = IF tree[Found(offset)] = "used" THEN Combine(Found(offset)) ELSE tree
    /\ result' = Nothing

-----------------------------------------------------------------------------

Init == tree = [i \in Node |-> "unused"] /\ result = Nothing

Next ==
    \/ \E level \in 0 .. BaseLevel : BuddyAlloc(level)
    \/ \E offset \in Offsets : BuddyFree(offset)

Spec == Init /\ [][Next]_vars

\* getNotEmptyIndexes: every used node of a level, whatever is above it
GetNotEmptyIndexes(level) ==
    {[level |-> level, offset |-> IndexOffset(i)] : i \in {n \in AtLevel(level) : tree[n] = "used"}}

-----------------------------------------------------------------------------
(* Properties                                                               *)

\* The blocks a search from the root can see
Used ==
    {[level |-> LevelOf(i), offset |-> IndexOffset(i)] :
        i \in {n \in Node : tree[n] = "used" /\ \A a \in Above(n) : tree[a] \notin {"used", "unused"}}}

Area == INSTANCE Allocator WITH used <- Used, result <- result

(* The tree is an allocator: buddyAlloc gives out blocks that overlap nothing  *)
(* in use and refuses only when no aligned block of the size is free, however  *)
(* the areas were split, freed and combined before; buddyFree takes back the   *)
(* one block that holds the offset.                                            *)
ImplementsAllocator == Area!Spec

(* Synchronisation reads a segment through getNotEmptyIndexes, which looks at  *)
(* every node whatever lies above it: no mark is left behind in a part that    *)
(* was combined, so that no freed transaction is read again and none twice.    *)
ReadsWhatIsUsed == UNION {GetNotEmptyIndexes(level) : level \in 0 .. BaseLevel} = Used
=============================================================================
