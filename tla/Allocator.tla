------------------------------ MODULE Allocator ------------------------------
(* What CSegmentFileStorage expects of CSimpleBuddy: an area of base units in *)
(* which blocks, each of a power of two of units and aligned to its size, are *)
(* given out and taken back.  The blocks in use never overlap, and a request  *)
(* is refused only if no aligned block of its size is free.                   *)
EXTENDS Integers

CONSTANT BaseLevel

VARIABLES
    used,      \* the blocks given out
    result     \* the last answer: a block, no block (offset -1), or nothing

Length(level) == 2 ^ (BaseLevel - level)

Block == {b \in [level : 0 .. BaseLevel, offset : 0 .. Length(0) - 1] :
              b.offset % Length(b.level) = 0}

Units(b) == b.offset .. b.offset + Length(b.level) - 1

Free(b) == \A u \in used : Units(u) \cap Units(b) = {}

Nothing == [level |-> 0, offset |-> -2]

Init == used = {} /\ result = Nothing

Alloc(level) ==
    \E b \in Block :
        /\ b.level = level /\ Free(b)
        /\ used' = used \cup {b}
        /\ result' = b

Refuse(level) ==
    /\ \A b \in Block : b.level = level => ~ Free(b)
    /\ result' = [level |-> level, offset |-> -1]
    /\ UNCHANGED used

\* The block that holds the unit is taken back; so is none if it is free.
Release(offset) ==
    /\ used' = {b \in used : offset \notin Units(b)}
    /\ result' = Nothing

Next ==
    \/ \E level \in 0 .. BaseLevel : Alloc(level) \/ Refuse(level)
    \/ \E offset \in 0 .. Length(0) - 1 : Release(offset)

Spec == Init /\ [][Next]_<<used, result>>
=============================================================================
