---------------------------- MODULE MCNodeMedium ----------------------------
(* Model values for NodeMedium: action a1 sends two requests that share an   *)
(* id (a message and the ack that reuses it), and a2 sends none, so that the *)
(* medium is not told of its end.                                            *)
EXTENDS NodeMedium
CONSTANTS r1, r2, a1, a2

MCIdOf == [r \in Request |-> 1]
MCOwnerOf == [r \in Request |-> a1]
=============================================================================
