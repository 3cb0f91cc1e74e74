--------------------------- MODULE MCActionHandler ---------------------------
(* p is periodic and sends a message, q schedules c.                         *)
EXTENDS ActionHandler

CONSTANTS p, c, q, r1, r2, n1

MCOwnerOf == [r \in Request |-> IF r = r1 THEN p ELSE q]
MCKindOf == [r \in Request |-> IF r = r1 THEN "message" ELSE "schedule"]
MCChildOf == [r \in Request |-> c]
=============================================================================
