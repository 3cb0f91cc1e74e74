------------------------ MODULE MCValidateTransactions ------------------------
EXTENDS ValidateTransactions
CONSTANTS o, n, c, s, b1, b2, b3, x1, y1, y2, y3, z1, z2, w1

\* s knows nobody; the others know each other, or c knows n only.
MCPeersOf == [t \in Tracker |-> IF t = s THEN {} ELSE Tracker \ {t, s}]
MCLineOf == [t \in Tracker |-> IF t = n THEN {o, c} ELSE {n}]
MCOriginOf == [b \in Bundle |-> IF b = b3 THEN s
                                ELSE IF b = b2 \/ c \in Tracker THEN o ELSE n]
\* x1 spends the last output of the genesis record.  Of b2, y1 spends an output of
\* x1, y2 is not signed, y3 spends what x1 does, z1 and z2 spend the same.
MCBundleOf == [x \in Tx |-> IF x = x1 THEN b1 ELSE IF x = w1 THEN b3 ELSE b2]
MCOrder == [x \in Tx |-> IF x = z1 THEN 0 ELSE IF x = y2 THEN 2 ELSE IF x = y3 THEN 3
                         ELSE 1]
MCSigned == Tx \ {y2}
MCOutput == {"g1", "g2", "g3", "x", "y"}
MCRecordOf == [p \in MCOutput |-> IF p \in {"g1", "g2", "g3"} THEN "g" ELSE p]
MCIndexOf == [p \in MCOutput |-> IF p = "g2" THEN 1 ELSE IF p = "g3" THEN 2 ELSE 0]
MCSpends == [x \in Tx |-> IF x = y1 THEN {"x"}
                          ELSE IF x \in {y2, z1, z2, w1} THEN {"g1"} ELSE {"g3"}]
MCMakes == [x \in Tx |-> IF x = x1 THEN {"x"} ELSE IF x = y1 THEN {"y"} ELSE {}]
MCGenesis == {"g1", "g2", "g3"}
=============================================================================
