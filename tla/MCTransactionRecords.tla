------------------------ MODULE MCTransactionRecords ------------------------
(* g is a coinbase transaction, a spends it and pays k1 and k2, b spends an    *)
(* output of a, c the one g has: a conflict.  u cannot be read.                *)
EXTENDS TransactionRecords

CONSTANTS g, a, b, c, u, k1, k2, k3

MCOutput == {"g0", "a0", "a1", "b0", "c0"}
MCTxOf == [o \in MCOutput |-> CASE o = "g0" -> g [] o \in {"a0", "a1"} -> a
                                [] o = "b0" -> b [] o = "c0" -> c]
MCIndexOf == [o \in MCOutput |-> IF o = "a1" THEN 1 ELSE 0]
MCKeyOf == [o \in MCOutput |-> CASE o \in {"g0", "a0"} -> k1 [] o \in {"a1", "c0"} -> k2
                                 [] OTHER -> k3]
MCSpends == [x \in Tx |-> CASE x = a -> <<"g0">> [] x = b -> <<"a1">>
                            [] x = c -> <<"a0", "g0">> [] OTHER -> <<>>]
MCValidated == {<<a>>, <<b>>, <<c>>}
MCRetrieved == {<<b, u>>, <<b>>}
MCCoinbase == {<<g>>}
=============================================================================
