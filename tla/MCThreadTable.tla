--------------------------- MODULE MCThreadTable ---------------------------
(* ThreadTable on small instances: t1 and t2 share bucket b1, t3, t4 and t5 b2. *)
EXTENDS ThreadTable, TLC

CONSTANTS t1, t2, t3, t4, t5, p1, p2, p3, p4, b1, b2

Threads  == {t1, t2, t3, t4, t5}
Pages    == {p1, p2, p3, p4}
Buckets  == {b1, b2}
Mod2     == t1 :> b1 @@ t2 :> b1 @@ t3 :> b2 @@ t4 :> b2 @@ t5 :> b2
OneChain == {t3, t4, t5}
OneAp    == {1}
SymPages == Permutations(Pages)

=============================================================================
