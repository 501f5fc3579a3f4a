----------------------------- MODULE MCConnPool -----------------------------
(* Small instances of ConnPool for TLC.                                    *)
EXTENDS ConnPool, TLC

CONSTANTS r1, r2, r3, a, b

Symmetric == Permutations(Requests)

OnlyH2 == [k \in Keys |-> {"h2"}]
EitherA == [k \in Keys |-> IF k = a THEN {"h1", "h2"} ELSE {"h2"}]
MixedKeys == [k \in Keys |-> IF k = a THEN {"h2"} ELSE {"h1"}]
NoCover == {}
ACoversB == {<<a, b>>}
=============================================================================
