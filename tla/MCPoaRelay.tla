----------------------------- MODULE MCPoaRelay -----------------------------
(* Genesis has k1 with another power and k2; the first epoch has only k3, the *)
(* second has k1 again.                                                     *)
EXTENDS PoaRelay

CONSTANTS k1, k2, k3

TwoEpochs == [e \in 0..MaxEpoch |-> IF e = 0 THEN {k3} ELSE {k1, k3}]
GenesisSet == {[key |-> k1, power |-> 1], [key |-> k2, power |-> 100]}
=============================================================================
