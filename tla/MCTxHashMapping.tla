--------------------------- MODULE MCTxHashMapping ---------------------------
(* Three hashes in every role.  The contract gives no hash a special role,   *)
(* so permuting them permutes behaviours.                                   *)
EXTENDS TxHashMapping, TLC

CONSTANTS owner, rel, h1, h2, h3

HashSymmetry == Permutations(Hashes)
=============================================================================
