---------------------------- MODULE MCDepositRelay ----------------------------
(* Instances of DepositRelay for TLC; the constants are given in the .cfg,    *)
(* the transactions of the events here.                                     *)
EXTENDS DepositRelay

(* Every event is of a transaction of its own.                               *)
OwnTx == [n \in Nonces |-> n]

(* The first two events are deposits of one transaction.                     *)
SharedTx == [n \in Nonces |-> IF n = 1 THEN 0 ELSE n]
=============================================================================
