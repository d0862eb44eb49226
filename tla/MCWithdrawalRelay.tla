------------------------- MODULE MCWithdrawalRelay -------------------------
(* Histories of the 1Money network for WithdrawalRelay.                     *)
EXTENDS WithdrawalRelay

CONSTANTS owner, oracle, alice, bob, tok, sc, h1, h2, h3

Burn(from, nonce, c) == [from |-> from, bbNonce |-> nonce, checkpoint |-> c,
                         escrowFee |-> 1, omToken |-> tok]
NoPrices == [k \in Oracles \X OmTokens \X NativeFees |-> Unset]

(* Two burns of alice in one checkpoint, one of bob in the next.             *)
TwoAccounts == [h \in Hashes |-> CASE h = h1 -> Burn(alice, 0, 1)
                                   [] h = h2 -> Burn(alice, 1, 1)
                                   [] h = h3 -> Burn(bob, 0, 2)]
TwoAccountsTxs == [c \in Checkpoints |-> CASE c = 0 -> <<>>
                                           [] c = 1 -> <<h1, h2>>
                                           [] c = 2 -> <<h3>>]

(* One burn per checkpoint, both of alice.                                   *)
TwoCheckpoints == [h \in Hashes |-> CASE h = h1 -> Burn(alice, 0, 1)
                                      [] h = h2 -> Burn(alice, 1, 2)]
TwoCheckpointsTxs == [c \in Checkpoints |-> CASE c = 0 -> <<>>
                                              [] c = 1 -> <<h1>>
                                              [] c = 2 -> <<h2>>]

(* One burn per checkpoint, the last one of bob.                             *)
ThreeCheckpoints == [h \in Hashes |-> CASE h = h1 -> Burn(alice, 0, 1)
                                        [] h = h2 -> Burn(alice, 1, 2)
                                        [] h = h3 -> Burn(bob, 0, 3)]
ThreeCheckpointsTxs == [c \in Checkpoints |-> CASE c = 0 -> <<>>
                                                [] c = 1 -> <<h1>>
                                                [] c = 2 -> <<h2>>
                                                [] c = 3 -> <<h3>>]

(* The first checkpoint has no burn.                                         *)
EmptyFirst == [h \in Hashes |-> Burn(alice, 0, 2)]
EmptyFirstTxs == [c \in Checkpoints |-> IF c = 2 THEN <<h1>> ELSE <<>>]
=============================================================================
