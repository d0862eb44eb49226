---------------------------- MODULE MCOMInterop ----------------------------
(* Instances of OMInterop for TLC.                                          *)
EXTENDS OMInterop

CONSTANTS owner, oper, rel, oracle1, oracle2, alice, bob, tok1, tok2, sc1, sc2,
          h1, h2, h3

Burn(h, from, nonce, c) ==
    [from |-> from, bbNonce |-> nonce, escrowFee |-> 1, omToken |-> tok1,
     checkpointId |-> c, sourceHash |-> h, wellFormed |-> TRUE,
     decodable |-> TRUE]

(* A relayer that submits two burns of alice and one of bob with any         *)
(* checkpoint of two, the second burn of alice under bob's hash too.        *)
ArbitraryRequests ==
    {Burn(h1, alice, 0, c) : c \in 0..2} \cup {Burn(h2, alice, 1, c) : c \in 0..2}
        \cup {Burn(h3, bob, 0, c) : c \in 0..2} \cup {Burn(h3, alice, 1, 1)}
ArbitraryLists == {{h1}, {h2}, {h1, h3}, {h1, h2, h3}}

(* One burn without a checkpoint, its escrow above the fee of oracle1.       *)
DepositRequests == {[Burn(h1, alice, 0, 0) EXCEPT !.escrowFee = 3]}

(* oracle2 has no price for any token.                                      *)
Prices == [k \in Oracles \X OmTokens \X NativeFees |->
              IF k[1] = oracle2 THEN Unset ELSE 2]
=============================================================================
