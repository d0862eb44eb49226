-------------------------- MODULE WithdrawalLedger --------------------------
(***************************************************************************)
(* What the withdrawal path promises, without contract, relayer or tallies: *)
(* each burn of the 1Money network is paid out at most once and in the      *)
(* order its sender made it, and a checkpoint is reported as settled only   *)
(* when every burn up to it has been paid out.                              *)
(***************************************************************************)
EXTENDS Naturals

CONSTANTS Hashes, Burns, MaxCheckpoint

VARIABLES bridged, \* the burns paid out
          settled  \* the checkpoint up to which settlement is reported

Init == bridged = {} /\ settled = 0

EarlierOfSender(h) == {g \in Hashes : /\ Burns[g].from = Burns[h].from
                                      /\ Burns[g].bbNonce < Burns[h].bbNonce}

PayOut(h) ==
    /\ h \notin bridged
    /\ EarlierOfSender(h) \subseteq bridged
    /\ bridged' = bridged \cup {h}

BurnsUpTo(c) == {h \in Hashes : Burns[h].checkpoint <= c}

Settle(c) ==
    /\ settled <= c
    /\ BurnsUpTo(c) \subseteq bridged'
    /\ settled' = c

(* The payout that completes a checkpoint also settles it.                   *)
Next ==
    /\ (\E h \in Hashes : PayOut(h)) \/ UNCHANGED bridged
    /\ \E c \in 0..MaxCheckpoint : Settle(c)

Spec == Init /\ [][Next]_<<bridged, settled>>
=============================================================================
