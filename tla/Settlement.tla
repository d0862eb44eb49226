----------------------------- MODULE Settlement -----------------------------
(***************************************************************************)
(* The interop contract as the repository's relayer drives it.              *)
(*                                                                         *)
(* Burns is the history of the 1Money network: each burn hash has a sender, *)
(* the sender's BurnAndBridge nonce and the checkpoint that certifies it.   *)
(* The relayer (crates/relayer/src/outgoing) calls bridgeTo with the data   *)
(* of a burn, either with checkpoint 0 (the live stream) or with the burn's *)
(* checkpoint, the latter only after it has certified that checkpoint with  *)
(* all its burns; it certifies each checkpoint with all its burns at once.  *)
(* Nothing else is assumed of it: calls may come in any order, repeatedly,  *)
(* or never.  WithdrawalRelay.tla shows that the relayer keeps to this.     *)
(***************************************************************************)
EXTENDS OMInterop

CONSTANT Burns

BurnType == [from : Accounts, bbNonce : Nat, checkpoint : 1..MaxCheckpoint,
             escrowFee : Nat, omToken : OmTokens]

(* No burn is in checkpoint 0, and no two burns share sender and nonce.      *)
ASSUME BurnsAssumption ==
    /\ Burns \in [Hashes -> BurnType]
    /\ \A g, h \in Hashes : <<Burns[g].from, Burns[g].bbNonce>>
                               = <<Burns[h].from, Burns[h].bbNonce>> => g = h

BurnsOf(c) == {h \in Hashes : Burns[h].checkpoint = c}

(* The relayer always sends empty bridgeData, which LayerZero cannot decode. *)
Request(h, c) ==
    [from |-> Burns[h].from, bbNonce |-> Burns[h].bbNonce,
     escrowFee |-> Burns[h].escrowFee, omToken |-> Burns[h].omToken,
     checkpointId |-> c, sourceHash |-> h, wellFormed |-> TRUE,
     decodable |-> FALSE]

CertifiedBurns(c) == {h \in Hashes : checkpointIdsBySourceHash[h] = c}

RelayLiveBurn(sender, h) == BridgeTo(sender, Request(h, 0))

RelayCheckpointBurn(sender, h) ==
    /\ CertifiedBurns(Burns[h].checkpoint) # {}
    /\ BridgeTo(sender, Request(h, Burns[h].checkpoint))

RelayCheckpoint(sender, c) == UpdateCheckpointInfo(sender, c, BurnsOf(c))

(* The requires that the relayer's calls must pass.  The mode of a token      *)
(* decides too: LayerZero cannot send without its bridgeData.               *)
CheckpointAccepted(c) ==
    LET new == {h \in BurnsOf(c) : checkpointIdsBySourceHash[h] = 0}
    IN  /\ EnsureCheckpointNotCompleted(c)
        /\ ~ IsCheckpointComplete(checkpointTallies, c)
        /\ checkpointTallies[c].certified + Cardinality(new) <= MaxUint32
        /\ checkpointTallies[c].completed
               + Cardinality(new \cap processedBridges) <= MaxUint32

BurnAccepted(h, c, nextNonce) ==
    /\ EnsureCheckpointNotCompleted(c)
    /\ ~ IsCheckpointComplete(checkpointTallies, c)
    /\ tokensByOm[Burns[h].omToken] # NoBinding
    /\ tokensByOm[Burns[h].omToken].protocol = "Mock"
    /\ Burns[h].bbNonce = nextNonce /\ nextNonce < MaxUint64
    /\ nextInboundNonce # MaxUint64
    /\ c > 0 => checkpointTallies[c].completed < MaxUint32

SettlementCalls(sender) ==
    \/ \E h \in Hashes : RelayLiveBurn(sender, h)
    \/ \E h \in Hashes : RelayCheckpointBurn(sender, h)
    \/ \E c \in Checkpoints : RelayCheckpoint(sender, c)

SettlementNext ==
    \/ \E sender \in Principals :
           \/ OwnerCalls(sender)
           \/ OperatorCalls(sender)
           \/ SettlementCalls(sender)
    \/ Deposits
    \/ Receive
    \/ Tick

SettlementSpec == Init /\ [][SettlementNext]_vars

-----------------------------------------------------------------------------
(* A checkpoint's tally counts its burns: either none of them is certified   *)
(* or all are, and a burn is counted as completed at most once, however     *)
(* often and through whichever task it is submitted.                        *)
TallyCountsBurns ==
    \A c \in 1..MaxCheckpoint :
        /\ CertifiedBurns(c) \in {{}, BurnsOf(c)}
        /\ c >= earliestIncompletedCheckpoint =>
              /\ checkpointTallies[c].certified = Cardinality(CertifiedBurns(c))
              /\ checkpointTallies[c].completed
                     <= Cardinality(CertifiedBurns(c) \cap processedBridges)

(* What getLatestCompletedCheckpoint and the completion checks rest on: a    *)
(* checkpoint that is complete or pruned has had every burn bridged.        *)
ClosedCheckpointBridged ==
    \A c \in 1..MaxCheckpoint : Closed(c) => BurnsOf(c) \subseteq processedBridges

(* An account's burns below its stored bbNonce are exactly its bridged ones. *)
BridgedBelowNonce ==
    \A h \in Hashes :
        h \in processedBridges <=> Burns[h].bbNonce < latestBbNonce[Burns[h].from]

(* The contract pays out as the ledger of withdrawals promises.              *)
Ledger == INSTANCE WithdrawalLedger
              WITH bridged <- processedBridges,
                   settled <- GetLatestCompletedCheckpoint
ImplementsLedger == Ledger!Spec
=============================================================================
