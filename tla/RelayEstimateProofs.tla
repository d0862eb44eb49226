------------------------ MODULE RelayEstimateProofs ------------------------
(***************************************************************************)
(* What the estimates of the relayer's calls predict: a call of the contract *)
(* happens exactly when its requires are passed, and then its outcome is    *)
(* determined.  The requires are those of WithdrawalRelay's Succeeds; that  *)
(* nothing else can make a call revert, or hang, rests on the pruning loop, *)
(* which walks over complete checkpoints and stops at the first other one.  *)
(*                                                                         *)
(* So the model may let a transaction succeed or revert by that list.       *)
(***************************************************************************)
EXTENDS WithdrawalRelay, WellFoundedInduction, TLAPS

-----------------------------------------------------------------------------
(* The pruning loop.                                                        *)

(* A set of numbers has a least one.                                        *)
LEMMA LeastNumber ==
    ASSUME NEW S \in SUBSET Nat, S # {}
    PROVE  \E m \in S : \A k \in S : m <= k
<1> DEFINE Less == OpToRel(<, Nat)
<1>1. \A x, y \in Nat : <<y, x>> \in Less <=> y < x
  BY DEF OpToRel
<1>2. IsWellFoundedOn(Less, Nat)
  BY NatLessThanWellFounded
<1> HIDE DEF Less
<1>3. PICK x \in S : \A y \in S : ~ (<<y, x>> \in Less)
  BY <1>2, WFMin
<1>4. \A y \in S : y \in Nat /\ ~ (y < x)
  BY <1>1, <1>3
<1> QED
  BY <1>3, <1>4

(* Where the pruning loop stops.                                            *)
StopsAt(tallies, c, next) ==
    IF IsCheckpointComplete(tallies, c)
    THEN /\ \A d \in earliestIncompletedCheckpoint..next - 1 :
                IsCheckpointComplete(tallies, d)
         /\ ~ IsCheckpointComplete(tallies, next)
    ELSE next = earliestIncompletedCheckpoint

FrontAfter(tallies, c) ==
    CHOOSE next \in earliestIncompletedCheckpoint..MaxCheckpoint + 1 :
        StopsAt(tallies, c, next)

(* It always stops, and at one checkpoint: the first incomplete one, at the  *)
(* latest the one after the last that exists.                               *)
LEMMA PruningStops ==
    ASSUME ContractAssumption, TypeOK, NEW tallies, NEW c
    PROVE  /\ FrontAfter(tallies, c) \in earliestIncompletedCheckpoint..MaxCheckpoint + 1
           /\ \A next \in earliestIncompletedCheckpoint..MaxCheckpoint + 1 :
                  StopsAt(tallies, c, next) <=> next = FrontAfter(tallies, c)
<1> DEFINE front == earliestIncompletedCheckpoint
           Complete(d) == IsCheckpointComplete(tallies, d)
<1>1. MaxCheckpoint \in Nat /\ front \in 1..MaxCheckpoint + 1
  BY DEF TypeOK, ContractAssumption
<1>2. \E next \in front..MaxCheckpoint + 1 : StopsAt(tallies, c, next)
  <2>1. CASE Complete(c)
    <3> DEFINE S == {d \in front..MaxCheckpoint + 1 : ~ Complete(d)}
    <3>1. S \in SUBSET Nat
      BY <1>1
    <3>2. MaxCheckpoint + 1 \in S
      BY <1>1 DEF IsCheckpointComplete, Checkpoints
    <3>3. PICK m \in S : \A k \in S : m <= k
      BY <3>1, <3>2, LeastNumber
    <3>4. \A d \in front..m - 1 : Complete(d)
      BY <1>1, <3>3
    <3> QED
      BY <2>1, <3>3, <3>4 DEF StopsAt
  <2>2. CASE ~ Complete(c)
    BY <1>1, <2>2 DEF StopsAt
  <2> QED
    BY <2>1, <2>2
<1>3. ASSUME NEW a \in front..MaxCheckpoint + 1, NEW b \in front..MaxCheckpoint + 1,
             StopsAt(tallies, c, a), StopsAt(tallies, c, b)
      PROVE  a = b
  <2>1. CASE Complete(c)
    <3>1. /\ \A d \in front..a - 1 : Complete(d)
          /\ \A d \in front..b - 1 : Complete(d)
          /\ ~ Complete(a) /\ ~ Complete(b)
      BY <1>3, <2>1 DEF StopsAt
    <3>2. ~ (a \in front..b - 1) /\ ~ (b \in front..a - 1)
      BY <3>1
    <3> QED
      BY <1>1, <3>2
  <2>2. CASE ~ Complete(c)
    BY <1>3, <2>2 DEF StopsAt
  <2> QED
    BY <2>1, <2>2
<1> HIDE DEF front
<1>4. /\ FrontAfter(tallies, c) \in front..MaxCheckpoint + 1
      /\ StopsAt(tallies, c, FrontAfter(tallies, c))
  BY <1>2 DEF FrontAfter, front
<1> QED
  BY <1>3, <1>4 DEF front

(* What is left of the tallies when it has.                                  *)
PruneEffect(tallies, c) ==
    /\ earliestIncompletedCheckpoint' = FrontAfter(tallies, c)
    /\ checkpointTallies' = [d \in Checkpoints |->
           IF d \in earliestIncompletedCheckpoint..FrontAfter(tallies, c) - 1
           THEN EmptyTally ELSE tallies[d]]

LEMMA PruningDetermined ==
    ASSUME ContractAssumption, TypeOK, NEW tallies, NEW c
    PROVE  TryPruneCheckpoint(tallies, c) <=> PruneEffect(tallies, c)
<1>1. TryPruneCheckpoint(tallies, c) <=>
          \E next \in earliestIncompletedCheckpoint..MaxCheckpoint + 1 :
              /\ StopsAt(tallies, c, next)
              /\ earliestIncompletedCheckpoint' = next
              /\ checkpointTallies' = [d \in Checkpoints |->
                     IF d \in earliestIncompletedCheckpoint..next - 1
                     THEN EmptyTally ELSE tallies[d]]
  BY DEF TryPruneCheckpoint, StopsAt
<1>2. /\ FrontAfter(tallies, c) \in earliestIncompletedCheckpoint..MaxCheckpoint + 1
      /\ \A next \in earliestIncompletedCheckpoint..MaxCheckpoint + 1 :
             StopsAt(tallies, c, next) <=> next = FrontAfter(tallies, c)
  BY PruningStops
<1>3. TryPruneCheckpoint(tallies, c) => PruneEffect(tallies, c)
  BY <1>1, <1>2 DEF PruneEffect
<1>4. PruneEffect(tallies, c) => TryPruneCheckpoint(tallies, c)
  BY <1>1, <1>2 DEF PruneEffect
<1> QED
  BY <1>3, <1>4

-----------------------------------------------------------------------------
(* The calls.                                                               *)

(* What updateCheckpointInfo with the burns of a checkpoint writes.          *)
CertifyEffect(c) ==
    LET new == {h \in BurnsOf(c) : checkpointIdsBySourceHash[h] = 0}
    IN  /\ checkpointIdsBySourceHash' = [h \in Hashes |->
               IF h \in new THEN c ELSE checkpointIdsBySourceHash[h]]
        /\ PruneEffect(
               [checkpointTallies EXCEPT ![c] =
                   [certified |-> @.certified + Cardinality(new),
                    completed |-> @.completed
                                  + Cardinality(new \cap processedBridges)]],
               c)
        /\ UNCHANGED <<roleVars, tokenVars, limitVars, latestBbNonce,
                       processedBridges, eventVars, balance, now>>

(* What the bridgeTo of a burn writes, which refunds the escrow fee in full.  *)
BridgeEffect(h, c) ==
    /\ latestBbNonce' = [latestBbNonce EXCEPT ![Burns[h].from] = Burns[h].bbNonce + 1]
    /\ nextInboundNonce' = nextInboundNonce + 1
    /\ log' = Append(log, [kind |-> "OMInteropSent", nonce |-> nextInboundNonce,
                           from |-> Burns[h].from, bbNonce |-> Burns[h].bbNonce,
                           refundAmount |-> Burns[h].escrowFee,
                           omToken |-> Burns[h].omToken, sourceHash |-> h])
    /\ processedBridges' = processedBridges \cup {h}
    /\ IF c > 0
       THEN /\ checkpointIdsBySourceHash' = [checkpointIdsBySourceHash EXCEPT ![h] = c]
            /\ PruneEffect([checkpointTallies EXCEPT ![c].completed = @ + 1], c)
       ELSE UNCHANGED <<checkpointIdsBySourceHash, checkpointTallies,
                        earliestIncompletedCheckpoint>>
    /\ UNCHANGED <<roleVars, tokenVars, limitVars, balance, now>>

LEMMA CertifyDecided ==
    ASSUME TypeOK, NEW c \in Checkpoints
    PROVE  RelayCheckpoint(relayer, c) <=> CheckpointAccepted(c) /\ CertifyEffect(c)
<1> DEFINE new == {h \in BurnsOf(c) : checkpointIdsBySourceHash[h] = 0}
           tallies == [checkpointTallies EXCEPT ![c] =
                          [certified |-> @.certified + Cardinality(new),
                           completed |-> @.completed
                                         + Cardinality(new \cap processedBridges)]]
<1>1. TryPruneCheckpoint(tallies, c) <=> PruneEffect(tallies, c)
  BY ContractAssumption, PruningDetermined
<1>2. RelayCheckpoint(relayer, c) <=>
          /\ CheckpointAccepted(c)
          /\ checkpointIdsBySourceHash' = [h \in Hashes |->
                 IF h \in new THEN c ELSE checkpointIdsBySourceHash[h]]
          /\ TryPruneCheckpoint(tallies, c)
          /\ UNCHANGED <<roleVars, tokenVars, limitVars, latestBbNonce,
                         processedBridges, eventVars, balance, now>>
  BY DEF RelayCheckpoint, UpdateCheckpointInfo, CheckpointAccepted
<1>3. CertifyEffect(c) <=>
          /\ checkpointIdsBySourceHash' = [h \in Hashes |->
                 IF h \in new THEN c ELSE checkpointIdsBySourceHash[h]]
          /\ PruneEffect(tallies, c)
          /\ UNCHANGED <<roleVars, tokenVars, limitVars, latestBbNonce,
                         processedBridges, eventVars, balance, now>>
  BY DEF CertifyEffect
<1> HIDE DEF new, tallies
<1> QED
  BY <1>1, <1>2, <1>3

(* A token that LayerZero sends has no bridgeTo of the relayer: the call's    *)
(* data cannot be decoded.                                                  *)
LEMMA RelayedDispatch ==
    ASSUME NEW h \in Hashes, NEW c, NEW refund
    PROVE  DispatchBridge(Request(h, c), refund) <=>
               /\ tokensByOm[Burns[h].omToken].protocol = "Mock"
               /\ refund = Burns[h].escrowFee /\ UNCHANGED balance
BY DEF DispatchBridge, Request

LEMMA BridgeDecided ==
    ASSUME TypeOK, NEW h \in Hashes, NEW c \in Checkpoints
    PROVE  BridgeTo(relayer, Request(h, c)) <=>
               /\ BurnAccepted(h, c, GetLatestProcessedNonce(Burns[h].from))
               /\ BridgeEffect(h, c)
<1> DEFINE req == Request(h, c)
           fee == Burns[h].escrowFee
           Event(nonce, refund) ==
               [kind |-> "OMInteropSent", nonce |-> nonce,
                from |-> Burns[h].from, bbNonce |-> Burns[h].bbNonce,
                refundAmount |-> refund, omToken |-> Burns[h].omToken,
                sourceHash |-> h]
           more == [checkpointTallies EXCEPT ![c].completed = @ + 1]
<1>1. /\ fee \in Nat /\ fee \in 0..fee /\ nextInboundNonce \in Nat
      /\ Burns[h].from \in Accounts
  BY BurnsAssumption, ContractAssumption
     DEF BurnsAssumption, BurnType, TypeOK, ContractAssumption
<1>2. /\ req.wellFormed /\ req.from = Burns[h].from /\ req.bbNonce = Burns[h].bbNonce
      /\ req.escrowFee = fee /\ req.omToken = Burns[h].omToken
      /\ req.checkpointId = c /\ req.sourceHash = h
  BY DEF Request
<1>3. TryPruneCheckpoint(more, c) <=> PruneEffect(more, c)
  BY ContractAssumption, PruningDetermined
<1>4. BridgeToValidated(req) <=>
          /\ EnsureCheckpointNotCompleted(c)
          /\ tokensByOm[Burns[h].omToken] # NoBinding
          /\ ~ IsCheckpointComplete(checkpointTallies, c)
          /\ Burns[h].bbNonce = latestBbNonce[Burns[h].from]
          /\ Burns[h].bbNonce < MaxUint64
          /\ latestBbNonce' = [latestBbNonce EXCEPT
                 ![Burns[h].from] = Burns[h].bbNonce + 1]
  BY <1>2 DEF BridgeToValidated, EnforceSequentialNonce
<1>5. RecordProcessedBridge(h, c) <=>
          /\ processedBridges' = processedBridges \cup {h}
          /\ IF c > 0
             THEN /\ checkpointTallies[c].completed < MaxUint32
                  /\ checkpointIdsBySourceHash' =
                         [checkpointIdsBySourceHash EXCEPT ![h] = c]
                  /\ PruneEffect(more, c)
             ELSE UNCHANGED <<checkpointIdsBySourceHash, checkpointTallies,
                              earliestIncompletedCheckpoint>>
  BY <1>3 DEF RecordProcessedBridge
<1>6. IncreaseInboundNonce /\ (\E refund \in 0..fee :
             /\ DispatchBridge(req, refund)
             /\ log' = Append(log, Event(nextInboundNonce' - 1, refund)))
          <=> /\ nextInboundNonce # MaxUint64
              /\ nextInboundNonce' = nextInboundNonce + 1
              /\ tokensByOm[Burns[h].omToken].protocol = "Mock"
              /\ UNCHANGED balance
              /\ log' = Append(log, Event(nextInboundNonce, fee))
  <2>1. nextInboundNonce' = nextInboundNonce + 1
            => nextInboundNonce' - 1 = nextInboundNonce
    BY <1>1
  <2> HIDE DEF Event, req, fee
  <2>2. \A refund : DispatchBridge(req, refund) <=>
            /\ tokensByOm[Burns[h].omToken].protocol = "Mock"
            /\ refund = fee /\ UNCHANGED balance
    BY RelayedDispatch DEF req, fee
  <2> QED
    BY <1>1, <2>1, <2>2 DEF IncreaseInboundNonce
<1>7. BridgeTo(relayer, req) <=>
          /\ BridgeToValidated(req)
          /\ IncreaseInboundNonce /\ (\E refund \in 0..fee :
                 /\ DispatchBridge(req, refund)
                 /\ log' = Append(log, Event(nextInboundNonce' - 1, refund)))
          /\ RecordProcessedBridge(h, c)
          /\ UNCHANGED <<roleVars, tokenVars, limitVars, now>>
  BY <1>2 DEF BridgeTo
<1>8. BridgeEffect(h, c) <=>
          /\ latestBbNonce' = [latestBbNonce EXCEPT
                 ![Burns[h].from] = Burns[h].bbNonce + 1]
          /\ nextInboundNonce' = nextInboundNonce + 1
          /\ log' = Append(log, Event(nextInboundNonce, fee))
          /\ processedBridges' = processedBridges \cup {h}
          /\ IF c > 0
             THEN /\ checkpointIdsBySourceHash' =
                         [checkpointIdsBySourceHash EXCEPT ![h] = c]
                  /\ PruneEffect(more, c)
             ELSE UNCHANGED <<checkpointIdsBySourceHash, checkpointTallies,
                              earliestIncompletedCheckpoint>>
          /\ UNCHANGED <<roleVars, tokenVars, limitVars, now>> /\ UNCHANGED balance
  BY DEF BridgeEffect
<1>9. BurnAccepted(h, c, GetLatestProcessedNonce(Burns[h].from)) <=>
          /\ EnsureCheckpointNotCompleted(c)
          /\ ~ IsCheckpointComplete(checkpointTallies, c)
          /\ tokensByOm[Burns[h].omToken] # NoBinding
          /\ tokensByOm[Burns[h].omToken].protocol = "Mock"
          /\ Burns[h].bbNonce = latestBbNonce[Burns[h].from]
          /\ Burns[h].bbNonce < MaxUint64
          /\ nextInboundNonce # MaxUint64
          /\ c > 0 => checkpointTallies[c].completed < MaxUint32
  BY DEF BurnAccepted, GetLatestProcessedNonce
<1> HIDE DEF req, fee, Event, more
<1> QED
  BY <1>4, <1>5, <1>6, <1>7, <1>8, <1>9 DEF req

Effect(tx) ==
    IF tx.burn = NoBurn THEN CertifyEffect(tx.checkpoint)
    ELSE BridgeEffect(tx.burn, tx.checkpoint)

(* A transaction of the relayer takes effect exactly when the requires that    *)
(* its estimate looks at are passed, in any well-typed state, and what it     *)
(* then does is determined: no call that passes them can revert for another *)
(* reason or fail to come out of the pruning loop.                          *)
THEOREM EstimateDecidesCall ==
    ASSUME RelayTypeOK, NEW tx \in Transactions
    PROVE  Call(tx) <=> Succeeds(tx) /\ Effect(tx)
<1>1. TypeOK /\ tx.checkpoint \in Checkpoints /\ (tx.burn # NoBurn => tx.burn \in Hashes)
  BY DEF RelayTypeOK, Transactions
<1>2. CASE tx.burn = NoBurn
  BY <1>1, <1>2, CertifyDecided DEF Call, Succeeds, Effect
<1>3. CASE tx.burn # NoBurn
  BY <1>1, <1>3, BridgeDecided DEF Call, Succeeds, Effect
<1> QED
  BY <1>2, <1>3
=============================================================================
