--------------------------- MODULE OMInteropProofs ---------------------------
(***************************************************************************)
(* Proofs about the interop contract, for every value of its constants.     *)
(* One lemma per call says that the call keeps the state well typed; the    *)
(* lemmas are stated for one call with typed arguments, so that             *)
(* SettlementProofs can use them for the calls of the repository's relayer. *)
(***************************************************************************)
EXTENDS OMInterop, FiniteSetTheorems, TLAPS

(* The quotient of a division, by the bounds that define it.                 *)
LEMMA Quotient ==
    ASSUME NEW a \in Nat, NEW b \in Nat, b # 0
    PROVE  /\ a \div b \in Nat
           /\ b * (a \div b) <= a
           /\ a < b * ((a \div b) + 1)
OBVIOUS

LEMMA TimesMonotone ==
    ASSUME NEW b \in Nat, NEW p \in Nat, NEW q \in Nat, p <= q
    PROVE  b * p <= b * q
OBVIOUS

(* Epochs are natural numbers, no greater than the time.                     *)
LEMMA EpochBounds ==
    ASSUME NEW a \in Nat, NEW b \in Nat, b # 0
    PROVE  a \div b \in Nat /\ a \div b <= a
<1> DEFINE q == a \div b
<1>1. q \in Nat /\ b * q <= a
  BY Quotient
<1> HIDE DEF q
<1>2. q * 1 <= q * b
  BY <1>1, TimesMonotone
<1>3. q <= a
  BY <1>1, <1>2
<1> QED
  BY <1>1, <1>3 DEF q

(* As time passes the epoch does not go back.                                *)
LEMMA EpochAdvances ==
    ASSUME NEW a \in Nat, NEW b \in Nat, b # 0
    PROVE  a \div b <= (a + 1) \div b
<1> DEFINE q == a \div b
           p == (a + 1) \div b
<1>1. p \in Nat /\ b * p <= a + 1 /\ a + 1 < b * (p + 1)
  BY Quotient
<1>2. q \in Nat /\ b * q <= a /\ a < b * (q + 1)
  BY Quotient
<1> HIDE DEF p, q
<1>3. ASSUME p + 1 <= q
      PROVE  FALSE
  <2>1. b * (p + 1) <= b * q
    BY <1>1, <1>2, <1>3, TimesMonotone
  <2>2. b * (p + 1) \in Nat /\ b * q \in Nat
    BY <1>1, <1>2
  <2> QED
    BY <1>1, <1>2, <2>1, <2>2
<1>4. q <= p
  BY <1>1, <1>2, <1>3
<1> QED
  BY <1>4 DEF p, q

(* The types of the limits, of what they count, and of the time.             *)
LEMMA LimitTypes ==
    ASSUME ContractAssumption, TypeOK
    PROVE  /\ rateLimitsParam \in [OmTokens -> [limit : Nat, window : Nat]]
           /\ rateLimitsData \in [OmTokens -> [amountInFlight : Nat, lastEpoch : Nat]]
           /\ admitted \in [OmTokens -> [0..MaxTime -> Nat]]
           /\ MaxTime \in Nat /\ now \in Nat /\ now <= MaxTime
BY DEF TypeOK, ContractAssumption

(* Role changes keep the types.                                             *)
LEMMA OwnerCallsType ==
    ASSUME TypeOK, NEW sender \in Principals, OwnerCalls(sender)
    PROVE  TypeOK'
BY DEF TypeOK, OwnerCalls, SetOperator, SetRelayer, SetPriceOracle, tokenVars,
       limitVars, tallyVars, eventVars

(* Mapping tokens and setting limits keep the types.                        *)
LEMMA OperatorCallsType ==
    ASSUME ContractAssumption, TypeOK, NEW sender \in Principals,
           OperatorCalls(sender)
    PROVE  TypeOK'
<1>1. ASSUME NEW om \in OmTokens, NEW sc \in ScTokens, NEW protocol \in Protocols,
             MapTokenAddresses(sender, om, sc, protocol)
      PROVE  TypeOK'
  BY <1>1 DEF TypeOK, MapTokenAddresses, Bindings, roleVars, limitVars, tallyVars,
              eventVars
<1>2. ASSUME NEW token \in OmTokens, NEW limit \in Limits, NEW window \in Windows,
             SetRateLimit(sender, token, limit, window)
      PROVE  TypeOK'
  <2>1. limit \in Nat /\ window \in Nat
    BY DEF ContractAssumption
  <2>2. window # 0 => now \div window \in Nat
    BY <2>1, EpochBounds, LimitTypes
  <2>4. rateLimitsParam' \in [OmTokens -> [limit : Nat, window : Nat]]
    <3>1. NoLimit \in [limit : Nat, window : Nat]
      BY DEF NoLimit
    <3>2. [limit |-> limit, window |-> window] \in [limit : Nat, window : Nat]
      BY <2>1
    <3>3. \E p \in [limit : Nat, window : Nat] :
              rateLimitsParam' = [rateLimitsParam EXCEPT ![token] = p]
      BY <1>2, <3>1, <3>2 DEF SetRateLimit
    <3> QED
      BY <3>3 DEF TypeOK
  <2>5. rateLimitsData' \in [OmTokens -> [amountInFlight : Nat, lastEpoch : Nat]]
    <3>1. NoInflow \in [amountInFlight : Nat, lastEpoch : Nat]
      BY DEF NoInflow
    <3>2. window # 0 => [amountInFlight |-> 0, lastEpoch |-> now \div window]
                            \in [amountInFlight : Nat, lastEpoch : Nat]
      BY <2>2
    <3>3. \E d \in [amountInFlight : Nat, lastEpoch : Nat] :
              rateLimitsData' = [rateLimitsData EXCEPT ![token] = d]
      BY <1>2, <3>1, <3>2 DEF SetRateLimit
    <3> QED
      BY <3>3 DEF TypeOK
  <2>6. admitted' \in [OmTokens -> [0..MaxTime -> Nat]]
    BY <1>2 DEF TypeOK, SetRateLimit, NothingAdmitted
  <2> QED
    BY <1>2, <2>4, <2>5, <2>6
       DEF TypeOK, SetRateLimit, roleVars, tokenVars, tallyVars, eventVars
<1> QED
  BY <1>1, <1>2 DEF OperatorCalls

(* A deposit keeps the types.                                               *)
LEMMA BridgeFromType ==
    ASSUME ContractAssumption, TypeOK, NEW scToken \in ScTokens,
           NEW to \in Accounts, NEW amount \in Amounts,
           BridgeFrom(scToken, to, amount)
    PROVE  TypeOK'
<1> DEFINE omToken == tokensBySidechain[scToken].omToken
<1>1. omToken \in OmTokens /\ amount \in Nat
  BY DEF TypeOK, BridgeFrom, Bindings, ContractAssumption
<1>2. nextInboundNonce' \in 0..MaxUint64 /\ nextInboundNonce' - 1 \in Nat
  BY DEF TypeOK, BridgeFrom, IncreaseInboundNonce, ContractAssumption
<1>3. rateLimitsData' \in [OmTokens -> [amountInFlight : Nat, lastEpoch : Nat]]
  <2>1. CASE rateLimitsParam[omToken].window = 0
    BY <2>1 DEF TypeOK, BridgeFrom, CheckAndUpdateRateLimit
  <2>2. CASE rateLimitsParam[omToken].window # 0
    <3>1. rateLimitsParam[omToken].window \in Nat /\ now \in Nat
      BY <1>1 DEF TypeOK, ContractAssumption
    <3>2. now \div rateLimitsParam[omToken].window \in Nat
      BY <2>2, <3>1, EpochBounds
    <3>3. CurrentInflow(omToken) \in [amountInFlight : Nat, lastEpoch : Nat]
      BY <1>1, <3>2 DEF TypeOK, CurrentInflow
    <3>4. rateLimitsData' = [rateLimitsData EXCEPT ![omToken] =
              [CurrentInflow(omToken) EXCEPT !.amountInFlight = @ + amount]]
      BY <2>2 DEF BridgeFrom, CheckAndUpdateRateLimit
    <3> HIDE DEF omToken
    <3>5. [CurrentInflow(omToken) EXCEPT !.amountInFlight = @ + amount]
              \in [amountInFlight : Nat, lastEpoch : Nat]
      BY <1>1, <3>3
    <3> QED
      BY <1>1, <3>4, <3>5 DEF TypeOK
  <2> QED
    BY <2>1, <2>2
<1>4. log' \in Seq(Received \cup Sent)
  <2> DEFINE event == [kind |-> "OMInteropReceived",
                       nonce |-> nextInboundNonce' - 1, to |-> to,
                       amount |-> amount, omToken |-> omToken]
  <2>1. event \in Received
    BY <1>1, <1>2 DEF Received, TypeOK
  <2>2. log' = Append(log, event)
    BY DEF BridgeFrom
  <2> QED
    BY <2>1, <2>2 DEF TypeOK
<1>5. admitted' \in [OmTokens -> [0..MaxTime -> Nat]]
  <2> DEFINE window == rateLimitsParam[omToken].window
             epoch == now \div window
  <2>1. RecordAdmitted(omToken, amount) /\ window \in Nat
    BY <1>1 DEF TypeOK, BridgeFrom
  <2>2. CASE window = 0
    BY <2>1, <2>2 DEF TypeOK, RecordAdmitted
  <2>3. CASE window # 0
    <3>1. epoch \in 0..MaxTime
      <4>1. epoch \in Nat /\ epoch <= now
        BY <2>1, <2>3, EpochBounds, LimitTypes
      <4> HIDE DEF epoch
      <4> QED
        BY <4>1, LimitTypes
    <3>2. admitted' = [admitted EXCEPT ![omToken] =
              [admitted[omToken] EXCEPT ![epoch] = admitted[omToken][epoch] + amount]]
      BY <2>3, <1>1, <2>1 DEF RecordAdmitted, TypeOK
    <3>3. admitted \in [OmTokens -> [0..MaxTime -> Nat]]
      BY LimitTypes
    <3> HIDE DEF epoch, omToken
    <3>4. [admitted[omToken] EXCEPT ![epoch] = admitted[omToken][epoch] + amount]
              \in [0..MaxTime -> Nat]
      BY <1>1, <3>1, <3>3
    <3> QED
      BY <1>1, <3>2, <3>3, <3>4
  <2> QED
    BY <2>2, <2>3
<1> QED
  BY <1>2, <1>3, <1>4, <1>5 DEF TypeOK, BridgeFrom, roleVars, tokenVars, tallyVars

-----------------------------------------------------------------------------
(* The tallies.                                                             *)

TallyType == [Checkpoints -> [certified : Nat, completed : Nat]]

(* Pruning keeps tallies well typed and only moves the front forward.       *)
LEMMA PruneType ==
    ASSUME ContractAssumption, TypeOK, NEW tallies \in TallyType, NEW c,
           TryPruneCheckpoint(tallies, c)
    PROVE  /\ earliestIncompletedCheckpoint' \in 1..MaxCheckpoint + 1
           /\ earliestIncompletedCheckpoint' >= earliestIncompletedCheckpoint
           /\ checkpointTallies' \in TallyType
BY DEF TypeOK, TallyType, TryPruneCheckpoint, EmptyTally, ContractAssumption

(* The relayer's certification of a checkpoint keeps the types.             *)
LEMMA UpdateCheckpointInfoType ==
    ASSUME ContractAssumption, TypeOK, NEW sender, NEW c \in Checkpoints,
           NEW hashes \in SUBSET Hashes, UpdateCheckpointInfo(sender, c, hashes)
    PROVE  TypeOK'
<1> DEFINE new == {h \in hashes : checkpointIdsBySourceHash[h] = 0}
           tallies == [checkpointTallies EXCEPT ![c] =
                         [certified |-> @.certified + Cardinality(new),
                          completed |-> @.completed
                                        + Cardinality(new \cap processedBridges)]]
<1>1. Cardinality(new) \in Nat /\ Cardinality(new \cap processedBridges) \in Nat
  <2>1. new \subseteq Hashes /\ new \cap processedBridges \subseteq Hashes
    OBVIOUS
  <2> QED
    BY <2>1, FS_Subset, FS_CardinalityType DEF ContractAssumption
<1>2. tallies \in TallyType
  BY <1>1 DEF TypeOK, TallyType
<1>3. checkpointIdsBySourceHash' \in [Hashes -> Checkpoints]
  BY DEF TypeOK, UpdateCheckpointInfo
<1>4. TryPruneCheckpoint(tallies, c)
  BY DEF UpdateCheckpointInfo
<1> HIDE DEF tallies
<1>5. /\ earliestIncompletedCheckpoint' \in 1..MaxCheckpoint + 1
      /\ checkpointTallies' \in TallyType
  BY <1>2, <1>4, PruneType
<1> QED
  BY <1>3, <1>5 DEF TypeOK, TallyType, UpdateCheckpointInfo, roleVars, tokenVars,
                    limitVars, eventVars

(* A bridgeTo with a typed request keeps the types.                         *)
LEMMA BridgeToType ==
    ASSUME ContractAssumption, TypeOK, NEW sender, NEW req \in RequestType,
           BridgeTo(sender, req)
    PROVE  TypeOK'
<1> DEFINE c == req.checkpointId
           h == req.sourceHash
           tallies == [checkpointTallies EXCEPT ![c].completed = @ + 1]
<1>1. /\ c \in Checkpoints /\ h \in Hashes /\ req.from \in Accounts
      /\ req.bbNonce \in Nat /\ req.omToken \in OmTokens /\ req.escrowFee \in Nat
  BY DEF RequestType
<1>2. nextInboundNonce' \in 0..MaxUint64 /\ nextInboundNonce' - 1 \in Nat
  BY DEF TypeOK, BridgeTo, IncreaseInboundNonce, ContractAssumption
<1>3. latestBbNonce' \in [Accounts -> Nat]
  <2>1. latestBbNonce' = [latestBbNonce EXCEPT ![req.from] = req.bbNonce + 1]
    BY DEF BridgeTo, BridgeToValidated, EnforceSequentialNonce
  <2>2. latestBbNonce \in [Accounts -> Nat]
    BY DEF TypeOK
  <2>3. req.bbNonce + 1 \in Nat
    BY <1>1
  <2> QED
    BY <1>1, <2>1, <2>2, <2>3
<1>4. balance' \in Nat /\ log' \in Seq(Received \cup Sent)
  <2>1. PICK refund \in 0..req.escrowFee :
            /\ DispatchBridge(req, refund)
            /\ log' = Append(log, [kind |-> "OMInteropSent",
                                   nonce |-> nextInboundNonce' - 1,
                                   from |-> req.from, bbNonce |-> req.bbNonce,
                                   refundAmount |-> refund,
                                   omToken |-> req.omToken, sourceHash |-> h])
    BY DEF BridgeTo
  <2>2. balance' \in Nat
    <3>1. CASE UNCHANGED balance
      BY <3>1 DEF TypeOK
    <3>2. ASSUME NEW nativeFee \in NativeFees, nativeFee <= balance,
                 balance' = balance - nativeFee
          PROVE  balance' \in Nat
      BY <3>2, balance \in Nat, nativeFee \in Nat DEF TypeOK, ContractAssumption
    <3> QED
      BY <2>1, <3>1, <3>2 DEF DispatchBridge
  <2> refund \in Nat
    BY <1>1
  <2>3. [kind |-> "OMInteropSent", nonce |-> nextInboundNonce' - 1,
         from |-> req.from, bbNonce |-> req.bbNonce, refundAmount |-> refund,
         omToken |-> req.omToken, sourceHash |-> h] \in Sent
    BY <1>1, <1>2 DEF Sent
  <2> QED
    BY <2>1, <2>2, <2>3 DEF TypeOK
<1>5. processedBridges' \subseteq Hashes
  BY <1>1 DEF TypeOK, BridgeTo, RecordProcessedBridge
<1>6. /\ checkpointIdsBySourceHash' \in [Hashes -> Checkpoints]
      /\ earliestIncompletedCheckpoint' \in 1..MaxCheckpoint + 1
      /\ checkpointTallies' \in [Checkpoints -> [certified : Nat, completed : Nat]]
  <2>1. CASE c > 0
    <3>1. tallies \in TallyType
      <4>1. checkpointTallies \in TallyType
        BY DEF TypeOK, TallyType
      <4>2. [checkpointTallies[c] EXCEPT !.completed = @ + 1]
                \in [certified : Nat, completed : Nat]
        BY <1>1, <4>1 DEF TallyType
      <4> QED
        BY <1>1, <4>1, <4>2 DEF TallyType
    <3>2. TryPruneCheckpoint(tallies, c)
      BY <2>1 DEF BridgeTo, RecordProcessedBridge
    <3>3. checkpointIdsBySourceHash' = [checkpointIdsBySourceHash EXCEPT ![h] = c]
      BY <2>1 DEF BridgeTo, RecordProcessedBridge
    <3> HIDE DEF tallies, c, h
    <3> QED
      BY <1>1, <3>1, <3>2, <3>3, PruneType DEF TypeOK, TallyType
  <2>2. CASE ~ c > 0
    BY <2>2 DEF TypeOK, BridgeTo, RecordProcessedBridge
  <2> QED
    BY <2>1, <2>2
<1> QED
  BY <1>2, <1>3, <1>4, <1>5, <1>6
     DEF TypeOK, BridgeTo, roleVars, tokenVars, limitVars

(* Incoming native coins, the passing of time and stuttering keep the types. *)
LEMMA EnvironmentType ==
    ASSUME TypeOK, Receive \/ Tick \/ UNCHANGED vars
    PROVE  TypeOK'
BY ContractAssumption
   DEF ContractAssumption, TypeOK, Receive, Tick, vars, roleVars, tokenVars, limitVars, tallyVars,
       eventVars

(* The initial state is well typed.                                         *)
LEMMA InitType ==
    ASSUME ContractAssumption, Init
    PROVE  TypeOK
BY DEF ContractAssumption, Init, TypeOK, NoLimit, NoInflow, EmptyTally, Checkpoints,
       NothingAdmitted

-----------------------------------------------------------------------------
(* Type correctness: no call, by any caller with any argument, takes the     *)
(* contract's storage out of its types; the counters stay within uint64 and *)
(* the front within the known checkpoints.                                  *)
THEOREM TypeCorrect == Spec => []TypeOK
<1>1. Init => TypeOK
  BY ContractAssumption, InitType
<1>2. TypeOK /\ [Next]_vars => TypeOK'
  <2> SUFFICES ASSUME TypeOK, [Next]_vars
               PROVE  TypeOK'
    OBVIOUS
  <2>1. ASSUME NEW sender \in Principals, OwnerCalls(sender)
        PROVE  TypeOK'
    BY <2>1, OwnerCallsType
  <2>2. ASSUME NEW sender \in Principals, OperatorCalls(sender)
        PROVE  TypeOK'
    BY <2>2, ContractAssumption, OperatorCallsType
  <2>3. ASSUME NEW sender \in Principals, NEW req \in Requests,
               BridgeTo(sender, req)
        PROVE  TypeOK'
    BY <2>3, ContractAssumption, BridgeToType DEF ContractAssumption
  <2>4. ASSUME NEW sender \in Principals, NEW c \in Checkpoints,
               NEW hashes \in HashLists, UpdateCheckpointInfo(sender, c, hashes)
        PROVE  TypeOK'
    BY <2>4, ContractAssumption, UpdateCheckpointInfoType DEF ContractAssumption
  <2>5. CASE Deposits
    BY <2>5, ContractAssumption, BridgeFromType DEF Deposits
  <2>6. CASE Receive \/ Tick \/ UNCHANGED vars
    BY <2>6, EnvironmentType
  <2> QED
    BY <2>1, <2>2, <2>3, <2>4, <2>5, <2>6 DEF Next, RelayerCalls
<1> QED
  BY <1>1, <1>2, PTL DEF Spec

-----------------------------------------------------------------------------
(* Closing checkpoints.                                                     *)

(* A call that changes the tally of one open checkpoint c and then prunes    *)
(* leaves no complete checkpoint at the front and reopens no closed one.    *)
LEMMA PruneCloses ==
    ASSUME ContractAssumption, TypeOK, NEW c \in Checkpoints, ~ Closed(c),
           NEW tallies \in TallyType,
           \A d \in Checkpoints \ {c} : tallies[d] = checkpointTallies[d],
           TryPruneCheckpoint(tallies, c)
    PROVE  /\ FrontIsIncomplete => FrontIsIncomplete'
           /\ \A d \in Checkpoints : Closed(d) => Closed(d)'
<1> DEFINE front == earliestIncompletedCheckpoint
<1>1. PICK next \in front..MaxCheckpoint + 1 :
          /\ IF IsCheckpointComplete(tallies, c)
             THEN ~ IsCheckpointComplete(tallies, next)
             ELSE next = front
          /\ front' = next
          /\ checkpointTallies' = [d \in Checkpoints |->
                 IF d \in front..next - 1 THEN EmptyTally ELSE tallies[d]]
  BY DEF TryPruneCheckpoint
<1>2. front \in 1..MaxCheckpoint + 1 /\ MaxCheckpoint \in Nat /\ next \in Nat
  BY DEF TypeOK, ContractAssumption
<1>3. FrontIsIncomplete => FrontIsIncomplete'
  <2> SUFFICES ASSUME FrontIsIncomplete
               PROVE  FrontIsIncomplete'
    OBVIOUS
  <2>1. ~ IsCheckpointComplete(tallies, next)
    <3>1. CASE IsCheckpointComplete(tallies, c)
      BY <1>1, <3>1
    <3>2. CASE ~ IsCheckpointComplete(tallies, c)
      BY <1>1, <3>2 DEF FrontIsIncomplete, IsCheckpointComplete
    <3> QED
      BY <3>1, <3>2
  <2>2. next \in Checkpoints => checkpointTallies'[next] = tallies[next]
    BY <1>1, <1>2
  <2> QED
    BY <1>1, <2>1, <2>2 DEF FrontIsIncomplete, IsCheckpointComplete
<1>4. ASSUME NEW d \in Checkpoints, Closed(d)
      PROVE  Closed(d)'
  <2>1. d # c /\ tallies[d] = checkpointTallies[d]
    BY <1>4
  <2>2. CASE d # 0 /\ d < next
    BY <1>1, <2>2 DEF Closed
  <2>3. CASE ~ (d # 0 /\ d < next)
    <3>1. ~ (d # 0 /\ d < front)
      BY <1>2, <2>3 DEF Checkpoints
    <3>2. checkpointTallies'[d] = tallies[d]
      BY <1>1, <1>2, <2>3 DEF Checkpoints
    <3> QED
      BY <1>4, <2>1, <3>1, <3>2 DEF Closed, IsCheckpointComplete
  <2> QED
    BY <2>2, <2>3
<1> QED
  BY <1>3, <1>4

(* A certification closes without reopening.                                *)
LEMMA UpdateCheckpointInfoCloses ==
    ASSUME ContractAssumption, TypeOK, NEW sender, NEW c \in Checkpoints,
           NEW hashes \in SUBSET Hashes, UpdateCheckpointInfo(sender, c, hashes)
    PROVE  ClosedStep /\ (FrontIsIncomplete => FrontIsIncomplete')
<1> DEFINE new == {h \in hashes : checkpointIdsBySourceHash[h] = 0}
           certified == checkpointTallies[c].certified + Cardinality(new)
           completed == checkpointTallies[c].completed
                            + Cardinality(new \cap processedBridges)
           tallies == [checkpointTallies EXCEPT ![c] =
                         [certified |-> certified, completed |-> completed]]
<1>1. certified \in Nat /\ completed \in Nat
  <2>1. new \subseteq Hashes /\ new \cap processedBridges \subseteq Hashes
    OBVIOUS
  <2>2. Cardinality(new) \in Nat /\ Cardinality(new \cap processedBridges) \in Nat
    BY <2>1, FS_Subset, FS_CardinalityType DEF ContractAssumption
  <2> QED
    BY <2>2 DEF TypeOK
<1>2. TryPruneCheckpoint(tallies, c)
  BY DEF UpdateCheckpointInfo
<1>3. \A h \in Hashes : checkpointIdsBySourceHash'[h]
                           \in {c, checkpointIdsBySourceHash[h]}
  BY DEF UpdateCheckpointInfo
<1> HIDE DEF certified, completed
<1>4. tallies \in TallyType
  BY <1>1 DEF TypeOK, TallyType
<1>5. \A d \in Checkpoints \ {c} : tallies[d] = checkpointTallies[d]
  BY DEF TypeOK
<1>6. ~ Closed(c)
  BY DEF UpdateCheckpointInfo, EnsureCheckpointNotCompleted, Closed, TypeOK,
         Checkpoints, ContractAssumption
<1> HIDE DEF tallies
<1> QED
  BY <1>2, <1>3, <1>4, <1>5, <1>6, PruneCloses DEF ClosedStep

(* A payout closes without reopening.                                       *)
LEMMA BridgeToCloses ==
    ASSUME ContractAssumption, TypeOK, NEW sender, NEW req \in RequestType,
           BridgeTo(sender, req)
    PROVE  ClosedStep /\ (FrontIsIncomplete => FrontIsIncomplete')
<1> DEFINE c == req.checkpointId
           tallies == [checkpointTallies EXCEPT ![c].completed = @ + 1]
<1>1. c \in Checkpoints /\ req.sourceHash \in Hashes
  BY DEF RequestType
<1>2. CASE c > 0
  <2>1. tallies \in TallyType
    <3>1. checkpointTallies \in TallyType
      BY DEF TypeOK, TallyType
    <3>2. [checkpointTallies[c] EXCEPT !.completed = @ + 1]
              \in [certified : Nat, completed : Nat]
      BY <1>1, <3>1 DEF TallyType
    <3> QED
      BY <1>1, <3>1, <3>2 DEF TallyType
  <2>2. TryPruneCheckpoint(tallies, c)
    BY <1>2 DEF BridgeTo, RecordProcessedBridge
  <2>3. \A h \in Hashes : checkpointIdsBySourceHash'[h]
                             \in {c, checkpointIdsBySourceHash[h]}
    BY <1>2 DEF BridgeTo, RecordProcessedBridge, TypeOK
  <2>4. ~ Closed(c)
    BY <1>1 DEF BridgeTo, BridgeToValidated, EnsureCheckpointNotCompleted, Closed,
                TypeOK, Checkpoints, ContractAssumption
  <2>5. \A d \in Checkpoints \ {c} : tallies[d] = checkpointTallies[d]
    BY DEF TypeOK
  <2> HIDE DEF tallies, c
  <2> QED
    BY <1>1, <2>1, <2>2, <2>3, <2>4, <2>5, PruneCloses DEF ClosedStep
<1>3. CASE ~ c > 0
  BY <1>3 DEF BridgeTo, RecordProcessedBridge, ClosedStep, Closed,
              FrontIsIncomplete, IsCheckpointComplete
<1> QED
  BY <1>2, <1>3

(* Every other call leaves the tallies alone.                               *)
LEMMA OtherCallsClose ==
    ASSUME UNCHANGED tallyVars
    PROVE  ClosedStep /\ (FrontIsIncomplete => FrontIsIncomplete')
BY DEF tallyVars, ClosedStep, Closed, FrontIsIncomplete, IsCheckpointComplete

(* The calls that leave the tallies alone.                                  *)
LEMMA OtherCallsFrame ==
    ASSUME NEW sender,
           OwnerCalls(sender) \/ OperatorCalls(sender) \/ Deposits
               \/ Receive \/ Tick \/ UNCHANGED vars
    PROVE  UNCHANGED tallyVars
BY DEF OwnerCalls, SetOperator, SetRelayer, SetPriceOracle, OperatorCalls,
       MapTokenAddresses, SetRateLimit, Deposits, BridgeFrom, Receive, Tick,
       tallyVars, vars

(* Every step of the contract closes without reopening.                     *)
LEMMA NextCloses ==
    ASSUME TypeOK, [Next]_vars
    PROVE  ClosedStep /\ (FrontIsIncomplete => FrontIsIncomplete')
<1>1. ASSUME NEW sender \in Principals, NEW req \in Requests, BridgeTo(sender, req)
      PROVE  ClosedStep /\ (FrontIsIncomplete => FrontIsIncomplete')
  BY <1>1, ContractAssumption, BridgeToCloses DEF ContractAssumption
<1>2. ASSUME NEW sender \in Principals, NEW c \in Checkpoints,
             NEW hashes \in HashLists, UpdateCheckpointInfo(sender, c, hashes)
      PROVE  ClosedStep /\ (FrontIsIncomplete => FrontIsIncomplete')
  BY <1>2, ContractAssumption, UpdateCheckpointInfoCloses DEF ContractAssumption
<1> QED
  BY <1>1, <1>2, OtherCallsClose, OtherCallsFrame DEF Next, RelayerCalls

(* No call returns with a complete checkpoint left at the front.             *)
THEOREM FrontAlwaysIncomplete == Spec => []FrontIsIncomplete
<1>1. Init => FrontIsIncomplete
  BY ContractAssumption DEF Init, FrontIsIncomplete, IsCheckpointComplete,
     EmptyTally, ContractAssumption
<1>2. TypeOK /\ FrontIsIncomplete /\ [Next]_vars => FrontIsIncomplete'
  BY NextCloses
<1> QED
  BY <1>1, <1>2, TypeCorrect, PTL DEF Spec

(* A complete or pruned checkpoint stays so and takes no further burn,       *)
(* whatever the relayer calls and in whatever order.                        *)
THEOREM ClosedForever == Spec => ClosedStaysClosed
<1>1. TypeOK /\ [Next]_vars => [ClosedStep]_vars
  BY NextCloses
<1> QED
  BY <1>1, TypeCorrect, PTL DEF Spec, ClosedStaysClosed

-----------------------------------------------------------------------------
(* The event log.                                                           *)

(* A deposit appends one event, numbered by the counter, and no payout.      *)
LEMMA BridgeFromLogs ==
    ASSUME TypeOK, NEW scToken, NEW to, NEW amount, BridgeFrom(scToken, to, amount)
    PROVE  \E event : /\ log' = Append(log, event) /\ event.nonce = nextInboundNonce
                     /\ ~ IsSent(event)
                     /\ nextInboundNonce' = nextInboundNonce + 1
                     /\ UNCHANGED latestBbNonce
<1> DEFINE event == [kind |-> "OMInteropReceived",
                     nonce |-> nextInboundNonce' - 1, to |-> to,
                     amount |-> amount, omToken |-> tokensBySidechain[scToken].omToken]
<1>1. /\ log' = Append(log, event)
      /\ nextInboundNonce' = nextInboundNonce + 1
      /\ UNCHANGED latestBbNonce
  BY DEF BridgeFrom, IncreaseInboundNonce, tallyVars
<1>2. event.nonce = nextInboundNonce /\ ~ IsSent(event)
  BY <1>1 DEF IsSent, TypeOK
<1> QED
  BY <1>1, <1>2

(* A payout appends one event that carries the bbNonce the account was at.   *)
LEMMA BridgeToLogs ==
    ASSUME TypeOK, NEW sender, NEW req \in RequestType, BridgeTo(sender, req)
    PROVE  \E event : /\ log' = Append(log, event) /\ event.nonce = nextInboundNonce
                     /\ IsSent(event) /\ event.from = req.from
                     /\ event.bbNonce = latestBbNonce[req.from]
                     /\ nextInboundNonce' = nextInboundNonce + 1
                     /\ latestBbNonce' = [latestBbNonce EXCEPT
                             ![req.from] = latestBbNonce[req.from] + 1]
<1>1. PICK refund \in 0..req.escrowFee :
          log' = Append(log, [kind |-> "OMInteropSent",
                              nonce |-> nextInboundNonce' - 1,
                              from |-> req.from, bbNonce |-> req.bbNonce,
                              refundAmount |-> refund,
                              omToken |-> req.omToken,
                              sourceHash |-> req.sourceHash])
  BY DEF BridgeTo
<1> DEFINE event == [kind |-> "OMInteropSent", nonce |-> nextInboundNonce' - 1,
                     from |-> req.from, bbNonce |-> req.bbNonce,
                     refundAmount |-> refund, omToken |-> req.omToken,
                     sourceHash |-> req.sourceHash]
<1>2. /\ nextInboundNonce' = nextInboundNonce + 1
      /\ req.bbNonce = latestBbNonce[req.from]
      /\ latestBbNonce' = [latestBbNonce EXCEPT
             ![req.from] = latestBbNonce[req.from] + 1]
  BY DEF BridgeTo, IncreaseInboundNonce, BridgeToValidated, EnforceSequentialNonce
<1>3. /\ event.nonce = nextInboundNonce /\ IsSent(event) /\ event.from = req.from
      /\ event.bbNonce = latestBbNonce[req.from]
  BY <1>2 DEF IsSent, TypeOK
<1> QED
  BY <1>1, <1>2, <1>3

(* Appending an event with the next number keeps the numbers gapless.        *)
LEMMA AppendGapless ==
    ASSUME TypeOK, EventNoncesGapless, NEW event, log' = Append(log, event),
           event.nonce = nextInboundNonce,
           nextInboundNonce' = nextInboundNonce + 1
    PROVE  EventNoncesGapless'
<1>1. /\ Len(log') = Len(log) + 1
      /\ \A i \in 1..Len(log) : log'[i] = log[i]
      /\ log'[Len(log) + 1] = event
  BY DEF TypeOK
<1> QED
  BY <1>1 DEF TypeOK, EventNoncesGapless

(* An event that is no payout leaves the order of the payouts alone.         *)
LEMMA AppendReceived ==
    ASSUME TypeOK, BridgedInNonceOrder, NEW event, log' = Append(log, event),
           ~ IsSent(event), UNCHANGED latestBbNonce
    PROVE  BridgedInNonceOrder'
<1>1. /\ Len(log) \in Nat /\ Len(log') = Len(log) + 1
      /\ \A i \in 1..Len(log) : log'[i] = log[i]
      /\ log'[Len(log) + 1] = event
  BY DEF TypeOK
<1> QED
  BY <1>1 DEF BridgedInNonceOrder

(* A payout at the account's next bbNonce keeps the payouts in order.        *)
LEMMA AppendSent ==
    ASSUME TypeOK, BridgedInNonceOrder, NEW event, log' = Append(log, event),
           NEW account \in Accounts, IsSent(event), event.from = account,
           event.bbNonce = latestBbNonce[account],
           latestBbNonce' = [latestBbNonce EXCEPT
                                 ![account] = latestBbNonce[account] + 1]
    PROVE  BridgedInNonceOrder'
<1>1. /\ Len(log) \in Nat /\ Len(log') = Len(log) + 1
      /\ \A i \in 1..Len(log) : log'[i] = log[i]
      /\ log'[Len(log) + 1] = event
  BY DEF TypeOK
<1>2. latestBbNonce \in [Accounts -> Nat]
  BY DEF TypeOK
<1>3. \A i \in 1..Len(log) : IsSent(log[i]) => log[i].from \in Accounts
                                               /\ log[i].bbNonce \in Nat
  <2>1. \A i \in 1..Len(log) : log[i] \in Received \cup Sent
    BY DEF TypeOK
  <2>2. \A entry \in Received \cup Sent :
            IsSent(entry) => entry.from \in Accounts /\ entry.bbNonce \in Nat
    BY DEF Received, Sent, IsSent
  <2> QED
    BY <2>1, <2>2
<1>4. \A a \in Accounts : \A n \in 0..latestBbNonce'[a] - 1 :
          \E i \in 1..Len(log') :
              IsSent(log'[i]) /\ log'[i].from = a /\ log'[i].bbNonce = n
  <2> SUFFICES ASSUME NEW a \in Accounts, NEW n \in 0..latestBbNonce'[a] - 1
               PROVE  \E i \in 1..Len(log') :
                          IsSent(log'[i]) /\ log'[i].from = a /\ log'[i].bbNonce = n
    OBVIOUS
  <2>1. CASE a = account /\ n = latestBbNonce[account]
    BY <1>1, <2>1
  <2>2. CASE ~ (a = account /\ n = latestBbNonce[account])
    <3>1. n \in 0..latestBbNonce[a] - 1
      BY <1>2, <2>2
    <3>2. PICK i \in 1..Len(log) :
              IsSent(log[i]) /\ log[i].from = a /\ log[i].bbNonce = n
      BY <3>1 DEF BridgedInNonceOrder
    <3> QED
      BY <1>1, <3>2
  <2> QED
    BY <2>1, <2>2
<1>5. \A i \in 1..Len(log') :
          IsSent(log'[i]) => log'[i].bbNonce < latestBbNonce'[log'[i].from]
  BY <1>1, <1>2, <1>3 DEF BridgedInNonceOrder
<1>6. \A i, j \in 1..Len(log') :
          (i < j /\ IsSent(log'[i]) /\ IsSent(log'[j]) /\ log'[i].from = log'[j].from)
              => log'[i].bbNonce < log'[j].bbNonce
  BY <1>1, <1>2, <1>3 DEF BridgedInNonceOrder
<1> QED
  BY <1>4, <1>5, <1>6 DEF BridgedInNonceOrder

(* Every step keeps the numbering and the order of the events.               *)
LEMMA NextLogs ==
    ASSUME TypeOK, [Next]_vars, EventNoncesGapless, BridgedInNonceOrder
    PROVE  EventNoncesGapless' /\ BridgedInNonceOrder'
<1>1. ASSUME NEW sender \in Principals, NEW req \in Requests, BridgeTo(sender, req)
      PROVE  EventNoncesGapless' /\ BridgedInNonceOrder'
  <2>1. req \in RequestType /\ req.from \in Accounts
    BY ContractAssumption DEF ContractAssumption, RequestType
  <2> QED
    BY <1>1, <2>1, BridgeToLogs, AppendGapless, AppendSent
<1>2. CASE Deposits
  BY <1>2, BridgeFromLogs, AppendGapless, AppendReceived DEF Deposits
<1>3. ASSUME UNCHANGED <<log, latestBbNonce, nextInboundNonce>>
      PROVE  EventNoncesGapless' /\ BridgedInNonceOrder'
  BY <1>3 DEF EventNoncesGapless, BridgedInNonceOrder
<1>4. ASSUME NEW sender \in Principals,
             \/ OwnerCalls(sender) \/ OperatorCalls(sender)
             \/ \E c \in Checkpoints, hashes \in HashLists :
                    UpdateCheckpointInfo(sender, c, hashes)
      PROVE  UNCHANGED <<log, latestBbNonce, nextInboundNonce>>
  BY <1>4 DEF OwnerCalls, SetOperator, SetRelayer, SetPriceOracle, OperatorCalls,
     MapTokenAddresses, SetRateLimit, UpdateCheckpointInfo, tallyVars, eventVars
<1>5. Receive \/ Tick \/ UNCHANGED vars
          => UNCHANGED <<log, latestBbNonce, nextInboundNonce>>
  BY DEF Receive, Tick, vars, tallyVars, eventVars
<1> QED
  BY <1>1, <1>2, <1>3, <1>4, <1>5 DEF Next, RelayerCalls

(* The events carry consecutive numbers, and the burns of an account are     *)
(* paid out once each in bbNonce order, whatever the relayer submits.       *)
THEOREM EventsInOrder == Spec => [](EventNoncesGapless /\ BridgedInNonceOrder)
<1>1. Init => EventNoncesGapless /\ BridgedInNonceOrder
  BY DEF Init, EventNoncesGapless, BridgedInNonceOrder
<1>2. TypeOK /\ EventNoncesGapless /\ BridgedInNonceOrder /\ [Next]_vars
          => EventNoncesGapless' /\ BridgedInNonceOrder'
  BY NextLogs
<1> QED
  BY <1>1, <1>2, TypeCorrect, PTL DEF Spec

(* recordInboundNonce and bridgeFrom share one counter: the relayer, which    *)
(* answers event n with transaction n, meets every number exactly once.     *)
THEOREM EventsNumbered == Spec => []EventNoncesGapless
BY EventsInOrder, PTL

(* bridgeTo pays the burns of an account in bbNonce order, none twice.       *)
THEOREM BurnsInNonceOrder == Spec => []BridgedInNonceOrder
BY EventsInOrder, PTL

-----------------------------------------------------------------------------
(* Rate limits.                                                             *)

(* The stored counter is what the epoch of the data has admitted; nothing    *)
(* was admitted in a later epoch, and that epoch has begun.                 *)
InflowInv ==
    \A token \in OmTokens :
        LET window == rateLimitsParam[token].window
            epoch  == rateLimitsData[token].lastEpoch
        IN  window # 0 =>
                /\ epoch \in 0..MaxTime /\ epoch <= now \div window
                /\ rateLimitsData[token].amountInFlight = admitted[token][epoch]
                /\ \A later \in epoch + 1..MaxTime : admitted[token][later] = 0

(* A new limit starts with nothing admitted.                                 *)
LEMMA SetRateLimitInflow ==
    ASSUME TypeOK, TypeOK', InflowInv, InflowWithinLimit, NEW sender,
           NEW token \in OmTokens, NEW limit \in Nat, NEW window \in Nat,
           SetRateLimit(sender, token, limit, window)
    PROVE  InflowInv' /\ InflowWithinLimit'
<1>1. /\ now' = now /\ now \in Nat
      /\ admitted' = [admitted EXCEPT ![token] = NothingAdmitted]
      /\ \A e \in 0..MaxTime : admitted'[token][e] = 0
      /\ \A t \in OmTokens \ {token} :
             /\ admitted'[t] = admitted[t]
             /\ rateLimitsParam'[t] = rateLimitsParam[t]
             /\ rateLimitsData'[t] = rateLimitsData[t]
  <2>1. /\ UNCHANGED now
        /\ admitted' = [admitted EXCEPT ![token] = NothingAdmitted]
        /\ \E p : rateLimitsParam' = [rateLimitsParam EXCEPT ![token] = p]
        /\ \E d : rateLimitsData' = [rateLimitsData EXCEPT ![token] = d]
    BY DEF SetRateLimit
  <2> QED
    BY <2>1, LimitTypes, ContractAssumption DEF NothingAdmitted
<1>2. CASE window = 0
  <2>1. rateLimitsParam'[token].window = 0
    BY <1>2 DEF SetRateLimit, TypeOK, NoLimit
  <2> QED
    BY <1>1, <2>1 DEF InflowInv, InflowWithinLimit
<1>3. CASE window # 0
  <2>1. /\ rateLimitsParam'[token] = [limit |-> limit, window |-> window]
        /\ rateLimitsData'[token] = [amountInFlight |-> 0, lastEpoch |-> now \div window]
    BY <1>3 DEF SetRateLimit, TypeOK
  <2>2. now \div window \in 0..MaxTime
    <3>1. now \div window \in Nat /\ now \div window <= now
      BY <1>1, <1>3, EpochBounds
    <3> QED
      BY <3>1, LimitTypes, ContractAssumption
  <2>3. PICK epoch : epoch = now \div window
    OBVIOUS
  <2> QED
    BY <1>1, <2>1, <2>2, <2>3 DEF InflowInv, InflowWithinLimit
<1> QED
  BY <1>2, <1>3

(* A deposit is counted in the epoch of the block time, to which the data     *)
(* move first.                                                              *)
LEMMA BridgeFromInflow ==
    ASSUME TypeOK, TypeOK', InflowInv, InflowWithinLimit, NEW scToken \in ScTokens,
           NEW to \in Accounts, NEW amount \in Amounts, BridgeFrom(scToken, to, amount)
    PROVE  InflowInv' /\ InflowWithinLimit'
<1>1. PICK token \in OmTokens : token = tokensBySidechain[scToken].omToken
  BY DEF TypeOK, BridgeFrom, Bindings
<1>2. /\ CheckAndUpdateRateLimit(token, amount) /\ RecordAdmitted(token, amount)
      /\ UNCHANGED <<now, rateLimitsParam>> /\ amount \in Nat /\ now \in Nat
      /\ MaxTime \in Nat /\ now \in 0..MaxTime
  BY <1>1, ContractAssumption DEF BridgeFrom, ContractAssumption, TypeOK
<1>3. CASE rateLimitsParam[token].window = 0
  BY <1>2, <1>3 DEF CheckAndUpdateRateLimit, RecordAdmitted, InflowInv, InflowWithinLimit
<1>4. CASE rateLimitsParam[token].window # 0
  <2>1. PICK window \in Nat : window = rateLimitsParam[token].window
    BY DEF TypeOK
  <2>2. PICK epoch : epoch = now \div window
    OBVIOUS
  <2>3. PICK limit \in Nat : limit = rateLimitsParam[token].limit
    BY DEF TypeOK
  <2>4. PICK last \in Nat : last = rateLimitsData[token].lastEpoch
    BY DEF TypeOK
  <2>5. PICK flight \in Nat : flight = rateLimitsData[token].amountInFlight
    BY DEF TypeOK
  <2>6. epoch \in 0..MaxTime
    BY <1>2, <1>4, <2>1, <2>2, EpochBounds
  <2>7. /\ last \in 0..MaxTime /\ last <= epoch /\ flight = admitted[token][last]
        /\ \A later \in last + 1..MaxTime : admitted[token][later] = 0
        /\ \A e \in 0..MaxTime : admitted[token][e] <= limit
    BY <1>4, <2>1, <2>2, <2>3, <2>4, <2>5 DEF InflowInv, InflowWithinLimit
  <2>8. PICK before \in Nat : before = IF epoch > last THEN 0 ELSE flight
    OBVIOUS
  <2>9. before = admitted[token][epoch]
    BY <2>6, <2>7, <2>8
  <2>10. CurrentInflow(token) = [amountInFlight |-> before, lastEpoch |-> epoch]
    <3>1. rateLimitsData[token] = [amountInFlight |-> flight, lastEpoch |-> last]
      BY <2>4, <2>5 DEF TypeOK
    <3> QED
      BY <2>1, <2>2, <2>6, <2>7, <2>8, <3>1 DEF CurrentInflow
  <2>11. /\ before + amount <= limit
         /\ rateLimitsData' = [rateLimitsData EXCEPT ![token] =
                [amountInFlight |-> before + amount, lastEpoch |-> epoch]]
    BY <1>2, <1>4, <2>3, <2>10 DEF CheckAndUpdateRateLimit
  <2>12. admitted' = [admitted EXCEPT ![token] =
             [admitted[token] EXCEPT ![epoch] = before + amount]]
    BY <1>2, <1>4, <2>1, <2>2, <2>9 DEF RecordAdmitted, TypeOK
  <2>13. /\ rateLimitsData'[token].amountInFlight = before + amount
         /\ rateLimitsData'[token].lastEpoch = epoch
         /\ admitted'[token][epoch] = before + amount
         /\ \A e \in 0..MaxTime : e # epoch => admitted'[token][e] = admitted[token][e]
         /\ \A t \in OmTokens \ {token} : /\ admitted'[t] = admitted[t]
                                          /\ rateLimitsData'[t] = rateLimitsData[t]
    BY <2>6, <2>11, <2>12 DEF TypeOK
  <2>14. /\ \A later \in epoch + 1..MaxTime : admitted'[token][later] = 0
         /\ \A e \in 0..MaxTime : admitted'[token][e] <= limit
    BY <1>2, <2>6, <2>7, <2>11, <2>13
  <2>15. InflowInv'
    <3> SUFFICES ASSUME NEW t \in OmTokens, rateLimitsParam[t].window # 0
                 PROVE  /\ rateLimitsData'[t].lastEpoch \in 0..MaxTime
                        /\ rateLimitsData'[t].lastEpoch
                               <= now \div rateLimitsParam[t].window
                        /\ rateLimitsData'[t].amountInFlight
                               = admitted'[t][rateLimitsData'[t].lastEpoch]
                        /\ \A later \in rateLimitsData'[t].lastEpoch + 1..MaxTime :
                               admitted'[t][later] = 0
      BY <1>2 DEF InflowInv
    <3>1. CASE t = token
      BY <2>1, <2>2, <2>6, <2>13, <2>14, <3>1
    <3>2. CASE t # token
      BY <2>13, <3>2 DEF InflowInv
    <3> QED
      BY <3>1, <3>2
  <2>16. InflowWithinLimit'
    BY <1>2, <2>3, <2>13, <2>14 DEF InflowWithinLimit
  <2> QED
    BY <2>15, <2>16
<1> QED
  BY <1>3, <1>4

(* Time only moves the epochs forward.                                       *)
LEMMA TickInflow ==
    ASSUME TypeOK, InflowInv, InflowWithinLimit, Tick
    PROVE  InflowInv' /\ InflowWithinLimit'
<1>1. now' = now + 1 /\ now \in Nat /\ UNCHANGED limitVars
  BY ContractAssumption DEF Tick, TypeOK, ContractAssumption
<1>2. ASSUME NEW token \in OmTokens, rateLimitsParam[token].window # 0
      PROVE  now \div rateLimitsParam[token].window
                 <= now' \div rateLimitsParam[token].window
  <2>1. PICK window \in Nat : window = rateLimitsParam[token].window
    BY DEF TypeOK
  <2> QED
    BY <1>1, <1>2, <2>1, EpochAdvances
<1>3. ASSUME NEW token \in OmTokens, rateLimitsParam[token].window # 0
      PROVE  rateLimitsData[token].lastEpoch <= now' \div rateLimitsParam[token].window
  <2>1. PICK window \in Nat : window = rateLimitsParam[token].window
    BY DEF TypeOK
  <2>2. now \div window \in Nat /\ (now + 1) \div window \in Nat
    BY <1>1, <1>3, <2>1, EpochBounds
  <2>3. rateLimitsData[token].lastEpoch \in Nat
        /\ rateLimitsData[token].lastEpoch <= now \div window
    BY <1>3, <2>1 DEF InflowInv, TypeOK
  <2> QED
    BY <1>1, <1>2, <1>3, <2>1, <2>2, <2>3
<1> QED
  BY <1>1, <1>3 DEF limitVars, InflowInv, InflowWithinLimit

(* Every step keeps the inflow within the limits.                            *)
LEMMA NextInflow ==
    ASSUME TypeOK, TypeOK', InflowInv, InflowWithinLimit, [Next]_vars
    PROVE  InflowInv' /\ InflowWithinLimit'
<1>1. ASSUME UNCHANGED <<limitVars, now>>
      PROVE  InflowInv' /\ InflowWithinLimit'
  BY <1>1 DEF limitVars, InflowInv, InflowWithinLimit
<1>2. ASSUME NEW sender \in Principals, OwnerCalls(sender)
      PROVE  UNCHANGED <<limitVars, now>>
  BY <1>2 DEF OwnerCalls, SetOperator, SetRelayer, SetPriceOracle
<1>3. ASSUME NEW sender \in Principals, RelayerCalls(sender)
      PROVE  UNCHANGED <<limitVars, now>>
  BY <1>3 DEF RelayerCalls, BridgeTo, UpdateCheckpointInfo
<1>4. Receive \/ UNCHANGED vars => UNCHANGED <<limitVars, now>>
  BY DEF Receive, vars
<1>5. ASSUME NEW sender \in Principals, OperatorCalls(sender)
      PROVE  InflowInv' /\ InflowWithinLimit'
  <2>1. ASSUME NEW om, NEW sc, NEW protocol, MapTokenAddresses(sender, om, sc, protocol)
        PROVE  UNCHANGED <<limitVars, now>>
    BY <2>1 DEF MapTokenAddresses
  <2>2. ASSUME NEW token \in OmTokens, NEW limit \in Limits, NEW window \in Windows,
               SetRateLimit(sender, token, limit, window)
        PROVE  InflowInv' /\ InflowWithinLimit'
    BY <2>2, ContractAssumption, SetRateLimitInflow DEF ContractAssumption
  <2> QED
    BY <1>1, <1>5, <2>1, <2>2 DEF OperatorCalls
<1>6. CASE Deposits
  BY <1>6, BridgeFromInflow DEF Deposits
<1>7. CASE Tick
  BY <1>7, TickInflow
<1> QED
  BY <1>1, <1>2, <1>3, <1>4, <1>5, <1>6, <1>7 DEF Next

(* Since a token's limit was last set, no epoch has admitted more of it than  *)
(* the limit, for any window and any times of the deposits.                 *)
THEOREM InflowLimited == Spec => []InflowWithinLimit
<1>1. Init => InflowInv /\ InflowWithinLimit
  BY DEF Init, InflowInv, InflowWithinLimit, NoLimit
<1>2. TypeOK /\ TypeOK' /\ InflowInv /\ InflowWithinLimit /\ [Next]_vars
          => InflowInv' /\ InflowWithinLimit'
  BY NextInflow
<1> QED
  BY <1>1, <1>2, TypeCorrect, PTL DEF Spec
=============================================================================
