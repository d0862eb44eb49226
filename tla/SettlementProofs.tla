-------------------------- MODULE SettlementProofs --------------------------
(***************************************************************************)
(* The tallies of the contract count what they should when the repository's *)
(* relayer drives it, for every history of burns and every order of calls;  *)
(* hence checkpoints close only when all their burns are paid out, and the  *)
(* contract implements the ledger of withdrawals.                           *)
(*                                                                         *)
(* ClosedCheckpointBridged is not inductive: that a complete tally means a  *)
(* bridged checkpoint needs the tallies to count distinct burns             *)
(* (TallyCountsBurns), which needs that no burn is paid out twice, which    *)
(* follows from the per-account nonces (BridgedBelowNonce).  A pruned tally *)
(* is gone, so the invariant also remembers what its pruning showed.        *)
(***************************************************************************)
EXTENDS Settlement, OMInteropProofs

PrunedBridged ==
    \A c \in 1..MaxCheckpoint :
        c < earliestIncompletedCheckpoint => BurnsOf(c) \subseteq processedBridges

SettlementInv ==
    TypeOK /\ TallyCountsBurns /\ PrunedBridged /\ BridgedBelowNonce

(* The calls of the relayer are well-typed requests.                        *)
LEMMA RequestTyped ==
    ASSUME NEW h \in Hashes, NEW c \in {0, Burns[h].checkpoint}
    PROVE  Request(h, c) \in RequestType
<1>1. Burns[h] \in BurnType /\ c \in Checkpoints
  BY BurnsAssumption, ContractAssumption
     DEF BurnsAssumption, BurnType, Checkpoints, ContractAssumption
<1> QED
  BY <1>1 DEF BurnType, RequestType, Request

(* Sets of hashes are finite.                                               *)
LEMMA HashSetFinite ==
    ASSUME NEW S \in SUBSET Hashes
    PROVE  IsFiniteSet(S) /\ Cardinality(S) \in Nat
BY ContractAssumption, FS_Subset, FS_CardinalityType DEF ContractAssumption

(* A tally that counts the burns in cert, and as completed at most those in  *)
(* done, can only be complete when all of cert is in done.                  *)
LEMMA CompleteMeansDone ==
    ASSUME NEW cert \in SUBSET Hashes, NEW done \in SUBSET Hashes,
           NEW completed \in Nat, completed <= Cardinality(cert \cap done),
           completed >= Cardinality(cert)
    PROVE  cert \subseteq done
<1>1. IsFiniteSet(cert) /\ cert \cap done \in SUBSET cert
  BY HashSetFinite
<1>2. Cardinality(cert \cap done) <= Cardinality(cert)
  BY <1>1, FS_Subset
<1>3. Cardinality(cert \cap done) = Cardinality(cert)
  BY <1>2, HashSetFinite
<1>4. cert \cap done = cert
  BY <1>1, <1>3, FS_Subset
<1> QED
  BY <1>4

(* The tallies a call computes before it prunes, against the state after it. *)
Counts(tallies) ==
    \A c \in 1..MaxCheckpoint : c >= earliestIncompletedCheckpoint =>
        /\ tallies[c].certified = Cardinality(CertifiedBurns(c)')
        /\ tallies[c].completed
               <= Cardinality(CertifiedBurns(c)' \cap processedBridges')

(* Pruning keeps the counts, and what it prunes has been bridged.            *)
LEMMA PruneCounts ==
    ASSUME TypeOK, TypeOK', PrunedBridged, processedBridges \subseteq processedBridges',
           NEW tallies \in TallyType, NEW c, TryPruneCheckpoint(tallies, c),
           Counts(tallies),
           \A d \in 1..MaxCheckpoint : CertifiedBurns(d)' \in {{}, BurnsOf(d)}
    PROVE  TallyCountsBurns' /\ PrunedBridged'
<1> DEFINE front == earliestIncompletedCheckpoint
<1>1. PICK next \in front..MaxCheckpoint + 1 :
          /\ \A d \in front..next - 1 : IsCheckpointComplete(tallies, d)
          /\ front' = next
          /\ checkpointTallies' = [d \in Checkpoints |->
                 IF d \in front..next - 1 THEN EmptyTally ELSE tallies[d]]
  BY DEF TryPruneCheckpoint, TypeOK
<1>2. front \in 1..MaxCheckpoint + 1 /\ MaxCheckpoint \in Nat /\ next \in Nat
  BY ContractAssumption DEF TypeOK, ContractAssumption
<1>3. ASSUME NEW d \in 1..MaxCheckpoint, d >= next
      PROVE  checkpointTallies'[d] = tallies[d]
  BY <1>1, <1>2, <1>3 DEF Checkpoints
<1>4. TallyCountsBurns'
  BY <1>1, <1>2, <1>3 DEF TallyCountsBurns, Counts, BurnsOf
<1>5. ASSUME NEW d \in 1..MaxCheckpoint, d < next
      PROVE  BurnsOf(d) \subseteq processedBridges'
  <2>1. CASE d < front
    BY <2>1 DEF PrunedBridged
  <2>2. CASE d >= front
    <3>1. IsCheckpointComplete(tallies, d)
      BY <1>1, <1>2, <1>5, <2>2
    <3>2. /\ tallies[d].certified = Cardinality(CertifiedBurns(d)')
          /\ tallies[d].completed
                 <= Cardinality(CertifiedBurns(d)' \cap processedBridges')
      BY <2>2 DEF Counts
    <3>3. d \in Checkpoints /\ tallies[d].completed \in Nat
      BY <1>2 DEF Checkpoints, TallyType
    <3>4. CertifiedBurns(d)' \in SUBSET Hashes /\ processedBridges' \in SUBSET Hashes
      BY DEF CertifiedBurns, TypeOK
    <3>5. CertifiedBurns(d)' \subseteq processedBridges'
      BY <3>1, <3>2, <3>3, <3>4, CompleteMeansDone DEF IsCheckpointComplete
    <3>6. CertifiedBurns(d)' # {}
      BY <3>1, <3>2, FS_EmptySet DEF IsCheckpointComplete
    <3> QED
      BY <3>5, <3>6
  <2> QED
    BY <1>2, <2>1, <2>2
<1> QED
  BY <1>1, <1>4, <1>5 DEF PrunedBridged, BurnsOf

-----------------------------------------------------------------------------
(* Payouts.                                                                 *)

(* A payout is of a burn not paid out before, and pays out that burn alone.  *)
LEMMA PayoutIsNew ==
    ASSUME TypeOK, BridgedBelowNonce, NEW sender, NEW h \in Hashes,
           NEW c \in {0, Burns[h].checkpoint}, BridgeTo(sender, Request(h, c))
    PROVE  /\ h \notin processedBridges
           /\ processedBridges' = processedBridges \cup {h}
           /\ BridgedBelowNonce'
<1>1. /\ Burns[h].bbNonce = latestBbNonce[Burns[h].from]
      /\ latestBbNonce' = [latestBbNonce EXCEPT
             ![Burns[h].from] = Burns[h].bbNonce + 1]
      /\ processedBridges' = processedBridges \cup {h}
  BY DEF BridgeTo, BridgeToValidated, EnforceSequentialNonce, Request,
         RecordProcessedBridge
<1>2. \A g \in Hashes : Burns[g].from \in Accounts /\ Burns[g].bbNonce \in Nat
  BY BurnsAssumption DEF BurnsAssumption, BurnType
<1>3. h \notin processedBridges
  BY <1>1, <1>2 DEF BridgedBelowNonce
<1>4. ASSUME NEW g \in Hashes
      PROVE  g \in processedBridges'
                 <=> Burns[g].bbNonce < latestBbNonce'[Burns[g].from]
  <2>1. CASE Burns[g].from # Burns[h].from
    BY <1>1, <1>2, <2>1 DEF BridgedBelowNonce, TypeOK
  <2>2. CASE Burns[g].from = Burns[h].from
    <3>1. Burns[g].bbNonce = Burns[h].bbNonce <=> g = h
      BY <2>2, BurnsAssumption DEF BurnsAssumption
    <3>2. latestBbNonce'[Burns[g].from] = Burns[h].bbNonce + 1
      BY <1>1, <1>2, <2>2 DEF TypeOK
    <3> QED
      BY <1>1, <1>2, <2>2, <3>1, <3>2 DEF BridgedBelowNonce
  <2> QED
    BY <2>1, <2>2
<1> QED
  BY <1>1, <1>3, <1>4 DEF BridgedBelowNonce

(* A payout by the live stream touches no tally.                            *)
LEMMA LiveBurnInv ==
    ASSUME SettlementInv, NEW sender, NEW h \in Hashes, RelayLiveBurn(sender, h)
    PROVE  SettlementInv'
<1>1. TypeOK'
  BY RequestTyped, BridgeToType, ContractAssumption DEF RelayLiveBurn, SettlementInv
<1>2. BridgedBelowNonce' /\ processedBridges' = processedBridges \cup {h}
  BY PayoutIsNew DEF RelayLiveBurn, SettlementInv
<1>3. UNCHANGED <<checkpointIdsBySourceHash, checkpointTallies,
                  earliestIncompletedCheckpoint>>
  BY DEF RelayLiveBurn, BridgeTo, RecordProcessedBridge, Request
<1>4. PrunedBridged'
  BY <1>2, <1>3 DEF SettlementInv, PrunedBridged, BurnsOf
<1>5. ASSUME NEW c \in 1..MaxCheckpoint, c >= earliestIncompletedCheckpoint
      PROVE  checkpointTallies[c].completed
                 <= Cardinality(CertifiedBurns(c) \cap processedBridges')
  <2> DEFINE before == CertifiedBurns(c) \cap processedBridges
             after  == CertifiedBurns(c) \cap processedBridges'
  <2>1. before \in SUBSET after /\ after \in SUBSET Hashes /\ before \in SUBSET Hashes
    BY <1>2 DEF CertifiedBurns
  <2>2. Cardinality(before) <= Cardinality(after)
    BY <2>1, HashSetFinite, FS_Subset
  <2>3. checkpointTallies[c].completed <= Cardinality(before)
    BY <1>5 DEF SettlementInv, TallyCountsBurns
  <2>4. checkpointTallies[c].completed \in Nat
    BY ContractAssumption DEF SettlementInv, TypeOK, Checkpoints, ContractAssumption
  <2> HIDE DEF before, after
  <2>5. Cardinality(before) \in Nat /\ Cardinality(after) \in Nat
    BY <2>1, HashSetFinite
  <2>6. checkpointTallies[c].completed <= Cardinality(after)
    BY <2>2, <2>3, <2>4, <2>5
  <2> QED
    BY <2>6 DEF after
<1>6. TallyCountsBurns'
  BY <1>3, <1>5 DEF SettlementInv, TallyCountsBurns, CertifiedBurns, BurnsOf
<1> QED
  BY <1>1, <1>2, <1>4, <1>6 DEF SettlementInv

(* A payout with the burn's checkpoint adds one to the completed burns of    *)
(* that checkpoint, and to the bridged ones among its certified burns.      *)
LEMMA CheckpointBurnInv ==
    ASSUME SettlementInv, NEW sender, NEW h \in Hashes, RelayCheckpointBurn(sender, h)
    PROVE  SettlementInv'
<1> DEFINE c == Burns[h].checkpoint
           tallies == [checkpointTallies EXCEPT ![c].completed = @ + 1]
           before(d) == CertifiedBurns(d) \cap processedBridges
           after(d)  == CertifiedBurns(d) \cap processedBridges'
<1>1. c \in 1..MaxCheckpoint /\ c \in Checkpoints /\ MaxCheckpoint \in Nat
  BY BurnsAssumption, ContractAssumption
     DEF BurnsAssumption, BurnType, Checkpoints, ContractAssumption
<1>2. BridgeTo(sender, Request(h, c))
  BY DEF RelayCheckpointBurn
<1>3. TypeOK'
  BY <1>2, RequestTyped, BridgeToType, ContractAssumption DEF SettlementInv
<1>4. /\ BridgedBelowNonce' /\ h \notin processedBridges
      /\ processedBridges' = processedBridges \cup {h}
  BY <1>2, PayoutIsNew DEF SettlementInv
<1>5. CertifiedBurns(c) = BurnsOf(c) /\ h \in CertifiedBurns(c)
  BY <1>1 DEF SettlementInv, TallyCountsBurns, RelayCheckpointBurn, BurnsOf
<1>6. UNCHANGED checkpointIdsBySourceHash
  <2>1. checkpointIdsBySourceHash' = [checkpointIdsBySourceHash EXCEPT ![h] = c]
    BY <1>1, <1>2 DEF BridgeTo, RecordProcessedBridge, Request
  <2>2. checkpointIdsBySourceHash[h] = c
    BY <1>5 DEF CertifiedBurns
  <2> QED
    BY <2>1, <2>2 DEF SettlementInv, TypeOK
<1>7. TryPruneCheckpoint(tallies, c)
  BY <1>1, <1>2 DEF BridgeTo, RecordProcessedBridge, Request
<1>8. /\ tallies \in TallyType
      /\ tallies[c].certified = checkpointTallies[c].certified
      /\ tallies[c].completed = checkpointTallies[c].completed + 1
      /\ \A d \in Checkpoints \ {c} : tallies[d] = checkpointTallies[d]
  <2>1. checkpointTallies \in TallyType
    BY DEF SettlementInv, TypeOK, TallyType
  <2>2. [checkpointTallies[c] EXCEPT !.completed = @ + 1]
            \in [certified : Nat, completed : Nat]
    BY <1>1, <2>1 DEF TallyType
  <2> QED
    BY <1>1, <2>1, <2>2 DEF TallyType
<1>9. ASSUME NEW d \in 1..MaxCheckpoint
      PROVE  /\ before(d) \in SUBSET after(d) /\ after(d) \in SUBSET Hashes
             /\ Cardinality(before(d)) \in Nat /\ Cardinality(after(d)) \in Nat
             /\ Cardinality(before(d)) <= Cardinality(after(d))
             /\ d = c => Cardinality(after(d)) = Cardinality(before(d)) + 1
  <2>1. before(d) \in SUBSET after(d) /\ after(d) \in SUBSET Hashes
    BY <1>4 DEF CertifiedBurns
  <2>2. IsFiniteSet(before(d)) /\ IsFiniteSet(after(d))
        /\ Cardinality(before(d)) \in Nat /\ Cardinality(after(d)) \in Nat
    BY <2>1, HashSetFinite
  <2>3. d = c => after(d) = before(d) \cup {h} /\ h \notin before(d)
    BY <1>4, <1>5
  <2> HIDE DEF before, after
  <2> QED
    BY <2>1, <2>2, <2>3, FS_Subset, FS_AddElement
<1>10. Counts(tallies)
  <2> SUFFICES ASSUME NEW d \in 1..MaxCheckpoint, d >= earliestIncompletedCheckpoint
               PROVE  /\ tallies[d].certified = Cardinality(CertifiedBurns(d))
                      /\ tallies[d].completed <= Cardinality(after(d))
    BY <1>6 DEF Counts, CertifiedBurns
  <2>1. /\ checkpointTallies[d].certified = Cardinality(CertifiedBurns(d))
        /\ checkpointTallies[d].completed <= Cardinality(before(d))
    BY DEF SettlementInv, TallyCountsBurns
  <2>2. d \in Checkpoints /\ checkpointTallies[d].completed \in Nat
    <3>1. checkpointTallies \in TallyType
      BY DEF SettlementInv, TypeOK, TallyType
    <3>2. d \in Checkpoints
      BY <1>1 DEF Checkpoints
    <3> QED
      BY <3>1, <3>2 DEF TallyType
  <2> HIDE DEF tallies, before, after
  <2> QED
    BY <1>8, <1>9, <2>1, <2>2
<1>11. \A d \in 1..MaxCheckpoint : CertifiedBurns(d)' \in {{}, BurnsOf(d)}
  BY <1>6 DEF SettlementInv, TallyCountsBurns, CertifiedBurns
<1> HIDE DEF tallies
<1>12. TallyCountsBurns' /\ PrunedBridged'
  BY <1>3, <1>4, <1>7, <1>8, <1>10, <1>11, PruneCounts DEF SettlementInv
<1> QED
  BY <1>3, <1>4, <1>12 DEF SettlementInv

-----------------------------------------------------------------------------
(* A certification adds the checkpoint's burns to its tally, all at once or, *)
(* when it is repeated, not at all.                                         *)
LEMMA CheckpointInv ==
    ASSUME SettlementInv, NEW sender, NEW c \in Checkpoints, RelayCheckpoint(sender, c)
    PROVE  SettlementInv'
<1> DEFINE new == {h \in BurnsOf(c) : checkpointIdsBySourceHash[h] = 0}
           certified == checkpointTallies[c].certified + Cardinality(new)
           completed == checkpointTallies[c].completed
                            + Cardinality(new \cap processedBridges)
           tallies == [checkpointTallies EXCEPT ![c] =
                         [certified |-> certified, completed |-> completed]]
<1>1. MaxCheckpoint \in Nat /\ BurnsOf(c) \in SUBSET Hashes
  BY ContractAssumption DEF ContractAssumption, BurnsOf
<1>2. TypeOK'
  BY <1>1, UpdateCheckpointInfoType, ContractAssumption
     DEF RelayCheckpoint, SettlementInv
<1>3. UNCHANGED <<processedBridges, latestBbNonce>>
  BY DEF RelayCheckpoint, UpdateCheckpointInfo
<1>4. BridgedBelowNonce'
  BY <1>3 DEF SettlementInv, BridgedBelowNonce
<1>5. TryPruneCheckpoint(tallies, c)
  BY DEF RelayCheckpoint, UpdateCheckpointInfo
<1>6. Cardinality(new) \in Nat /\ Cardinality(new \cap processedBridges) \in Nat
  <2>1. new \in SUBSET Hashes /\ new \cap processedBridges \in SUBSET Hashes
    BY DEF BurnsOf
  <2> QED
    BY <2>1, HashSetFinite
<1>7. certified \in Nat /\ completed \in Nat
  BY <1>6 DEF SettlementInv, TypeOK
<1>8. /\ tallies \in TallyType
      /\ tallies[c].certified = certified /\ tallies[c].completed = completed
      /\ \A d \in Checkpoints \ {c} : tallies[d] = checkpointTallies[d]
  <2> HIDE DEF certified, completed
  <2> QED
    BY <1>7 DEF SettlementInv, TypeOK, TallyType
<1>9. c # 0 => CertifiedBurns(c) \in {{}, BurnsOf(c)} /\ c \in 1..MaxCheckpoint
  <2>1. c # 0 => c \in 1..MaxCheckpoint
    BY <1>1 DEF Checkpoints
  <2> QED
    BY <2>1 DEF SettlementInv, TallyCountsBurns
<1>10. c # 0 => /\ CertifiedBurns(c)' = BurnsOf(c)
                /\ \/ CertifiedBurns(c) = {} /\ new = BurnsOf(c)
                   \/ CertifiedBurns(c) = BurnsOf(c) /\ new = {}
  <2> SUFFICES ASSUME c # 0
               PROVE  /\ CertifiedBurns(c)' = BurnsOf(c)
                      /\ \/ CertifiedBurns(c) = {} /\ new = BurnsOf(c)
                         \/ CertifiedBurns(c) = BurnsOf(c) /\ new = {}
    OBVIOUS
  <2>1. \A h \in BurnsOf(c) : checkpointIdsBySourceHash[h] \in {0, c}
    <3> SUFFICES ASSUME NEW h \in BurnsOf(c), checkpointIdsBySourceHash[h] # 0
                 PROVE  checkpointIdsBySourceHash[h] = c
      OBVIOUS
    <3> DEFINE d == checkpointIdsBySourceHash[h]
    <3>1. d \in 1..MaxCheckpoint /\ h \in CertifiedBurns(d)
      BY <1>1 DEF SettlementInv, TypeOK, BurnsOf, CertifiedBurns, Checkpoints
    <3>2. h \in BurnsOf(d)
      BY <3>1 DEF SettlementInv, TallyCountsBurns
    <3> QED
      BY <3>2 DEF BurnsOf
  <2>2. checkpointIdsBySourceHash' = [h \in Hashes |->
            IF h \in new THEN c ELSE checkpointIdsBySourceHash[h]]
    BY DEF RelayCheckpoint, UpdateCheckpointInfo
  <2>3. CertifiedBurns(c)' = CertifiedBurns(c) \cup new
    BY <2>2 DEF CertifiedBurns, BurnsOf
  <2>4. BurnsOf(c) \subseteq CertifiedBurns(c) \cup new
    BY <2>1 DEF CertifiedBurns, BurnsOf
  <2>5. CertifiedBurns(c) \cap new = {} /\ new \subseteq BurnsOf(c)
    BY DEF CertifiedBurns
  <2> HIDE DEF new
  <2> QED
    BY <1>9, <2>3, <2>4, <2>5
<1>11. \A d \in 1..MaxCheckpoint : d # c => CertifiedBurns(d)' = CertifiedBurns(d)
  <2> SUFFICES ASSUME NEW d \in 1..MaxCheckpoint, d # c, NEW h \in Hashes
               PROVE  checkpointIdsBySourceHash'[h] = d
                          <=> checkpointIdsBySourceHash[h] = d
    BY DEF CertifiedBurns
  <2>1. checkpointIdsBySourceHash' = [g \in Hashes |->
            IF g \in new THEN c ELSE checkpointIdsBySourceHash[g]]
    BY DEF RelayCheckpoint, UpdateCheckpointInfo
  <2>2. CASE h \in new
    BY <2>1, <2>2
  <2>3. CASE h \notin new
    BY <2>1, <2>3
  <2> QED
    BY <2>2, <2>3
<1>12. \A d \in 1..MaxCheckpoint : CertifiedBurns(d)' \in {{}, BurnsOf(d)}
  <2> SUFFICES ASSUME NEW d \in 1..MaxCheckpoint
               PROVE  CertifiedBurns(d)' \in {{}, BurnsOf(d)}
    OBVIOUS
  <2>1. CASE d = c
    <3>1. CertifiedBurns(c)' = BurnsOf(c)
      BY <1>1, <1>10, <2>1
    <3> QED
      BY <2>1, <3>1
  <2>2. CASE d # c
    BY <1>11, <2>2 DEF SettlementInv, TallyCountsBurns
  <2> QED
    BY <2>1, <2>2
<1>13. Counts(tallies)
  <2> SUFFICES ASSUME NEW d \in 1..MaxCheckpoint, d >= earliestIncompletedCheckpoint
               PROVE  /\ tallies[d].certified = Cardinality(CertifiedBurns(d)')
                      /\ tallies[d].completed
                             <= Cardinality(CertifiedBurns(d)' \cap processedBridges)
    BY <1>3 DEF Counts
  <2>1. /\ checkpointTallies[d].certified = Cardinality(CertifiedBurns(d))
        /\ checkpointTallies[d].completed
               <= Cardinality(CertifiedBurns(d) \cap processedBridges)
    BY DEF SettlementInv, TallyCountsBurns
  <2>2. d \in Checkpoints
    BY <1>1 DEF Checkpoints
  <2>3. CASE d # c
    <3> HIDE DEF tallies
    <3> QED
      BY <1>8, <1>11, <2>1, <2>2, <2>3
  <2>4. CASE d = c /\ CertifiedBurns(c) = {} /\ new = BurnsOf(c)
    <3>1. /\ Cardinality(CertifiedBurns(d)) = 0
          /\ Cardinality(CertifiedBurns(d) \cap processedBridges) = 0
      BY <2>4, FS_EmptySet
    <3>2. CertifiedBurns(d)' = new
      BY <1>10, <2>4
    <3>3. checkpointTallies[d].completed \in Nat
      BY <2>2 DEF SettlementInv, TypeOK
    <3> HIDE DEF tallies, new
    <3> QED
      BY <1>6, <1>8, <2>1, <2>4, <3>1, <3>2, <3>3
  <2>5. CASE d = c /\ CertifiedBurns(c) = BurnsOf(c) /\ new = {}
    <3>1. Cardinality(new) = 0 /\ Cardinality(new \cap processedBridges) = 0
      BY <2>5, FS_EmptySet
    <3>2. CertifiedBurns(d)' = CertifiedBurns(d)
      BY <1>10, <2>5
    <3>3. /\ checkpointTallies[d].certified \in Nat
          /\ checkpointTallies[d].completed \in Nat
      BY <2>2 DEF SettlementInv, TypeOK
    <3> HIDE DEF tallies, new
    <3> QED
      BY <1>8, <2>1, <2>5, <3>1, <3>2, <3>3
  <2> QED
    BY <1>10, <2>3, <2>4, <2>5
<1> HIDE DEF tallies
<1>14. TallyCountsBurns' /\ PrunedBridged'
  BY <1>2, <1>3, <1>5, <1>8, <1>12, <1>13, PruneCounts DEF SettlementInv
<1> QED
  BY <1>2, <1>4, <1>14 DEF SettlementInv

-----------------------------------------------------------------------------
(* The remaining calls touch nothing of the invariant but the types.         *)
LEMMA OtherInv ==
    ASSUME SettlementInv, TypeOK', UNCHANGED tallyVars
    PROVE  SettlementInv'
BY DEF SettlementInv, tallyVars, TallyCountsBurns, PrunedBridged, BridgedBelowNonce,
       CertifiedBurns, BurnsOf

(* The invariant of the contract as the relayer drives it is inductive.      *)
LEMMA SettlementStep ==
    ASSUME SettlementInv, [SettlementNext]_vars
    PROVE  SettlementInv'
<1> USE DEF SettlementInv
<1>1. ASSUME NEW sender \in Principals, SettlementCalls(sender)
      PROVE  SettlementInv'
  BY <1>1, LiveBurnInv, CheckpointBurnInv, CheckpointInv DEF SettlementCalls
<1>2. ASSUME NEW sender \in Principals, OwnerCalls(sender) \/ OperatorCalls(sender)
      PROVE  SettlementInv'
  <2>1. TypeOK'
    BY <1>2, OwnerCallsType, OperatorCallsType, ContractAssumption
  <2> QED
    BY <1>2, <2>1, OtherCallsFrame, OtherInv
<1>3. CASE Deposits
  <2>1. TypeOK'
    BY <1>3, BridgeFromType, ContractAssumption DEF Deposits
  <2> QED
    BY <1>3, <2>1, OtherCallsFrame, OtherInv
<1>4. CASE Receive \/ Tick \/ UNCHANGED vars
  <2>1. TypeOK'
    BY <1>4, EnvironmentType
  <2> QED
    BY <1>4, <2>1, OtherCallsFrame, OtherInv
<1> QED
  BY <1>1, <1>2, <1>3, <1>4 DEF SettlementNext

(* Nothing is certified or bridged at first.                                *)
LEMMA SettlementInit ==
    ASSUME Init
    PROVE  SettlementInv
<1>1. TypeOK
  BY ContractAssumption, InitType
<1>2. \A c \in 1..MaxCheckpoint : CertifiedBurns(c) = {} /\ c \in Checkpoints
  BY ContractAssumption DEF Init, CertifiedBurns, Checkpoints, ContractAssumption
<1>3. TallyCountsBurns
  <2> SUFFICES ASSUME NEW c \in 1..MaxCheckpoint
               PROVE  /\ CertifiedBurns(c) \in {{}, BurnsOf(c)}
                      /\ checkpointTallies[c].certified
                             = Cardinality(CertifiedBurns(c))
                      /\ checkpointTallies[c].completed
                             <= Cardinality(CertifiedBurns(c) \cap processedBridges)
    BY DEF TallyCountsBurns
  <2>1. CertifiedBurns(c) = {} /\ CertifiedBurns(c) \cap processedBridges = {}
    BY <1>2
  <2>2. checkpointTallies[c] = [certified |-> 0, completed |-> 0]
    BY <1>2 DEF Init, EmptyTally
  <2> QED
    BY <2>1, <2>2, FS_EmptySet
<1>4. \A h \in Hashes : Burns[h].from \in Accounts /\ Burns[h].bbNonce \in Nat
  BY BurnsAssumption DEF BurnsAssumption, BurnType
<1>5. PrunedBridged /\ BridgedBelowNonce
  BY <1>4, ContractAssumption DEF Init, PrunedBridged, BridgedBelowNonce,
                                  ContractAssumption
<1> QED
  BY <1>1, <1>3, <1>5 DEF SettlementInv

(* A complete checkpoint has had its burns bridged, a pruned one too.        *)
LEMMA InvClosedBridged ==
    ASSUME SettlementInv
    PROVE  ClosedCheckpointBridged
<1> SUFFICES ASSUME NEW c \in 1..MaxCheckpoint, Closed(c)
             PROVE  BurnsOf(c) \subseteq processedBridges
  BY DEF ClosedCheckpointBridged
<1>1. CASE c < earliestIncompletedCheckpoint
  BY <1>1 DEF SettlementInv, PrunedBridged
<1>2. CASE c >= earliestIncompletedCheckpoint
  <2>1. IsCheckpointComplete(checkpointTallies, c)
    BY <1>2, ContractAssumption
       DEF Closed, SettlementInv, TypeOK, ContractAssumption
  <2>2. /\ CertifiedBurns(c) \in {{}, BurnsOf(c)}
        /\ checkpointTallies[c].certified = Cardinality(CertifiedBurns(c))
        /\ checkpointTallies[c].completed
               <= Cardinality(CertifiedBurns(c) \cap processedBridges)
    BY <1>2 DEF SettlementInv, TallyCountsBurns
  <2>3. CertifiedBurns(c) # {}
    BY <2>1, <2>2, FS_EmptySet DEF IsCheckpointComplete
  <2>4. checkpointTallies[c].completed \in Nat
    BY <2>1 DEF IsCheckpointComplete, SettlementInv, TypeOK
  <2>5. CertifiedBurns(c) \in SUBSET Hashes /\ processedBridges \in SUBSET Hashes
    BY DEF CertifiedBurns, SettlementInv, TypeOK
  <2>6. CertifiedBurns(c) \subseteq processedBridges
    BY <2>1, <2>2, <2>4, <2>5, CompleteMeansDone DEF IsCheckpointComplete
  <2> QED
    BY <2>2, <2>3, <2>6
<1> QED
  BY <1>1, <1>2, ContractAssumption DEF SettlementInv, TypeOK, ContractAssumption

(* For every history of burns and every order of the relayer's calls: the    *)
(* tallies count distinct burns, nonces mark what is bridged, and a          *)
(* checkpoint is complete or pruned only when all its burns are bridged.    *)
THEOREM SettlementSafe ==
    SettlementSpec => [](TypeOK /\ TallyCountsBurns /\ BridgedBelowNonce
                            /\ ClosedCheckpointBridged)
<1>1. Init => SettlementInv
  BY SettlementInit
<1>2. SettlementInv /\ [SettlementNext]_vars => SettlementInv'
  BY SettlementStep
<1>3. SettlementInv => TypeOK /\ TallyCountsBurns /\ BridgedBelowNonce
                          /\ ClosedCheckpointBridged
  BY InvClosedBridged DEF SettlementInv
<1> QED
  BY <1>1, <1>2, <1>3, PTL DEF SettlementSpec

-----------------------------------------------------------------------------
(* Refinement.                                                              *)

(* The checkpoint before the front is a checkpoint.                         *)
LEMMA PredecessorBounds ==
    ASSUME NEW m \in Nat, NEW e \in 1..m + 1, NEW f \in 1..m + 1, f >= e
    PROVE  f - 1 \in 0..m /\ e - 1 <= f - 1
OBVIOUS

(* The front only moves forward, and never past an unbridged burn.           *)
LEMMA SettleStep ==
    ASSUME SettlementInv, SettlementInv',
           processedBridges \subseteq processedBridges',
           earliestIncompletedCheckpoint' >= earliestIncompletedCheckpoint
    PROVE  \E c \in 0..MaxCheckpoint : Ledger!Settle(c)
<1> DEFINE c == earliestIncompletedCheckpoint' - 1
<1>1. /\ earliestIncompletedCheckpoint \in 1..MaxCheckpoint + 1
      /\ earliestIncompletedCheckpoint' \in 1..MaxCheckpoint + 1
      /\ MaxCheckpoint \in Nat
  BY ContractAssumption DEF SettlementInv, TypeOK, ContractAssumption
<1>2. c \in 0..MaxCheckpoint /\ earliestIncompletedCheckpoint - 1 <= c
  BY <1>1, PredecessorBounds
<1>3. GetLatestCompletedCheckpoint <= c /\ GetLatestCompletedCheckpoint' = c
  BY <1>2 DEF GetLatestCompletedCheckpoint
<1> HIDE DEF c
<1>4. ASSUME NEW h \in Hashes, Burns[h].checkpoint <= c
      PROVE  h \in processedBridges'
  <2>1. Burns[h].checkpoint \in 1..MaxCheckpoint
    BY BurnsAssumption DEF BurnsAssumption, BurnType
  <2>2. Burns[h].checkpoint < earliestIncompletedCheckpoint'
    BY <1>1, <1>4, <2>1 DEF c
  <2> QED
    BY <2>1, <2>2 DEF SettlementInv, PrunedBridged, BurnsOf
<1> QED
  BY <1>2, <1>3, <1>4 DEF Ledger!Settle, Ledger!BurnsUpTo

(* A payout is a payout of the ledger: new, and after the sender's earlier   *)
(* burns.                                                                   *)
LEMMA PayOutStep ==
    ASSUME SettlementInv, NEW sender, NEW h \in Hashes,
           NEW c \in {0, Burns[h].checkpoint}, BridgeTo(sender, Request(h, c))
    PROVE  Ledger!PayOut(h)
<1>1. /\ h \notin processedBridges
      /\ processedBridges' = processedBridges \cup {h}
  BY PayoutIsNew DEF SettlementInv
<1>2. Burns[h].bbNonce = latestBbNonce[Burns[h].from]
  BY DEF BridgeTo, BridgeToValidated, EnforceSequentialNonce, Request
<1>3. \A g \in Hashes : (/\ Burns[g].from = Burns[h].from
                         /\ Burns[g].bbNonce < Burns[h].bbNonce)
                            => g \in processedBridges
  BY <1>2 DEF SettlementInv, BridgedBelowNonce
<1> QED
  BY <1>1, <1>3 DEF Ledger!PayOut, Ledger!EarlierOfSender

(* No call moves the front back or forgets a payout.                         *)
LEMMA FrontMonotone ==
    ASSUME SettlementInv, [SettlementNext]_vars
    PROVE  earliestIncompletedCheckpoint' >= earliestIncompletedCheckpoint
<1>1. earliestIncompletedCheckpoint \in Nat
  BY ContractAssumption DEF SettlementInv, TypeOK, ContractAssumption
<1>2. ASSUME NEW tallies, NEW c, TryPruneCheckpoint(tallies, c)
      PROVE  earliestIncompletedCheckpoint' >= earliestIncompletedCheckpoint
  BY <1>1, <1>2, ContractAssumption
     DEF TryPruneCheckpoint, ContractAssumption
<1>3. UNCHANGED earliestIncompletedCheckpoint
          => earliestIncompletedCheckpoint' >= earliestIncompletedCheckpoint
  BY <1>1
<1>4. ASSUME NEW sender \in Principals, SettlementCalls(sender)
      PROVE  earliestIncompletedCheckpoint' >= earliestIncompletedCheckpoint
  BY <1>2, <1>3, <1>4 DEF SettlementCalls, RelayLiveBurn, RelayCheckpointBurn,
     RelayCheckpoint, BridgeTo, RecordProcessedBridge, UpdateCheckpointInfo
<1>5. ASSUME UNCHANGED tallyVars
      PROVE  earliestIncompletedCheckpoint' >= earliestIncompletedCheckpoint
  BY <1>3, <1>5 DEF tallyVars
<1> QED
  BY <1>4, <1>5, OtherCallsFrame DEF SettlementNext

(* Each step of the contract is a step of the ledger or leaves it unchanged. *)
LEMMA LedgerStep ==
    ASSUME SettlementInv, SettlementInv', [SettlementNext]_vars
    PROVE  [Ledger!Next]_<<processedBridges, GetLatestCompletedCheckpoint>>
<1>1. earliestIncompletedCheckpoint' >= earliestIncompletedCheckpoint
  BY FrontMonotone
<1>2. CASE \E h \in Hashes : Ledger!PayOut(h)
  <2>1. processedBridges \subseteq processedBridges'
    BY <1>2 DEF Ledger!PayOut
  <2> QED
    BY <1>1, <1>2, <2>1, SettleStep DEF Ledger!Next
<1>3. CASE UNCHANGED processedBridges
  BY <1>1, <1>3, SettleStep DEF Ledger!Next
<1>4. ASSUME NEW sender \in Principals, SettlementCalls(sender)
      PROVE  (\E h \in Hashes : Ledger!PayOut(h)) \/ UNCHANGED processedBridges
  <2>1. ASSUME NEW h \in Hashes, RelayLiveBurn(sender, h) \/ RelayCheckpointBurn(sender, h)
        PROVE  Ledger!PayOut(h)
    BY <2>1, PayOutStep DEF RelayLiveBurn, RelayCheckpointBurn
  <2>2. ASSUME NEW c \in Checkpoints, RelayCheckpoint(sender, c)
        PROVE  UNCHANGED processedBridges
    BY <2>2 DEF RelayCheckpoint, UpdateCheckpointInfo
  <2> QED
    BY <1>4, <2>1, <2>2 DEF SettlementCalls
<1>5. ASSUME UNCHANGED tallyVars
      PROVE  UNCHANGED processedBridges
  BY <1>5 DEF tallyVars
<1> QED
  BY <1>2, <1>3, <1>4, <1>5, OtherCallsFrame DEF SettlementNext

(* The contract driven by the relayer implements the ledger of withdrawals:  *)
(* no burn is paid out twice or out of its sender's order, and no checkpoint *)
(* is reported settled before its burns.                                    *)
THEOREM SettlementImplementsLedger == SettlementSpec => ImplementsLedger
<1>1. Init => Ledger!Init
  BY DEF Init, Ledger!Init, GetLatestCompletedCheckpoint
<1>2. SettlementSpec => []SettlementInv
  <2>1. Init => SettlementInv
    BY SettlementInit
  <2>2. SettlementInv /\ [SettlementNext]_vars => SettlementInv'
    BY SettlementStep
  <2> QED
    BY <2>1, <2>2, PTL DEF SettlementSpec
<1>3. SettlementInv /\ SettlementInv' /\ [SettlementNext]_vars
          => [Ledger!Next]_<<processedBridges, GetLatestCompletedCheckpoint>>
  BY LedgerStep
<1> QED
  BY <1>1, <1>2, <1>3, PTL DEF SettlementSpec, ImplementsLedger, Ledger!Spec

(* However often a checkpoint is certified and its burns are submitted, the  *)
(* tally counts each of them at most once.                                  *)
THEOREM TalliesCount == SettlementSpec => []TallyCountsBurns
BY SettlementSafe, PTL

(* A checkpoint that updateCheckpointInfo refuses as completed, or that      *)
(* getLatestCompletedCheckpoint covers, has had all its burns bridged.      *)
THEOREM ClosedMeansBridged == SettlementSpec => []ClosedCheckpointBridged
BY SettlementSafe, PTL

(* The stored nonce of an account, by which the relayer skips burns, tells    *)
(* exactly which of them are bridged.                                       *)
THEOREM NonceTellsBridged == SettlementSpec => []BridgedBelowNonce
BY SettlementSafe, PTL
=============================================================================
