------------------------ MODULE WithdrawalRelayProofs ------------------------
(***************************************************************************)
(* The outgoing relayer, both of its tasks, crashes, restarts and reverted   *)
(* transactions included, keeps to what Settlement assumes of a relayer, and *)
(* neither skips a burn nor links one that is not bridged; for every history *)
(* of burns and every division into checkpoints.                            *)
(*                                                                         *)
(* The receipt of a reverted transaction looks like any other to the code.  *)
(* The properties hold because no transaction the relayer waits for reverts  *)
(* without its work being done: a certification only executes while its      *)
(* checkpoint is open (ClearingInv), and a bridgeTo, when its turn in the    *)
(* mempool comes, carries the account's next nonce or one that the other     *)
(* task has used for the same burn (Ready).                                 *)
(***************************************************************************)
EXTENDS WithdrawalRelay, SettlementProofs, SequenceTheorems

BurnStates == {"register", "read", "submit", "mining", "link"}

(* The task that sent a transaction waits for it.                            *)
Awaited(tx) ==
    IF tx.burn = NoBurn
    THEN /\ job["clearing"] = Job("certifying", NoBurn)
         /\ tx.checkpoint = checkpoint
    ELSE job[tx.task] = Job("mining", tx.burn)

(* No transaction comes before its turn: its nonce is due or used, or will be *)
(* due once a transaction ahead of it has been executed.                    *)
Ready(i) ==
    LET h    == mempool[i].burn
        next == latestBbNonce[Burns[h].from]
    IN  \/ Burns[h].bbNonce <= next
        \/ /\ Burns[h].bbNonce = next + 1
           /\ \E j \in DOMAIN mempool :
                  /\ j < i /\ mempool[j].burn # NoBurn
                  /\ Burns[mempool[j].burn].from = Burns[h].from
                  /\ Burns[mempool[j].burn].bbNonce = next

(* A transaction says what Settlement lets the relayer say.                  *)
Allowed(tx) ==
    IF tx.burn = NoBurn
    THEN tx.task = "clearing"
    ELSE IF tx.task = "live"
         THEN tx.checkpoint = 0
         ELSE /\ tx.checkpoint = Burns[tx.burn].checkpoint
              /\ CertifiedBurns(tx.checkpoint) # {}

MempoolInv ==
    \A i \in DOMAIN mempool :
        /\ Allowed(mempool[i])
        /\ mempool[i].burn # NoBurn => Ready(i)
        /\ process # "recovering"
        /\ process = "relaying" => Awaited(mempool[i])

Open(c) ==
    EnsureCheckpointNotCompleted(c) /\ ~ IsCheckpointComplete(checkpointTallies, c)

(* The clearing task: what is behind it is bridged, and the burn it works on  *)
(* is the one at its position in a certified checkpoint.                    *)
ClearingInv ==
    process = "relaying" =>
        LET state == job["clearing"].state
        IN  /\ state \in BurnStates \cup {"fetch", "certify", "certifying"}
            /\ state # "fetch" => checkpoint \in Checkpoints
            /\ state = "certifying" => Open(checkpoint)
            /\ state \in BurnStates =>
                   /\ position + 1 \in DOMAIN CheckpointTxs[checkpoint]
                   /\ job["clearing"].burn = CheckpointTxs[checkpoint][position + 1]
                   /\ CertifiedBurns(checkpoint) # {}
                   /\ \A i \in 1..position :
                          CheckpointTxs[checkpoint][i] \in processedBridges

(* A task past its receipt has its burn bridged; a stopped process does       *)
(* nothing.                                                                 *)
TasksInv ==
    /\ process # "relaying" => job = [t \in Tasks |-> Job("idle", NoBurn)]
    /\ job["live"].state \in BurnStates \cup {"idle", "closed"}
    /\ \A t \in Tasks : /\ job[t].state \in BurnStates => job[t].burn \in Hashes
                        /\ job[t].state = "link" => job[t].burn \in processedBridges

(* The contract as it is deployed and used by the relayer alone.             *)
ContractInv ==
    /\ \A om \in OmTokens : tokensByOm[om] # NoBinding => tokensByOm[om].protocol = "Mock"
    /\ process # "down" \/ mempool # <<>> => TokensMapped
    /\ checkpointTallies[0].certified = 0
    /\ nextInboundNonce = Cardinality(processedBridges)

RelayInv ==
    /\ SettlementInv /\ RelayTypeOK
    /\ MempoolInv /\ ClearingInv /\ TasksInv /\ ContractInv
    /\ ClearingLeavesNothingBehind /\ LinkedBurnsAreBridged

-----------------------------------------------------------------------------
(* Sequences.                                                               *)

(* What is behind the head moves up by one.                                 *)
LEMMA TailFacts ==
    ASSUME NEW S, NEW s \in Seq(S), s # <<>>
    PROVE  /\ Head(s) = s[1] /\ 1 \in DOMAIN s /\ Tail(s) \in Seq(S)
           /\ \A i \in DOMAIN Tail(s) : /\ i \in Nat /\ i >= 1
                                        /\ i + 1 \in DOMAIN s
                                        /\ Tail(s)[i] = s[i + 1]
           /\ \A i \in DOMAIN s : i # 1 => i \in Nat /\ i - 1 \in DOMAIN Tail(s)
BY HeadTailProperties

(* A new last element leaves the others where they are.                     *)
LEMMA AppendFacts ==
    ASSUME NEW S, NEW s \in Seq(S), NEW e \in S
    PROVE  /\ Append(s, e) \in Seq(S)
           /\ DOMAIN s \subseteq Nat
           /\ DOMAIN Append(s, e) = DOMAIN s \cup {Len(s) + 1}
           /\ Len(s) + 1 \notin DOMAIN s
           /\ \A i \in DOMAIN s : i < Len(s) + 1 /\ Append(s, e)[i] = s[i]
           /\ Append(s, e)[Len(s) + 1] = e
BY AppendProperties

-----------------------------------------------------------------------------
(* The contract's answers.                                                  *)

(* What is known of the burns.                                              *)
LEMMA BurnFacts ==
    ASSUME NEW h \in Hashes
    PROVE  /\ Burns[h].from \in Accounts /\ Burns[h].bbNonce \in Nat
           /\ Burns[h].checkpoint \in 1..MaxCheckpoint
           /\ Burns[h].checkpoint \in Checkpoints
           /\ h \in BurnsOf(Burns[h].checkpoint)
BY BurnsAssumption, ContractAssumption
   DEF BurnsAssumption, BurnType, BurnsOf, Checkpoints, ContractAssumption

(* The burns that a checkpoint's list holds are those of the checkpoint.     *)
LEMMA ListedBurns ==
    ASSUME NEW c \in Checkpoints
    PROVE  /\ CheckpointTxs[c] \in Seq(Hashes)
           /\ \A i \in DOMAIN CheckpointTxs[c] :
                  /\ CheckpointTxs[c][i] \in Hashes
                  /\ Burns[CheckpointTxs[c][i]].checkpoint = c
           /\ \A h \in BurnsOf(c) : \E i \in DOMAIN CheckpointTxs[c] :
                  CheckpointTxs[c][i] = h
<1>1. /\ CheckpointTxs[c] \in Seq(Hashes)
      /\ {CheckpointTxs[c][i] : i \in DOMAIN CheckpointTxs[c]} = BurnsOf(c)
  BY RelayAssumption DEF RelayAssumption
<1>2. \A i \in DOMAIN CheckpointTxs[c] : CheckpointTxs[c][i] \in BurnsOf(c)
  BY <1>1
<1> QED
  BY <1>1, <1>2 DEF BurnsOf

(* An open checkpoint has room in its counters for all its burns.            *)
LEMMA OpenAccepted ==
    ASSUME SettlementInv, NEW c \in 1..MaxCheckpoint, Open(c)
    PROVE  CheckpointAccepted(c)
<1> DEFINE new == {h \in BurnsOf(c) : checkpointIdsBySourceHash[h] = 0}
<1>1. c \in Checkpoints /\ c # 0 /\ c >= earliestIncompletedCheckpoint
  BY ContractAssumption DEF Open, EnsureCheckpointNotCompleted, Checkpoints,
                            ContractAssumption
<1>2. /\ CertifiedBurns(c) \in {{}, BurnsOf(c)}
      /\ checkpointTallies[c].certified = Cardinality(CertifiedBurns(c))
      /\ checkpointTallies[c].completed
             <= Cardinality(CertifiedBurns(c) \cap processedBridges)
  BY <1>1 DEF SettlementInv, TallyCountsBurns
<1>3. /\ Cardinality(BurnsOf(c)) <= MaxUint32 /\ MaxUint32 \in Nat
      /\ checkpointTallies[c].completed \in Nat
  BY <1>1, CounterAssumption, ContractAssumption
     DEF CounterAssumption, ContractAssumption, SettlementInv, TypeOK
<1>4. ASSUME NEW S \in SUBSET BurnsOf(c)
      PROVE  Cardinality(S) \in Nat /\ Cardinality(S) <= MaxUint32
  <2>1. BurnsOf(c) \in SUBSET Hashes /\ S \in SUBSET Hashes
    BY DEF BurnsOf
  <2>2. Cardinality(S) <= Cardinality(BurnsOf(c))
    BY <2>1, HashSetFinite, FS_Subset
  <2> QED
    BY <1>3, <2>1, <2>2, HashSetFinite
<1>5. CASE CertifiedBurns(c) = {}
  <2>1. CertifiedBurns(c) \cap processedBridges = {} /\ Cardinality({}) = 0
    BY <1>5, FS_EmptySet
  <2>2. /\ checkpointTallies[c].certified = 0
        /\ checkpointTallies[c].completed = 0
    BY <1>2, <1>3, <1>5, <2>1
  <2>3. new \in SUBSET BurnsOf(c) /\ new \cap processedBridges \in SUBSET BurnsOf(c)
    OBVIOUS
  <2> QED
    BY <1>4, <2>2, <2>3 DEF CheckpointAccepted, Open
<1>6. CASE CertifiedBurns(c) = BurnsOf(c)
  <2>1. new = {} /\ new \cap processedBridges = {} /\ Cardinality({}) = 0
    BY <1>1, <1>6, FS_EmptySet DEF CertifiedBurns
  <2>2. /\ CertifiedBurns(c) \in SUBSET BurnsOf(c)
        /\ CertifiedBurns(c) \cap processedBridges \in SUBSET BurnsOf(c)
    BY <1>6
  <2> HIDE DEF new
  <2>3. /\ checkpointTallies[c].certified + Cardinality(new) <= MaxUint32
        /\ checkpointTallies[c].completed + Cardinality(new \cap processedBridges)
               <= MaxUint32
    BY <1>2, <1>3, <1>4, <2>1, <2>2
  <2> QED
    BY <2>3 DEF CheckpointAccepted, Open, new
<1> QED
  BY <1>2, <1>5, <1>6

(* The checkpoint of an unbridged burn is open, and its tally has room.      *)
LEMMA UnbridgedOpen ==
    ASSUME SettlementInv, NEW h \in Hashes, h \notin processedBridges
    PROVE  /\ Open(Burns[h].checkpoint)
           /\ checkpointTallies[Burns[h].checkpoint].completed < MaxUint32
<1> DEFINE c == Burns[h].checkpoint
<1>1. c \in 1..MaxCheckpoint /\ c \in Checkpoints /\ h \in BurnsOf(c)
  BY BurnFacts
<1>2. ~ Closed(c)
  BY <1>1, InvClosedBridged DEF ClosedCheckpointBridged
<1>3. c >= earliestIncompletedCheckpoint
  BY <1>1, <1>2, ContractAssumption
     DEF Closed, SettlementInv, TypeOK, ContractAssumption
<1>4. CertifiedBurns(c) \cap processedBridges \in SUBSET (BurnsOf(c) \ {h})
  BY <1>1 DEF SettlementInv, TallyCountsBurns
<1>5. /\ checkpointTallies[c].completed \in Nat
      /\ checkpointTallies[c].completed
             <= Cardinality(CertifiedBurns(c) \cap processedBridges)
  BY <1>1, <1>3 DEF SettlementInv, TallyCountsBurns, TypeOK
<1>6. BurnsOf(c) \in SUBSET Hashes
  BY DEF BurnsOf
<1>7. /\ IsFiniteSet(BurnsOf(c) \ {h})
      /\ Cardinality(BurnsOf(c) \ {h}) = Cardinality(BurnsOf(c)) - 1
  BY <1>1, <1>6, HashSetFinite, FS_RemoveElement
<1>8. Cardinality(CertifiedBurns(c) \cap processedBridges)
          <= Cardinality(BurnsOf(c) \ {h})
  BY <1>4, <1>7, FS_Subset
<1>9. /\ Cardinality(BurnsOf(c)) <= MaxUint32 /\ MaxUint32 \in Nat
      /\ Cardinality(BurnsOf(c)) \in Nat
  BY <1>1, <1>6, HashSetFinite, CounterAssumption, ContractAssumption
     DEF CounterAssumption, ContractAssumption
<1>10. Cardinality(CertifiedBurns(c) \cap processedBridges) \in Nat
  BY <1>4, <1>6, HashSetFinite
<1> HIDE DEF c
<1>11. checkpointTallies[c].completed < MaxUint32
  BY <1>5, <1>7, <1>8, <1>9, <1>10
<1>12. Open(c)
  BY <1>2, <1>3 DEF Open, Closed, EnsureCheckpointNotCompleted
<1> QED
  BY <1>11, <1>12 DEF c

(* A bridgeTo of the relayer succeeds exactly when its nonce is due: that     *)
(* alone can make it revert.                                                *)
LEMMA BurnAcceptedWhenDue ==
    ASSUME SettlementInv, ContractInv, TokensMapped, NEW h \in Hashes,
           NEW c \in {0, Burns[h].checkpoint}
    PROVE  BurnAccepted(h, c, latestBbNonce[Burns[h].from])
               <=> Burns[h].bbNonce = latestBbNonce[Burns[h].from]
<1> SUFFICES ASSUME Burns[h].bbNonce = latestBbNonce[Burns[h].from]
             PROVE  BurnAccepted(h, c, latestBbNonce[Burns[h].from])
  BY DEF BurnAccepted
<1>1. h \notin processedBridges
  BY BurnFacts DEF SettlementInv, BridgedBelowNonce
<1>2. Burns[h].omToken \in OmTokens /\ Burns[h].bbNonce < MaxUint64
  BY BurnsAssumption, CounterAssumption
     DEF BurnsAssumption, BurnType, CounterAssumption
<1>3. nextInboundNonce # MaxUint64
  <2>1. /\ IsFiniteSet(Hashes) /\ processedBridges \in SUBSET Hashes
        /\ Hashes \in SUBSET Hashes
        /\ nextInboundNonce = Cardinality(processedBridges)
        /\ Cardinality(Hashes) <= MaxUint64 /\ MaxUint64 \in Nat
    BY ContractAssumption, CounterAssumption
       DEF ContractAssumption, CounterAssumption, SettlementInv, TypeOK, ContractInv
  <2>2. /\ Cardinality(processedBridges) <= Cardinality(Hashes)
        /\ Cardinality(processedBridges) # Cardinality(Hashes)
        /\ Cardinality(processedBridges) \in Nat /\ Cardinality(Hashes) \in Nat
    BY <1>1, <2>1, FS_Subset, HashSetFinite
  <2> QED
    BY <2>1, <2>2
<1>4. Open(c) /\ (c > 0 => checkpointTallies[c].completed < MaxUint32)
  <2>1. CASE c = 0
    BY <2>1 DEF Open, EnsureCheckpointNotCompleted, IsCheckpointComplete, ContractInv
  <2>2. CASE c = Burns[h].checkpoint
    BY <1>1, <2>2, UnbridgedOpen
  <2> QED
    BY <2>1, <2>2
<1> QED
  BY <1>2, <1>3, <1>4 DEF BurnAccepted, Open, TokensMapped, ContractInv

-----------------------------------------------------------------------------
(* What a transaction of the relayer does to the contract.                   *)

PaysOut(h) ==
    /\ h \notin processedBridges
    /\ processedBridges' = processedBridges \cup {h}
    /\ Burns[h].bbNonce = latestBbNonce[Burns[h].from]
    /\ latestBbNonce' = [latestBbNonce EXCEPT ![Burns[h].from] = Burns[h].bbNonce + 1]
    /\ nextInboundNonce' = nextInboundNonce + 1
    /\ UNCHANGED tokensByOm

(* A successful bridgeTo pays one burn out and uses one number.              *)
LEMMA BridgeToPays ==
    ASSUME SettlementInv, NEW sender, NEW h \in Hashes,
           NEW c \in {0, Burns[h].checkpoint}, BridgeTo(sender, Request(h, c))
    PROVE  /\ PaysOut(h)
           /\ c = 0 => UNCHANGED <<checkpointTallies, earliestIncompletedCheckpoint,
                                   checkpointIdsBySourceHash>>
<1>1. h \notin processedBridges /\ processedBridges' = processedBridges \cup {h}
  BY PayoutIsNew DEF SettlementInv
<1>2. /\ Burns[h].bbNonce = latestBbNonce[Burns[h].from]
      /\ latestBbNonce' = [latestBbNonce EXCEPT
             ![Burns[h].from] = Burns[h].bbNonce + 1]
      /\ nextInboundNonce' = nextInboundNonce + 1
      /\ UNCHANGED tokensByOm
  BY DEF BridgeTo, BridgeToValidated, EnforceSequentialNonce, Request,
         IncreaseInboundNonce, tokenVars
<1>3. c = 0 => UNCHANGED <<checkpointTallies, earliestIncompletedCheckpoint,
                           checkpointIdsBySourceHash>>
  BY DEF BridgeTo, RecordProcessedBridge, Request
<1> QED
  BY <1>1, <1>2, <1>3 DEF PaysOut

(* A successful updateCheckpointInfo pays nothing out, and certifies.        *)
LEMMA CheckpointCertifies ==
    ASSUME SettlementInv, NEW sender, NEW c \in Checkpoints,
           RelayCheckpoint(sender, c)
    PROVE  /\ UNCHANGED <<processedBridges, latestBbNonce, nextInboundNonce, tokensByOm>>
           /\ BurnsOf(c) # {} => CertifiedBurns(c)' # {}
<1>1. UNCHANGED <<processedBridges, latestBbNonce, nextInboundNonce, tokensByOm>>
  BY DEF RelayCheckpoint, UpdateCheckpointInfo, tokenVars, eventVars
<1>2. ASSUME NEW h \in BurnsOf(c)
      PROVE  h \in CertifiedBurns(c)'
  <2>1. h \in Hashes /\ Burns[h].checkpoint = c
    BY DEF BurnsOf
  <2>2. checkpointIdsBySourceHash[h] \in {0, c}
    <3>1. checkpointIdsBySourceHash[h] \in Checkpoints
      BY <2>1 DEF SettlementInv, TypeOK
    <3>2. ASSUME checkpointIdsBySourceHash[h] # 0
          PROVE  checkpointIdsBySourceHash[h] = c
      <4> DEFINE d == checkpointIdsBySourceHash[h]
      <4>1. d \in 1..MaxCheckpoint /\ h \in CertifiedBurns(d)
        BY <2>1, <3>1, <3>2, ContractAssumption
           DEF Checkpoints, CertifiedBurns, ContractAssumption
      <4>2. h \in BurnsOf(d)
        BY <4>1 DEF SettlementInv, TallyCountsBurns
      <4> QED
        BY <2>1, <4>2 DEF BurnsOf
    <3> QED
      BY <3>2
  <2>3. checkpointIdsBySourceHash'[h] = c
    BY <2>1, <2>2 DEF RelayCheckpoint, UpdateCheckpointInfo, BurnsOf
  <2> QED
    BY <2>1, <2>3 DEF CertifiedBurns
<1> QED
  BY <1>1, <1>2

(* A certified checkpoint stays certified.                                   *)
LEMMA CertifiedStays ==
    ASSUME SettlementInv, [SettlementNext]_vars,
           NEW c \in 1..MaxCheckpoint, CertifiedBurns(c) # {}
    PROVE  CertifiedBurns(c)' # {}
<1>1. ASSUME UNCHANGED tallyVars
      PROVE  CertifiedBurns(c)' # {}
  BY <1>1 DEF tallyVars, CertifiedBurns
<1>2. ASSUME NEW sender, NEW h \in Hashes, NEW d \in {0, Burns[h].checkpoint},
             BridgeTo(sender, Request(h, d))
      PROVE  CertifiedBurns(c)' # {}
  <2>1. PICK g \in CertifiedBurns(c) : TRUE
    OBVIOUS
  <2>2. g \in Hashes /\ checkpointIdsBySourceHash[g] = c /\ Burns[g].checkpoint = c
    BY <2>1 DEF CertifiedBurns, SettlementInv, TallyCountsBurns, BurnsOf
  <2>3. \/ UNCHANGED checkpointIdsBySourceHash
        \/ /\ checkpointIdsBySourceHash' = [checkpointIdsBySourceHash EXCEPT ![h] = d]
           /\ d = Burns[h].checkpoint
    BY <1>2 DEF BridgeTo, RecordProcessedBridge, Request
  <2>4. checkpointIdsBySourceHash'[g] = c
    BY <2>2, <2>3 DEF SettlementInv, TypeOK
  <2> QED
    BY <2>2, <2>4 DEF CertifiedBurns
<1>3. ASSUME NEW sender, NEW d \in Checkpoints, RelayCheckpoint(sender, d)
      PROVE  CertifiedBurns(c)' # {}
  <2>1. PICK g \in CertifiedBurns(c) : TRUE
    OBVIOUS
  <2>2. g \in Hashes /\ checkpointIdsBySourceHash[g] = c
    BY <2>1 DEF CertifiedBurns
  <2>3. checkpointIdsBySourceHash'[g] = c
    BY <1>3, <2>2 DEF RelayCheckpoint, UpdateCheckpointInfo
  <2> QED
    BY <2>2, <2>3 DEF CertifiedBurns
<1>4. ASSUME NEW sender \in Principals, SettlementCalls(sender)
      PROVE  CertifiedBurns(c)' # {}
  BY <1>2, <1>3, <1>4 DEF SettlementCalls, RelayLiveBurn, RelayCheckpointBurn
<1> QED
  BY <1>1, <1>4, OtherCallsFrame DEF SettlementNext

(* No burn is ever certified for checkpoint 0.                              *)
LEMMA ZeroTallyStays ==
    ASSUME SettlementInv, checkpointTallies[0].certified = 0,
           NEW sender, SettlementCalls(sender)
    PROVE  checkpointTallies'[0].certified = 0
<1>1. 0 \in Checkpoints /\ earliestIncompletedCheckpoint >= 1
      /\ earliestIncompletedCheckpoint \in Nat
  BY ContractAssumption DEF Checkpoints, SettlementInv, TypeOK, ContractAssumption
<1>2. ASSUME NEW tallies, NEW c, TryPruneCheckpoint(tallies, c),
             tallies[0].certified = 0
      PROVE  checkpointTallies'[0].certified = 0
  BY <1>1, <1>2 DEF TryPruneCheckpoint, EmptyTally
<1>3. ASSUME NEW h \in Hashes, NEW c \in {0, Burns[h].checkpoint},
             BridgeTo(sender, Request(h, c))
      PROVE  checkpointTallies'[0].certified = 0
  <2>1. CASE c > 0
    <3> DEFINE tallies == [checkpointTallies EXCEPT ![c].completed = @ + 1]
    <3>1. TryPruneCheckpoint(tallies, c)
      BY <1>3, <2>1 DEF BridgeTo, RecordProcessedBridge, Request
    <3>2. tallies[0].certified = 0
      BY <1>1, <2>1 DEF SettlementInv, TypeOK
    <3> QED
      BY <1>2, <3>1, <3>2
  <2>2. CASE c = 0
    BY <1>3, <2>2, BridgeToPays
  <2> QED
    BY <2>1, <2>2, BurnFacts
<1>4. ASSUME NEW c \in Checkpoints, RelayCheckpoint(sender, c)
      PROVE  checkpointTallies'[0].certified = 0
  <2> DEFINE new == {h \in BurnsOf(c) : checkpointIdsBySourceHash[h] = 0}
             tallies == [checkpointTallies EXCEPT ![c] =
                   [certified |-> @.certified + Cardinality(new),
                    completed |-> @.completed
                                  + Cardinality(new \cap processedBridges)]]
  <2>1. TryPruneCheckpoint(tallies, c)
    BY <1>4 DEF RelayCheckpoint, UpdateCheckpointInfo
  <2>2. c = 0 => Cardinality(new) = 0
    <3>1. c = 0 => new = {}
      BY BurnFacts DEF BurnsOf
    <3> QED
      BY <3>1, FS_EmptySet
  <2> HIDE DEF new
  <2>3. tallies[0].certified = 0
    BY <1>1, <2>2 DEF SettlementInv, TypeOK
  <2> QED
    BY <1>2, <2>1, <2>3
<1> QED
  BY <1>3, <1>4 DEF SettlementCalls, RelayLiveBurn, RelayCheckpointBurn

(* What the execution of the first transaction in the mempool does.          *)
LEMMA ExecuteEffect ==
    ASSUME RelayInv, Execute, NEW tx, tx = Head(mempool)
    PROVE  /\ [SettlementNext]_vars
           /\ processedBridges \subseteq processedBridges'
           /\ UNCHANGED tokensByOm
           /\ checkpointTallies'[0].certified = 0
           /\ nextInboundNonce' = Cardinality(processedBridges')
           /\ tx.burn = NoBurn =>
                  /\ UNCHANGED <<processedBridges, latestBbNonce>>
                  /\ process = "relaying" =>
                         (BurnsOf(tx.checkpoint) # {}
                             => CertifiedBurns(tx.checkpoint)' # {})
           /\ tx.burn # NoBurn =>
                  /\ tx.burn \in processedBridges'
                  /\ PaysOut(tx.burn) \/ UNCHANGED vars
           /\ tx.task = "live" => UNCHANGED <<checkpointTallies,
                                              earliestIncompletedCheckpoint>>
<1> USE DEF RelayInv
<1>1. /\ mempool # <<>> /\ mempool \in Seq(Transactions)
      /\ tx = mempool[1] /\ 1 \in DOMAIN mempool /\ tx \in Transactions
  BY TailFacts DEF Execute, RelayTypeOK
<1>2. /\ tx.task \in Tasks /\ tx.checkpoint \in Checkpoints
      /\ tx.burn # NoBurn => tx.burn \in Hashes
  BY <1>1 DEF Transactions
<1>3. Allowed(tx) /\ (tx.burn # NoBurn => Ready(1))
      /\ (process = "relaying" => Awaited(tx))
  BY <1>1 DEF MempoolInv
<1>4. TokensMapped /\ relayer \in Principals
  BY <1>1 DEF ContractInv, SettlementInv, TypeOK
<1>5. IF Succeeds(tx) THEN Call(tx) ELSE UNCHANGED vars
  BY DEF Execute
<1>6. UNCHANGED vars =>
          /\ processedBridges' = processedBridges /\ UNCHANGED tokensByOm
          /\ UNCHANGED <<checkpointTallies, earliestIncompletedCheckpoint>>
          /\ UNCHANGED <<nextInboundNonce, latestBbNonce>>
  BY DEF vars, tallyVars, tokenVars, eventVars
<1>7. IsFiniteSet(processedBridges)
  BY HashSetFinite DEF SettlementInv, TypeOK
<1>8. CASE tx.burn = NoBurn
  <2>1. CASE ~ Succeeds(tx)
    <3>1. process = "relaying" => tx.checkpoint = 0
      <4> SUFFICES ASSUME process = "relaying", tx.checkpoint # 0
                   PROVE  FALSE
        OBVIOUS
      <4>1. Open(tx.checkpoint)
        BY <1>3, <1>8 DEF Awaited, ClearingInv, Job
      <4>2. tx.checkpoint \in 1..MaxCheckpoint
        BY <1>2, ContractAssumption DEF Checkpoints, ContractAssumption
      <4> QED
        BY <1>8, <2>1, <4>1, <4>2, OpenAccepted DEF Succeeds
    <3>2. BurnsOf(0) = {}
      BY BurnFacts DEF BurnsOf
    <3>3. UNCHANGED vars
      BY <1>5, <2>1
    <3> QED
      BY <1>6, <1>8, <3>1, <3>2, <3>3 DEF ContractInv
  <2>2. CASE RelayCheckpoint(relayer, tx.checkpoint)
    <3>1. /\ UNCHANGED <<processedBridges, latestBbNonce, nextInboundNonce, tokensByOm>>
          /\ BurnsOf(tx.checkpoint) # {} => CertifiedBurns(tx.checkpoint)' # {}
      BY <1>2, <2>2, CheckpointCertifies
    <3>2. SettlementCalls(relayer)
      BY <1>2, <2>2 DEF SettlementCalls
    <3>3. checkpointTallies'[0].certified = 0
      BY <3>2, ZeroTallyStays DEF ContractInv
    <3>4. tx.task # "live"
      BY <1>3, <1>8 DEF Allowed
    <3> QED
      BY <1>4, <1>8, <3>1, <3>2, <3>3, <3>4 DEF SettlementNext, ContractInv
  <2> QED
    BY <1>5, <1>8, <2>1, <2>2 DEF Call
<1>9. CASE tx.burn # NoBurn
  <2> DEFINE h == tx.burn
  <2>1. h \in Hashes /\ tx.checkpoint \in {0, Burns[h].checkpoint}
        /\ (tx.task = "live" => tx.checkpoint = 0)
        /\ (tx.checkpoint # 0 => CertifiedBurns(Burns[h].checkpoint) # {})
    BY <1>2, <1>3, <1>9 DEF Allowed
  <2>2. Burns[h].bbNonce <= latestBbNonce[Burns[h].from]
    BY <1>1, <1>3, <1>9 DEF Ready, RelayTypeOK
  <2>3. CASE ~ Succeeds(tx)
    <3>1. Burns[h].bbNonce # latestBbNonce[Burns[h].from]
      BY <1>4, <1>9, <2>1, <2>3, BurnAcceptedWhenDue
         DEF Succeeds, GetLatestProcessedNonce
    <3>2. h \in processedBridges
      <4>1. Burns[h].bbNonce \in Nat /\ latestBbNonce[Burns[h].from] \in Nat
        BY <2>1, BurnFacts DEF SettlementInv, TypeOK
      <4> QED
        BY <2>1, <2>2, <3>1, <4>1 DEF SettlementInv, BridgedBelowNonce
    <3>3. UNCHANGED vars
      BY <1>5, <2>3
    <3> QED
      BY <1>6, <1>9, <3>2, <3>3 DEF ContractInv
  <2>4. CASE BridgeTo(relayer, Request(h, tx.checkpoint))
    <3>1. /\ PaysOut(h)
          /\ tx.checkpoint = 0 => UNCHANGED <<checkpointTallies,
                 earliestIncompletedCheckpoint, checkpointIdsBySourceHash>>
      BY <2>1, <2>4, BridgeToPays
    <3>2. SettlementCalls(relayer)
      BY <2>1, <2>4 DEF SettlementCalls, RelayLiveBurn, RelayCheckpointBurn
    <3>3. checkpointTallies'[0].certified = 0
      BY <3>2, ZeroTallyStays DEF ContractInv
    <3>4. Cardinality(processedBridges') = Cardinality(processedBridges) + 1
      BY <1>7, <3>1, FS_AddElement DEF PaysOut
    <3>5. [SettlementNext]_vars
      BY <1>4, <3>2 DEF SettlementNext
    <3> QED
      BY <1>9, <2>1, <3>1, <3>3, <3>4, <3>5 DEF PaysOut, ContractInv
  <2> QED
    BY <1>5, <1>9, <2>3, <2>4 DEF Call
<1> QED
  BY <1>8, <1>9

-----------------------------------------------------------------------------
(* Steps that leave the contract alone.                                     *)

LEMMA ContractStill ==
    ASSUME UNCHANGED vars
    PROVE  /\ UNCHANGED <<processedBridges, latestBbNonce, nextInboundNonce, tokensByOm,
                          checkpointTallies, earliestIncompletedCheckpoint,
                          checkpointIdsBySourceHash>>
           /\ \A c : CertifiedBurns(c)' = CertifiedBurns(c)
BY DEF vars, tallyVars, tokenVars, eventVars, CertifiedBurns

JobTable == [Tasks -> [state : JobStates, burn : Hashes \cup {NoBurn}]]

(* The checkpoint a task works on, and the jobs there are.                   *)
LEMMA JobFacts ==
    ASSUME RelayTypeOK, NEW t \in Tasks
    PROVE  /\ job \in JobTable
           /\ job[t] = Job(job[t].state, job[t].burn)
           /\ job[t].state \in JobStates
BY DEF RelayTypeOK, JobTable, Job

(* The clearing task has done n burns of its checkpoint, and goes on to the   *)
(* next burn or the next checkpoint.                                        *)
LEMMA ClearingMoves ==
    ASSUME RelayTypeOK, process = "relaying", UNCHANGED process,
           NEW c \in Checkpoints, c = checkpoint,
           NEW n \in 0..Len(CheckpointTxs[c]), ClearingAfter(n),
           \A i \in 1..n : CheckpointTxs[c][i] \in processedBridges',
           processedBridges \subseteq processedBridges',
           BurnsOf(c) # {} => CertifiedBurns(c)' # {},
           ClearingLeavesNothingBehind
    PROVE  /\ ClearingInv' /\ ClearingLeavesNothingBehind'
           /\ job' \in JobTable /\ job'["live"] = job["live"]
           /\ job'["clearing"].state \in {"register", "fetch"}
           /\ job'["clearing"].state \in BurnStates => job'["clearing"].burn \in Hashes
           /\ checkpoint' \in 0..MaxCheckpoint + 1 /\ position' \in Nat
<1> DEFINE txs == CheckpointTxs[c]
<1>1. /\ txs \in Seq(Hashes) /\ Len(txs) \in Nat
      /\ \A i \in DOMAIN txs : txs[i] \in Hashes /\ Burns[txs[i]].checkpoint = c
      /\ \A h \in BurnsOf(c) : \E i \in DOMAIN txs : txs[i] = h
  BY ListedBurns
<1>2. DOMAIN txs = 1..Len(txs)
  BY <1>1
<1>3. job \in JobTable /\ "live" \in Tasks /\ "clearing" \in Tasks
      /\ MaxCheckpoint \in Nat /\ c \in 0..MaxCheckpoint
  BY ContractAssumption DEF RelayTypeOK, JobTable, Tasks, ContractAssumption, Checkpoints
<1>4. CASE n < Len(txs)
  <2>1. /\ job' = [job EXCEPT !["clearing"] = Job("register", txs[n + 1])]
        /\ position' = n /\ checkpoint' = c
    BY <1>4 DEF ClearingAfter
  <2>2. n + 1 \in DOMAIN txs /\ txs[n + 1] \in Hashes /\ n \in Nat
    BY <1>1, <1>2, <1>4
  <2>3. job' \in JobTable
    BY <1>3, <2>1, <2>2 DEF JobTable, Job, JobStates
  <2>4. /\ job'["clearing"].state = "register" /\ job'["clearing"].burn = txs[n + 1]
        /\ job'["live"] = job["live"]
    BY <1>3, <2>1 DEF JobTable, Job
  <2>5. CertifiedBurns(c)' # {}
    BY <1>1, <2>2 DEF BurnsOf
  <2>6. ClearingInv'
    BY <2>1, <2>2, <2>4, <2>5 DEF ClearingInv, BurnStates, CertifiedBurns
  <2>7. ClearingLeavesNothingBehind'
    BY <2>1 DEF ClearingLeavesNothingBehind
  <2> QED
    BY <1>3, <2>1, <2>2, <2>3, <2>4, <2>6, <2>7
<1>5. CASE ~ n < Len(txs)
  <2>1. /\ job' = [job EXCEPT !["clearing"] = Job("fetch", NoBurn)]
        /\ position' = 0 /\ checkpoint' = c + 1
    BY <1>5 DEF ClearingAfter
  <2>2. job' \in JobTable
    BY <1>3, <2>1 DEF JobTable, Job, JobStates
  <2>3. job'["clearing"].state = "fetch" /\ job'["live"] = job["live"]
    BY <1>3, <2>1 DEF JobTable, Job
  <2>4. \A h \in BurnsOf(c) : h \in processedBridges'
    BY <1>1, <1>2, <1>5
  <2>5. ClearingLeavesNothingBehind'
    <3> SUFFICES ASSUME NEW h \in Hashes, Burns[h].checkpoint < c + 1
                 PROVE  h \in processedBridges'
      BY <2>1 DEF ClearingLeavesNothingBehind
    <3>1. CASE Burns[h].checkpoint = c
      BY <2>4, <3>1 DEF BurnsOf
    <3>2. CASE Burns[h].checkpoint < c
      BY <3>2 DEF ClearingLeavesNothingBehind
    <3> QED
      BY <1>3, <3>1, <3>2, BurnFacts
  <2>6. ClearingInv'
    BY <2>3 DEF ClearingInv, BurnStates
  <2> QED
    BY <1>3, <2>1, <2>2, <2>3, <2>5, <2>6 DEF BurnStates
<1> QED
  BY <1>4, <1>5

(* A task that waits for no receipt may change its job without disturbing the *)
(* mempool.                                                                 *)
LEMMA OtherTasksWait ==
    ASSUME RelayTypeOK, MempoolInv, UNCHANGED <<vars, mempool, process>>,
           NEW t \in Tasks, job[t].state \notin {"certifying", "mining"},
           \A s \in Tasks : s # t => job'[s] = job[s],
           t = "live" => checkpoint' = checkpoint
    PROVE  MempoolInv'
<1>1. \A i \in DOMAIN mempool : mempool[i] \in Transactions /\ i \in Nat
  BY DEF RelayTypeOK
<1>2. \A i \in DOMAIN mempool : mempool[i].burn # NoBurn => Ready(i)'
  BY ContractStill DEF MempoolInv, Ready
<1>3. \A i \in DOMAIN mempool : Allowed(mempool[i])'
  BY ContractStill DEF MempoolInv, Allowed
<1>4. ASSUME NEW i \in DOMAIN mempool, process = "relaying"
      PROVE  Awaited(mempool[i])'
  <2>1. Awaited(mempool[i]) /\ mempool[i].task \in Tasks
    BY <1>1, <1>4 DEF MempoolInv, Transactions
  <2>2. CASE mempool[i].burn = NoBurn
    <3>1. t = "live"
      BY <2>1, <2>2 DEF Awaited, Job, Tasks
    <3> QED
      BY <2>1, <2>2, <3>1 DEF Awaited, Tasks
  <2>3. CASE mempool[i].burn # NoBurn
    <3>1. mempool[i].task # t
      BY <2>1, <2>3 DEF Awaited, Job
    <3> QED
      BY <2>1, <2>3, <3>1 DEF Awaited
  <2> QED
    BY <2>2, <2>3
<1> QED
  BY <1>2, <1>3, <1>4 DEF MempoolInv

-----------------------------------------------------------------------------
(* Steps of the networks and of the process as a whole.                      *)

LEMMA StillSettled ==
    ASSUME SettlementInv, UNCHANGED vars
    PROVE  SettlementInv'
BY SettlementStep

(* 1Money certifies burns and forms checkpoints.                             *)
LEMMA NetworkInv ==
    ASSUME RelayInv, (\E h \in Hashes : CertifyBurn(h)) \/ FormCheckpoint
    PROVE  RelayInv'
<1>1. UNCHANGED <<vars, process, unrecovered, job, checkpoint, position, mempool, mapping,
                  crashes>>
  BY DEF CertifyBurn, FormCheckpoint, relayerVars
<1>2. SettlementInv'
  BY <1>1, StillSettled DEF RelayInv
<1>3. RelayTypeOK'
  <2>1. ASSUME NEW h \in Hashes, CertifyBurn(h)
        PROVE  certified' \subseteq Hashes /\ height' \in Checkpoints
                   /\ liveQueue' \in Seq(Hashes)
    BY <2>1, AppendFacts DEF CertifyBurn, RelayInv, RelayTypeOK
  <2>2. ASSUME FormCheckpoint
        PROVE  certified' \subseteq Hashes /\ height' \in Checkpoints
                   /\ liveQueue' \in Seq(Hashes)
    BY <2>2, ContractAssumption DEF FormCheckpoint, relayerVars, RelayInv, RelayTypeOK,
       Checkpoints, ContractAssumption
  <2> QED
    BY <1>1, <1>2, <2>1, <2>2 DEF RelayInv, RelayTypeOK, SettlementInv
<1>4. MempoolInv'
  BY <1>1, ContractStill DEF RelayInv, MempoolInv, Allowed, Ready, Awaited
<1>5. ClearingInv' /\ TasksInv' /\ ClearingLeavesNothingBehind' /\ LinkedBurnsAreBridged'
  BY <1>1, ContractStill
     DEF RelayInv, ClearingInv, TasksInv, ClearingLeavesNothingBehind,
         LinkedBurnsAreBridged, Open, EnsureCheckpointNotCompleted, IsCheckpointComplete
<1>6. ContractInv'
  BY <1>1, ContractStill DEF RelayInv, ContractInv, TokensMapped
<1> QED
  BY <1>2, <1>3, <1>4, <1>5, <1>6 DEF RelayInv

(* Mapping a token at deployment is a call of the operator.                  *)
LEMMA DeployAllowed ==
    ASSUME RelayInv, Deploy
    PROVE  [SettlementNext]_vars
<1>1. operator \in Principals
  BY DEF RelayInv, SettlementInv, TypeOK
<1>2. OperatorCalls(operator)
  BY DEF Deploy, OperatorCalls, Protocols
<1> QED
  BY <1>1, <1>2 DEF SettlementNext

LEMMA DeployInv ==
    ASSUME RelayInv, Deploy
    PROVE  RelayInv'
<1>1. UNCHANGED <<oneMoneyVars, relayerVars, mempool, mapping, crashes>>
  BY DEF Deploy
<1>2. PICK om \in OmTokens, sc \in ScTokens :
          /\ tokensByOm[om] = NoBinding
          /\ MapTokenAddresses(operator, om, sc, "Mock")
  BY DEF Deploy
<1>3. SettlementInv'
  BY DeployAllowed, SettlementStep DEF RelayInv
<1>4. UNCHANGED <<tallyVars, nextInboundNonce>>
  BY <1>2 DEF MapTokenAddresses, eventVars
<1>5. UNCHANGED <<processedBridges, latestBbNonce, checkpointTallies,
                  earliestIncompletedCheckpoint, checkpointIdsBySourceHash>>
      /\ \A c : CertifiedBurns(c)' = CertifiedBurns(c)
  BY <1>4 DEF tallyVars, CertifiedBurns
<1>6. RelayTypeOK'
  BY <1>1, <1>3 DEF oneMoneyVars, relayerVars, RelayInv, RelayTypeOK, SettlementInv
<1>7. MempoolInv'
  BY <1>1, <1>5 DEF relayerVars, RelayInv, MempoolInv, Allowed, Ready, Awaited
<1>8. ClearingInv' /\ TasksInv' /\ ClearingLeavesNothingBehind' /\ LinkedBurnsAreBridged'
  BY <1>1, <1>5
     DEF relayerVars, RelayInv, ClearingInv, TasksInv, ClearingLeavesNothingBehind,
         LinkedBurnsAreBridged, Open, EnsureCheckpointNotCompleted, IsCheckpointComplete
<1>9. ContractInv'
  <2>1. tokensByOm' = [tokensByOm EXCEPT ![om] =
            [omToken |-> om, scToken |-> sc, protocol |-> "Mock"]]
    BY <1>2 DEF MapTokenAddresses
  <2>2. [omToken |-> om, scToken |-> sc, protocol |-> "Mock"] \in Bindings
    BY DEF Bindings, Protocols
  <2>3. /\ tokensByOm \in [OmTokens -> Bindings \cup {NoBinding}]
        /\ NoBinding \notin Bindings
    BY ContractAssumption DEF ContractAssumption, RelayInv, SettlementInv, TypeOK
  <2>4. \A o \in OmTokens : tokensByOm'[o] # NoBinding => tokensByOm'[o].protocol = "Mock"
    BY <2>1, <2>2, <2>3 DEF RelayInv, ContractInv
  <2>5. TokensMapped => TokensMapped'
    BY <2>1, <2>2, <2>3 DEF TokensMapped
  <2> QED
    BY <1>1, <1>4, <1>5, <2>4, <2>5 DEF RelayInv, ContractInv, relayerVars
<1> QED
  BY <1>3, <1>6, <1>7, <1>8, <1>9 DEF RelayInv

(* The process ends, by an error or by a crash.                              *)
LEMMA StoppedInv ==
    ASSUME RelayInv, Stopped, UNCHANGED <<vars, oneMoneyVars, mempool, mapping>>,
           crashes' \in 0..MaxCrashes
    PROVE  RelayInv'
<1>1. SettlementInv'
  BY StillSettled DEF RelayInv
<1>2. RelayTypeOK'
  <2>1. /\ job' \in JobTable /\ liveQueue' \in Seq(Hashes)
        /\ checkpoint' \in 0..MaxCheckpoint + 1 /\ position' \in Nat
        /\ process' \in {"down", "recovering", "relaying"} /\ unrecovered' = {}
    BY ContractAssumption DEF Stopped, Job, JobTable, JobStates, ContractAssumption
  <2> QED
    BY <1>1, <2>1 DEF oneMoneyVars, RelayInv, RelayTypeOK, SettlementInv, JobTable
<1>3. MempoolInv'
  BY ContractStill DEF Stopped, RelayInv, MempoolInv, Allowed, Ready
<1>4. ClearingInv' /\ ClearingLeavesNothingBehind' /\ LinkedBurnsAreBridged'
  BY ContractStill DEF Stopped, RelayInv, ClearingInv, ClearingLeavesNothingBehind,
     LinkedBurnsAreBridged
<1>5. TasksInv'
  <2>1. \A t \in Tasks : job'[t].state = "idle"
    BY DEF Stopped, Job
  <2> QED
    BY <2>1 DEF Stopped, TasksInv, BurnStates, Tasks
<1>6. ContractInv'
  BY ContractStill DEF RelayInv, ContractInv, TokensMapped, Stopped
<1> QED
  BY <1>1, <1>2, <1>3, <1>4, <1>5, <1>6 DEF RelayInv

(* Starting, and the recovery of the hash mapping.                           *)
LEMMA RecoveryInv ==
    ASSUME RelayInv,
           Start \/ DropPending \/ \E h \in Hashes : RecoverLink(h) \/ RecoverSkips(h)
    PROVE  RelayInv'
<1>1. UNCHANGED <<vars, oneMoneyVars, liveQueue, job, checkpoint, position, crashes>>
  BY DEF Start, RecoverLink, RecoverSkips, DropPending, relayerVars
<1>2. SettlementInv'
  BY <1>1, StillSettled DEF RelayInv
<1>3. /\ process # "relaying" /\ process' \in {"down", "recovering"}
      /\ unrecovered' \subseteq Hashes
      /\ mempool' \in {mempool, <<>>}
      /\ (process' # process => mempool' = <<>> /\ TokensMapped)
      /\ mapping' \in [Hashes -> {"none", "registered", "linked"}]
      /\ \A h \in Hashes : mapping'[h] = "linked"
             => mapping[h] = "linked" \/ h \in processedBridges
  BY DEF Start, RecoverLink, RecoverSkips, DropPending, relayerVars, RelayInv, RelayTypeOK
<1>4. RelayTypeOK'
  <2>1. /\ mempool' \in Seq(Transactions)
        /\ \A i, j \in DOMAIN mempool' : mempool'[i].task = mempool'[j].task => i = j
    <3>1. CASE mempool' = mempool
      BY <3>1 DEF RelayInv, RelayTypeOK
    <3>2. CASE mempool' = <<>>
      <4>1. DOMAIN mempool' = {} /\ mempool' \in Seq(Transactions)
        BY <3>2
      <4> QED
        BY <4>1
    <3> QED
      BY <1>3, <3>1, <3>2
  <2> QED
    BY <1>1, <1>2, <1>3, <2>1 DEF oneMoneyVars, RelayInv, RelayTypeOK, SettlementInv
<1>5. MempoolInv'
  <2>1. CASE mempool' = <<>>
    BY <2>1 DEF MempoolInv
  <2>2. CASE mempool' = mempool /\ process' = process
    BY <1>1, <1>3, <2>2, ContractStill DEF RelayInv, MempoolInv, Allowed, Ready
  <2> QED
    BY <1>3, <2>1, <2>2
<1>6. ClearingInv' /\ ClearingLeavesNothingBehind' /\ TasksInv'
  BY <1>1, <1>3, ContractStill DEF RelayInv, ClearingInv, ClearingLeavesNothingBehind,
     TasksInv
<1>7. LinkedBurnsAreBridged'
  BY <1>1, <1>3, ContractStill DEF RelayInv, LinkedBurnsAreBridged
<1>8. ContractInv'
  BY <1>1, <1>3, ContractStill DEF RelayInv, ContractInv, TokensMapped
<1> QED
  BY <1>2, <1>4, <1>5, <1>6, <1>7, <1>8 DEF RelayInv

(* The tasks start; the clearing task at a checkpoint before which every      *)
(* checkpoint has been pruned.                                              *)
LEMMA StartTasksInv ==
    ASSUME RelayInv, StartTasks
    PROVE  RelayInv'
<1>1. /\ UNCHANGED <<vars, oneMoneyVars, liveQueue, mempool, mapping, crashes>>
      /\ process = "recovering" /\ process' = "relaying"
      /\ checkpoint' = GetLatestCompletedCheckpoint /\ position' = 0
      /\ unrecovered' = {}
  BY DEF StartTasks, TasksStart
<1>2. SettlementInv'
  BY <1>1, StillSettled DEF RelayInv
<1>3. /\ earliestIncompletedCheckpoint \in 1..MaxCheckpoint + 1 /\ MaxCheckpoint \in Nat
      /\ checkpoint' = earliestIncompletedCheckpoint - 1
  BY <1>1, ContractAssumption DEF RelayInv, SettlementInv, TypeOK, ContractAssumption,
                                  GetLatestCompletedCheckpoint
<1>4. /\ job' \in JobTable
      /\ job'["clearing"] = Job("fetch", NoBurn)
      /\ job'["live"] \in {Job("idle", NoBurn), Job("closed", NoBurn)}
  BY DEF StartTasks, TasksStart, JobTable, JobStates, Tasks, Job
<1>5. mempool = <<>>
  BY <1>1 DEF RelayInv, MempoolInv, RelayTypeOK
<1>6. RelayTypeOK'
  BY <1>1, <1>2, <1>3, <1>4 DEF oneMoneyVars, RelayInv, RelayTypeOK, SettlementInv, JobTable
<1>7. MempoolInv'
  BY <1>1, <1>5 DEF MempoolInv
<1>8. ClearingInv'
  BY <1>4 DEF ClearingInv, Job, BurnStates
<1>9. ClearingLeavesNothingBehind'
  <2> SUFFICES ASSUME NEW h \in Hashes, Burns[h].checkpoint < checkpoint'
               PROVE  h \in processedBridges
    BY <1>1, ContractStill DEF ClearingLeavesNothingBehind
  <2>1. /\ Burns[h].checkpoint \in 1..MaxCheckpoint
        /\ Burns[h].checkpoint < earliestIncompletedCheckpoint
        /\ h \in BurnsOf(Burns[h].checkpoint)
    BY <1>3, BurnFacts
  <2> QED
    BY <2>1 DEF RelayInv, SettlementInv, PrunedBridged
<1>10. TasksInv'
  <2>1. \A t \in Tasks : job'[t].state \in {"fetch", "idle", "closed"}
    BY <1>4 DEF Tasks, Job
  <2>2. job'["live"].state \in {"idle", "closed"}
    BY <1>4 DEF Job
  <2> QED
    BY <1>1, <2>1, <2>2 DEF TasksInv, BurnStates
<1>11. LinkedBurnsAreBridged' /\ ContractInv'
  BY <1>1, ContractStill DEF RelayInv, LinkedBurnsAreBridged, ContractInv, TokensMapped
<1> QED
  BY <1>2, <1>6, <1>7, <1>8, <1>9, <1>10, <1>11 DEF RelayInv

-----------------------------------------------------------------------------
(* Steps of the tasks.                                                      *)

(* A task takes up its next item of work.                                    *)
LEMMA StreamsInv ==
    ASSUME RelayInv, TakeLive \/ StreamCloses \/ FetchCheckpoint
    PROVE  RelayInv'
<1>1. /\ UNCHANGED <<vars, oneMoneyVars, process, unrecovered, checkpoint, position,
                     mempool, mapping, crashes>>
      /\ process = "relaying"
  BY DEF TakeLive, StreamCloses, FetchCheckpoint, SetJob
<1>2. SettlementInv'
  BY <1>1, StillSettled DEF RelayInv
<1>3. job \in JobTable /\ liveQueue \in Seq(Hashes)
  BY DEF RelayInv, RelayTypeOK, JobTable
<1>4. CASE TakeLive \/ StreamCloses
  <2>1. PICK new : job' = [job EXCEPT !["live"] = new] /\ job["live"].state = "idle"
                   /\ liveQueue' \in Seq(Hashes)
                   /\ \/ new.state = "closed" /\ new = Job("closed", NoBurn)
                      \/ new.state = "register" /\ \E h \in Hashes : new = Job("register", h)
    <3>1. CASE TakeLive
      <4>1. liveQueue # <<>> /\ Head(liveQueue) \in Hashes /\ Tail(liveQueue) \in Seq(Hashes)
        BY <1>3, <3>1, HeadTailProperties DEF TakeLive
      <4> QED
        BY <3>1, <4>1 DEF TakeLive, Job
    <3>2. CASE StreamCloses
      BY <1>3, <3>2 DEF StreamCloses, SetJob, Job
    <3> QED
      BY <1>4, <3>1, <3>2
  <2>2. /\ job' \in JobTable /\ job'["clearing"] = job["clearing"] /\ job'["live"] = new
        /\ \A s \in Tasks : s # "live" => job'[s] = job[s]
    BY <1>3, <2>1 DEF JobTable, JobStates, Tasks, Job
  <2>3. RelayTypeOK'
    BY <1>1, <1>2, <2>1, <2>2
       DEF oneMoneyVars, RelayInv, RelayTypeOK, SettlementInv, JobTable
  <2>4. MempoolInv'
    BY <1>1, <2>1, <2>2, OtherTasksWait DEF RelayInv, Tasks
  <2>5. ClearingInv' /\ ClearingLeavesNothingBehind' /\ LinkedBurnsAreBridged'
    BY <1>1, <2>2, ContractStill
       DEF RelayInv, ClearingInv, ClearingLeavesNothingBehind, LinkedBurnsAreBridged,
           Open, EnsureCheckpointNotCompleted, IsCheckpointComplete
  <2>6. TasksInv'
    BY <1>1, <2>1, <2>2, ContractStill DEF RelayInv, TasksInv, BurnStates, Job, Tasks
  <2>7. ContractInv'
    BY <1>1, ContractStill DEF RelayInv, ContractInv, TokensMapped
  <2> QED
    BY <1>2, <2>3, <2>4, <2>5, <2>6, <2>7 DEF RelayInv
<1>5. CASE FetchCheckpoint
  <2>1. /\ job' = [job EXCEPT !["clearing"] = Job("certify", NoBurn)]
        /\ job["clearing"].state = "fetch" /\ checkpoint \in Checkpoints
        /\ liveQueue' = liveQueue
    BY <1>5, ContractAssumption DEF FetchCheckpoint, SetJob, RelayInv, RelayTypeOK,
       Checkpoints, ContractAssumption
  <2>2. /\ job' \in JobTable /\ job'["live"] = job["live"]
        /\ job'["clearing"] = Job("certify", NoBurn)
        /\ \A s \in Tasks : s # "clearing" => job'[s] = job[s]
    BY <1>3, <2>1 DEF JobTable, JobStates, Tasks, Job
  <2>3. RelayTypeOK'
    BY <1>1, <1>2, <2>1, <2>2
       DEF oneMoneyVars, RelayInv, RelayTypeOK, SettlementInv, JobTable
  <2>4. MempoolInv'
    BY <1>1, <2>1, <2>2, OtherTasksWait DEF RelayInv, Tasks
  <2>5. ClearingInv'
    BY <1>1, <2>1, <2>2 DEF ClearingInv, BurnStates, Job
  <2>6. ClearingLeavesNothingBehind' /\ LinkedBurnsAreBridged'
    BY <1>1, ContractStill
       DEF RelayInv, ClearingLeavesNothingBehind, LinkedBurnsAreBridged
  <2>7. TasksInv'
    BY <1>1, <2>1, <2>2, ContractStill DEF RelayInv, TasksInv, BurnStates, Job, Tasks
  <2>8. ContractInv'
    BY <1>1, ContractStill DEF RelayInv, ContractInv, TokensMapped
  <2> QED
    BY <1>2, <2>3, <2>4, <2>5, <2>6, <2>7, <2>8 DEF RelayInv
<1> QED
  BY <1>4, <1>5

(* A task moves on to another state with the same burn; the clearing task     *)
(* stays at its position.                                                   *)
LEMMA SameBurnInv ==
    ASSUME RelayInv, process = "relaying", NEW t \in Tasks,
           job[t].state \in BurnStates \ {"mining"},
           NEW next \in BurnStates \ {"link"},
           SetJob(t, [job[t] EXCEPT !.state = next]),
           UNCHANGED <<vars, oneMoneyVars, mempool, crashes>>,
           mapping' \in [Hashes -> {"none", "registered", "linked"}],
           \A h \in Hashes : mapping'[h] = "linked" => mapping[h] = "linked"
    PROVE  RelayInv'
<1>1. /\ job' = [job EXCEPT ![t] = [job[t] EXCEPT !.state = next]]
      /\ UNCHANGED <<process, unrecovered, liveQueue, checkpoint, position>>
  BY DEF SetJob
<1>2. SettlementInv'
  BY StillSettled DEF RelayInv
<1>3. /\ job \in JobTable /\ job[t].burn \in Hashes
      /\ BurnStates \subseteq JobStates
  BY DEF RelayInv, RelayTypeOK, JobTable, TasksInv, BurnStates, JobStates
<1>4. /\ job' \in JobTable
      /\ job'[t].state = next /\ job'[t].burn = job[t].burn
      /\ \A s \in Tasks : s # t => job'[s] = job[s]
  BY <1>1, <1>3 DEF JobTable
<1>5. RelayTypeOK'
  BY <1>1, <1>2, <1>4 DEF oneMoneyVars, RelayInv, RelayTypeOK, SettlementInv, JobTable
<1>6. MempoolInv'
  BY <1>1, <1>4, OtherTasksWait DEF RelayInv, BurnStates
<1>7. ClearingInv'
  <2>1. CASE t = "live"
    BY <1>1, <1>4, <2>1, ContractStill
       DEF Tasks, RelayInv, ClearingInv, Open, EnsureCheckpointNotCompleted,
           IsCheckpointComplete
  <2>2. CASE t = "clearing"
    BY <1>1, <1>4, <2>2, ContractStill DEF RelayInv, ClearingInv, BurnStates
  <2> QED
    BY <2>1, <2>2 DEF Tasks
<1>8. ClearingLeavesNothingBehind' /\ LinkedBurnsAreBridged'
  BY <1>1, ContractStill DEF RelayInv, ClearingLeavesNothingBehind, LinkedBurnsAreBridged
<1>9. TasksInv'
  BY <1>1, <1>3, <1>4, ContractStill DEF RelayInv, TasksInv, BurnStates, Tasks
<1>10. ContractInv'
  BY <1>1, ContractStill DEF RelayInv, ContractInv, TokensMapped
<1> QED
  BY <1>2, <1>5, <1>6, <1>7, <1>8, <1>9, <1>10 DEF RelayInv

(* A task is done with a burn that is bridged.                               *)
LEMMA FinishInv ==
    ASSUME RelayInv, process = "relaying", NEW t \in Tasks,
           job[t].state \in {"read", "link"}, job[t].burn \in processedBridges,
           Finish(t), UNCHANGED <<vars, oneMoneyVars, mempool, crashes>>,
           mapping' \in [Hashes -> {"none", "registered", "linked"}],
           \A h \in Hashes : mapping'[h] = "linked"
               => mapping[h] = "linked" \/ h = job[t].burn
    PROVE  RelayInv'
<1>1. UNCHANGED <<process, unrecovered, liveQueue>>
  BY DEF Finish
<1>2. SettlementInv'
  BY StillSettled DEF RelayInv
<1>3. job \in JobTable
  BY DEF RelayInv, RelayTypeOK, JobTable
<1>4. /\ job' \in JobTable /\ checkpoint' \in 0..MaxCheckpoint + 1 /\ position' \in Nat
      /\ ClearingInv' /\ ClearingLeavesNothingBehind'
      /\ job'[t].state \in {"idle", "register", "fetch"}
      /\ job'[t].state \in BurnStates => job'[t].burn \in Hashes
      /\ t = "live" => job'[t].state = "idle"
      /\ t = "live" => UNCHANGED checkpoint
      /\ \A s \in Tasks : s # t => job'[s] = job[s]
  <2>1. CASE t = "live"
    <3>1. /\ job' = [job EXCEPT !["live"] = Job("idle", NoBurn)]
          /\ UNCHANGED <<checkpoint, position>>
      BY <2>1 DEF Finish
    <3>2. /\ job' \in JobTable /\ job'["live"] = Job("idle", NoBurn)
          /\ \A s \in Tasks : s # t => job'[s] = job[s]
          /\ job'["clearing"] = job["clearing"]
      BY <1>3, <2>1, <3>1 DEF JobTable, JobStates, Tasks, Job
    <3>3. ClearingInv' /\ ClearingLeavesNothingBehind'
      BY <1>1, <3>1, <3>2, ContractStill
         DEF RelayInv, ClearingInv, ClearingLeavesNothingBehind, Open,
             EnsureCheckpointNotCompleted, IsCheckpointComplete
    <3> QED
      BY <2>1, <3>1, <3>2, <3>3 DEF RelayInv, RelayTypeOK, Job, BurnStates
  <2>2. CASE t = "clearing"
    <3>1. PICK c : c = checkpoint
      OBVIOUS
    <3>2. /\ c \in Checkpoints /\ position \in Nat
          /\ position + 1 \in DOMAIN CheckpointTxs[c]
          /\ CheckpointTxs[c][position + 1] \in processedBridges
          /\ CertifiedBurns(c) # {}
          /\ \A i \in 1..position : CheckpointTxs[c][i] \in processedBridges
      BY <2>2, <3>1 DEF RelayInv, ClearingInv, BurnStates, RelayTypeOK
    <3>3. CheckpointTxs[c] \in Seq(Hashes)
      BY <3>2, ListedBurns
    <3>4. position + 1 \in 0..Len(CheckpointTxs[c])
      BY <3>2, <3>3
    <3>5. \A i \in 1..position + 1 : CheckpointTxs[c][i] \in processedBridges'
      BY <3>2, ContractStill
    <3>6. CertifiedBurns(c)' # {}
      BY <3>2, ContractStill
    <3>7. ClearingAfter(position + 1)
      BY <2>2 DEF Finish
    <3>8. processedBridges \subseteq processedBridges'
      BY ContractStill
    <3>9. RelayTypeOK /\ ClearingLeavesNothingBehind
      BY DEF RelayInv
    <3> QED
      BY <1>1, <2>2, <3>1, <3>2, <3>4, <3>5, <3>6, <3>7, <3>8, <3>9, ClearingMoves
         DEF Tasks
  <2> QED
    BY <2>1, <2>2 DEF Tasks
<1>5. RelayTypeOK'
  BY <1>1, <1>2, <1>4 DEF oneMoneyVars, RelayInv, RelayTypeOK, SettlementInv, JobTable
<1>6. MempoolInv'
  BY <1>1, <1>4, OtherTasksWait DEF RelayInv
<1>7. LinkedBurnsAreBridged'
  BY ContractStill DEF RelayInv, LinkedBurnsAreBridged
<1>8. TasksInv'
  BY <1>1, <1>4, ContractStill DEF RelayInv, TasksInv, BurnStates, Tasks
<1>9. ContractInv'
  BY <1>1, ContractStill DEF RelayInv, ContractInv, TokensMapped
<1> QED
  BY <1>2, <1>4, <1>5, <1>6, <1>7, <1>8, <1>9 DEF RelayInv

(* Registering a burn and reading its sender's nonce.                        *)
LEMMA RegisterInv ==
    ASSUME RelayInv, NEW t \in Tasks, Register(t)
    PROVE  RelayInv'
<1>1. /\ job[t].state = "register" /\ process = "relaying"
      /\ SetJob(t, [job[t] EXCEPT !.state = "read"])
      /\ UNCHANGED <<vars, oneMoneyVars, mempool, crashes>>
      /\ mapping' = [mapping EXCEPT ![job[t].burn] = IF @ = "none" THEN "registered" ELSE @]
  BY DEF Register
<1>2. mapping \in [Hashes -> {"none", "registered", "linked"}]
  BY DEF RelayInv, RelayTypeOK
<1>3. /\ mapping' \in [Hashes -> {"none", "registered", "linked"}]
      /\ \A h \in Hashes : mapping'[h] = "linked" => mapping[h] = "linked"
  BY <1>1, <1>2
<1> QED
  BY <1>1, <1>3, SameBurnInv DEF BurnStates

LEMMA ReadNonceInv ==
    ASSUME RelayInv, NEW t \in Tasks, ReadNonce(t)
    PROVE  RelayInv'
<1> DEFINE h == job[t].burn
<1>1. /\ job[t].state = "read" /\ process = "relaying"
      /\ UNCHANGED <<vars, oneMoneyVars, mempool, mapping, crashes>>
      /\ IF latestBbNonce[Burns[h].from] > Burns[h].bbNonce
         THEN Finish(t) ELSE SetJob(t, [job[t] EXCEPT !.state = "submit"])
  BY DEF ReadNonce, GetLatestProcessedNonce
<1>2. /\ mapping' \in [Hashes -> {"none", "registered", "linked"}]
      /\ \A g \in Hashes : mapping'[g] = mapping[g]
  BY <1>1 DEF RelayInv, RelayTypeOK
<1>3. CASE latestBbNonce[Burns[h].from] > Burns[h].bbNonce
  <2>1. h \in Hashes
    BY <1>1 DEF RelayInv, TasksInv, BurnStates
  <2>2. h \in processedBridges
    BY <1>3, <2>1, BurnFacts DEF RelayInv, SettlementInv, BridgedBelowNonce, TypeOK
  <2> QED
    BY <1>1, <1>2, <1>3, <2>2, FinishInv
<1>4. CASE ~ latestBbNonce[Burns[h].from] > Burns[h].bbNonce
  BY <1>1, <1>2, <1>4, SameBurnInv DEF BurnStates
<1> QED
  BY <1>3, <1>4

(* A link follows any receipt; the burn is bridged by then.                  *)
LEMMA LinkInv ==
    ASSUME RelayInv, NEW t \in Tasks, Link(t)
    PROVE  RelayInv'
<1>1. /\ job[t].state = "link" /\ process = "relaying" /\ Finish(t)
      /\ UNCHANGED <<vars, oneMoneyVars, mempool, crashes>>
      /\ mapping' = [mapping EXCEPT ![job[t].burn] = IF @ = "registered" THEN "linked" ELSE @]
  BY DEF Link
<1>2. mapping \in [Hashes -> {"none", "registered", "linked"}]
  BY DEF RelayInv, RelayTypeOK
<1>3. /\ mapping' \in [Hashes -> {"none", "registered", "linked"}]
      /\ \A h \in Hashes : mapping'[h] = "linked" => mapping[h] = "linked" \/ h = job[t].burn
  BY <1>1, <1>2
<1>4. job[t].burn \in processedBridges
  BY <1>1 DEF RelayInv, TasksInv
<1> QED
  BY <1>1, <1>3, <1>4, FinishInv

(* A task that sends waits from then on.                                    *)
LEMMA SendInv ==
    ASSUME RelayInv, process = "relaying", NEW tx \in Transactions,
           job[tx.task].state \in {"certify", "submit"},
           mempool' = Append(mempool, tx),
           IF tx.burn = NoBurn
           THEN /\ tx.task = "clearing" /\ job["clearing"].state = "certify"
                /\ tx.checkpoint = checkpoint /\ Open(checkpoint)
                /\ SetJob("clearing", Job("certifying", NoBurn))
           ELSE /\ tx.burn = job[tx.task].burn /\ job[tx.task].state = "submit"
                /\ Allowed(tx)
                /\ SetJob(tx.task, [job[tx.task] EXCEPT !.state = "mining"])
                /\ \/ Burns[tx.burn].bbNonce = latestBbNonce[Burns[tx.burn].from]
                   \/ Burns[tx.burn].bbNonce = PendingNonce(Burns[tx.burn].from),
           UNCHANGED <<vars, oneMoneyVars, mapping, crashes>>
    PROVE  RelayInv'
<1> DEFINE t == tx.task
           last == Len(mempool) + 1
<1>1. /\ t \in Tasks /\ tx.checkpoint \in Checkpoints
      /\ tx.burn # NoBurn => tx.burn \in Hashes
  BY DEF Transactions
<1>2. /\ mempool' \in Seq(Transactions) /\ DOMAIN mempool \subseteq Nat
      /\ DOMAIN mempool' = DOMAIN mempool \cup {last} /\ last \notin DOMAIN mempool
      /\ mempool'[last] = tx
      /\ \A i \in DOMAIN mempool : i < last /\ mempool'[i] = mempool[i]
      /\ \A i \in DOMAIN mempool : mempool[i] \in Transactions
  BY AppendFacts DEF RelayInv, RelayTypeOK
<1>3. /\ UNCHANGED <<process, unrecovered, liveQueue, checkpoint, position>>
      /\ job' = [job EXCEPT ![t] = IF tx.burn = NoBurn THEN Job("certifying", NoBurn)
                                   ELSE [job[t] EXCEPT !.state = "mining"]]
  BY DEF SetJob
<1>4. job \in JobTable /\ \A s \in Tasks : job[s] = Job(job[s].state, job[s].burn)
  BY JobFacts DEF RelayInv, Tasks
<1>5. /\ job' \in JobTable
      /\ job'[t] = IF tx.burn = NoBurn THEN Job("certifying", NoBurn) ELSE Job("mining", tx.burn)
      /\ \A s \in Tasks : s # t => job'[s] = job[s]
  BY <1>1, <1>3, <1>4 DEF JobTable, Job, JobStates
<1>6. SettlementInv'
  BY StillSettled DEF RelayInv
(* The task had nothing in the mempool, for it waited for nothing.           *)
<1>7. ASSUME NEW i \in DOMAIN mempool
      PROVE  mempool[i].task # t /\ mempool[i].task \in Tasks
                 /\ (mempool[i].burn = NoBurn => t # "clearing" /\ mempool[i].task = "clearing")
  <2>1. Awaited(mempool[i]) /\ Allowed(mempool[i]) /\ mempool[i].task \in Tasks
    BY <1>2 DEF RelayInv, MempoolInv, Transactions
  <2>2. CASE mempool[i].burn = NoBurn
    BY <2>1, <2>2 DEF Awaited, Allowed, Job
  <2>3. CASE mempool[i].burn # NoBurn
    BY <2>1, <2>3 DEF Awaited, Job
  <2> QED
    BY <2>1, <2>2, <2>3
<1>8. RelayTypeOK'
  <2>1. \A i, j \in DOMAIN mempool' : mempool'[i].task = mempool'[j].task => i = j
    BY <1>2, <1>7 DEF RelayInv, RelayTypeOK
  <2> HIDE DEF last, t
  <2> QED
    BY <1>2, <1>3, <1>5, <1>6, <2>1
       DEF oneMoneyVars, RelayInv, RelayTypeOK, SettlementInv, JobTable
<1>9. MempoolInv'
  <2>1. ASSUME NEW i \in DOMAIN mempool, NEW m, m = mempool[i]
        PROVE  /\ Allowed(m)' /\ Awaited(m)' /\ mempool'[i] = m
               /\ m.burn # NoBurn => Ready(i)'
    <3>1. mempool'[i] = m /\ Awaited(m) /\ Allowed(m)
      BY <1>2, <2>1 DEF RelayInv, MempoolInv
    <3>2. Allowed(m)'
      BY <3>1, ContractStill DEF Allowed
    <3>3. m.burn # NoBurn => Ready(i)'
      <4>1. m.burn # NoBurn => Ready(i)
        BY <2>1 DEF RelayInv, MempoolInv
      <4>2. /\ latestBbNonce' = latestBbNonce
            /\ \A j \in DOMAIN mempool : j \in DOMAIN mempool' /\ mempool'[j] = mempool[j]
        BY <1>2, ContractStill
      <4> QED
        BY <2>1, <4>1, <4>2 DEF Ready
    <3>4. Awaited(m)'
      BY <1>3, <1>5, <1>7, <2>1, <3>1 DEF Awaited
    <3> QED
      BY <3>1, <3>2, <3>3, <3>4
  <2>2. Allowed(tx)'
    BY ContractStill DEF Allowed
  <2>3. Awaited(tx)'
    BY <1>3, <1>5 DEF Awaited
  <2>4. ASSUME tx.burn # NoBurn, NEW n, n = last
        PROVE  Ready(n)'
    <3> DEFINE from == Burns[tx.burn].from
               next == latestBbNonce[from]
    <3>1. next \in Nat /\ Burns[tx.burn].bbNonce \in Nat /\ latestBbNonce' = latestBbNonce
      BY <1>1, <2>4, BurnFacts, ContractStill DEF RelayInv, SettlementInv, TypeOK
    <3>2. \/ Burns[tx.burn].bbNonce = next
          \/ /\ Burns[tx.burn].bbNonce = next + 1
             /\ \E j \in DOMAIN mempool : /\ mempool[j].burn # NoBurn
                                          /\ Burns[mempool[j].burn].from = from
                                          /\ Burns[mempool[j].burn].bbNonce = next
      BY <2>4 DEF PendingNonce, GetLatestProcessedNonce
    <3>3. mempool'[n] = tx
      BY <1>2, <2>4
    <3>4. CASE Burns[tx.burn].bbNonce = next
      BY <3>1, <3>3, <3>4 DEF Ready
    <3>5. CASE /\ Burns[tx.burn].bbNonce = next + 1
               /\ \E j \in DOMAIN mempool : /\ mempool[j].burn # NoBurn
                                            /\ Burns[mempool[j].burn].from = from
                                            /\ Burns[mempool[j].burn].bbNonce = next
      <4>1. PICK j \in DOMAIN mempool : /\ mempool[j].burn # NoBurn
                                        /\ Burns[mempool[j].burn].from = from
                                        /\ Burns[mempool[j].burn].bbNonce = next
        BY <3>5
      <4>2. j \in DOMAIN mempool' /\ j < n /\ mempool'[j] = mempool[j]
        BY <1>2, <2>4
      <4> QED
        BY <3>1, <3>3, <3>5, <4>1, <4>2 DEF Ready
    <3> QED
      BY <3>2, <3>4, <3>5
  <2>5. PICK n : n = last
    OBVIOUS
  <2>6. mempool'[n] = tx /\ DOMAIN mempool' = DOMAIN mempool \cup {n}
        /\ process' = "relaying"
    BY <1>2, <1>3, <2>5
  <2>7. tx.burn # NoBurn => Ready(n)'
    BY <2>4, <2>5
  <2> SUFFICES ASSUME NEW i \in DOMAIN mempool'
               PROVE  /\ Allowed(mempool[i])' /\ Awaited(mempool[i])'
                      /\ mempool'[i].burn # NoBurn => Ready(i)'
    BY <2>6 DEF MempoolInv
  <2>8. CASE i = n
    BY <2>2, <2>3, <2>6, <2>7, <2>8 DEF Allowed, Awaited
  <2>9. CASE i \in DOMAIN mempool
    BY <2>1, <2>9 DEF Allowed, Awaited
  <2> QED
    BY <2>6, <2>8, <2>9
<1>10. ClearingInv'
  <2>1. CASE tx.burn = NoBurn
    <3>1. checkpoint \in Checkpoints /\ Open(checkpoint)' = Open(checkpoint)
      BY <1>1, <1>3, <2>1, ContractStill
         DEF Open, EnsureCheckpointNotCompleted, IsCheckpointComplete
    <3> QED
      BY <1>3, <1>5, <2>1, <3>1 DEF ClearingInv, BurnStates, Job
  <2>2. CASE tx.burn # NoBurn /\ t = "clearing"
    BY <1>3, <1>5, <2>2, ContractStill DEF RelayInv, ClearingInv, BurnStates, Job
  <2>3. CASE t = "live"
    BY <1>3, <1>5, <2>3, ContractStill
       DEF Tasks, RelayInv, ClearingInv, Open, EnsureCheckpointNotCompleted,
           IsCheckpointComplete
  <2> QED
    BY <1>1, <2>1, <2>2, <2>3 DEF Tasks
<1>11. ClearingLeavesNothingBehind' /\ LinkedBurnsAreBridged'
  BY <1>3, ContractStill DEF RelayInv, ClearingLeavesNothingBehind, LinkedBurnsAreBridged
<1>12. TasksInv'
  BY <1>1, <1>3, <1>5, ContractStill DEF RelayInv, TasksInv, BurnStates, Tasks, Job
<1>13. ContractInv'
  <2>1. TokensMapped
    BY DEF RelayInv, ContractInv
  <2> QED
    BY <1>3, <2>1, ContractStill DEF RelayInv, ContractInv, TokensMapped
<1> QED
  BY <1>6, <1>8, <1>9, <1>10, <1>11, <1>12, <1>13 DEF RelayInv

(* The clearing task certifies its checkpoint, or ends the process.          *)
LEMMA SubmitCertifyInv ==
    ASSUME RelayInv, SubmitCertify
    PROVE  RelayInv'
<1>1. process = "relaying" /\ job["clearing"].state = "certify"
  BY DEF SubmitCertify
<1>2. CASE Exit
  BY <1>2, StoppedInv DEF Exit, RelayInv, RelayTypeOK
<1>3. CASE ~ Exit
  <2> DEFINE tx == [task |-> "clearing", burn |-> NoBurn, checkpoint |-> checkpoint]
  <2>1. /\ CheckpointAccepted(checkpoint) /\ mempool' = Append(mempool, tx)
        /\ SetJob("clearing", Job("certifying", NoBurn))
        /\ UNCHANGED <<vars, oneMoneyVars, mapping, crashes>>
    BY <1>3 DEF SubmitCertify
  <2>2. checkpoint \in Checkpoints
    BY <1>1 DEF RelayInv, ClearingInv
  <2>3. PICK m : m = tx
    OBVIOUS
  <2>4. /\ m \in Transactions /\ m.task = "clearing" /\ m.burn = NoBurn
        /\ m.checkpoint = checkpoint /\ mempool' = Append(mempool, m)
    BY <2>1, <2>2, <2>3 DEF Transactions, Tasks
  <2>5. Open(checkpoint)
    BY <2>1 DEF CheckpointAccepted, Open
  <2> QED
    BY <1>1, <2>1, <2>4, <2>5, SendInv
<1> QED
  BY <1>2, <1>3

(* A task submits a bridgeTo, or ends the process.                           *)
LEMMA SubmitBridgeToInv ==
    ASSUME RelayInv, NEW t \in Tasks, SubmitBridgeTo(t)
    PROVE  RelayInv'
<1> DEFINE h == job[t].burn
<1>1. process = "relaying" /\ job[t].state = "submit"
  BY DEF SubmitBridgeTo
<1>2. CASE Exit
  BY <1>2, StoppedInv DEF Exit, RelayInv, RelayTypeOK
<1>3. CASE ~ Exit
  <2> DEFINE tx == [task |-> t, burn |-> h, checkpoint |-> CheckpointArgument(t)]
  <2>1. /\ TRUE \in Estimates(t) /\ mempool' = Append(mempool, tx)
        /\ SetJob(t, [job[t] EXCEPT !.state = "mining"])
        /\ UNCHANGED <<vars, oneMoneyVars, mapping, crashes>>
    BY <1>3 DEF SubmitBridgeTo, Estimates
  <2>2. h \in Hashes /\ h # NoBurn
    BY <1>1, RelayAssumption DEF RelayInv, TasksInv, BurnStates, RelayAssumption
  <2>3. \/ Burns[h].bbNonce = latestBbNonce[Burns[h].from]
        \/ Burns[h].bbNonce = PendingNonce(Burns[h].from)
    BY <2>1 DEF Estimates, BurnAccepted, GetLatestProcessedNonce
  <2>4. PICK m : m = tx
    OBVIOUS
  <2>5. /\ m.task = t /\ m.burn = h /\ m.checkpoint = CheckpointArgument(t)
        /\ mempool' = Append(mempool, m)
    BY <2>1, <2>4
  <2>6. m \in Transactions
    <3>1. CheckpointArgument(t) \in Checkpoints
      BY <2>2, BurnFacts, ContractAssumption
         DEF CheckpointArgument, Checkpoints, ContractAssumption
    <3> QED
      BY <2>2, <2>4, <3>1 DEF Transactions
  <2>7. Allowed(m)
    <3>1. CASE t = "live"
      BY <2>2, <2>5, <3>1 DEF Allowed, CheckpointArgument
    <3>2. CASE t = "clearing"
      <4>1. /\ checkpoint \in Checkpoints /\ CertifiedBurns(checkpoint) # {}
            /\ position + 1 \in DOMAIN CheckpointTxs[checkpoint]
            /\ h = CheckpointTxs[checkpoint][position + 1]
        BY <1>1, <3>2 DEF RelayInv, ClearingInv, BurnStates
      <4>2. Burns[h].checkpoint = checkpoint
        BY <4>1, ListedBurns
      <4> QED
        BY <2>2, <2>5, <3>2, <4>1, <4>2 DEF Allowed, CheckpointArgument
    <3> QED
      BY <3>1, <3>2 DEF Tasks
  <2> HIDE DEF tx
  <2> QED
    BY <1>1, <2>1, <2>2, <2>3, <2>5, <2>6, <2>7, SendInv
<1> QED
  BY <1>2, <1>3

-----------------------------------------------------------------------------
(* The sidechain executes a transaction.                                     *)

(* The transactions behind the executed one keep their place and their turn.  *)
LEMMA ExecuteKeepsOrder ==
    ASSUME RelayInv, Execute, NEW i \in DOMAIN Tail(mempool),
           Tail(mempool)[i].burn # NoBurn
    PROVE  Ready(i)'
<1>1. /\ mempool' = Tail(mempool) /\ mempool # <<>>
      /\ mempool \in Seq(Transactions)
  BY DEF Execute, Receipt, RelayInv, RelayTypeOK
<1>2. /\ Head(mempool) = mempool[1] /\ 1 \in DOMAIN mempool
      /\ i \in Nat /\ i >= 1 /\ i + 1 \in DOMAIN mempool
      /\ mempool'[i] = mempool[i + 1]
      /\ \A j \in DOMAIN mempool : mempool[j] \in Transactions
      /\ \A j \in DOMAIN mempool : j # 1 =>
             j \in Nat /\ j - 1 \in DOMAIN mempool' /\ mempool'[j - 1] = mempool[j]
  <2>1. \A j \in DOMAIN Tail(mempool) : Tail(mempool)[j] = mempool[j + 1]
    BY <1>1, TailFacts
  <2> QED
    BY <1>1, <2>1, TailFacts
<1>3. PICK h \in Hashes : h = mempool[i + 1].burn
  BY <1>1, <1>2 DEF Transactions
<1>4. PICK next : next = latestBbNonce[Burns[h].from]
  OBVIOUS
<1>5. PICK tx : tx = Head(mempool)
  OBVIOUS
<1>6. /\ next \in Nat /\ Burns[h].bbNonce \in Nat /\ Burns[h].from \in Accounts
      /\ latestBbNonce \in [Accounts -> Nat] /\ h # NoBurn
  BY <1>1, <1>2, <1>3, <1>4, BurnFacts DEF RelayInv, SettlementInv, TypeOK
<1>7. /\ tx.burn # NoBurn => tx.burn \in Hashes /\ tx.burn \in processedBridges'
      /\ (tx.burn # NoBurn /\ PaysOut(tx.burn)) \/ UNCHANGED latestBbNonce
      /\ UNCHANGED processedBridges \/ (tx.burn # NoBurn /\ PaysOut(tx.burn))
  BY <1>2, <1>5, ExecuteEffect, ContractStill DEF Transactions
<1>8. \/ latestBbNonce'[Burns[h].from] = next
      \/ latestBbNonce'[Burns[h].from] = next + 1
  <2>1. CASE UNCHANGED latestBbNonce
    BY <1>4, <2>1
  <2>2. CASE tx.burn # NoBurn /\ PaysOut(tx.burn)
    BY <1>4, <1>6, <1>7, <2>2, BurnFacts DEF PaysOut
  <2> QED
    BY <1>7, <2>1, <2>2
<1>9. \/ Burns[h].bbNonce <= next
      \/ /\ Burns[h].bbNonce = next + 1
         /\ \E j \in DOMAIN mempool : /\ j < i + 1 /\ mempool[j].burn # NoBurn
                                      /\ Burns[mempool[j].burn].from = Burns[h].from
                                      /\ Burns[mempool[j].burn].bbNonce = next
  BY <1>2, <1>3, <1>4, <1>6 DEF RelayInv, MempoolInv, Ready
<1>10. mempool'[i].burn = h
  BY <1>2, <1>3
<1>11. CASE Burns[h].bbNonce <= latestBbNonce'[Burns[h].from]
  BY <1>10, <1>11 DEF Ready
<1>12. CASE ~ Burns[h].bbNonce <= latestBbNonce'[Burns[h].from]
  <2>1. Burns[h].bbNonce = next + 1 /\ latestBbNonce'[Burns[h].from] = next
    BY <1>6, <1>8, <1>9, <1>12
  <2>2. PICK j \in DOMAIN mempool : /\ j < i + 1 /\ mempool[j].burn # NoBurn
                                    /\ Burns[mempool[j].burn].from = Burns[h].from
                                    /\ Burns[mempool[j].burn].bbNonce = next
    BY <1>6, <1>9, <2>1
  (* Were it the first one, it would have used up the nonce.                 *)
  <2>3. j # 1
    <3> SUFFICES ASSUME j = 1 PROVE FALSE
      OBVIOUS
    <3>1. tx.burn \in Hashes /\ tx.burn # NoBurn /\ Burns[tx.burn].from = Burns[h].from
          /\ Burns[tx.burn].bbNonce = next
      BY <1>2, <1>5, <1>7, <2>2
    <3>2. tx.burn \notin processedBridges
      BY <1>4, <1>6, <3>1 DEF RelayInv, SettlementInv, BridgedBelowNonce
    <3>3. PaysOut(tx.burn)
      BY <1>7, <3>1, <3>2
    <3>4. latestBbNonce'[Burns[h].from] = next + 1
      BY <1>6, <3>1, <3>3 DEF PaysOut
    <3> QED
      BY <1>6, <2>1, <3>4
  <2>4. j - 1 \in DOMAIN mempool' /\ mempool'[j - 1] = mempool[j] /\ j - 1 < i
    BY <1>2, <2>2, <2>3
  <2> QED
    BY <1>10, <2>1, <2>2, <2>4 DEF Ready
<1> QED
  BY <1>11, <1>12

(* Who waits for the executed transaction, and what it does then.            *)
LEMMA ReceiptCases ==
    ASSUME RelayInv, Execute, NEW tx, tx = Head(mempool)
    PROVE  /\ tx \in Transactions /\ tx.task \in Tasks
           /\ \/ process # "relaying" /\ UNCHANGED relayerVars
              \/ /\ process = "relaying" /\ tx.burn \in Hashes /\ tx.burn # NoBurn
                 /\ job[tx.task] = Job("mining", tx.burn)
                 /\ job' = [job EXCEPT ![tx.task] = Job("link", tx.burn)]
                 /\ UNCHANGED <<process, unrecovered, liveQueue, checkpoint, position>>
              \/ /\ process = "relaying" /\ tx.burn = NoBurn
                 /\ tx.task = "clearing" /\ tx.checkpoint = checkpoint
                 /\ job["clearing"] = Job("certifying", NoBurn)
                 /\ ClearingAfter(0)
                 /\ UNCHANGED <<process, unrecovered, liveQueue>>
<1>1. /\ mempool # <<>> /\ mempool \in Seq(Transactions)
      /\ tx = mempool[1] /\ 1 \in DOMAIN mempool /\ tx \in Transactions
  BY TailFacts DEF Execute, RelayInv, RelayTypeOK
<1>2. /\ tx.task \in Tasks /\ (tx.burn # NoBurn => tx.burn \in Hashes)
      /\ Allowed(tx) /\ (process = "relaying" => Awaited(tx))
  BY <1>1 DEF Transactions, RelayInv, MempoolInv
<1>3. Receipt(tx)
  BY DEF Execute
<1>4. CASE process # "relaying"
  <2>1. job[tx.task].state = "idle"
    BY <1>2, <1>4 DEF RelayInv, TasksInv, Job
  <2> QED
    BY <1>1, <1>2, <1>3, <1>4, <2>1 DEF Receipt
<1>5. CASE process = "relaying" /\ tx.burn # NoBurn
  <2>1. job[tx.task] = Job("mining", tx.burn)
    BY <1>2, <1>5 DEF Awaited
  <2>2. SetJob(tx.task, [job[tx.task] EXCEPT !.state = "link"])
    BY <1>3, <2>1 DEF Receipt, Job
  <2>3. [job[tx.task] EXCEPT !.state = "link"] = Job("link", tx.burn)
    BY <2>1 DEF Job
  <2> QED
    BY <1>1, <1>2, <1>5, <2>1, <2>2, <2>3 DEF SetJob
<1>6. CASE process = "relaying" /\ tx.burn = NoBurn
  <2>1. /\ tx.task = "clearing" /\ tx.checkpoint = checkpoint
        /\ job["clearing"] = Job("certifying", NoBurn)
    BY <1>2, <1>6 DEF Awaited, Allowed
  <2>2. job[tx.task].state = "certifying"
    BY <2>1 DEF Job
  <2> QED
    BY <1>1, <1>2, <1>3, <1>6, <2>1, <2>2 DEF Receipt
<1> QED
  BY <1>4, <1>5, <1>6

(* The tasks after the execution of a transaction.                           *)
LEMMA ReceiptInv ==
    ASSUME RelayInv, Execute, NEW tx, tx = Head(mempool)
    PROVE  /\ job' \in JobTable /\ UNCHANGED <<process, unrecovered, liveQueue>>
           /\ checkpoint' \in 0..MaxCheckpoint + 1 /\ position' \in Nat
           /\ \A s \in Tasks : s # tx.task => job'[s] = job[s]
           /\ tx.task = "live" => UNCHANGED checkpoint
           /\ ClearingInv' /\ TasksInv' /\ ClearingLeavesNothingBehind'
<1>1. /\ [SettlementNext]_vars
      /\ processedBridges \subseteq processedBridges'
      /\ tx.burn = NoBurn => (process = "relaying" =>
             (BurnsOf(tx.checkpoint) # {} => CertifiedBurns(tx.checkpoint)' # {}))
      /\ tx.burn # NoBurn => tx.burn \in processedBridges'
      /\ tx.task = "live" => UNCHANGED <<checkpointTallies,
                                         earliestIncompletedCheckpoint>>
  BY ExecuteEffect
<1>2. job \in JobTable /\ "live" \in Tasks /\ "clearing" \in Tasks
  BY DEF RelayInv, RelayTypeOK, JobTable, Tasks
<1>3. /\ job["live"].state \in BurnStates \cup {"idle", "closed"}
      /\ \A t \in Tasks : /\ job[t].state \in BurnStates => job[t].burn \in Hashes
                          /\ job[t].state = "link" => job[t].burn \in processedBridges
  BY DEF RelayInv, TasksInv
<1>4. CASE process # "relaying" /\ UNCHANGED relayerVars
  BY <1>1, <1>2, <1>4
     DEF relayerVars, RelayInv, RelayTypeOK, ClearingInv, TasksInv,
         ClearingLeavesNothingBehind, JobTable
<1>5. CASE /\ process = "relaying" /\ tx.burn \in Hashes /\ tx.burn # NoBurn
           /\ tx.task \in Tasks
           /\ job[tx.task] = Job("mining", tx.burn)
           /\ job' = [job EXCEPT ![tx.task] = Job("link", tx.burn)]
           /\ UNCHANGED <<process, unrecovered, liveQueue, checkpoint, position>>
  <2>1. /\ job' \in JobTable /\ job'[tx.task] = Job("link", tx.burn)
        /\ \A s \in Tasks : s # tx.task => job'[s] = job[s]
    BY <1>2, <1>5 DEF JobTable, JobStates, Job
  <2>2. ASSUME job["clearing"].state \in BurnStates
        PROVE  CertifiedBurns(checkpoint)' # {}
    <3>1. /\ checkpoint \in Checkpoints /\ CertifiedBurns(checkpoint) # {}
          /\ position + 1 \in DOMAIN CheckpointTxs[checkpoint]
      BY <1>5, <2>2 DEF RelayInv, ClearingInv, BurnStates
    <3>2. checkpoint \in 1..MaxCheckpoint
      BY <3>1, ListedBurns, BurnFacts
    <3>3. PICK c \in 1..MaxCheckpoint : c = checkpoint
      BY <3>2
    <3>4. CertifiedBurns(c)' # {}
      BY <1>1, <3>1, <3>3, CertifiedStays DEF RelayInv
    <3> QED
      BY <1>5, <3>3, <3>4 DEF CertifiedBurns
  <2>3. ClearingInv'
    <3>1. CASE tx.task = "clearing"
      <4>1. job["clearing"].state = "mining" /\ job["clearing"].burn = tx.burn
            /\ job'["clearing"].state = "link" /\ job'["clearing"].burn = tx.burn
        BY <1>5, <2>1, <3>1 DEF Job
      <4> QED
        BY <1>1, <1>5, <2>2, <4>1 DEF RelayInv, ClearingInv, BurnStates
    <3>2. CASE tx.task = "live"
      <4>1. job'["clearing"] = job["clearing"]
        BY <1>2, <2>1, <3>2
      <4> QED
        BY <1>1, <1>5, <2>2, <3>2, <4>1
           DEF RelayInv, ClearingInv, Open, EnsureCheckpointNotCompleted,
               IsCheckpointComplete
    <3> QED
      BY <1>5, <3>1, <3>2 DEF Tasks
  <2>4. TasksInv'
    <3>1. job'[tx.task].state = "link" /\ job'[tx.task].burn = tx.burn
      BY <2>1 DEF Job
    <3> QED
      BY <1>1, <1>2, <1>3, <1>5, <2>1, <3>1 DEF TasksInv, BurnStates
  <2>5. ClearingLeavesNothingBehind'
    BY <1>1, <1>5 DEF RelayInv, ClearingLeavesNothingBehind
  <2> QED
    BY <1>5, <2>1, <2>3, <2>4, <2>5 DEF RelayInv, RelayTypeOK
<1>6. CASE /\ process = "relaying" /\ tx.burn = NoBurn
           /\ tx.task = "clearing" /\ tx.checkpoint = checkpoint
           /\ job["clearing"] = Job("certifying", NoBurn)
           /\ ClearingAfter(0)
           /\ UNCHANGED <<process, unrecovered, liveQueue>>
  <2>1. PICK c : c = checkpoint
    OBVIOUS
  <2>2. c \in Checkpoints
    BY <1>6, <2>1 DEF RelayInv, ClearingInv, Job
  <2>3. BurnsOf(c) # {} => CertifiedBurns(c)' # {}
    BY <1>1, <1>6, <2>1 DEF CertifiedBurns
  <2>4. 0 \in 0..Len(CheckpointTxs[c])
        /\ \A i \in 1..0 : CheckpointTxs[c][i] \in processedBridges'
    BY <2>2, ListedBurns
  <2>5. /\ ClearingInv' /\ ClearingLeavesNothingBehind'
        /\ job' \in JobTable /\ job'["live"] = job["live"]
        /\ job'["clearing"].state \in {"register", "fetch"}
        /\ job'["clearing"].state \in BurnStates => job'["clearing"].burn \in Hashes
        /\ checkpoint' \in 0..MaxCheckpoint + 1 /\ position' \in Nat
    BY <1>1, <1>6, <2>1, <2>2, <2>3, <2>4, ClearingMoves DEF RelayInv
  <2>6. TasksInv'
    BY <1>1, <1>2, <1>3, <1>6, <2>5 DEF TasksInv, BurnStates, Tasks
  <2> QED
    BY <1>6, <2>5, <2>6 DEF Tasks
<1> QED
  BY <1>4, <1>5, <1>6, ReceiptCases

(* The sidechain executes the first transaction, its sender goes on.         *)
LEMMA ExecuteInv ==
    ASSUME RelayInv, Execute
    PROVE  RelayInv'
<1>1. PICK tx : tx = Head(mempool)
  OBVIOUS
<1>2. /\ [SettlementNext]_vars
      /\ processedBridges \subseteq processedBridges'
      /\ UNCHANGED tokensByOm
      /\ checkpointTallies'[0].certified = 0
      /\ nextInboundNonce' = Cardinality(processedBridges')
  BY <1>1, ExecuteEffect
<1>3. /\ mempool' = Tail(mempool) /\ mempool # <<>> /\ mempool \in Seq(Transactions)
      /\ UNCHANGED <<oneMoneyVars, mapping, crashes>>
  BY DEF Execute, Receipt, RelayInv, RelayTypeOK
<1>4. /\ tx = mempool[1] /\ 1 \in DOMAIN mempool /\ mempool' \in Seq(Transactions)
      /\ DOMAIN mempool' = DOMAIN Tail(mempool)
      /\ \A i \in DOMAIN mempool' : /\ i \in Nat /\ i >= 1
                                    /\ i + 1 \in DOMAIN mempool
                                    /\ mempool'[i] = mempool[i + 1]
                                    /\ mempool[i + 1] \in Transactions
  <2>1. \A i \in DOMAIN Tail(mempool) : Tail(mempool)[i] = mempool[i + 1]
    BY <1>3, TailFacts
  <2>2. \A i \in DOMAIN mempool : mempool[i] \in Transactions
    BY <1>3
  <2> QED
    BY <1>1, <1>3, <2>1, <2>2, TailFacts
<1>5. /\ job' \in JobTable /\ UNCHANGED <<process, unrecovered, liveQueue>>
      /\ checkpoint' \in 0..MaxCheckpoint + 1 /\ position' \in Nat
      /\ \A s \in Tasks : s # tx.task => job'[s] = job[s]
      /\ tx.task = "live" => UNCHANGED checkpoint
      /\ ClearingInv' /\ TasksInv' /\ ClearingLeavesNothingBehind'
  BY <1>1, ReceiptInv
<1>6. SettlementInv'
  BY <1>2, SettlementStep DEF RelayInv
<1>7. \A i \in DOMAIN mempool' : mempool'[i].task # tx.task
  <2> SUFFICES ASSUME NEW i \in DOMAIN mempool', mempool[i + 1].task = mempool[1].task
               PROVE  FALSE
    BY <1>4
  <2>1. i + 1 # 1 /\ i + 1 \in DOMAIN mempool
    BY <1>4
  <2> QED
    BY <1>4, <2>1 DEF RelayInv, RelayTypeOK
<1>8. RelayTypeOK'
  <2>1. \A i, j \in DOMAIN mempool' : mempool'[i].task = mempool'[j].task => i = j
    <3> SUFFICES ASSUME NEW i \in DOMAIN mempool', NEW j \in DOMAIN mempool',
                        mempool[i + 1].task = mempool[j + 1].task
                 PROVE  i = j
      BY <1>4
    <3>1. i + 1 = j + 1
      BY <1>4 DEF RelayInv, RelayTypeOK
    <3> QED
      BY <1>4, <3>1
  <2> QED
    BY <1>3, <1>4, <1>5, <1>6, <2>1
       DEF oneMoneyVars, RelayInv, RelayTypeOK, SettlementInv, JobTable
<1>9. MempoolInv'
  <2> SUFFICES ASSUME NEW i \in DOMAIN mempool', NEW m, m = mempool'[i]
               PROVE  /\ Allowed(m)' /\ (m.burn # NoBurn => Ready(i)')
                      /\ process' # "recovering"
                      /\ process' = "relaying" => Awaited(m)'
    BY DEF MempoolInv, Allowed, Awaited
  <2>1. /\ m = mempool[i + 1] /\ i + 1 \in DOMAIN mempool /\ m \in Transactions
        /\ m.task # tx.task /\ m.task \in Tasks
        /\ m = Tail(mempool)[i] /\ i \in DOMAIN Tail(mempool)
    BY <1>3, <1>4, <1>7 DEF Transactions
  <2>2. /\ Allowed(m) /\ process # "recovering"
        /\ process = "relaying" => Awaited(m)
    BY <2>1 DEF RelayInv, MempoolInv
  <2>3. m.burn # NoBurn => Ready(i)'
    BY <2>1, ExecuteKeepsOrder
  <2>4. Allowed(m)'
    <3>1. CASE m.burn = NoBurn \/ m.task = "live"
      BY <2>2, <3>1 DEF Allowed
    <3>2. CASE m.burn # NoBurn /\ m.task # "live"
      <4>1. m.burn \in Hashes
        BY <2>1, <3>2 DEF Transactions
      <4>2. PICK c \in 1..MaxCheckpoint : c = Burns[m.burn].checkpoint
        BY <4>1, BurnFacts
      <4>3. m.checkpoint = c /\ CertifiedBurns(c) # {}
        BY <2>2, <3>2, <4>2 DEF Allowed
      <4>4. CertifiedBurns(c)' # {}
        BY <1>2, <4>3, CertifiedStays DEF RelayInv
      <4> QED
        BY <3>2, <4>2, <4>3, <4>4 DEF Allowed, CertifiedBurns
    <3> QED
      BY <3>1, <3>2
  <2>5. ASSUME process = "relaying"
        PROVE  Awaited(m)'
    <3>1. Awaited(m)
      BY <2>2, <2>5
    <3>2. CASE m.burn = NoBurn
      <4>1. m.task = "clearing" /\ tx.task = "live"
        <5>1. m.task = "clearing"
          BY <2>2, <3>2 DEF Allowed
        <5>2. tx.task \in Tasks
          BY <1>1, ReceiptCases
        <5> QED
          BY <2>1, <5>1, <5>2 DEF Tasks
      <4> QED
        BY <1>5, <3>1, <3>2, <4>1 DEF Awaited, Tasks
    <3>3. CASE m.burn # NoBurn
      BY <1>5, <2>1, <3>1, <3>3 DEF Awaited
    <3> QED
      BY <3>2, <3>3
  <2> QED
    BY <1>5, <2>2, <2>3, <2>4, <2>5
<1>10. ContractInv'
  <2>1. TokensMapped
    BY <1>3 DEF RelayInv, ContractInv
  <2> QED
    BY <1>2, <2>1 DEF RelayInv, ContractInv, TokensMapped
<1>11. LinkedBurnsAreBridged'
  BY <1>2, <1>3 DEF RelayInv, LinkedBurnsAreBridged
<1> QED
  BY <1>5, <1>6, <1>8, <1>9, <1>10, <1>11 DEF RelayInv

-----------------------------------------------------------------------------
(* The invariant, and what follows from it.                                  *)

LEMMA RelayInitInv ==
    ASSUME RelayInit
    PROVE  RelayInv
<1>1. SettlementInv
  BY SettlementInit DEF RelayInit
<1>2. mempool = <<>> /\ DOMAIN mempool = {} /\ process = "down"
  BY DEF RelayInit
<1>3. RelayTypeOK
  <2>1. job \in [Tasks -> [state : JobStates, burn : Hashes \cup {NoBurn}]]
    BY DEF RelayInit, Job, JobStates
  <2>2. /\ mempool \in Seq(Transactions) /\ liveQueue \in Seq(Hashes)
        /\ 0 \in Checkpoints /\ 0 \in 0..MaxCheckpoint + 1 /\ 0 \in 0..MaxCrashes
    BY ContractAssumption, RelayAssumption
       DEF RelayInit, ContractAssumption, RelayAssumption, Checkpoints
  <2> QED
    BY <1>1, <1>2, <2>1, <2>2 DEF RelayInit, RelayTypeOK, SettlementInv
<1>4. MempoolInv /\ ClearingInv /\ ClearingLeavesNothingBehind
  BY <1>2 DEF MempoolInv, ClearingInv, ClearingLeavesNothingBehind
<1>5. TasksInv
  <2>1. \A t \in Tasks : job[t].state = "idle"
    BY DEF RelayInit, Job
  <2> QED
    BY <2>1 DEF RelayInit, TasksInv, BurnStates, Tasks
<1>6. ContractInv
  <2>1. processedBridges = {} /\ nextInboundNonce = 0 /\ Cardinality({}) = 0
    BY FS_EmptySet DEF RelayInit, Init
  <2>2. 0 \in Checkpoints
    BY ContractAssumption DEF ContractAssumption, Checkpoints
  <2>3. checkpointTallies[0].certified = 0
    BY <2>2 DEF RelayInit, Init, EmptyTally
  <2> QED
    BY <1>2, <2>1, <2>3 DEF RelayInit, Init, ContractInv
<1>7. LinkedBurnsAreBridged
  BY DEF RelayInit, LinkedBurnsAreBridged
<1> QED
  BY <1>1, <1>3, <1>4, <1>5, <1>6, <1>7 DEF RelayInv

LEMMA RelayStep ==
    ASSUME RelayInv, [RelayNext]_relayVars
    PROVE  RelayInv'
<1>1. CASE UNCHANGED relayVars
  <2>1. UNCHANGED <<vars, oneMoneyVars, relayerVars, mempool, mapping, crashes>>
    BY <1>1 DEF relayVars
  <2>2. SettlementInv'
    BY <2>1, StillSettled DEF RelayInv
  <2>3. RelayTypeOK'
    BY <2>1, <2>2 DEF oneMoneyVars, relayerVars, RelayInv, RelayTypeOK, SettlementInv
  <2>4. MempoolInv' /\ ClearingInv' /\ TasksInv' /\ ContractInv'
    BY <2>1, ContractStill
       DEF relayerVars, RelayInv, MempoolInv, Allowed, Ready, Awaited, ClearingInv,
           TasksInv, ContractInv, TokensMapped, Open, EnsureCheckpointNotCompleted,
           IsCheckpointComplete
  <2>5. ClearingLeavesNothingBehind' /\ LinkedBurnsAreBridged'
    BY <2>1, ContractStill
       DEF relayerVars, RelayInv, ClearingLeavesNothingBehind, LinkedBurnsAreBridged
  <2> QED
    BY <2>2, <2>3, <2>4, <2>5 DEF RelayInv
<1>2. ASSUME NEW t \in Tasks, TaskStep(t)
      PROVE  RelayInv'
  BY <1>2, RegisterInv, ReadNonceInv, SubmitBridgeToInv, LinkInv DEF TaskStep
<1>3. CASE Recovery
  <2>1. ASSUME NEW h \in Hashes, RecoverLink(h) \/ RecoverSkips(h)
        PROVE  RelayInv'
    BY <2>1, RecoveryInv
  <2>2. ASSUME NEW h \in Hashes, RecoverFails(h)
        PROVE  RelayInv'
    BY <2>2, StoppedInv DEF RecoverFails, RelayInv, RelayTypeOK
  <2> QED
    BY <1>3, <2>1, <2>2 DEF Recovery
<1>4. CASE Crash
  <2>1. crashes' \in 0..MaxCrashes
    BY <1>4, RelayAssumption DEF Crash, RelayInv, RelayTypeOK, RelayAssumption
  <2> QED
    BY <1>4, <2>1, StoppedInv DEF Crash
<1>5. CASE (\E h \in Hashes : CertifyBurn(h)) \/ FormCheckpoint
  BY <1>5, NetworkInv
<1>6. CASE Deploy
  BY <1>6, DeployInv
<1>7. CASE Start \/ DropPending
  BY <1>7, RecoveryInv
<1>8. CASE StartTasks
  BY <1>8, StartTasksInv
<1>9. CASE TakeLive \/ StreamCloses \/ FetchCheckpoint
  BY <1>9, StreamsInv
<1>10. CASE SubmitCertify
  BY <1>10, SubmitCertifyInv
<1>11. CASE Execute
  BY <1>11, ExecuteInv
<1> QED
  BY <1>1, <1>2, <1>3, <1>4, <1>5, <1>6, <1>7, <1>8, <1>9, <1>10, <1>11 DEF RelayNext

(* Only the operator's mapping of tokens and the execution of transactions    *)
(* touch the contract, and they are steps of Settlement.                    *)
LEMMA RelayCallsAllowed ==
    ASSUME RelayInv, [RelayNext]_relayVars
    PROVE  [SettlementNext]_vars
<1>1. CASE Deploy
  BY <1>1, DeployAllowed
<1>2. CASE Execute
  BY <1>2, ExecuteEffect
<1>3. ASSUME NEW t \in Tasks, TaskStep(t)
      PROVE  UNCHANGED vars
  BY <1>3 DEF TaskStep, Register, ReadNonce, SubmitBridgeTo, Link, Exit
<1>4. CASE UNCHANGED relayVars
  BY <1>4 DEF relayVars
<1>5. CASE \/ \E h \in Hashes : CertifyBurn(h)
           \/ FormCheckpoint
           \/ Start \/ Recovery \/ StartTasks
           \/ Crash \/ DropPending
           \/ TakeLive \/ StreamCloses
           \/ FetchCheckpoint \/ SubmitCertify
  BY <1>5 DEF CertifyBurn, FormCheckpoint, Start, Recovery, RecoverLink, RecoverFails,
     RecoverSkips, StartTasks, TasksStart, Crash, DropPending, TakeLive, StreamCloses, FetchCheckpoint,
     SubmitCertify, Exit
<1> QED
  BY <1>1, <1>2, <1>3, <1>4, <1>5 DEF RelayNext

(* In every reachable state of the relayer and the contract the invariant     *)
(* holds.                                                                   *)
LEMMA RelayInvariant == RelaySpec => []RelayInv
<1>1. RelayInit => RelayInv
  BY RelayInitInv
<1>2. RelayInv /\ [RelayNext]_relayVars => RelayInv'
  BY RelayStep
<1> QED
  BY <1>1, <1>2, PTL DEF RelaySpec

(* The variables of the relayer, the 1Money network, the mempool and the hash *)
(* mapping keep their types; each task has at most one transaction pending.  *)
THEOREM RelayTypeCorrect == RelaySpec => []RelayTypeOK
<1>1. RelayInv => RelayTypeOK
  BY DEF RelayInv
<1> QED
  BY <1>1, RelayInvariant, PTL

(* When the clearing task has moved past a checkpoint every burn of it is     *)
(* bridged: neither a burn it skipped because of the nonce it read, nor one   *)
(* whose bridgeTo reverted, nor one before the checkpoint it started from is *)
(* left behind.                                                             *)
THEOREM ClearingComplete == RelaySpec => []ClearingLeavesNothingBehind
<1>1. RelayInv => ClearingLeavesNothingBehind
  BY DEF RelayInv
<1> QED
  BY <1>1, RelayInvariant, PTL

(* A withdrawal that has left the list in which a restart looks for unfinished *)
(* work is bridged, although the relayer links on any receipt.               *)
THEOREM LinksBridged == RelaySpec => []LinkedBurnsAreBridged
<1>1. RelayInv => LinkedBurnsAreBridged
  BY DEF RelayInv
<1> QED
  BY <1>1, RelayInvariant, PTL

(* Whatever the two tasks, reverted transactions, crashes and restarts do to  *)
(* the contract is a step that Settlement allows, so the theorems about      *)
(* Settlement hold of the relayer.                                          *)
THEOREM RelayImplementsSettlement == RelaySpec => ImplementsSettlement
<1>1. RelayInit => Init
  BY DEF RelayInit
<1>2. RelayInv /\ [RelayNext]_relayVars => [SettlementNext]_vars
  BY RelayCallsAllowed
<1> QED
  BY <1>1, <1>2, RelayInvariant, PTL DEF RelaySpec, ImplementsSettlement, SettlementSpec

(* What Settlement promises of the contract for any order of the relayer's     *)
(* calls holds while the relayer runs: tallies count each burn at most once, *)
(* closed checkpoints are paid out, and the stored nonces tell which burns   *)
(* are.                                                                      *)
THEOREM RelaySettlesSafely ==
    RelaySpec => [](TallyCountsBurns /\ ClosedCheckpointBridged /\ BridgedBelowNonce)
<1>1. RelayInv => TallyCountsBurns /\ ClosedCheckpointBridged /\ BridgedBelowNonce
  BY InvClosedBridged DEF RelayInv, SettlementInv
<1> QED
  BY <1>1, RelayInvariant, PTL

(* The relayer and the contract together pay out as the ledger of withdrawals *)
(* promises: each burn once, an account's burns in order, and no checkpoint  *)
(* reported as completed before its burns are paid.                         *)
THEOREM RelayImplementsLedger == RelaySpec => ImplementsLedger
BY RelayImplementsSettlement, SettlementImplementsLedger DEF ImplementsSettlement
-----------------------------------------------------------------------------
(* An entry that was registered and never sent.                              *)

(* The process stops at it: whatever else the recovery links or passes over,  *)
(* and whatever the network and the operator do, the entry stays as it is.  *)
LEMMA UnbridgedEntryKept ==
    ASSUME RelayInv, NEW h \in Hashes, UnbridgedEntry(h), [RelayNext]_relayVars
    PROVE  UnbridgedEntry(h)' \/ RecoverSkips(h)
<1> USE DEF UnbridgedEntry
<1>1. mapping \in [Hashes -> {"none", "registered", "linked"}]
  BY DEF RelayInv, RelayTypeOK
<1>2. CASE UNCHANGED relayVars
  BY <1>2 DEF relayVars, relayerVars, vars, tallyVars
<1>3. CASE \/ \E g \in Hashes : CertifyBurn(g)
           \/ FormCheckpoint
           \/ Start
           \/ Crash
  BY <1>3 DEF CertifyBurn, FormCheckpoint, Start, Crash, Stopped, relayerVars, vars,
              tallyVars
<1>4. CASE Deploy
  BY <1>4 DEF Deploy, MapTokenAddresses, relayerVars, tallyVars
<1>5. ASSUME NEW g \in Hashes, RecoverLink(g)
      PROVE  UnbridgedEntry(h)'
  <2>1. g # h
    BY <1>5 DEF RecoverLink
  <2> QED
    BY <1>1, <1>5, <2>1 DEF RecoverLink, vars, tallyVars
<1>6. ASSUME NEW g \in Hashes, RecoverFails(g)
      PROVE  UnbridgedEntry(h)'
  BY <1>6 DEF RecoverFails, Stopped, vars, tallyVars
<1>7. ASSUME NEW g \in Hashes, RecoverSkips(g), g # h
      PROVE  UnbridgedEntry(h)'
  BY <1>7 DEF RecoverSkips, vars, tallyVars
<1>8. ~ StartTasks
  BY DEF StartTasks
<1>9. ~ (DropPending \/ Execute)
  BY DEF DropPending, Execute
<1>10. ~ (TakeLive \/ StreamCloses \/ FetchCheckpoint \/ SubmitCertify)
  BY DEF TakeLive, StreamCloses, FetchCheckpoint, SubmitCertify
<1>11. \A t \in Tasks : ~ TaskStep(t)
  BY DEF TaskStep, Register, ReadNonce, SubmitBridgeTo, Link
<1> QED
  BY <1>2, <1>3, <1>4, <1>5, <1>6, <1>7, <1>8, <1>9, <1>10, <1>11 DEF RelayNext, Recovery

(* After a crash between registerWithdrawal and bridgeTo, once the mempool is  *)
(* empty and the process down, only a failed query of the burn's receipt     *)
(* lets a start get to its tasks: no other start does, and the burn is not   *)
(* bridged, however the other entries are recovered.                        *)
THEOREM UnbridgedEntryHoldsStarts == RelaySpec => UnbridgedEntryPassedByFailure
<1>1. RelayInv /\ [RelayNext]_relayVars =>
          [\A h \in Hashes : UnbridgedEntry(h) => UnbridgedEntry(h)' \/ RecoverSkips(h)]_relayVars
  BY UnbridgedEntryKept
<1> QED
  BY <1>1, RelayInvariant, PTL DEF RelaySpec, UnbridgedEntryPassedByFailure
=============================================================================
