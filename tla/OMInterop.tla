----------------------------- MODULE OMInterop -----------------------------
(***************************************************************************)
(* The interop contract of the sidechain (solidity/src/OMInterop.sol).      *)
(*                                                                         *)
(* A transaction of the contract is one action: either every require passes *)
(* and all its writes happen, or it reverts and nothing changes, so a       *)
(* revert is an action that is not enabled.  The action takes msg.sender    *)
(* and the call's arguments; Next tries every caller and every argument of  *)
(* the constant sets, so the contract is modelled for any relayer, not only *)
(* for the one that the repository ships (Settlement.tla adds that one).    *)
(***************************************************************************)
EXTENDS Integers, Sequences, FiniteSets

CONSTANTS
    Owner, InitOperator, InitRelayer, InitOracle, \* arguments of initialize
    Principals,      \* accounts that may call the contract
    Oracles,         \* price oracle contracts the owner may install
    Accounts,        \* 1Money accounts: senders of burns, receivers of mints
    OmTokens,        \* tokens of the 1Money network
    ScTokens,        \* OFT contracts of the sidechain
    Hashes,          \* hashes of BurnAndBridge transactions
    Amounts,         \* amounts tried in bridgeFrom
    Limits, Windows, \* arguments tried in setRateLimit
    Requests,        \* BridgeToRequests tried by a caller of bridgeTo
    HashLists,       \* lists tried in updateCheckpointInfo, as sets
    NativeFees,      \* native fees LayerZero may quote for a send
    PriceOf,         \* token fee an oracle answers for a native fee
    Unset,           \* what it answers when the token has no price: a revert
    NoBinding,       \* an unmapped token
    MaxUint64,       \* type(uint64).max, scaled down
    MaxUint32,       \* type(uint32).max, scaled down
    MaxCheckpoint,   \* bound on checkpoint ids
    MaxTime,         \* bound on block.timestamp
    MaxBalance       \* bound on the native balance of the contract

Protocols   == {"LayerZero", "Mock"}
Checkpoints == 0..MaxCheckpoint
Bindings    == [omToken : OmTokens, scToken : ScTokens, protocol : Protocols]

(***************************************************************************)
(* A BridgeToRequest.  wellFormed stands for the checks that only look at   *)
(* the arguments: nonzero addresses, amount and chain; decodable says that  *)
(* bridgeData holds the (gas, minimum amount) pair LayerZero needs.         *)
(***************************************************************************)
RequestType == [from : Accounts, bbNonce : Nat, escrowFee : Nat,
                omToken : OmTokens, checkpointId : Checkpoints,
                sourceHash : Hashes, wellFormed : BOOLEAN, decodable : BOOLEAN]

ASSUME ContractAssumption ==
    /\ {Owner, InitOperator, InitRelayer} \subseteq Principals
    /\ InitOracle \in Oracles
    /\ IsFiniteSet(Hashes)
    /\ Requests \subseteq RequestType
    /\ HashLists \subseteq SUBSET Hashes
    /\ Amounts \subseteq Nat /\ Limits \subseteq Nat /\ Windows \subseteq Nat
    /\ NativeFees \subseteq Nat
    /\ PriceOf \in [Oracles \X OmTokens \X NativeFees -> Nat \cup {Unset}]
    /\ Unset \notin Nat
    /\ NoBinding \notin Bindings
    /\ MaxUint64 \in Nat /\ MaxUint32 \in Nat
    /\ MaxCheckpoint \in Nat /\ MaxTime \in Nat
    /\ MaxBalance \in Nat

VARIABLES
    operator, relayer, priceOracle,
    tokensByOm, tokensBySidechain,
    rateLimitsParam, rateLimitsData,
    nextInboundNonce,
    latestBbNonce,             \* account -> bbNonce its next burn must carry
    checkpointIdsBySourceHash, \* hash -> checkpoint, 0 when none is known
    processedBridges,          \* hashes whose bridgeTo succeeded
    checkpointTallies,         \* checkpoint -> certified and completed burns
    earliestIncompletedCheckpoint,
    balance,                   \* native coins that pay LayerZero
    now,                       \* block.timestamp
    log,                       \* the events emitted so far
    admitted                   \* history: what came in of each limited token in
                               \* each epoch since the last setRateLimit

roleVars  == <<operator, relayer, priceOracle>>
tokenVars == <<tokensByOm, tokensBySidechain>>
limitVars == <<rateLimitsParam, rateLimitsData, admitted>>
tallyVars == <<latestBbNonce, checkpointIdsBySourceHash, processedBridges,
               checkpointTallies, earliestIncompletedCheckpoint>>
eventVars == <<nextInboundNonce, log>>
vars == <<roleVars, tokenVars, limitVars, tallyVars, eventVars, balance, now>>

NoLimit    == [limit |-> 0, window |-> 0]
NoInflow   == [amountInFlight |-> 0, lastEpoch |-> 0]
EmptyTally == [certified |-> 0, completed |-> 0]

NothingAdmitted == [epoch \in 0..MaxTime |-> 0]

Received == [kind : {"OMInteropReceived"}, nonce : Nat, to : Accounts,
             amount : Nat, omToken : OmTokens]
Sent     == [kind : {"OMInteropSent"}, nonce : Nat, from : Accounts,
             bbNonce : Nat, refundAmount : Nat, omToken : OmTokens,
             sourceHash : Hashes]

TypeOK ==
    /\ operator \in Principals /\ relayer \in Principals
    /\ priceOracle \in Oracles
    /\ tokensByOm \in [OmTokens -> Bindings \cup {NoBinding}]
    /\ tokensBySidechain \in [ScTokens -> Bindings \cup {NoBinding}]
    /\ rateLimitsParam \in [OmTokens -> [limit : Nat, window : Nat]]
    /\ rateLimitsData \in [OmTokens -> [amountInFlight : Nat, lastEpoch : Nat]]
    /\ admitted \in [OmTokens -> [0..MaxTime -> Nat]]
    /\ nextInboundNonce \in 0..MaxUint64
    /\ latestBbNonce \in [Accounts -> Nat]
    /\ checkpointIdsBySourceHash \in [Hashes -> Checkpoints]
    /\ processedBridges \subseteq Hashes
    /\ checkpointTallies \in [Checkpoints -> [certified : Nat, completed : Nat]]
    /\ earliestIncompletedCheckpoint \in 1..MaxCheckpoint + 1
    /\ balance \in Nat /\ now \in 0..MaxTime
    /\ log \in Seq(Received \cup Sent)

Init ==
    /\ operator = InitOperator /\ relayer = InitRelayer
    /\ priceOracle = InitOracle
    /\ tokensByOm = [t \in OmTokens |-> NoBinding]
    /\ tokensBySidechain = [t \in ScTokens |-> NoBinding]
    /\ rateLimitsParam = [t \in OmTokens |-> NoLimit]
    /\ rateLimitsData = [t \in OmTokens |-> NoInflow]
    /\ admitted = [t \in OmTokens |-> NothingAdmitted]
    /\ nextInboundNonce = 0
    /\ latestBbNonce = [a \in Accounts |-> 0]
    /\ checkpointIdsBySourceHash = [h \in Hashes |-> 0]
    /\ processedBridges = {}
    /\ checkpointTallies = [c \in Checkpoints |-> EmptyTally]
    /\ earliestIncompletedCheckpoint = 1
    /\ balance = 0 /\ now = 0
    /\ log = <<>>

-----------------------------------------------------------------------------
(* Roles, settable by the owner alone.                                      *)

SetOperator(sender, account) ==
    /\ sender = Owner
    /\ operator' = account
    /\ UNCHANGED <<relayer, priceOracle, tokenVars, limitVars, tallyVars,
                   eventVars, balance, now>>

SetRelayer(sender, account) ==
    /\ sender = Owner
    /\ relayer' = account
    /\ UNCHANGED <<operator, priceOracle, tokenVars, limitVars, tallyVars,
                   eventVars, balance, now>>

SetPriceOracle(sender, oracle) ==
    /\ sender = Owner
    /\ priceOracle' = oracle
    /\ UNCHANGED <<operator, relayer, tokenVars, limitVars, tallyVars,
                   eventVars, balance, now>>

(* Both tables are overwritten at their key; the entry of the token the pair *)
(* replaces stays in the other table.                                       *)
MapTokenAddresses(sender, omToken, scToken, protocol) ==
    LET binding == [omToken |-> omToken, scToken |-> scToken,
                    protocol |-> protocol]
    IN  /\ sender = operator
        /\ tokensBySidechain' = [tokensBySidechain EXCEPT ![scToken] = binding]
        /\ tokensByOm' = [tokensByOm EXCEPT ![omToken] = binding]
        /\ UNCHANGED <<roleVars, limitVars, tallyVars, eventVars, balance, now>>

-----------------------------------------------------------------------------
(* Deposits: bridgeFrom and its rate limit.                                 *)

(* A window of 0 removes the limit; a new limit forgets what came in.       *)
SetRateLimit(sender, token, limit, window) ==
    /\ sender = operator
    /\ IF window = 0
       THEN /\ rateLimitsParam' = [rateLimitsParam EXCEPT ![token] = NoLimit]
            /\ rateLimitsData' = [rateLimitsData EXCEPT ![token] = NoInflow]
       ELSE /\ rateLimitsParam' = [rateLimitsParam EXCEPT
                    ![token] = [limit |-> limit, window |-> window]]
            /\ rateLimitsData' = [rateLimitsData EXCEPT
                    ![token] = [amountInFlight |-> 0,
                                lastEpoch |-> now \div window]]
    /\ admitted' = [admitted EXCEPT ![token] = NothingAdmitted]
    /\ UNCHANGED <<roleVars, tokenVars, tallyVars, eventVars, balance, now>>

(* Fault: the window is taken to be over as soon as it began.                *)
CurrentInflowAlwaysReset(token) ==
    [amountInFlight |-> 0, lastEpoch |-> now \div rateLimitsParam[token].window]

(* The data of a limited token at the current time: a new epoch starts at 0. *)
CurrentInflow(token) ==
    LET epoch == now \div rateLimitsParam[token].window
    IN  IF epoch > rateLimitsData[token].lastEpoch
        THEN [amountInFlight |-> 0, lastEpoch |-> epoch]
        ELSE rateLimitsData[token]

CheckAndUpdateRateLimit(token, amount) ==
    IF rateLimitsParam[token].window = 0
    THEN UNCHANGED rateLimitsData
    ELSE LET inflow == CurrentInflow(token)
         IN  /\ inflow.amountInFlight + amount <= rateLimitsParam[token].limit
             /\ rateLimitsData' = [rateLimitsData EXCEPT ![token] =
                    [inflow EXCEPT !.amountInFlight = @ + amount]]

(* History: what a limited token has admitted, by the epoch of block time.   *)
RecordAdmitted(token, amount) ==
    LET window == rateLimitsParam[token].window
    IN  admitted' = IF window = 0 THEN admitted
                    ELSE [admitted EXCEPT ![token][now \div window] = @ + amount]

(* Fault: no overflow check.                                                 *)
IncreaseInboundNonceUnchecked == nextInboundNonce' = nextInboundNonce + 1

IncreaseInboundNonce ==
    /\ nextInboundNonce # MaxUint64
    /\ nextInboundNonce' = nextInboundNonce + 1

(* Called by the OFT contract that received the transfer (msg.sender).      *)
BridgeFrom(scToken, to, amount) ==
    /\ amount > 0
    /\ tokensBySidechain[scToken] # NoBinding
    /\ IncreaseInboundNonce
    /\ LET omToken == tokensBySidechain[scToken].omToken
       IN  /\ CheckAndUpdateRateLimit(omToken, amount)
           /\ log' = Append(log, [kind |-> "OMInteropReceived",
                                  nonce |-> nextInboundNonce' - 1,
                                  to |-> to, amount |-> amount,
                                  omToken |-> omToken])
           /\ RecordAdmitted(omToken, amount)
    /\ UNCHANGED <<roleVars, tokenVars, rateLimitsParam, tallyVars, balance, now>>

-----------------------------------------------------------------------------
(* Checkpoint tallies.                                                      *)

IsCheckpointComplete(tallies, c) ==
    /\ c \in Checkpoints
    /\ tallies[c].certified # 0
    /\ tallies[c].completed >= tallies[c].certified

(* Fault: pruned checkpoints are not refused.                                *)
AcceptAnyCheckpoint(c) == TRUE

EnsureCheckpointNotCompleted(c) == c = 0 \/ c >= earliestIncompletedCheckpoint

(* Fault: only the front checkpoint is pruned, not those that wait behind it. *)
TryPruneFrontOnly(tallies, c) ==
    LET front == earliestIncompletedCheckpoint
        done  == c = front /\ IsCheckpointComplete(tallies, c)
    IN  /\ earliestIncompletedCheckpoint' = IF done THEN front + 1 ELSE front
        /\ checkpointTallies' = [d \in Checkpoints |->
               IF done /\ d = front THEN EmptyTally ELSE tallies[d]]

(* The pruning loop: when c is complete, every complete checkpoint from the *)
(* earliest incomplete one on is deleted, up to the first one that is not.  *)
TryPruneCheckpoint(tallies, c) ==
    \E next \in earliestIncompletedCheckpoint..MaxCheckpoint + 1 :
        /\ IF IsCheckpointComplete(tallies, c)
           THEN /\ \A d \in earliestIncompletedCheckpoint..next - 1 :
                       IsCheckpointComplete(tallies, d)
                /\ ~ IsCheckpointComplete(tallies, next)
           ELSE next = earliestIncompletedCheckpoint
        /\ earliestIncompletedCheckpoint' = next
        /\ checkpointTallies' = [d \in Checkpoints |->
               IF d \in earliestIncompletedCheckpoint..next - 1
               THEN EmptyTally ELSE tallies[d]]

(* Fault: hashes that have a checkpoint already are counted again.           *)
UpdateCheckpointInfoRecounting(sender, c, hashes) ==
    /\ sender = relayer
    /\ EnsureCheckpointNotCompleted(c)
    /\ ~ IsCheckpointComplete(checkpointTallies, c)
    /\ checkpointTallies[c].certified + Cardinality(hashes) <= MaxUint32
    /\ checkpointIdsBySourceHash' = [h \in Hashes |->
           IF h \in hashes THEN c ELSE checkpointIdsBySourceHash[h]]
    /\ TryPruneCheckpoint(
           [checkpointTallies EXCEPT ![c].certified = @ + Cardinality(hashes)], c)
    /\ UNCHANGED <<roleVars, tokenVars, limitVars, latestBbNonce,
                   processedBridges, eventVars, balance, now>>

(* Only hashes without a checkpoint are certified; those already bridged     *)
(* count as completed at once.  The counters are checked uint32.            *)
UpdateCheckpointInfo(sender, c, hashes) ==
    LET new == {h \in hashes : checkpointIdsBySourceHash[h] = 0}
    IN  /\ sender = relayer
        /\ EnsureCheckpointNotCompleted(c)
        /\ ~ IsCheckpointComplete(checkpointTallies, c)
        /\ checkpointTallies[c].certified + Cardinality(new) <= MaxUint32
        /\ checkpointTallies[c].completed
               + Cardinality(new \cap processedBridges) <= MaxUint32
        /\ checkpointIdsBySourceHash' = [h \in Hashes |->
               IF h \in new THEN c ELSE checkpointIdsBySourceHash[h]]
        /\ TryPruneCheckpoint(
               [checkpointTallies EXCEPT ![c] =
                   [certified |-> @.certified + Cardinality(new),
                    completed |-> @.completed
                                  + Cardinality(new \cap processedBridges)]],
               c)
        /\ UNCHANGED <<roleVars, tokenVars, limitVars, latestBbNonce,
                       processedBridges, eventVars, balance, now>>

-----------------------------------------------------------------------------
(* Withdrawals: bridgeTo.                                                   *)

(* Fault: a nonce ahead of the next one is accepted.                         *)
EnforceGrowingNonce(account, bbNonce) ==
    /\ bbNonce >= latestBbNonce[account]
    /\ latestBbNonce' = [latestBbNonce EXCEPT ![account] = bbNonce + 1]

(* Fault: the nonce is compared and not stored.                              *)
EnforceNonceUnstored(account, bbNonce) ==
    /\ bbNonce = latestBbNonce[account] /\ bbNonce < MaxUint64
    /\ UNCHANGED latestBbNonce

(* Burns come with the next nonce only; bbNonce + 1 is checked uint64.        *)
EnforceSequentialNonce(account, bbNonce) ==
    /\ bbNonce = latestBbNonce[account] /\ bbNonce < MaxUint64
    /\ latestBbNonce' = [latestBbNonce EXCEPT ![account] = bbNonce + 1]

BridgeToValidated(req) ==
    /\ req.wellFormed
    /\ EnsureCheckpointNotCompleted(req.checkpointId)
    /\ tokensByOm[req.omToken] # NoBinding
    /\ ~ IsCheckpointComplete(checkpointTallies, req.checkpointId)
    /\ EnforceSequentialNonce(req.from, req.bbNonce)

(* LayerZero takes its native fee from the contract's balance and the user   *)
(* gets back what the escrow holds beyond that fee, priced by the oracle.   *)
DispatchBridge(req, refundAmount) ==
    IF tokensByOm[req.omToken].protocol = "Mock"
    THEN refundAmount = req.escrowFee /\ UNCHANGED balance
    ELSE \E nativeFee \in NativeFees :
             LET paidFee == PriceOf[priceOracle, req.omToken, nativeFee]
             IN  /\ req.decodable
                 /\ nativeFee <= balance
                 /\ balance' = balance - nativeFee
                 /\ paidFee # Unset
                 /\ refundAmount = IF req.escrowFee >= paidFee
                                   THEN req.escrowFee - paidFee ELSE 0

(* A burn that comes with its checkpoint counts as completed there.          *)
RecordProcessedBridge(hash, c) ==
    /\ processedBridges' = processedBridges \cup {hash}
    /\ IF c > 0
       THEN /\ checkpointTallies[c].completed < MaxUint32
            /\ checkpointIdsBySourceHash' =
                   [checkpointIdsBySourceHash EXCEPT ![hash] = c]
            /\ TryPruneCheckpoint(
                   [checkpointTallies EXCEPT ![c].completed = @ + 1], c)
       ELSE UNCHANGED <<checkpointIdsBySourceHash, checkpointTallies,
                        earliestIncompletedCheckpoint>>

(* Fault: bridgeTo without recordInboundNonce.                               *)
BridgeToUncounted(sender, req) ==
    /\ sender = relayer
    /\ BridgeToValidated(req)
    /\ \E refundAmount \in 0..req.escrowFee :
           /\ DispatchBridge(req, refundAmount)
           /\ log' = Append(log, [kind |-> "OMInteropSent",
                                  nonce |-> nextInboundNonce,
                                  from |-> req.from, bbNonce |-> req.bbNonce,
                                  refundAmount |-> refundAmount,
                                  omToken |-> req.omToken,
                                  sourceHash |-> req.sourceHash])
    /\ RecordProcessedBridge(req.sourceHash, req.checkpointId)
    /\ UNCHANGED <<roleVars, tokenVars, limitVars, now, nextInboundNonce>>

BridgeTo(sender, req) ==
    /\ sender = relayer
    /\ BridgeToValidated(req)
    /\ IncreaseInboundNonce
    /\ \E refundAmount \in 0..req.escrowFee :
           /\ DispatchBridge(req, refundAmount)
           /\ log' = Append(log, [kind |-> "OMInteropSent",
                                  nonce |-> nextInboundNonce' - 1,
                                  from |-> req.from, bbNonce |-> req.bbNonce,
                                  refundAmount |-> refundAmount,
                                  omToken |-> req.omToken,
                                  sourceHash |-> req.sourceHash])
    /\ RecordProcessedBridge(req.sourceHash, req.checkpointId)
    /\ UNCHANGED <<roleVars, tokenVars, limitVars, now>>

GetLatestCompletedCheckpoint == earliestIncompletedCheckpoint - 1
GetLatestProcessedNonce(account) == latestBbNonce[account]

-----------------------------------------------------------------------------
(* The environment: native coins sent to the contract, and block time.      *)

Receive ==
    /\ balance < MaxBalance
    /\ balance' = balance + 1
    /\ UNCHANGED <<roleVars, tokenVars, limitVars, tallyVars, eventVars, now>>

Tick ==
    /\ now < MaxTime
    /\ now' = now + 1
    /\ UNCHANGED <<roleVars, tokenVars, limitVars, tallyVars, eventVars, balance>>

OwnerCalls(sender) ==
    \/ \E account \in Principals : SetOperator(sender, account)
    \/ \E account \in Principals : SetRelayer(sender, account)
    \/ \E oracle \in Oracles : SetPriceOracle(sender, oracle)

OperatorCalls(sender) ==
    \/ \E om \in OmTokens, sc \in ScTokens, protocol \in Protocols :
           MapTokenAddresses(sender, om, sc, protocol)
    \/ \E token \in OmTokens, limit \in Limits, window \in Windows :
           SetRateLimit(sender, token, limit, window)

RelayerCalls(sender) ==
    \/ \E req \in Requests : BridgeTo(sender, req)
    \/ \E c \in Checkpoints, hashes \in HashLists :
           UpdateCheckpointInfo(sender, c, hashes)

Deposits ==
    \E scToken \in ScTokens, to \in Accounts, amount \in Amounts :
        BridgeFrom(scToken, to, amount)

Next ==
    \/ \E sender \in Principals :
           OwnerCalls(sender) \/ OperatorCalls(sender) \/ RelayerCalls(sender)
    \/ Deposits
    \/ Receive
    \/ Tick

Spec == Init /\ [][Next]_vars

-----------------------------------------------------------------------------
(* Properties of the contract whatever its callers do.                      *)

IsSent(event) == event.kind = "OMInteropSent"

(* The relayer's 1Money nonces come from the events, so the events carry 0,  *)
(* 1, 2, ... without a gap: a deposit that the rate limit rejects gives its *)
(* number back, and deposits and withdrawals share one counter.             *)
EventNoncesGapless ==
    /\ nextInboundNonce = Len(log)
    /\ \A i \in 1..Len(log) : log[i].nonce = i - 1

(* Anti-replay: the burns of an account are dispatched once each, in the     *)
(* order of their bbNonces, whatever the relayer submits.                   *)
BridgedInNonceOrder ==
    /\ \A account \in Accounts : \A n \in 0..latestBbNonce[account] - 1 :
           \E i \in 1..Len(log) : /\ IsSent(log[i])
                                 /\ log[i].from = account
                                 /\ log[i].bbNonce = n
    /\ \A i \in 1..Len(log) :
           IsSent(log[i]) => log[i].bbNonce < latestBbNonce[log[i].from]
    /\ \A i, j \in 1..Len(log) :
           (i < j /\ IsSent(log[i]) /\ IsSent(log[j])
            /\ log[i].from = log[j].from) => log[i].bbNonce < log[j].bbNonce

(* Since the limit of a token was last set, what came in during one epoch    *)
(* never exceeds it, although rejected deposits and other tokens interleave *)
(* and the epoch of the data is only renewed by the next deposit.           *)
InflowWithinLimit ==
    \A token \in OmTokens : rateLimitsParam[token].window # 0 =>
        \A epoch \in 0..MaxTime :
            admitted[token][epoch] <= rateLimitsParam[token].limit

(* A checkpoint is closed once it is complete or pruned.                     *)
Closed(c) == \/ c # 0 /\ c < earliestIncompletedCheckpoint
             \/ IsCheckpointComplete(checkpointTallies, c)

(* Pruning is prompt: no call returns with a complete checkpoint at the      *)
(* front, whichever call completed it and however many complete checkpoints *)
(* wait behind it, so getLatestCompletedCheckpoint is never behind them.    *)
FrontIsIncomplete ==
    ~ IsCheckpointComplete(checkpointTallies, earliestIncompletedCheckpoint)

(* A closed checkpoint never reopens, and no burn is added to it, neither by *)
(* a late certification nor by a late bridgeTo, whatever the relayer does.  *)
ClosedStep ==
    \A c \in Checkpoints : Closed(c) =>
        /\ Closed(c)'
        /\ {h \in Hashes : /\ checkpointIdsBySourceHash[h] # c
                           /\ checkpointIdsBySourceHash'[h] = c} = {}
ClosedStaysClosed == [][ClosedStep]_vars
=============================================================================
