--------------------------- MODULE WithdrawalRelay ---------------------------
(***************************************************************************)
(* The outgoing half of the relayer (crates/relayer/src/outgoing and cli.rs) *)
(* between the 1Money network and the interop contract.                     *)
(*                                                                         *)
(* Two tasks of one process relay the same burns: the live task reads the   *)
(* certified transactions of a websocket and submits bridgeTo with          *)
(* checkpoint 0; the clearing task walks the checkpoints, certifies each    *)
(* one and submits its burns with their checkpoint.  Each await of the code *)
(* is a point where the other task, the sidechain, the 1Money network or a  *)
(* crash can step in.  The first error of any task ends the process.        *)
(***************************************************************************)
EXTENDS Settlement

CONSTANTS
    CheckpointTxs, \* checkpoint -> its burns, in the order the node lists them
    LiveStream,    \* whether the websocket is open when the process starts
    MaxCrashes,    \* bound on crashes that are not errors of the code
    NoBurn

ASSUME RelayAssumption ==
    /\ CheckpointTxs \in [Checkpoints -> Seq(Hashes)]
    /\ \A c \in Checkpoints :
           /\ {CheckpointTxs[c][i] : i \in DOMAIN CheckpointTxs[c]} = BurnsOf(c)
           /\ Len(CheckpointTxs[c]) = Cardinality(BurnsOf(c))
    /\ \A g, h \in Hashes : g \in Ledger!EarlierOfSender(h) =>
           /\ Burns[g].checkpoint <= Burns[h].checkpoint
           /\ \A c \in Checkpoints : \A i, j \in DOMAIN CheckpointTxs[c] :
                  CheckpointTxs[c][i] = g /\ CheckpointTxs[c][j] = h => i < j
    /\ LiveStream \in BOOLEAN /\ MaxCrashes \in Nat /\ NoBurn \notin Hashes

(* The counters of the contract are wide enough for the burns there are, and  *)
(* a burn's own nonce, the next one less one, is below the largest.         *)
ASSUME CounterAssumption ==
    /\ Cardinality(Hashes) <= MaxUint64
    /\ \A h \in Hashes : Burns[h].bbNonce < MaxUint64
    /\ \A c \in Checkpoints : Cardinality(BurnsOf(c)) <= MaxUint32

Tasks == {"live", "clearing"}

VARIABLES
    certified,  \* 1Money: the burns certified so far
    height,     \* 1Money: the last checkpoint formed
    process,    \* "down", "recovering" (hash mapping first), "relaying"
    unrecovered, \* entries the recovery has still to look at
    liveQueue,  \* certified burns sent on the websocket and not read yet
    job,        \* what each task is doing, for which burn
    checkpoint, \* the clearing task's current checkpoint
    position,   \* how many of its burns the clearing task has done
    mempool,    \* transactions sent and not yet executed, in nonce order
    mapping,    \* the withdrawal entry of each burn in TxHashMapping
    crashes

oneMoneyVars == <<certified, height>>
relayerVars  == <<process, unrecovered, liveQueue, job, checkpoint, position>>
relayVars    == <<vars, oneMoneyVars, relayerVars, mempool, mapping, crashes>>

JobStates == {"idle", "closed", "fetch", "certify", "certifying", "register",
              "read", "submit", "mining", "link"}
Job(state, burn) == [state |-> state, burn |-> burn]
Transactions == [task : Tasks, burn : Hashes \cup {NoBurn}, checkpoint : Checkpoints]

RelayTypeOK ==
    /\ TypeOK
    /\ certified \subseteq Hashes /\ height \in Checkpoints
    /\ process \in {"down", "recovering", "relaying"}
    /\ unrecovered \subseteq Hashes
    /\ liveQueue \in Seq(Hashes)
    /\ job \in [Tasks -> [state : JobStates, burn : Hashes \cup {NoBurn}]]
    /\ checkpoint \in 0..MaxCheckpoint + 1 /\ position \in Nat
    /\ mempool \in Seq(Transactions)
    /\ \A i, j \in DOMAIN mempool : mempool[i].task = mempool[j].task => i = j
    /\ mapping \in [Hashes -> {"none", "registered", "linked"}]
    /\ crashes \in 0..MaxCrashes

(* The process's state when it is not running.                              *)
Stopped ==
    /\ process' = "down" /\ unrecovered' = {}
    /\ liveQueue' = <<>>
    /\ job' = [t \in Tasks |-> Job("idle", NoBurn)]
    /\ checkpoint' = 0 /\ position' = 0

RelayInit ==
    /\ Init
    /\ certified = {} /\ height = 0
    /\ process = "down" /\ unrecovered = {} /\ liveQueue = <<>>
    /\ job = [t \in Tasks |-> Job("idle", NoBurn)]
    /\ checkpoint = 0 /\ position = 0
    /\ mempool = <<>>
    /\ mapping = [h \in Hashes |-> "none"]
    /\ crashes = 0

-----------------------------------------------------------------------------
(* The 1Money network (external): burns are certified in the order of their  *)
(* sender's nonces and sent to the websocket's subscriber; a checkpoint is  *)
(* formed once its burns are certified.                                     *)

TokensMapped == \A om \in OmTokens : tokensByOm[om] # NoBinding

CertifyBurn(h) ==
    /\ TokensMapped
    /\ h \notin certified
    /\ Ledger!EarlierOfSender(h) \subseteq certified
    /\ certified' = certified \cup {h}
    /\ liveQueue' = IF process = "relaying" /\ job["live"].state # "closed"
                    THEN Append(liveQueue, h) ELSE liveQueue
    /\ UNCHANGED <<vars, height, process, unrecovered, job, checkpoint, position,
                   mempool, mapping, crashes>>

FormCheckpoint ==
    /\ TokensMapped /\ height < MaxCheckpoint
    /\ BurnsOf(height + 1) \subseteq certified
    /\ height' = height + 1
    /\ UNCHANGED <<vars, certified, relayerVars, mempool, mapping, crashes>>

(* The operator maps every token before the network is used.                 *)
Deploy ==
    /\ \E om \in OmTokens, sc \in ScTokens :
           tokensByOm[om] = NoBinding /\ MapTokenAddresses(operator, om, sc, "Mock")
    /\ UNCHANGED <<oneMoneyVars, relayerVars, mempool, mapping, crashes>>

-----------------------------------------------------------------------------
(* Starting: the hash mapping is recovered first, then both tasks run.       *)

Start ==
    /\ process = "down" /\ mempool = <<>> /\ TokensMapped
    /\ process' = "recovering"
    /\ unrecovered' = {h \in Hashes : mapping[h] = "registered"}
    /\ UNCHANGED <<vars, oneMoneyVars, liveQueue, job, checkpoint, position,
                   mempool, mapping, crashes>>

(* A registered withdrawal is linked to the bridgeTo its event names; without *)
(* such an event the recovery, and with it the process, ends in an error.   *)
RecoverLink(h) ==
    /\ process = "recovering" /\ h \in unrecovered
    /\ h \in processedBridges
    /\ unrecovered' = unrecovered \ {h}
    /\ mapping' = [mapping EXCEPT ![h] = "linked"]
    /\ UNCHANGED <<vars, oneMoneyVars, process, liveQueue, job, checkpoint, position,
                   mempool, crashes>>

RecoverFails(h) ==
    /\ process = "recovering" /\ h \in unrecovered
    /\ h \notin processedBridges
    /\ Stopped
    /\ UNCHANGED <<vars, oneMoneyVars, mempool, mapping, crashes>>

(* A withdrawal whose receipt 1Money does not return, or whose link does not  *)
(* succeed, is left as it is with a warning.                                *)
RecoverSkips(h) ==
    /\ process = "recovering" /\ h \in unrecovered
    /\ unrecovered' = unrecovered \ {h}
    /\ UNCHANGED <<vars, oneMoneyVars, process, liveQueue, job, checkpoint, position,
                   mempool, mapping, crashes>>

(* The tasks start; the clearing one at getLatestCompletedCheckpoint.        *)
TasksStart ==
    /\ process' = "relaying" /\ unrecovered' = {}
    /\ job' = [t \in Tasks |->
                  CASE t = "clearing" -> Job("fetch", NoBurn)
                    [] t = "live" -> Job(IF LiveStream THEN "idle" ELSE "closed",
                                         NoBurn)]
    /\ checkpoint' = GetLatestCompletedCheckpoint
    /\ position' = 0
    /\ UNCHANGED <<vars, oneMoneyVars, liveQueue, mempool, mapping, crashes>>

(* Fault: the tasks start although the recovery has not come to an end.      *)
StartTasksUnrecovered == process = "recovering" /\ TasksStart

StartTasks == process = "recovering" /\ unrecovered = {} /\ TasksStart

(* A task's error ends the process; what it sent stays in the mempool.       *)
Exit ==
    /\ Stopped
    /\ UNCHANGED <<vars, oneMoneyVars, mempool, mapping, crashes>>

Crash ==
    /\ process # "down" /\ crashes < MaxCrashes
    /\ crashes' = crashes + 1
    /\ Stopped
    /\ UNCHANGED <<vars, oneMoneyVars, mempool, mapping>>

(* Nodes may forget transactions that nobody waits for any more.             *)
DropPending ==
    /\ process = "down" /\ mempool # <<>>
    /\ mempool' = <<>>
    /\ UNCHANGED <<vars, oneMoneyVars, relayerVars, mapping, crashes>>

-----------------------------------------------------------------------------
(* The two streams.                                                         *)

SetJob(t, new) ==
    /\ job' = [job EXCEPT ![t] = new]
    /\ UNCHANGED <<process, unrecovered, liveQueue, checkpoint, position>>

TakeLive ==
    /\ process = "relaying"
    /\ job["live"].state = "idle" /\ liveQueue # <<>>
    /\ job' = [job EXCEPT !["live"] = Job("register", Head(liveQueue))]
    /\ liveQueue' = Tail(liveQueue)
    /\ UNCHANGED <<vars, oneMoneyVars, process, unrecovered, checkpoint, position,
                   mempool, mapping, crashes>>

(* A closed websocket ends the live task without an error.                   *)
StreamCloses ==
    /\ process = "relaying"
    /\ job["live"].state = "idle" /\ liveQueue = <<>>
    /\ SetJob("live", Job("closed", NoBurn))
    /\ UNCHANGED <<vars, oneMoneyVars, mempool, mapping, crashes>>

(* Fault: off by one, the last burn of a checkpoint is left out.             *)
ClearingAfterLosesLast(n) ==
    IF n + 1 < Len(CheckpointTxs[checkpoint])
    THEN /\ job' = [job EXCEPT !["clearing"] =
                       Job("register", CheckpointTxs[checkpoint][n + 1])]
         /\ position' = n
         /\ UNCHANGED checkpoint
    ELSE /\ job' = [job EXCEPT !["clearing"] = Job("fetch", NoBurn)]
         /\ position' = 0
         /\ checkpoint' = checkpoint + 1

(* What the clearing task does after n burns of its checkpoint.              *)
ClearingAfter(n) ==
    IF n < Len(CheckpointTxs[checkpoint])
    THEN /\ job' = [job EXCEPT !["clearing"] =
                       Job("register", CheckpointTxs[checkpoint][n + 1])]
         /\ position' = n
         /\ UNCHANGED checkpoint
    ELSE /\ job' = [job EXCEPT !["clearing"] = Job("fetch", NoBurn)]
         /\ position' = 0
         /\ checkpoint' = checkpoint + 1

(* Fault: the burns of a checkpoint are submitted before it is certified.    *)
FetchUncertified ==
    /\ process = "relaying"
    /\ job["clearing"].state = "fetch" /\ checkpoint <= height
    /\ ClearingAfter(0)
    /\ UNCHANGED <<vars, oneMoneyVars, process, unrecovered, liveQueue, mempool, mapping,
                   crashes>>

FetchCheckpoint ==
    /\ process = "relaying"
    /\ job["clearing"].state = "fetch" /\ checkpoint <= height
    /\ SetJob("clearing", Job("certify", NoBurn))
    /\ UNCHANGED <<vars, oneMoneyVars, mempool, mapping, crashes>>

-----------------------------------------------------------------------------
(* Sending and executing transactions.  A send estimates gas first, so a call *)
(* that would revert is an error of the task; one that only reverts when it  *)
(* is executed yields a receipt all the same.                               *)

SubmitCertify ==
    /\ process = "relaying" /\ job["clearing"].state = "certify"
    /\ IF CheckpointAccepted(checkpoint)
       THEN /\ mempool' = Append(mempool, [task |-> "clearing", burn |-> NoBurn,
                                           checkpoint |-> checkpoint])
            /\ SetJob("clearing", Job("certifying", NoBurn))
            /\ UNCHANGED <<vars, oneMoneyVars, mapping, crashes>>
       ELSE Exit

Register(t) ==
    /\ process = "relaying" /\ job[t].state = "register"
    /\ mapping' = [mapping EXCEPT ![job[t].burn] =
                      IF @ = "none" THEN "registered" ELSE @]
    /\ SetJob(t, [job[t] EXCEPT !.state = "read"])
    /\ UNCHANGED <<vars, oneMoneyVars, mempool, crashes>>

Finish(t) ==
    /\ IF t = "live"
       THEN /\ job' = [job EXCEPT !["live"] = Job("idle", NoBurn)]
            /\ UNCHANGED <<checkpoint, position>>
       ELSE ClearingAfter(position + 1)
    /\ UNCHANGED <<process, unrecovered, liveQueue>>

(* A burn below the account's stored nonce is skipped, its link included.    *)
ReadNonce(t) ==
    LET h == job[t].burn
    IN  /\ process = "relaying" /\ job[t].state = "read"
        /\ IF GetLatestProcessedNonce(Burns[h].from) > Burns[h].bbNonce
           THEN Finish(t)
           ELSE SetJob(t, [job[t] EXCEPT !.state = "submit"])
        /\ UNCHANGED <<vars, oneMoneyVars, mempool, mapping, crashes>>

(* Fault: the clearing task submits its burns like the live one.             *)
NoCheckpointArgument(t) == 0

(* Fault: the live task names the checkpoint, which may not be certified yet. *)
KnownCheckpointArgument(t) == Burns[job[t].burn].checkpoint

CheckpointArgument(t) == IF t = "live" THEN 0 ELSE Burns[job[t].burn].checkpoint

(* The account's next nonce in a pending block, where the bridgeTo that the   *)
(* other task may have sent for the account is executed already.            *)
PendingNonce(account) ==
    LET next == GetLatestProcessedNonce(account)
    IN  IF \E i \in DOMAIN mempool : /\ mempool[i].burn # NoBurn
                                     /\ Burns[mempool[i].burn].from = account
                                     /\ Burns[mempool[i].burn].bbNonce = next
        THEN next + 1 ELSE next

(* What the estimate of a bridgeTo may answer: a node estimates on its latest *)
(* block or on a pending one.                                               *)
Estimates(t) ==
    LET h == job[t].burn
    IN  {BurnAccepted(h, CheckpointArgument(t), next) :
            next \in {GetLatestProcessedNonce(Burns[h].from),
                     PendingNonce(Burns[h].from)}}

(* Fault: the live task does not wait for the receipt.                       *)
SubmitWithoutWaiting(t) ==
    /\ process = "relaying" /\ job[t].state = "submit"
    /\ TRUE \in Estimates(t)
    /\ mempool' = Append(mempool, [task |-> t, burn |-> job[t].burn,
                                   checkpoint |-> CheckpointArgument(t)])
    /\ SetJob(t, [job[t] EXCEPT !.state = IF t = "live" THEN "link" ELSE "mining"])
    /\ UNCHANGED <<vars, oneMoneyVars, mapping, crashes>>

SubmitBridgeTo(t) ==
    /\ process = "relaying" /\ job[t].state = "submit"
    /\ \E accepted \in Estimates(t) : IF accepted
       THEN /\ mempool' = Append(mempool, [task |-> t, burn |-> job[t].burn,
                                           checkpoint |-> CheckpointArgument(t)])
            /\ SetJob(t, [job[t] EXCEPT !.state = "mining"])
            /\ UNCHANGED <<vars, oneMoneyVars, mapping, crashes>>
       ELSE Exit

(* The link goes to whatever transaction hash the receipt carries; a second   *)
(* link is refused by the mapping contract, which is only logged.           *)
Link(t) ==
    /\ process = "relaying" /\ job[t].state = "link"
    /\ mapping' = [mapping EXCEPT ![job[t].burn] =
                      IF @ = "registered" THEN "linked" ELSE @]
    /\ Finish(t)
    /\ UNCHANGED <<vars, oneMoneyVars, mempool, crashes>>

(* The sidechain executes the next transaction; the task that waits for its  *)
(* receipt goes on, also when the transaction reverted.                     *)
Receipt(tx) ==
    /\ mempool' = Tail(mempool)
    /\ CASE job[tx.task].state = "mining" ->
              SetJob(tx.task, [job[tx.task] EXCEPT !.state = "link"])
         [] job[tx.task].state = "certifying" ->
              ClearingAfter(0) /\ UNCHANGED <<process, unrecovered, liveQueue>>
         [] OTHER -> UNCHANGED relayerVars

Call(tx) == IF tx.burn = NoBurn
            THEN RelayCheckpoint(relayer, tx.checkpoint)
            ELSE BridgeTo(relayer, Request(tx.burn, tx.checkpoint))

Succeeds(tx) ==
    IF tx.burn = NoBurn
    THEN CheckpointAccepted(tx.checkpoint)
    ELSE BurnAccepted(tx.burn, tx.checkpoint,
                      GetLatestProcessedNonce(Burns[tx.burn].from))

Execute ==
    /\ mempool # <<>>
    /\ LET tx == Head(mempool)
       IN  /\ IF Succeeds(tx) THEN Call(tx) ELSE UNCHANGED vars
           /\ Receipt(tx)
    /\ UNCHANGED <<oneMoneyVars, mapping, crashes>>

-----------------------------------------------------------------------------
TaskStep(t) == Register(t) \/ ReadNonce(t) \/ SubmitBridgeTo(t) \/ Link(t)

Recovery == \E h \in Hashes : RecoverLink(h) \/ RecoverFails(h) \/ RecoverSkips(h)

RelayNext ==
    \/ \E h \in Hashes : CertifyBurn(h)
    \/ FormCheckpoint
    \/ Deploy
    \/ Start \/ Recovery \/ StartTasks
    \/ Crash \/ DropPending
    \/ TakeLive \/ StreamCloses
    \/ FetchCheckpoint \/ SubmitCertify
    \/ \E t \in Tasks : TaskStep(t)
    \/ Execute

RelaySpec == RelayInit /\ [][RelayNext]_relayVars

(* The relayer's tasks run whenever they can (tokio polls every ready future *)
(* and each await returns), its supervisor starts it, the clearing interval *)
(* ticks, and the sidechain keeps executing what is in its mempool.         *)
RelayFairness ==
    /\ WF_relayVars(Start) /\ WF_relayVars(Recovery) /\ WF_relayVars(StartTasks)
    /\ WF_relayVars(FetchCheckpoint) /\ WF_relayVars(SubmitCertify)
    /\ \A t \in Tasks : WF_relayVars(TaskStep(t))
    /\ WF_relayVars(Execute)

FairRelaySpec == RelaySpec /\ RelayFairness

-----------------------------------------------------------------------------
(* Properties.                                                              *)

(* Everything the relayer does to the contract, live and clearing tasks,     *)
(* reverted transactions, crashes and restarts included, is a step that     *)
(* Settlement allows: no bridgeTo with a checkpoint that is not certified,  *)
(* no partial list.  So what is proved of Settlement holds of the relayer.  *)
ImplementsSettlement == SettlementSpec

(* The clearing task leaves nothing behind: when it has moved past a         *)
(* checkpoint every burn of it has been bridged, although it skips burns,   *)
(* ignores reverted receipts and starts from what the contract reports.     *)
ClearingLeavesNothingBehind ==
    process = "relaying" =>
        \A h \in Hashes : Burns[h].checkpoint < checkpoint => h \in processedBridges

(* Every checkpoint the network forms is reported as completed at last.      *)
CheckpointsSettle ==
    \A c \in 1..MaxCheckpoint : height >= c ~> GetLatestCompletedCheckpoint >= c

(* getLatestCompletedCheckpoint is "the latest checkpoint for which every    *)
(* BurnAndBridge has been completed" (IOMInterop.sol): once the burns of    *)
(* every checkpoint up to c are certified and bridged, it is at least c.    *)
BridgedCheckpointReported ==
    \A c \in 1..MaxCheckpoint :
        (\A d \in 1..c : /\ BurnsOf(d) # {}
                         /\ BurnsOf(d) \subseteq CertifiedBurns(d) \cap processedBridges)
            => GetLatestCompletedCheckpoint >= c

(* The clearing task, a restarted one too, works on checkpoints that are not *)
(* completed yet: "starting with checkpointId + 1" (adr-001).               *)
ClearingAtOpenCheckpoint ==
    job["clearing"].state = "certify" => EnsureCheckpointNotCompleted(checkpoint)

(* A burn that was registered and never sent, after a crash between the two;  *)
(* a recovery under way has not passed over it.                             *)
UnbridgedEntry(h) ==
    /\ mapping[h] = "registered" /\ h \notin processedBridges /\ mempool = <<>>
    /\ process = "down" \/ (process = "recovering" /\ h \in unrecovered)

(* A start gets past such an entry only by a failure.  The recovery finds no   *)
(* event for it, and "Failed to retrieve `tx_hash`" ends the process before  *)
(* the tasks run that would bridge the burn, at every start again, unless    *)
(* the burn's receipt could not be queried at that start.  adr-001 has it    *)
(* that after such a crash "there is no issues" and that "the recovery        *)
(* mechanism will be able to correctly update the mappings".                *)
UnbridgedEntryPassedByFailure ==
    [][\A h \in Hashes : UnbridgedEntry(h) => UnbridgedEntry(h)' \/ RecoverSkips(h)]_relayVars

(* A withdrawal that left the incomplete list, where a restart looks for     *)
(* work, has been bridged: although links follow any receipt, that of a     *)
(* reverted bridgeTo too, it reverted because the other task had bridged it. *)
LinkedBurnsAreBridged ==
    \A h \in Hashes : mapping[h] = "linked" => h \in processedBridges
=============================================================================
