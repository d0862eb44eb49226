---------------------------- MODULE DepositRelay ----------------------------
(***************************************************************************)
(* The incoming half of the relayer (crates/relayer/src/incoming and         *)
(* onemoney_interop/src/event.rs): events of the interop contract become     *)
(* transactions of the relayer's account on the 1Money network.             *)
(*                                                                         *)
(* The event with number n becomes the transaction with account nonce n,    *)
(* a mint when it is a deposit and a refund payment when it is a withdrawal *)
(* (OMInterop shows that events are numbered 0, 1, 2, ... without a gap).   *)
(* Two tasks handle the same events: the live task reads a stream that      *)
(* first replays the blocks since the start block and then follows a        *)
(* websocket subscription, the clearing task sweeps block ranges.  Both go  *)
(* through should_process_nonce, which lets an event pass when the account  *)
(* nonce on 1Money equals its number.                                      *)
(*                                                                         *)
(* TxHashMapping has one entry for each deposit transaction and each burn:   *)
(* the deposits that one sidechain transaction makes share theirs.  A task   *)
(* awaits the receipt of what it writes there without a timeout, and behind  *)
(* a lost nonce of the relayer's counter (RelayerNonce) none ever comes.     *)
(***************************************************************************)
EXTENDS Integers, FiniteSets, SequencesExt

CONSTANTS
    MaxEvents, MaxBlock, \* bounds on events and blocks of the sidechain
    MaxFaults,           \* bound on crashes and failed receipt queries
    BlockRange,          \* MAX_BLOCK_RANGE: blocks asked for in one query
    Overlap,             \* blocks past the head the replay asks for (5)
    StreamEnds,          \* whether the subscription may end
    Deposits,            \* numbers of the events that are deposits
    SourceTx,            \* the first event of each event's transaction
    Lookalikes,          \* entries whose mint or refund another account's
                         \* transaction with the same nonce looks like
    NoEntry, Unlinked, OtherTx \* what an entry of the mapping may be

Tasks  == {"live", "clearing"}
Nonces == 0..MaxEvents - 1

ASSUME DepositAssumption ==
    /\ MaxEvents \in Nat /\ MaxBlock \in Nat /\ MaxFaults \in Nat
    /\ BlockRange \in Nat \ {0} /\ Overlap \in Nat /\ StreamEnds \in BOOLEAN
    /\ Deposits \subseteq Nat /\ Lookalikes \subseteq Nat

ASSUME EntryAssumption ==
    /\ NoEntry \notin Nat /\ Unlinked \notin Nat /\ OtherTx \notin Nat
    /\ NoEntry # Unlinked /\ NoEntry # OtherTx /\ Unlinked # OtherTx
    /\ SourceTx \in [Nonces -> Nonces]
    /\ \A n \in Nonces :
           /\ SourceTx[n] <= n /\ SourceTx[SourceTx[n]] = SourceTx[n]
           /\ n \in Deposits <=> SourceTx[n] \in Deposits
           /\ n \notin Deposits => SourceTx[n] = n

VARIABLES
    events,       \* sidechain: the block of each event, by number + 1
    head,         \* sidechain: its latest block
    accountNonce, \* 1Money: the relayer's account nonce
    submitted,    \* 1Money: nonces of the relayer's transactions it accepted
    checkpointed, \* 1Money: how many of those a checkpoint lists
    mapping,      \* TxHashMapping: what each deposit or refund entry links to
    bridgeLinked, \* withdrawals whose bridgeTo link no recovery has to make
    process,      \* "down", "deposits", "refunds" (recovery), "searching",
                  \* "bisecting", "relaying"
    readHead,     \* what the start has read: 1Money's checkpoints, then a block
    search,       \* the bisection: 1Money's nonce and the blocks still in question
    fromBlock,    \* the block both tasks start from
    stream,       \* the live stream: phase, next block, last block, position
    subscription, \* events the websocket has delivered and nobody took yet
    sweep,        \* the clearing task's next and last block
    queue,        \* logs each task has fetched and not handled yet
    job,          \* what each task is doing with which event
    interrupted,  \* writes to the mapping whose receipt nobody awaits any more
    faults

chainVars   == <<events, head>>
accountVars == <<accountNonce, submitted, checkpointed>>
streamVars  == <<stream, subscription>>
startVars   == <<search, fromBlock>>
taskVars    == <<startVars, streamVars, sweep, queue, job>>
mappingVars == <<mapping, bridgeLinked>>
faultVars   == <<interrupted, faults>>
vars == <<chainVars, accountVars, mappingVars, process, readHead, taskVars, faultVars>>

NoJob    == [state |-> "idle", nonce |-> 0]
NoSearch == [nonce |-> 0, low |-> 0, high |-> 0]
NoStream == [phase |-> "connect", next |-> 0, last |-> 0, position |-> 0]

TypeOK ==
    /\ events \in Seq(0..MaxBlock) /\ Len(events) <= MaxEvents /\ head \in 0..MaxBlock
    /\ accountNonce \in 0..MaxEvents /\ submitted \subseteq Nonces
    /\ checkpointed \in 0..MaxEvents
    /\ mapping \in [Nonces -> {NoEntry, Unlinked, OtherTx} \cup Nonces]
    /\ bridgeLinked \subseteq Nonces \ Deposits
    /\ process \in {"down", "deposits", "refunds", "searching", "bisecting", "relaying"}
    /\ readHead \in Nat /\ fromBlock \in 0..MaxBlock
    /\ search \in [nonce : 0..MaxEvents, low : 0..MaxBlock, high : 0..MaxBlock]
    /\ stream \in [phase : {"connect", "head", "history", "follow", "ended"},
                   next : Nat, last : Nat, position : Nat]
    /\ subscription \in Seq(Nonces)
    /\ sweep \in [next : Nat, last : Nat]
    /\ queue \in [Tasks -> Seq(Nonces)]
    /\ job \in [Tasks -> [state : {"idle", "check", "wait", "register", "submit",
                                   "link"}, nonce : Nat]]
    /\ interrupted \subseteq [state : {"register", "link"}, nonce : Nonces]
    /\ faults \in 0..MaxFaults

Init ==
    /\ events = <<>> /\ head = 0
    /\ accountNonce = 0 /\ submitted = {} /\ checkpointed = 0
    /\ mapping = [n \in Nonces |-> NoEntry] /\ bridgeLinked = {}
    /\ process = "down" /\ readHead = 0 /\ search = NoSearch /\ fromBlock = 0
    /\ stream = NoStream /\ subscription = <<>> /\ sweep = [next |-> 1, last |-> 0]
    /\ queue = [t \in Tasks |-> <<>>] /\ job = [t \in Tasks |-> NoJob]
    /\ interrupted = {} /\ faults = 0

(* getLatestInboundNonce at a block, and the numbers of the events in blocks *)
(* first..last: blocks and their logs hold events in the order of numbers.  *)
InboundNonceAt(block) == Cardinality({i \in 1..Len(events) : events[i] <= block})

EventsIn(first, last) ==
    LET before == InboundNonceAt(first - 1)
    IN  [i \in 1..InboundNonceAt(last) - before |-> before + i - 1]

(* The key of an event's entry: the hash of the transaction that emitted it   *)
(* for a deposit, of the burn on 1Money for a withdrawal.                   *)
Entry(n) == SourceTx[n]

(* The task has sent a write to the mapping that is not refused.             *)
AwaitsReceipt(t) ==
    \/ job[t].state = "register" /\ mapping[Entry(job[t].nonce)] = NoEntry
    \/ job[t].state = "link" /\ mapping[Entry(job[t].nonce)] = Unlinked

-----------------------------------------------------------------------------
(* The sidechain: a block with zero or more events, delivered to whoever has *)
(* subscribed; a transaction has all its events in one block.  The outgoing  *)
(* half has registered each withdrawal before the bridgeTo that emits its    *)
(* event.                                                                   *)

NewBlock ==
    /\ head < MaxBlock
    /\ head' = head + 1
    /\ \E k \in 0..MaxEvents - Len(events) :
           /\ \A n \in Nonces : SourceTx[n] < Len(events) + k => n < Len(events) + k
           /\ events' = events \o [i \in 1..k |-> head + 1]
           /\ subscription' =
                  IF stream.phase \in {"head", "history", "follow"}
                  THEN subscription \o [i \in 1..k |-> Len(events) + i - 1]
                  ELSE subscription
           /\ mapping' = [n \in Nonces |->
                  IF n \in Len(events)..Len(events) + k - 1 /\ n \notin Deposits
                  THEN Unlinked ELSE mapping[n]]
    /\ UNCHANGED <<accountVars, bridgeLinked, process, readHead, startVars, stream,
                   sweep, queue, job, faultVars>>

(* The 1Money network (external): transactions take effect in nonce order,   *)
(* and checkpoints list them later.                                         *)
Certify ==
    /\ accountNonce \in submitted
    /\ accountNonce' = accountNonce + 1
    /\ UNCHANGED <<chainVars, submitted, checkpointed, mappingVars, process, readHead,
                   taskVars, faultVars>>

FormCheckpoint ==
    /\ checkpointed < accountNonce
    /\ checkpointed' = accountNonce
    /\ UNCHANGED <<chainVars, accountNonce, submitted, mappingVars, process, readHead,
                   taskVars, faultVars>>

-----------------------------------------------------------------------------
(* Starting: recover the mapping of deposits, then find the start block.     *)

NoTasks ==
    /\ stream' = NoStream /\ subscription' = <<>>
    /\ sweep' = [next |-> 1, last |-> 0]
    /\ queue' = [t \in Tasks |-> <<>>] /\ job' = [t \in Tasks |-> NoJob]

(* Meanwhile the outgoing half has linked some withdrawals to their bridgeTo. *)
Start ==
    /\ process = "down"
    /\ process' = "deposits"
    /\ readHead' = checkpointed
    /\ \E linked \in SUBSET {n \in Nonces \ Deposits : n < Len(events)} :
           bridgeLinked' = bridgeLinked \cup linked
    /\ UNCHANGED <<chainVars, accountVars, mapping, taskVars, faultVars>>

(* Fault: a deposit is linked without its mint being found.                  *)
RecoverDepositAlways(e) ==
    /\ process = "deposits" /\ e \in Deposits
    /\ mapping[e] = Unlinked
    /\ mapping' = [mapping EXCEPT ![e] = e]
    /\ UNCHANGED <<chainVars, accountVars, bridgeLinked, process, readHead, taskVars,
                   faultVars>>

(* What the search of the checkpoints can take for the answer of an entry's   *)
(* first event: nonce and payload are compared, the sender is not.          *)
Found(e) == (IF e < readHead THEN {e} ELSE {})
            \cup (IF e \in Lookalikes THEN {OtherTx} ELSE {})

(* An unlinked deposit whose mint is found in one of the checkpoints is       *)
(* linked; those not found, or passed over when a query fails, stay.        *)
RecoverDeposit(e) ==
    /\ process = "deposits" /\ e \in Deposits
    /\ mapping[e] = Unlinked
    /\ \E tx \in Found(e) : mapping' = [mapping EXCEPT ![e] = tx]
    /\ UNCHANGED <<chainVars, accountVars, bridgeLinked, process, readHead, taskVars,
                   faultVars>>

DepositsRecovered ==
    /\ process = "deposits"
    /\ process' = "refunds"
    /\ readHead' = checkpointed
    /\ UNCHANGED <<chainVars, accountVars, mappingVars, taskVars, faultVars>>

(* The refund of a withdrawal is recovered along with its bridgeTo link, and  *)
(* only then: incompleteRefunds is not looked at.  A query or a link that    *)
(* fails is passed over.                                                    *)
Unrecovered == {n \in Nonces \ Deposits : n < Len(events) /\ n \notin bridgeLinked}

RecoverWithdrawal(n) ==
    /\ process = "refunds" /\ n \in Unrecovered
    /\ bridgeLinked' \in {bridgeLinked, bridgeLinked \cup {n}}
    /\ \/ UNCHANGED mapping
       \/ /\ mapping[n] = Unlinked
          /\ \E tx \in Found(n) : mapping' = [mapping EXCEPT ![n] = tx]
    /\ UNCHANGED <<chainVars, accountVars, process, readHead, taskVars, faultVars>>

(* Fault: the start looks at a block that lags behind the latest one.        *)
ReadHeadLagging ==
    /\ process = "refunds"
    /\ process' = "searching"
    /\ readHead' = IF head = 0 THEN 0 ELSE head - 1
    /\ UNCHANGED <<chainVars, accountVars, mappingVars, taskVars, faultVars>>

ReadHead ==
    /\ process = "refunds"
    /\ process' = "searching"
    /\ readHead' = head
    /\ UNCHANGED <<chainVars, accountVars, mappingVars, taskVars, faultVars>>

(* An account nonce beyond the events ends the process; none relayed and all  *)
(* relayed need no search.                                                  *)
SearchStart ==
    /\ process = "searching"
    /\ LET emitted == InboundNonceAt(readHead)
       IN  IF accountNonce > emitted
           THEN process' = "down" /\ UNCHANGED startVars
           ELSE \/ /\ accountNonce \in {0, emitted}
                   /\ process' = "relaying"
                   /\ fromBlock' = IF accountNonce = 0 THEN 0 ELSE readHead
                   /\ UNCHANGED search
                \/ /\ accountNonce \notin {0, emitted}
                   /\ process' = "bisecting"
                   /\ search' = [nonce |-> accountNonce, low |-> 0, high |-> readHead]
                   /\ UNCHANGED fromBlock
    /\ readHead' = 0
    /\ UNCHANGED <<chainVars, accountVars, mappingVars, streamVars, sweep, queue, job,
                   faultVars>>

(* Fault: the event that is next is counted among the relayed ones.          *)
NarrowedPastNext(mid) ==
    IF InboundNonceAt(mid) <= search.nonce + 1
    THEN [search EXCEPT !.low = mid] ELSE [search EXCEPT !.high = mid - 1]

Narrowed(mid) ==
    IF InboundNonceAt(mid) <= search.nonce
    THEN [search EXCEPT !.low = mid] ELSE [search EXCEPT !.high = mid - 1]

(* One query of the bisection for the last block up to which the contract     *)
(* had emitted no more events than 1Money's nonce; at the end, that block.  *)
Bisect ==
    /\ process = "bisecting"
    /\ \/ /\ search.low < search.high
          /\ search' = Narrowed((search.low + search.high + 1) \div 2)
          /\ UNCHANGED <<process, fromBlock>>
       \/ /\ search.low >= search.high
          /\ process' = "relaying" /\ fromBlock' = search.low /\ search' = NoSearch
    /\ UNCHANGED <<chainVars, accountVars, mappingVars, readHead, streamVars, sweep,
                   queue, job, faultVars>>

(* What the process has sent to the mapping nobody awaits any more.          *)
Crash ==
    /\ process # "down" /\ faults < MaxFaults
    /\ faults' = faults + 1
    /\ interrupted' = interrupted \cup {job[t] : t \in {u \in Tasks : AwaitsReceipt(u)}}
    /\ process' = "down" /\ readHead' = 0 /\ search' = NoSearch /\ fromBlock' = 0
    /\ NoTasks
    /\ UNCHANGED <<chainVars, accountVars, mappingVars>>

-----------------------------------------------------------------------------
(* The live stream: subscribe, read the head, replay, follow.                *)

Idle(t) == process = "relaying" /\ job[t] = NoJob /\ queue[t] = <<>>

(* Fault: a start at block 0 wraps the position before the first log.        *)
SubscribeWrapping ==
    /\ process = "relaying" /\ stream.phase = "connect"
    /\ stream' = [phase |-> "head", next |-> fromBlock, last |-> 0,
                  position |-> InboundNonceAt(fromBlock - 1) - 1]
    /\ UNCHANGED <<chainVars, accountVars, mappingVars, process, readHead, startVars,
                   subscription, sweep, queue, job, faultVars>>

Subscribe ==
    /\ process = "relaying" /\ stream.phase = "connect"
    /\ stream' = [phase |-> "head", next |-> fromBlock, last |-> 0,
                  position |-> InboundNonceAt(fromBlock - 1)]
    /\ UNCHANGED <<chainVars, accountVars, mappingVars, process, readHead, startVars,
                   subscription, sweep, queue, job, faultVars>>

ReadLiveStart ==
    /\ process = "relaying" /\ stream.phase = "head"
    /\ stream' = [stream EXCEPT !.phase = "history", !.last = head + Overlap]
    /\ UNCHANGED <<chainVars, accountVars, mappingVars, process, readHead, startVars,
                   subscription, sweep, queue, job, faultVars>>

(* One query of the replay; the position is that of the last log so far.     *)
Replay ==
    /\ Idle("live") /\ stream.phase = "history"
    /\ IF stream.next <= stream.last
       THEN LET end  == IF stream.next + BlockRange - 1 < stream.last
                        THEN stream.next + BlockRange - 1 ELSE stream.last
                logs == EventsIn(stream.next, end)
            IN  /\ queue' = [queue EXCEPT !["live"] = logs]
                /\ stream' = [stream EXCEPT !.next = end + 1,
                       !.position = IF logs = <<>> THEN @ ELSE Last(logs) + 1]
       ELSE /\ stream' = [stream EXCEPT !.phase = "follow", !.next = 0, !.last = 0]
            /\ UNCHANGED queue
    /\ UNCHANGED <<chainVars, accountVars, mappingVars, process, readHead, startVars,
                   subscription, sweep, job, faultVars>>

(* Fault: the last replayed log is taken for a new one.                      *)
ShouldEmitLast(n) == n >= stream.position - 1

(* A delivered log at or before the position was replayed: it is dropped.    *)
ShouldEmit(n) == n >= stream.position

Follow ==
    /\ Idle("live") /\ stream.phase = "follow" /\ subscription # <<>>
    /\ LET n == Head(subscription)
       IN  IF ShouldEmit(n)
           THEN /\ queue' = [queue EXCEPT !["live"] = <<n>>]
                /\ stream' = [stream EXCEPT !.position = n + 1]
           ELSE UNCHANGED <<queue, stream>>
    /\ subscription' = Tail(subscription)
    /\ UNCHANGED <<chainVars, accountVars, mappingVars, process, readHead, startVars,
                   sweep, job, faultVars>>

(* A subscription that ends is not an error: the live task is done.          *)
EndOfStream ==
    /\ StreamEnds
    /\ Idle("live") /\ stream.phase = "follow" /\ subscription = <<>>
    /\ stream' = [stream EXCEPT !.phase = "ended"]
    /\ UNCHANGED <<chainVars, accountVars, mappingVars, process, readHead, startVars,
                   subscription, sweep, queue, job, faultVars>>

-----------------------------------------------------------------------------
(* The clearing task: sweeps up to the head it read, then from there again.  *)

BeginSweep ==
    /\ Idle("clearing") /\ sweep.next > sweep.last
    /\ sweep' = [next |-> IF sweep = [next |-> 1, last |-> 0] THEN fromBlock
                          ELSE sweep.last,
                 last |-> head]
    /\ UNCHANGED <<chainVars, accountVars, mappingVars, process, readHead, startVars,
                   streamVars, queue, job, faultVars>>

(* Fault: a query leaves out the block that it ends at.                      *)
SweepExclusive ==
    /\ Idle("clearing") /\ sweep.next <= sweep.last
    /\ LET end == IF sweep.next + BlockRange - 1 < sweep.last
                  THEN sweep.next + BlockRange - 1 ELSE sweep.last
       IN  /\ queue' = [queue EXCEPT !["clearing"] = EventsIn(sweep.next, end - 1)]
           /\ sweep' = [sweep EXCEPT !.next = end + 1]
    /\ UNCHANGED <<chainVars, accountVars, mappingVars, process, readHead, startVars,
                   streamVars, job, faultVars>>

Sweep ==
    /\ Idle("clearing") /\ sweep.next <= sweep.last
    /\ LET end == IF sweep.next + BlockRange - 1 < sweep.last
                  THEN sweep.next + BlockRange - 1 ELSE sweep.last
       IN  /\ queue' = [queue EXCEPT !["clearing"] = EventsIn(sweep.next, end)]
           /\ sweep' = [sweep EXCEPT !.next = end + 1]
    /\ UNCHANGED <<chainVars, accountVars, mappingVars, process, readHead, startVars,
                   streamVars, job, faultVars>>

-----------------------------------------------------------------------------
(* Handling one event.                                                      *)

TakeEvent(t) ==
    /\ process = "relaying" /\ job[t] = NoJob /\ queue[t] # <<>>
    /\ job' = [job EXCEPT ![t] = [state |-> "check", nonce |-> Head(queue[t])]]
    /\ queue' = [queue EXCEPT ![t] = Tail(@)]
    /\ UNCHANGED <<chainVars, accountVars, mappingVars, process, readHead, startVars,
                   streamVars, sweep, faultVars>>

Goes(t, state) ==
    /\ job' = [job EXCEPT ![t] = IF state = "idle" THEN NoJob
                                 ELSE [@ EXCEPT !.state = state]]
    /\ UNCHANGED <<chainVars, process, readHead, startVars, streamVars, sweep, queue>>

(* Only deposits are registered; withdrawals were by the outgoing half.      *)
Handling(n) == IF n \in Deposits THEN "register" ELSE "submit"

(* Fault: an event ahead of the account nonce is submitted all the same.     *)
CheckNonceWithoutWaiting(t) ==
    LET n == job[t].nonce
    IN  /\ job[t].state = "check"
        /\ Goes(t, IF accountNonce > n THEN "idle" ELSE Handling(n))
        /\ UNCHANGED <<accountVars, mappingVars, faultVars>>


CheckNonce(t) ==
    LET n == job[t].nonce
    IN  /\ job[t].state = "check"
        /\ Goes(t, IF accountNonce > n THEN "idle"
                   ELSE IF accountNonce < n THEN "wait" ELSE Handling(n))
        /\ UNCHANGED <<accountVars, mappingVars, faultVars>>

(* The loop of should_process_nonce is left on equality only.                *)
PollNonce(t) ==
    /\ job[t].state = "wait" /\ accountNonce = job[t].nonce
    /\ Goes(t, Handling(job[t].nonce))
    /\ UNCHANGED <<accountVars, mappingVars, faultVars>>

(* Fault: a deposit the other task has linked is registered once more.       *)
RegisterAgain(t) ==
    /\ job[t].state = "register"
    /\ mapping' = [mapping EXCEPT ![Entry(job[t].nonce)] = Unlinked]
    /\ Goes(t, "submit")
    /\ UNCHANGED <<accountVars, bridgeLinked, faultVars>>

(* registerDeposit, once its receipt is there.                               *)
Register(t) ==
    LET e == Entry(job[t].nonce)
    IN  /\ job[t].state = "register" /\ mapping[e] = NoEntry
        /\ mapping' = [mapping EXCEPT ![e] = Unlinked]
        /\ Goes(t, "submit")
        /\ UNCHANGED <<accountVars, bridgeLinked, faultVars>>

(* Fault: a refund is not linked to its withdrawal.                          *)
SubmitRefundUnlinked(t) ==
    LET n == job[t].nonce
    IN  /\ job[t].state = "submit"
        /\ submitted' = submitted \cup {n}
        /\ Goes(t, IF n \in submitted \/ n \notin Deposits THEN "idle" ELSE "link")
        /\ UNCHANGED <<accountNonce, checkpointed, mappingVars, faultVars>>

(* 1Money accepts a transaction once; "already exists" skips the link.       *)
Submit(t) ==
    LET n == job[t].nonce
    IN  /\ job[t].state = "submit"
        /\ submitted' = submitted \cup {n}
        /\ Goes(t, IF n \in submitted THEN "idle" ELSE "link")
        /\ UNCHANGED <<accountNonce, checkpointed, mappingVars, faultVars>>

(* linkDepositHashes or linkRefundHashes, once its receipt is there.         *)
Link(t) ==
    LET n == job[t].nonce
        e == Entry(n)
    IN  /\ job[t].state = "link" /\ mapping[e] = Unlinked
        /\ mapping' = [mapping EXCEPT ![e] = n]
        /\ Goes(t, "idle")
        /\ UNCHANGED <<accountVars, bridgeLinked, faultVars>>

(* An entry is registered once and linked once: what is refused, or reverts   *)
(* because the other task's write comes first, is only logged.              *)
WriteRefused(t) ==
    LET e == Entry(job[t].nonce)
    IN  /\ \/ job[t].state = "register" /\ mapping[e] # NoEntry
              /\ Goes(t, "submit")
           \/ job[t].state = "link" /\ mapping[e] # Unlinked
              /\ Goes(t, "idle")
        /\ UNCHANGED <<accountVars, mappingVars, faultVars>>

(* A receipt that cannot be retrieved is only logged.                        *)
ReceiptFails(t) ==
    /\ AwaitsReceipt(t) /\ faults < MaxFaults
    /\ faults' = faults + 1
    /\ interrupted' = interrupted \cup {job[t]}
    /\ Goes(t, IF job[t].state = "register" THEN "submit" ELSE "idle")
    /\ UNCHANGED <<accountVars, mappingVars>>

(* A write that nobody awaits takes effect later, or never does.             *)
LateWrite(w) ==
    LET e == Entry(w.nonce)
    IN  /\ \/ w.state = "register" /\ mapping[e] = NoEntry
              /\ mapping' = [mapping EXCEPT ![e] = Unlinked]
           \/ w.state = "link" /\ mapping[e] = Unlinked
              /\ mapping' = [mapping EXCEPT ![e] = w.nonce]
        /\ UNCHANGED <<chainVars, accountVars, bridgeLinked, process, readHead, taskVars,
                       faultVars>>

Handle(t)  == TakeEvent(t) \/ CheckNonce(t) \/ PollNonce(t) \/ Submit(t) \/ WriteRefused(t)
Receive(t) == Register(t) \/ Link(t) \/ ReceiptFails(t)
ReadLive     == Subscribe \/ ReadLiveStart \/ Replay \/ Follow
ReadClearing == BeginSweep \/ Sweep
Starting ==
    \/ Start \/ (\E n \in Nonces : RecoverDeposit(n) \/ RecoverWithdrawal(n))
    \/ DepositsRecovered \/ ReadHead \/ SearchStart \/ Bisect

Next ==
    \/ NewBlock \/ Certify \/ FormCheckpoint
    \/ Starting \/ Crash \/ (\E w \in interrupted : LateWrite(w))
    \/ ReadLive \/ EndOfStream \/ ReadClearing
    \/ \E t \in Tasks : Handle(t) \/ Receive(t)

Spec == Init /\ [][Next]_vars

(* The supervisor starts the process, every task that can go on does, and    *)
(* 1Money certifies what it accepted.  Nothing is assumed of receipts, which *)
(* do not come while a nonce of the shared counter is missing, nor of when   *)
(* the nonce is polled: the account nonce may pass a waiting event between  *)
(* two polls.                                                               *)
Fairness ==
    /\ WF_vars(Starting) /\ WF_vars(Certify)
    /\ WF_vars(ReadLive) /\ WF_vars(ReadClearing)
    /\ \A t \in Tasks : WF_vars(Handle(t))

FairSpec == Spec /\ Fairness

-----------------------------------------------------------------------------
(* Properties.                                                              *)

(* The start block is never too late: the first event that has no            *)
(* transaction on 1Money is not before it, although blocks, events and      *)
(* certifications go on while the start is looking for it.                  *)
StartsEarlyEnough ==
    process = "relaying" => InboundNonceAt(fromBlock - 1) <= accountNonce

(* The start's error "Relayer account nonce is bigger on 1Money side"          *)
(* (incoming/recovery.rs) never ends it: the head is read before the nonce,  *)
(* but what 1Money certifies in between answers events up to that head.      *)
NonceWithinEvents ==
    process = "searching" => accountNonce <= InboundNonceAt(readHead)

(* Events of blocks past the head that the replay has read, in the part of    *)
(* the chain that it has asked for already.                                 *)
AskedBeforeTheyCame == InboundNonceAt(stream.last - Overlap)..InboundNonceAt(stream.next - 1) - 1

(* The stream "first yields any historical events since from_block, then      *)
(* continues" (event.rs) with new ones: it hands events out in order and      *)
(* none twice.  Between the replay and the subscription it loses none; a     *)
(* replay of several queries can lose only events of blocks past the head it *)
(* has read that came after a query had asked for them (last_position jumps *)
(* over them with the next query).                                          *)
StreamLosesOnlyOverlap ==
    [][stream.phase \in {"history", "follow"} /\ process' = "relaying"
          /\ (queue["live"] = <<>> \/ stream'.position # stream.position) =>
              \E first \in stream.position..stream'.position :
                  /\ queue'["live"] = [i \in 1..stream'.position - first |-> first + i - 1]
                  /\ stream.position..first - 1 \subseteq
                         (IF stream.phase = "history" THEN AskedBeforeTheyCame ELSE {})
      ]_vars

(* The event is one that the clearing task has fetched and is not done with.  *)
InClearing(n) ==
    \/ \E i \in DOMAIN queue["clearing"] : queue["clearing"][i] = n
    \/ job["clearing"].state # "idle" /\ job["clearing"].nonce = n

(* The clearing task leaves no event behind: each one in the blocks it has     *)
(* queried has its transaction or is still in its hands, although the task    *)
(* starts from a block that others searched, sweeps while blocks are added,  *)
(* and drops the events it finds below the account nonce.  So the events the *)
(* stream loses are relayed by it.                                           *)
ClearingLeavesNoEvent ==
    process = "relaying" =>
        \A n \in Nonces : n < InboundNonceAt(sweep.next - 1) =>
            n \in submitted \/ InClearing(n)

(* 1Money never has a transaction for an event before it has those of all    *)
(* earlier events, whichever task submits and whenever either crashes.      *)
SubmittedInOrder == submitted \in {0..accountNonce - 1, 0..accountNonce}

(* No task awaits a receipt for ever.                                        *)
ReceiptsArrive == \A t \in Tasks : []<>~AwaitsReceipt(t)

(* Every event of the contract results in its transaction on 1Money, unless   *)
(* a task is left awaiting a receipt for ever, as behind a lost nonce.       *)
EveryEventRelayed ==
    ReceiptsArrive => \A n \in Nonces : Len(events) > n ~> accountNonce > n

(* A link of the hash mapping names a transaction that 1Money has and that    *)
(* answers an event of that entry: a registration whose task crashed is not  *)
(* completed by a recovery that finds no mint or refund, and events that     *)
(* share an entry do not get each other's.  The recoveries do not compare the *)
(* sender, so where another account has sent the like, its transaction may   *)
(* be named instead.                                                        *)
LinksNameTransactions ==
    \A e \in Nonces :
        mapping[e] \notin {NoEntry, Unlinked} =>
            \/ mapping[e] \in submitted /\ Entry(mapping[e]) = e
            \/ mapping[e] = OtherTx /\ e \in Lookalikes

(* The entry of every relayed deposit comes to be linked, and so does that    *)
(* of every relayed withdrawal, whichever task submits it and when others    *)
(* find it done, unless a crash or a failed receipt query hits while it is   *)
(* written or a task awaits a receipt for ever: adr-001 leaves those to "the *)
(* recovery mechanism", which need not find them.                           *)
RelayedEventsLinked ==
    ReceiptsArrive =>
        \A n \in Nonces :
            accountNonce > n ~>
                \/ mapping[Entry(n)] \notin {NoEntry, Unlinked}
                \/ \E w \in interrupted : w.nonce = n

(* The two tasks, their crashes and the recoveries keep to the ledger of      *)
(* deposits: one transaction per event, in order, and its links stay and      *)
(* name the transactions of events that have theirs.                        *)
Ledger == INSTANCE DepositLedger
              WITH emitted  <- Len(events),
                   answered <- submitted,
                   linked   <- {n \in Nonces : \E e \in Nonces : mapping[e] = n}
ImplementsLedger == Ledger!Spec
=============================================================================
