# Specifications of the 1Money interoperability protocol

TLA+ models of the bridge between the 1Money payment network and its EVM
sidechain, model-checked with TLC. The invariants, the action properties and the refinements that hold, of the contracts,
both relayers, the shared nonce and the validator relay, are also proved with TLAPS.
Paths are relative to `src/code/` unless they begin with `src/`.

## The system

The 1Money network holds accounts, certifies transactions and groups them into
checkpoints. The sidechain runs the interop contract, through which tokens come
from and go to other chains (LayerZero). One *relayer*, an off-chain process
with one account on each side, connects the two.

    1Money network                relayer                    sidechain
    certified burns  ---websocket---> live task     --bridgeTo-->  OMInterop ---> LayerZero
    checkpoints      ---polling-----> clearing task --update...->     |
                                      (register / link) --------> TxHashMapping
    mints, refunds   <----------- live task    <--log subscription-- events
                     <----------- clearing task <--log queries------- |
    epochs           ---polling-----> PoA task      ------------> ValidatorManager

| Component | State | Operations | What makes it correct |
|---|---|---|---|
| Interop contract `solidity/src/OMInterop.sol` (with `LZInterop`, storage and types) | roles, token bindings, rate limits, event counter, per-account burn nonce, checkpoint tallies, earliest incomplete checkpoint | `bridgeFrom`, `bridgeTo`, `updateCheckpointInfo`, `mapTokenAddresses`, `setRateLimit`, role setters | each burn is paid out once and in order; events are numbered without a gap; a checkpoint is reported only when all its burns are paid out, and promptly then; rate limits hold |
| Hash mapping `solidity/src/TxHashMapping.sol` | links, reverse links, arrays of unlinked hashes with positions, for deposits, withdrawals and refunds | `register*`, `link*`, `setRelayer` | arrays list exactly what has no link (recovery relies on it), reverse lookups lead back, links are final |
| Outgoing relayer `crates/relayer/src/outgoing`, `onemoney/stream.rs` | two streams, each task's current burn, pending transactions | live relay, clearing by checkpoint, recovery of withdrawal links | every burn of a checkpoint is bridged before the clearing task passes it; restarts resume where work is left |
| Incoming relayer `crates/relayer/src/incoming`, `onemoney_interop/src/event.rs` | replay position, subscription, sweep range, each task's event | event stream, clearing sweeps, nonce check, mint/refund, link, recovery of deposit links, search of the start block | every event gets its transaction on 1Money, once and in order, and links name such transactions |
| Relayer nonce `config/mod.rs` and every sender | one atomic counter of the sidechain account | `fetch_add` before a send, `fetch_sub` after one that reverts | no nonce is skipped or used twice |
| Price oracle `solidity/src/PriceOracle.sol` | price and time of last update per token | `updatePrice`, `bulkUpdatePrices`, conversion | fixed-point conversion rounds as documented |
| PoA relay `poa/`, `onemoney/mod.rs`, `sidechain/mod.rs` | last epoch seen | epoch polling, validator set difference, update | the sidechain's validators follow the epoch, and are never a mixture of two epochs' |
| OFT token `solidity/src/OMOFT.sol` | LayerZero's | `_credit` calls `bridgeFrom` | a credit is always a deposit event |
| Client types, deployment scripts, command line | none of the protocol's | | |

How they interact: the relayer's tasks are futures of one process joined by
`try_join`, so the first error of any of them ends the process; between two
awaits of one task, another task, a chain or a crash can step in. The contracts'
transactions are atomic. State shared between tasks is on chain (nonces, tallies,
the mapping) and the atomic sidechain nonce. The relayer keeps nothing on disk:
a restart reconstructs its position from the two chains.

What is hard: the two tasks of each direction handle the *same* burns and events,
read on-chain state before they act on it, and ignore each other's results;
checkpoints may complete in any order and be certified before, between or after
their burns are bridged; a crash can fall between any two of register, submit and
link; the start position is found while both chains go on. `PROJECT.json` lists
these hazards at their lines.

## Modules

| Module | Models | Notes |
|---|---|---|
| `OMInterop` | the contract, for every caller | A call is an action; a revert is a disabled action. `checkpointTallies` etc. keep the source's names. `log` is the emitted events, `admitted` a history variable: what each epoch of a token's rate limit took in since the limit was set. |
| `Settlement` | the contract as this relayer drives it | adds `Burns`, the history of the 1Money network, and restricts the calls to those the outgoing relayer makes, in any order |
| `WithdrawalLedger` | what the withdrawal path promises | two variables: the burns paid out and the checkpoint reported |
| `WithdrawalRelay` | the outgoing relayer over `Settlement` | both tasks, one step per await, mempool, crashes, restarts, recovery of links with what it passes over |
| `TxHashMapping` | the mapping contract, for every caller | one set of actions for the three tables; a withdrawal registers in two of them |
| `DepositRelay` | the incoming relayer | stream, sweeps, nonce polling, submission of mints and refunds, registrations and links whose receipts may never come, both recoveries, start search with one step per query of the bisection |
| `DepositLedger` | what the deposit path promises | three variables: the events emitted, those answered on 1Money, those linked to their answer |
| `RelayerNonce` | the nonce of the sidechain account that all tasks share | one send per task at a time: taken, accepted, refused, reverted, failed or without receipt; mempool with left-over and replaced transactions |
| `PoaRelay` | the proof-of-authority relay over `RelayerNonce` | epochs, the epoch stream and its end, validator set difference, `updateValidatorSet`, the contract's set |
| `OMInteropProofs`, `SettlementProofs`, `WithdrawalRelayProofs`, `RelayEstimateProofs`, `TxHashMappingProofs`, `RelayerNonceProofs`, `PoaRelayProofs`, `DepositRelayProofs` | theorems | |
| `MC*` | constants of the instances | |

`WithdrawalRelay` EXTENDS `Settlement` EXTENDS `OMInterop`, so a transaction of the
relayer is literally the contract's action. Refinements: `Settlement` implements
`WithdrawalLedger` (`ImplementsLedger`, mapping `bridged` to `processedBridges` and
`settled` to `getLatestCompletedCheckpoint`), and `WithdrawalRelay` implements
`Settlement` (`ImplementsSettlement`). `DepositRelay` implements `DepositLedger` (`ImplementsLedger`, mapping `emitted`
to the number of events, `answered` to `submitted` and `linked` to the events whose transaction some entry of the mapping names). Every action of `PoaRelay` is an action of `RelayerNonce` with
what it does to epochs and validators, so `PoaSpec` implements `Spec` of `RelayerNonce` with the same
variables (`PoaImplementsNonce`). `DepositRelay` does not contain the contract: it
takes events to be numbered 0, 1, 2, ..., which `EventsNumbered` proves of
`OMInterop`. Each relayer models its own part of the mapping contract as one
entry per hash, which is what `MappingConsistent`
makes of the arrays: in `WithdrawalRelay` `none`, `registered` or `linked`, in `DepositRelay`
`NoEntry`, `Unlinked` or what it is linked to. The key of a deposit is its sidechain transaction, so
the deposits that one transaction makes share an entry (`SourceTx`, `Entry`).

The operators marked *Fault* are variants of the definition that follows them, of
the kind a slip in the code would be. No action uses them; each breaks a property.

### How the models abstract

* Amounts, addresses and hashes are small sets of values; argument checks that
  look only at arguments are the flag `wellFormed`. `uint64` and `uint32` limits
  are the constants `MaxUint64` and `MaxUint32`, small in the runs, any number in
  the proofs. Rate-limit sums are not bounded (the code's are `uint256`).
* The list of `updateCheckpointInfo` is a set: its order does not matter, and a hash
  that is repeated is recorded once. (In checkpoint 0, where 0 also means "no
  checkpoint", the code would count a repeated hash twice; no burn is in it.)
* LayerZero is a native fee chosen from a set; the oracle is a constant
  function with `Unset` for a token without price.
* A failed RPC of the relayer ends its task with an error; that is `Crash`,
  together with real crashes, bounded by `MaxCrashes` (`MaxFaults` in `DepositRelay`, which also counts
  receipts that cannot be retrieved). A logged and ignored error (a refused register or link, a receipt, checkpoint or
  link that fails in a recovery) is a step of its own that goes on without the effect: `WriteRefused`, `ReceiptFails`,
  `RecoverSkips`, and the recoveries of `DepositRelay`, which may pass over any entry.
* In `WithdrawalRelay` and `DepositRelay` sidechain transactions of the relayer execute in the order
  they were sent, as they do while no nonce is lost (`NoncesGapless`, `NoncesDistinct`); what
  happens to the nonces is the subject of `RelayerNonce`, which does not look at what is sent.
  In `WithdrawalRelay` register and link are one step each: nothing reads the mapping between a send
  and its receipt except the same task.
* In `DepositRelay` a register or link is likewise one step, its effect and its receipt together, but no fairness
  makes it happen: the code waits for the receipt without a timeout, and behind a nonce that another task's
  `fetch_sub` lost it never comes. A write whose task no longer waits (`interrupted`: a crash, or a failed receipt query)
  may take effect at any later time or never (`LateWrite`). Writes of a recovery that crashes before their receipt are
  taken to be done or not done at the crash.
* The recoveries of `DepositRelay` look through the checkpoints for a transaction with the event's nonce and payload; a mint's
  recipient, a refund's value, token and recipient. They do not look at its sender, so for the entries in `Lookalikes`, for which
  another account has sent the like, they may find `OtherTx` (`Found`). Of the events that share an entry they look for the first.
* `bridgeTo` is estimated before it is sent, and a call that would revert is an error of the task. A node
  may estimate on its latest block or on a pending one, in which the transactions of the mempool are
  executed: `Estimates` are the answers of both. `CheckpointAccepted` and `BurnAccepted` list the contract's
  requires for the relayer's calls, and `EstimateDecidesCall` proves that they are met exactly when the contract's action can happen.
* `WithdrawalRelay` starts with an empty mempool. `Config` reads the account nonce at the
  latest block, so a start with transactions pending reuses their nonces: `RelayerNonce` starts with
  whatever an earlier run left, and the node may refuse or replace.
* `RelayerNonce` has three kinds of sends: the calls of the hash mapping, whose revert gives
  the nonce back and is logged; `updateCheckpointInfo` and `bridgeTo`, whose errors end the process;
  `updateValidatorSet`, whose errors are logged and whose nonce is never given back. Whether a call
  reverts is free there. `skipped` remembers that a nonce was lost in this run.
* The ValidatorManager contract is external: it removes first, then adds, and refuses a key that
  is missing or there already. `InvalidValidatorKey` cannot occur for an uncompressed point and is left out.
  A query of the validator task may fail like any request; it is logged, and ends the epoch stream
  when it is the stream's.
* A link to the hash of a *reverted* `bridgeTo` is a link like any other in the model
  (see "Disagreements").
* Reorganised sidechain blocks (`removed` logs) do not occur in `DepositRelay`, and the interop
  contract exists from block 0. The outgoing half appears there only as what it leaves behind:
  a withdrawal is registered before its event, and any set of them may have been linked to their
  `bridgeTo` when the process starts.

## Runs

Every bound is a constant of the `.cfg`. `CHECK_DEADLOCK FALSE` is set throughout:
bounded histories of burns, blocks and events end.

| Run | Bounds | Shows |
|---|---|---|
| `contract_withdrawals` | three burns of two accounts with every checkpoint 0..2, four kinds of lists, LayerZero and Mock, two oracles one of which has no price | for *any* relayer: `BridgedInNonceOrder` (anti-replay), `FrontIsIncomplete` (pruning is prompt, cascades included), `ClosedStaysClosed` |
| `contract_deposits` | event counter up to 3, amounts 1-2, limit 2, windows of 0, 1 and 2, time 0..3, two 1Money tokens on one OFT, one withdrawal | `EventNoncesGapless`, `InflowWithinLimit`, `TypeOK` (no wrap of the counter) |
| `relay` | three burns, two checkpoints, live and clearing task, closing websocket, one crash plus every exit by error | `RelayTypeOK` (also: one transaction in flight per task), `ClearingLeavesNothingBehind`, `LinkedBurnsAreBridged`, `UnbridgedEntryPassedByFailure` (only a failed receipt query lets a start past a burn that was registered and never sent); `TallyCountsBurns`, `ClosedCheckpointBridged`, `BridgedBelowNonce` of the contract in that use; `ImplementsSettlement` and through it `ImplementsLedger` |
| `relay_settles` | clearing task alone, three checkpoints of one burn each, no crash | `CheckpointsSettle` (liveness) |
| `relay_empty_checkpoint` | the first of two checkpoints empty | *violated*: `CheckpointsSettle` |
| `relay_live_race` | two checkpoints, both tasks | *violated*: `BridgedCheckpointReported` |
| `relay_restart` | two checkpoints, clearing task, one crash | *violated*: `ClearingAtOpenCheckpoint` |
| `hash_mapping` | three hashes in every role, symmetry over hashes (no action tells hashes apart) | `IndexMatchesArray`, `ArrayListsUnlinked`, `ReverseIsLinked`, `LinksAreFinal` |
| `validator_sync` | the validator task and two others, nonces below 2 for those two, two epochs of three keys (a power that changes, a validator that leaves, one that returns), one crash or failed request | `PoaTypeOK`, `NoncesGapless`, `NoncesDistinct`, `GapStaysOpen` (a lost nonce holds up the account until the process ends), `UpdatesReachEpoch`; `SendsComplete`, `ValidatorsFollow` (liveness) |
| `deposit` | three events (two deposits of one sidechain transaction, a withdrawal whose refund another account's transfer looks like), three blocks in queries of two, two blocks of overlap, one crash or lost receipt, subscription may end | `StartsEarlyEnough`, `NonceWithinEvents` (the start's refusal never occurs), `StreamLosesOnlyOverlap`, `SubmittedInOrder`, `LinksNameTransactions`, `ClearingLeavesNoEvent` (the sweeps have no gap), `TypeOK`; `ImplementsLedger` |
| `deposit_live` | two events of their own transactions, three blocks, one crash or lost receipt, subscription lasts | `EveryEventRelayed`, `RelayedEventsLinked` (liveness, as long as receipts arrive) |
| `deposit_stream_ends` | three events, two blocks, no crash; the subscription may end | *violated*: `EveryEventRelayed` |

Why the bounds are enough: the contract's interactions are between two burns of an
account (order), two burns of a checkpoint (count), two checkpoints (cascade of the
pruning loop) and the two tasks; the instances have each of these at once. The stream
needs an event in the replay, one in the overlap and one after it, and a replay of two queries one whose end lies past the head. Two
swap-and-pops of a moved element need three hashes. A `fetch_sub` takes another task's nonce as soon
as two tasks send, and the third may then send with a nonce of either; the fault comes on top, a
crash leaving a pending transaction to the next run. `Settlement` in any order of calls, not only the
relayer's, is proved and has no run of its own. The theorems remove the bounds for every invariant and every action property that holds; liveness rests on the bounded runs.

### Fairness

`RelayFairness`, `PoaFairness` and `DepositRelay`'s `Fairness` are weak fairness of each task, of
the start, of the sidechain executing its mempool and of 1Money certifying what it
accepted. tokio polls every future that is ready, requests return or are an error,
intervals tick, and a supervisor restarts the process. Nothing is assumed of the
environment (burns, blocks, events, a closing websocket), and in `should_process_nonce`
nothing of *when* the account nonce is polled: a poll step is enabled only while the
nonces are equal, and weak fairness does not force it if that state passes. `PoaFairness` assumes
nothing of a wait for a receipt: no timeout is set (`get_receipt` waits for ever), so a send behind a
lost nonce does not end, and `SendsComplete` is about the runs in which from some time on none is lost.
`DepositRelay`'s `Fairness` assumes nothing of register and link either: they end with a receipt, which
need not come when another task's `fetch_sub` has lost a nonce. `EveryEventRelayed` and `RelayedEventsLinked` have as
their premise that no task waits for a receipt for ever (`ReceiptsArrive`); without it both are false, with no crash.
Likewise `ValidatorsFollow` is about runs that are undisturbed from some time on: no request of the
validator task fails any more after the last start and nothing was left over then.

## Disagreements with the documentation

Shown by a run (`findings` in `PROJECT.json` quotes the lines):

1. `relay_empty_checkpoint`: a checkpoint without BurnAndBridge is certified with an
   empty list, is never complete, and blocks the report of all later ones.
2. `relay_live_race`: a burn that the live task bridges after its checkpoint was
   certified is counted by nobody; the comment in `_recordProcessedBridge` says it is.
3. `relay_restart`: a restart begins with the last completed checkpoint, for which
   `updateCheckpointInfo` reverts, and ends again.
4. `deposit_stream_ends`: a task that waits in `should_process_nonce` while the other
   one submits its event may wait for ever; after the subscription has ended, which is no
   error, nothing relays events any more.

Met while modelling; the models contain the steps, and the properties named describe the consequence:

* A crash between `registerWithdrawal` and `bridgeTo` leaves an entry without
  `OMInteropSent` event. `outgoing/recovery.rs:110` makes that an error, so each restart
  ends before the tasks that would bridge the burn, unless the burn's receipt cannot be queried at that start: then
  lines 53-61 only warn, the recovery goes on, and the tasks start. `UnbridgedEntryPassedByFailure`, which the `relay` run
  checks and `UnbridgedEntryHoldsStarts` proves, says that nothing else gets past such an entry. ADR-001 says of
  the same crash that "there is no issues" and has the mapping left to the recovery mechanism when the hash does not exist
  (`src/docs/architecture/adr-001-interoperability-protocol.md:489-495`).
* ADR-001 has a refund recovered by the `relayer_account` and nonce of the transfer (`:503`). `outgoing/recovery.rs:177-192`
  compares nonce, value, token and recipient, and not the sender; `incoming/recovery.rs:228-235` compares nonce and
  recipient of a mint. A transaction of another account that has these may be linked: `LinksNameTransactions` allows it,
  for the entries in `Lookalikes` and no others.
* The mapping is keyed by the sidechain transaction. When one transaction emits two deposits, the second
  `registerDeposit` reverts and is logged, and of the two links the one that comes first stays: the other mint is linked
  nowhere (`incoming/handlers.rs:115`, `:173`). `RelayedEventsLinked` therefore speaks of the event's entry.
* `outgoing/relay.rs:172` links the hash of any receipt. When both tasks send the same burn
  one of the two `bridgeTo` reverts, and its hash may be linked first.
* A crash between a mint and its link, and a restart before a checkpoint lists the mint:
  recovery finds nothing, the tasks skip the event, and the deposit stays unlinked
  (`RelayedEventsLinked` without `interrupted` fails with `MaxFaults = 1`). For refunds ADR-001 has the
  restart "Query all the incomplete refund mappings"
  (`src/docs/architecture/adr-001-interoperability-protocol.md:501`), while `outgoing/recovery.rs:38` goes
  through `incompleteWithdrawals` only: a refund whose `bridgeTo` was linked before the crash is not
  looked at (`Unrecovered`), nor is one after a crash between the recovery's two links.
* `fetch_sub` gives back the *last* nonce taken. If another task has taken one since, that
  task's nonce is used again by the next send and the failed one's is used by nobody: all later
  transactions wait in the mempool, and their tasks for the receipts, until the process ends
  (`GapStaysOpen`; this is why `DepositRelay` assumes nothing of receipts; `SendsComplete` without its premise fails with two tasks and no fault, be it this way or by the next point).
* `updateValidatorSet` never gives its nonce back, and its error is only logged: after one revert or one failed
  request every other task stops in the same way (`sidechain/mod.rs:63`, `poa/mod.rs:46`). The update itself is
  not tried again before the next epoch or restart.
* The first failed poll ends the epoch stream (`onemoney/mod.rs:39`), its error is logged, and the
  validator task returns `Ok`: the process goes on and the validator set is never updated again.
* A left-over `updateValidatorSet`, after a crash or after a failed request that arrived all the same, may execute
  between a later `getValidators` and the update computed from it; both take effect, and the set is then a mixture of two epochs'
  (`UpdatesReachEpoch` without `clean` fails). The next epoch repairs it.
* `event_stream` "first yields any historical events since `from_block`, then continues" (`event.rs:20-21`). The replay queries
  up to five blocks past the head. If a query but the last ends among those
  (a range that is a multiple of 100000 blocks), events of blocks that appear between that query and the next
  are in neither, and when the next yields a log, `last_position` jumps over them, so the subscription's copies are dropped.
  `StreamLosesOnlyOverlap` says that the stream loses these and no others; the `deposit` run, with queries of two blocks
  and an overlap of two, does lose them. The clearing task,
  whose sweeps have no gap (`ClearingLeavesNoEvent`), has such an event; the live task waits for it.
* ADR-001 lets the relayer skip events without a refund; `incoming/mod.rs:110` submits
  them, because the numbers of events are the account's nonces. `DepositRelay` follows the code.
* Remapping a token leaves the other table's old entry in place
  (`OMInterop.sol:312`), so the retired OFT may still call `bridgeFrom`.

## Proofs

Checked by `tlapm` for every value of the constants that meets the named assumptions
(`ContractAssumption`, `BurnsAssumption`, `RelayAssumption`, `CounterAssumption`, `MappingAssumption`, `NonceAssumption`,
`PoaAssumption`, `DepositAssumption`): finite `Hashes` and `Tasks`, well-typed arguments, no burn in checkpoint 0, sender and
nonce identify a burn, a node lists each burn of a checkpoint once and an account's burns in the order of their nonces
(`RelayAssumption`), the contract's counters are wide enough for the burns there are (`CounterAssumption`; they are
`uint64` and `uint32`), the first validators have one power each.

* `TypeCorrect`: `TypeOK` is inductive; one lemma per call.
* `FrontAlwaysIncomplete`, `ClosedForever`: from `PruneCloses`, which says what the pruning
  loop leaves behind for a tally that grew, and one lemma for each of the two calls that
  prune. `FrontIsIncomplete` is inductive with `TypeOK`.
* `EventsInOrder`, with `EventsNumbered` and `BurnsInNonceOrder`: `EventNoncesGapless` and `BridgedInNonceOrder` together are inductive with
  `TypeOK`; every call appends nothing or one event with the next number and, for a burn,
  the account's next nonce.
* `SettlementSafe`, with `TalliesCount`, `ClosedMeansBridged` and `NonceTellsBridged`: the invariant is `SettlementInv`. `ClosedCheckpointBridged` alone is not
  inductive: a completed count equal to the certified one says nothing of *which* burns were
  counted. The counts must be counts of distinct burns (`TallyCountsBurns`), for which no burn
  is paid out twice, which needs the per-account nonces (`BridgedBelowNonce`); and since a
  pruned tally is gone, `PrunedBridged` remembers what pruning showed.
* `SettlementImplementsLedger`: initial states map, and each step is a payout, a settle, both, or
  a stutter of `WithdrawalLedger`, from the same invariant.
* `InflowLimited`: `InflowWithinLimit` with `InflowInv`, which says that the stored counter is what the epoch of the data admitted, and
  that no later epoch has admitted anything; without the second part a deposit that renews the epoch could meet an
  epoch that is not empty.
* `RelayTypeCorrect`, `ClearingComplete`, `LinksBridged`, `RelayImplementsSettlement`, `RelaySettlesSafely`, `RelayImplementsLedger`: the
  invariant is `RelayInv`, on top of `SettlementInv`. The code takes the receipt of a reverted transaction for a success, so
  the burden is to show that no transaction a task waits for reverts without its work being done. For
  `updateCheckpointInfo`: its checkpoint stays open from the estimate to the execution, because the live task counts for no
  checkpoint (`ClearingInv`). For `bridgeTo`: when its turn in the mempool comes, its nonce is the account's next one, or
  the other task has used it, for the same burn as sender and nonce identify a burn; to know that it is not *ahead* of the
  next one, every pending `bridgeTo` is either due or has the one before it ahead in the mempool (`Ready`), which is what
  the two kinds of estimates amount to. What is behind the clearing task is bridged because the burn it works on is the one
  at its `position` and those before are bridged (`ClearingInv`); what it starts from is what
  `ClosedCheckpointBridged` says of the contract. The refinement of `WithdrawalLedger` then follows by transitivity.
* `UnbridgedEntryHoldsStarts`: an entry that is registered, not bridged and in no transaction stays so through every step of a
  process that is down or recovering, but the one that passes over it. That `RecoverLink` can link only
  a bridged burn and `StartTasks` waits for the recovery is `RelayInv`'s account of the entries.
* `EstimateDecidesCall` (`RelayEstimateProofs`): in every well-typed state a transaction of the relayer takes effect exactly when `Succeeds`,
  the list of requires, holds, and `Effect` says what it then does. The point is the
  pruning loop: the contract's action leaves the front to be found, and the proof shows that there is one place at which the
  loop stops, the least checkpoint that is not complete (`PruningStops`), so a call that passes its requires is never stuck there.
* `MappingConsistent`, with `IndexConsistent`, `ArraysComplete` and `ReverseSound`: `MappingInv` adds `LinkedExists`, only registered sources are linked,
  without which a registration could meet a source that is still in an array. The two lemmas
  `PushKeepsMatch` and `PopKeepsMatch` are about the array operations alone. `LinksNeverChange` adds that a linked source is
  in no array (`LinkedUnlisted`), so no call finds it there.

* `NonceTypeCorrect`, `CounterInStep`, `NoncesNeverShared`: the invariant is `NonceInv`. Gapless and distinct need each
  other: that `fetch_sub` takes back exactly the failed task's nonce follows from the other
  tasks having other nonces below the counter, and a nonce is fresh because all of them are below it.
  That the counter stays a natural number needs a count: it is at least the number of tasks
  that hold an unsent nonce (`Counted`).
* `GapIsForGood`: `fetch_sub` moves the counter down by one for each task that gives its nonce back, so the counter could come
  down to a nonce that nobody sends. It cannot once the counter is further above that nonce than there are tasks that can give one back
  (`Gap`): a step that lowers the counter also removes a task from `Senders`, and one that adds a task raises the counter.
* `PoaImplementsNonce`: each step of `PoaRelay` is one of `RelayerNonce` or leaves it alone; with it `PoaCounterInStep`
  carries over, as do `PoaNoncesNeverShared` and `PoaGapIsForGood`. `ValidatorSetsWhole`: undisturbed, there is at most one pending update, the one
  the validator task waits for, and it is the difference between the contract's set *now* and the set of the
  last epoch fetched; so the first it applies to is the set it was computed from. `PoaTypeCorrect` adds `PoaValues`.
* `SubmissionsInOrder`: the invariant is `OrderInv`. `SubmittedInOrder` is inductive once it is known that
  a task past `should_process_nonce` holds a number the account nonce has reached (`ChecksPassed`).
* `LinksAreTrue`: with `MappingInv` on top. A task about to link has submitted (`LinksFollow`), so has one whose write comes
  late (`LateLinksFollow`); the checkpoints a recovery reads list only what the account nonce counts
  (`RecoveryReadsCertified`); and only keys have entries (`EntriesAreKeys`), so what is linked to an entry
  answers an event of that entry.
* `DepositTypeCorrect`, `StartIsEarlyEnough`: `DepositInv` adds that every number handled, submitted or counted by the
  account nonce is that of an emitted event (`EmittedInv`), that blocks up to the head are final (`ChainInv`, from which
  the count at such a block never changes), and the bisection's own invariant (`SearchInv`): up to its low end everything was
  on 1Money when the account nonce was read, and that nonce never falls.
* `StartNeverRefused`: while the process starts no task works, so all that 1Money has accepted, whether certified before or after
  the head is read, answers events up to that head (`StartInv`).
* `ClearingSweepsAll`: the tasks start no later than the first event without a transaction (`StartsEarlyEnough`), a sweep ends at
  a head that was read, and the next begins there (`SweepInv`); an event the task drops is below the account nonce, and has
  its transaction by `SubmittedInOrder`.
* `DepositImplementsLedger`: each step emits, answers, links or stutters, from `OrderInv`, `DepositInv` and the lemma that events are never taken back.
* `StreamLosesNothingElse`: `StreamInv` relates the replay's position to the first event that the subscription
  holds or will deliver, which is no later than the events up to the head the replay has read. While the position is that of
  the blocks queried nothing is lost; it can fall behind only after a query that ended past that head, and then all between it
  and the next query's first log is of blocks past it (`AskedBeforeTheyCame`). No condition on range or overlap is needed.

Two of these proofs corrected the model. An earlier one let the estimate of a `bridgeTo` go either way while the
mempool held a transaction of the account; `Ready` was then not inductive, as a third burn of an account could be sent ahead of its
turn, revert, and be linked. No node answers so: it estimates on a block, latest or pending, hence `Estimates`. And an earlier
one took the search of the start block for one step; it is now one step per query, with new blocks and certifications between them.

Only model-checked: liveness (`CheckpointsSettle`, `SendsComplete`, `ValidatorsFollow`, `EveryEventRelayed`,
`RelayedEventsLinked`), which is out of the prover's reach.

## Not modelled

The price oracle (a table kept by its operator, with one multiplication and one division; `OMInterop` takes its
answer as a constant); UUPS upgrades, the quote views, LayerZero and the OFT standard (library
code); the ValidatorManager contract (not in the repository); JSON and message types, deployment
scripts, argument parsing (no protocol state). A start checkpoint or block given on the command line is an
operator's choice and not varied. Logs of reorganised sidechain blocks.

## What could follow

1. Reorganised blocks in `DepositRelay`: a transaction on 1Money is not taken back with the event it answered.
2. `PriceOracle`: the conversion and its use in `DispatchBridge`, in place of the constant `PriceOf`.
