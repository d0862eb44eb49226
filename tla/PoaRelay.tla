------------------------------ MODULE PoaRelay ------------------------------
(***************************************************************************)
(* The proof-of-authority half of the relayer (crates/relayer/src/poa,       *)
(* onemoney/mod.rs and sidechain/mod.rs): the validator set of each epoch of *)
(* the 1Money network is brought to the ValidatorManager contract of the    *)
(* sidechain, with the account nonce that all tasks share (RelayerNonce).   *)
(*                                                                         *)
(* One poll fetches the epoch; a new one is compared with the contract's    *)
(* set, and one updateValidatorSet carries the difference.  Its errors are  *)
(* logged and the epoch is not tried again; an error of the poll ends the   *)
(* stream and with it the task, while the process and its other tasks go on. *)
(***************************************************************************)
EXTENDS RelayerNonce

CONSTANTS
    Keys,     \* validator keys
    MaxEpoch, \* bound on epochs
    MembersOf, \* the validators of each epoch of 1Money
    Genesis   \* the sidechain's first validators, each with a power

Validators == [key : Keys, power : Nat]

(* A conversion gives every validator the same power (types/validator.rs).   *)
ValidatorInfos(members) == {[key |-> k, power |-> 100] : k \in members}
KeysOf(set) == {v.key : v \in set}

ASSUME PoaAssumption ==
    /\ MaxEpoch \in Nat
    /\ MembersOf \in [0..MaxEpoch -> SUBSET Keys]
    /\ Genesis \subseteq Validators
    /\ \A v, w \in Genesis : v.key = w.key => v = w

NoEpoch == -1

VARIABLES
    epoch,      \* 1Money: its current epoch
    validators, \* sidechain: the ValidatorManager contract's set
    calls,      \* sidechain: the updates among its pending transactions
    poa,        \* the validator task: "poll", "read", "ended"
    lastEpoch,  \* the last epoch its stream has yielded
    update,     \* the difference it sends
    clean       \* history: no leftovers and no failed request in this run

poaTaskVars == <<poa, lastEpoch, update, clean>>
poaVars == <<vars, epoch, validators, calls, poaTaskVars>>

NoUpdate == [add |-> {}, remove |-> {}]

PoaTypeOK ==
    /\ TypeOK
    /\ epoch \in 0..MaxEpoch
    /\ validators \subseteq Validators
    /\ \A v, w \in validators : v.key = w.key => v = w
    /\ {c.nonce : c \in calls} \subseteq mempool
    /\ \A c, d \in calls : c.nonce = d.nonce => c = d
    /\ poa \in {"poll", "read", "ended"}
    /\ lastEpoch \in NoEpoch..MaxEpoch
    /\ update.remove \subseteq Keys /\ update.add \subseteq Validators
    /\ clean \in BOOLEAN

PoaInit ==
    /\ Init
    /\ epoch = 0 /\ validators = Genesis /\ calls = {}
    /\ poa = "poll" /\ lastEpoch = NoEpoch /\ update = NoUpdate
    /\ clean = FALSE

-----------------------------------------------------------------------------
(* The 1Money network (external): a new epoch, with its validators.          *)
NextEpoch ==
    /\ epoch < MaxEpoch
    /\ epoch' = epoch + 1
    /\ UNCHANGED <<vars, validators, calls, poaTaskVars>>

-----------------------------------------------------------------------------
(* The process.                                                             *)

Unchanged == UNCHANGED <<epoch, validators, calls>>

(* The stream has not yielded an epoch yet.                                  *)
Begin ==
    /\ Start
    /\ poa' = "poll" /\ lastEpoch' = NoEpoch /\ update' = NoUpdate
    /\ clean' = (mempool = {})
    /\ Unchanged

CrashPoa == Crash /\ Unchanged /\ UNCHANGED poaTaskVars

ForgetPoa(n) ==
    /\ Forget(n)
    /\ calls' = {c \in calls : c.nonce # n}
    /\ UNCHANGED <<epoch, validators, poaTaskVars>>

-----------------------------------------------------------------------------
(* The epoch stream.                                                        *)

Polling == running /\ poa = "poll" /\ ~Active(PoaTask)

FetchEpoch ==
    /\ Polling /\ epoch # lastEpoch
    /\ lastEpoch' = epoch /\ poa' = "read"
    /\ UNCHANGED <<vars, epoch, validators, calls, update, clean>>

(* A failed request or an undecodable answer is the stream's last item.      *)
StreamFails ==
    /\ Polling /\ QueryFails
    /\ poa' = "ended" /\ clean' = FALSE
    /\ UNCHANGED <<epoch, validators, calls, lastEpoch, update>>

-----------------------------------------------------------------------------
(* Bringing one epoch to the sidechain.                                     *)

(* Fault: validators that left the set are kept.                             *)
DifferenceAddsOnly(old, new) == [add |-> new \ old, remove |-> {}]

(* What must be added and the keys that must go: a validator whose power      *)
(* differs is in both.                                                      *)
Difference(old, new) == [add |-> new \ old, remove |-> KeysOf(old \ new)]

(* Fault: an update with nothing to remove is taken for none.                *)
ReadValidatorsSkipping ==
    /\ running /\ poa = "read"
    /\ poa' = "poll"
    /\ update' = Difference(validators, ValidatorInfos(MembersOf[lastEpoch]))
    /\ IF update'.remove = {} THEN UNCHANGED vars ELSE Take(PoaTask, "validators")
    /\ UNCHANGED <<epoch, validators, calls, lastEpoch, clean>>

(* The nonce is taken in the same step as the contract's set is read: there   *)
(* is no await in between.                                                  *)
ReadValidators ==
    /\ running /\ poa = "read"
    /\ poa' = "poll"
    /\ update' = Difference(validators, ValidatorInfos(MembersOf[lastEpoch]))
    /\ IF update' = NoUpdate THEN UNCHANGED vars ELSE Take(PoaTask, "validators")
    /\ UNCHANGED <<epoch, validators, calls, lastEpoch, clean>>

ReadFails ==
    /\ poa = "read" /\ QueryFails
    /\ poa' = "poll" /\ clean' = FALSE
    /\ UNCHANGED <<epoch, validators, calls, lastEpoch, update>>

(* The ValidatorManager contract (external): it removes, then adds, and       *)
(* refuses a key that is missing or already there.                          *)
Applies(u, set) ==
    /\ u.remove \subseteq KeysOf(set)
    /\ KeysOf(u.add) \cap (KeysOf(set) \ u.remove) = {}
Updated(u, set) == {v \in set : v.key \notin u.remove} \cup u.add

(* Whether the estimate of the update succeeds: on the latest block or, with  *)
(* updates pending, on one in which they have been made.                    *)
Estimates == IF calls = {} THEN {Applies(update, validators)} ELSE BOOLEAN

Pending(t) ==
    LET n == sending[t].nonce
    IN  {c \in calls : c.nonce # n}
            \cup (IF t = PoaTask THEN {[nonce |-> n, update |-> update]} ELSE {})

AcceptPoa(t) ==
    /\ Accept(t)
    /\ t = PoaTask => TRUE \in Estimates
    /\ calls' = Pending(t)
    /\ UNCHANGED <<epoch, validators, poaTaskVars>>

(* What else changes when a request of a task fails.                         *)
Logged(t) ==
    /\ clean' = (clean /\ t # PoaTask)
    /\ UNCHANGED <<epoch, validators, poa, lastEpoch, update>>

RefusePoa(t) == Refuse(t) /\ Logged(t) /\ UNCHANGED calls

RevertPoa(t) ==
    /\ Revert(t)
    /\ t = PoaTask => FALSE \in Estimates
    /\ Logged(t) /\ UNCHANGED calls

RpcFailsPoa(t, arrived) ==
    /\ RpcFails(t, arrived) /\ Logged(t)
    /\ calls' = IF arrived THEN Pending(t) ELSE calls

ReceiptFailsPoa(t) == ReceiptFails(t) /\ Logged(t) /\ UNCHANGED calls

(* The receipt's status is not looked at: an update that reverts when it is   *)
(* executed ends like one that takes effect.                                *)
ExecutePoa ==
    /\ Execute
    /\ \/ /\ accountNonce \notin {c.nonce : c \in calls}
          /\ UNCHANGED <<validators, calls>>
       \/ \E c \in calls :
              /\ c.nonce = accountNonce
              /\ calls' = calls \ {c}
              /\ validators' = IF Applies(c.update, validators)
                               THEN Updated(c.update, validators) ELSE validators
    /\ UNCHANGED <<epoch, poaTaskVars>>

TakeOther(t, kind) ==
    /\ t # PoaTask /\ Take(t, kind)
    /\ Unchanged /\ UNCHANGED poaTaskVars

-----------------------------------------------------------------------------
SendPoa(t) == AcceptPoa(t) \/ RefusePoa(t) \/ RevertPoa(t)

PoaNext ==
    \/ NextEpoch
    \/ Begin \/ CrashPoa \/ (\E n \in mempool : ForgetPoa(n))
    \/ FetchEpoch \/ StreamFails \/ ReadValidators \/ ReadFails
    \/ \E t \in Tasks :
           \/ \E kind \in KindsOf(t) : TakeOther(t, kind)
           \/ SendPoa(t) \/ ReceiptFailsPoa(t)
           \/ \E arrived \in BOOLEAN : RpcFailsPoa(t, arrived)
    \/ ExecutePoa

PoaSpec == PoaInit /\ [][PoaNext]_poaVars

(* The supervisor starts the process, tokio polls every task that can go on,  *)
(* the poll interval ticks and the sidechain executes what it can.  Nothing *)
(* is assumed of a wait for a receipt: the code sets no timeout.            *)
PoaFairness ==
    /\ WF_poaVars(Begin)
    /\ WF_poaVars(FetchEpoch) /\ WF_poaVars(ReadValidators)
    /\ \A t \in Tasks : WF_poaVars(SendPoa(t))
    /\ WF_poaVars(ExecutePoa)

FairPoaSpec == PoaSpec /\ PoaFairness

-----------------------------------------------------------------------------
(* Properties.                                                              *)

Undisturbed == running /\ clean /\ ~skipped

(* Unless a request of the validator task has failed or an earlier run left   *)
(* transactions behind, the contract's set goes from the set of one epoch    *)
(* to that of the last one fetched in one step, and is never a mixture of   *)
(* two: updates of two epochs do not overlap, and the difference is still   *)
(* right when it is executed.                                               *)
UpdatesReachEpoch ==
    [][Undisturbed /\ validators' # validators =>
           validators' = ValidatorInfos(MembersOf[lastEpoch])]_poaVars

(* "Consensus participants must be the same as the 1Money L1 validators"      *)
(* (adr-002): if from some time on nothing disturbs the validator task, the  *)
(* contract has the validators of the network's epoch in the end, also       *)
(* after crashes, failed updates and epochs that passed unseen, and although *)
(* other tasks' sends fail with the same counter.                           *)
ValidatorsFollow ==
    <>[]Undisturbed => <>[](validators = ValidatorInfos(MembersOf[epoch]))
=============================================================================
