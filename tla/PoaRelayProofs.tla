--------------------------- MODULE PoaRelayProofs ---------------------------
(***************************************************************************)
(* The validator task, for any tasks, epochs and validators.                 *)
(*                                                                         *)
(* Its steps are steps of RelayerNonce, whose theorems therefore hold of it. *)
(* That an update reaches its epoch's set rests on there being at most one   *)
(* pending update, the one whose receipt the task waits for, and on keys     *)
(* being unique in the contract's set: without that a validator whose power  *)
(* changed would be removed and not added again.                            *)
(***************************************************************************)
EXTENDS PoaRelay, RelayerNonceProofs

(* Each step of the composition is a step of the shared nonce, or none.      *)
LEMMA PoaStepIsNonceStep == [PoaNext]_poaVars => [Next]_vars
<1> SUFFICES ASSUME [PoaNext]_poaVars
             PROVE  [Next]_vars
  OBVIOUS
<1>1. CASE Begin \/ CrashPoa
  BY <1>1 DEF Begin, CrashPoa, Next
<1>2. ASSUME NEW n \in mempool, ForgetPoa(n)
      PROVE  Next
  BY <1>2 DEF ForgetPoa, Next
<1>3. CASE NextEpoch \/ FetchEpoch
  BY <1>3 DEF NextEpoch, FetchEpoch
<1>4. CASE ReadValidators
  <2>1. UNCHANGED vars \/ Take(PoaTask, "validators")
    BY <1>4 DEF ReadValidators
  <2>2. PoaTask \in Tasks /\ "validators" \in KindsOf(PoaTask)
    BY NonceAssumption DEF NonceAssumption, KindsOf
  <2> QED
    BY <2>1, <2>2 DEF Next
<1>5. CASE StreamFails \/ ReadFails
  BY <1>5 DEF StreamFails, ReadFails, Next
<1>6. ASSUME NEW t \in Tasks, NEW kind \in KindsOf(t), TakeOther(t, kind)
      PROVE  Next
  BY <1>6 DEF TakeOther, Next
<1>7. ASSUME NEW t \in Tasks, SendPoa(t)
      PROVE  Next
  BY <1>7 DEF SendPoa, AcceptPoa, RefusePoa, RevertPoa, Send, Next
<1>8. ASSUME NEW t \in Tasks, ReceiptFailsPoa(t)
      PROVE  Next
  BY <1>8 DEF ReceiptFailsPoa, Fails, Next
<1>9. ASSUME NEW t \in Tasks, NEW arrived \in BOOLEAN, RpcFailsPoa(t, arrived)
      PROVE  Next
  BY <1>9 DEF RpcFailsPoa, Fails, Next
<1>10. CASE ExecutePoa
  BY <1>10 DEF ExecutePoa, Next
<1>11. CASE UNCHANGED poaVars
  BY <1>11 DEF poaVars
<1> QED
  BY <1>1, <1>2, <1>3, <1>4, <1>5, <1>6, <1>7, <1>8, <1>9, <1>10, <1>11 DEF PoaNext

(* The validator task and the others that share its nonce implement          *)
(* RelayerNonce, so the counter stays in step with the chain here too.      *)
THEOREM PoaImplementsNonce == PoaSpec => Spec
<1>1. PoaInit => Init
  BY DEF PoaInit
<1> QED
  BY <1>1, PoaStepIsNonceStep, PTL DEF PoaSpec, Spec

THEOREM PoaCounterInStep == PoaSpec => []NoncesGapless
BY PoaImplementsNonce, CounterInStep, PTL

(* No two tasks, the validator task among them, send the same nonce.         *)
THEOREM PoaNoncesNeverShared == PoaSpec => []NoncesDistinct
BY PoaImplementsNonce, NoncesNeverShared, PTL

(* A nonce that a failed validator set update leaves unused holds up all      *)
(* tasks until the process ends.                                            *)
THEOREM PoaGapIsForGood == PoaSpec => GapStaysOpen
BY PoaImplementsNonce, GapIsForGood, PTL

-----------------------------------------------------------------------------
UniqueKeys(set) == \A v, w \in set : v.key = w.key => v = w

(* One pending update at most, the one the task waits for.                   *)
SingleCall ==
    Undisturbed => \A c \in calls :
        /\ sending[PoaTask].state = "wait" /\ sending[PoaTask].nonce = c.nonce
        /\ c.update = update

(* What the task sends still is the difference to its epoch's set.           *)
UpToDate ==
    /\ poa = "read" /\ running => ~Active(PoaTask)
    /\ Undisturbed /\ Active(PoaTask) =>
           update = Difference(validators, ValidatorInfos(MembersOf[lastEpoch]))

CallsPending ==
    /\ \A c \in calls : c.nonce \in mempool /\ UniqueKeys(c.update.add)
    /\ \A c, d \in calls : c.nonce = d.nonce => c = d

UpdateInv ==
    /\ UniqueKeys(validators) /\ UniqueKeys(update.add)
    /\ CallsPending /\ SingleCall /\ UpToDate

LEMMA InfosUnique == \A members : UniqueKeys(ValidatorInfos(members))
BY DEF UniqueKeys, ValidatorInfos

(* The difference leads from one set to the other.                          *)
LEMMA DifferenceReaches ==
    ASSUME NEW old, NEW new, UniqueKeys(old)
    PROVE  Updated(Difference(old, new), old) = new
<1> DEFINE d == Difference(old, new)
<1>1. d.add = new \ old /\ d.remove = KeysOf(old \ new)
  BY DEF Difference
<1>2. ASSUME NEW v \in old, v.key \notin KeysOf(old \ new)
      PROVE  v \in new
  BY <1>2 DEF KeysOf
<1>3. ASSUME NEW v \in old, v \in new
      PROVE  v.key \notin KeysOf(old \ new)
  BY <1>3 DEF KeysOf, UniqueKeys
<1> QED
  BY <1>1, <1>2, <1>3 DEF Updated

LEMMA UpdatedUnique ==
    ASSUME NEW u, NEW set, UniqueKeys(set), UniqueKeys(u.add), Applies(u, set)
    PROVE  UniqueKeys(Updated(u, set))
<1>1. ASSUME NEW v \in set, v.key \notin u.remove, NEW w \in u.add
      PROVE  v.key # w.key
  BY <1>1 DEF Applies, KeysOf
<1> QED
  BY <1>1 DEF Updated, UniqueKeys

LEMMA PoaInitInv == PoaInit => UpdateInv
<1> SUFFICES ASSUME PoaInit
             PROVE  UpdateInv
  OBVIOUS
<1>1. UniqueKeys(validators)
  BY PoaAssumption DEF PoaInit, PoaAssumption, UniqueKeys
<1>2. update.add = {} /\ calls = {} /\ ~Undisturbed /\ poa = "poll"
  BY DEF PoaInit, NoUpdate, Undisturbed
<1> QED
  BY <1>1, <1>2 DEF UpdateInv, UniqueKeys, CallsPending, SingleCall, UpToDate

(* A step that leaves the validator task and the contract alone.             *)
LEMMA UpdateFrame ==
    ASSUME UpdateInv, UNCHANGED <<validators, update, poa, lastEpoch>>,
           calls' \subseteq calls, mempool \subseteq mempool',
           running' => running /\ sending'[PoaTask] = sending[PoaTask],
           Undisturbed' => Undisturbed
    PROVE  UpdateInv'
<1>1. Undisturbed' => running'
  BY DEF Undisturbed
<1>2. SingleCall'
  BY <1>1 DEF UpdateInv, SingleCall
<1>3. UpToDate'
  BY <1>1 DEF UpdateInv, UpToDate, Active
<1>4. CallsPending'
  BY DEF UpdateInv, CallsPending
<1> QED
  BY <1>2, <1>3, <1>4 DEF UpdateInv

LEMMA BeginUpdates ==
    ASSUME NonceInv, UpdateInv, Begin
    PROVE  UpdateInv'
<1>1. ~Active(PoaTask)'
  BY NonceAssumption, NoSendType
     DEF NonceInv, StoppedIsIdle, Begin, Start, Active, NonceAssumption
<1>2. update'.add = {} /\ poa' = "poll" /\ UNCHANGED <<validators, calls, mempool>>
  BY DEF Begin, Start, NoUpdate, Unchanged
<1>3. clean' => calls' = {}
  BY <1>2 DEF Begin, UpdateInv, CallsPending
<1> QED
  BY <1>1, <1>2, <1>3
     DEF UpdateInv, UniqueKeys, CallsPending, SingleCall, UpToDate, Undisturbed

LEMMA ReadUpdates ==
    ASSUME NonceInv, UpdateInv, ReadValidators
    PROVE  UpdateInv'
<1> DEFINE new == ValidatorInfos(MembersOf[lastEpoch])
<1>1. /\ update' = Difference(validators, new) /\ poa' = "poll" /\ poa = "read"
      /\ running /\ UNCHANGED <<validators, calls, lastEpoch, clean>>
      /\ UNCHANGED <<running, skipped, mempool>>
  BY DEF ReadValidators, Take, vars, counterVars
<1>2. UniqueKeys(update'.add)
  BY <1>1, InfosUnique DEF Difference, UniqueKeys
<1>3. Undisturbed' => calls' = {}
  BY <1>1 DEF UpdateInv, UpToDate, SingleCall, Undisturbed, Active
<1> QED
  BY <1>1, <1>2, <1>3 DEF UpdateInv, CallsPending, SingleCall, UpToDate

(* After a disturbance only the contract's own part of the invariant counts. *)
LEMMA DisturbedUpdates ==
    ASSUME UpdateInv, ~Undisturbed', UNCHANGED <<validators, update>>, CallsPending',
           poa' = "read" /\ running' => ~Active(PoaTask)'
    PROVE  UpdateInv'
BY DEF UpdateInv, SingleCall, UpToDate

(* A transaction of task t enters the mempool.                              *)
LEMMA PendingCalls ==
    ASSUME UpdateInv, NEW t \in Tasks, calls' = Pending(t),
           mempool' = mempool \cup {sending[t].nonce}
    PROVE  CallsPending'
<1> DEFINE mine == [nonce |-> sending[t].nonce, update |-> update]
<1>1. \A c \in calls' : c = mine \/ (c \in calls /\ c.nonce # sending[t].nonce)
  BY DEF Pending
<1>2. mine.nonce = sending[t].nonce /\ UniqueKeys(mine.update.add)
  BY DEF UpdateInv
<1> HIDE DEF mine
<1> QED
  BY <1>1, <1>2 DEF UpdateInv, CallsPending

LEMMA AcceptUpdates ==
    ASSUME NonceInv, UpdateInv, NEW t \in Tasks, AcceptPoa(t)
    PROVE  UpdateInv'
<1>1. /\ calls' = Pending(t) /\ mempool' = mempool \cup {sending[t].nonce}
      /\ UNCHANGED <<running, skipped, validators, poa, lastEpoch, update, clean>>
      /\ sending[t].state = "send" /\ PoaTask \in Tasks /\ running
  BY ActiveRuns, NonceAssumption
     DEF AcceptPoa, Accept, poaTaskVars, NonceInv, Active, NonceAssumption
<1>2. CallsPending'
  BY <1>1, PendingCalls
<1>3. sending \in [Tasks -> SendType]
  BY DEF NonceInv, TypeOK, SendType
<1>4. CASE t = PoaTask
  <2>1. sending'[t].state = "wait" /\ sending'[t].nonce = sending[t].nonce
    BY <1>1, <1>3 DEF AcceptPoa, Accept, SendType
  <2>2. Undisturbed => calls = {}
    BY <1>1, <1>4 DEF UpdateInv, SingleCall
  <2>3. Undisturbed => calls' = {[nonce |-> sending[t].nonce, update |-> update]}
    BY <1>1, <1>4, <2>2 DEF Pending
  <2>4. SingleCall'
    BY <1>1, <1>4, <2>1, <2>3 DEF SingleCall, Undisturbed
  <2>5. UpToDate'
    BY <1>1, <1>4 DEF UpdateInv, UpToDate, Undisturbed, Active
  <2> QED
    BY <1>1, <1>2, <2>4, <2>5 DEF UpdateInv
<1>5. CASE t # PoaTask
  <2>1. calls' = {c \in calls : c.nonce # sending[t].nonce}
    BY <1>1, <1>5 DEF Pending
  <2>2. \/ sending'[PoaTask] = sending[PoaTask]
        \/ /\ sending[PoaTask].nonce = sending[t].nonce
           /\ Active(PoaTask)
    BY <1>1, <1>5 DEF AcceptPoa, Accept, Active
  <2>3. SingleCall'
    BY <1>1, <2>1, <2>2 DEF UpdateInv, SingleCall, Undisturbed
  <2>4. UpToDate'
    BY <1>1, <2>2 DEF UpdateInv, UpToDate, Undisturbed, Active
  <2> QED
    BY <1>1, <1>2, <2>3, <2>4 DEF UpdateInv
<1> QED
  BY <1>4, <1>5

(* A task whose request fails: the validator task disturbs, another one ends  *)
(* the process or leaves the validator task alone.                          *)
LEMMA FailureUpdates ==
    ASSUME NonceInv, UpdateInv, NEW t \in Tasks, Active(t), Logged(t), CallsPending',
           calls' \subseteq calls \/ t = PoaTask \/ ~running',
           mempool \subseteq mempool', skipped' = FALSE /\ running' => ~skipped,
           Becomes(t, "idle") \/ Exit
    PROVE  UpdateInv'
<1>1. /\ UNCHANGED <<validators, update, poa, lastEpoch>> /\ running
      /\ clean' = (clean /\ t # PoaTask) /\ PoaTask \in Tasks
      /\ sending \in [Tasks -> SendType] /\ skipped \in BOOLEAN
  BY ActiveRuns, NonceAssumption
     DEF Logged, NonceInv, NonceAssumption, TypeOK, SendType
<1>2. CASE ~running'
  BY <1>1, <1>2, DisturbedUpdates DEF Undisturbed
<1>3. CASE running' /\ t = PoaTask
  <2>1. sending' = [sending EXCEPT ![t] = NoSend]
    BY <1>3 DEF Becomes, Exit
  <2>2. ~Active(PoaTask)'
    BY <1>1, <1>3, <2>1, NoSendType DEF Active
  <2>3. ~Undisturbed'
    BY <1>1, <1>3 DEF Undisturbed
  <2> QED
    BY <1>1, <2>2, <2>3, DisturbedUpdates
<1>4. CASE running' /\ t # PoaTask
  <2>1. sending' = [sending EXCEPT ![t] = NoSend]
    BY <1>4 DEF Becomes, Exit
  <2>2. sending'[PoaTask] = sending[PoaTask]
    BY <1>1, <1>4, <2>1
  <2>3. calls' \subseteq calls
    BY <1>4
  <2>4. Undisturbed' => Undisturbed
    BY <1>1 DEF Undisturbed
  <2> QED
    BY <1>1, <2>2, <2>3, <2>4, UpdateFrame
<1> QED
  BY <1>2, <1>3, <1>4

LEMMA FailuresUpdates ==
    ASSUME NonceInv, UpdateInv, NEW t \in Tasks, NEW arrived \in BOOLEAN,
           \/ RefusePoa(t) \/ RevertPoa(t) \/ ReceiptFailsPoa(t)
           \/ RpcFailsPoa(t, arrived)
    PROVE  UpdateInv'
<1>1. CASE RefusePoa(t)
  <2>1. Active(t) /\ Logged(t) /\ calls' = calls /\ mempool' = mempool
    BY <1>1 DEF RefusePoa, Refuse, Active
  <2>2. CallsPending'
    BY <2>1 DEF UpdateInv, CallsPending
  <2>3. (Becomes(t, "idle") /\ skipped' = (skipped \/ FALSE)) \/ Exit
    BY <1>1 DEF RefusePoa, Refuse, Errs
  <2>4. skipped' = FALSE /\ running' => ~skipped
    BY <2>3 DEF Exit
  <2> QED
    BY <2>1, <2>2, <2>3, <2>4, FailureUpdates
<1>2. CASE RevertPoa(t)
  <2>1. Active(t) /\ Logged(t) /\ calls' = calls /\ mempool' = mempool
    BY <1>2 DEF RevertPoa, Revert, Active
  <2>2. CallsPending'
    BY <2>1 DEF UpdateInv, CallsPending
  <2>3. \/ Exit
        \/ /\ Becomes(t, "idle")
           /\ skipped' = (skipped \/ sending[t].kind = "validators"
                                  \/ relayerNonce # sending[t].nonce + 1)
    BY <1>2 DEF RevertPoa, Revert
  <2>4. skipped' = FALSE /\ running' => ~skipped
    BY <2>3 DEF Exit
  <2> QED
    BY <2>1, <2>2, <2>3, <2>4, FailureUpdates
<1>3. CASE ReceiptFailsPoa(t)
  <2>1. Active(t) /\ Logged(t) /\ calls' = calls /\ mempool' = mempool
    BY <1>3 DEF ReceiptFailsPoa, ReceiptFails, Active
  <2>2. CallsPending'
    BY <2>1 DEF UpdateInv, CallsPending
  <2>3. (Becomes(t, "idle") /\ skipped' = skipped) \/ Exit
    BY <1>3 DEF ReceiptFailsPoa, ReceiptFails
  <2>4. skipped' = FALSE /\ running' => ~skipped
    BY <2>3 DEF Exit
  <2> QED
    BY <2>1, <2>2, <2>3, <2>4, FailureUpdates
<1>4. CASE RpcFailsPoa(t, arrived)
  <2>1. /\ Active(t) /\ Logged(t) /\ mempool \subseteq mempool'
        /\ \/ calls' = calls /\ mempool' = mempool
           \/ calls' = Pending(t) /\ mempool' = mempool \cup {sending[t].nonce}
    BY <1>4 DEF RpcFailsPoa, RpcFails, Active
  <2>2. CallsPending'
    BY <2>1, PendingCalls DEF UpdateInv, CallsPending
  <2>3. \/ Exit
        \/ /\ Becomes(t, "idle") /\ skipped' = (skipped \/ ~arrived)
           /\ sending[t].kind = "validators"
    BY <1>4 DEF RpcFailsPoa, RpcFails, Errs
  <2>4. skipped' = FALSE /\ running' => ~skipped
    BY <2>3 DEF Exit
  <2>5. calls' \subseteq calls \/ t = PoaTask
    BY <2>1 DEF Pending
  <2> QED
    BY <2>1, <2>2, <2>3, <2>4, <2>5, FailureUpdates
<1> QED
  BY <1>1, <1>2, <1>3, <1>4

(* The task's own update is the one that is executed, and nobody else's.     *)
LEMMA ExecutedUpdate ==
    ASSUME NonceInv, UpdateInv, Undisturbed, NEW c \in calls
    PROVE  /\ calls = {c} /\ c.update = update
           /\ sending[PoaTask].state = "wait" /\ sending[PoaTask].nonce = c.nonce
           /\ Updated(c.update, validators) = ValidatorInfos(MembersOf[lastEpoch])
<1>1. \A d \in calls : d.nonce = sending[PoaTask].nonce
  BY DEF UpdateInv, SingleCall
<1>2. /\ sending[PoaTask].state = "wait" /\ sending[PoaTask].nonce = c.nonce
      /\ c.update = update
  BY DEF UpdateInv, SingleCall
<1>3. calls = {c}
  BY <1>1, <1>2 DEF UpdateInv, CallsPending
<1>4. update = Difference(validators, ValidatorInfos(MembersOf[lastEpoch]))
  BY <1>2 DEF UpdateInv, UpToDate, Active
<1> QED
  BY <1>2, <1>3, <1>4, DifferenceReaches DEF UpdateInv

LEMMA ExecuteUpdates ==
    ASSUME NonceInv, UpdateInv, ExecutePoa
    PROVE  UpdateInv'
<1>1. /\ accountNonce \in mempool /\ mempool' = mempool \ {accountNonce}
      /\ UNCHANGED <<running, skipped, poa, lastEpoch, update, clean>>
      /\ PoaTask \in Tasks
      /\ sending' = [t \in Tasks |->
             IF sending[t].state = "wait" /\ sending[t].nonce = accountNonce
             THEN NoSend ELSE sending[t]]
  BY NonceAssumption DEF ExecutePoa, Execute, poaTaskVars, NonceAssumption
<1>2. Undisturbed' <=> Undisturbed
  BY <1>1 DEF Undisturbed
<1>3. \/ sending'[PoaTask] = sending[PoaTask]
         /\ ~(sending[PoaTask].state = "wait" /\ sending[PoaTask].nonce = accountNonce)
      \/ sending'[PoaTask] = NoSend
         /\ sending[PoaTask].state = "wait" /\ sending[PoaTask].nonce = accountNonce
  BY <1>1
<1>4. Active(PoaTask)' => Active(PoaTask)
  BY <1>3, NoSendType DEF Active
<1>5. CASE accountNonce \notin {c.nonce : c \in calls} /\ UNCHANGED <<validators, calls>>
  <2>1. \A c \in calls : c.nonce # accountNonce
    BY <1>5
  <2>2. CallsPending'
    BY <1>1, <1>5, <2>1 DEF UpdateInv, CallsPending
  <2>3. SingleCall'
    BY <1>1, <1>2, <1>3, <1>5, <2>1 DEF UpdateInv, SingleCall
  <2>4. UpToDate'
    BY <1>1, <1>2, <1>4, <1>5 DEF UpdateInv, UpToDate
  <2> QED
    BY <1>1, <1>5, <2>2, <2>3, <2>4 DEF UpdateInv
<1>6. ASSUME NEW c \in calls, c.nonce = accountNonce, calls' = calls \ {c},
             validators' = IF Applies(c.update, validators)
                           THEN Updated(c.update, validators) ELSE validators
      PROVE  UpdateInv'
  <2>1. UniqueKeys(validators')
    BY <1>6, UpdatedUnique DEF UpdateInv, CallsPending
  <2>2. CallsPending'
    BY <1>1, <1>6 DEF UpdateInv, CallsPending
  <2>3. Undisturbed => calls' = {} /\ ~Active(PoaTask)'
    BY <1>1, <1>3, <1>6, ExecutedUpdate, NoSendType DEF Active
  <2>4. SingleCall' /\ UpToDate'
    BY <1>1, <1>2, <1>4, <2>3 DEF UpdateInv, SingleCall, UpToDate
  <2> QED
    BY <1>1, <2>1, <2>2, <2>4 DEF UpdateInv
<1> QED
  BY <1>5, <1>6 DEF ExecutePoa

LEMMA UpdateNext == NonceInv /\ UpdateInv /\ [PoaNext]_poaVars => UpdateInv'
<1> SUFFICES ASSUME NonceInv, UpdateInv, [PoaNext]_poaVars
             PROVE  UpdateInv'
  OBVIOUS
<1> USE NonceAssumption DEF NonceAssumption
<1>1. CASE NextEpoch
  BY <1>1, UpdateFrame DEF NextEpoch, vars, counterVars, poaTaskVars, Undisturbed
<1>2. CASE Begin
  BY <1>2, BeginUpdates
<1>3. CASE CrashPoa
  <2>1. ~running' /\ UNCHANGED <<validators, update, calls, mempool>>
    BY <1>3 DEF CrashPoa, Crash, Exit, Unchanged, poaTaskVars
  <2>2. CallsPending'
    BY <2>1 DEF UpdateInv, CallsPending
  <2> QED
    BY <2>1, <2>2, DisturbedUpdates DEF Undisturbed
<1>4. ASSUME NEW n \in mempool, ForgetPoa(n)
      PROVE  UpdateInv'
  <2>1. /\ ~running' /\ UNCHANGED <<validators, update>>
        /\ mempool' = mempool \ {n} /\ calls' = {c \in calls : c.nonce # n}
    BY <1>4 DEF ForgetPoa, Forget, counterVars, poaTaskVars
  <2>2. CallsPending'
    BY <2>1 DEF UpdateInv, CallsPending
  <2> QED
    BY <2>1, <2>2, DisturbedUpdates DEF Undisturbed
<1>5. CASE FetchEpoch
  <2>1. /\ ~Active(PoaTask) /\ UNCHANGED <<validators, calls, update, vars, clean>>
    BY <1>5 DEF FetchEpoch, Polling
  <2>2. ~Active(PoaTask)' /\ (Undisturbed' => Undisturbed)
    BY <2>1 DEF vars, counterVars, Active, Undisturbed
  <2> QED
    BY <2>1, <2>2 DEF UpdateInv, CallsPending, SingleCall, UpToDate, vars, counterVars
<1>6. CASE StreamFails \/ ReadFails
  <2>1. /\ UNCHANGED <<validators, calls, update, mempool, sending>>
        /\ poa' # "read" /\ ~Undisturbed'
    BY <1>6 DEF StreamFails, ReadFails, QueryFails, counterVars, Undisturbed
  <2>2. CallsPending'
    BY <2>1 DEF UpdateInv, CallsPending
  <2> QED
    BY <2>1, <2>2, DisturbedUpdates
<1>7. CASE ReadValidators
  BY <1>7, ReadUpdates
<1>8. ASSUME NEW t \in Tasks, NEW kind \in KindsOf(t), TakeOther(t, kind)
      PROVE  UpdateInv'
  <2>1. /\ UNCHANGED <<validators, calls, update, poa, lastEpoch, clean, mempool,
                       running, skipped>>
        /\ sending'[PoaTask] = sending[PoaTask]
    BY <1>8 DEF TakeOther, Take, Unchanged, poaTaskVars
  <2> QED
    BY <1>8, <2>1, UpdateFrame DEF Undisturbed
<1>9. ASSUME NEW t \in Tasks, SendPoa(t)
      PROVE  UpdateInv'
  BY <1>9, AcceptUpdates, FailuresUpdates DEF SendPoa
<1>10. ASSUME NEW t \in Tasks, NEW arrived \in BOOLEAN,
              ReceiptFailsPoa(t) \/ RpcFailsPoa(t, arrived)
       PROVE  UpdateInv'
  BY <1>10, FailuresUpdates
<1>11. CASE ExecutePoa
  BY <1>11, ExecuteUpdates
<1>12. CASE UNCHANGED poaVars
  BY <1>12, UpdateFrame DEF poaVars, vars, counterVars, poaTaskVars, Undisturbed
<1> QED
  BY <1>1, <1>2, <1>3, <1>4, <1>5, <1>6, <1>7, <1>8, <1>9, <1>10, <1>11, <1>12
     DEF PoaNext

(* Unless disturbed, the contract's set never is a mixture of two epochs: it  *)
(* goes straight to the set of the last epoch fetched, whatever the other    *)
(* tasks that share the nonce do.                                           *)
THEOREM ValidatorSetsWhole == PoaSpec => UpdatesReachEpoch
<1>1. /\ NonceInv /\ UpdateInv /\ [PoaNext]_poaVars
      => [Undisturbed /\ validators' # validators =>
              validators' = ValidatorInfos(MembersOf[lastEpoch])]_poaVars
  <2> SUFFICES ASSUME NonceInv, UpdateInv, [PoaNext]_poaVars, Undisturbed,
                      validators' # validators
               PROVE  validators' = ValidatorInfos(MembersOf[lastEpoch])
    OBVIOUS
  <2>1. CASE ExecutePoa
    <3>1. PICK c \in calls : validators' = Updated(c.update, validators)
      BY <2>1 DEF ExecutePoa
    <3> QED
      BY <3>1, ExecutedUpdate
  <2>2. CASE ~ExecutePoa
    BY <2>2 DEF PoaNext, NextEpoch, Begin, CrashPoa, ForgetPoa, FetchEpoch, StreamFails,
                ReadValidators, ReadFails, TakeOther, SendPoa, AcceptPoa, RefusePoa,
                RevertPoa, ReceiptFailsPoa, RpcFailsPoa, Logged, Unchanged, poaVars
  <2> QED
    BY <2>1, <2>2
<1>2. PoaInit => NonceInv /\ UpdateInv
  BY PoaInitInv, InitInv DEF PoaInit
<1>3. NonceInv /\ UpdateInv /\ [PoaNext]_poaVars => NonceInv' /\ UpdateInv'
  BY UpdateNext, NextInv, PoaStepIsNonceStep
<1> QED
  BY <1>1, <1>2, <1>3, PTL DEF PoaSpec, UpdatesReachEpoch

-----------------------------------------------------------------------------
(* Types.                                                                   *)

(* What the types need beyond UpdateInv: an epoch is being brought over only  *)
(* when one was fetched, and pending updates add validators too.            *)
PoaValues ==
    /\ epoch \in 0..MaxEpoch /\ validators \subseteq Validators
    /\ poa \in {"poll", "read", "ended"} /\ clean \in BOOLEAN
    /\ lastEpoch \in NoEpoch..MaxEpoch
    /\ poa = "read" => lastEpoch \in 0..MaxEpoch
    /\ update.remove \subseteq Keys /\ update.add \subseteq Validators
    /\ \A c \in calls : c.update.add \subseteq Validators

LEMMA ValuesType ==
    ASSUME TypeOK, UpdateInv, PoaValues
    PROVE  PoaTypeOK
BY DEF UpdateInv, UniqueKeys, CallsPending, PoaValues, PoaTypeOK

LEMMA DifferenceType ==
    ASSUME NEW set \in SUBSET Validators, NEW members \in SUBSET Keys,
           NEW u, u = Difference(set, ValidatorInfos(members))
    PROVE  u.remove \subseteq Keys /\ u.add \subseteq Validators
<1>1. ValidatorInfos(members) \subseteq Validators
  BY DEF ValidatorInfos, Validators
<1>2. \A v \in set : v.key \in Keys
  BY DEF Validators
<1> QED
  BY <1>1, <1>2 DEF Difference, KeysOf

(* A step that neither executes an update nor fetches or reads an epoch.     *)
LEMMA ValuesFrame ==
    ASSUME PoaValues, UNCHANGED <<epoch, validators, lastEpoch, update>>,
           poa' \in {poa, "poll", "ended"}, clean' \in BOOLEAN,
           \A c \in calls' : c \in calls \/ c.update = update
    PROVE  PoaValues'
BY DEF PoaValues

LEMMA PoaInitValues == PoaInit => PoaValues
<1> SUFFICES ASSUME PoaInit PROVE PoaValues
  OBVIOUS
<1>1. epoch \in 0..MaxEpoch /\ lastEpoch \in NoEpoch..MaxEpoch
  BY PoaAssumption DEF PoaInit, PoaAssumption, NoEpoch
<1>2. validators \subseteq Validators /\ clean \in BOOLEAN /\ calls = {}
  BY PoaAssumption DEF PoaInit, PoaAssumption
<1>3. update.remove \subseteq Keys /\ update.add \subseteq Validators
  BY DEF PoaInit, NoUpdate
<1> QED
  BY <1>1, <1>2, <1>3 DEF PoaInit, PoaValues

LEMMA SendValues ==
    ASSUME PoaValues, NEW t \in Tasks, NEW arrived \in BOOLEAN,
           SendPoa(t) \/ ReceiptFailsPoa(t) \/ RpcFailsPoa(t, arrived)
    PROVE  PoaValues'
<1>1. /\ UNCHANGED <<epoch, validators, lastEpoch, update, poa>>
      /\ clean' = clean \/ clean' = (clean /\ t # PoaTask)
      /\ calls' = calls \/ calls' = Pending(t)
  BY DEF SendPoa, AcceptPoa, RefusePoa, RevertPoa, ReceiptFailsPoa, RpcFailsPoa,
         Logged, poaTaskVars
<1>2. \A c \in Pending(t) : c \in calls \/ c.update = update
  BY DEF Pending
<1>3. clean' \in BOOLEAN
  BY <1>1 DEF PoaValues
<1> QED
  BY <1>1, <1>2, <1>3, ValuesFrame

LEMMA ExecuteValues ==
    ASSUME PoaValues, ExecutePoa
    PROVE  PoaValues'
<1>1. UNCHANGED <<epoch, poaTaskVars>>
  BY DEF ExecutePoa
<1>2. CASE UNCHANGED <<validators, calls>>
  BY <1>1, <1>2, ValuesFrame DEF poaTaskVars, PoaValues
<1>3. ASSUME NEW c \in calls, calls' = calls \ {c},
             validators' = IF Applies(c.update, validators)
                           THEN Updated(c.update, validators) ELSE validators
      PROVE  PoaValues'
  <2>1. validators' \subseteq Validators
    BY <1>3 DEF PoaValues, Updated
  <2> QED
    BY <1>1, <1>3, <2>1 DEF poaTaskVars, PoaValues
<1> QED
  BY <1>2, <1>3 DEF ExecutePoa

LEMMA PoaNextValues ==
    ASSUME PoaValues, [PoaNext]_poaVars
    PROVE  PoaValues'
<1>1. CASE NextEpoch
  <2>1. epoch' \in 0..MaxEpoch
    BY <1>1, PoaAssumption DEF NextEpoch, PoaValues, PoaAssumption
  <2> QED
    BY <1>1, <2>1 DEF NextEpoch, PoaValues, poaTaskVars
<1>2. CASE Begin
  <2>1. /\ poa' = "poll" /\ lastEpoch' = NoEpoch /\ update' = NoUpdate
        /\ clean' \in BOOLEAN /\ UNCHANGED <<epoch, validators, calls>>
        /\ NoEpoch \in NoEpoch..MaxEpoch
    BY <1>2, PoaAssumption DEF Begin, Unchanged, PoaAssumption, NoEpoch
  <2> QED
    BY <2>1 DEF PoaValues, NoUpdate
<1>3. CASE CrashPoa \/ (\E n \in mempool : ForgetPoa(n)) \/ UNCHANGED poaVars
           \/ \E t \in Tasks : \E kind \in KindsOf(t) : TakeOther(t, kind)
  BY <1>3, ValuesFrame
     DEF CrashPoa, ForgetPoa, TakeOther, Unchanged, poaTaskVars, poaVars, PoaValues
<1>4. CASE FetchEpoch
  <2>1. lastEpoch' \in 0..MaxEpoch /\ lastEpoch' \in NoEpoch..MaxEpoch
    BY <1>4 DEF FetchEpoch, PoaValues, NoEpoch
  <2> QED
    BY <1>4, <2>1 DEF FetchEpoch, PoaValues
<1>5. CASE StreamFails \/ ReadFails
  BY <1>5, ValuesFrame DEF StreamFails, ReadFails
<1>6. CASE ReadValidators
  <2>1. /\ poa' = "poll" /\ UNCHANGED <<epoch, validators, calls, lastEpoch, clean>>
        /\ update' = Difference(validators, ValidatorInfos(MembersOf[lastEpoch]))
        /\ lastEpoch \in 0..MaxEpoch
    BY <1>6 DEF ReadValidators, PoaValues
  <2>2. MembersOf[lastEpoch] \in SUBSET Keys /\ validators \in SUBSET Validators
    BY <2>1, PoaAssumption DEF PoaAssumption, PoaValues
  <2>3. PICK u : u = Difference(validators, ValidatorInfos(MembersOf[lastEpoch]))
    OBVIOUS
  <2>4. u.remove \subseteq Keys /\ u.add \subseteq Validators
    BY <2>2, <2>3, DifferenceType
  <2> QED
    BY <2>1, <2>3, <2>4 DEF PoaValues
<1>7. ASSUME NEW t \in Tasks, NEW arrived \in BOOLEAN,
             SendPoa(t) \/ ReceiptFailsPoa(t) \/ RpcFailsPoa(t, arrived)
      PROVE  PoaValues'
  BY <1>7, SendValues
<1>8. CASE ExecutePoa
  BY <1>8, ExecuteValues
<1> QED
  BY <1>1, <1>2, <1>3, <1>4, <1>5, <1>6, <1>7, <1>8 DEF PoaNext

(* The validator task, the contract's set and its pending updates keep their  *)
(* types: no key is in the set twice, and no pending update without a        *)
(* pending transaction, or two with the same nonce.                         *)
THEOREM PoaTypeCorrect == PoaSpec => []PoaTypeOK
<1>1. PoaInit => NonceInv /\ UpdateInv /\ PoaValues
  BY PoaInitInv, InitInv, PoaInitValues DEF PoaInit
<1>2. NonceInv /\ UpdateInv /\ PoaValues /\ [PoaNext]_poaVars
          => NonceInv' /\ UpdateInv' /\ PoaValues'
  BY UpdateNext, NextInv, PoaStepIsNonceStep, PoaNextValues
<1>3. NonceInv /\ UpdateInv /\ PoaValues => PoaTypeOK
  BY ValuesType DEF NonceInv
<1> QED
  BY <1>1, <1>2, <1>3, PTL DEF PoaSpec
=============================================================================
