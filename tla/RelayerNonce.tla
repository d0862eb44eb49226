---------------------------- MODULE RelayerNonce ----------------------------
(***************************************************************************)
(* The sidechain account nonce that all tasks of the relayer share           *)
(* (config/mod.rs): an atomic counter, read from the chain once at start.   *)
(*                                                                         *)
(* A task takes a nonce with fetch_add, sends a transaction with it and     *)
(* waits for the receipt.  A send that the gas estimate shows to revert is  *)
(* the one case that gives the nonce back, with fetch_sub, and only for the *)
(* calls of the hash mapping.  The tasks run concurrently, so the counter   *)
(* may have moved on by then.  Transactions execute in nonce order: one     *)
(* whose predecessor was never sent waits for ever, and so does its task.   *)
(***************************************************************************)
EXTENDS Integers, FiniteSets

CONSTANTS
    Tasks,    \* the concurrent tasks of the process
    PoaTask,  \* the one that updates the validator set
    MaxNonce, \* bound on the nonces the other tasks take
    MaxFaults \* bound on crashes and failed requests

ASSUME NonceAssumption ==
    /\ IsFiniteSet(Tasks) /\ PoaTask \in Tasks
    /\ MaxNonce \in Nat /\ MaxFaults \in Nat

VARIABLES
    running,      \* whether the process runs
    relayerNonce, \* its counter
    sending,      \* what each task sends or waits for
    accountNonce, \* sidechain: the account's next nonce
    mempool,      \* sidechain: nonces of its pending transactions
    skipped,      \* history: this process has lost a nonce
    faults

counterVars == <<running, relayerNonce, sending, skipped>>
vars == <<counterVars, accountNonce, mempool, faults>>

(* The calls of the hash mapping; updateCheckpointInfo and bridgeTo, whose    *)
(* errors end the process; updateValidatorSet, whose errors are logged.     *)
Kinds == {"hash", "call", "validators"}
KindsOf(t) == IF t = PoaTask THEN {"validators"} ELSE {"hash", "call"}

NoSend == [state |-> "idle", kind |-> "hash", nonce |-> 0]
Active(t) == sending[t].state # "idle"
Holds(t, n) == sending[t].state = "send" /\ sending[t].nonce = n
Senders == {t \in Tasks : sending[t].state = "send"}

TypeOK ==
    /\ running \in BOOLEAN /\ relayerNonce \in Nat
    /\ sending \in [Tasks -> [state : {"idle", "send", "wait", "lost"},
                              kind : Kinds, nonce : Nat]]
    /\ accountNonce \in Nat /\ mempool \subseteq Nat
    /\ skipped \in BOOLEAN /\ faults \in 0..MaxFaults

Init ==
    /\ running = FALSE /\ relayerNonce = 0 /\ skipped = FALSE
    /\ sending = [t \in Tasks |-> NoSend]
    /\ accountNonce = 0 /\ mempool = {}
    /\ faults = 0

-----------------------------------------------------------------------------
(* The process.                                                             *)

(* Fault: the counter starts at the last nonce used, not at the next one.    *)
StartAtLastUsed ==
    /\ ~running
    /\ running' = TRUE /\ relayerNonce' = accountNonce - 1
    /\ UNCHANGED <<sending, skipped, accountNonce, mempool, faults>>

(* Fault: pending transactions of an earlier run are counted as executed.    *)
StartAfterPending ==
    /\ ~running
    /\ running' = TRUE /\ relayerNonce' = accountNonce + Cardinality(mempool)
    /\ UNCHANGED <<sending, skipped, accountNonce, mempool, faults>>

(* The count of executed transactions; pending ones may be left over.        *)
Start ==
    /\ ~running
    /\ running' = TRUE /\ relayerNonce' = accountNonce
    /\ UNCHANGED <<sending, skipped, accountNonce, mempool, faults>>

(* The first error of a task ends the process; the counter is gone with it.  *)
Exit ==
    /\ running' = FALSE /\ relayerNonce' = 0 /\ skipped' = FALSE
    /\ sending' = [t \in Tasks |-> NoSend]

Fault == faults < MaxFaults /\ faults' = faults + 1

Crash ==
    /\ running /\ Fault /\ Exit
    /\ UNCHANGED <<accountNonce, mempool>>

(* A query of the validator task fails: logged, and no nonce is involved.  A  *)
(* failed query of another task ends the process, as Crash does.            *)
QueryFails ==
    /\ running /\ Fault
    /\ UNCHANGED <<counterVars, accountNonce, mempool>>

(* Nodes may forget a transaction that nobody waits for.                     *)
Forget(n) ==
    /\ ~running /\ n \in mempool
    /\ mempool' = mempool \ {n}
    /\ UNCHANGED <<counterVars, accountNonce, faults>>

-----------------------------------------------------------------------------
(* One send of a task.                                                      *)

Becomes(t, state) ==
    sending' = [sending EXCEPT ![t] = IF state = "idle" THEN NoSend
                                      ELSE [@ EXCEPT !.state = state]]

(* An error of a task ends the process, but the validator task only logs it   *)
(* and goes on: then its nonce may be lost.                                 *)
Errs(t, lost) ==
    IF sending[t].kind = "validators"
    THEN /\ Becomes(t, "idle")
         /\ skipped' = (skipped \/ lost)
         /\ UNCHANGED <<running, relayerNonce>>
    ELSE Exit

(* Fault: the counter is loaded, and stored by nobody.                       *)
TakeWithoutAdding(t, kind) ==
    /\ running /\ ~Active(t)
    /\ t # PoaTask => relayerNonce < MaxNonce
    /\ sending' = [sending EXCEPT ![t] = [state |-> "send", kind |-> kind,
                                          nonce |-> relayerNonce]]
    /\ UNCHANGED <<running, relayerNonce, skipped, accountNonce, mempool, faults>>

Take(t, kind) ==
    /\ running /\ ~Active(t)
    /\ t # PoaTask => relayerNonce < MaxNonce
    /\ sending' = [sending EXCEPT ![t] = [state |-> "send", kind |-> kind,
                                          nonce |-> relayerNonce]]
    /\ relayerNonce' = relayerNonce + 1
    /\ UNCHANGED <<running, skipped, accountNonce, mempool, faults>>

(* The node takes the transaction into its mempool.  It may replace a pending *)
(* one of the same nonce, whose receipt then never comes.                   *)
Accept(t) ==
    LET n == sending[t].nonce
    IN  /\ sending[t].state = "send" /\ n >= accountNonce
        /\ mempool' = mempool \cup {n}
        /\ sending' = [u \in Tasks |->
               IF u = t THEN [sending[u] EXCEPT !.state = "wait"]
               ELSE IF sending[u].state = "wait" /\ sending[u].nonce = n
               THEN [sending[u] EXCEPT !.state = "lost"] ELSE sending[u]]
        /\ UNCHANGED <<running, relayerNonce, skipped, accountNonce, faults>>

(* The nonce is executed already, or pending and not to be replaced: an error *)
(* of the node, not one of the contract's, so the nonce is not given back.  *)
Refuse(t) ==
    LET n == sending[t].nonce
    IN  /\ sending[t].state = "send"
        /\ n < accountNonce \/ n \in mempool
        /\ Errs(t, FALSE)
        /\ UNCHANGED <<accountNonce, mempool, faults>>

(* Fault: the nonce of a reverting call is not given back.                   *)
RevertKeepsNonce(t) ==
    LET n == sending[t].nonce
    IN  /\ sending[t].state = "send"
        /\ IF sending[t].kind = "call" THEN Exit
           ELSE /\ Becomes(t, "idle")
                /\ UNCHANGED <<running, relayerNonce>>
                /\ skipped' = (skipped \/ sending[t].kind = "validators"
                                       \/ relayerNonce # n + 1)
        /\ UNCHANGED <<accountNonce, mempool, faults>>

(* Fault: the failed send's nonce is stored, instead of one subtracted.      *)
RevertStoresNonce(t) ==
    LET n == sending[t].nonce
    IN  /\ sending[t].state = "send"
        /\ IF sending[t].kind = "call" THEN Exit
           ELSE /\ Becomes(t, "idle")
                /\ UNCHANGED running
                /\ relayerNonce' = IF sending[t].kind = "hash"
                                   THEN n ELSE relayerNonce
                /\ skipped' = (skipped \/ sending[t].kind = "validators"
                                       \/ relayerNonce # n + 1)
        /\ UNCHANGED <<accountNonce, mempool, faults>>

(* The estimate reverts with an error of the contract.  fetch_sub gives back  *)
(* the last nonce taken, which is another task's if one has taken it since. *)
Revert(t) ==
    LET n == sending[t].nonce
    IN  /\ sending[t].state = "send"
        /\ IF sending[t].kind = "call" THEN Exit
           ELSE /\ Becomes(t, "idle")
                /\ UNCHANGED running
                /\ relayerNonce' = IF sending[t].kind = "hash"
                                   THEN relayerNonce - 1 ELSE relayerNonce
                /\ skipped' = (skipped \/ sending[t].kind = "validators"
                                       \/ relayerNonce # n + 1)
        /\ UNCHANGED <<accountNonce, mempool, faults>>

(* The request fails; the node may have taken the transaction before.        *)
RpcFails(t, arrived) ==
    LET n == sending[t].nonce
    IN  /\ sending[t].state = "send" /\ Fault
        /\ arrived => n >= accountNonce /\ n \notin mempool
        /\ mempool' = IF arrived THEN mempool \cup {n} ELSE mempool
        /\ Errs(t, ~arrived)
        /\ UNCHANGED accountNonce

(* The receipt cannot be read: a warning, except for "call".                 *)
ReceiptFails(t) ==
    /\ sending[t].state \in {"wait", "lost"} /\ Fault
    /\ IF sending[t].kind = "call" THEN Exit
       ELSE Becomes(t, "idle") /\ UNCHANGED <<running, relayerNonce, skipped>>
    /\ UNCHANGED <<accountNonce, mempool>>

(* The sidechain executes the account's next transaction.                    *)
Execute ==
    /\ accountNonce \in mempool
    /\ mempool' = mempool \ {accountNonce}
    /\ accountNonce' = accountNonce + 1
    /\ sending' = [t \in Tasks |->
           IF sending[t].state = "wait" /\ sending[t].nonce = accountNonce
           THEN NoSend ELSE sending[t]]
    /\ UNCHANGED <<running, relayerNonce, skipped, faults>>

-----------------------------------------------------------------------------
Send(t)  == Accept(t) \/ Refuse(t) \/ Revert(t)
Fails(t) == ReceiptFails(t) \/ \E arrived \in BOOLEAN : RpcFails(t, arrived)

Next ==
    \/ Start \/ Crash \/ QueryFails \/ (\E n \in mempool : Forget(n))
    \/ \E t \in Tasks : (\E kind \in KindsOf(t) : Take(t, kind)) \/ Send(t) \/ Fails(t)
    \/ Execute

Spec == Init /\ [][Next]_vars

-----------------------------------------------------------------------------
(* Properties.                                                              *)

(* As long as no nonce was lost, every nonce below the counter is executed,  *)
(* pending, or held by a task that is about to send it: the counter stays   *)
(* in step with the chain through failed sends, refused sends, crashes and  *)
(* transactions left over from an earlier run.                              *)
NoncesGapless ==
    running /\ ~skipped =>
        \A n \in accountNonce..relayerNonce - 1 :
            n \in mempool \/ \E t \in Tasks : Holds(t, n)

(* As long as no nonce was lost, no two tasks have a transaction of the same *)
(* nonce under way, none of them was replaced, and the counter is beyond    *)
(* all of them.                                                             *)
NoncesDistinct ==
    running /\ ~skipped =>
        \A t \in Tasks : Active(t) =>
            /\ sending[t].nonce < relayerNonce
            /\ sending[t].state # "lost"
            /\ \A u \in Tasks \ {t} :
                   Active(u) => sending[t].nonce # sending[u].nonce

(* The account's next nonce is sent by nobody, and not even if every task     *)
(* that holds a nonce gave it back would the counter come down to it again. *)
Gap ==
    /\ running /\ accountNonce \notin mempool
    /\ \A t \in Tasks : ~Holds(t, accountNonce)
    /\ accountNonce + Cardinality(Senders) < relayerNonce

(* Such a gap is for good: no send, failure or fetch_sub of any task closes  *)
(* it, and no transaction of the account is executed, until the process ends *)
(* and a new one reads the counter from the chain.                          *)
GapStaysOpen ==
    [][Gap => ~running' \/ (Gap' /\ UNCHANGED accountNonce)]_vars

(* If from some time on no nonce is lost, every send of every task comes to  *)
(* an end.  A lost nonce is the only thing that can hold up the tasks: the  *)
(* code waits for receipts without a timeout.                               *)
SendsComplete ==
    <>[]~skipped => \A t \in Tasks : Active(t) ~> ~Active(t)
=============================================================================
