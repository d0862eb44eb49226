------------------------- MODULE RelayerNonceProofs -------------------------
(***************************************************************************)
(* The shared nonce, for any number of tasks, nonces and faults.             *)
(*                                                                         *)
(* NoncesGapless and NoncesDistinct need each other: that fetch_sub takes   *)
(* back exactly the failed task's nonce follows from the other tasks having *)
(* other nonces below the counter, and that a new nonce is a fresh one from *)
(* all of them being below it.  The counter never falls below zero because  *)
(* it is at least the number of tasks that hold a nonce they have not sent. *)
(***************************************************************************)
EXTENDS RelayerNonce, FiniteSetTheorems, TLAPS

Counted == running => Cardinality(Senders) <= relayerNonce

StoppedIsIdle == ~running => sending = [t \in Tasks |-> NoSend]

NonceInv == TypeOK /\ StoppedIsIdle /\ Counted /\ NoncesGapless /\ NoncesDistinct

SendType == [state : {"idle", "send", "wait", "lost"}, kind : Kinds, nonce : Nat]

LEMMA NoSendType == NoSend \in SendType /\ NoSend.state = "idle"
BY DEF NoSend, SendType, Kinds

LEMMA SendersFinite ==
    /\ IsFiniteSet(Senders) /\ Cardinality(Senders) \in Nat
    /\ IsFiniteSet(Senders') /\ Cardinality(Senders') \in Nat
<1>1. Senders \subseteq Tasks /\ Senders' \subseteq Tasks /\ IsFiniteSet(Tasks)
  BY NonceAssumption DEF Senders, NonceAssumption
<1> QED
  BY <1>1, FS_Subset, FS_CardinalityType

(* Fewer senders and the same counter.                                      *)
LEMMA FewerSenders ==
    ASSUME Counted, Senders' \subseteq Senders, UNCHANGED <<running, relayerNonce>>,
           relayerNonce \in Nat
    PROVE  Counted'
<1>1. Cardinality(Senders') <= Cardinality(Senders)
  BY SendersFinite, FS_Subset
<1> QED
  BY <1>1, SendersFinite DEF Counted

(* A process that has ended has no counter and no sends.                    *)
LEMMA ExitInv ==
    ASSUME Exit, TypeOK, accountNonce' \in Nat, mempool' \subseteq Nat,
           faults' \in 0..MaxFaults
    PROVE  NonceInv'
<1>1. TypeOK'
  BY NoSendType DEF Exit, TypeOK, SendType
<1> QED
  BY <1>1 DEF Exit, NonceInv, StoppedIsIdle, Counted, NoncesGapless, NoncesDistinct

(* A task that stops holding its nonce n disturbs nothing when n is executed, *)
(* pending or recorded as lost.                                             *)
LEMMA ReleaseInv ==
    ASSUME NonceInv, NEW t \in Tasks, running, Becomes(t, "idle"),
           UNCHANGED <<running, relayerNonce, accountNonce>>,
           mempool' \subseteq Nat, mempool \subseteq mempool', faults' \in 0..MaxFaults,
           skipped' \in BOOLEAN, skipped => skipped',
           \/ skipped'
           \/ sending[t].state # "send"
           \/ sending[t].nonce < accountNonce
           \/ sending[t].nonce \in mempool'
    PROVE  NonceInv'
<1> USE DEF NonceInv
<1>1. sending' = [sending EXCEPT ![t] = NoSend]
  BY DEF Becomes
<1>2. sending \in [Tasks -> SendType] /\ sending' \in [Tasks -> SendType]
  BY <1>1, NoSendType DEF TypeOK, SendType
<1>3. /\ sending'[t].state = "idle"
      /\ \A u \in Tasks \ {t} : sending'[u] = sending[u]
  BY <1>1, <1>2, NoSendType
<1>4. TypeOK'
  BY <1>2 DEF TypeOK, SendType
<1>5. StoppedIsIdle'
  BY DEF StoppedIsIdle
<1>6. Counted'
  <2>1. Senders' \subseteq Senders
    BY <1>3 DEF Senders
  <2> QED
    BY <2>1, FewerSenders DEF TypeOK
<1>7. NoncesGapless'
  <2> SUFFICES ASSUME ~skipped', NEW n \in accountNonce..relayerNonce - 1
               PROVE  n \in mempool' \/ \E u \in Tasks : Holds(u, n)'
    BY DEF NoncesGapless
  <2>1. n \in mempool \/ \E u \in Tasks : Holds(u, n)
    BY DEF NoncesGapless
  <2>2. CASE n \in mempool
    BY <2>2
  <2>3. CASE \E u \in Tasks : Holds(u, n)
    <3>1. PICK u \in Tasks : Holds(u, n)
      BY <2>3
    <3>2. CASE u = t
      <4>1. sending[t].nonce = n /\ sending[t].state = "send"
        BY <3>1, <3>2 DEF Holds
      <4>2. n >= accountNonce
        BY DEF TypeOK
      <4> QED
        BY <4>1, <4>2 DEF TypeOK
    <3>3. CASE u # t
      BY <3>1, <3>3, <1>3 DEF Holds
    <3> QED
      BY <3>2, <3>3
  <2> QED
    BY <2>1, <2>2, <2>3
<1>8. NoncesDistinct'
  BY <1>3 DEF NoncesDistinct, Active
<1> QED
  BY <1>4, <1>5, <1>6, <1>7, <1>8

LEMMA InitInv == Init => NonceInv
<1> SUFFICES ASSUME Init
             PROVE  NonceInv
  OBVIOUS
<1>1. sending \in [Tasks -> SendType]
  BY NoSendType DEF Init
<1>2. faults \in 0..MaxFaults
  BY NonceAssumption DEF Init, NonceAssumption
<1>3. TypeOK
  BY <1>1, <1>2 DEF Init, TypeOK, SendType
<1> QED
  BY <1>3 DEF Init, NonceInv, StoppedIsIdle, Counted, NoncesGapless, NoncesDistinct

LEMMA StartInv ==
    ASSUME NonceInv, Start
    PROVE  NonceInv'
<1> USE DEF NonceInv, Start
<1>1. TypeOK'
  BY DEF TypeOK
<1>2. \A t \in Tasks : sending'[t] = NoSend
  BY DEF StoppedIsIdle
<1>3. Counted'
  <2>1. Senders' = {}
    BY <1>2, NoSendType DEF Senders
  <2> QED
    BY <2>1, FS_EmptySet DEF Counted, TypeOK
<1>4. NoncesGapless'
  <2>1. accountNonce'..relayerNonce' - 1 = {}
    BY DEF TypeOK
  <2> QED
    BY <2>1 DEF NoncesGapless
<1> QED
  BY <1>1, <1>2, <1>3, <1>4, NoSendType DEF StoppedIsIdle, NoncesDistinct, Active

LEMMA TakeInv ==
    ASSUME NonceInv, NEW t \in Tasks, NEW kind \in KindsOf(t), Take(t, kind)
    PROVE  NonceInv'
<1> USE DEF NonceInv, Take
<1> DEFINE new == [state |-> "send", kind |-> kind, nonce |-> relayerNonce]
<1>1. new \in SendType /\ new.state = "send" /\ new.nonce = relayerNonce
  BY DEF SendType, KindsOf, Kinds, TypeOK
<1>2. sending \in [Tasks -> SendType] /\ sending' = [sending EXCEPT ![t] = new]
  BY DEF TypeOK, SendType
<1> HIDE DEF new
<1>3. /\ sending' \in [Tasks -> SendType] /\ sending'[t] = new
      /\ \A u \in Tasks \ {t} : sending'[u] = sending[u]
  BY <1>1, <1>2
<1>4. TypeOK'
  BY <1>3 DEF TypeOK, SendType
<1>5. Counted'
  <2>1. Senders' \subseteq Senders \cup {t}
    BY <1>3 DEF Senders
  <2>2. IsFiniteSet(Senders \cup {t})
        /\ Cardinality(Senders \cup {t}) <= Cardinality(Senders) + 1
    <3>1. /\ IsFiniteSet(Senders \cup {t})
          /\ Cardinality(Senders \cup {t}) =
                 IF t \in Senders THEN Cardinality(Senders) ELSE Cardinality(Senders) + 1
      BY SendersFinite, FS_AddElement
    <3> QED
      BY <3>1, SendersFinite
  <2>3. Cardinality(Senders') <= Cardinality(Senders \cup {t})
        /\ Cardinality(Senders \cup {t}) \in Nat
    BY <2>1, <2>2, FS_Subset, FS_CardinalityType
  <2> QED
    BY <2>2, <2>3, SendersFinite DEF Counted, TypeOK
<1>6. NoncesGapless'
  <2> SUFFICES ASSUME ~skipped', NEW n \in accountNonce..relayerNonce' - 1
               PROVE  n \in mempool' \/ \E u \in Tasks : Holds(u, n)'
    BY DEF NoncesGapless
  <2>1. CASE n = relayerNonce
    BY <2>1, <1>1, <1>3 DEF Holds
  <2>2. CASE n # relayerNonce
    <3>1. n \in accountNonce..relayerNonce - 1
      BY <2>2 DEF TypeOK
    <3>2. n \in mempool \/ \E u \in Tasks : Holds(u, n)
      BY <3>1 DEF NoncesGapless
    <3>3. ASSUME NEW u \in Tasks, Holds(u, n)
          PROVE  Holds(u, n)'
      BY <3>3, <1>3, u # t DEF Holds, Active
    <3> QED
      BY <3>2, <3>3
  <2> QED
    BY <2>1, <2>2
<1>7. NoncesDistinct'
  <2> SUFFICES ASSUME ~skipped, NEW v \in Tasks, Active(v)'
               PROVE  /\ sending'[v].nonce < relayerNonce'
                      /\ sending'[v].state # "lost"
                      /\ \A u \in Tasks \ {v} :
                             Active(u)' => sending'[v].nonce # sending'[u].nonce
    BY DEF NoncesDistinct
  <2>1. \A u \in Tasks \ {t} : Active(u)' =>
            /\ Active(u) /\ sending'[u].nonce < relayerNonce
            /\ sending'[u].state # "lost"
            /\ \A w \in Tasks \ {u, t} :
                   Active(w) => sending[u].nonce # sending[w].nonce
    BY <1>3 DEF NoncesDistinct, Active
  <2>2. relayerNonce < relayerNonce' /\ relayerNonce \in Nat
    BY DEF TypeOK
  <2>3. \A u \in Tasks : sending'[u].nonce \in Nat
    BY <1>3 DEF SendType
  <2>4. CASE v = t
    BY <2>1, <2>2, <2>3, <2>4, <1>1, <1>3
  <2>5. CASE v # t
    <3>1. \A u \in Tasks \ {v} : Active(u)' => sending'[v].nonce # sending'[u].nonce
      BY <2>1, <2>3, <2>5, <1>1, <1>3 DEF Active
    <3> QED
      BY <2>1, <2>2, <2>3, <2>5, <3>1
  <2> QED
    BY <2>4, <2>5
<1> QED
  BY <1>4, <1>5, <1>6, <1>7 DEF StoppedIsIdle

LEMMA AcceptInv ==
    ASSUME NonceInv, NEW t \in Tasks, Accept(t)
    PROVE  NonceInv'
<1> USE DEF NonceInv, Accept
<1> DEFINE n == sending[t].nonce
<1>1. sending \in [Tasks -> SendType] /\ n \in Nat
  BY DEF TypeOK, SendType
<1>2. sending' \in [Tasks -> SendType]
  BY <1>1 DEF SendType
<1>3. running
  BY NoSendType DEF StoppedIsIdle
<1>4. /\ sending'[t].state = "wait" /\ sending'[t].nonce = n
      /\ \A u \in Tasks \ {t} :
             /\ sending'[u].nonce = sending[u].nonce
             /\ sending'[u] = sending[u]
                \/ /\ sending[u].state = "wait" /\ sending[u].nonce = n
                   /\ sending'[u].state = "lost"
  BY <1>1 DEF SendType
<1>5. TypeOK'
  BY <1>1, <1>2 DEF TypeOK, SendType
<1>6. Counted'
  <2>1. Senders' \subseteq Senders
    BY <1>4 DEF Senders
  <2> QED
    BY <2>1, FewerSenders DEF TypeOK
<1>7. NoncesGapless'
  <2> SUFFICES ASSUME ~skipped, NEW m \in accountNonce..relayerNonce - 1
               PROVE  m \in mempool' \/ \E u \in Tasks : Holds(u, m)'
    BY DEF NoncesGapless
  <2>1. m \in mempool \/ \E u \in Tasks : Holds(u, m)
    BY <1>3 DEF NoncesGapless
  <2>2. ASSUME NEW u \in Tasks, Holds(u, m)
        PROVE  m \in mempool' \/ Holds(u, m)'
    BY <2>2, <1>4 DEF Holds
  <2> QED
    BY <2>1, <2>2
<1>8. NoncesDistinct'
  <2> SUFFICES ASSUME ~skipped
               PROVE  NoncesDistinct'
    BY DEF NoncesDistinct
  <2>1. \A u \in Tasks \ {t} : sending'[u] = sending[u]
    BY <1>3, <1>4 DEF NoncesDistinct, Active
  <2> QED
    BY <2>1, <1>3, <1>4 DEF NoncesDistinct, Active
<1> QED
  BY <1>3, <1>5, <1>6, <1>7, <1>8 DEF StoppedIsIdle

(* Only a running process sends.                                            *)
LEMMA ActiveRuns ==
    ASSUME StoppedIsIdle, NEW t \in Tasks, Active(t)
    PROVE  running
BY NoSendType DEF StoppedIsIdle, Active

LEMMA RefuseInv ==
    ASSUME NonceInv, NEW t \in Tasks, Refuse(t)
    PROVE  NonceInv'
<1>1. TypeOK /\ running
  BY ActiveRuns DEF NonceInv, Refuse, Active
<1>2. CASE sending[t].kind = "validators"
  <2>1. Becomes(t, "idle") /\ UNCHANGED <<running, relayerNonce, skipped>>
    BY <1>1, <1>2 DEF Refuse, Errs, TypeOK
  <2> QED
    BY <1>1, <2>1, ReleaseInv DEF Refuse, TypeOK
<1>3. CASE sending[t].kind # "validators"
  BY <1>1, <1>3, ExitInv DEF Refuse, Errs, TypeOK
<1> QED
  BY <1>2, <1>3

LEMMA RpcFailsInv ==
    ASSUME NonceInv, NEW t \in Tasks, NEW arrived \in BOOLEAN, RpcFails(t, arrived)
    PROVE  NonceInv'
<1>1. TypeOK /\ running /\ sending[t].nonce \in Nat
  BY ActiveRuns DEF NonceInv, RpcFails, Active, TypeOK
<1>2. /\ faults' \in 0..MaxFaults /\ accountNonce' = accountNonce
      /\ mempool' \subseteq Nat /\ mempool \subseteq mempool'
      /\ arrived => sending[t].nonce \in mempool'
  <2>1. faults' \in 0..MaxFaults
    BY <1>1, NonceAssumption DEF RpcFails, Fault, TypeOK, NonceAssumption
  <2>2. mempool' = IF arrived THEN mempool \cup {sending[t].nonce} ELSE mempool
    BY DEF RpcFails
  <2> QED
    BY <1>1, <2>1, <2>2 DEF RpcFails, TypeOK
<1>3. CASE sending[t].kind = "validators"
  <2>1. /\ Becomes(t, "idle") /\ UNCHANGED <<running, relayerNonce>>
        /\ skipped' = (skipped \/ ~arrived)
    BY <1>3 DEF RpcFails, Errs
  <2>2. skipped' \in BOOLEAN /\ (skipped => skipped')
        /\ (skipped' \/ sending[t].nonce \in mempool')
    BY <1>1, <1>2, <2>1 DEF TypeOK
  <2> QED
    BY <1>1, <1>2, <2>1, <2>2, ReleaseInv
<1>4. CASE sending[t].kind # "validators"
  <2>1. Exit
    BY <1>4 DEF RpcFails, Errs
  <2> QED
    BY <1>1, <1>2, <2>1, ExitInv DEF TypeOK
<1> QED
  BY <1>3, <1>4

LEMMA ReceiptFailsInv ==
    ASSUME NonceInv, NEW t \in Tasks, ReceiptFails(t)
    PROVE  NonceInv'
<1>1. TypeOK /\ running
  BY ActiveRuns DEF NonceInv, ReceiptFails, Active
<1>2. faults' \in 0..MaxFaults
  BY <1>1, NonceAssumption DEF ReceiptFails, Fault, TypeOK, NonceAssumption
<1>3. CASE sending[t].kind = "call"
  BY <1>1, <1>2, <1>3, ExitInv DEF ReceiptFails, TypeOK
<1>4. CASE sending[t].kind # "call"
  <2>1. /\ Becomes(t, "idle") /\ sending[t].state # "send"
        /\ UNCHANGED <<running, relayerNonce, skipped, accountNonce, mempool>>
    BY <1>4 DEF ReceiptFails
  <2> QED
    BY <1>1, <1>2, <2>1, ReleaseInv DEF TypeOK
<1> QED
  BY <1>3, <1>4

LEMMA ExecuteInv ==
    ASSUME NonceInv, Execute
    PROVE  NonceInv'
<1> USE DEF NonceInv, Execute
<1>1. sending \in [Tasks -> SendType] /\ sending' \in [Tasks -> SendType]
  BY NoSendType DEF TypeOK, SendType
<1>2. \A u \in Tasks :
          \/ sending'[u] = sending[u]
          \/ sending[u].state = "wait" /\ sending'[u] = NoSend
  OBVIOUS
<1>3. TypeOK'
  BY <1>1 DEF TypeOK, SendType
<1>4. StoppedIsIdle'
  BY <1>2, NoSendType DEF StoppedIsIdle
<1>5. Counted'
  <2>1. Senders' \subseteq Senders
    BY <1>2, NoSendType DEF Senders
  <2> QED
    BY <2>1, FewerSenders DEF TypeOK
<1>6. NoncesGapless'
  <2> SUFFICES ASSUME running, ~skipped, NEW m \in accountNonce'..relayerNonce - 1
               PROVE  m \in mempool' \/ \E u \in Tasks : Holds(u, m)'
    BY DEF NoncesGapless
  <2>1. m \in accountNonce..relayerNonce - 1 /\ m # accountNonce
    BY DEF TypeOK
  <2>2. m \in mempool \/ \E u \in Tasks : Holds(u, m)
    BY <2>1 DEF NoncesGapless
  <2>3. ASSUME NEW u \in Tasks, Holds(u, m)
        PROVE  Holds(u, m)'
    BY <2>3, <1>2 DEF Holds
  <2> QED
    BY <2>1, <2>2, <2>3
<1>7. NoncesDistinct'
  BY <1>2, NoSendType DEF NoncesDistinct, Active
<1> QED
  BY <1>3, <1>4, <1>5, <1>6, <1>7

(* A call of the hash mapping that reverts: its task is one of those that the *)
(* counter counts, and if no other took a nonce since, the counter is back  *)
(* where it was before.                                                     *)
LEMMA GivenBackInv ==
    ASSUME NonceInv, NEW t \in Tasks, sending[t].state = "send", running,
           Becomes(t, "idle"), relayerNonce' = relayerNonce - 1,
           skipped' = (skipped \/ relayerNonce # sending[t].nonce + 1),
           UNCHANGED <<running, accountNonce, mempool, faults>>
    PROVE  NonceInv'
<1> USE DEF NonceInv
<1> DEFINE n == sending[t].nonce
<1>1. sending' = [sending EXCEPT ![t] = NoSend]
  BY DEF Becomes
<1>2. sending \in [Tasks -> SendType] /\ sending' \in [Tasks -> SendType] /\ n \in Nat
  BY <1>1, NoSendType DEF TypeOK, SendType
<1>3. sending'[t] = NoSend /\ \A u \in Tasks \ {t} : sending'[u] = sending[u]
  BY <1>1, <1>2
<1>4. Cardinality(Senders') = Cardinality(Senders) - 1
  <2>1. Senders' = Senders \ {t} /\ t \in Senders
    BY <1>3, NoSendType DEF Senders
  <2> QED
    BY <2>1, SendersFinite, FS_RemoveElement
<1>5. relayerNonce' \in Nat /\ Counted'
  BY <1>4, SendersFinite DEF Counted, TypeOK
<1>6. TypeOK'
  BY <1>2, <1>5 DEF TypeOK, SendType
<1>7. NoncesGapless'
  <2> SUFFICES ASSUME ~skipped', NEW m \in accountNonce..relayerNonce' - 1
               PROVE  m \in mempool \/ \E u \in Tasks : Holds(u, m)'
    BY DEF NoncesGapless
  <2>0. /\ relayerNonce = n + 1 /\ n \in Nat /\ accountNonce \in Nat
        /\ m \in accountNonce..relayerNonce - 1 - 1
    BY <1>2 DEF TypeOK
  <2>1. m \in accountNonce..relayerNonce - 1 /\ m # n
    BY <2>0
  <2>2. m \in mempool \/ \E u \in Tasks : Holds(u, m)
    BY <2>1 DEF NoncesGapless
  <2>3. ASSUME NEW u \in Tasks, Holds(u, m)
        PROVE  Holds(u, m)'
    BY <2>1, <2>3, <1>3 DEF Holds
  <2> QED
    BY <2>2, <2>3
<1>8. NoncesDistinct'
  <2> SUFFICES ASSUME ~skipped', NEW v \in Tasks, Active(v)'
               PROVE  /\ sending'[v].nonce < relayerNonce'
                      /\ sending'[v].state # "lost"
                      /\ \A u \in Tasks \ {v} :
                             Active(u)' => sending'[v].nonce # sending'[u].nonce
    BY DEF NoncesDistinct
  <2>1. v # t /\ Active(v)
    BY <1>3, NoSendType DEF Active
  <2>2. /\ sending[v].nonce < relayerNonce /\ sending[v].state # "lost"
        /\ sending[v].nonce # n
        /\ \A u \in Tasks \ {v} : Active(u) => sending[v].nonce # sending[u].nonce
    BY <2>1 DEF NoncesDistinct, Active
  <2>3. sending[v].nonce \in Nat /\ relayerNonce = n + 1
    BY <1>2 DEF SendType
  <2>4. sending[v].nonce < relayerNonce'
    BY <2>2, <2>3, <1>2
  <2> QED
    BY <2>1, <2>2, <2>4, <1>3, NoSendType DEF Active
<1> QED
  BY <1>5, <1>6, <1>7, <1>8 DEF StoppedIsIdle

LEMMA RevertInv ==
    ASSUME NonceInv, NEW t \in Tasks, Revert(t)
    PROVE  NonceInv'
<1>1. TypeOK /\ running /\ sending[t].kind \in Kinds
  BY ActiveRuns DEF NonceInv, Revert, Active, TypeOK
<1>2. CASE sending[t].kind = "call"
  BY <1>1, <1>2, ExitInv DEF Revert, TypeOK
<1>3. CASE sending[t].kind = "validators"
  <2>1. /\ Becomes(t, "idle") /\ skipped' = TRUE
        /\ UNCHANGED <<running, relayerNonce, accountNonce, mempool, faults>>
    BY <1>1, <1>3 DEF Revert, TypeOK
  <2> QED
    BY <1>1, <2>1, ReleaseInv DEF TypeOK
<1>4. CASE sending[t].kind = "hash"
  <2>1. /\ sending[t].state = "send" /\ Becomes(t, "idle")
        /\ relayerNonce' = relayerNonce - 1
        /\ skipped' = (skipped \/ relayerNonce # sending[t].nonce + 1)
        /\ UNCHANGED <<running, accountNonce, mempool, faults>>
    BY <1>4 DEF Revert
  <2> QED
    BY <1>1, <2>1, GivenBackInv
<1> QED
  BY <1>1, <1>2, <1>3, <1>4 DEF Kinds

LEMMA NextInv == NonceInv /\ [Next]_vars => NonceInv'
<1> SUFFICES ASSUME NonceInv, [Next]_vars
             PROVE  NonceInv'
  OBVIOUS
<1>1. CASE Start
  BY <1>1, StartInv
<1>2. CASE Crash
  BY <1>2, ExitInv, NonceAssumption
     DEF Crash, Fault, NonceInv, TypeOK, NonceAssumption
<1>2a. CASE QueryFails
  <2>1. faults' \in 0..MaxFaults
    BY <1>2a, NonceAssumption DEF QueryFails, Fault, NonceInv, TypeOK, NonceAssumption
  <2>2. UNCHANGED <<running, relayerNonce, sending, skipped, accountNonce, mempool>>
    BY <1>2a DEF QueryFails, counterVars
  <2> QED
    BY <2>1, <2>2 DEF NonceInv, TypeOK, StoppedIsIdle, Counted, Senders,
                      NoncesGapless, NoncesDistinct, Active, Holds
<1>3. ASSUME NEW n \in mempool, Forget(n)
      PROVE  NonceInv'
  <2>1. TypeOK' /\ ~running' /\ StoppedIsIdle'
    BY <1>3 DEF NonceInv, Forget, counterVars, TypeOK, StoppedIsIdle
  <2> QED
    BY <2>1 DEF NonceInv, Counted, NoncesGapless, NoncesDistinct
<1>4. ASSUME NEW t \in Tasks, NEW kind \in KindsOf(t), Take(t, kind)
      PROVE  NonceInv'
  BY <1>4, TakeInv
<1>5. ASSUME NEW t \in Tasks, Send(t)
      PROVE  NonceInv'
  BY <1>5, AcceptInv, RefuseInv, RevertInv DEF Send
<1>6. ASSUME NEW t \in Tasks, Fails(t)
      PROVE  NonceInv'
  BY <1>6, ReceiptFailsInv, RpcFailsInv DEF Fails
<1>7. CASE Execute
  BY <1>7, ExecuteInv
<1>8. CASE UNCHANGED vars
  BY <1>8 DEF vars, counterVars, NonceInv, TypeOK, StoppedIsIdle, Counted, Senders,
              NoncesGapless, NoncesDistinct, Active, Holds
<1> QED
  BY <1>1, <1>2, <1>2a, <1>3, <1>4, <1>5, <1>6, <1>7, <1>8 DEF Next

(* The counter never underflows, whatever fails in whatever order.          *)
THEOREM NonceTypeCorrect == Spec => []TypeOK
<1>1. NonceInv => TypeOK
  BY DEF NonceInv
<1> QED
  BY <1>1, InitInv, NextInv, PTL DEF Spec

(* Without a lost nonce the counter stays in step with the chain, for any    *)
(* number of tasks and any order of failures, crashes and leftovers.        *)
THEOREM CounterInStep == Spec => []NoncesGapless
<1>1. NonceInv => NoncesGapless
  BY DEF NonceInv
<1> QED
  BY <1>1, InitInv, NextInv, PTL DEF Spec

(* Without a lost nonce no two tasks ever send the same one.                *)
THEOREM NoncesNeverShared == Spec => []NoncesDistinct
<1>1. NonceInv => NoncesDistinct
  BY DEF NonceInv
<1> QED
  BY <1>1, InitInv, NextInv, PTL DEF Spec

-----------------------------------------------------------------------------
(* A gap is for good.  The counter can come down only by one for each task    *)
(* that holds a nonce, and a task that takes one takes it above the gap.     *)

(* No task holds another nonce than before, and at most one that did hold its *)
(* nonce has given it back.                                                 *)
LEMMA GapKept ==
    ASSUME TypeOK, TypeOK', Gap, running', UNCHANGED accountNonce,
           accountNonce \notin mempool',
           \A u \in Tasks : sending'[u].state = "send" => sending'[u] = sending[u],
           \/ relayerNonce' = relayerNonce
           \/ /\ relayerNonce' = relayerNonce - 1
              /\ \E t \in Senders : t \notin Senders'
    PROVE  Gap'
<1>1. Senders' \subseteq Senders
  BY DEF Senders
<1>2. \A t \in Tasks : ~Holds(t, accountNonce)'
  BY DEF Gap, Holds
<1>3. accountNonce \in Nat /\ relayerNonce \in Nat /\ relayerNonce' \in Nat
  BY DEF TypeOK
<1>4. accountNonce + Cardinality(Senders') < relayerNonce'
  <2>1. CASE relayerNonce' = relayerNonce
    <3>1. Cardinality(Senders') <= Cardinality(Senders)
      BY <1>1, SendersFinite, FS_Subset
    <3> QED
      BY <2>1, <3>1, <1>3, SendersFinite DEF Gap
  <2>2. ASSUME relayerNonce' = relayerNonce - 1,
               NEW t \in Senders, t \notin Senders'
        PROVE  accountNonce + Cardinality(Senders') < relayerNonce'
    <3>1. Senders' \subseteq Senders \ {t} /\ IsFiniteSet(Senders \ {t})
      BY <1>1, <2>2, SendersFinite, FS_RemoveElement
    <3>2. Cardinality(Senders') <= Cardinality(Senders \ {t})
      BY <3>1, FS_Subset
    <3>3. Cardinality(Senders \ {t}) = Cardinality(Senders) - 1
      BY <2>2, SendersFinite, FS_RemoveElement
    <3> QED
      BY <2>2, <3>2, <3>3, <1>3, SendersFinite DEF Gap
  <2> QED
    BY <2>1, <2>2
<1> QED
  BY <1>2, <1>4 DEF Gap

(* A nonce taken while there is a gap lies above it.                         *)
LEMMA GapTake ==
    ASSUME NonceInv, TypeOK', Gap, NEW t \in Tasks, NEW kind \in KindsOf(t), Take(t, kind)
    PROVE  Gap' /\ UNCHANGED accountNonce
<1>1. /\ sending \in [Tasks -> SendType] /\ accountNonce \in Nat /\ relayerNonce \in Nat
      /\ ~Active(t) /\ relayerNonce' = relayerNonce + 1
      /\ UNCHANGED <<running, accountNonce, mempool>>
  BY DEF NonceInv, TypeOK, SendType, Take
<1>2. /\ sending'[t].state = "send" /\ sending'[t].nonce = relayerNonce
      /\ \A u \in Tasks \ {t} : sending'[u] = sending[u]
  BY <1>1 DEF Take
<1>3. t \notin Senders /\ Senders' = Senders \cup {t}
  BY <1>1, <1>2 DEF Active, Senders
<1>4. Cardinality(Senders') = Cardinality(Senders) + 1
  BY <1>3, SendersFinite, FS_AddElement
<1>5. accountNonce < relayerNonce
  BY <1>1, SendersFinite DEF Gap
<1>6. \A u \in Tasks : ~Holds(u, accountNonce)'
  BY <1>1, <1>2, <1>5 DEF Gap, Holds
<1> QED
  BY <1>1, <1>4, <1>6, SendersFinite DEF Gap

(* What a task's send or failure does to the others.                         *)
LEMMA GapBecomesIdle ==
    ASSUME TypeOK, TypeOK', Gap, NEW t \in Tasks, Becomes(t, "idle"), running',
           UNCHANGED accountNonce, accountNonce \notin mempool',
           \/ relayerNonce' = relayerNonce
           \/ relayerNonce' = relayerNonce - 1 /\ sending[t].state = "send"
    PROVE  Gap'
<1>1. sending \in [Tasks -> SendType] /\ sending' = [sending EXCEPT ![t] = NoSend]
  BY DEF TypeOK, SendType, Becomes
<1>2. sending'[t].state = "idle" /\ \A u \in Tasks \ {t} : sending'[u] = sending[u]
  BY <1>1, NoSendType
<1>3. \A u \in Tasks : sending'[u].state = "send" => sending'[u] = sending[u]
  BY <1>2
<1>4. t \notin Senders' /\ (sending[t].state = "send" => t \in Senders)
  BY <1>2 DEF Senders
<1> QED
  BY <1>3, <1>4, GapKept

LEMMA GapAccept ==
    ASSUME TypeOK, TypeOK', Gap, NEW t \in Tasks, Accept(t)
    PROVE  Gap' /\ UNCHANGED accountNonce
<1>1. /\ sending[t].nonce # accountNonce
      /\ UNCHANGED <<running, relayerNonce, accountNonce>>
      /\ mempool' = mempool \cup {sending[t].nonce}
  BY DEF Accept, Gap, Holds
<1>2. sending \in [Tasks -> SendType]
  BY DEF TypeOK, SendType
<1>3. \A u \in Tasks : sending'[u].state = "send" => sending'[u] = sending[u]
  BY <1>2 DEF Accept, SendType
<1> QED
  BY <1>1, <1>3, GapKept DEF Gap

LEMMA GapErrs ==
    ASSUME TypeOK, TypeOK', Gap, NEW t \in Tasks, NEW lost \in BOOLEAN, Errs(t, lost),
           UNCHANGED accountNonce, accountNonce \notin mempool'
    PROVE  ~running' \/ Gap'
<1>1. CASE sending[t].kind = "validators"
  BY <1>1, GapBecomesIdle DEF Errs, Gap
<1>2. CASE sending[t].kind # "validators"
  BY <1>2 DEF Errs, Exit
<1> QED
  BY <1>1, <1>2

LEMMA GapStep ==
    ASSUME NonceInv, Gap, [Next]_vars
    PROVE  ~running' \/ (Gap' /\ UNCHANGED accountNonce)
<1>1. NonceInv'
  BY NextInv
<1>2. TypeOK /\ TypeOK' /\ running /\ accountNonce \notin mempool
  BY <1>1 DEF NonceInv, Gap
<1>3. CASE Start \/ Crash \/ Execute \/ \E n \in mempool : Forget(n)
  BY <1>2, <1>3 DEF Start, Crash, Exit, Execute, Forget
<1>4. CASE QueryFails \/ UNCHANGED vars
  <2>1. UNCHANGED <<running, relayerNonce, sending, accountNonce, mempool>>
    BY <1>4 DEF QueryFails, vars, counterVars
  <2> QED
    BY <2>1 DEF Gap, Holds, Senders
<1>5. ASSUME NEW t \in Tasks, NEW kind \in KindsOf(t), Take(t, kind)
      PROVE  Gap' /\ UNCHANGED accountNonce
  BY <1>2, <1>5, GapTake
<1>6. ASSUME NEW t \in Tasks, Accept(t)
      PROVE  Gap' /\ UNCHANGED accountNonce
  BY <1>2, <1>6, GapAccept
<1>7. ASSUME NEW t \in Tasks, Refuse(t)
      PROVE  ~running' \/ (Gap' /\ UNCHANGED accountNonce)
  <2>1. Errs(t, FALSE) /\ UNCHANGED <<accountNonce, mempool>>
    BY <1>7 DEF Refuse
  <2> QED
    BY <1>2, <2>1, GapErrs
<1>8. ASSUME NEW t \in Tasks, Revert(t)
      PROVE  ~running' \/ (Gap' /\ UNCHANGED accountNonce)
  <2>1. UNCHANGED <<accountNonce, mempool>> /\ sending[t].state = "send"
    BY <1>8 DEF Revert
  <2>2. CASE sending[t].kind = "call"
    BY <1>8, <2>2 DEF Revert, Exit
  <2>3. CASE sending[t].kind # "call"
    <3>1. /\ Becomes(t, "idle") /\ UNCHANGED running
          /\ relayerNonce' = relayerNonce \/ relayerNonce' = relayerNonce - 1
      BY <1>8, <2>3 DEF Revert
    <3> QED
      BY <1>2, <2>1, <3>1, GapBecomesIdle
  <2> QED
    BY <2>2, <2>3
<1>9. ASSUME NEW t \in Tasks, NEW arrived \in BOOLEAN, RpcFails(t, arrived)
      PROVE  ~running' \/ (Gap' /\ UNCHANGED accountNonce)
  <2>1. /\ Errs(t, ~arrived) /\ UNCHANGED accountNonce
        /\ accountNonce \notin mempool'
    BY <1>2, <1>9 DEF RpcFails, Gap, Holds
  <2> QED
    BY <1>2, <2>1, GapErrs
<1>10. ASSUME NEW t \in Tasks, ReceiptFails(t)
       PROVE  ~running' \/ (Gap' /\ UNCHANGED accountNonce)
  <2>1. UNCHANGED <<accountNonce, mempool>>
    BY <1>10 DEF ReceiptFails
  <2>2. CASE sending[t].kind = "call"
    BY <1>10, <2>2 DEF ReceiptFails, Exit
  <2>3. CASE sending[t].kind # "call"
    BY <1>2, <1>10, <2>1, <2>3, GapBecomesIdle DEF ReceiptFails
  <2> QED
    BY <2>2, <2>3
<1> QED
  BY <1>3, <1>4, <1>5, <1>6, <1>7, <1>8, <1>9, <1>10 DEF Next, Send, Fails

(* A lost nonce that leaves a gap holds up every later transaction of every   *)
(* task until the process ends: nothing the tasks do closes it, however many *)
(* they are and however their sends fail.                                   *)
THEOREM GapIsForGood == Spec => GapStaysOpen
<1>1. NonceInv /\ [Next]_vars
          => [Gap => ~running' \/ (Gap' /\ UNCHANGED accountNonce)]_vars
  BY GapStep
<1> QED
  BY <1>1, InitInv, NextInv, PTL DEF Spec, GapStaysOpen
=============================================================================
