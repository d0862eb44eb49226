---------------------------- MODULE DepositLedger ----------------------------
(***************************************************************************)
(* What the deposit path promises, without streams, sweeps or nonce polling: *)
(* each event of the contract is answered on 1Money by at most one          *)
(* transaction, in the order of the events and without a gap, and the hash  *)
(* mapping comes to link an answered event and never forgets the link.      *)
(***************************************************************************)
EXTENDS Integers

CONSTANT MaxEvents

VARIABLES emitted,  \* how many events the contract has emitted
          answered, \* the numbers of the events that have their transaction
          linked    \* the numbers of those linked to it

Init == emitted = 0 /\ answered = {} /\ linked = {}

Emit ==
    /\ emitted' \in emitted..MaxEvents
    /\ UNCHANGED <<answered, linked>>

Answer(n) ==
    /\ n < emitted /\ n \notin answered
    /\ 0..n - 1 \subseteq answered
    /\ answered' = answered \cup {n}
    /\ UNCHANGED <<emitted, linked>>

LinkAnswer(n) ==
    /\ n \in answered
    /\ linked' = linked \cup {n}
    /\ UNCHANGED <<emitted, answered>>

Next == Emit \/ \E n \in 0..MaxEvents - 1 : Answer(n) \/ LinkAnswer(n)

Spec == Init /\ [][Next]_<<emitted, answered, linked>>
=============================================================================
