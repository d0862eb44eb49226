---------------------------- MODULE TxHashMapping ----------------------------
(***************************************************************************)
(* The hash mapping contract (solidity/src/TxHashMapping.sol): which         *)
(* transaction of one chain belongs to which of the other.                  *)
(*                                                                         *)
(* The contract keeps three tables of the same shape: deposits, withdrawals *)
(* and the refunds of withdrawals.  Each has the link of a source hash, a   *)
(* reverse table, an array of the sources without a link yet and, to delete *)
(* from that array in O(1), the position + 1 of each source in it.          *)
(***************************************************************************)
EXTENDS Integers, Sequences

CONSTANTS Owner, InitRelayer,
          Principals, \* accounts that may call the contract
          Hashes,     \* transaction hashes, sources and targets alike
          Zero        \* bytes32(0)

ASSUME MappingAssumption == {Owner, InitRelayer} \subseteq Principals /\ Zero \notin Hashes

Tables == {"deposit", "withdrawal", "refund"}

VARIABLES
    relayer,
    exists,          \* table -> sources registered in it
    link,            \* table -> source -> target, Zero when it has none yet
    reverse,         \* table -> target -> source
    incomplete,      \* table -> array of the sources without a target
    incompleteIndex  \* table -> source -> its position, 0 when it is not there

vars == <<relayer, exists, link, reverse, incomplete, incompleteIndex>>

TypeOK ==
    /\ relayer \in Principals
    /\ exists \in [Tables -> SUBSET Hashes]
    /\ link \in [Tables -> [Hashes -> Hashes \cup {Zero}]]
    /\ reverse \in [Tables -> [Hashes -> Hashes \cup {Zero}]]
    /\ incomplete \in [Tables -> Seq(Hashes)]
    /\ incompleteIndex \in [Tables -> [Hashes -> Nat]]

Init ==
    /\ relayer = InitRelayer
    /\ exists = [t \in Tables |-> {}]
    /\ link = [t \in Tables |-> [h \in Hashes |-> Zero]]
    /\ reverse = [t \in Tables |-> [h \in Hashes |-> Zero]]
    /\ incomplete = [t \in Tables |-> <<>>]
    /\ incompleteIndex = [t \in Tables |-> [h \in Hashes |-> 0]]

SetRelayer(sender, account) ==
    /\ sender = Owner
    /\ relayer' = account
    /\ UNCHANGED <<exists, link, reverse, incomplete, incompleteIndex>>

-----------------------------------------------------------------------------
(* Registration: a withdrawal waits for two links, its own and its refund's. *)

Pushed(list, index, h) == IF index[h] = 0 THEN Append(list, h) ELSE list

PushedIndex(list, index, h) ==
    IF index[h] = 0 THEN [index EXCEPT ![h] = Len(list) + 1] ELSE index

Register(sender, tables, h) ==
    /\ sender = relayer
    /\ \A t \in tables : h \notin exists[t]
    /\ exists' = [t \in Tables |->
           IF t \in tables THEN exists[t] \cup {h} ELSE exists[t]]
    /\ incomplete' = [t \in Tables |->
           IF t \in tables THEN Pushed(incomplete[t], incompleteIndex[t], h)
           ELSE incomplete[t]]
    /\ incompleteIndex' = [t \in Tables |->
           IF t \in tables THEN PushedIndex(incomplete[t], incompleteIndex[t], h)
           ELSE incompleteIndex[t]]
    /\ UNCHANGED <<relayer, link, reverse>>

RegisterDeposit(sender, h)    == Register(sender, {"deposit"}, h)
RegisterWithdrawal(sender, h) == Register(sender, {"withdrawal", "refund"}, h)

-----------------------------------------------------------------------------
(* Linking: the source leaves the array, whose last element takes its place. *)

Popped(list, index, h) ==
    IF index[h] = 0 THEN list
    ELSE [i \in 1..Len(list) - 1 |-> IF i = index[h] THEN list[Len(list)] ELSE list[i]]

(* Fault: the moved element keeps its old position.                          *)
PoppedIndexForgetsMoved(list, index, h) == [index EXCEPT ![h] = 0]

PoppedIndex(list, index, h) ==
    IF index[h] = 0 THEN index
    ELSE [[index EXCEPT ![list[Len(list)]] = index[h]] EXCEPT ![h] = 0]

(* Fault: a source is linked that was never registered (UnsetHash).          *)
LinkUnregistered(sender, t, source, target) ==
    /\ sender = relayer
    /\ link[t][source] = Zero
    /\ link' = [link EXCEPT ![t][source] = target]
    /\ reverse' = [reverse EXCEPT ![t][target] = source]
    /\ incomplete' = [incomplete EXCEPT ![t] = Popped(@, incompleteIndex[t], source)]
    /\ incompleteIndex' = [incompleteIndex EXCEPT ![t] =
                              PoppedIndex(incomplete[t], @, source)]
    /\ UNCHANGED <<relayer, exists>>

(* Fault: a linked source is linked again (AlreadyLinked).                   *)
LinkAgain(sender, t, source, target) ==
    /\ sender = relayer
    /\ source \in exists[t]
    /\ link' = [link EXCEPT ![t][source] = target]
    /\ reverse' = [reverse EXCEPT ![t][target] = source]
    /\ incomplete' = [incomplete EXCEPT ![t] = Popped(@, incompleteIndex[t], source)]
    /\ incompleteIndex' = [incompleteIndex EXCEPT ![t] =
                              PoppedIndex(incomplete[t], @, source)]
    /\ UNCHANGED <<relayer, exists>>

Link(sender, t, source, target) ==
    /\ sender = relayer
    /\ source \in exists[t]
    /\ link[t][source] = Zero
    /\ link' = [link EXCEPT ![t][source] = target]
    /\ reverse' = [reverse EXCEPT ![t][target] = source]
    /\ incomplete' = [incomplete EXCEPT ![t] = Popped(@, incompleteIndex[t], source)]
    /\ incompleteIndex' = [incompleteIndex EXCEPT ![t] =
                              PoppedIndex(incomplete[t], @, source)]
    /\ UNCHANGED <<relayer, exists>>

(* Fault: deposits do not look at the reverse table (ReverseAlreadyLinked).  *)
LinkDepositUnchecked(sender, source, target) == Link(sender, "deposit", source, target)

(* Only deposits refuse a target that another source is linked to.           *)
LinkDepositHashes(sender, source, target) ==
    /\ reverse["deposit"][target] \in {Zero, source}
    /\ Link(sender, "deposit", source, target)

LinkWithdrawalHashes(sender, source, target) ==
    Link(sender, "withdrawal", source, target)

LinkRefundHashes(sender, source, target) == Link(sender, "refund", source, target)

-----------------------------------------------------------------------------
Registrations(sender) ==
    \E h \in Hashes : RegisterDeposit(sender, h) \/ RegisterWithdrawal(sender, h)

Links(sender) ==
    \E source, target \in Hashes :
        \/ LinkDepositHashes(sender, source, target)
        \/ LinkWithdrawalHashes(sender, source, target)
        \/ LinkRefundHashes(sender, source, target)

Next ==
    \E sender \in Principals :
        \/ \E account \in Principals : SetRelayer(sender, account)
        \/ Registrations(sender)
        \/ Links(sender)

Spec == Init /\ [][Next]_vars

-----------------------------------------------------------------------------
(* Properties, whatever the relayer registers and links, in any order.       *)

Matches(list, index) ==
    /\ \A h \in Hashes : index[h] # 0 => index[h] <= Len(list) /\ list[index[h]] = h
    /\ \A i \in 1..Len(list) : index[list[i]] = i

Elements(list) == {list[i] : i \in 1..Len(list)}

(* The array and its positions agree: every source that has a position is    *)
(* the element there and every element knows its own position, so that a    *)
(* later swap-and-pop removes the right element.                            *)
IndexMatchesArray == \A t \in Tables : Matches(incomplete[t], incompleteIndex[t])

(* What the relayer's recovery asks for after a crash is what is missing:    *)
(* the arrays list exactly the registered sources that have no link.        *)
ArrayListsUnlinked ==
    \A t \in Tables :
        Elements(incomplete[t]) = {h \in exists[t] : link[t][h] = Zero}

(* Walking back from a target and forth again ends at the target; a deposit  *)
(* target is never shared, and no later link takes a deposit's target away. *)
ReverseIsLinked ==
    /\ \A t \in Tables : \A target \in Hashes :
           reverse[t][target] # Zero => link[t][reverse[t][target]] = target
    /\ \A h \in Hashes : link["deposit"][h] # Zero =>
           reverse["deposit"][link["deposit"][h]] = h

(* A link once made is never changed, and its source never registers again.  *)
LinksAreFinal ==
    [][\A t \in Tables : \A h \in Hashes :
           /\ link[t][h] # Zero => link'[t][h] = link[t][h]
           /\ link[t][h] # Zero => incompleteIndex'[t][h] = 0]_vars
=============================================================================
