------------------------- MODULE TxHashMappingProofs -------------------------
(***************************************************************************)
(* The arrays of the hash mapping contract stay consistent with their       *)
(* position tables and with the links, for any hashes and any relayer.      *)
(***************************************************************************)
EXTENDS TxHashMapping, TLAPS

(* A push keeps array and positions in agreement and adds the element.       *)
LEMMA PushKeepsMatch ==
    ASSUME NEW list \in Seq(Hashes), NEW index \in [Hashes -> Nat],
           NEW h \in Hashes, Matches(list, index), index[h] = 0
    PROVE  /\ Pushed(list, index, h) \in Seq(Hashes)
           /\ PushedIndex(list, index, h) \in [Hashes -> Nat]
           /\ Matches(Pushed(list, index, h), PushedIndex(list, index, h))
           /\ Elements(Pushed(list, index, h)) = Elements(list) \cup {h}
<1> DEFINE pushed == Append(list, h)
           moved == [index EXCEPT ![h] = Len(list) + 1]
<1>1. Pushed(list, index, h) = pushed /\ PushedIndex(list, index, h) = moved
  BY DEF Pushed, PushedIndex
<1>2. /\ Len(list) \in Nat
      /\ pushed \in Seq(Hashes) /\ Len(pushed) = Len(list) + 1
      /\ \A i \in 1..Len(list) : pushed[i] = list[i] /\ list[i] \in Hashes
      /\ pushed[Len(list) + 1] = h
  OBVIOUS
<1>3. /\ moved \in [Hashes -> Nat] /\ moved[h] = Len(list) + 1
      /\ \A g \in Hashes \ {h} : moved[g] = index[g]
  BY <1>2
<1> HIDE DEF pushed, moved
<1>4. \A g \in Hashes : moved[g] # 0 => moved[g] <= Len(pushed) /\ pushed[moved[g]] = g
  <2> SUFFICES ASSUME NEW g \in Hashes, moved[g] # 0
               PROVE  moved[g] <= Len(pushed) /\ pushed[moved[g]] = g
    OBVIOUS
  <2>1. CASE g = h
    BY <2>1, <1>2, <1>3
  <2>2. CASE g # h
    <3>1. index[g] # 0 /\ index[g] \in Nat
      BY <2>2, <1>3
    <3>2. index[g] \in 1..Len(list) /\ list[index[g]] = g
      BY <3>1, <1>2 DEF Matches
    <3> QED BY <3>2, <2>2, <1>2, <1>3
  <2> QED BY <2>1, <2>2
<1>5. \A i \in 1..Len(pushed) : moved[pushed[i]] = i
  <2> SUFFICES ASSUME NEW i \in 1..Len(pushed) PROVE moved[pushed[i]] = i
    OBVIOUS
  <2>1. CASE i = Len(list) + 1
    BY <2>1, <1>2, <1>3
  <2>2. CASE i \in 1..Len(list)
    <3>1. index[list[i]] = i /\ list[i] \in Hashes
      BY <2>2, <1>2 DEF Matches
    <3>2. list[i] # h
      BY <3>1, <2>2
    <3> QED BY <3>1, <3>2, <2>2, <1>2, <1>3
  <2> QED BY <2>1, <2>2, <1>2
<1>6. Elements(pushed) = Elements(list) \cup {h}
  <2>1. \A g \in Elements(list) \cup {h} : g \in Elements(pushed)
    <3>1. \A i \in 1..Len(list) + 1 : pushed[i] \in Elements(pushed)
      BY <1>2 DEF Elements
    <3>2. \A i \in 1..Len(list) : i \in 1..Len(list) + 1
      BY <1>2
    <3>3. Len(list) + 1 \in 1..Len(list) + 1
      BY <1>2
    <3>4. \A i \in 1..Len(list) : list[i] \in Elements(pushed)
      BY <3>1, <3>2, <1>2
    <3> QED BY <3>1, <3>3, <3>4, <1>2 DEF Elements
  <2>2. \A i \in 1..Len(pushed) : pushed[i] \in Elements(list) \cup {h}
    <3> SUFFICES ASSUME NEW i \in 1..Len(pushed)
                 PROVE  pushed[i] \in Elements(list) \cup {h}
      OBVIOUS
    <3>1. CASE i = Len(list) + 1
      BY <3>1, <1>2
    <3>2. CASE i \in 1..Len(list)
      BY <3>2, <1>2 DEF Elements
    <3> QED BY <3>1, <3>2, <1>2
  <2>3. \A g \in Elements(pushed) : g \in Elements(list) \cup {h}
    BY <2>2 DEF Elements
  <2> QED BY <2>1, <2>3
<1> QED BY <1>1, <1>2, <1>3, <1>4, <1>5, <1>6 DEF Matches

(* A swap-and-pop keeps array and positions in agreement and removes exactly *)
(* the element asked for, wherever it stands, the last place included.      *)
LEMMA PopKeepsMatch ==
    ASSUME NEW list \in Seq(Hashes), NEW index \in [Hashes -> Nat],
           NEW h \in Hashes, Matches(list, index), index[h] # 0
    PROVE  /\ Popped(list, index, h) \in Seq(Hashes)
           /\ PoppedIndex(list, index, h) \in [Hashes -> Nat]
           /\ PoppedIndex(list, index, h)[h] = 0
           /\ \A g \in Hashes : index[g] = 0 => PoppedIndex(list, index, h)[g] = 0
           /\ Matches(Popped(list, index, h), PoppedIndex(list, index, h))
           /\ Elements(Popped(list, index, h)) = Elements(list) \ {h}
<1> DEFINE slot == index[h]
           n == Len(list)
           last == list[n]
           popped == [i \in 1..n - 1 |-> IF i = slot THEN last ELSE list[i]]
           moved == [[index EXCEPT ![last] = slot] EXCEPT ![h] = 0]
<1>1. Popped(list, index, h) = popped /\ PoppedIndex(list, index, h) = moved
  BY DEF Popped, PoppedIndex
<1>2. slot \in Nat /\ n \in Nat /\ slot \in 1..n /\ list[slot] = h
  BY DEF Matches
<1>3. n \in 1..n /\ last \in Hashes /\ index[last] = n
  BY <1>2 DEF Matches
<1>4. \A i \in 1..n : list[i] \in Hashes /\ index[list[i]] = i
  BY DEF Matches
<1>5. \A g \in Hashes : index[g] # 0 => index[g] \in 1..n /\ list[index[g]] = g
  BY <1>2 DEF Matches
<1>6. /\ popped \in Seq(Hashes) /\ Len(popped) = n - 1
      /\ \A i \in 1..n - 1 : popped[i] = IF i = slot THEN last ELSE list[i]
  <2>1. n - 1 \in Nat /\ popped \in [1..n - 1 -> Hashes]
    BY <1>2, <1>3, <1>4
  <2>2. popped \in Seq(Hashes) /\ Len(popped) = n - 1
    BY <2>1
  <2> QED BY <2>2
<1>7. /\ moved \in [Hashes -> Nat] /\ moved[h] = 0
      /\ last # h => moved[last] = slot
      /\ \A g \in Hashes : g # h /\ g # last => moved[g] = index[g]
  BY <1>2, <1>3
<1>8. last = h <=> slot = n
  BY <1>2, <1>3
<1> HIDE DEF slot, n, last, popped, moved
<1>9. \A g \in Hashes : index[g] = 0 => moved[g] = 0
  BY <1>2, <1>3, <1>7
<1>10. \A g \in Hashes : moved[g] # 0 => moved[g] <= Len(popped) /\ popped[moved[g]] = g
  <2> SUFFICES ASSUME NEW g \in Hashes, moved[g] # 0
               PROVE  moved[g] <= n - 1 /\ popped[moved[g]] = g
    BY <1>6
  <2>0. g # h
    BY <1>7
  <2>1. CASE g = last
    <3>1. moved[g] = slot /\ slot # n
      BY <2>0, <2>1, <1>7, <1>8
    <3>2. slot \in 1..n - 1
      BY <3>1, <1>2
    <3> QED BY <3>1, <3>2, <2>1, <1>6
  <2>2. CASE g # last
    <3>1. moved[g] = index[g]
      BY <2>0, <2>2, <1>7
    <3>2. index[g] \in 1..n /\ list[index[g]] = g
      BY <3>1, <1>5
    <3>3. index[g] # n /\ index[g] # slot
      BY <3>2, <2>0, <2>2, <1>2 DEF last
    <3>4. index[g] \in 1..n - 1
      BY <3>2, <3>3, <1>2
    <3>5. popped[index[g]] = list[index[g]]
      <4>1. \A i \in 1..n - 1 : popped[i] = IF i = slot THEN last ELSE list[i]
        BY <1>6
      <4> QED BY <4>1, <3>3, <3>4
    <3>6. moved[g] <= n - 1
      BY <3>1, <3>4, <1>2
    <3> QED BY <3>1, <3>2, <3>5, <3>6
  <2> QED BY <2>1, <2>2
<1>11. \A i \in 1..n - 1 : moved[popped[i]] = i /\ popped[i] \in Elements(list) \ {h}
  <2> SUFFICES ASSUME NEW i \in 1..n - 1
               PROVE  moved[popped[i]] = i /\ popped[i] \in Elements(list) \ {h}
    OBVIOUS
  <2>0. i \in 1..n /\ i # n
    BY <1>2
  <2>1. CASE i = slot
    <3>1. popped[i] = last /\ last # h
      BY <2>1, <2>0, <1>6, <1>8
    <3>2. last \in Elements(list)
      BY <1>3 DEF Elements, last, n
    <3> QED BY <3>1, <3>2, <2>1, <1>7
  <2>2. CASE i # slot
    <3>1. popped[i] = list[i] /\ list[i] \in Hashes /\ index[list[i]] = i
      BY <2>2, <2>0, <1>4, <1>6
    <3>2. list[i] # h /\ list[i] # last
      BY <3>1, <2>0, <2>2, <1>3 DEF slot
    <3>3. list[i] \in Elements(list)
      BY <2>0 DEF Elements, n
    <3> QED BY <3>1, <3>2, <3>3, <1>7
  <2> QED BY <2>1, <2>2
<1>12. \A g \in Elements(list) \ {h} : g \in Elements(popped)
  <2> SUFFICES ASSUME NEW i \in 1..n, list[i] # h
               PROVE  \E j \in 1..n - 1 : popped[j] = list[i]
    BY <1>6 DEF Elements, n
  <2>1. i # slot
    BY <1>2
  <2>2. CASE i = n
    <3>1. slot \in 1..n - 1 /\ popped[slot] = list[i]
      BY <2>1, <2>2, <1>2, <1>6 DEF last
    <3> QED BY <3>1
  <2>3. CASE i # n
    <3>1. i \in 1..n - 1 /\ popped[i] = list[i]
      BY <2>1, <2>3, <1>2, <1>6
    <3> QED BY <3>1
  <2> QED BY <2>2, <2>3
<1>13. Elements(popped) = Elements(list) \ {h}
  <2>1. \A g \in Elements(popped) : \E i \in 1..n - 1 : g = popped[i]
    BY <1>6 DEF Elements
  <2>2. \A g \in Elements(popped) : g \in Elements(list) \ {h}
    BY <2>1, <1>11
  <2> QED BY <2>2, <1>12
<1> QED BY <1>1, <1>6, <1>7, <1>9, <1>10, <1>11, <1>13 DEF Matches

-----------------------------------------------------------------------------
(* The inductive invariant: only registered sources are ever linked, so a    *)
(* source that registers is not in an array yet and one that links is.      *)
LinkedExists ==
    \A t \in Tables : \A h \in Hashes : link[t][h] # Zero => h \in exists[t]

MappingInv ==
    TypeOK /\ IndexMatchesArray /\ ArrayListsUnlinked /\ ReverseIsLinked /\ LinkedExists

LEMMA InitInv == Init => MappingInv
<1> SUFFICES ASSUME Init PROVE MappingInv
  OBVIOUS
<1> USE MappingAssumption DEF Init
<1>1. TypeOK
  BY DEF TypeOK
<1>2. IndexMatchesArray
  BY DEF IndexMatchesArray, Matches
<1>3. ArrayListsUnlinked
  BY DEF ArrayListsUnlinked, Elements
<1>4. ReverseIsLinked /\ LinkedExists
  BY DEF ReverseIsLinked, LinkedExists, Tables
<1> QED BY <1>1, <1>2, <1>3, <1>4 DEF MappingInv

(* A source is in a table's array exactly when its position is not 0.        *)
LEMMA PositionTellsMembership ==
    ASSUME NEW list \in Seq(Hashes), NEW index \in [Hashes -> Nat],
           Matches(list, index), NEW h \in Hashes
    PROVE  h \in Elements(list) <=> index[h] # 0
<1>1. ASSUME index[h] # 0 PROVE h \in Elements(list)
  <2>1. index[h] \in 1..Len(list) /\ list[index[h]] = h
    BY <1>1 DEF Matches
  <2> QED BY <2>1 DEF Elements
<1>2. ASSUME NEW i \in 1..Len(list), list[i] = h PROVE index[h] # 0
  BY <1>2 DEF Matches
<1> QED BY <1>1, <1>2 DEF Elements

LEMMA RegisterKeepsInv ==
    ASSUME MappingInv, NEW sender \in Principals, NEW tables \in SUBSET Tables,
           NEW h \in Hashes, Register(sender, tables, h)
    PROVE  MappingInv'
<1> USE DEF MappingInv
<1>1. \A t \in Tables : /\ incomplete[t] \in Seq(Hashes)
                        /\ incompleteIndex[t] \in [Hashes -> Nat]
                        /\ Matches(incomplete[t], incompleteIndex[t])
  BY DEF TypeOK, IndexMatchesArray
<1>2. \A t \in tables : incompleteIndex[t][h] = 0 /\ link[t][h] = Zero
  <2> SUFFICES ASSUME NEW t \in tables
               PROVE  incompleteIndex[t][h] = 0 /\ link[t][h] = Zero
    OBVIOUS
  <2>1. h \notin exists[t]
    BY DEF Register
  <2>2. h \notin Elements(incomplete[t])
    BY <2>1 DEF ArrayListsUnlinked
  <2> QED BY <2>1, <2>2, <1>1, PositionTellsMembership DEF LinkedExists
<1>3. \A t \in Tables :
         /\ incomplete'[t] \in Seq(Hashes)
         /\ incompleteIndex'[t] \in [Hashes -> Nat]
         /\ Matches(incomplete'[t], incompleteIndex'[t])
         /\ Elements(incomplete'[t]) =
                IF t \in tables THEN Elements(incomplete[t]) \cup {h}
                ELSE Elements(incomplete[t])
  <2> SUFFICES ASSUME NEW t \in Tables
               PROVE  /\ incomplete'[t] \in Seq(Hashes)
                      /\ incompleteIndex'[t] \in [Hashes -> Nat]
                      /\ Matches(incomplete'[t], incompleteIndex'[t])
                      /\ Elements(incomplete'[t]) =
                             IF t \in tables THEN Elements(incomplete[t]) \cup {h}
                             ELSE Elements(incomplete[t])
    OBVIOUS
  <2>1. CASE t \in tables
    <3>1. /\ incomplete'[t] = Pushed(incomplete[t], incompleteIndex[t], h)
          /\ incompleteIndex'[t] = PushedIndex(incomplete[t], incompleteIndex[t], h)
      BY <2>1 DEF Register
    <3> QED BY <3>1, <2>1, <1>1, <1>2, PushKeepsMatch
  <2>2. CASE t \notin tables
    BY <2>2, <1>1 DEF Register
  <2> QED BY <2>1, <2>2
<1>4. /\ link' = link /\ reverse' = reverse /\ relayer' = relayer
      /\ \A t \in Tables : exists'[t] = IF t \in tables THEN exists[t] \cup {h}
                                        ELSE exists[t]
  BY DEF Register
<1>5. TypeOK'
  <2>1. exists' \in [Tables -> SUBSET Hashes]
    BY DEF Register, TypeOK
  <2>2. incomplete' \in [Tables -> Seq(Hashes)]
    BY <1>3 DEF Register
  <2>3. incompleteIndex' \in [Tables -> [Hashes -> Nat]]
    BY <1>3 DEF Register
  <2> QED BY <2>1, <2>2, <2>3, <1>4 DEF TypeOK
<1>6. IndexMatchesArray'
  BY <1>3 DEF IndexMatchesArray
<1>7. ArrayListsUnlinked'
  <2> SUFFICES ASSUME NEW t \in Tables
               PROVE  Elements(incomplete'[t]) = {g \in exists'[t] : link'[t][g] = Zero}
    BY DEF ArrayListsUnlinked
  <2>1. Elements(incomplete[t]) = {g \in exists[t] : link[t][g] = Zero}
    BY DEF ArrayListsUnlinked
  <2> QED BY <2>1, <1>2, <1>3, <1>4
<1>8. ReverseIsLinked' /\ LinkedExists'
  BY <1>4 DEF ReverseIsLinked, LinkedExists
<1> QED BY <1>5, <1>6, <1>7, <1>8

LEMMA LinkKeepsInv ==
    ASSUME MappingInv, NEW sender \in Principals, NEW t \in Tables,
           NEW source \in Hashes, NEW target \in Hashes,
           t = "deposit" => reverse[t][target] \in {Zero, source},
           Link(sender, t, source, target)
    PROVE  MappingInv'
<1> USE DEF MappingInv
<1>1. /\ incomplete[t] \in Seq(Hashes)
      /\ incompleteIndex[t] \in [Hashes -> Nat]
      /\ Matches(incomplete[t], incompleteIndex[t])
  BY DEF TypeOK, IndexMatchesArray
<1>2. incompleteIndex[t][source] # 0
  <2>1. source \in Elements(incomplete[t])
    BY DEF ArrayListsUnlinked, Link
  <2> QED BY <2>1, <1>1, PositionTellsMembership
<1>3. /\ incomplete'[t] = Popped(incomplete[t], incompleteIndex[t], source)
      /\ incompleteIndex'[t] = PoppedIndex(incomplete[t], incompleteIndex[t], source)
      /\ \A u \in Tables \ {t} : /\ incomplete'[u] = incomplete[u]
                                 /\ incompleteIndex'[u] = incompleteIndex[u]
  BY DEF Link, TypeOK
<1>4. /\ incomplete'[t] \in Seq(Hashes)
      /\ incompleteIndex'[t] \in [Hashes -> Nat]
      /\ Matches(incomplete'[t], incompleteIndex'[t])
      /\ Elements(incomplete'[t]) = Elements(incomplete[t]) \ {source}
  BY <1>1, <1>2, <1>3, PopKeepsMatch
<1>5. /\ relayer' = relayer /\ exists' = exists
      /\ link[t][source] = Zero /\ source \in exists[t]
      /\ link' = [link EXCEPT ![t][source] = target]
      /\ reverse' = [reverse EXCEPT ![t][target] = source]
  BY DEF Link
<1>6. /\ link'[t][source] = target
      /\ \A h \in Hashes \ {source} : link'[t][h] = link[t][h]
      /\ \A u \in Tables \ {t} : link'[u] = link[u]
      /\ link' \in [Tables -> [Hashes -> Hashes \cup {Zero}]]
  BY <1>5 DEF TypeOK
<1>7. /\ reverse'[t][target] = source
      /\ \A h \in Hashes \ {target} : reverse'[t][h] = reverse[t][h]
      /\ \A u \in Tables \ {t} : reverse'[u] = reverse[u]
      /\ reverse' \in [Tables -> [Hashes -> Hashes \cup {Zero}]]
  BY <1>5 DEF TypeOK
<1>8. TypeOK'
  <2>1. incomplete' \in [Tables -> Seq(Hashes)]
    BY <1>4 DEF Link, TypeOK
  <2>2. incompleteIndex' \in [Tables -> [Hashes -> Nat]]
    BY <1>4 DEF Link, TypeOK
  <2> QED BY <2>1, <2>2, <1>5, <1>6, <1>7 DEF TypeOK
<1>9. IndexMatchesArray'
  BY <1>3, <1>4 DEF IndexMatchesArray
<1>10. ArrayListsUnlinked'
  <2> SUFFICES ASSUME NEW u \in Tables
               PROVE  Elements(incomplete'[u]) = {g \in exists'[u] : link'[u][g] = Zero}
    BY DEF ArrayListsUnlinked
  <2>1. Elements(incomplete[u]) = {g \in exists[u] : link[u][g] = Zero}
    BY DEF ArrayListsUnlinked
  <2>2. exists[u] \subseteq Hashes /\ target # Zero
    BY MappingAssumption DEF TypeOK
  <2>3. CASE u = t
    BY <2>1, <2>2, <2>3, <1>4, <1>5, <1>6
  <2>4. CASE u # t
    BY <2>1, <2>4, <1>3, <1>5, <1>6
  <2> QED BY <2>3, <2>4
<1>11. LinkedExists'
  BY <1>5, <1>6 DEF LinkedExists
<1>12. ReverseIsLinked'
  <2>0. target # Zero /\ source # Zero
    BY MappingAssumption
  <2>1. ASSUME NEW u \in Tables, NEW g \in Hashes, reverse'[u][g] # Zero
        PROVE  link'[u][reverse'[u][g]] = g
    <3>1. CASE u # t
      BY <3>1, <2>1, <1>6, <1>7 DEF ReverseIsLinked
    <3>2. CASE u = t /\ g = target
      BY <3>2, <1>6, <1>7
    <3>3. CASE u = t /\ g # target
      <4>1. reverse'[u][g] = reverse[u][g] /\ reverse[u][g] \in Hashes
        BY <3>3, <2>1, <1>7 DEF TypeOK
      <4>2. link[u][reverse[u][g]] = g
        BY <4>1, <2>1 DEF ReverseIsLinked
      <4>3. reverse[u][g] # source
        BY <4>2, <3>3, <1>5, MappingAssumption
      <4> QED BY <4>1, <4>2, <4>3, <3>3, <1>6
    <3> QED BY <3>1, <3>2, <3>3
  <2>2. ASSUME NEW h \in Hashes, link'["deposit"][h] # Zero
        PROVE  reverse'["deposit"][link'["deposit"][h]] = h
    <3> "deposit" \in Tables
      BY DEF Tables
    <3>1. CASE t # "deposit"
      BY <3>1, <2>2, <1>6, <1>7 DEF ReverseIsLinked
    <3>2. CASE t = "deposit" /\ h = source
      BY <3>2, <1>6, <1>7
    <3>3. CASE t = "deposit" /\ h # source
      <4>1. link'[t][h] = link[t][h] /\ link[t][h] \in Hashes
        BY <3>3, <2>2, <1>6 DEF TypeOK
      <4>2. reverse[t][link[t][h]] = h
        BY <4>1, <3>3, <2>2 DEF ReverseIsLinked
      <4>3. link[t][h] # target
        BY <4>2, <3>3, MappingAssumption
      <4> QED BY <4>1, <4>2, <4>3, <3>3, <1>7
    <3> QED BY <3>1, <3>2, <3>3
  <2> QED BY <2>1, <2>2 DEF ReverseIsLinked
<1> QED BY <1>8, <1>9, <1>10, <1>11, <1>12

LEMMA NextKeepsInv == MappingInv /\ [Next]_vars => MappingInv'
<1> SUFFICES ASSUME MappingInv, [Next]_vars PROVE MappingInv'
  OBVIOUS
<1>1. ASSUME NEW sender \in Principals, NEW account \in Principals,
             SetRelayer(sender, account)
      PROVE  MappingInv'
  BY <1>1 DEF SetRelayer, MappingInv, TypeOK, IndexMatchesArray, ArrayListsUnlinked,
              ReverseIsLinked, LinkedExists
<1>2. ASSUME NEW sender \in Principals, Registrations(sender) PROVE MappingInv'
  BY <1>2, RegisterKeepsInv
     DEF Registrations, RegisterDeposit, RegisterWithdrawal, Tables
<1>3. ASSUME NEW sender \in Principals, Links(sender) PROVE MappingInv'
  BY <1>3, LinkKeepsInv DEF Links, LinkDepositHashes, LinkWithdrawalHashes,
                            LinkRefundHashes, Tables
<1>4. CASE UNCHANGED vars
  BY <1>4 DEF vars, MappingInv, TypeOK, IndexMatchesArray, ArrayListsUnlinked,
              ReverseIsLinked, LinkedExists
<1> QED BY <1>1, <1>2, <1>3, <1>4 DEF Next

(* In every reachable state of the contract, whoever is its relayer and      *)
(* whatever is registered and linked, the arrays agree with their position  *)
(* tables, list exactly what has no link yet, and reverse lookups lead back *)
(* to a source that is linked to the hash looked up.                        *)
THEOREM MappingConsistent ==
    Spec => [](TypeOK /\ IndexMatchesArray /\ ArrayListsUnlinked /\ ReverseIsLinked)
<1>1. MappingInv => TypeOK /\ IndexMatchesArray /\ ArrayListsUnlinked /\ ReverseIsLinked
  BY DEF MappingInv
<1> QED BY <1>1, InitInv, NextKeepsInv, PTL DEF Spec

(* Swap-and-pop keeps the positions of the elements it moves.                *)
THEOREM IndexConsistent == Spec => []IndexMatchesArray
BY MappingConsistent, PTL

(* The recoveries, which work through the arrays, miss no unlinked source.   *)
THEOREM ArraysComplete == Spec => []ArrayListsUnlinked
BY MappingConsistent, PTL

(* A reverse lookup leads to a source that is linked to what was looked up.  *)
THEOREM ReverseSound == Spec => []ReverseIsLinked
BY MappingConsistent, PTL

-----------------------------------------------------------------------------
(* A linked source is in no array, so no position is kept for it.            *)
LinkedAreUnlisted ==
    \A t \in Tables : \A h \in Hashes : link[t][h] # Zero => incompleteIndex[t][h] = 0

LEMMA LinkedUnlisted == MappingInv => LinkedAreUnlisted
<1> SUFFICES ASSUME MappingInv, NEW t \in Tables, NEW h \in Hashes,
                    link[t][h] # Zero, incompleteIndex[t][h] # 0
             PROVE  FALSE
  BY DEF LinkedAreUnlisted
<1> DEFINE i == incompleteIndex[t][h]
<1>1. i \in Nat /\ incomplete[t] \in Seq(Hashes)
  BY DEF MappingInv, TypeOK
<1>2. i <= Len(incomplete[t]) /\ incomplete[t][i] = h
  BY DEF MappingInv, IndexMatchesArray, Matches
<1>3. i \in 1..Len(incomplete[t])
  BY <1>1, <1>2
<1>4. h \in Elements(incomplete[t])
  BY <1>2, <1>3 DEF Elements
<1>5. h \notin Elements(incomplete[t])
  BY DEF MappingInv, ArrayListsUnlinked
<1> QED
  BY <1>4, <1>5

LEMMA StepKeepsLinks ==
    ASSUME MappingInv, [Next]_vars, NEW t \in Tables, NEW h \in Hashes, link[t][h] # Zero
    PROVE  link'[t][h] = link[t][h]
<1>1. CASE link' = link
  BY <1>1
<1>2. ASSUME NEW sender \in Principals, NEW u \in Tables, NEW source \in Hashes,
             NEW target \in Hashes, Link(sender, u, source, target)
      PROVE  link'[t][h] = link[t][h]
  <2>1. link[u][source] = Zero /\ link' = [link EXCEPT ![u][source] = target]
    BY <1>2 DEF Link
  <2>2. link \in [Tables -> [Hashes -> Hashes \cup {Zero}]]
    BY DEF MappingInv, TypeOK
  <2> QED
    BY <2>1, <2>2
<1>3. \/ link' = link
      \/ \E sender \in Principals, u \in Tables, source \in Hashes, target \in Hashes :
             Link(sender, u, source, target)
  BY DEF Next, vars, SetRelayer, Registrations, RegisterDeposit, RegisterWithdrawal,
         Register, Links, LinkDepositHashes, LinkWithdrawalHashes, LinkRefundHashes, Tables
<1> QED
  BY <1>1, <1>2, <1>3

(* Whatever the relayer registers and links later, and whoever becomes        *)
(* relayer, a link keeps its target and its source is never listed again, so *)
(* no recovery is asked to link it a second time.                            *)
THEOREM LinksNeverChange == Spec => LinksAreFinal
<1> DEFINE Final == \A t \in Tables : \A h \in Hashes :
                       /\ link[t][h] # Zero => link'[t][h] = link[t][h]
                       /\ link[t][h] # Zero => incompleteIndex'[t][h] = 0
<1>1. MappingInv /\ LinkedAreUnlisted' /\ [Next]_vars => [Final]_vars
  BY StepKeepsLinks DEF LinkedAreUnlisted
<1> QED
  BY <1>1, LinkedUnlisted, InitInv, NextKeepsInv, PTL DEF Spec, LinksAreFinal

=============================================================================
