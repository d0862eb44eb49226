------------------------- MODULE DepositRelayProofs -------------------------
(***************************************************************************)
(* The incoming half, for any number of events, blocks, crashes and failed    *)
(* receipt queries, any subset of deposits among the events and any way in   *)
(* which transactions of the sidechain emit them.                           *)
(*                                                                         *)
(* A task that is past should_process_nonce holds a number that the account  *)
(* nonce has reached, and as the account nonce never falls this stays true  *)
(* however long the task then takes; so what it submits is next or is there *)
(* already.  A task about to link has submitted its event, and a recovery   *)
(* reads checkpoints that list only transactions the account nonce counts;  *)
(* an entry is written under the key of the event that it is written for.   *)
(*                                                                         *)
(* The search of the start block rests on blocks being immutable up to the   *)
(* head and on the account nonce counting events that were emitted; the      *)
(* stream on its position being the number of the next event it has to hand  *)
(* out, except for events that came after the replay had read the head.      *)
(***************************************************************************)
EXTENDS DepositRelay, FiniteSetTheorems, SequenceTheorems, TLAPS

JobType == [state : {"idle", "check", "wait", "register", "submit", "link"},
            nonce : Nat]

Typed ==
    /\ events \in Seq(Nat) /\ head \in Nat /\ accountNonce \in Nat /\ checkpointed \in Nat
    /\ subscription \in Seq(Nat) /\ queue \in [Tasks -> Seq(Nat)]
    /\ job \in [Tasks -> JobType]

CertifiedFirst == checkpointed <= accountNonce

ChecksPassed ==
    \A t \in Tasks : job[t].state \in {"register", "submit"} => job[t].nonce <= accountNonce

LinksFollow == \A t \in Tasks : job[t].state = "link" => job[t].nonce \in submitted

RecoveryReadsCertified ==
    process \in {"deposits", "refunds"} => readHead \in Nat /\ readHead <= checkpointed

OrderInv ==
    /\ Typed /\ CertifiedFirst /\ SubmittedInOrder
    /\ ChecksPassed /\ LinksFollow /\ RecoveryReadsCertified

LEMMA InboundNonceType == ASSUME Typed, NEW b PROVE InboundNonceAt(b) \in Nat
<1>1. IsFiniteSet(1..Len(events))
  BY FS_Interval DEF Typed
<1> QED BY <1>1, FS_Subset, FS_CardinalityType DEF InboundNonceAt

LEMMA EventsInType == ASSUME Typed, NEW f, NEW l PROVE EventsIn(f, l) \in Seq(Nat)
<1> DEFINE before == InboundNonceAt(f - 1)
           after  == InboundNonceAt(l)
<1>1. before \in Nat /\ after \in Nat
  BY InboundNonceType
<1> HIDE DEF before, after
<1>2. [i \in 1..after - before |-> before + i - 1] \in Seq(Nat)
  BY <1>1
<1> QED BY <1>2 DEF EventsIn, before, after

LEMMA OrderInit == Init => OrderInv
<1> SUFFICES ASSUME Init PROVE OrderInv
  OBVIOUS
<1>1. NoJob \in JobType /\ NoJob.state = "idle"
  BY DEF NoJob, JobType
<1>2. Typed
  BY <1>1 DEF Init, Typed
<1>3. submitted \in {0..accountNonce - 1, 0..accountNonce}
  BY DEF Init
<1> QED BY <1>1, <1>2, <1>3 DEF Init, OrderInv, CertifiedFirst, SubmittedInOrder,
        ChecksPassed, LinksFollow, RecoveryReadsCertified

(* Steps that leave 1Money and what the two tasks do alone.                   *)
LEMMA SameAccount ==
    ASSUME OrderInv, Typed', UNCHANGED <<accountVars, process, readHead, job>>
    PROVE  OrderInv'
BY DEF OrderInv, CertifiedFirst, SubmittedInOrder, ChecksPassed, LinksFollow,
       RecoveryReadsCertified, accountVars

LEMMA NewBlockKeeps == ASSUME OrderInv, NewBlock PROVE OrderInv'
<1>1. PICK k \in 0..MaxEvents - Len(events) :
          /\ events' = events \o [i \in 1..k |-> head + 1]
          /\ subscription' =
                 IF stream.phase \in {"head", "history", "follow"}
                 THEN subscription \o [i \in 1..k |-> Len(events) + i - 1]
                 ELSE subscription
  BY DEF NewBlock
<1>2. Len(events) \in Nat /\ k \in Nat /\ head + 1 \in Nat
  BY DepositAssumption DEF OrderInv, Typed, DepositAssumption
<1>3. /\ [i \in 1..k |-> Len(events) + i - 1] \in Seq(Nat)
      /\ [i \in 1..k |-> head + 1] \in Seq(Nat)
  BY <1>2
<1>4. subscription' \in Seq(Nat)
  BY <1>1, <1>3, ConcatProperties DEF OrderInv, Typed
<1>5. events' \in Seq(Nat)
  BY <1>1, <1>3, ConcatProperties DEF OrderInv, Typed
<1>6. Typed'
  BY <1>2, <1>4, <1>5 DEF OrderInv, Typed, NewBlock, accountVars
<1> QED BY <1>6, SameAccount DEF NewBlock

(* The account nonce moves on only over what was submitted.                  *)
LEMMA CertifyKeeps == ASSUME OrderInv, Certify PROVE OrderInv'
<1>1. Typed'
  BY DEF OrderInv, Typed, Certify, chainVars, taskVars, streamVars
<1>2. accountNonce \in Nat /\ accountNonce' = accountNonce + 1 /\ submitted' = submitted
      /\ job' = job
  BY DEF OrderInv, Typed, Certify, taskVars
<1>3. submitted = 0..accountNonce
  BY DEF OrderInv, Typed, SubmittedInOrder, Certify
<1>4. SubmittedInOrder'
  BY <1>2, <1>3 DEF SubmittedInOrder
<1>5. ChecksPassed'
  BY <1>2 DEF OrderInv, Typed, JobType, ChecksPassed
<1> QED
  BY <1>1, <1>2, <1>4, <1>5 DEF OrderInv, Typed, CertifiedFirst, LinksFollow,
     RecoveryReadsCertified, Certify

LEMMA FormCheckpointKeeps == ASSUME OrderInv, FormCheckpoint PROVE OrderInv'
<1>1. Typed'
  BY DEF OrderInv, Typed, FormCheckpoint, chainVars, taskVars, streamVars
<1>2. CertifiedFirst'
  BY DEF OrderInv, Typed, CertifiedFirst, FormCheckpoint
<1>3. RecoveryReadsCertified'
  BY DEF OrderInv, Typed, CertifiedFirst, RecoveryReadsCertified, FormCheckpoint
<1> QED
  BY <1>1, <1>2, <1>3 DEF OrderInv, SubmittedInOrder, ChecksPassed, LinksFollow,
     FormCheckpoint, taskVars

LEMMA RecoveryKeeps == ASSUME OrderInv, Starting PROVE OrderInv'
<1>1. /\ UNCHANGED <<events, head, accountVars, subscription, queue, job>>
      /\ process' \in {"deposits", "refunds"} =>
             readHead' = checkpointed \/ (process' = process /\ readHead' = readHead)
  BY DEF Starting, Start, RecoverDeposit, RecoverWithdrawal, DepositsRecovered, ReadHead,
         SearchStart, Bisect, chainVars, taskVars, streamVars
<1>2. Typed'
  BY <1>1 DEF OrderInv, Typed, accountVars
<1>3. RecoveryReadsCertified'
  BY <1>1 DEF OrderInv, Typed, RecoveryReadsCertified, accountVars
<1> QED
  BY <1>1, <1>2, <1>3 DEF OrderInv, CertifiedFirst, SubmittedInOrder, ChecksPassed,
     LinksFollow, accountVars

(* What a checkpoint lists is certified, so it was submitted.                *)
LEMMA ListedIsSubmitted ==
    ASSUME OrderInv, process \in {"deposits", "refunds"}, NEW n \in Nonces, n < readHead
    PROVE  n \in submitted
<1>1. n \in 0..accountNonce - 1
  BY DepositAssumption DEF OrderInv, Typed, RecoveryReadsCertified, CertifiedFirst,
     Nonces, DepositAssumption
<1>2. /\ accountNonce \in Nat
      /\ submitted = 0..accountNonce - 1 \/ submitted = 0..accountNonce
  BY DEF OrderInv, Typed, SubmittedInOrder
<1> QED BY <1>1, <1>2

LEMMA CrashKeeps == ASSUME OrderInv, Crash PROVE OrderInv'
<1>1. NoJob \in JobType /\ NoJob.state = "idle"
  BY DEF NoJob, JobType
<1>2. /\ UNCHANGED <<events, head, accountVars>> /\ process' = "down"
      /\ subscription' = <<>> /\ queue' = [t \in Tasks |-> <<>>]
      /\ job' = [t \in Tasks |-> NoJob]
  BY DEF Crash, NoTasks, chainVars
<1>3. Typed'
  BY <1>1, <1>2 DEF OrderInv, Typed, accountVars
<1> QED
  BY <1>1, <1>2, <1>3 DEF OrderInv, CertifiedFirst, SubmittedInOrder, ChecksPassed,
     LinksFollow, RecoveryReadsCertified, accountVars

LEMMA LateWriteKeeps == ASSUME OrderInv, NEW w, LateWrite(w) PROVE OrderInv'
<1>1. Typed'
  BY DEF OrderInv, Typed, LateWrite, chainVars, accountVars, taskVars, streamVars
<1> QED BY <1>1, SameAccount DEF LateWrite, taskVars

LEMMA ReadLiveKeeps == ASSUME OrderInv, ReadLive PROVE OrderInv'
<1>1. UNCHANGED <<events, head, accountVars, process, readHead, job>>
  BY DEF ReadLive, Subscribe, ReadLiveStart, Replay, Follow, chainVars
<1>2. queue' \in [Tasks -> Seq(Nat)] /\ subscription' \in Seq(Nat)
  <2>1. CASE Subscribe \/ ReadLiveStart
    BY <2>1 DEF OrderInv, Typed, Subscribe, ReadLiveStart
  <2>2. CASE Replay
    <3>1. subscription' = subscription
          /\ (queue' = queue \/ \E f, l : queue' = [queue EXCEPT !["live"] = EventsIn(f, l)])
      BY <2>2 DEF Replay
    <3>2. \A f, l : EventsIn(f, l) \in Seq(Nat)
      BY EventsInType DEF OrderInv
    <3>3. queue \in [Tasks -> Seq(Nat)] /\ subscription \in Seq(Nat)
      BY DEF OrderInv, Typed
    <3>4. CASE queue' = queue
      BY <3>1, <3>3, <3>4
    <3>5. CASE \E f, l : queue' = [queue EXCEPT !["live"] = EventsIn(f, l)]
      <4>1. PICK f, l : queue' = [queue EXCEPT !["live"] = EventsIn(f, l)]
        BY <3>5
      <4>2. EventsIn(f, l) \in Seq(Nat)
        BY <3>2
      <4> QED BY <3>1, <3>3, <4>1, <4>2
    <3> QED BY <3>1, <3>4, <3>5
  <2>3. CASE Follow
    <3>1. Head(subscription) \in Nat /\ Tail(subscription) \in Seq(Nat)
      BY <2>3, HeadTailProperties DEF OrderInv, Typed, Follow
    <3>2. <<Head(subscription)>> \in Seq(Nat)
      BY <3>1
    <3> QED BY <2>3, <3>1, <3>2 DEF OrderInv, Typed, Follow
  <2> QED BY <2>1, <2>2, <2>3 DEF ReadLive
<1>3. Typed'
  BY <1>1, <1>2 DEF OrderInv, Typed, accountVars
<1> QED BY <1>1, <1>3, SameAccount

LEMMA ReadClearingKeeps == ASSUME OrderInv, EndOfStream \/ ReadClearing PROVE OrderInv'
<1>1. UNCHANGED <<events, head, accountVars, process, readHead, job, subscription>>
  BY DEF EndOfStream, ReadClearing, BeginSweep, Sweep, chainVars, streamVars
<1>2. queue' = queue \/ \E f, l : queue' = [queue EXCEPT !["clearing"] = EventsIn(f, l)]
  BY DEF EndOfStream, ReadClearing, BeginSweep, Sweep
<1>3. queue' \in [Tasks -> Seq(Nat)]
  <2>1. \A f, l : EventsIn(f, l) \in Seq(Nat)
    BY EventsInType DEF OrderInv
  <2>2. queue \in [Tasks -> Seq(Nat)]
    BY DEF OrderInv, Typed
  <2>3. CASE queue' = queue
    BY <2>2, <2>3
  <2>4. CASE \E f, l : queue' = [queue EXCEPT !["clearing"] = EventsIn(f, l)]
    <3>1. PICK f, l : queue' = [queue EXCEPT !["clearing"] = EventsIn(f, l)]
      BY <2>4
    <3>2. EventsIn(f, l) \in Seq(Nat)
      BY <2>1
    <3> QED BY <2>2, <3>1, <3>2
  <2> QED BY <1>2, <2>3, <2>4
<1>4. Typed'
  BY <1>1, <1>3 DEF OrderInv, Typed, accountVars
<1> QED BY <1>1, <1>4, SameAccount

-----------------------------------------------------------------------------
(* Handling an event.                                                        *)

LEMMA GoesJob ==
    ASSUME OrderInv, NEW t \in Tasks,
           NEW state \in {"idle", "check", "wait", "register", "submit", "link"},
           Goes(t, state)
    PROVE  /\ UNCHANGED <<events, head, process, readHead, subscription, queue>>
           /\ job' \in [Tasks -> JobType]
           /\ \A u \in Tasks \ {t} : job'[u] = job[u]
           /\ job'[t].state = state
           /\ state # "idle" => job'[t].nonce = job[t].nonce
BY DEF Goes, OrderInv, Typed, JobType, NoJob, chainVars, streamVars

LEMMA TakeEventKeeps == ASSUME OrderInv, NEW t \in Tasks, TakeEvent(t) PROVE OrderInv'
<1>1. Head(queue[t]) \in Nat /\ Tail(queue[t]) \in Seq(Nat)
  BY HeadTailProperties DEF OrderInv, Typed, TakeEvent
<1>2. /\ UNCHANGED <<events, head, accountVars, process, readHead, subscription>>
      /\ queue' \in [Tasks -> Seq(Nat)] /\ job' \in [Tasks -> JobType]
      /\ \A u \in Tasks : job'[u] = job[u] \/ job'[u].state = "check"
  BY <1>1 DEF OrderInv, Typed, JobType, TakeEvent, chainVars, streamVars
<1>3. Typed'
  BY <1>2 DEF OrderInv, Typed, accountVars
<1>4. ChecksPassed' /\ LinksFollow'
  BY <1>2 DEF OrderInv, ChecksPassed, LinksFollow, accountVars
<1> QED
  BY <1>2, <1>3, <1>4 DEF OrderInv, CertifiedFirst, SubmittedInOrder,
     RecoveryReadsCertified, accountVars

(* should_process_nonce lets a number pass only when the account has it, and   *)
(* what a task does with the mapping leaves its number as it is.            *)
LEMMA HandlingKeeps ==
    ASSUME OrderInv, NEW t \in Tasks,
           CheckNonce(t) \/ PollNonce(t) \/ WriteRefused(t) \/ Receive(t)
    PROVE  OrderInv'
<1> DEFINE n == job[t].nonce
<1>1. n \in Nat /\ accountNonce \in Nat
  BY DEF OrderInv, Typed, JobType
<1>2. PICK state \in {"idle", "wait", "register", "submit"} :
          Goes(t, state) /\ (state \in {"register", "submit"} => n <= accountNonce)
  <2>1. CASE CheckNonce(t) \/ PollNonce(t)
    BY <1>1, <2>1 DEF CheckNonce, PollNonce, Handling
  <2>2. CASE WriteRefused(t) \/ Receive(t)
    BY <1>1, <2>2 DEF WriteRefused, Receive, Register, Link, ReceiptFails, AwaitsReceipt,
       OrderInv, ChecksPassed
  <2> QED BY <2>1, <2>2
<1>3. UNCHANGED accountVars
  BY DEF CheckNonce, PollNonce, WriteRefused, Receive, Register, Link, ReceiptFails
<1>4. /\ UNCHANGED <<events, head, process, readHead, subscription, queue>>
      /\ job' \in [Tasks -> JobType]
      /\ \A u \in Tasks \ {t} : job'[u] = job[u]
      /\ job'[t].state = state
      /\ state # "idle" => job'[t].nonce = n
  BY <1>2, GoesJob
<1>5. Typed'
  BY <1>3, <1>4 DEF OrderInv, Typed, accountVars
<1>6. ChecksPassed' /\ LinksFollow'
  BY <1>2, <1>3, <1>4 DEF OrderInv, ChecksPassed, LinksFollow, accountVars
<1> QED
  BY <1>3, <1>4, <1>5, <1>6 DEF OrderInv, CertifiedFirst, SubmittedInOrder,
     RecoveryReadsCertified, accountVars

LEMMA SubmitKeeps == ASSUME OrderInv, NEW t \in Tasks, Submit(t) PROVE OrderInv'
<1> DEFINE n == job[t].nonce
<1>1. PICK state \in {"idle", "link"} : Goes(t, state)
  BY DEF Submit
<1>2. /\ submitted' = submitted \cup {n}
      /\ UNCHANGED <<accountNonce, checkpointed>>
      /\ n \in Nat /\ accountNonce \in Nat /\ n <= accountNonce
  BY DEF Submit, OrderInv, Typed, JobType, ChecksPassed
<1>3. /\ UNCHANGED <<events, head, process, readHead, subscription, queue>>
      /\ job' \in [Tasks -> JobType]
      /\ \A u \in Tasks \ {t} : job'[u] = job[u]
      /\ job'[t].state = state
      /\ state # "idle" => job'[t].nonce = n
  BY <1>1, GoesJob
<1>4. Typed'
  BY <1>2, <1>3 DEF OrderInv, Typed
<1>5. SubmittedInOrder'
  <2>1. submitted = 0..accountNonce - 1 \/ submitted = 0..accountNonce
    BY DEF OrderInv, SubmittedInOrder
  <2>2. submitted' = 0..accountNonce - 1 \/ submitted' = 0..accountNonce
    BY <1>2, <2>1
  <2> QED BY <1>2, <2>2 DEF SubmittedInOrder
<1>6. ChecksPassed' /\ LinksFollow'
  BY <1>2, <1>3 DEF OrderInv, ChecksPassed, LinksFollow
<1> QED
  BY <1>2, <1>3, <1>4, <1>5, <1>6 DEF OrderInv, CertifiedFirst, RecoveryReadsCertified

-----------------------------------------------------------------------------
LEMMA OrderStep == OrderInv /\ [Next]_vars => OrderInv'
<1> SUFFICES ASSUME OrderInv, [Next]_vars PROVE OrderInv'
  OBVIOUS
<1>1. CASE NewBlock \/ Certify \/ FormCheckpoint
  BY <1>1, NewBlockKeeps, CertifyKeeps, FormCheckpointKeeps
<1>2. CASE Starting \/ Crash \/ \E w \in interrupted : LateWrite(w)
  BY <1>2, RecoveryKeeps, CrashKeeps, LateWriteKeeps
<1>3. CASE ReadLive \/ EndOfStream \/ ReadClearing
  BY <1>3, ReadLiveKeeps, ReadClearingKeeps
<1>4. CASE \E t \in Tasks : Handle(t) \/ Receive(t)
  BY <1>4, TakeEventKeeps, HandlingKeeps, SubmitKeeps DEF Handle
<1>5. CASE UNCHANGED vars
  <2>1. Typed'
    BY <1>5 DEF OrderInv, Typed, vars, chainVars, accountVars, taskVars, streamVars
  <2> QED BY <1>5, <2>1, SameAccount DEF vars, taskVars
<1> QED BY <1>1, <1>2, <1>3, <1>4, <1>5 DEF Next

(* Transactions reach 1Money in the order of the events they answer and      *)
(* without a gap, whichever task submits and wherever either crashes: what  *)
(* should_process_nonce promises for any number of events and blocks.       *)
THEOREM SubmissionsInOrder == Spec => []SubmittedInOrder
<1>1. Spec => []OrderInv
  BY OrderInit, OrderStep, PTL DEF Spec
<1>2. OrderInv => SubmittedInOrder
  BY DEF OrderInv
<1> QED BY <1>1, <1>2, PTL

-----------------------------------------------------------------------------
(* What the two tasks handle has been emitted: TypeOK.                       *)

Emitted == 0..Len(events) - 1

(* Blocks are numbered from 1 when they hold events.                         *)
ChainInv ==
    /\ events \in Seq(Nat) /\ Len(events) <= MaxEvents /\ head \in 0..MaxBlock
    /\ \A i \in 1..Len(events) : events[i] \in 1..head

EmittedInv ==
    /\ submitted \subseteq Emitted /\ accountNonce \in 0..Len(events)
    /\ subscription \in Seq(Emitted) /\ queue \in [Tasks -> Seq(Emitted)]
    /\ \A t \in Tasks : job[t].state # "idle" => job[t].nonce \in Emitted

(* Only blocks up to the head are looked at, and the low end of a bisection   *)
(* is a block up to which everything is on 1Money.                          *)
SearchInv ==
    /\ search \in [nonce : 0..MaxEvents, low : 0..MaxBlock, high : 0..MaxBlock]
    /\ fromBlock \in 0..MaxBlock /\ readHead \in Nat
    /\ process = "searching" => readHead <= head
    /\ process = "bisecting" =>
           /\ search.high <= head /\ search.low <= search.high
           /\ InboundNonceAt(search.low) <= search.nonce
           /\ search.nonce <= accountNonce
    /\ process = "relaying" =>
           fromBlock <= head /\ InboundNonceAt(fromBlock - 1) <= accountNonce

StreamType == [phase : {"connect", "head", "history", "follow", "ended"},
               next : Nat, last : Nat, position : Nat]

PlainInv ==
    /\ process \in {"down", "deposits", "refunds", "searching", "bisecting", "relaying"}
    /\ bridgeLinked \subseteq Nonces \ Deposits
    /\ stream \in StreamType
    /\ sweep \in [next : Nat, last : Nat] /\ faults \in 0..MaxFaults

(* Entries are kept under their keys, and a late link, too, is of an event     *)
(* that was submitted.                                                      *)
EntriesAreKeys == \A e \in Nonces : mapping[e] # NoEntry => Entry(e) = e

LateLinksFollow == \A w \in interrupted : w.state = "link" => w.nonce \in submitted

EntryType == {NoEntry, Unlinked, OtherTx} \cup Nonces

MappingInv ==
    /\ mapping \in [Nonces -> EntryType] /\ EntriesAreKeys
    /\ interrupted \subseteq [state : {"register", "link"}, nonce : Nonces]
    /\ LateLinksFollow /\ LinksNameTransactions

DepositInv == OrderInv /\ ChainInv /\ EmittedInv /\ SearchInv /\ PlainInv /\ MappingInv

(* The first event that the subscription still holds or will deliver.        *)
FirstToCome == Len(events) - Len(subscription)

(* A replay of several queries can lose events, but only of blocks past the    *)
(* head that it has read: the rest of the subscription is the last of those. *)
StreamInv ==
    /\ stream.phase = "connect" => subscription = <<>>
    /\ stream.phase \in {"head", "history", "follow"} =>
           /\ Len(subscription) <= Len(events)
           /\ \A i \in 1..Len(subscription) : subscription[i] = FirstToCome + i - 1
           /\ stream.position <= Len(events)
    /\ stream.phase = "head" =>
           stream.next <= head /\ stream.position = InboundNonceAt(stream.next - 1)
    /\ stream.phase = "history" /\ stream.next <= stream.last =>
           /\ stream.last - Overlap <= head
           /\ FirstToCome <= InboundNonceAt(stream.last - Overlap)
           /\ stream.position <= InboundNonceAt(stream.next - 1)
           /\ \/ stream.position = InboundNonceAt(stream.next - 1)
              \/ InboundNonceAt(stream.last - Overlap) <= stream.position
    /\ stream.phase = "history" /\ stream.next > stream.last => FirstToCome <= stream.position
    /\ stream.phase = "follow" => FirstToCome <= stream.position

LEMMA UpTo == ASSUME NEW n \in Nat PROVE IsFiniteSet(1..n) /\ Cardinality(1..n) = n
<1>1. 1 \in Int /\ n \in Int /\ (1 > n => n = 0)
  OBVIOUS
<1> QED
  BY <1>1, FS_Interval

LEMMA NonceAtBound == ASSUME ChainInv, NEW b PROVE InboundNonceAt(b) \in 0..Len(events)
<1> DEFINE S == {i \in 1..Len(events) : events[i] <= b}
<1>1. Len(events) \in Nat /\ S \in SUBSET (1..Len(events))
  BY DEF ChainInv
<1>2. IsFiniteSet(1..Len(events)) /\ Cardinality(1..Len(events)) = Len(events)
  BY <1>1, UpTo
<1>3. Cardinality(S) \in Nat /\ Cardinality(S) <= Len(events)
  BY <1>1, <1>2, FS_Subset, FS_CardinalityType
<1> QED
  BY <1>1, <1>3 DEF InboundNonceAt

LEMMA NonceAtMonotone ==
    ASSUME ChainInv, NEW a \in Int, NEW b \in Int, a <= b
    PROVE  InboundNonceAt(a) <= InboundNonceAt(b)
<1> DEFINE S(c) == {i \in 1..Len(events) : events[i] <= c}
<1>1. \A i \in 1..Len(events) : events[i] \in Nat
  BY DEF ChainInv
<1>2. S(a) \in SUBSET S(b) /\ S(b) \in SUBSET (1..Len(events))
  BY <1>1
<1>3. IsFiniteSet(S(b))
  BY <1>2, FS_Interval, FS_Subset DEF ChainInv
<1>4. Cardinality(S(a)) <= Cardinality(S(b))
  BY <1>2, <1>3, FS_Subset
<1> QED
  BY <1>4 DEF InboundNonceAt

(* Up to the head there are all events, and up to block 0 none.               *)
LEMMA NonceAtEnds ==
    ASSUME ChainInv, NEW b \in Int
    PROVE  /\ b >= head => InboundNonceAt(b) = Len(events)
           /\ b <= 0 => InboundNonceAt(b) = 0
<1> DEFINE S == {i \in 1..Len(events) : events[i] <= b}
<1>1. \A i \in 1..Len(events) : events[i] \in Nat /\ events[i] >= 1 /\ events[i] <= head
  BY DepositAssumption DEF ChainInv, DepositAssumption
<1>2. head \in Nat /\ Len(events) \in Nat
  BY DepositAssumption DEF ChainInv, DepositAssumption
<1>3. ASSUME b >= head PROVE InboundNonceAt(b) = Len(events)
  <2>1. S = 1..Len(events)
    BY <1>1, <1>2, <1>3
  <2> QED
    BY <1>2, <2>1, UpTo DEF InboundNonceAt
<1>4. ASSUME b <= 0 PROVE InboundNonceAt(b) = 0
  <2>1. S = {}
    BY <1>1, <1>2, <1>4
  <2> QED
    BY <2>1, FS_EmptySet DEF InboundNonceAt
<1> QED
  BY <1>3, <1>4

LEMMA EventsInShape ==
    ASSUME ChainInv, NEW f \in Int, NEW l \in Int
    PROVE  /\ EventsIn(f, l) \in Seq(Emitted)
           /\ f - 1 <= l => Len(EventsIn(f, l)) = InboundNonceAt(l) - InboundNonceAt(f - 1)
           /\ EventsIn(f, l) = [i \in 1..InboundNonceAt(l) - InboundNonceAt(f - 1) |->
                                    InboundNonceAt(f - 1) + i - 1]
<1> DEFINE before == InboundNonceAt(f - 1)
           after  == InboundNonceAt(l)
<1>1. before \in Nat /\ after \in Nat /\ after <= Len(events) /\ Len(events) \in Nat
  BY NonceAtBound DEF ChainInv
<1>2. f - 1 <= l => before <= after
  BY NonceAtMonotone
<1>3. EventsIn(f, l) = [i \in 1..after - before |-> before + i - 1]
  BY DEF EventsIn
<1> HIDE DEF before, after
<1>4. [i \in 1..after - before |-> before + i - 1] \in Seq(Emitted)
  BY <1>1 DEF Emitted
<1>5. before <= after => Len([i \in 1..after - before |-> before + i - 1]) = after - before
  BY <1>1
<1>6. EventsIn(f, l) = [i \in 1..InboundNonceAt(l) - InboundNonceAt(f - 1) |->
                           InboundNonceAt(f - 1) + i - 1]
  BY <1>3 DEF before, after
<1> QED
  BY <1>2, <1>3, <1>4, <1>5, <1>6 DEF before, after

(* What the contract had counted at a block that exists never changes.        *)
LEMMA ChainStep ==
    ASSUME ChainInv, [Next]_vars
    PROVE  /\ ChainInv' /\ head <= head' /\ Len(events) <= Len(events')
           /\ \A b \in Int :
                  /\ b <= head => InboundNonceAt(b)' = InboundNonceAt(b)
                  /\ InboundNonceAt(b) <= InboundNonceAt(b)' /\ InboundNonceAt(b)' \in Nat
<1>1. CASE NewBlock
  <2>1. PICK k \in 0..MaxEvents - Len(events) : events' = events \o [i \in 1..k |-> head + 1]
    BY <1>1 DEF NewBlock
  <2>2. /\ Len(events) \in Nat /\ k \in Nat /\ head \in Nat /\ head' = head + 1
        /\ head' \in 0..MaxBlock /\ Len(events) + k <= MaxEvents
    BY <1>1, DepositAssumption DEF ChainInv, NewBlock, DepositAssumption
  <2> DEFINE more == [i \in 1..k |-> head + 1]
  <2>3. more \in Seq(Nat) /\ Len(more) = k
    BY <2>2
  <2>4. /\ events' \in Seq(Nat) /\ Len(events') = Len(events) + k
        /\ \A i \in 1..Len(events') :
               events'[i] = IF i <= Len(events) THEN events[i] ELSE head + 1
    BY <2>1, <2>2, <2>3, ConcatProperties DEF ChainInv
  <2>5. \A i \in 1..Len(events) : events[i] \in Nat /\ events[i] >= 1 /\ events[i] <= head
    BY <2>2 DEF ChainInv
  <2>6. \A i \in 1..Len(events') : events'[i] \in 1..head'
    BY SMTT(20), <2>2, <2>4, <2>5
  <2>7. ChainInv'
    BY <2>2, <2>4, <2>6 DEF ChainInv
  <2>8. ASSUME NEW b \in Int
        PROVE  /\ b <= head => InboundNonceAt(b)' = InboundNonceAt(b)
               /\ InboundNonceAt(b) <= InboundNonceAt(b)' /\ InboundNonceAt(b)' \in Nat
    <3> DEFINE S == {i \in 1..Len(events) : events[i] <= b}
               T == {i \in 1..Len(events') : events'[i] <= b}
    <3>1. b <= head => T = S
      BY SMTT(20), <2>2, <2>4, <2>5
    <3>2. S \in SUBSET T /\ T \in SUBSET (1..Len(events'))
      BY <2>2, <2>4
    <3>3. IsFiniteSet(T)
      <4>1. Len(events') \in Nat
        BY <2>2, <2>4
      <4> QED
        BY <3>2, <4>1, UpTo, FS_Subset
    <3>4. Cardinality(S) <= Cardinality(T) /\ Cardinality(T) \in Nat
      BY <3>2, <3>3, FS_Subset, FS_CardinalityType
    <3> QED
      BY <3>1, <3>4 DEF InboundNonceAt
  <2> QED
    BY <2>2, <2>4, <2>7, <2>8
<1>2. CASE UNCHANGED chainVars
  <2>1. /\ ChainInv' /\ Len(events) \in Nat /\ head \in Int
        /\ \A b : InboundNonceAt(b)' = InboundNonceAt(b)
    BY <1>2 DEF chainVars, ChainInv, InboundNonceAt
  <2>2. \A b : InboundNonceAt(b) \in Nat
    BY <2>1, NonceAtBound
  <2> QED
    BY <1>2, <2>1, <2>2 DEF chainVars
<1>3. UNCHANGED chainVars \/ NewBlock
  BY DEF Next, vars, Certify, FormCheckpoint, Starting, Start, RecoverDeposit,
     RecoverWithdrawal, DepositsRecovered, ReadHead, SearchStart, Bisect, Crash,
     ReadLive, Subscribe, ReadLiveStart, Replay, Follow, EndOfStream, ReadClearing,
     BeginSweep, Sweep, Handle, TakeEvent, CheckNonce, PollNonce, Submit, WriteRefused,
     Receive, Register, Link, ReceiptFails, LateWrite, Goes
<1> QED
  BY <1>1, <1>2, <1>3

LEMMA EmittedGrows ==
    ASSUME ChainInv, [Next]_vars
    PROVE  Emitted \subseteq Emitted' /\ Seq(Emitted) \subseteq Seq(Emitted')
<1>1. /\ Len(events) \in Nat /\ Len(events') \in Nat /\ Len(events) <= Len(events')
      /\ Len(events)' = Len(events')
  <2>1. ChainInv' /\ Len(events) <= Len(events')
    BY ChainStep
  <2> QED
    BY <2>1 DEF ChainInv
<1>2. Emitted \subseteq Emitted'
  BY <1>1 DEF Emitted
<1> QED
  BY <1>2

(* Only an event that a task took is worked on, and only a submitted one is   *)
(* certified.                                                               *)
LEMMA EmittedFrame ==
    ASSUME EmittedInv, UNCHANGED <<events, accountNonce, submitted, subscription, queue>>,
           \A t \in Tasks : job'[t].state # "idle" =>
               job[t].state # "idle" /\ job'[t].nonce = job[t].nonce
    PROVE  EmittedInv'
BY DEF EmittedInv, Emitted

LEMMA EmittedNewBlock ==
    ASSUME ChainInv, EmittedInv, NewBlock
    PROVE  EmittedInv'
<1>1. Emitted \subseteq Emitted' /\ Seq(Emitted) \subseteq Seq(Emitted')
  BY EmittedGrows DEF Next
<1>2. PICK k \in 0..MaxEvents - Len(events) :
          /\ events' = events \o [i \in 1..k |-> head + 1]
          /\ subscription' =
                 IF stream.phase \in {"head", "history", "follow"}
                 THEN subscription \o [i \in 1..k |-> Len(events) + i - 1]
                 ELSE subscription
  BY DEF NewBlock
<1>3. /\ UNCHANGED <<accountNonce, submitted, queue, job>> /\ Len(events) \in Nat
      /\ k \in Nat /\ head + 1 \in Nat
  BY DepositAssumption DEF NewBlock, accountVars, ChainInv, DepositAssumption
<1>4. [i \in 1..k |-> head + 1] \in Seq(Nat) /\ Len([i \in 1..k |-> head + 1]) = k
  BY <1>3
<1>5. Len(events') = Len(events) + k
  BY <1>2, <1>4, ConcatProperties DEF ChainInv
<1>6. [i \in 1..k |-> Len(events) + i - 1] \in Seq(Emitted')
  BY <1>3, <1>5 DEF Emitted
<1>7. subscription' \in Seq(Emitted')
  BY <1>1, <1>2, <1>6, ConcatProperties DEF EmittedInv
<1>8. accountNonce' \in 0..Len(events')
  BY <1>3, <1>5 DEF EmittedInv
<1> QED
  BY <1>1, <1>3, <1>7, <1>8 DEF EmittedInv

LEMMA EmittedReads ==
    ASSUME ChainInv, EmittedInv, PlainInv, ReadLive \/ EndOfStream \/ ReadClearing
    PROVE  EmittedInv'
<1>1. UNCHANGED <<events, accountNonce, submitted, job>>
  BY DEF ReadLive, Subscribe, ReadLiveStart, Replay, Follow, EndOfStream, ReadClearing,
         BeginSweep, Sweep, chainVars, accountVars
<1>2. queue' \in [Tasks -> Seq(Emitted)] /\ subscription' \in Seq(Emitted)
  <2>1. CASE Subscribe \/ ReadLiveStart \/ EndOfStream \/ BeginSweep
    BY <2>1 DEF EmittedInv, Subscribe, ReadLiveStart, EndOfStream, BeginSweep, streamVars
  <2>2. CASE Replay \/ Sweep
    <3>1. PICK f \in Int, l \in Int, t \in Tasks :
              queue' = queue \/ queue' = [queue EXCEPT ![t] = EventsIn(f, l)]
      <4>1. /\ stream.next \in Int /\ stream.last \in Int /\ sweep.next \in Int
            /\ sweep.last \in Int /\ BlockRange \in Int
        BY DepositAssumption DEF PlainInv, StreamType, DepositAssumption
      <4> QED
        BY <2>2, <4>1 DEF Replay, Sweep, Tasks
    <3>2. EventsIn(f, l) \in Seq(Emitted) /\ subscription' = subscription
      BY <2>2, EventsInShape DEF Replay, Sweep, streamVars
    <3> QED
      BY <3>1, <3>2 DEF EmittedInv
  <2>3. CASE Follow
    <3>1. Head(subscription) \in Emitted /\ Tail(subscription) \in Seq(Emitted)
      BY <2>3, HeadTailProperties DEF EmittedInv, Follow
    <3>2. <<Head(subscription)>> \in Seq(Emitted)
      BY <3>1
    <3> QED BY <2>3, <3>1, <3>2 DEF EmittedInv, Follow
  <2> QED BY <2>1, <2>2, <2>3 DEF ReadLive, ReadClearing
<1> QED
  BY <1>1, <1>2 DEF EmittedInv, Emitted

LEMMA EmittedHandling ==
    ASSUME OrderInv, EmittedInv, NEW t \in Tasks, Handle(t) \/ Receive(t)
    PROVE  EmittedInv'
<1>1. CASE TakeEvent(t)
  <2>1. Head(queue[t]) \in Emitted /\ Tail(queue[t]) \in Seq(Emitted)
    BY <1>1, HeadTailProperties DEF EmittedInv, TakeEvent
  <2>2. /\ UNCHANGED <<events, accountNonce, submitted, subscription>>
        /\ queue' \in [Tasks -> Seq(Emitted)]
        /\ \A u \in Tasks : job'[u] = job[u] \/ job'[u].nonce \in Emitted
    BY <1>1, <2>1 DEF OrderInv, Typed, EmittedInv, TakeEvent, chainVars, accountVars,
       streamVars
  <2> QED
    BY <2>2 DEF EmittedInv, Emitted
<1>2. CASE CheckNonce(t) \/ PollNonce(t) \/ Submit(t) \/ WriteRefused(t) \/ Receive(t)
  <2>1. PICK state \in {"idle", "check", "wait", "register", "submit", "link"} :
            Goes(t, state) /\ job[t].state # "idle"
    BY <1>2 DEF CheckNonce, PollNonce, Handling, Submit, WriteRefused, Receive, Register,
       Link, ReceiptFails, AwaitsReceipt
  <2>2. /\ UNCHANGED <<events, subscription, queue>>
        /\ \A u \in Tasks : job'[u].state # "idle" =>
               job[u].state # "idle" /\ job'[u].nonce = job[u].nonce
    BY <2>1, GoesJob
  <2>3. CASE Submit(t)
    <3>1. submitted' \subseteq Emitted /\ accountNonce' = accountNonce
      BY <2>1, <2>3 DEF Submit, EmittedInv
    <3> QED
      BY <2>2, <3>1 DEF EmittedInv, Emitted
  <2>4. CASE ~Submit(t)
    BY <1>2, <2>2, <2>4, EmittedFrame DEF CheckNonce, PollNonce, WriteRefused, Receive,
       Register, Link, ReceiptFails, accountVars
  <2> QED
    BY <2>3, <2>4
<1> QED
  BY <1>1, <1>2 DEF Handle

LEMMA EmittedStep ==
    ASSUME OrderInv, ChainInv, EmittedInv, PlainInv, [Next]_vars
    PROVE  EmittedInv'
<1>1. CASE Certify
  <2>1. accountNonce' = accountNonce + 1 /\ accountNonce \in Emitted
        /\ UNCHANGED <<events, submitted, subscription, queue, job>>
    BY <1>1 DEF Certify, EmittedInv, chainVars, taskVars, streamVars
  <2>2. accountNonce' \in 0..Len(events)
    BY <2>1 DEF Emitted, ChainInv
  <2> QED
    BY <2>1, <2>2 DEF EmittedInv, Emitted
<1>2. CASE FormCheckpoint \/ Starting \/ UNCHANGED vars \/ \E w \in interrupted : LateWrite(w)
  <2>1. UNCHANGED <<events, accountNonce, submitted, subscription, queue, job>>
    BY <1>2 DEF FormCheckpoint, Starting, Start, RecoverDeposit, RecoverWithdrawal,
       DepositsRecovered, ReadHead, SearchStart, Bisect, LateWrite, vars, chainVars,
       accountVars, taskVars, streamVars
  <2> QED
    BY <2>1, EmittedFrame
<1>3. CASE Crash
  <2>1. /\ UNCHANGED <<events, accountNonce, submitted>> /\ subscription' = <<>>
        /\ queue' = [t \in Tasks |-> <<>>] /\ \A t \in Tasks : job'[t].state = "idle"
    BY <1>3 DEF Crash, NoTasks, NoJob, chainVars, accountVars
  <2> QED
    BY <2>1 DEF EmittedInv, Emitted
<1> QED
  BY <1>1, <1>2, <1>3, EmittedNewBlock, EmittedReads, EmittedHandling DEF Next

LEMMA StreamUpdates ==
    ASSUME NEW s \in StreamType, NEW n \in Nat, NEW p \in Nat
    PROVE  /\ [s EXCEPT !.next = n, !.position = p] \in StreamType
           /\ [s EXCEPT !.phase = "history", !.last = n] \in StreamType
           /\ [s EXCEPT !.phase = "follow", !.next = 0, !.last = 0] \in StreamType
           /\ [s EXCEPT !.phase = "ended"] \in StreamType
<1>1. [s EXCEPT !.next = n, !.position = p] \in StreamType
  BY DEF StreamType
<1>2. [s EXCEPT !.phase = "history", !.last = n] \in StreamType
  BY DEF StreamType
<1>3. [s EXCEPT !.phase = "follow", !.next = 0, !.last = 0] \in StreamType
  BY DEF StreamType
<1>4. [s EXCEPT !.phase = "ended"] \in StreamType
  BY DEF StreamType
<1> QED
  BY <1>1, <1>2, <1>3, <1>4

(* A position is the number of an event and a query begins where one ended.   *)
LEMMA PlainStream ==
    ASSUME ChainInv, EmittedInv, SearchInv, PlainInv, ReadLive \/ EndOfStream \/ ReadClearing
    PROVE  stream' \in StreamType /\ sweep' \in [next : Nat, last : Nat]
<1>1. /\ head \in Nat /\ fromBlock \in Nat /\ BlockRange \in Nat \ {0} /\ Overlap \in Nat
      /\ stream \in StreamType /\ sweep \in [next : Nat, last : Nat]
  BY DepositAssumption DEF ChainInv, SearchInv, DepositAssumption, PlainInv
<1>2. ASSUME NEW n \in Emitted PROVE n \in Nat /\ n + 1 \in Nat
  BY DEF Emitted
<1>3. CASE Subscribe
  <2>1. InboundNonceAt(fromBlock - 1) \in Nat
    BY NonceAtBound
  <2> QED
    BY <1>1, <1>3, <2>1 DEF Subscribe, StreamType
<1>4. CASE ReadLiveStart \/ EndOfStream
  <2>1. head + Overlap \in Nat
    BY <1>1
  <2>2. /\ [stream EXCEPT !.phase = "history", !.last = head + Overlap] \in StreamType
        /\ [stream EXCEPT !.phase = "ended"] \in StreamType
    BY <1>1, <2>1, StreamUpdates, Zenon
  <2>3. /\ sweep' = sweep
        /\ \/ stream' = [stream EXCEPT !.phase = "history", !.last = head + Overlap]
           \/ stream' = [stream EXCEPT !.phase = "ended"]
    BY <1>4, Zenon DEF ReadLiveStart, EndOfStream
  <2> QED
    BY <1>1, <2>2, <2>3, Zenon
<1>5. CASE BeginSweep \/ Sweep
  <2>1. stream' = stream
    BY <1>5 DEF BeginSweep, Sweep, streamVars
  <2>2. sweep' \in [next : Nat, last : Nat]
    BY <1>1, <1>5 DEF BeginSweep, Sweep
  <2> QED
    BY <1>1, <2>1, <2>2
<1>6. CASE Follow
  <2>1. Head(subscription) + 1 \in Nat
    BY <1>2, <1>6, HeadTailProperties DEF Follow, EmittedInv
  <2> QED
    BY <1>1, <1>6, <2>1 DEF Follow, StreamType
<1>7. CASE Replay
  <2>1. sweep' = sweep /\ stream.next \in Nat /\ stream.last \in Nat
    BY <1>1, <1>7 DEF Replay, StreamType
  <2>2. CASE stream.next > stream.last
    <3>1. stream' = [stream EXCEPT !.phase = "follow", !.next = 0, !.last = 0]
      BY <1>7, <2>1, <2>2 DEF Replay
    <3> QED
      BY <1>1, <2>1, <3>1, StreamUpdates
  <2>3. CASE stream.next <= stream.last
    <3> DEFINE last == IF stream.next + BlockRange - 1 < stream.last
                       THEN stream.next + BlockRange - 1 ELSE stream.last
    <3>1. last \in Nat
      BY <1>1, <2>1
    <3>2. stream' = [stream EXCEPT !.next = last + 1,
                        !.position = IF EventsIn(stream.next, last) = <<>> THEN @
                                     ELSE Last(EventsIn(stream.next, last)) + 1]
      BY <1>7, <2>3 DEF Replay
    <3> HIDE DEF last
    <3>3. EventsIn(stream.next, last) \in Seq(Emitted)
      <4>1. stream.next \in Int /\ last \in Int
        BY <2>1, <3>1
      <4> QED
        BY <4>1, EventsInShape
    <3>4. \A logs \in Seq(Emitted) : logs # <<>> => Last(logs) + 1 \in Nat
      BY <1>2, EmptySeq, ElementOfSeq DEF Last
    <3>5. PICK p \in Nat : stream' = [stream EXCEPT !.next = last + 1, !.position = p]
      BY <1>1, <3>2, <3>3, <3>4 DEF StreamType
    <3> QED
      <4>1. last + 1 \in Nat
        BY <3>1
      <4> QED
        BY <1>1, <2>1, <3>5, <4>1, StreamUpdates
  <2> QED
    BY <2>1, <2>2, <2>3
<1> QED
  BY <1>3, <1>4, <1>5, <1>6, <1>7 DEF ReadLive, ReadClearing

LEMMA PlainStep ==
    ASSUME OrderInv, ChainInv, EmittedInv, SearchInv, PlainInv, [Next]_vars
    PROVE  PlainInv'
<1>1. CASE NewBlock \/ Certify \/ FormCheckpoint \/ UNCHANGED vars
           \/ \E w \in interrupted : LateWrite(w)
  BY <1>1 DEF PlainInv, NewBlock, Certify, FormCheckpoint, LateWrite, vars, mappingVars,
     faultVars, taskVars, streamVars
<1>2. CASE Starting
  <2>1. UNCHANGED <<stream, sweep, faults>>
    BY <1>2 DEF Starting, Start, RecoverDeposit, RecoverWithdrawal, DepositsRecovered,
       ReadHead, SearchStart, Bisect, faultVars, taskVars, streamVars
  <2>2. bridgeLinked' \subseteq Nonces \ Deposits
    BY <1>2 DEF PlainInv, Starting, Start, RecoverDeposit, RecoverWithdrawal, Unrecovered,
       DepositsRecovered, ReadHead, SearchStart, Bisect, mappingVars
  <2>3. process' \in {"down", "deposits", "refunds", "searching", "bisecting", "relaying"}
    BY <1>2 DEF PlainInv, Starting, Start, RecoverDeposit, RecoverWithdrawal,
       DepositsRecovered, ReadHead, SearchStart, Bisect
  <2> QED
    BY <2>1, <2>2, <2>3 DEF PlainInv
<1>3. CASE Crash
  <2>1. /\ process' = "down" /\ faults' = faults + 1 /\ faults < MaxFaults
        /\ stream' = NoStream /\ sweep' = [next |-> 1, last |-> 0]
        /\ bridgeLinked' = bridgeLinked
    BY <1>3 DEF Crash, NoTasks, mappingVars
  <2>2. faults' \in 0..MaxFaults
    BY <2>1, DepositAssumption DEF PlainInv, DepositAssumption
  <2> QED
    BY <2>1, <2>2 DEF PlainInv, StreamType, NoStream
<1>4. CASE ReadLive \/ EndOfStream \/ ReadClearing
  <2>1. UNCHANGED <<process, bridgeLinked, faults>>
    BY <1>4 DEF ReadLive, Subscribe, ReadLiveStart, Replay, Follow, EndOfStream,
       ReadClearing, BeginSweep, Sweep, mappingVars, faultVars
  <2> QED
    BY <1>4, <2>1, PlainStream DEF PlainInv
<1>5. ASSUME NEW t \in Tasks, Handle(t) \/ Receive(t) PROVE PlainInv'
  <2>1. UNCHANGED <<process, bridgeLinked, stream, sweep>>
    BY <1>5 DEF Handle, TakeEvent, CheckNonce, PollNonce, Submit, WriteRefused, Receive,
       Register, Link, ReceiptFails, Goes, mappingVars, streamVars
  <2>2. faults' = faults \/ (faults < MaxFaults /\ faults' = faults + 1)
    BY <1>5 DEF Handle, TakeEvent, CheckNonce, PollNonce, Submit, WriteRefused, Receive,
       Register, Link, ReceiptFails, faultVars
  <2>3. faults' \in 0..MaxFaults
    BY <2>2, DepositAssumption DEF PlainInv, DepositAssumption
  <2> QED
    BY <2>1, <2>3 DEF PlainInv
<1> QED
  BY <1>1, <1>2, <1>3, <1>4, <1>5 DEF Next

-----------------------------------------------------------------------------
(* The entries of the mapping.                                               *)

LEMMA EmittedInNonces ==
    ASSUME ChainInv, EmittedInv
    PROVE  /\ Emitted \subseteq Nonces
           /\ \A t \in Tasks : job[t].state # "idle" => job[t].nonce \in Nonces
<1>1. Emitted \subseteq Nonces
  BY DepositAssumption DEF ChainInv, Emitted, Nonces, DepositAssumption
<1> QED
  BY <1>1 DEF EmittedInv

LEMMA EntryOfEntry ==
    ASSUME NEW n \in Nonces
    PROVE  Entry(n) \in Nonces /\ Entry(Entry(n)) = Entry(n)
BY EntryAssumption DEF EntryAssumption, Entry

LEMMA EntryValues ==
    /\ NoEntry \notin Nonces /\ Unlinked \notin Nonces /\ OtherTx \notin Nonces
    /\ NoEntry # Unlinked /\ NoEntry # OtherTx /\ Unlinked # OtherTx
BY EntryAssumption, DepositAssumption DEF EntryAssumption, DepositAssumption, Nonces

LEMMA MappingFrame ==
    ASSUME MappingInv, UNCHANGED <<mapping, interrupted>>, submitted \subseteq submitted'
    PROVE  MappingInv'
BY DEF MappingInv, EntriesAreKeys, LateLinksFollow, LinksNameTransactions

(* One entry is written: registered, or linked to what is known to be right.  *)
LEMMA EntryWritten ==
    ASSUME MappingInv, NEW e \in Nonces, Entry(e) = e, NEW new \in EntryType,
           mapping' = [mapping EXCEPT ![e] = new],
           \/ new = Unlinked
           \/ new \in submitted /\ Entry(new) = e
           \/ new = OtherTx /\ e \in Lookalikes,
           UNCHANGED <<submitted, interrupted>>
    PROVE  MappingInv'
<1>1. mapping' \in [Nonces -> EntryType]
  BY DEF MappingInv
<1>2. EntriesAreKeys'
  BY DEF MappingInv, EntriesAreKeys, Entry
<1>3. LinksNameTransactions'
  <2> SUFFICES ASSUME NEW f \in Nonces, mapping'[f] \notin {NoEntry, Unlinked}
               PROVE  \/ mapping'[f] \in submitted /\ Entry(mapping'[f]) = f
                      \/ mapping'[f] = OtherTx /\ f \in Lookalikes
    BY DEF LinksNameTransactions, Entry
  <2>1. CASE f = e
    BY <2>1 DEF MappingInv
  <2>2. CASE f # e
    BY <2>2 DEF MappingInv, LinksNameTransactions
  <2> QED
    BY <2>1, <2>2
<1> QED
  BY <1>1, <1>2, <1>3 DEF MappingInv, LateLinksFollow

(* A recovery links an entry, under its key, to what a checkpoint lists.      *)
LEMMA RecoveryWrites ==
    ASSUME OrderInv, MappingInv, NEW e \in Nonces,
           RecoverDeposit(e) \/ RecoverWithdrawal(e)
    PROVE  MappingInv'
<1>1. /\ UNCHANGED <<submitted, interrupted>> /\ process \in {"deposits", "refunds"}
      /\ \/ mapping' = mapping
         \/ /\ mapping[e] = Unlinked
            /\ \E tx \in Found(e) : mapping' = [mapping EXCEPT ![e] = tx]
  BY DEF RecoverDeposit, RecoverWithdrawal, accountVars, faultVars
<1>2. CASE mapping' = mapping
  BY <1>1, <1>2, MappingFrame
<1>3. CASE mapping[e] = Unlinked /\ \E tx \in Found(e) : mapping' = [mapping EXCEPT ![e] = tx]
  <2>1. PICK tx \in Found(e) : mapping' = [mapping EXCEPT ![e] = tx]
    BY <1>3
  <2>2. Entry(e) = e
    BY <1>3, EntryValues DEF MappingInv, EntriesAreKeys
  <2>3. /\ tx \in EntryType
        /\ \/ tx = e /\ e < readHead
           \/ tx = OtherTx /\ e \in Lookalikes
    BY DEF Found, EntryType
  <2>4. e < readHead => e \in submitted
    BY <1>1, ListedIsSubmitted
  <2> QED
    BY <1>1, <2>1, <2>2, <2>3, <2>4, EntryWritten
<1> QED
  BY <1>1, <1>2, <1>3

(* A task writes the entry of the event that it handles, and so does what it   *)
(* has left behind.                                                         *)
LEMMA TaskWrites ==
    ASSUME MappingInv, NEW n \in Nonces, NEW new \in EntryType,
           UNCHANGED <<submitted, interrupted>>,
           mapping' = [mapping EXCEPT ![Entry(n)] = new],
           new = Unlinked \/ (new = n /\ n \in submitted)
    PROVE  MappingInv'
<1>1. Entry(n) \in Nonces /\ Entry(Entry(n)) = Entry(n)
  BY EntryOfEntry
<1> QED
  BY <1>1, EntryWritten

LEMMA MappingStep ==
    ASSUME OrderInv, ChainInv, EmittedInv, PlainInv, MappingInv, [Next]_vars
    PROVE  MappingInv'
<1> USE DEF EntryType
<1>1. CASE NewBlock
  <2>1. PICK k \in 0..MaxEvents - Len(events) :
            mapping' = [n \in Nonces |->
                IF n \in Len(events)..Len(events) + k - 1 /\ n \notin Deposits
                THEN Unlinked ELSE mapping[n]]
    BY <1>1 DEF NewBlock
  <2>2. UNCHANGED <<submitted, interrupted>>
    BY <1>1 DEF NewBlock, accountVars, faultVars
  <2>3. mapping' \in [Nonces -> EntryType]
    BY <2>1 DEF MappingInv
  <2>4. EntriesAreKeys'
    BY <2>1, EntryAssumption DEF MappingInv, EntriesAreKeys, EntryAssumption, Entry
  <2>5. LinksNameTransactions'
    BY <2>1, <2>2 DEF MappingInv, LinksNameTransactions, Entry
  <2> QED
    BY <2>2, <2>3, <2>4, <2>5 DEF MappingInv, LateLinksFollow
<1>2. CASE \E e \in Nonces : RecoverDeposit(e) \/ RecoverWithdrawal(e)
  BY <1>2, RecoveryWrites
<1>3. CASE \/ Certify \/ FormCheckpoint \/ Start \/ DepositsRecovered \/ ReadHead
           \/ SearchStart \/ Bisect \/ ReadLive \/ EndOfStream \/ ReadClearing
           \/ UNCHANGED vars
  <2>1. UNCHANGED <<mapping, interrupted, submitted>>
    BY <1>3 DEF Certify, FormCheckpoint, Start, DepositsRecovered, ReadHead, SearchStart,
       Bisect, ReadLive, Subscribe, ReadLiveStart, Replay, Follow, EndOfStream,
       ReadClearing, BeginSweep, Sweep, vars, mappingVars, faultVars, accountVars
  <2> QED
    BY <2>1, MappingFrame
<1>4. CASE Crash \/ \E t \in Tasks : ReceiptFails(t)
  <2>1. /\ UNCHANGED <<mapping, submitted>>
        /\ interrupted' \subseteq interrupted \cup {job[t] : t \in {u \in Tasks : AwaitsReceipt(u)}}
    BY <1>4 DEF Crash, ReceiptFails, mappingVars, accountVars
  <2>2. ASSUME NEW t \in Tasks, AwaitsReceipt(t)
        PROVE  /\ job[t] \in [state : {"register", "link"}, nonce : Nonces]
               /\ job[t].state = "link" => job[t].nonce \in submitted
    <3>1. job[t] \in JobType /\ job[t].state \in {"register", "link"}
      BY <2>2 DEF AwaitsReceipt, OrderInv, Typed
    <3>2. job[t].nonce \in Nonces
      BY <3>1, EmittedInNonces
    <3> QED
      BY <3>1, <3>2 DEF JobType, OrderInv, LinksFollow
  <2>3. /\ interrupted' \subseteq [state : {"register", "link"}, nonce : Nonces]
        /\ LateLinksFollow'
    BY <2>1, <2>2 DEF MappingInv, LateLinksFollow
  <2> QED
    BY <2>1, <2>3 DEF MappingInv, EntriesAreKeys, LinksNameTransactions, Entry
<1>5. ASSUME NEW w \in interrupted, LateWrite(w) PROVE MappingInv'
  <2>1. /\ UNCHANGED <<submitted, interrupted>> /\ w.nonce \in Nonces
        /\ w.state = "link" => w.nonce \in submitted
    BY <1>5 DEF LateWrite, accountVars, faultVars, MappingInv, LateLinksFollow
  <2>2. PICK new \in EntryType :
            /\ mapping' = [mapping EXCEPT ![Entry(w.nonce)] = new]
            /\ new = Unlinked \/ (new = w.nonce /\ w.nonce \in submitted)
    BY <1>5, <2>1 DEF LateWrite
  <2> QED
    BY <2>1, <2>2, TaskWrites
<1>6. ASSUME NEW t \in Tasks, Register(t) \/ Link(t) PROVE MappingInv'
  <2>1. UNCHANGED <<submitted, interrupted>> /\ job[t].nonce \in Nonces
    BY <1>6, EmittedInNonces DEF Register, Link, accountVars, faultVars
  <2>2. PICK new \in EntryType :
            /\ mapping' = [mapping EXCEPT ![Entry(job[t].nonce)] = new]
            /\ new = Unlinked \/ (new = job[t].nonce /\ job[t].nonce \in submitted)
    BY <1>6, <2>1 DEF Register, Link, OrderInv, LinksFollow
  <2> QED
    BY <2>1, <2>2, TaskWrites
<1>7. ASSUME NEW t \in Tasks, Handle(t) PROVE MappingInv'
  <2>1. UNCHANGED <<mapping, interrupted>> /\ submitted \subseteq submitted'
    BY <1>7 DEF Handle, TakeEvent, CheckNonce, PollNonce, Submit, WriteRefused,
       mappingVars, faultVars, accountVars
  <2> QED
    BY <2>1, MappingFrame
<1> QED
  BY <1>1, <1>2, <1>3, <1>4, <1>5, <1>6, <1>7 DEF Next, Starting, Receive

-----------------------------------------------------------------------------
(* Blocks and certifications go on around a start and do not disturb it.      *)
LEMMA SearchFrame ==
    ASSUME ChainInv, SearchInv, [Next]_vars, accountNonce \in Nat, accountNonce' \in Nat,
           accountNonce <= accountNonce', UNCHANGED <<process, readHead, startVars>>
    PROVE  SearchInv'
<1>1. /\ head \in Nat /\ head' \in Nat /\ head <= head'
      /\ \A b \in Int : b <= head => InboundNonceAt(b)' = InboundNonceAt(b)
  BY ChainStep, DepositAssumption DEF ChainInv, DepositAssumption
<1>2. /\ search' = search /\ fromBlock' = fromBlock /\ fromBlock \in Nat
      /\ search.low \in Nat /\ search.high \in Nat /\ search.nonce \in Nat /\ readHead \in Nat
  BY DepositAssumption DEF SearchInv, startVars, DepositAssumption
<1>3. PICK low \in Nat, from \in Int : low = search.low /\ from = fromBlock - 1
  BY <1>2
<1>4. \A b \in Int : InboundNonceAt(b) \in Nat
  BY NonceAtBound
<1>5. ASSUME process = "bisecting"
      PROVE  /\ search.high <= head' /\ InboundNonceAt(low)' <= search.nonce
             /\ search.nonce <= accountNonce'
  <2>1. low <= head /\ search.high <= head /\ InboundNonceAt(low) <= search.nonce
        /\ search.nonce <= accountNonce
    BY <1>1, <1>2, <1>3, <1>5 DEF SearchInv
  <2> QED
    BY <1>1, <1>2, <1>3, <2>1
<1>6. ASSUME process = "relaying"
      PROVE  fromBlock <= head' /\ InboundNonceAt(from)' <= accountNonce'
  <2>1. from <= head /\ fromBlock <= head /\ InboundNonceAt(from) <= accountNonce
    BY <1>1, <1>2, <1>3, <1>6 DEF SearchInv
  <2> QED
    BY <1>1, <1>2, <1>3, <1>4, <2>1
<1>7. process = "searching" => readHead <= head'
  BY <1>1, <1>2 DEF SearchInv
<1>8. /\ process' = "bisecting" => InboundNonceAt(search.low)' <= search.nonce'
      /\ process' = "relaying" => InboundNonceAt(fromBlock - 1)' <= accountNonce'
  BY <1>2, <1>3, <1>5, <1>6 DEF InboundNonceAt
<1> QED
  BY <1>2, <1>5, <1>6, <1>7, <1>8 DEF SearchInv

(* Nothing emitted up to block 0, everything up to the head, and the low end  *)
(* of a bisection moves only to a block the query allows.                   *)
LEMMA SearchStartKeeps ==
    ASSUME ChainInv, EmittedInv, SearchInv, SearchStart
    PROVE  SearchInv'
<1>1. /\ UNCHANGED <<events, head, accountNonce>> /\ readHead' = 0
      /\ \A b : InboundNonceAt(b)' = InboundNonceAt(b)
  BY DEF SearchStart, chainVars, accountVars, InboundNonceAt
<1>2. /\ readHead \in 0..MaxBlock /\ readHead <= head /\ head \in Nat
      /\ accountNonce \in 0..MaxEvents /\ accountNonce \in Nat /\ Len(events) \in Nat
  BY DepositAssumption DEF SearchStart, SearchInv, ChainInv, EmittedInv, DepositAssumption
<1>3. CASE process' = "down" /\ UNCHANGED startVars
  BY <1>1, <1>3 DEF SearchInv, startVars
<1>4. CASE /\ accountNonce \in {0, InboundNonceAt(readHead)} /\ process' = "relaying"
           /\ fromBlock' = (IF accountNonce = 0 THEN 0 ELSE readHead) /\ UNCHANGED search
  <2>1. fromBlock' \in 0..MaxBlock /\ fromBlock' <= head /\ 0 \in 0..MaxBlock
    BY <1>2, <1>4, DepositAssumption DEF DepositAssumption
  <2>2. PICK from \in Nat : from = fromBlock'
    BY <2>1
  <2>3. InboundNonceAt(from - 1) <= accountNonce
    <3>1. CASE accountNonce = 0
      BY <1>2, <1>4, <2>2, <3>1, NonceAtEnds
    <3>2. CASE accountNonce # 0
      <4>1. from = readHead /\ accountNonce = InboundNonceAt(from)
        BY <1>4, <2>2, <3>2
      <4> QED
        BY <4>1, NonceAtMonotone
    <3> QED
      BY <3>1, <3>2
  <2>4. InboundNonceAt(fromBlock - 1)' <= accountNonce'
    BY <1>1, <2>2, <2>3 DEF InboundNonceAt
  <2> QED
    BY <1>1, <1>4, <2>1, <2>4 DEF SearchInv
<1>5. CASE /\ process' = "bisecting" /\ UNCHANGED fromBlock
           /\ search' = [nonce |-> accountNonce, low |-> 0, high |-> readHead]
  <2>1. InboundNonceAt(0) = 0 /\ 0 \in 0..MaxBlock
    BY NonceAtEnds, DepositAssumption DEF DepositAssumption
  <2>2. /\ search' \in [nonce : 0..MaxEvents, low : 0..MaxBlock, high : 0..MaxBlock]
        /\ search'.high <= head' /\ search'.low = 0 /\ search'.low <= search'.high
        /\ search'.nonce = accountNonce
    BY <1>1, <1>2, <1>5, <2>1
  <2>3. InboundNonceAt(search.low)' <= search.nonce'
    BY <1>1, <1>2, <2>1, <2>2 DEF InboundNonceAt
  <2>4. search'.nonce <= accountNonce'
    BY <1>1, <1>2, <2>2
  <2> QED
    BY <1>1, <1>5, <2>2, <2>3, <2>4 DEF SearchInv
<1> QED
  BY <1>3, <1>4, <1>5 DEF SearchStart

LEMMA BisectKeeps ==
    ASSUME ChainInv, EmittedInv, SearchInv, Bisect
    PROVE  SearchInv'
<1>1. /\ UNCHANGED <<events, head, accountNonce, readHead>>
      /\ \A b : InboundNonceAt(b)' = InboundNonceAt(b)
  BY DEF Bisect, chainVars, accountVars, InboundNonceAt
<1>2. /\ search \in [nonce : 0..MaxEvents, low : 0..MaxBlock, high : 0..MaxBlock]
      /\ search.high <= head /\ search.low <= search.high
      /\ InboundNonceAt(search.low) <= search.nonce /\ search.nonce <= accountNonce
  BY DEF Bisect, SearchInv
<1>3. /\ head \in Nat /\ accountNonce \in Nat /\ search.low \in Nat /\ search.high \in Nat
      /\ search.low \in 0..MaxBlock /\ search.high \in 0..MaxBlock /\ search.nonce \in Nat
      /\ MaxBlock \in Nat /\ MaxEvents \in Nat
  BY <1>2, DepositAssumption DEF ChainInv, EmittedInv, DepositAssumption
<1>4. CASE /\ search.low < search.high /\ UNCHANGED <<process, fromBlock>>
           /\ search' = Narrowed((search.low + search.high + 1) \div 2)
  <2>1. PICK mid \in Nat : /\ mid = (search.low + search.high + 1) \div 2
                           /\ search.low < mid /\ mid <= search.high
    BY <1>3, <1>4
  <2>2. InboundNonceAt(mid) \in Nat
    BY NonceAtBound
  <2>3. CASE InboundNonceAt(mid) <= search.nonce
    <3>1. search' = [search EXCEPT !.low = mid] /\ mid \in 0..MaxBlock
      BY <1>3, <1>4, <2>1, <2>3 DEF Narrowed
    <3>2. /\ search' \in [nonce : 0..MaxEvents, low : 0..MaxBlock, high : 0..MaxBlock]
          /\ search'.low = mid /\ search'.high = search.high /\ search'.nonce = search.nonce
      BY <1>2, <3>1
    <3>3. InboundNonceAt(search.low)' <= search.nonce'
      BY <1>1, <2>3, <3>2 DEF InboundNonceAt
    <3> QED
      BY <1>1, <1>2, <1>4, <2>1, <3>2, <3>3 DEF SearchInv, Bisect
  <2>4. CASE ~(InboundNonceAt(mid) <= search.nonce)
    <3>1. search' = [search EXCEPT !.high = mid - 1] /\ mid - 1 \in 0..MaxBlock
      BY <1>3, <1>4, <2>1, <2>4 DEF Narrowed
    <3>2. /\ search' \in [nonce : 0..MaxEvents, low : 0..MaxBlock, high : 0..MaxBlock]
          /\ search'.low = search.low /\ search'.high = mid - 1 /\ search'.nonce = search.nonce
      BY <1>2, <3>1
    <3>3. InboundNonceAt(search.low)' <= search.nonce'
      BY <1>1, <1>2, <3>2 DEF InboundNonceAt
    <3>4. mid - 1 <= head /\ search.low <= mid - 1
      BY <1>2, <1>3, <2>1
    <3> QED
      BY <1>1, <1>2, <1>4, <3>2, <3>3, <3>4 DEF SearchInv, Bisect
  <2> QED
    BY <2>3, <2>4
<1>5. CASE process' = "relaying" /\ fromBlock' = search.low /\ search' = NoSearch
  <2>1. PICK from \in Nat : from = search.low
    BY <1>3
  <2>2. /\ InboundNonceAt(from - 1) <= InboundNonceAt(from)
        /\ InboundNonceAt(from) \in Nat /\ InboundNonceAt(from - 1) \in Nat
    BY NonceAtMonotone, NonceAtBound
  <2>3. InboundNonceAt(from - 1) <= accountNonce /\ from <= head
    BY <1>2, <1>3, <2>1, <2>2
  <2>4. InboundNonceAt(fromBlock - 1)' <= accountNonce'
    BY <1>1, <1>5, <2>1, <2>3 DEF InboundNonceAt
  <2>5. search' \in [nonce : 0..MaxEvents, low : 0..MaxBlock, high : 0..MaxBlock]
    BY <1>3, <1>5 DEF NoSearch
  <2> QED
    BY <1>1, <1>3, <1>5, <2>1, <2>3, <2>4, <2>5 DEF SearchInv
<1> QED
  BY <1>4, <1>5 DEF Bisect

LEMMA SearchStep ==
    ASSUME OrderInv, ChainInv, EmittedInv, SearchInv, PlainInv, [Next]_vars
    PROVE  SearchInv'
<1>1. /\ accountNonce \in Nat /\ accountNonce' \in Nat /\ checkpointed \in Nat
      /\ head \in Nat /\ head' \in Nat /\ head <= head'
  <2>1. OrderInv' /\ ChainInv' /\ head <= head'
    BY OrderStep, ChainStep
  <2> QED
    BY <2>1, DepositAssumption DEF OrderInv, Typed, ChainInv, DepositAssumption
<1>2. CASE NewBlock \/ Certify \/ FormCheckpoint \/ UNCHANGED vars \/ ReadLive
           \/ EndOfStream \/ ReadClearing \/ (\E w \in interrupted : LateWrite(w))
           \/ (\E t \in Tasks : Handle(t) \/ Receive(t))
  <2>1. UNCHANGED <<process, readHead, startVars>>
        /\ (accountNonce' = accountNonce \/ accountNonce' = accountNonce + 1)
    BY <1>2 DEF NewBlock, Certify, FormCheckpoint, vars, ReadLive, Subscribe,
       ReadLiveStart, Replay, Follow, EndOfStream, ReadClearing, BeginSweep, Sweep,
       Handle, TakeEvent, CheckNonce, PollNonce, Submit, WriteRefused, Receive,
       Register, Link, ReceiptFails, LateWrite, Goes, accountVars, taskVars
  <2> QED
    BY <1>1, <2>1, SearchFrame
<1>3. CASE SearchStart
  BY <1>3, SearchStartKeeps
<1>4. CASE Bisect
  BY <1>4, BisectKeeps
<1>5. CASE \/ Start \/ DepositsRecovered \/ ReadHead
           \/ \E n \in Nonces : RecoverDeposit(n) \/ RecoverWithdrawal(n)
  <2>1. /\ UNCHANGED <<head, startVars>> /\ process' \notin {"bisecting", "relaying"}
        /\ readHead' \in {readHead, checkpointed, head}
        /\ process' = "searching" => readHead' = head
    BY <1>5 DEF Start, DepositsRecovered, ReadHead, RecoverDeposit, RecoverWithdrawal,
       chainVars, taskVars
  <2> QED
    BY <1>1, <2>1 DEF SearchInv, startVars
<1>6. CASE Crash
  <2>1. /\ process' = "down" /\ search' = NoSearch /\ readHead' = 0 /\ fromBlock' = 0
    BY <1>6 DEF Crash
  <2>2. /\ search' \in [nonce : 0..MaxEvents, low : 0..MaxBlock, high : 0..MaxBlock]
        /\ 0 \in 0..MaxBlock
    BY <2>1, DepositAssumption DEF NoSearch, DepositAssumption
  <2> QED
    BY <2>1, <2>2 DEF SearchInv
<1> QED
  BY <1>2, <1>3, <1>4, <1>5, <1>6 DEF Next, Starting

LEMMA DepositInit == Init => DepositInv
<1> SUFFICES ASSUME Init PROVE DepositInv
  OBVIOUS
<1>1. OrderInv
  BY OrderInit
<1>2. /\ MaxEvents \in Nat /\ MaxBlock \in Nat /\ MaxFaults \in Nat /\ Len(<<>>) = 0
  BY DepositAssumption DEF DepositAssumption
<1>3. ChainInv
  BY <1>2 DEF Init, ChainInv
<1>4. EmittedInv
  BY <1>2 DEF Init, EmittedInv, NoJob
<1>5. SearchInv
  BY <1>2 DEF Init, SearchInv, NoSearch
<1>6. PlainInv
  BY <1>2 DEF Init, PlainInv, StreamType, NoStream
<1>7. MappingInv
  BY DEF Init, MappingInv, EntryType, EntriesAreKeys, LateLinksFollow,
     LinksNameTransactions
<1> QED
  BY <1>1, <1>3, <1>4, <1>5, <1>6, <1>7 DEF DepositInv

LEMMA DepositStep == DepositInv /\ [Next]_vars => DepositInv'
BY OrderStep, ChainStep, EmittedStep, SearchStep, PlainStep, MappingStep DEF DepositInv

LEMMA DepositInvariant == Spec => []DepositInv
BY DepositInit, DepositStep, PTL DEF Spec

(* The incoming half stays in its types, whatever the two tasks, the chain     *)
(* and crashes do: what the tasks handle and 1Money accepts are numbers of    *)
(* events that the contract has emitted, the start block is a block of the    *)
(* chain, and an entry of the mapping links to one of them or to another      *)
(* account's transaction.                                                   *)
THEOREM DepositTypeCorrect == Spec => []TypeOK
<1>1. ASSUME DepositInv PROVE TypeOK
  <2>1. /\ MaxEvents \in Nat /\ MaxBlock \in Nat /\ Len(events) \in Nat
        /\ Len(events) <= MaxEvents /\ head \in 0..MaxBlock
    BY <1>1, DepositAssumption DEF DepositInv, ChainInv, DepositAssumption
  <2>2. Emitted \subseteq Nonces /\ Seq(Emitted) \subseteq Seq(Nonces)
    <3>1. Emitted \subseteq Nonces
      BY <2>1 DEF Emitted, Nonces
    <3> QED
      BY <3>1
  <2>3. events \in Seq(0..MaxBlock)
    <3>1. events \in [1..Len(events) -> Nat] /\ events = [i \in 1..Len(events) |-> events[i]]
      BY <1>1, LenProperties DEF DepositInv, ChainInv
    <3>2. \A i \in 1..Len(events) : events[i] \in 0..MaxBlock
      BY <1>1, <2>1 DEF DepositInv, ChainInv
    <3>3. events \in [1..Len(events) -> 0..MaxBlock]
      BY <3>1, <3>2
    <3> QED
      BY <2>1, <3>3, SeqDef
  <2>4. accountNonce \in 0..MaxEvents /\ checkpointed \in 0..MaxEvents
    BY <1>1, <2>1 DEF DepositInv, OrderInv, Typed, CertifiedFirst, EmittedInv
  <2>5. /\ submitted \subseteq Nonces /\ subscription \in Seq(Nonces)
        /\ queue \in [Tasks -> Seq(Nonces)]
    BY <1>1, <2>2 DEF DepositInv, EmittedInv
  <2>6. /\ mapping \in [Nonces -> EntryType]
        /\ interrupted \subseteq [state : {"register", "link"}, nonce : Nonces]
        /\ job \in [Tasks -> [state : {"idle", "check", "wait", "register", "submit", "link"},
                             nonce : Nat]]
    BY <1>1 DEF DepositInv, MappingInv, OrderInv, Typed, JobType
  <2>7. /\ search \in [nonce : 0..MaxEvents, low : 0..MaxBlock, high : 0..MaxBlock]
        /\ fromBlock \in 0..MaxBlock /\ readHead \in Nat
    BY <1>1 DEF DepositInv, SearchInv
  <2>8. /\ process \in {"down", "deposits", "refunds", "searching", "bisecting", "relaying"}
        /\ bridgeLinked \subseteq Nonces \ Deposits
        /\ stream \in StreamType /\ sweep \in [next : Nat, last : Nat]
        /\ faults \in 0..MaxFaults
    BY <1>1 DEF DepositInv, PlainInv
  <2> QED
    BY <2>1, <2>3, <2>4, <2>5, <2>6, <2>7, <2>8 DEF TypeOK, StreamType, EntryType
<1> QED
  BY <1>1, DepositInvariant, PTL

(* A link of the hash mapping names a transaction that 1Money has and that     *)
(* answers an event of its entry, for the links the tasks make, for those    *)
(* that take effect after nobody awaits them and for those of the two        *)
(* recoveries; the recoveries alone can name another account's transaction,  *)
(* where there is one that they take for the relayer's.                      *)
THEOREM LinksAreTrue == Spec => []LinksNameTransactions
<1>1. DepositInv => LinksNameTransactions
  BY DEF DepositInv, MappingInv
<1> QED BY <1>1, DepositInvariant, PTL

(* get_latest_incomplete_block_number is never too late, for any number of     *)
(* blocks and events and however many of them come, and however many          *)
(* transactions 1Money certifies, while the bisection goes on.               *)
THEOREM StartIsEarlyEnough == Spec => []StartsEarlyEnough
<1>1. DepositInv => StartsEarlyEnough
  BY DEF DepositInv, SearchInv, StartsEarlyEnough
<1> QED
  BY <1>1, DepositInvariant, PTL

(* No task works while the process starts, so what 1Money has and may still    *)
(* certify answers events up to the head that the start has read.            *)
StartInv ==
    /\ process # "relaying" => \A t \in Tasks : job[t].state = "idle" /\ queue[t] = <<>>
    /\ process = "searching" =>
           submitted \subseteq 0..InboundNonceAt(readHead) - 1
           /\ accountNonce <= InboundNonceAt(readHead)

LEMMA StartStep ==
    ASSUME DepositInv, StartInv, [Next]_vars
    PROVE  StartInv'
<1>1. /\ \A b \in Int : b <= head => InboundNonceAt(b)' = InboundNonceAt(b)
      /\ accountNonce \in Nat /\ head \in Nat /\ readHead \in Nat
      /\ process = "searching" => readHead <= head
  BY ChainStep, DepositAssumption
     DEF DepositInv, OrderInv, Typed, ChainInv, SearchInv, DepositAssumption
<1>2. PICK block \in Nat : block = readHead
  BY <1>1
<1>3. process' # "relaying" => \A t \in Tasks : job'[t].state = "idle" /\ queue'[t] = <<>>
  <2>1. CASE Crash
    BY <2>1 DEF Crash, NoTasks, NoJob
  <2>2. CASE process' # "relaying" /\ ~Crash
    <3>1. process # "relaying" /\ UNCHANGED <<job, queue>>
      BY <2>2 DEF StartInv, Next, vars, NewBlock, Certify, FormCheckpoint, Starting,
         Start, RecoverDeposit, RecoverWithdrawal, DepositsRecovered, ReadHead,
         SearchStart, Bisect, ReadLive, Subscribe, ReadLiveStart, Replay, Follow,
         EndOfStream, ReadClearing, BeginSweep, Sweep, Idle, Handle, TakeEvent,
         CheckNonce, PollNonce, Submit, WriteRefused, Receive, Register, Link,
         ReceiptFails, AwaitsReceipt, LateWrite, Goes, taskVars
    <3> QED
      BY <3>1, <2>2 DEF StartInv
  <2> QED
    BY <2>1, <2>2
<1>4. CASE process' = "searching" /\ process = "searching"
  <2>1. /\ submitted \subseteq 0..InboundNonceAt(block) - 1
        /\ accountNonce <= InboundNonceAt(block) /\ block <= head
    BY <1>1, <1>2, <1>4 DEF StartInv
  <2>2. /\ readHead' = readHead /\ submitted' = submitted
        /\ accountNonce' = accountNonce \/ (accountNonce \in submitted
                                           /\ accountNonce' = accountNonce + 1)
    BY <1>4 DEF StartInv, Next, vars, NewBlock, Certify, FormCheckpoint, Starting,
       Start, RecoverDeposit, RecoverWithdrawal, DepositsRecovered, ReadHead,
       SearchStart, Bisect, Crash, ReadLive, Subscribe, ReadLiveStart, Replay, Follow,
       EndOfStream, ReadClearing, BeginSweep, Sweep, Idle, Handle, TakeEvent,
       CheckNonce, PollNonce, Submit, WriteRefused, Receive, Register, Link,
       ReceiptFails, AwaitsReceipt, LateWrite, accountVars
  <2>3. InboundNonceAt(block)' = InboundNonceAt(block) /\ InboundNonceAt(block) \in Nat
    BY <1>1, <2>1, NonceAtBound DEF DepositInv
  <2>4. /\ submitted' \subseteq 0..InboundNonceAt(block)' - 1
        /\ accountNonce' <= InboundNonceAt(block)'
    BY <1>1, <2>1, <2>2, <2>3
  <2>5. InboundNonceAt(readHead)' = InboundNonceAt(block)'
    BY <1>2, <2>2 DEF InboundNonceAt
  <2> QED
    BY <1>3, <2>4, <2>5 DEF StartInv
<1>5. CASE process' = "searching" /\ process # "searching"
  <2>1. ReadHead
    BY <1>5 DEF Next, vars, NewBlock, Certify, FormCheckpoint, Starting, Start,
       RecoverDeposit, RecoverWithdrawal, DepositsRecovered, SearchStart, Bisect, Crash,
       ReadLive, Subscribe, ReadLiveStart, Replay, Follow, EndOfStream, ReadClearing,
       BeginSweep, Sweep, Handle, TakeEvent, CheckNonce, PollNonce, Submit,
       WriteRefused, Receive, Register, Link, ReceiptFails, AwaitsReceipt, LateWrite,
       Goes
  <2>2. /\ UNCHANGED <<events, submitted, accountNonce>> /\ readHead' = head
    BY <2>1 DEF ReadHead, chainVars, accountVars
  <2>3. InboundNonceAt(head) = Len(events)
    BY <1>1, NonceAtEnds DEF DepositInv
  <2>4. InboundNonceAt(readHead)' = InboundNonceAt(head)
    BY <2>2 DEF InboundNonceAt
  <2>5. /\ submitted' \subseteq 0..InboundNonceAt(head) - 1
        /\ accountNonce' <= InboundNonceAt(head)
    BY <2>2, <2>3 DEF DepositInv, EmittedInv, Emitted, ChainInv
  <2> QED
    BY <1>3, <2>4, <2>5 DEF StartInv
<1> QED
  BY <1>3, <1>4, <1>5 DEF StartInv

(* A restart is never refused because 1Money seems to be ahead, whatever was   *)
(* left uncertified when the process stopped and whatever is emitted since.  *)
THEOREM StartNeverRefused == Spec => []NonceWithinEvents
<1>1. Init => StartInv
  BY DEF Init, StartInv, NoJob
<1>2. DepositInv /\ StartInv /\ [Next]_vars => StartInv'
  BY StartStep
<1>3. StartInv => NonceWithinEvents
  BY DEF StartInv, NonceWithinEvents
<1> QED
  BY <1>1, <1>2, <1>3, DepositInvariant, PTL DEF Spec

-----------------------------------------------------------------------------
(* The stream: the subscription holds the last events, and the replay reaches  *)
(* the first of them.                                                        *)

LEMMA StreamTypes ==
    ASSUME DepositInv
    PROVE  /\ stream.next \in Nat /\ stream.last \in Nat /\ stream.position \in Nat
           /\ Len(events) \in Nat /\ Len(subscription) \in Nat /\ head \in Nat
           /\ FirstToCome \in Int /\ stream \in StreamType /\ subscription \in Seq(Nat)
           /\ \A b : InboundNonceAt(b) \in Nat /\ InboundNonceAt(b) <= Len(events)
<1>1. /\ stream \in StreamType /\ subscription \in Seq(Nat) /\ events \in Seq(Nat)
      /\ head \in 0..MaxBlock /\ MaxBlock \in Nat
  BY DepositAssumption DEF DepositInv, PlainInv, OrderInv, Typed, ChainInv,
     DepositAssumption
<1>2. Len(events) \in Nat /\ Len(subscription) \in Nat
  BY <1>1
<1>3. \A b : InboundNonceAt(b) \in Nat /\ InboundNonceAt(b) <= Len(events)
  BY NonceAtBound, <1>2 DEF DepositInv
<1>4. stream.next \in Nat /\ stream.last \in Nat /\ stream.position \in Nat
  BY <1>1 DEF StreamType
<1> QED
  BY <1>1, <1>2, <1>3, <1>4 DEF FirstToCome

(* What the live task has to hand out after a step, as StreamLosesOnlyOverlap *)
(* has it.                                                                  *)
HandsOutNext ==
    stream.phase \in {"history", "follow"} /\ process' = "relaying"
       /\ (queue["live"] = <<>> \/ stream'.position # stream.position) =>
           \E first \in stream.position..stream'.position :
               /\ queue'["live"] = [i \in 1..stream'.position - first |-> first + i - 1]
               /\ stream.position..first - 1 \subseteq
                      (IF stream.phase = "history" THEN AskedBeforeTheyCame ELSE {})

LEMMA NothingHandedOut ==
    ASSUME stream.position \in Nat, stream'.position = stream.position,
           queue["live"] = <<>> => queue'["live"] = <<>>
    PROVE  HandsOutNext
<1>1. stream.position \in stream.position..stream'.position
  OBVIOUS
<1>2. /\ [i \in 1..stream.position - stream.position |-> stream.position + i - 1] = <<>>
      /\ stream.position..stream.position - 1 = {}
  OBVIOUS
<1> QED
  BY <1>1, <1>2 DEF HandsOutNext

LEMMA StreamFrame ==
    ASSUME StreamInv, UNCHANGED <<events, head, stream, subscription>>
    PROVE  StreamInv'
BY DEF StreamInv, FirstToCome, InboundNonceAt

(* A new block adds to the end of what is subscribed; what a finished query    *)
(* covered stays as it was, unless the query had asked past the head.  Then  *)
(* all events that the replay must not lose have been handed out.           *)
LEMMA StreamNewBlock ==
    ASSUME DepositInv, StreamInv, NewBlock
    PROVE  StreamInv'
<1>1. PICK k \in 0..MaxEvents - Len(events) :
          /\ events' = events \o [i \in 1..k |-> head + 1]
          /\ subscription' =
                 IF stream.phase \in {"head", "history", "follow"}
                 THEN subscription \o [i \in 1..k |-> Len(events) + i - 1]
                 ELSE subscription
  BY DEF NewBlock
<1>2. /\ stream.next \in Nat /\ stream.last \in Nat /\ stream.position \in Nat
      /\ Len(events) \in Nat /\ Len(subscription) \in Nat /\ head \in Nat /\ k \in Nat
      /\ subscription \in Seq(Nat) /\ events \in Seq(Nat) /\ stream' = stream
      /\ head' = head + 1
  BY StreamTypes DEF NewBlock, DepositInv, ChainInv
<1> DEFINE blocks == [i \in 1..k |-> head + 1]
           logs   == [i \in 1..k |-> Len(events) + i - 1]
<1>3. blocks \in Seq(Nat) /\ Len(blocks) = k /\ logs \in Seq(Nat) /\ Len(logs) = k
  BY <1>2
<1>4. Len(events') = Len(events) + k
  BY <1>1, <1>2, <1>3, ConcatProperties
<1>5. \A b \in Int :
          /\ b <= head => InboundNonceAt(b)' = InboundNonceAt(b)
          /\ InboundNonceAt(b) <= InboundNonceAt(b)' /\ InboundNonceAt(b)' \in Nat
  BY ChainStep DEF DepositInv, Next
<1>6. PICK b \in Int, c \in Int : b = stream.next - 1 /\ c = stream.last - Overlap
  BY <1>2, DepositAssumption DEF DepositAssumption
<1>7. ASSUME stream.phase \in {"head", "history", "follow"}
      PROVE  /\ FirstToCome' = FirstToCome /\ Len(subscription') <= Len(events')
             /\ \A i \in 1..Len(subscription') : subscription'[i] = FirstToCome' + i - 1
             /\ stream.position <= Len(events')
  <2>1. /\ Len(subscription') = Len(subscription) + k
        /\ \A i \in 1..Len(subscription) + k : subscription'[i] =
               IF i <= Len(subscription) THEN subscription[i] ELSE logs[i - Len(subscription)]
    BY <1>1, <1>2, <1>3, <1>7, ConcatProperties
  <2>2. FirstToCome' = FirstToCome /\ FirstToCome = Len(events) - Len(subscription)
    BY <1>2, <1>4, <2>1 DEF FirstToCome
  <2>3. /\ Len(subscription) <= Len(events) /\ stream.position <= Len(events)
        /\ \A i \in 1..Len(subscription) : subscription[i] = FirstToCome + i - 1
    BY <1>7 DEF StreamInv
  <2>4. \A j \in 1..k : logs[j] = Len(events) + j - 1
    OBVIOUS
  <2> HIDE DEF logs
  <2>5. ASSUME NEW i \in 1..Len(subscription) + k
        PROVE  subscription'[i] = FirstToCome + i - 1
    <3>1. CASE i <= Len(subscription)
      <4>1. i \in 1..Len(subscription) /\ subscription'[i] = subscription[i]
        BY <1>2, <2>1, <3>1
      <4> QED
        BY <2>3, <4>1
    <3>2. CASE i > Len(subscription)
      <4>1. PICK j \in 1..k : j = i - Len(subscription)
        BY <1>2, <3>2
      <4>2. subscription'[i] = Len(events) + j - 1
        BY SMTT(20), <1>2, <2>1, <2>4, <3>2, <4>1
      <4> QED
        BY <1>2, <2>2, <4>1, <4>2
    <3> QED
      BY <1>2, <3>1, <3>2
  <2> QED
    BY <1>2, <1>4, <2>1, <2>2, <2>3, <2>5
<1>8. ASSUME stream.phase = "head"
      PROVE  stream.next <= head' /\ stream.position = InboundNonceAt(b)'
  <2>1. stream.next <= head /\ stream.position = InboundNonceAt(b)
    BY <1>6, <1>8 DEF StreamInv
  <2>2. b <= head /\ stream.next <= head'
    BY <1>2, <1>6, <2>1
  <2>3. InboundNonceAt(b)' = InboundNonceAt(b)
    BY <1>5, <2>2
  <2> QED
    BY <2>1, <2>2, <2>3
<1>9. ASSUME stream.phase = "history", stream.next <= stream.last
      PROVE  /\ c <= head' /\ FirstToCome' <= InboundNonceAt(c)'
             /\ stream.position <= InboundNonceAt(b)'
             /\ stream.position = InboundNonceAt(b)' \/ InboundNonceAt(c)' <= stream.position
  <2>1. /\ c <= head /\ FirstToCome <= InboundNonceAt(c)
        /\ stream.position <= InboundNonceAt(b)
        /\ stream.position = InboundNonceAt(b) \/ InboundNonceAt(c) <= stream.position
    BY <1>6, <1>9 DEF StreamInv
  <2>2. /\ InboundNonceAt(c)' = InboundNonceAt(c) /\ FirstToCome' = FirstToCome
        /\ InboundNonceAt(b) <= InboundNonceAt(b)'
        /\ b <= head => InboundNonceAt(b)' = InboundNonceAt(b)
        /\ InboundNonceAt(b) \in Nat /\ InboundNonceAt(b)' \in Nat
        /\ InboundNonceAt(c) \in Nat /\ FirstToCome \in Int
    BY <1>5, <1>7, <1>9, <2>1, StreamTypes
  <2>3. b > head => InboundNonceAt(c) <= InboundNonceAt(b)
    <3>1. b > head => c <= b
      BY <1>2, <2>1
    <3> QED
      BY <3>1, NonceAtMonotone DEF DepositInv
  <2>4. c <= head'
    BY <1>2, <2>1
  <2>5. FirstToCome' <= InboundNonceAt(c)' /\ stream.position <= InboundNonceAt(b)'
    BY <1>2, <2>1, <2>2
  <2>6. stream.position = InboundNonceAt(b)' \/ InboundNonceAt(c)' <= stream.position
    <3>1. CASE b <= head
      BY <2>1, <2>2, <3>1
    <3>2. CASE b > head
      <4>1. InboundNonceAt(c) <= stream.position
        BY <2>1, <2>3, <3>2
      <4> QED
        BY <2>2, <4>1
    <3> QED
      BY <1>2, <3>1, <3>2
  <2> QED
    BY <2>4, <2>5, <2>6
<1>10. /\ InboundNonceAt(stream.next - 1)' = InboundNonceAt(b)'
       /\ InboundNonceAt(stream.last - Overlap)' = InboundNonceAt(c)'
  BY <1>2, <1>6 DEF InboundNonceAt
<1>11. stream.phase = "connect" => subscription' = <<>>
  BY <1>1 DEF StreamInv
<1> QED
  BY <1>2, <1>6, <1>7, <1>8, <1>9, <1>10, <1>11 DEF StreamInv

LEMMA StreamSubscribe ==
    ASSUME DepositInv, StreamInv, Subscribe \/ ReadLiveStart
    PROVE  StreamInv'
<1>1. /\ UNCHANGED <<events, head, subscription>> /\ \A b : InboundNonceAt(b)' = InboundNonceAt(b)
      /\ FirstToCome' = FirstToCome
  BY DEF Subscribe, ReadLiveStart, chainVars, InboundNonceAt, FirstToCome
<1>2. /\ stream.next \in Nat /\ Len(events) \in Nat /\ Len(subscription) \in Nat
      /\ head \in Nat /\ FirstToCome = Len(events) - Len(subscription) /\ stream \in StreamType
      /\ \A b : InboundNonceAt(b) \in Nat /\ InboundNonceAt(b) <= Len(events)
  BY StreamTypes DEF FirstToCome
<1>3. CASE Subscribe
  <2>1. /\ fromBlock \in Nat /\ fromBlock <= head /\ subscription = <<>>
        /\ stream' = [phase |-> "head", next |-> fromBlock, last |-> 0,
                      position |-> InboundNonceAt(fromBlock - 1)]
    BY <1>3, DepositAssumption
       DEF DepositInv, SearchInv, StreamInv, Subscribe, DepositAssumption
  <2>2. Len(subscription) = 0
    BY <2>1
  <2>3. InboundNonceAt(stream.next - 1)' = InboundNonceAt(fromBlock - 1)
    BY <1>1, <2>1 DEF InboundNonceAt
  <2> QED
    BY <1>1, <1>2, <2>1, <2>2, <2>3 DEF StreamInv
<1>4. CASE ReadLiveStart
  <2>1. /\ stream.phase = "head" /\ Overlap \in Nat
        /\ stream' = [stream EXCEPT !.phase = "history", !.last = head + Overlap]
    BY <1>4, DepositAssumption DEF ReadLiveStart, DepositAssumption
  <2>2. PICK last \in Nat : last = head + Overlap /\ last >= head /\ last - Overlap = head
    BY <1>2, <2>1
  <2>3. /\ stream'.phase = "history" /\ stream'.last = last /\ stream'.next = stream.next
        /\ stream'.position = stream.position
    BY <1>2, <2>1, <2>2 DEF StreamType
  <2>4. /\ stream.next <= head /\ stream.position = InboundNonceAt(stream.next - 1)
        /\ stream.position <= Len(events) /\ Len(subscription) <= Len(events)
        /\ \A i \in 1..Len(subscription) : subscription[i] = FirstToCome + i - 1
    BY <2>1 DEF StreamInv
  <2>5. InboundNonceAt(head) = Len(events)
    BY <1>2, NonceAtEnds DEF DepositInv
  <2>6. /\ InboundNonceAt(stream.next - 1)' = InboundNonceAt(stream.next - 1)
        /\ InboundNonceAt(stream.last - Overlap)' = InboundNonceAt(head)
    BY <1>1, <2>2, <2>3 DEF InboundNonceAt
  <2> QED
    BY <1>1, <1>2, <2>2, <2>3, <2>4, <2>5, <2>6 DEF StreamInv
<1> QED
  BY <1>3, <1>4

(* A query hands out the events of its blocks from the first one on; those     *)
(* before it that were not handed out had been asked for before they came.   *)
LEMMA StreamReplay ==
    ASSUME DepositInv, StreamInv, Replay
    PROVE  StreamInv' /\ HandsOutNext
<1>1. /\ UNCHANGED <<events, head, subscription>> /\ \A b : InboundNonceAt(b)' = InboundNonceAt(b)
      /\ FirstToCome' = FirstToCome /\ queue["live"] = <<>> /\ stream.phase = "history"
  BY DEF Replay, Idle, chainVars, InboundNonceAt, FirstToCome
<1>2. /\ stream.next \in Nat /\ stream.last \in Nat /\ stream.position \in Nat
      /\ BlockRange \in Nat \ {0} /\ Overlap \in Nat /\ stream \in StreamType
      /\ Len(events) \in Nat /\ FirstToCome \in Int
      /\ \A b : InboundNonceAt(b) \in Nat /\ InboundNonceAt(b) <= Len(events)
      /\ queue \in [Tasks -> Seq(Nat)] /\ "live" \in Tasks
  BY StreamTypes, DepositAssumption DEF DepositAssumption, DepositInv, OrderInv, Typed,
     Tasks
<1>3. /\ Len(subscription) <= Len(events) /\ stream.position <= Len(events)
      /\ \A i \in 1..Len(subscription) : subscription[i] = FirstToCome + i - 1
  BY <1>1 DEF StreamInv
<1>4. CASE stream.next > stream.last
  <2>1. stream' = [stream EXCEPT !.phase = "follow", !.next = 0, !.last = 0] /\ queue' = queue
    BY <1>2, <1>4 DEF Replay
  <2>2. stream'.phase = "follow" /\ stream'.position = stream.position
    BY <1>2, <2>1 DEF StreamType
  <2>3. FirstToCome <= stream.position
    BY <1>1, <1>4 DEF StreamInv
  <2>4. StreamInv'
    BY <1>1, <1>3, <2>2, <2>3 DEF StreamInv
  <2> QED
    BY <1>1, <1>2, <2>1, <2>2, <2>4, NothingHandedOut
<1>5. CASE stream.next <= stream.last
  <2>1. PICK end \in Nat :
            /\ stream.next <= end /\ end <= stream.last
            /\ queue' = [queue EXCEPT !["live"] = EventsIn(stream.next, end)]
            /\ stream' = [stream EXCEPT !.next = end + 1,
                   !.position = IF EventsIn(stream.next, end) = <<>> THEN @
                                ELSE Last(EventsIn(stream.next, end)) + 1]
    <3> DEFINE e == IF stream.next + BlockRange - 1 < stream.last
                    THEN stream.next + BlockRange - 1 ELSE stream.last
    <3>1. e \in Nat /\ stream.next <= e /\ e <= stream.last
      BY <1>2, <1>5
    <3>2. /\ queue' = [queue EXCEPT !["live"] = EventsIn(stream.next, e)]
          /\ stream' = [stream EXCEPT !.next = e + 1,
                 !.position = IF EventsIn(stream.next, e) = <<>> THEN @
                              ELSE Last(EventsIn(stream.next, e)) + 1]
      BY <1>5 DEF Replay
    <3> HIDE DEF e
    <3> QED
      BY <3>1, <3>2
  <2>2. PICK before \in Nat, after \in Nat, kept \in Nat :
            /\ before = InboundNonceAt(stream.next - 1) /\ after = InboundNonceAt(end)
            /\ kept = InboundNonceAt(stream.last - Overlap)
    BY <1>2
  <2>3. /\ stream.last - Overlap <= head /\ FirstToCome <= kept
        /\ stream.position <= before
        /\ stream.position = before \/ kept <= stream.position
    BY <1>1, <1>5, <2>2 DEF StreamInv
  <2>4. /\ ChainInv /\ stream.next \in Int /\ stream.next - 1 \in Int /\ end \in Int
        /\ stream.next - 1 <= end
        /\ stream.last \in Int /\ stream.last - Overlap \in Int
        /\ stream.last - Overlap <= stream.last
    BY SMTT(20), <1>2, <2>1 DEF DepositInv
  <2>5. /\ before <= after /\ after <= Len(events)
        /\ end = stream.last => kept <= after
    <3>1. InboundNonceAt(stream.next - 1) <= InboundNonceAt(end)
      BY <2>4, NonceAtMonotone
    <3>2. InboundNonceAt(stream.last - Overlap) <= InboundNonceAt(stream.last)
      BY <2>4, NonceAtMonotone
    <3> QED
      BY <1>2, <2>2, <3>1, <3>2
  <2>6. /\ EventsIn(stream.next, end) = [i \in 1..after - before |-> before + i - 1]
        /\ Len(EventsIn(stream.next, end)) = after - before
    <3>1. /\ EventsIn(stream.next, end) =
                 [i \in 1..InboundNonceAt(end) - InboundNonceAt(stream.next - 1) |->
                     InboundNonceAt(stream.next - 1) + i - 1]
          /\ Len(EventsIn(stream.next, end)) =
                 InboundNonceAt(end) - InboundNonceAt(stream.next - 1)
      BY <2>4, EventsInShape
    <3> QED
      BY <2>2, <3>1
  <2> DEFINE logs == EventsIn(stream.next, end)
             position == IF before = after THEN stream.position ELSE after
  <2>7. (IF logs = <<>> THEN stream.position ELSE Last(logs) + 1) = position
    <3>1. CASE before = after
      <4>1. logs = <<>>
        BY <2>6, <3>1
      <4> QED
        BY <3>1, <4>1
    <3>2. CASE before # after
      <4>1. after - before \in 1..after - before
        BY <2>5, <3>2
      <4>2. logs # <<>> /\ Last(logs) = before + (after - before) - 1
        BY <2>6, <4>1 DEF Last
      <4> QED
        BY <3>2, <4>2
    <3> QED
      BY <3>1, <3>2
  <2>8. /\ stream'.phase = "history" /\ stream'.next = end + 1 /\ stream'.last = stream.last
        /\ stream'.position = position
    BY <1>1, <1>2, <2>1, <2>7 DEF StreamType
  <2>9. queue'["live"] = [i \in 1..after - before |-> before + i - 1]
    BY <1>2, <2>1, <2>6
  <2>10. HandsOutNext
    <3>1. CASE before = after
      <4>1. queue'["live"] = <<>> /\ stream'.position = stream.position
        BY <2>8, <2>9, <3>1
      <4> QED
        BY <1>2, <4>1, NothingHandedOut
    <3>2. CASE before # after
      <4>1. /\ before \in stream.position..stream'.position
            /\ queue'["live"] = [i \in 1..stream'.position - before |-> before + i - 1]
        BY <1>2, <2>3, <2>5, <2>8, <2>9, <3>2
      <4>2. stream.position..before - 1 \subseteq kept..before - 1
        BY <1>2, <2>3
      <4>3. AskedBeforeTheyCame = kept..before - 1
        BY <2>2 DEF AskedBeforeTheyCame
      <4> QED
        BY <1>1, <4>1, <4>2, <4>3 DEF HandsOutNext
    <3> QED
      BY <3>1, <3>2
  <2>11. /\ position \in Nat /\ position <= after /\ position <= Len(events)
         /\ position = after \/ kept <= position
         /\ end + 1 > stream.last => FirstToCome <= position
    <3>1. end + 1 > stream.last => end = stream.last
      BY <1>2, <2>1
    <3> QED
      BY <1>2, <1>3, <2>3, <2>5, <3>1
  <2> HIDE DEF logs, position
  <2>12. /\ InboundNonceAt(stream.next - 1)' = after
         /\ InboundNonceAt(stream.last - Overlap)' = kept
    <3>1. end + 1 - 1 = end
      OBVIOUS
    <3> QED
      BY <1>1, <2>2, <2>8, <3>1 DEF InboundNonceAt
  <2>13. StreamInv'
    BY <1>1, <1>2, <1>3, <2>3, <2>8, <2>11, <2>12 DEF StreamInv
  <2> QED
    BY <2>10, <2>13
<1> QED
  BY <1>2, <1>4, <1>5

(* What is handed out of the subscription is the event after the last one.    *)
LEMMA StreamFollow ==
    ASSUME DepositInv, StreamInv, Follow
    PROVE  StreamInv' /\ HandsOutNext
<1>1. /\ UNCHANGED <<events, head>> /\ queue["live"] = <<>> /\ stream.phase = "follow"
      /\ subscription # <<>> /\ subscription' = Tail(subscription)
  BY DEF Follow, Idle, chainVars
<1>2. /\ stream.position \in Nat /\ stream \in StreamType /\ subscription \in Seq(Nat)
      /\ Len(events) \in Nat /\ Len(subscription) \in Nat /\ FirstToCome \in Int
      /\ queue \in [Tasks -> Seq(Nat)] /\ "live" \in Tasks
  BY StreamTypes DEF DepositInv, OrderInv, Typed, Tasks
<1>3. /\ Len(subscription) <= Len(events) /\ stream.position <= Len(events)
      /\ \A i \in 1..Len(subscription) : subscription[i] = FirstToCome + i - 1
      /\ FirstToCome <= stream.position
  BY <1>1 DEF StreamInv
<1>4. /\ Len(subscription) # 0 /\ Len(subscription') = Len(subscription) - 1
      /\ \A i \in 1..Len(subscription') : subscription'[i] = subscription[i + 1]
      /\ Head(subscription) = subscription[1]
  BY <1>1, <1>2, EmptySeq, HeadTailProperties
<1>5. FirstToCome' = FirstToCome + 1 /\ Head(subscription) = FirstToCome
      /\ FirstToCome + 1 <= Len(events)
  <2>1. 1 \in 1..Len(subscription) /\ FirstToCome + 1 - 1 = FirstToCome
    BY <1>2, <1>4
  <2>2. Head(subscription) = FirstToCome
    BY <1>3, <1>4, <2>1
  <2>3. FirstToCome' = FirstToCome + 1 /\ FirstToCome + 1 <= Len(events)
    BY <1>1, <1>2, <1>4 DEF FirstToCome
  <2> QED
    BY <2>2, <2>3
<1>6. \A i \in 1..Len(subscription') : subscription'[i] = FirstToCome' + i - 1
  BY <1>2, <1>3, <1>4, <1>5
<1>7. CASE FirstToCome >= stream.position
  <2>1. /\ FirstToCome = stream.position
        /\ queue' = [queue EXCEPT !["live"] = <<stream.position>>]
        /\ stream' = [stream EXCEPT !.position = stream.position + 1]
    BY <1>2, <1>3, <1>5, <1>7 DEF Follow, ShouldEmit
  <2>2. /\ stream'.position = stream.position + 1 /\ stream'.phase = "follow"
        /\ queue'["live"] = <<stream.position>>
    BY <1>1, <1>2, <2>1 DEF StreamType
  <2>3. <<stream.position>> = [i \in 1..1 |-> stream.position + i - 1]
    BY <1>2
  <2>4. stream'.position - stream.position = 1
    BY <1>2, <2>2
  <2> QED
    <3>1. HandsOutNext
      <4>1. queue'["live"] = [i \in 1..stream'.position - stream.position |->
                                 stream.position + i - 1]
        BY <2>2, <2>3, <2>4
      <4>2. /\ stream.position \in stream.position..stream'.position
            /\ stream.position..stream.position - 1 = {}
        BY <1>2, <2>2
      <4> QED
        BY <4>1, <4>2 DEF HandsOutNext
    <3>2. Len(subscription') <= Len(events') /\ stream'.position <= Len(events')
          /\ FirstToCome' <= stream'.position
      BY <1>1, <1>2, <1>3, <1>4, <1>5, <2>1, <2>2
    <3>3. StreamInv'
      BY <1>6, <2>2, <3>2 DEF StreamInv
    <3> QED
      BY <3>1, <3>3
<1>8. CASE ~(FirstToCome >= stream.position)
  <2>1. UNCHANGED <<queue, stream>>
    BY <1>5, <1>8 DEF Follow, ShouldEmit
  <2>2. StreamInv'
    BY SMTT(20), <1>1, <1>2, <1>3, <1>4, <1>5, <1>6, <1>8, <2>1 DEF StreamInv
  <2> QED
    BY <1>1, <1>2, <2>1, <2>2, NothingHandedOut
<1> QED
  BY <1>7, <1>8

LEMMA StreamStep ==
    ASSUME DepositInv, StreamInv, [Next]_vars
    PROVE  StreamInv' /\ HandsOutNext
<1>1. /\ queue \in [Tasks -> Seq(Nat)] /\ "live" \in Tasks /\ "live" # "clearing"
      /\ stream.position \in Nat
  BY StreamTypes DEF DepositInv, OrderInv, Typed, Tasks
<1>2. CASE NewBlock
  <2>1. UNCHANGED <<stream, queue>>
    BY <1>2 DEF NewBlock
  <2> QED
    BY <1>1, <1>2, <2>1, StreamNewBlock, NothingHandedOut
<1>3. CASE Certify \/ FormCheckpoint \/ UNCHANGED vars \/ ReadClearing \/ Starting
           \/ (\E w \in interrupted : LateWrite(w)) \/ (\E t \in Tasks : Handle(t) \/ Receive(t))
  <2>1. UNCHANGED <<events, head, stream, subscription>>
    BY <1>3 DEF Certify, FormCheckpoint, vars, ReadClearing, BeginSweep, Sweep,
       Starting, Start, RecoverDeposit, RecoverWithdrawal, DepositsRecovered, ReadHead,
       SearchStart, Bisect, Handle, TakeEvent, CheckNonce, PollNonce, Submit,
       WriteRefused, Receive, Register, Link, ReceiptFails, LateWrite, Goes, chainVars,
       taskVars, streamVars
  <2>2. queue["live"] = <<>> => queue'["live"] = <<>>
    BY <1>1, <1>3 DEF Certify, FormCheckpoint, vars, ReadClearing, BeginSweep, Sweep,
       Starting, Start, RecoverDeposit, RecoverWithdrawal, DepositsRecovered, ReadHead,
       SearchStart, Bisect, Handle, TakeEvent, CheckNonce, PollNonce, Submit,
       WriteRefused, Receive, Register, Link, ReceiptFails, LateWrite, Goes, taskVars
  <2> QED
    BY <1>1, <2>1, <2>2, StreamFrame, NothingHandedOut
<1>4. CASE Crash
  <2>1. process' = "down" /\ stream' = NoStream /\ subscription' = <<>>
    BY <1>4 DEF Crash, NoTasks
  <2> QED
    BY <2>1 DEF StreamInv, NoStream, HandsOutNext
<1>5. CASE Subscribe \/ ReadLiveStart
  BY <1>5, StreamSubscribe DEF Subscribe, ReadLiveStart, HandsOutNext
<1>6. CASE Replay
  BY <1>6, StreamReplay
<1>7. CASE Follow
  BY <1>7, StreamFollow
<1>8. CASE EndOfStream
  <2>1. /\ UNCHANGED <<events, head, subscription, queue>>
        /\ stream' = [stream EXCEPT !.phase = "ended"] /\ stream \in StreamType
    BY <1>8, StreamTypes DEF EndOfStream, chainVars
  <2>2. stream'.phase = "ended" /\ stream'.position = stream.position
    BY <2>1 DEF StreamType
  <2>3. StreamInv'
    BY <2>1, <2>2 DEF StreamInv
  <2> QED
    BY <1>1, <2>1, <2>2, <2>3, NothingHandedOut
<1> QED
  BY <1>2, <1>3, <1>4, <1>5, <1>6, <1>7, <1>8 DEF Next, ReadLive

LEMMA StreamInit == Init => StreamInv
BY DEF Init, StreamInv, NoStream

(* "First yields any historical events since from_block, then continues"       *)
(* (event.rs): the stream repeats nothing, keeps the order and loses nothing  *)
(* between the replay and the subscription, for any number of blocks and      *)
(* events, any overlap and any range of a query; what a replay of several     *)
(* queries does lose is of blocks past the head that the replay has read.     *)
THEOREM StreamLosesNothingElse == Spec => StreamLosesOnlyOverlap
<1>1. DepositInv /\ StreamInv /\ [Next]_vars => StreamInv' /\ [HandsOutNext]_vars
  BY StreamStep
<1> QED
  BY <1>1, StreamInit, DepositInvariant, PTL
     DEF Spec, StreamLosesOnlyOverlap, HandsOutNext

-----------------------------------------------------------------------------
(* Events by their numbers.                                                  *)

LinkedEvents == {n \in Nonces : \E e \in Nonces : mapping[e] = n}

(* The numbers of events, and those of the events that are done.              *)
LEMMA EmittedNumbers ==
    ASSUME DepositInv
    PROVE  /\ Emitted \subseteq Nonces /\ Nonces = 0..MaxEvents - 1
           /\ Len(events) \in Nat /\ MaxEvents \in Nat /\ Len(events) <= MaxEvents
           /\ submitted \subseteq Emitted /\ LinkedEvents \subseteq submitted
<1>1. Len(events) \in Nat /\ MaxEvents \in Nat /\ Len(events) <= MaxEvents
  BY DepositAssumption DEF DepositInv, ChainInv, DepositAssumption
<1>2. LinkedEvents \subseteq submitted
  BY EntryValues DEF DepositInv, MappingInv, LinksNameTransactions, LinkedEvents
<1> QED
  BY <1>1, <1>2 DEF DepositInv, EmittedInv, Emitted, Nonces

-----------------------------------------------------------------------------
(* The clearing task: what it has queried is answered or in its hands.        *)

SweepInv ==
    /\ sweep.last <= head /\ sweep.next <= sweep.last + 1
    /\ process # "relaying" => sweep.next <= 1
    /\ ClearingLeavesNoEvent

LEMMA SweepTypes ==
    ASSUME DepositInv
    PROVE  /\ sweep \in [next : Nat, last : Nat] /\ head \in Nat
           /\ queue \in [Tasks -> Seq(Nat)] /\ job \in [Tasks -> JobType]
           /\ "clearing" \in Tasks /\ "live" \in Tasks /\ "live" # "clearing"
           /\ accountNonce \in Nat
           /\ \A n \in Nonces : n \in Nat /\ (n < accountNonce => n \in submitted)
<1>1. accountNonce \in Nat /\ 0..accountNonce - 1 \subseteq submitted
  BY DEF DepositInv, OrderInv, Typed, SubmittedInOrder
<1>2. \A n \in Nonces : n \in Nat
  BY DepositAssumption DEF Nonces, DepositAssumption
<1> QED
  BY <1>1, <1>2 DEF DepositInv, PlainInv, OrderInv, Typed, Tasks

(* Steps between two queries: the blocks queried are there to stay.           *)
LEMMA BetweenQueries ==
    ASSUME DepositInv, SweepInv, [Next]_vars, UNCHANGED sweep,
           process' # "relaying" => process # "relaying",
           submitted \subseteq submitted',
           \A n \in Nonces : InClearing(n) => InClearing(n)' \/ n \in submitted'
    PROVE  SweepInv'
<1>1. /\ sweep.next \in Nat /\ sweep.last \in Nat /\ head \in Nat /\ head <= head'
      /\ head' \in Nat /\ ChainInv'
      /\ \A b \in Int : b <= head => InboundNonceAt(b)' = InboundNonceAt(b)
  <2>1. ChainInv' /\ head <= head'
    BY ChainStep DEF DepositInv
  <2>2. head' \in Nat
    BY <2>1, DepositAssumption DEF ChainInv, DepositAssumption
  <2> QED
    BY <2>1, <2>2, SweepTypes, ChainStep DEF DepositInv
<1>2. PICK b \in Int : b = sweep.next - 1
  BY <1>1
<1>3. InboundNonceAt(sweep.next - 1) = InboundNonceAt(b)
      /\ InboundNonceAt(sweep.next - 1)' = InboundNonceAt(b)'
      /\ InboundNonceAt(b)' = InboundNonceAt(b)
  <2>1. b <= head
    BY <1>1, <1>2 DEF SweepInv
  <2>2. InboundNonceAt(b)' = InboundNonceAt(b)
    BY <1>1, <2>1
  <2>3. InboundNonceAt(sweep.next - 1) = InboundNonceAt(b)
    BY <1>2, Zenon
  <2>4. InboundNonceAt(sweep.next - 1)' = InboundNonceAt(b)'
    BY <1>2, Zenon DEF InboundNonceAt
  <2> QED
    BY <2>2, <2>3, <2>4
<1>4. ClearingLeavesNoEvent'
  <2> SUFFICES ASSUME process' = "relaying", NEW n \in Nonces,
                      n < InboundNonceAt(b)
               PROVE  n \in submitted' \/ InClearing(n)'
    BY <1>3 DEF ClearingLeavesNoEvent
  <2>1. CASE process = "relaying"
    BY <1>3, <2>1 DEF SweepInv, ClearingLeavesNoEvent
  <2>2. CASE process # "relaying"
    <3>1. b <= 0
      BY <1>1, <1>2, <2>2 DEF SweepInv
    <3>2. InboundNonceAt(b) = 0
      BY <3>1, NonceAtEnds DEF DepositInv
    <3> QED
      BY <3>2, SweepTypes
  <2> QED
    BY <2>1, <2>2
<1> QED
  BY <1>1, <1>4 DEF SweepInv

(* A sweep begins no later than the last one ended, the first one where the    *)
(* search of the start block ended.                                          *)
LEMMA SweepBegins == ASSUME DepositInv, SweepInv, BeginSweep PROVE SweepInv'
<1>1. /\ sweep.next \in Nat /\ sweep.last \in Nat /\ head \in Nat /\ sweep.next > sweep.last
      /\ process = "relaying" /\ UNCHANGED <<events, head, process, submitted, queue, job>>
  BY SweepTypes DEF BeginSweep, Idle, chainVars, accountVars
<1>2. PICK first \in {fromBlock, sweep.last} : sweep' = [next |-> first, last |-> head]
  BY DEF BeginSweep
<1>3. first \in Nat /\ first <= head /\ fromBlock \in Nat
  BY <1>1, DepositAssumption DEF DepositInv, SearchInv, SweepInv, DepositAssumption
<1>4. /\ InboundNonceAt(sweep.next - 1)' = InboundNonceAt(first - 1)
      /\ \A n : InClearing(n)' <=> InClearing(n)
  BY <1>1, <1>2 DEF InboundNonceAt, InClearing
<1>5. ASSUME NEW n \in Nonces, n < InboundNonceAt(first - 1)
      PROVE  n \in submitted \/ InClearing(n)
  <2>1. CASE first = fromBlock
    <3>1. InboundNonceAt(first - 1) <= accountNonce
      BY <1>1, <2>1 DEF DepositInv, SearchInv
    <3>2. InboundNonceAt(first - 1) \in Nat
      BY NonceAtBound, EmittedNumbers DEF DepositInv
    <3> QED
      BY <1>5, <3>1, <3>2, SweepTypes
  <2>2. CASE first = sweep.last
    <3>1. InboundNonceAt(first - 1) <= InboundNonceAt(sweep.next - 1)
      BY <1>1, <2>2, NonceAtMonotone DEF DepositInv
    <3>2. InboundNonceAt(first - 1) \in Nat /\ InboundNonceAt(sweep.next - 1) \in Nat
      BY NonceAtBound, EmittedNumbers DEF DepositInv
    <3>3. n < InboundNonceAt(sweep.next - 1)
      BY <1>5, <3>1, <3>2, SweepTypes
    <3> QED
      BY <1>1, <3>3 DEF SweepInv, ClearingLeavesNoEvent
  <2> QED
    BY <1>2, <2>1, <2>2
<1>6. ClearingLeavesNoEvent'
  BY <1>1, <1>4, <1>5 DEF ClearingLeavesNoEvent
<1> QED
  BY <1>1, <1>2, <1>3, <1>6 DEF SweepInv

(* A query is made when nothing is in hand, and fetches all that is new.      *)
LEMMA SweepQueries == ASSUME DepositInv, SweepInv, Sweep PROVE SweepInv'
<1> DEFINE end  == IF sweep.next + BlockRange - 1 < sweep.last
                   THEN sweep.next + BlockRange - 1 ELSE sweep.last
           logs == EventsIn(sweep.next, end)
<1>1. /\ process = "relaying" /\ job["clearing"] = NoJob /\ queue["clearing"] = <<>>
      /\ sweep.next <= sweep.last /\ UNCHANGED <<events, head, process, submitted, job>>
      /\ queue' = [queue EXCEPT !["clearing"] = logs]
      /\ sweep' = [sweep EXCEPT !.next = end + 1]
  BY DEF Sweep, Idle, chainVars, accountVars
<1>2. /\ sweep.next \in Nat /\ sweep.last \in Nat /\ head \in Nat
      /\ end \in Nat /\ sweep.next <= end /\ end <= sweep.last
  <2>1. /\ sweep.next \in Nat /\ sweep.last \in Nat /\ head \in Nat
        /\ BlockRange \in Nat \ {0} /\ sweep.next <= sweep.last
    BY <1>1, SweepTypes, DepositAssumption DEF DepositAssumption
  <2> HIDE DEF logs
  <2> QED
    BY <2>1
<1> DEFINE before == InboundNonceAt(sweep.next - 1)
           after  == InboundNonceAt(end)
<1>3. logs = [i \in 1..after - before |-> before + i - 1]
  <2>1. ChainInv /\ sweep.next \in Int /\ end \in Int
    BY <1>2 DEF DepositInv
  <2> HIDE DEF end
  <2> QED
    BY <2>1, EventsInShape
<1>4. before \in Nat /\ after \in Nat
  BY NonceAtBound, EmittedNumbers DEF DepositInv
<1> HIDE DEF end, logs, before, after
<1>5. /\ sweep'.next = end + 1 /\ sweep'.last = sweep.last /\ queue'["clearing"] = logs
  BY <1>1, SweepTypes
<1>6. InboundNonceAt(sweep.next - 1)' = after
  <2>1. sweep'.next - 1 = end
    BY <1>2, <1>5
  <2> QED
    BY <1>1, <2>1 DEF InboundNonceAt, after
<1>7. ASSUME NEW n \in Nonces, n < after
      PROVE  n \in submitted \/ InClearing(n)'
  <2>1. CASE n < before
    <3>1. ~ InClearing(n)
      BY <1>1 DEF InClearing, NoJob
    <3> QED
      BY <1>1, <2>1, <3>1 DEF SweepInv, ClearingLeavesNoEvent, before
  <2>2. CASE n >= before
    <3>1. n - before + 1 \in 1..after - before
      BY <1>4, <1>7, <2>2, SweepTypes
    <3>2. n - before + 1 \in DOMAIN logs /\ logs[n - before + 1] = n
      BY SMTT(20), <1>3, <1>4, <3>1, SweepTypes
    <3> QED
      BY <1>5, <3>2 DEF InClearing
  <2> QED
    BY <1>4, <2>1, <2>2, SweepTypes
<1>8. ClearingLeavesNoEvent'
  BY <1>1, <1>6, <1>7 DEF ClearingLeavesNoEvent
<1> QED
  BY <1>1, <1>2, <1>5, <1>8 DEF SweepInv

(* The task lets an event go only when 1Money has its transaction.            *)
LEMMA InHandsOrDone ==
    ASSUME DepositInv, NEW t \in Tasks, Handle(t) \/ Receive(t),
           NEW n \in Nonces, InClearing(n)
    PROVE  InClearing(n)' \/ n \in submitted'
<1> USE SweepTypes
<1>1. submitted \subseteq submitted'
  BY DEF Handle, TakeEvent, CheckNonce, PollNonce, Submit, WriteRefused, Receive,
     Register, Link, ReceiptFails, LateWrite, accountVars
<1>2. CASE TakeEvent(t)
  <2>1. /\ job[t] = NoJob /\ queue[t] # <<>>
        /\ job' = [job EXCEPT ![t] = [state |-> "check", nonce |-> Head(queue[t])]]
        /\ queue' = [queue EXCEPT ![t] = Tail(@)]
    BY <1>2 DEF TakeEvent
  <2>2. CASE t # "clearing"
    BY <2>1, <2>2 DEF InClearing
  <2>3. CASE t = "clearing"
    <3>1. PICK i \in DOMAIN queue["clearing"] : queue["clearing"][i] = n
      BY <2>1, <2>3 DEF InClearing, NoJob
    <3>2. queue["clearing"] \in Seq(Nat) /\ queue["clearing"] # <<>>
      BY <2>1, <2>3
    <3>3. CASE i = 1
      BY <2>1, <2>3, <3>1, <3>2, <3>3 DEF InClearing
    <3>4. CASE i # 1
      <4>1. i - 1 \in DOMAIN Tail(queue["clearing"])
            /\ Tail(queue["clearing"])[i - 1] = n
        BY SMTT(20), <3>1, <3>2, <3>4
      <4> QED
        BY <2>1, <2>3, <4>1 DEF InClearing
    <3> QED
      BY <3>3, <3>4
  <2> QED
    BY <2>2, <2>3
<1>3. ASSUME NEW state \in {"idle", "wait", "register", "submit", "link"}, Goes(t, state),
             t = "clearing" /\ state = "idle" => job[t].nonce \in submitted'
      PROVE  InClearing(n)' \/ n \in submitted'
  <2>1. queue' = queue
    BY <1>3 DEF Goes
  <2>2. /\ \A u \in Tasks \ {t} : job'[u] = job[u]
        /\ job'[t].state = state /\ (state # "idle" => job'[t].nonce = job[t].nonce)
    BY <1>3, GoesJob DEF DepositInv
  <2> QED
    BY <1>3, <2>1, <2>2 DEF InClearing
<1>4. CASE CheckNonce(t)
  <2>1. PICK state \in {"idle", "wait", "register", "submit"} :
            /\ Goes(t, state)
            /\ state = "idle" => accountNonce > job[t].nonce
    BY <1>4 DEF CheckNonce, Handling
  <2>2. state = "idle" => job[t].nonce \in submitted'
    <3>1. job[t].nonce \in Nonces
      BY <1>4, EmittedNumbers DEF CheckNonce, DepositInv, EmittedInv
    <3> QED
      BY <1>1, <2>1, <3>1
  <2> QED
    BY <1>3, <2>1, <2>2
<1>5. CASE PollNonce(t)
  <2>1. PICK state \in {"register", "submit"} : Goes(t, state)
    BY <1>5 DEF PollNonce, Handling
  <2> QED
    BY <1>3, <2>1
<1>6. CASE Submit(t)
  <2>1. PICK state \in {"idle", "link"} : Goes(t, state)
    BY <1>6 DEF Submit
  <2>2. job[t].nonce \in submitted'
    BY <1>6 DEF Submit
  <2> QED
    BY <1>3, <2>1, <2>2
<1>7. CASE WriteRefused(t) \/ Receive(t)
  <2>1. PICK state \in {"idle", "submit"} :
            Goes(t, state) /\ (state = "idle" => job[t].state = "link")
    BY <1>7 DEF WriteRefused, Receive, Register, Link, ReceiptFails, AwaitsReceipt
  <2>2. state = "idle" => job[t].nonce \in submitted'
    BY <1>1, <2>1 DEF DepositInv, OrderInv, LinksFollow
  <2> QED
    BY <1>3, <2>1, <2>2
<1> QED
  BY <1>2, <1>4, <1>5, <1>6, <1>7 DEF Handle

LEMMA SweepStep == ASSUME DepositInv, SweepInv, [Next]_vars PROVE SweepInv'
<1>1. CASE Crash
  <2>1. sweep' = [next |-> 1, last |-> 0] /\ process' = "down" /\ head' = head
    BY <1>1 DEF Crash, NoTasks, chainVars
  <2> QED
    BY <2>1, SweepTypes DEF SweepInv, ClearingLeavesNoEvent
<1>2. CASE BeginSweep
  BY <1>2, SweepBegins
<1>3. CASE Sweep
  BY <1>3, SweepQueries
<1>4. ASSUME NEW t \in Tasks, Handle(t) \/ Receive(t) PROVE SweepInv'
  <2>1. /\ UNCHANGED <<sweep, process>> /\ submitted \subseteq submitted'
    BY <1>4 DEF Handle, TakeEvent, CheckNonce, PollNonce, Submit, WriteRefused, Receive,
       Register, Link, ReceiptFails, LateWrite, Goes, accountVars
  <2>2. \A n \in Nonces : InClearing(n) => InClearing(n)' \/ n \in submitted'
    BY <1>4, InHandsOrDone
  <2> QED
    BY <2>1, <2>2, BetweenQueries
<1>5. CASE \/ NewBlock \/ Certify \/ FormCheckpoint \/ Starting \/ ReadLive \/ EndOfStream
           \/ UNCHANGED vars \/ \E w \in interrupted : LateWrite(w)
  <2>1. /\ UNCHANGED <<sweep, submitted>> /\ (process' # "relaying" => process # "relaying")
        /\ job'["clearing"] = job["clearing"] /\ queue'["clearing"] = queue["clearing"]
    BY <1>5, SweepTypes
       DEF NewBlock, Certify, FormCheckpoint, Starting, Start, RecoverDeposit,
           RecoverWithdrawal, DepositsRecovered, ReadHead, SearchStart, Bisect, ReadLive,
           Subscribe, ReadLiveStart, Replay, Follow, EndOfStream, LateWrite, vars,
           taskVars, accountVars, Idle
  <2>2. \A n \in Nonces : InClearing(n)' <=> InClearing(n)
    BY <2>1 DEF InClearing
  <2> QED
    BY <2>1, <2>2, BetweenQueries
<1> QED
  BY <1>1, <1>2, <1>3, <1>4, <1>5 DEF Next, ReadClearing

(* No event before the block that the clearing task queries next is left      *)
(* without its transaction, unless the task holds it: the search never       *)
(* starts it too late, sweeps leave no block out, and an event it drops      *)
(* because the account nonce is beyond it has been submitted.                *)
THEOREM ClearingSweepsAll == Spec => []ClearingLeavesNoEvent
<1>1. Init => SweepInv
  BY DEF Init, SweepInv, ClearingLeavesNoEvent
<1>2. DepositInv /\ SweepInv /\ [Next]_vars => SweepInv'
  BY SweepStep
<1>3. SweepInv => ClearingLeavesNoEvent
  BY DEF SweepInv
<1> QED
  BY <1>1, <1>2, <1>3, DepositInvariant, PTL DEF Spec

-----------------------------------------------------------------------------
(* The refinement: what the two tasks, the chain, crashes and recoveries do is *)
(* an emission, an answer or a link of the ledger, or nothing that it sees.  *)

LedgerNext == [Ledger!Next]_<<Len(events), submitted, LinkedEvents>>

LEMMA LedgerStutters ==
    ASSUME UNCHANGED <<events, submitted, mapping>>
    PROVE  LedgerNext
BY DEF LedgerNext, LinkedEvents

(* The events of a new block have no transaction yet, so the registration of   *)
(* a withdrawal among them undoes no link.                                   *)
LEMMA LedgerEmits == ASSUME DepositInv, NewBlock PROVE LedgerNext
<1>1. PICK k \in 0..MaxEvents - Len(events) :
          mapping' = [n \in Nonces |->
              IF n \in Len(events)..Len(events) + k - 1 /\ n \notin Deposits
              THEN Unlinked ELSE mapping[n]]
  BY DEF NewBlock
<1>2. /\ Len(events) \in Nat /\ k \in Nat /\ Len(events)' \in Nat
      /\ Len(events) <= Len(events)' /\ Len(events)' <= MaxEvents /\ MaxEvents \in Nat
  <2>1. PICK j \in 0..MaxEvents - Len(events) :
            events' = events \o [i \in 1..j |-> head + 1]
    BY DEF NewBlock
  <2>2. Len(events) \in Nat /\ MaxEvents \in Nat /\ head \in Nat /\ events \in Seq(Nat)
    BY EmittedNumbers DEF DepositInv, OrderInv, Typed
  <2>3. j \in Nat /\ [i \in 1..j |-> head + 1] \in Seq(Nat)
    BY <2>2
  <2>4. Len(events') = Len(events) + j
    BY <2>1, <2>2, <2>3, ConcatProperties
  <2> QED
    BY <2>2, <2>3, <2>4
<1>3. ASSUME NEW n \in Nonces, n \in Len(events)..Len(events) + k - 1
      PROVE  mapping[n] \notin Nonces
  <2> SUFFICES ASSUME mapping[n] \in Nonces PROVE FALSE
    OBVIOUS
  <2>1. PICK m \in Nonces : m = mapping[n]
    OBVIOUS
  <2>2. m \in submitted /\ SourceTx[m] = n
    BY <2>1, EntryValues DEF DepositInv, MappingInv, LinksNameTransactions, Entry
  <2>3. SourceTx[m] <= m
    BY EntryAssumption DEF EntryAssumption
  <2>4. m < Len(events)
    BY <2>2, EmittedNumbers DEF Emitted
  <2> QED
    BY <1>2, <1>3, <2>2, <2>3, <2>4, EmittedNumbers
<1>4. LinkedEvents' = LinkedEvents
  <2>1. \A n, m \in Nonces : mapping'[n] = m <=> mapping[n] = m
    BY <1>1, <1>3, EntryValues
  <2> QED
    BY <2>1 DEF LinkedEvents
<1>5. Ledger!Emit
  <2>1. Len(events)' \in Len(events)..MaxEvents
    BY <1>2
  <2>2. submitted' = submitted
    BY DEF NewBlock, accountVars
  <2> QED
    BY <1>4, <2>1, <2>2 DEF Ledger!Emit, LinkedEvents
<1> QED
  BY <1>5 DEF LedgerNext, Ledger!Next, LinkedEvents

(* A link of an answered event is a link of the ledger, whoever makes it.     *)
LEMMA LedgerLinks ==
    ASSUME DepositInv, NEW n \in Nonces, n \in submitted, UNCHANGED <<events, submitted>>,
           LinkedEvents' = LinkedEvents \cup {n}
    PROVE  LedgerNext
<1>1. Ledger!LinkAnswer(n)
  BY DEF Ledger!LinkAnswer, LinkedEvents
<1> QED
  BY <1>1 DEF LedgerNext, Ledger!Next, Nonces, LinkedEvents

(* A write to an entry that has no link yet: the ledger sees it when it names  *)
(* an event, which then is an answered one.                                  *)
LEMMA LedgerWrites ==
    ASSUME DepositInv, NEW e \in Nonces, NEW new \in EntryType,
           mapping[e] \in {NoEntry, Unlinked}, mapping' = [mapping EXCEPT ![e] = new],
           new \in Nonces => new \in submitted, UNCHANGED <<events, submitted>>
    PROVE  LedgerNext
<1>1. mapping \in [Nonces -> EntryType]
  BY DEF DepositInv, MappingInv
<1>2. \A m \in Nonces : mapping[e] # m
  BY EntryValues
<1>3. CASE new \in Nonces
  <2>1. LinkedEvents' = LinkedEvents \cup {new}
    BY <1>1, <1>2, <1>3 DEF LinkedEvents
  <2> QED
    BY <1>3, <2>1, LedgerLinks
<1>4. CASE new \notin Nonces
  <2>1. LinkedEvents' = LinkedEvents
    BY <1>1, <1>2, <1>4 DEF LinkedEvents
  <2> QED
    BY <2>1 DEF LedgerNext, LinkedEvents
<1> QED
  BY <1>3, <1>4

(* A recovery links what a checkpoint lists, or what only looks like it.       *)
LEMMA LedgerRecovers ==
    ASSUME DepositInv, NEW e \in Nonces, RecoverDeposit(e) \/ RecoverWithdrawal(e)
    PROVE  LedgerNext
<1>1. /\ UNCHANGED <<events, submitted>> /\ process \in {"deposits", "refunds"}
      /\ \/ mapping' = mapping
         \/ /\ mapping[e] = Unlinked
            /\ \E tx \in Found(e) : mapping' = [mapping EXCEPT ![e] = tx]
  BY DEF RecoverDeposit, RecoverWithdrawal, chainVars, accountVars
<1>2. ASSUME mapping[e] = Unlinked, NEW tx \in Found(e), mapping' = [mapping EXCEPT ![e] = tx]
      PROVE  LedgerNext
  <2>1. /\ tx \in EntryType
        /\ \/ tx = e /\ e < readHead
           \/ tx = OtherTx
    BY DEF Found, EntryType
  <2>2. tx \in Nonces => tx \in submitted
    BY <1>1, <2>1, ListedIsSubmitted, EntryValues DEF DepositInv
  <2> QED
    BY <1>1, <1>2, <2>1, <2>2, LedgerWrites
<1> QED
  BY <1>1, <1>2, LedgerStutters

(* What a task submits is the next event or one that has its transaction.     *)
LEMMA LedgerAnswers == ASSUME DepositInv, NEW t \in Tasks, Submit(t) PROVE LedgerNext
<1> DEFINE n == job[t].nonce
<1>1. /\ submitted' = submitted \cup {n} /\ UNCHANGED <<events, mapping>>
      /\ job[t].state = "submit"
  BY DEF Submit, Goes, mappingVars, chainVars
<1>2. n \in Emitted /\ n <= accountNonce /\ accountNonce \in Nat
  BY <1>1 DEF DepositInv, OrderInv, Typed, ChecksPassed, EmittedInv
<1>3. submitted = 0..accountNonce - 1 \/ submitted = 0..accountNonce
  BY DEF DepositInv, OrderInv, SubmittedInOrder
<1>4. /\ n \in Nat /\ n < Len(events) /\ n \in 0..MaxEvents - 1
  BY <1>2, EmittedNumbers DEF Emitted
<1> HIDE DEF n
<1>5. CASE n \in submitted
  <2>1. submitted' = submitted
    BY <1>1, <1>5
  <2> QED
    BY <1>1, <2>1, LedgerStutters
<1>6. CASE n \notin submitted
  <2>1. 0..n - 1 \subseteq submitted
    BY <1>2, <1>3, <1>4
  <2>2. Ledger!Answer(n)
    BY <1>1, <1>4, <1>6, <2>1 DEF Ledger!Answer
  <2> QED
    BY <1>4, <2>2 DEF LedgerNext, Ledger!Next, LinkedEvents
<1> QED
  BY <1>5, <1>6

(* Registering links nothing; linking names the transaction that the task has  *)
(* submitted, also when nobody awaits it any more.                           *)
LEMMA LedgerEntries ==
    ASSUME DepositInv,
           \/ \E t \in Tasks : Register(t) \/ Link(t)
           \/ \E w \in interrupted : LateWrite(w)
    PROVE  LedgerNext
<1>1. PICK n \in Nonces, new \in EntryType :
          /\ mapping[Entry(n)] \in {NoEntry, Unlinked}
          /\ mapping' = [mapping EXCEPT ![Entry(n)] = new]
          /\ new = Unlinked \/ (new = n /\ n \in submitted)
          /\ UNCHANGED <<events, submitted>>
  <2>1. ASSUME NEW t \in Tasks, Register(t) \/ Link(t)
        PROVE  /\ job[t].nonce \in Nonces
               /\ job[t].state = "link" => job[t].nonce \in submitted
    BY <2>1, EmittedInNonces DEF DepositInv, OrderInv, LinksFollow, Register, Link
  <2>2. ASSUME NEW w \in interrupted
        PROVE  w.nonce \in Nonces /\ (w.state = "link" => w.nonce \in submitted)
    BY DEF DepositInv, MappingInv, LateLinksFollow
  <2>3. CASE \E t \in Tasks : Register(t) \/ Link(t)
    BY <2>1, <2>3 DEF Register, Link, Goes, chainVars, accountVars, EntryType
  <2>4. CASE \E w \in interrupted : LateWrite(w)
    BY <2>2, <2>4 DEF LateWrite, chainVars, accountVars, EntryType
  <2> QED
    BY <2>3, <2>4
<1>2. Entry(n) \in Nonces
  BY EntryOfEntry
<1>3. new \in Nonces => new \in submitted
  BY <1>1, EntryValues
<1> QED
  BY <1>1, <1>2, <1>3, LedgerWrites

LEMMA LedgerStep == ASSUME DepositInv, [Next]_vars PROVE LedgerNext
<1>1. CASE UNCHANGED vars
  BY <1>1, LedgerStutters DEF vars, chainVars, accountVars, mappingVars
<1>2. CASE NewBlock
  BY <1>2, LedgerEmits
<1>3. CASE Certify \/ FormCheckpoint \/ Crash \/ ReadLive \/ EndOfStream \/ ReadClearing
  BY <1>3, LedgerStutters
     DEF Certify, FormCheckpoint, Crash, ReadLive, Subscribe, ReadLiveStart, Replay,
         Follow, EndOfStream, ReadClearing, BeginSweep, Sweep, chainVars, accountVars,
         mappingVars
<1>4. ASSUME Starting PROVE LedgerNext
  <2>1. CASE \E n \in Nonces : RecoverDeposit(n) \/ RecoverWithdrawal(n)
    BY <2>1, LedgerRecovers
  <2>2. CASE Start \/ DepositsRecovered \/ ReadHead \/ SearchStart \/ Bisect
    BY <2>2, LedgerStutters
       DEF Start, DepositsRecovered, ReadHead, SearchStart, Bisect, chainVars,
           accountVars, mappingVars
  <2> QED
    BY <1>4, <2>1, <2>2 DEF Starting
<1>5. ASSUME NEW t \in Tasks, Handle(t) \/ ReceiptFails(t) PROVE LedgerNext
  <2>1. CASE TakeEvent(t) \/ CheckNonce(t) \/ PollNonce(t) \/ WriteRefused(t) \/ ReceiptFails(t)
    BY <2>1, LedgerStutters
       DEF TakeEvent, CheckNonce, PollNonce, WriteRefused, ReceiptFails, Goes, chainVars,
           accountVars, mappingVars
  <2> QED
    BY <1>5, <2>1, LedgerAnswers DEF Handle
<1> QED
  BY <1>1, <1>2, <1>3, <1>4, <1>5, LedgerEntries DEF Next, Receive

(* The incoming half implements the ledger of deposits: whichever of its two   *)
(* tasks handles an event, and wherever crashes and failed receipt queries    *)
(* cut it off, an event gets one transaction, after all earlier events, and   *)
(* a link in the hash mapping, unless a recovery took another account's       *)
(* transaction for the relayer's, names such a transaction and is never      *)
(* taken back.                                                              *)
THEOREM DepositImplementsLedger == Spec => ImplementsLedger
<1>1. Init => Ledger!Init
  BY EntryValues DEF Init, Ledger!Init
<1>2. DepositInv /\ [Next]_vars
          => [Ledger!Next]_<<Len(events), submitted,
                             {n \in Nonces : \E e \in Nonces : mapping[e] = n}>>
  BY LedgerStep DEF LedgerNext, LinkedEvents
<1> QED
  BY <1>1, <1>2, DepositInvariant, PTL DEF Spec, ImplementsLedger, Ledger!Spec
=============================================================================
