--------------------------- MODULE CounterMainProofs --------------------------
(***************************************************************************)
(* Proofs about CounterMain, for any partitions, brokers and requests, and *)
(* any length of the brokers' answers.                                     *)
(***************************************************************************)
EXTENDS CounterMain, TLAPS

Readers == [partition : Partitions, open : BOOLEAN, loop : Loops]

(* A broker that is asked is one that is configured. *)
AskInv == consume = "asking" => broker <= Brokers

(* The reader of index i is that of the partition found as number i; there   *)
(* are none before discovery is through, and all when Run waits.             *)
ReadersInv ==
  /\ consume \in {"discover", "asking", "failed"} => readers = <<>>
  /\ Len(readers) <= Len(listed)
  /\ consume \in {"wait", "returned"} => Len(readers) = Len(listed)
  /\ \A i \in DOMAIN readers : readers[i].partition = listed[i]

ListedInv == \A i, j \in DOMAIN listed : listed[i] = listed[j] => i = j

(* No loop ends while the context lives. *)
LoopInv == ~ctx => \A i \in DOMAIN readers : readers[i].loop # "done"

(* The listener is closed before the draining, and stays closed. *)
DrainInv == /\ main = "drain" => server # "listening"
            /\ ended = "drained" => /\ server # "listening"
                                   /\ \A q \in Requests : request[q] # "active"

IInv == TypeOK /\ AskInv /\ ReadersInv /\ ListedInv /\ LoopInv /\ DrainInv

-----------------------------------------------------------------------------
LEMMA ListsAreSequences == Lists \subseteq Seq(Partitions)
  BY DEF Lists, BoundedSeq, SeqOf

LEMMA DistinctIsInjective ==
  ASSUME NEW ids \in Lists, NEW s \in Lists, Distinct(s, ids),
         NEW i \in DOMAIN s, NEW j \in DOMAIN s, s[i] = s[j]
  PROVE  i = j
<1>1. ids \in Seq(Partitions) /\ s \in Seq(Partitions)
      BY ListsAreSequences
<1>2. i \in Nat /\ j \in Nat
      BY <1>1
<1>3. ASSUME NEW a \in DOMAIN s, NEW b \in DOMAIN s, a < b, s[a] = s[b]
      PROVE  FALSE
  <2>1. PICK k \in DOMAIN ids : ids[k] = s[a] /\ \A l \in 1..k : ids[l] # s[b]
        BY <1>3 DEF Distinct
  <2>2. k \in 1..k
        BY <1>1, <2>1
  <2>3. QED BY <2>1, <2>2, <1>3
<1>4. QED BY <1>2, <1>3

LEMMA SameLength ==
  ASSUME readers \in Seq(Readers), NEW f \in [DOMAIN readers -> Readers]
  PROVE  f \in Seq(Readers) /\ Len(f) = Len(readers) /\ DOMAIN f = DOMAIN readers
  OBVIOUS

LEMMA InitIInv == Init => IInv
<1> SUFFICES ASSUME Init PROVE IInv
    OBVIOUS
<1>1. TypeOK
  <2>1. broker \in 1..(Brokers + 1)
        BY CounterMainAssumption DEF Init
  <2>2. listed \in Seq(Partitions) /\ readers \in Seq(Readers)
        BY DEF Init
  <2>3. request \in [Requests -> {"none", "active", "done"}]
        BY DEF Init
  <2>4. QED BY <2>1, <2>2, <2>3 DEF Init, TypeOK, Readers
<1>2. AskInv /\ ReadersInv /\ ListedInv /\ LoopInv /\ DrainInv
      BY DEF Init, AskInv, ReadersInv, ListedInv, LoopInv, DrainInv
<1>3. QED BY <1>1, <1>2 DEF IInv

-----------------------------------------------------------------------------
(* The consumer's part of the invariant.                                    *)

ConsumerInv == /\ listed \in Seq(Partitions) /\ readers \in Seq(Readers)
               /\ ReadersInv /\ ListedInv /\ LoopInv

(* Steps that leave the consumer alone, and never take the context back. *)
LEMMA ConsumerUntouched ==
  ASSUME ConsumerInv, UNCHANGED <<consume, listed, readers>>, ctx => ctx'
  PROVE  ConsumerInv'
  BY DEF ConsumerInv, ReadersInv, ListedInv, LoopInv

LEMMA ConsumerStep ==
  ASSUME TypeOK, ConsumerInv, [Next]_vars
  PROVE  ConsumerInv'
<1>1. ASSUME NEW q \in Requests, Accept(q) \/ Answer(q) PROVE ConsumerInv'
      BY <1>1, ConsumerUntouched DEF Accept, Answer, consumer
<1>2. CASE ListenFails \/ Signal
      BY <1>2, ConsumerUntouched DEF ListenFails, Signal, consumer
<1>3. CASE SelectError \/ SelectDone \/ Drained \/ StopSender \/ Exit
  <2>1. UNCHANGED <<consume, listed, readers>>
        BY <1>3 DEF SelectError, SelectDone, Drained, StopSender, Exit, consumer
  <2>2. ctx' \in {ctx, TRUE}
        BY <1>3 DEF SelectError, SelectDone, Drained, StopSender, Exit
  <2>3. ctx => ctx'
        BY <2>2
  <2>4. QED BY <2>1, <2>3, ConsumerUntouched
<1>4. CASE CloseReaders
  <2>1. /\ readers' = [i \in DOMAIN readers |-> [readers[i] EXCEPT !.open = FALSE]]
        /\ UNCHANGED <<consume, listed, ctx>>
        BY <1>4 DEF CloseReaders
  <2>2. readers \in Seq(Readers) /\ Len(readers) \in Nat /\ DOMAIN readers = 1..Len(readers)
        BY DEF ConsumerInv
  <2>3. readers' \in Seq(Readers) /\ Len(readers') = Len(readers) /\ DOMAIN readers' = DOMAIN readers
    <3>1. \A r \in Readers : [r EXCEPT !.open = FALSE] \in Readers
          BY DEF Readers
    <3>2. readers' \in [DOMAIN readers -> Readers]
          BY <2>1, <2>2, <3>1
    <3>3. QED BY <2>2, <3>2, SameLength
  <2>4. \A i \in DOMAIN readers' : /\ i \in DOMAIN readers
                                  /\ readers'[i].partition = readers[i].partition
                                  /\ readers'[i].loop = readers[i].loop
    <3>1. \A i \in DOMAIN readers : readers[i] \in Readers
          BY <2>2
    <3>2. QED BY <2>1, <2>3, <3>1 DEF Readers
  <2>5. readers = <<>> => readers' = <<>>
        BY <2>1, <2>2, <2>3
  <2>6. QED BY <2>1, <2>2, <2>3, <2>4, <2>5 DEF ConsumerInv, ReadersInv, ListedInv, LoopInv
<1>5. CASE AskBroker \/ BrokerFails \/ GiveUp
      BY <1>5 DEF AskBroker, BrokerFails, GiveUp, ConsumerInv, ReadersInv, ListedInv, LoopInv
<1>6. CASE BrokerAnswers
  <2>1. PICK ids \in Lists, s \in Lists : Distinct(s, ids) /\ listed' = s
        BY <1>6 DEF BrokerAnswers
  <2>2. listed' \in Seq(Partitions) /\ ListedInv'
        BY <2>1, ListsAreSequences, DistinctIsInjective DEF ListedInv
  <2>3. consume = "asking" /\ consume' = "start" /\ readers = <<>> /\ UNCHANGED <<readers, ctx>>
        BY <1>6 DEF BrokerAnswers, ConsumerInv, ReadersInv
  <2>4. QED BY <2>2, <2>3 DEF ConsumerInv, ReadersInv, LoopInv
<1>7. CASE StartReader
  <2> DEFINE r == [partition |-> listed[Len(readers) + 1], open |-> TRUE, loop |-> "reading"]
  <2>1. /\ consume = "start" /\ Len(readers) < Len(listed)
        /\ readers' = Append(readers, r)
        /\ UNCHANGED <<consume, listed, ctx>>
        BY <1>7 DEF StartReader
  <2>2. /\ readers \in Seq(Readers) /\ Len(readers) \in Nat
        /\ listed \in Seq(Partitions) /\ Len(listed) \in Nat
        BY DEF ConsumerInv
  <2>3. r \in Readers
        BY <2>1, <2>2 DEF Readers, Loops
  <2> HIDE DEF r
  <2>4. /\ readers' \in Seq(Readers)
        /\ Len(readers') = Len(readers) + 1
        /\ \A i \in DOMAIN readers' :
             \/ i \in DOMAIN readers /\ readers'[i] = readers[i]
             \/ i = Len(readers) + 1 /\ readers'[i] = r
        BY <2>1, <2>2, <2>3
  <2>5. ReadersInv' /\ LoopInv'
    <3>1. r.partition = listed[Len(readers) + 1] /\ r.loop = "reading"
          BY DEF r
    <3>2. QED BY <2>1, <2>2, <2>4, <3>1 DEF ConsumerInv, ReadersInv, LoopInv
  <2>6. QED BY <2>1, <2>2, <2>4, <2>5 DEF ConsumerInv, ListedInv
<1>8. CASE AllStarted \/ RunReturns
      BY <1>8 DEF AllStarted, RunReturns, ConsumerInv, ReadersInv, ListedInv, LoopInv
<1>9. ASSUME NEW i \in DOMAIN readers, ReadFails(i) \/ ReadAgain(i) PROVE ConsumerInv'
  <2>1. PICK l \in Loops : /\ readers' = [readers EXCEPT ![i].loop = l]
                           /\ ~ctx => l # "done"
        BY <1>9 DEF ReadFails, ReadAgain, AfterError, Loops
  <2>2. UNCHANGED <<consume, listed, ctx>> /\ readers # <<>>
        BY <1>9 DEF ReadFails, ReadAgain
  <2>3. readers \in Seq(Readers) /\ Len(readers) \in Nat /\ DOMAIN readers = 1..Len(readers)
        BY DEF ConsumerInv
  <2>4. readers' \in Seq(Readers) /\ Len(readers') = Len(readers)
    <3>1. \A j \in DOMAIN readers : readers[j] \in Readers
          BY <2>3
    <3>2. [readers[i] EXCEPT !.loop = l] \in Readers
          BY <3>1 DEF Readers
    <3>3. readers' \in [DOMAIN readers -> Readers]
          BY <2>1, <2>3, <3>1, <3>2
    <3>4. QED BY <2>3, <3>3, SameLength
  <2>5. \A j \in DOMAIN readers' :
           /\ j \in DOMAIN readers
           /\ readers'[j].partition = readers[j].partition
           /\ readers'[j].loop \in {readers[j].loop, l}
        BY <2>1, <2>3 DEF Readers
  <2>6. QED BY <2>1, <2>2, <2>3, <2>4, <2>5 DEF ConsumerInv, ReadersInv, ListedInv, LoopInv
<1>10. CASE UNCHANGED vars
      BY <1>10, ConsumerUntouched DEF vars, consumer
<1>11. QED BY <1>1, <1>2, <1>3, <1>4, <1>5, <1>6, <1>7, <1>8, <1>9, <1>10
       DEF Next, Main, Discovery

-----------------------------------------------------------------------------
LEMMA TypeStep ==
  ASSUME TypeOK, AskInv, listed' \in Seq(Partitions), readers' \in Seq(Readers), [Next]_vars
  PROVE  TypeOK' /\ AskInv'
<1> USE CounterMainAssumption DEF TypeOK, AskInv, Readers
<1>1. ASSUME NEW q \in Requests, Accept(q) \/ Answer(q) PROVE TypeOK' /\ AskInv'
      BY <1>1 DEF Accept, Answer, consumer
<1>2. CASE ListenFails \/ Signal
      BY <1>2 DEF ListenFails, Signal, consumer, http
<1>3. CASE Main
      BY <1>3 DEF Main, SelectError, SelectDone, Drained, CloseReaders, StopSender, Exit,
                  consumer, http
<1>4. CASE Discovery
  <2>1. CASE AskBroker
        BY <2>1 DEF AskBroker, BrokerLeft, http
  <2>2. CASE BrokerFails
    <3>1. consume' = "discover" /\ UNCHANGED <<main, ended, ctx, http, listed, readers>>
          BY <2>2 DEF BrokerFails
    <3>2. broker' = broker + 1 /\ broker <= Brokers
          BY <2>2 DEF BrokerFails
    <3>3. broker' \in 1..(Brokers + 1)
      <4>1. broker \in 1..(Brokers + 1) /\ Brokers \in Nat
            BY CounterMainAssumption DEF TypeOK
      <4> HIDE DEF TypeOK, AskInv, Readers
      <4>2. QED BY <3>2, <4>1
    <3>4. QED BY <3>1, <3>3 DEF http
  <2>3. CASE GiveUp
        BY <2>3 DEF GiveUp, http
  <2>4. CASE BrokerAnswers
    <3>1. consume' = "start" /\ UNCHANGED <<main, ended, ctx, http, broker>>
          BY <2>4 DEF BrokerAnswers
    <3>2. QED BY <3>1 DEF http
  <2>5. QED BY <1>4, <2>1, <2>2, <2>3, <2>4 DEF Discovery
<1>5. CASE StartReader \/ AllStarted \/ RunReturns
      BY <1>5 DEF StartReader, AllStarted, RunReturns, http
<1>6. ASSUME NEW i \in DOMAIN readers, ReadFails(i) \/ ReadAgain(i) PROVE TypeOK' /\ AskInv'
      BY <1>6 DEF ReadFails, ReadAgain, http
<1>7. CASE UNCHANGED vars
      BY <1>7 DEF vars, consumer, http
<1>8. QED BY <1>1, <1>2, <1>3, <1>4, <1>5, <1>6, <1>7 DEF Next

LEMMA DrainStep == TypeOK /\ DrainInv /\ [Next]_vars => DrainInv'
<1> SUFFICES ASSUME TypeOK, DrainInv, [Next]_vars PROVE DrainInv'
    OBVIOUS
<1> USE DEF TypeOK, DrainInv
<1>1. ASSUME NEW q \in Requests, Accept(q) \/ Answer(q) PROVE DrainInv'
      BY <1>1 DEF Accept, Answer
<1>2. CASE ListenFails \/ Signal
      BY <1>2 DEF ListenFails, Signal, http
<1>3. CASE Main
      BY <1>3 DEF Main, SelectError, SelectDone, Drained, CloseReaders, StopSender, Exit, http
<1>4. CASE Discovery \/ StartReader \/ AllStarted \/ RunReturns
      BY <1>4 DEF Discovery, AskBroker, BrokerFails, GiveUp, BrokerAnswers, StartReader,
                  AllStarted, RunReturns, http
<1>5. ASSUME NEW i \in DOMAIN readers, ReadFails(i) \/ ReadAgain(i) PROVE DrainInv'
      BY <1>5 DEF ReadFails, ReadAgain, http
<1>6. CASE UNCHANGED vars
      BY <1>6 DEF vars, http
<1>7. QED BY <1>1, <1>2, <1>3, <1>4, <1>5, <1>6 DEF Next

LEMMA IInvStep == IInv /\ [Next]_vars => IInv'
<1> SUFFICES ASSUME IInv, [Next]_vars PROVE IInv'
    OBVIOUS
<1>1. ConsumerInv'
      BY ConsumerStep DEF IInv, ConsumerInv, TypeOK, Readers
<1>2. TypeOK' /\ AskInv'
      BY <1>1, TypeStep DEF IInv, ConsumerInv
<1>3. QED BY <1>1, <1>2, DrainStep DEF IInv, ConsumerInv

LEMMA Invariance == Spec => []IInv
  BY InitIInv, IInvStep, PTL DEF Spec

-----------------------------------------------------------------------------
LEMMA Indices ==
  ASSUME IInv
  PROVE  /\ DOMAIN readers \subseteq DOMAIN listed
         /\ consume \in {"wait", "returned"} => DOMAIN readers = DOMAIN listed
<1>1. Len(readers) <= Len(listed)
      BY DEF IInv, ReadersInv
<1>2. consume \in {"wait", "returned"} => Len(readers) = Len(listed)
      BY DEF IInv, ReadersInv
<1>3. listed \in Seq(Partitions) /\ readers \in Seq(Readers)
      BY DEF IInv, TypeOK, Readers
<1>4. /\ Len(listed) \in Nat /\ DOMAIN listed = 1..Len(listed)
      /\ Len(readers) \in Nat /\ DOMAIN readers = 1..Len(readers)
      BY <1>3
<1>5. DOMAIN readers \subseteq DOMAIN listed
      BY <1>1, <1>4
<1>6. ASSUME consume \in {"wait", "returned"} PROVE DOMAIN readers = DOMAIN listed
      BY <1>2, <1>4, <1>6
<1>7. QED BY <1>5, <1>6

(* The variables of the process, of its server and of the Consumer keep     *)
(* their types; the broker that is asked is always one of the list.         *)
THEOREM TypeCorrect == Spec => []TypeOK
<1>1. IInv => TypeOK
      BY DEF IInv
<1>2. QED BY <1>1, Invariance, PTL

(* OneReaderPerPartition: whatever the brokers list, and however often, a   *)
(* partition has one reader at most.                                        *)
THEOREM SingleReader == Spec => []OneReaderPerPartition
<1>1. IInv => OneReaderPerPartition
  <2> SUFFICES ASSUME IInv, NEW i \in DOMAIN readers, NEW j \in DOMAIN readers,
                      readers[i].partition = readers[j].partition
               PROVE  i = j
      BY DEF OneReaderPerPartition
  <2>1. i \in DOMAIN listed /\ j \in DOMAIN listed
        BY Indices
  <2>2. QED BY <2>1 DEF IInv, ReadersInv, ListedInv
<1>2. QED BY <1>1, Invariance, PTL

(* EveryPartitionRead: no read error takes a partition from the service     *)
(* while its context lives.                                                 *)
THEOREM PartitionsStayRead == Spec => []EveryPartitionRead
<1>1. IInv => EveryPartitionRead
  <2> SUFFICES ASSUME IInv, consume \in {"wait", "returned"}, ~ctx, NEW k \in DOMAIN listed
               PROVE  \E i \in DOMAIN readers :
                        readers[i].partition = listed[k] /\ readers[i].loop # "done"
      BY DEF EveryPartitionRead
  <2>1. k \in DOMAIN readers
        BY Indices
  <2>2. QED BY <2>1 DEF IInv, ReadersInv, LoopInv
<1>2. QED BY <1>1, Invariance, PTL

(* NoRequestAfterDrain: after a draining that ended in time nothing uses    *)
(* the Sender any more.                                                     *)
THEOREM DrainedMeansIdle == Spec => []NoRequestAfterDrain
<1>1. IInv => NoRequestAfterDrain
      BY DEF IInv, DrainInv, NoRequestAfterDrain
<1>2. QED BY <1>1, Invariance, PTL
=============================================================================
