---------------------------- MODULE ImitatorProofs ----------------------------
(***************************************************************************)
(* Proofs about Imitator, for any readers, numbers of reads, retries and   *)
(* days, about its readers as ImitatorMain starts them, and about what it  *)
(* is started with: the configuration, for any environment, and the        *)
(* scenarios, for any directory (by induction over the lines of a file).   *)
(***************************************************************************)
EXTENDS ImitatorMain, SequenceTheorems, WellFoundedInduction, TLAPS

(* The reads a reader has started have a goroutine, the others have none;   *)
(* a reader is done when its sends are, and has then started all its reads  *)
(* unless it was interrupted.                                               *)
ReaderInv ==
  \A r \in Readers :
    /\ started[r] <= numReads[r]
    /\ \A i \in 1..MaxReads : i > started[r] => send[<<r, i>>] = "unborn"
    /\ reader[r] = "done" => \A i \in 1..started[r] : send[<<r, i>>] = "done"
    /\ reader[r] \in {"join", "done"} => cancelled \/ started[r] = numReads[r]

(* Attempts are left until a send is done, which it is when it was given up. *)
TriesInv == \A c \in Clicks :
              /\ send[c] # "done" => tries[c] < Attempts
              /\ c \in failed => send[c] = "done" /\ tries[c] = Attempts

(* Without an interruption a send is done when its click is written, or     *)
(* counted as a failure.                                                    *)
DoneInv == ~cancelled => \A c \in Clicks :
             send[c] = "done" => c \in failed \/ \E m \in topic : m.click = c

(* Messages carry the day on which their send began.                        *)
DayInv == \A m \in inflight \cup topic :
            m.day = day[m.click] /\ send[m.click] \notin {"unborn", "born"}

OutcomeInv == /\ main # "running" => ReadersDone
              /\ main = "completed" => ~cancelled /\ failed = {}

IInv == TypeOK /\ ReaderInv /\ TriesInv /\ DoneInv /\ DayInv /\ OutcomeInv

-----------------------------------------------------------------------------
(* Nothing has been started; a signal may have come. *)
Pristine ==
  /\ now = 0 /\ cancelled \in BOOLEAN /\ paced \in BOOLEAN
  /\ started = [r \in Readers |-> 0] /\ reader = [r \in Readers |-> "loop"]
  /\ send = [c \in Clicks |-> "unborn"]
  /\ day = [c \in Clicks |-> 0] /\ tries = [c \in Clicks |-> 0]
  /\ inflight = {} /\ topic = {} /\ failed = {}

Begins == Pristine /\ numReads \in ReadPlans /\ main = "running"

LEMMA BeginsWell == Begins => IInv
<1> SUFFICES ASSUME Begins PROVE IInv
    OBVIOUS
<1> USE DEF Begins, Pristine
<1>1. TypeOK
  <2>1. numReads \in [Readers -> MinReads..MaxReads]
        BY DEF ReadPlans
  <2>2. 0 \in Days /\ 0 \in 0..Attempts /\ 0 \in 0..MaxReads
        BY ImitatorAssumption DEF Days, Attempts
  <2>3. QED BY <2>1, <2>2 DEF TypeOK
<1>2. ReaderInv
  <2>1. ASSUME NEW r \in Readers PROVE started[r] <= numReads[r]
    <3>1. numReads[r] \in MinReads..MaxReads /\ started[r] = 0
          BY <1>1 DEF TypeOK
    <3>2. QED BY <3>1, ImitatorAssumption
  <2>2. \A r \in Readers : \A i \in 1..MaxReads : send[<<r, i>>] = "unborn"
        BY DEF Clicks
  <2>3. \A r \in Readers : reader[r] = "loop"
        OBVIOUS
  <2>4. QED BY <2>1, <2>2, <2>3 DEF ReaderInv
<1>3. TriesInv
      BY ImitatorAssumption DEF TriesInv, Attempts
<1>4. DoneInv /\ DayInv /\ OutcomeInv
      BY DEF DoneInv, DayInv, OutcomeInv
<1>5. QED BY <1>1, <1>2, <1>3, <1>4 DEF IInv

-----------------------------------------------------------------------------
(* Steps of a reader.                                                       *)

LEMMA StartReadStep ==
  ASSUME IInv, NEW r \in Readers, StartRead(r)
  PROVE  IInv'
<1> DEFINE c == <<r, started[r] + 1>>
<1>1. /\ started[r] \in Nat /\ started[r] + 1 \in 1..MaxReads
      /\ started[r] + 1 <= numReads[r] /\ numReads[r] \in Nat
  <2>1. started[r] \in 0..MaxReads /\ numReads[r] \in MinReads..MaxReads
        BY DEF IInv, TypeOK
  <2>2. started[r] < numReads[r]
        BY DEF StartRead
  <2>3. QED BY <2>1, <2>2, ImitatorAssumption
<1>2. c \in Clicks
      BY <1>1 DEF Clicks
<1>3. /\ started' = [started EXCEPT ![r] = @ + 1]
      /\ send' = [send EXCEPT ![c] = "born"]
      /\ reader[r] = "loop"
      /\ reader' = [reader EXCEPT ![r] = IF paced THEN "delay" ELSE "loop"]
      /\ UNCHANGED <<now, cancelled, paced, numReads, day, tries, failed, inflight, topic, main>>
      BY DEF StartRead, clock, kafka
<1>4. send[c] = "unborn"
  <2>1. \A i \in 1..MaxReads : i > started[r] => send[<<r, i>>] = "unborn"
        BY DEF IInv, ReaderInv
  <2>2. QED BY <1>1, <2>1
<1> HIDE DEF c
<1>5. TypeOK'
  <2>1. started' \in [Readers -> 0..MaxReads]
        BY <1>1, <1>3 DEF IInv, TypeOK
  <2>2. send' \in [Clicks -> {"unborn", "born", "top", "sending", "pause", "done"}]
        BY <1>2, <1>3 DEF IInv, TypeOK
  <2>3. reader' \in [Readers -> {"loop", "delay", "join", "done"}]
        BY <1>3 DEF IInv, TypeOK
  <2>4. QED BY <1>3, <2>1, <2>2, <2>3 DEF IInv, TypeOK
<1>6. ReaderInv'
  <2> SUFFICES ASSUME NEW q \in Readers
               PROVE  /\ started'[q] <= numReads[q]
                      /\ \A i \in 1..MaxReads : i > started'[q] => send'[<<q, i>>] = "unborn"
                      /\ reader'[q] = "done" => \A i \in 1..started'[q] : send'[<<q, i>>] = "done"
                      /\ reader'[q] \in {"join", "done"} => cancelled \/ started'[q] = numReads[q]
      BY <1>3 DEF ReaderInv
  <2>1. CASE q = r
    <3>1. started'[q] = started[r] + 1 /\ reader'[q] \in {"delay", "loop"}
          BY <1>3, <2>1 DEF IInv, TypeOK
    <3>2. \A i \in 1..MaxReads : i > started[r] + 1 => send'[<<r, i>>] = "unborn"
      <4> SUFFICES ASSUME NEW i \in 1..MaxReads, i > started[r] + 1 PROVE send'[<<r, i>>] = "unborn"
          OBVIOUS
      <4>1. i > started[r] /\ i # started[r] + 1
            BY <1>1, ImitatorAssumption
      <4>2. send[<<r, i>>] = "unborn" /\ <<r, i>> # c /\ <<r, i>> \in Clicks
            BY <4>1 DEF IInv, ReaderInv, c, Clicks
      <4>3. QED BY <1>3, <4>2 DEF IInv, TypeOK
    <3>3. QED BY <1>1, <2>1, <3>1, <3>2
  <2>2. CASE q # r
    <3>1. started'[q] = started[q] /\ reader'[q] = reader[q]
          BY <1>3, <2>2 DEF IInv, TypeOK
    <3>2. \A i \in 1..MaxReads : send'[<<q, i>>] = send[<<q, i>>]
          BY <1>3, <2>2 DEF IInv, TypeOK, c, Clicks
    <3>3. started[q] \in 0..MaxReads
          BY DEF IInv, TypeOK
    <3>4. \A i \in 1..started[q] : i \in 1..MaxReads
          BY <3>3, ImitatorAssumption
    <3>5. QED BY <3>1, <3>2, <3>4 DEF IInv, ReaderInv
  <2>3. QED BY <2>1, <2>2
<1>7. send'[c] = "born" /\ \A d \in Clicks : d # c => send'[d] = send[d]
  <2>1. send \in [Clicks -> {"unborn", "born", "top", "sending", "pause", "done"}]
        BY DEF IInv, TypeOK
  <2>2. send' = [send EXCEPT ![c] = "born"]
        BY <1>3
  <2>3. QED BY <1>2, <2>1, <2>2
<1>8. TriesInv' /\ DoneInv'
      BY <1>3, <1>4, <1>7 DEF IInv, TriesInv, DoneInv
<1>9. DayInv'
  <2>1. \A m \in inflight \cup topic : m.click \in Clicks
        BY DEF IInv, TypeOK, Messages
  <2>2. \A m \in inflight \cup topic : m.click # c
        BY <1>4 DEF IInv, DayInv
  <2>3. \A m \in inflight \cup topic : send'[m.click] = send[m.click]
        BY <1>7, <2>1, <2>2
  <2>4. QED BY <1>3, <2>3 DEF IInv, DayInv
<1>10. OutcomeInv'
  <2>1. main = "running"
        BY <1>3 DEF IInv, OutcomeInv, ReadersDone
  <2>2. QED BY <1>3, <2>1 DEF OutcomeInv
<1>11. QED BY <1>5, <1>6, <1>8, <1>9, <1>10 DEF IInv

(* The other steps of a reader touch nothing but its place. *)
LEMMA ReaderMoves ==
  ASSUME IInv, NEW r \in Readers, NEW place \in {"loop", "join", "done"},
         reader[r] # "done",
         reader' = [reader EXCEPT ![r] = place],
         UNCHANGED <<clock, paced, numReads, started, sends, kafka, main>>,
         place = "join" => cancelled \/ started[r] = numReads[r],
         place = "done" => reader[r] = "join" /\ SendsOver(r)
  PROVE  IInv'
<1>1. UNCHANGED <<now, cancelled, paced, numReads, started, send, day, tries, failed,
                  inflight, topic, main>>
      BY DEF clock, sends, kafka
<1>2. TypeOK'
  <2>1. reader' \in [Readers -> {"loop", "delay", "join", "done"}]
        BY DEF IInv, TypeOK
  <2>2. QED BY <1>1, <2>1 DEF IInv, TypeOK
<1>3. ReaderInv'
  <2> SUFFICES ASSUME NEW q \in Readers
               PROVE  /\ started[q] <= numReads[q]
                      /\ \A i \in 1..MaxReads : i > started[q] => send[<<q, i>>] = "unborn"
                      /\ reader'[q] = "done" => \A i \in 1..started[q] : send[<<q, i>>] = "done"
                      /\ reader'[q] \in {"join", "done"} => cancelled \/ started[q] = numReads[q]
      BY <1>1 DEF ReaderInv
  <2>1. CASE q # r
    <3>1. reader'[q] = reader[q]
          BY <2>1 DEF IInv, TypeOK
    <3>2. QED BY <3>1 DEF IInv, ReaderInv
  <2>2. CASE q = r
    <3>1. reader'[q] = place
          BY <2>2 DEF IInv, TypeOK
    <3>2. QED BY <2>2, <3>1 DEF IInv, ReaderInv, SendsOver
  <2>3. QED BY <2>1, <2>2
<1>4. TriesInv' /\ DoneInv' /\ DayInv'
      BY <1>1 DEF IInv, TriesInv, DoneInv, DayInv
<1>5. OutcomeInv'
  <2>1. main = "running"
        BY DEF IInv, OutcomeInv, ReadersDone
  <2>2. QED BY <1>1, <2>1 DEF OutcomeInv
<1>6. QED BY <1>2, <1>3, <1>4, <1>5 DEF IInv

LEMMA ReaderStepKeeps ==
  ASSUME IInv, NEW r \in Readers, ReaderStep(r)
  PROVE  IInv'
<1>1. CASE StartRead(r)
      BY <1>1, StartReadStep
<1>2. CASE DelayEnds(r)
  <2>1. CASE reader' = [reader EXCEPT ![r] = "loop"]
        BY <1>2, <2>1, ReaderMoves DEF DelayEnds
  <2>2. CASE cancelled /\ reader' = [reader EXCEPT ![r] = "join"]
        BY <1>2, <2>2, ReaderMoves DEF DelayEnds
  <2>3. QED BY <1>2, <2>1, <2>2 DEF DelayEnds, AfterCancel
<1>3. CASE AllStarted(r)
      BY <1>3, ReaderMoves DEF AllStarted
<1>4. CASE Join(r)
  <2>1. cancelled \/ started[r] = numReads[r]
        BY <1>4 DEF Join, IInv, ReaderInv
  <2>2. QED BY <1>4, <2>1, ReaderMoves DEF Join
<1>5. QED BY <1>1, <1>2, <1>3, <1>4 DEF ReaderStep

-----------------------------------------------------------------------------
(* Steps of a send.  They begin where neither "unborn" nor "done" is, so    *)
(* that no reader is done that has started it, and the run is not over.     *)

Active == {"born", "top", "sending", "pause"}

LEMMA ActiveSend ==
  ASSUME IInv, NEW c \in Clicks, send[c] \in Active
  PROVE  /\ c[1] \in Readers /\ c[2] \in 1..MaxReads /\ c = <<c[1], c[2]>>
         /\ c[2] <= started[c[1]]
         /\ reader[c[1]] # "done"
         /\ main = "running"
         /\ tries[c] \in Nat /\ tries[c] < Attempts
         /\ c \notin failed
<1>1. c[1] \in Readers /\ c[2] \in 1..MaxReads /\ c = <<c[1], c[2]>>
      BY DEF Clicks
<1>2. c[2] <= started[c[1]]
  <2>1. started[c[1]] \in 0..MaxReads
        BY <1>1 DEF IInv, TypeOK
  <2>2. c[2] > started[c[1]] => send[c] = "unborn"
        BY <1>1 DEF IInv, ReaderInv
  <2>3. QED BY <1>1, <2>1, <2>2, ImitatorAssumption DEF Active
<1>3. reader[c[1]] # "done"
  <2>1. started[c[1]] \in 0..MaxReads
        BY <1>1 DEF IInv, TypeOK
  <2>2. c[2] \in 1..started[c[1]]
        BY <1>1, <1>2, <2>1, ImitatorAssumption
  <2>3. reader[c[1]] = "done" => send[<<c[1], c[2]>>] = "done"
        BY <1>1, <2>2 DEF IInv, ReaderInv
  <2>4. QED BY <1>1, <2>3 DEF Active
<1>4. main = "running"
      BY <1>1, <1>3 DEF IInv, OutcomeInv, ReadersDone
<1>5. tries[c] \in Nat
      BY ImitatorAssumption DEF IInv, TypeOK, Attempts
<1>6. tries[c] < Attempts /\ c \notin failed
      BY DEF IInv, TriesInv, Active
<1>7. QED BY <1>1, <1>2, <1>3, <1>4, <1>5, <1>6

(* Moving one active send keeps what is said about readers. *)
LEMMA ReaderInvKept ==
  ASSUME IInv, NEW c \in Clicks, send[c] \in Active, NEW next,
         next \in {"top", "sending", "pause", "done"},
         send' = [send EXCEPT ![c] = next],
         UNCHANGED <<cancelled, numReads, started, reader, main>>
  PROVE  /\ ReaderInv'
         /\ send' \in [Clicks -> {"unborn", "born", "top", "sending", "pause", "done"}]
         /\ send'[c] = next
         /\ \A d \in Clicks : d # c => send'[d] = send[d]
<1>1. send \in [Clicks -> {"unborn", "born", "top", "sending", "pause", "done"}]
      BY DEF IInv, TypeOK
<1>2. send'[c] = next /\ \A d \in Clicks : d # c => send'[d] = send[d]
      BY <1>1
<1>3. ASSUME NEW r \in Readers
      PROVE  /\ \A i \in 1..MaxReads : i > started[r] => send'[<<r, i>>] = "unborn"
             /\ reader[r] = "done" => \A i \in 1..started[r] : send'[<<r, i>>] = "done"
  <2>1. started[r] \in 0..MaxReads
        BY DEF IInv, TypeOK
  <2>2. ASSUME NEW i \in 1..MaxReads, i > started[r] PROVE send'[<<r, i>>] = "unborn"
    <3>1. send[<<r, i>>] = "unborn" /\ <<r, i>> \in Clicks
          BY <2>2 DEF IInv, ReaderInv, Clicks
    <3>2. <<r, i>> # c
          BY <3>1 DEF Active
    <3>3. QED BY <1>2, <3>1, <3>2
  <2>3. ASSUME reader[r] = "done", NEW i \in 1..started[r] PROVE send'[<<r, i>>] = "done"
    <3>1. i \in 1..MaxReads
          BY <2>1, ImitatorAssumption
    <3>2. send[<<r, i>>] = "done" /\ <<r, i>> \in Clicks
          BY <2>3, <3>1 DEF IInv, ReaderInv, Clicks
    <3>3. <<r, i>> # c
          BY <3>2 DEF Active
    <3>4. QED BY <1>2, <3>2, <3>3
  <2>4. QED BY <2>2, <2>3
<1>4. ReaderInv'
      BY <1>3 DEF IInv, ReaderInv
<1>5. send' \in [Clicks -> {"unborn", "born", "top", "sending", "pause", "done"}]
      BY <1>1
<1>6. QED BY <1>2, <1>4, <1>5

LEMMA StampStep ==
  ASSUME IInv, NEW c \in Clicks, Stamp(c)
  PROVE  IInv'
<1>1. /\ send[c] = "born" /\ send' = [send EXCEPT ![c] = "top"]
      /\ day' = [day EXCEPT ![c] = now]
      /\ UNCHANGED <<now, cancelled, paced, numReads, started, reader, tries, failed,
                    inflight, topic, main>>
      BY DEF Stamp, MoveSend, clock, readers, kafka
<1>2. send[c] \in Active
      BY <1>1 DEF Active
<1>3. /\ ReaderInv'
      /\ send' \in [Clicks -> {"unborn", "born", "top", "sending", "pause", "done"}]
      /\ send'[c] = "top"
      /\ \A d \in Clicks : d # c => send'[d] = send[d]
      BY <1>1, <1>2, ReaderInvKept
<1>4. day' \in [Clicks -> Days] /\ \A d \in Clicks : d # c => day'[d] = day[d]
      BY <1>1 DEF IInv, TypeOK
<1>5. TypeOK'
      BY <1>1, <1>3, <1>4 DEF IInv, TypeOK
<1>6. TriesInv' /\ DoneInv'
      BY <1>1, <1>3 DEF IInv, TriesInv, DoneInv
<1>7. DayInv'
  <2>1. \A m \in inflight \cup topic : m.click \in Clicks
        BY DEF IInv, TypeOK, Messages
  <2>2. \A m \in inflight \cup topic : m.click # c
        BY <1>1 DEF IInv, DayInv
  <2>3. \A m \in inflight \cup topic : send'[m.click] = send[m.click] /\ day'[m.click] = day[m.click]
        BY <1>3, <1>4, <2>1, <2>2
  <2>4. QED BY <1>1, <2>3 DEF IInv, DayInv
<1>8. OutcomeInv'
      BY <1>1 DEF IInv, OutcomeInv, ReadersDone
<1>9. QED BY <1>3, <1>5, <1>6, <1>7, <1>8 DEF IInv

LEMMA BeginSendStep ==
  ASSUME IInv, NEW c \in Clicks, BeginSend(c)
  PROVE  IInv'
<1>1. /\ send[c] = "top" /\ send' = [send EXCEPT ![c] = "sending"]
      /\ inflight' = inflight \cup {MessageOf(c)}
      /\ UNCHANGED <<now, cancelled, paced, numReads, started, reader, day, tries, failed,
                    topic, main>>
      BY DEF BeginSend, MoveSend, clock, readers
<1>2. send[c] \in Active
      BY <1>1 DEF Active
<1>3. /\ ReaderInv'
      /\ send' \in [Clicks -> {"unborn", "born", "top", "sending", "pause", "done"}]
      /\ send'[c] = "sending"
      /\ \A d \in Clicks : d # c => send'[d] = send[d]
      BY <1>1, <1>2, ReaderInvKept
<1>4. MessageOf(c) \in Messages
  <2>1. day[c] \in Days
        BY DEF IInv, TypeOK
  <2>2. tries[c] \in Nat /\ tries[c] < Attempts
        BY <1>2, ActiveSend
  <2>3. tries[c] + 1 \in 1..Attempts
        BY <2>2, ImitatorAssumption DEF Attempts
  <2>4. QED BY <2>1, <2>3 DEF MessageOf, Messages, DayOf
<1>5. TypeOK'
      BY <1>1, <1>3, <1>4 DEF IInv, TypeOK
<1>6. TriesInv' /\ DoneInv'
      BY <1>1, <1>3 DEF IInv, TriesInv, DoneInv
<1>7. DayInv'
  <2>1. \A m \in inflight \cup topic : m.click \in Clicks
        BY DEF IInv, TypeOK, Messages
  <2>2. ASSUME NEW m \in inflight \cup topic
        PROVE  m.day = day[m.click] /\ send'[m.click] \notin {"unborn", "born"}
    <3>1. m.click \in Clicks /\ m.day = day[m.click] /\ send[m.click] \notin {"unborn", "born"}
          BY <2>1 DEF IInv, DayInv
    <3>2. send'[m.click] \in {send[m.click], "sending"}
          BY <1>3, <3>1
    <3>3. QED BY <3>1, <3>2
  <2>3. MessageOf(c).click = c /\ MessageOf(c).day = day[c]
        BY DEF MessageOf, DayOf
  <2>4. QED BY <1>1, <1>3, <2>2, <2>3 DEF DayInv
<1>8. OutcomeInv'
      BY <1>1 DEF IInv, OutcomeInv, ReadersDone
<1>9. QED BY <1>3, <1>5, <1>6, <1>7, <1>8 DEF IInv

(* What the remaining steps of a send have in common: topic, days and       *)
(* messages stay, and the send is at one of the places behind "born".       *)
LEMMA SendMoves ==
  ASSUME IInv, NEW c \in Clicks, send[c] \in Active,
         NEW next, next \in {"top", "sending", "pause", "done"},
         send' = [send EXCEPT ![c] = next],
         UNCHANGED <<now, cancelled, paced, numReads, started, reader, day, inflight, topic, main>>,
         tries' \in [Clicks -> 0..Attempts], failed' \in SUBSET Clicks,
         TriesInv',
         \A d \in failed : d \in failed',
         next = "done" => cancelled \/ c \in failed' \/ \E m \in topic : m.click = c,
         failed' = failed \/ main # "completed"
  PROVE  IInv'
<1>3. /\ ReaderInv'
      /\ send' \in [Clicks -> {"unborn", "born", "top", "sending", "pause", "done"}]
      /\ send'[c] = next
      /\ \A d \in Clicks : d # c => send'[d] = send[d]
      BY ReaderInvKept
<1>5. TypeOK'
      BY <1>3 DEF IInv, TypeOK
<1>6. DoneInv'
      BY <1>3 DEF IInv, DoneInv
<1>7. DayInv'
  <2>1. \A m \in inflight \cup topic : m.click \in Clicks
        BY DEF IInv, TypeOK, Messages
  <2>2. ASSUME NEW m \in inflight \cup topic
        PROVE  m.day = day[m.click] /\ send'[m.click] \notin {"unborn", "born"}
    <3>1. m.click \in Clicks /\ m.day = day[m.click] /\ send[m.click] \notin {"unborn", "born"}
          BY <2>1 DEF IInv, DayInv
    <3>2. send'[m.click] \in {send[m.click], next}
          BY <1>3, <3>1
    <3>3. QED BY <3>1, <3>2
  <2>4. QED BY <2>2 DEF DayInv
<1>8. OutcomeInv'
      BY DEF IInv, OutcomeInv, ReadersDone
<1>9. QED BY <1>3, <1>5, <1>6, <1>7, <1>8 DEF IInv

LEMMA SendStepKeeps ==
  ASSUME IInv, NEW c \in Clicks, SendStep(c)
  PROVE  IInv'
<1>1. CASE Stamp(c)
      BY <1>1, StampStep
<1>2. CASE BeginSend(c)
      BY <1>2, BeginSendStep
<1> DEFINE Rest == UNCHANGED <<now, cancelled, paced, numReads, started, reader, day,
                               inflight, topic, main>>
<1>3. ASSUME UNCHANGED <<tries, failed>>, Rest, NEW next \in {"top", "done"},
             send[c] \in Active, send' = [send EXCEPT ![c] = next],
             next = "done" => cancelled \/ \E m \in topic : m.click = c
      PROVE  IInv'
  <2>1. \A d \in Clicks : d # c => send'[d] = send[d]
        BY <1>3 DEF IInv, TypeOK
  <2>2. tries[c] < Attempts /\ c \notin failed
        BY <1>3, ActiveSend
  <2>3. TriesInv'
        BY <1>3, <2>1, <2>2 DEF IInv, TriesInv
  <2>4. tries' \in [Clicks -> 0..Attempts] /\ failed' \in SUBSET Clicks
        BY <1>3 DEF IInv, TypeOK
  <2>5. QED BY <1>3, <2>3, <2>4, SendMoves
<1>4. CASE Acknowledged(c)
  <2>1. /\ send[c] = "sending" /\ send' = [send EXCEPT ![c] = "done"]
        /\ \E m \in topic : m.click = c
        /\ UNCHANGED <<tries, failed>> /\ Rest
        BY <1>4 DEF Acknowledged, MoveSend, clock, readers, kafka
  <2>2. QED BY <1>3, <2>1 DEF Active
<1>5. CASE Retry(c)
  <2>1. /\ send[c] = "pause" /\ send' = [send EXCEPT ![c] = "top"]
        /\ UNCHANGED <<tries, failed>> /\ Rest
        BY <1>5 DEF Retry, MoveSend, clock, readers, kafka
  <2>2. QED BY <1>3, <2>1 DEF Active
<1>6. CASE Abort(c)
  <2>1. /\ send[c] \in {"top", "sending", "pause"} /\ send' = [send EXCEPT ![c] = "done"]
        /\ cancelled
        /\ UNCHANGED <<tries, failed>> /\ Rest
        BY <1>6 DEF Abort, MoveSend, clock, readers, kafka
  <2>2. QED BY <1>3, <2>1 DEF Active
<1>7. CASE SendFails(c)
  <2>1. /\ send[c] = "sending" /\ send' = [send EXCEPT ![c] = "pause"]
        /\ tries' = [tries EXCEPT ![c] = @ + 1] /\ tries[c] + 1 # Attempts
        /\ UNCHANGED failed /\ Rest
        BY <1>7 DEF SendFails, LastTry, MoveSend, clock, readers, kafka
  <2>2. send[c] \in Active
        BY <2>1 DEF Active
  <2>3. tries[c] \in Nat /\ tries[c] < Attempts /\ c \notin failed
        BY <2>2, ActiveSend
  <2>4. tries[c] + 1 \in 0..Attempts /\ tries[c] + 1 < Attempts
        BY <2>1, <2>3, ImitatorAssumption DEF Attempts
  <2>5. /\ tries' \in [Clicks -> 0..Attempts] /\ tries'[c] = tries[c] + 1
        /\ \A d \in Clicks : d # c => tries'[d] = tries[d] /\ send'[d] = send[d]
        BY <2>1, <2>4 DEF IInv, TypeOK
  <2>6. TriesInv'
        BY <2>1, <2>3, <2>4, <2>5 DEF IInv, TriesInv
  <2>7. failed' \in SUBSET Clicks
        BY <2>1 DEF IInv, TypeOK
  <2>8. QED BY <2>1, <2>2, <2>5, <2>6, <2>7, SendMoves
<1>8. CASE GiveUp(c)
  <2>1. /\ send[c] = "sending" /\ send' = [send EXCEPT ![c] = "done"]
        /\ tries' = [tries EXCEPT ![c] = @ + 1] /\ tries[c] + 1 = Attempts
        /\ failed' = failed \cup {c} /\ Rest
        BY <1>8 DEF GiveUp, LastTry, MoveSend, clock, readers, kafka
  <2>2. send[c] \in Active
        BY <2>1 DEF Active
  <2>3. main = "running"
        BY <2>2, ActiveSend
  <2>4. Attempts \in 0..Attempts
        BY ImitatorAssumption DEF Attempts
  <2>5. /\ tries' \in [Clicks -> 0..Attempts] /\ tries'[c] = Attempts /\ send'[c] = "done"
        /\ \A d \in Clicks : d # c => tries'[d] = tries[d] /\ send'[d] = send[d]
        BY <2>1, <2>4 DEF IInv, TypeOK
  <2>6. TriesInv'
        BY <2>1, <2>5 DEF IInv, TriesInv
  <2>7. failed' \in SUBSET Clicks
        BY <2>1 DEF IInv, TypeOK
  <2>8. c \in failed'
        BY <2>1
  <2>9. QED BY <2>1, <2>2, <2>3, <2>5, <2>6, <2>7, <2>8, SendMoves
<1>9. QED BY <1>1, <1>2, <1>4, <1>5, <1>6, <1>7, <1>8 DEF SendStep

-----------------------------------------------------------------------------
(* The writer, the clock, the signal and the end of the run.                *)

LEMMA WriterKeeps ==
  ASSUME IInv, NEW m \in Messages, Write(m) \/ Lose(m)
  PROVE  IInv'
<1>1. /\ m \in inflight
      /\ inflight' \subseteq inflight /\ topic \subseteq topic' /\ topic' \subseteq topic \cup {m}
      /\ UNCHANGED <<now, cancelled, paced, numReads, started, reader, send, day, tries,
                    failed, main>>
      BY DEF Write, Lose, clock, readers, sends
<1>2. TypeOK'
      BY <1>1 DEF IInv, TypeOK
<1>3. ReaderInv' /\ TriesInv' /\ OutcomeInv'
      BY <1>1 DEF IInv, ReaderInv, TriesInv, OutcomeInv, ReadersDone
<1>4. DoneInv' /\ DayInv'
      BY <1>1 DEF IInv, DoneInv, DayInv
<1>5. QED BY <1>2, <1>3, <1>4 DEF IInv

LEMMA IInvStep == IInv /\ [Next]_vars => IInv'
<1> SUFFICES ASSUME IInv, [Next]_vars PROVE IInv'
    OBVIOUS
<1>1. CASE Midnight
  <2>1. now' \in Days
        BY <1>1, ImitatorAssumption DEF Midnight, IInv, TypeOK, Days
  <2>2. UNCHANGED <<cancelled, paced, numReads, started, reader, send, day, tries, failed,
                    inflight, topic, main>>
        BY <1>1 DEF Midnight, readers, sends, kafka
  <2>3. QED BY <2>1, <2>2
        DEF IInv, TypeOK, ReaderInv, TriesInv, DoneInv, DayInv, OutcomeInv, ReadersDone
<1>2. CASE Cancel
  <2>1. /\ main = "running" /\ cancelled' = TRUE
        /\ UNCHANGED <<now, paced, numReads, started, reader, send, day, tries, failed,
                      inflight, topic, main>>
        BY <1>2 DEF Cancel, readers, sends, kafka
  <2>2. QED BY <2>1
        DEF IInv, TypeOK, ReaderInv, TriesInv, DoneInv, DayInv, OutcomeInv, ReadersDone
<1>3. ASSUME NEW r \in Readers, ReaderStep(r) PROVE IInv'
      BY <1>3, ReaderStepKeeps
<1>4. ASSUME NEW c \in Clicks, SendStep(c) PROVE IInv'
      BY <1>4, SendStepKeeps
<1>5. ASSUME NEW m \in Messages, Write(m) \/ Lose(m) PROVE IInv'
      BY <1>5, WriterKeeps
<1>6. CASE RunReturns
  <2>1. /\ ReadersDone
        /\ main' = IF cancelled THEN "interrupted"
                   ELSE IF failed # {} THEN "error" ELSE "completed"
        /\ UNCHANGED <<now, cancelled, paced, numReads, started, reader, send, day, tries,
                      failed, inflight, topic>>
        BY <1>6 DEF RunReturns, clock, readers, sends, kafka
  <2>2. TypeOK' /\ OutcomeInv'
        BY <2>1 DEF IInv, TypeOK, OutcomeInv, ReadersDone
  <2>3. QED BY <2>1, <2>2 DEF IInv, ReaderInv, TriesInv, DoneInv, DayInv
<1>7. CASE Close
  <2>1. /\ main # "running" /\ main' = "exited"
        /\ UNCHANGED <<now, cancelled, paced, numReads, started, reader, send, day, tries,
                      failed, inflight, topic>>
        BY <1>7 DEF Close, clock, readers, sends, kafka
  <2>2. TypeOK' /\ OutcomeInv'
        BY <2>1 DEF IInv, TypeOK, OutcomeInv, ReadersDone
  <2>3. QED BY <2>1, <2>2 DEF IInv, ReaderInv, TriesInv, DoneInv, DayInv
<1>8. CASE UNCHANGED vars
      BY <1>8 DEF vars, clock, readers, sends, kafka,
                  IInv, TypeOK, ReaderInv, TriesInv, DoneInv, DayInv, OutcomeInv, ReadersDone
<1>9. QED BY <1>1, <1>2, <1>3, <1>4, <1>5, <1>6, <1>7, <1>8 DEF Next, Work, WriterStep

LEMMA InitBegins == Init => Begins
  BY DEF Init, Begins, Pristine

LEMMA Invariance == Spec => []IInv
<1>1. Init => IInv
      BY InitBegins, BeginsWell
<1>2. QED BY <1>1, IInvStep, PTL DEF Spec

-----------------------------------------------------------------------------
(* What the invariant implies.                                              *)

Properties == NoSendAfterRun /\ CompletedMeansWritten /\ GivenUpLast /\ OneDayPerClick

LEMMA SendsAreOver ==
  ASSUME IInv, ReadersDone, NEW c \in Clicks
  PROVE  send[c] \in {"unborn", "done"}
<1>1. c[1] \in Readers /\ c[2] \in 1..MaxReads /\ c = <<c[1], c[2]>>
      BY DEF Clicks
<1>2. started[c[1]] \in 0..MaxReads
      BY <1>1 DEF IInv, TypeOK
<1>3. CASE c[2] > started[c[1]]
      BY <1>1, <1>3 DEF IInv, ReaderInv
<1>4. CASE c[2] \in 1..started[c[1]]
  <2>1. \A i \in 1..started[c[1]] : send[<<c[1], i>>] = "done"
        BY <1>1 DEF IInv, ReaderInv, ReadersDone
  <2>2. QED BY <1>1, <1>4, <2>1
<1>5. QED BY <1>1, <1>2, <1>3, <1>4, ImitatorAssumption

LEMMA Written ==
  ASSUME IInv, main = "completed", NEW r \in Readers, NEW i \in 1..numReads[r]
  PROVE  \E m \in topic : m.click = <<r, i>>
<1>1. ReadersDone /\ ~cancelled /\ failed = {}
      BY DEF IInv, OutcomeInv
<1>2. started[r] = numReads[r]
      BY <1>1 DEF IInv, ReaderInv, ReadersDone
<1>3. send[<<r, i>>] = "done"
  <2>1. \A j \in 1..started[r] : send[<<r, j>>] = "done"
        BY <1>1 DEF IInv, ReaderInv, ReadersDone
  <2>2. QED BY <1>2, <2>1
<1>4. <<r, i>> \in Clicks
  <2>1. numReads[r] \in MinReads..MaxReads
        BY DEF IInv, TypeOK
  <2>2. i \in 1..MaxReads
        BY <2>1, ImitatorAssumption
  <2>3. QED BY <2>2 DEF Clicks
<1>5. QED BY <1>1, <1>3, <1>4 DEF IInv, DoneInv

LEMMA IInvImplies == IInv => Properties
<1> SUFFICES ASSUME IInv PROVE Properties
    OBVIOUS
<1>1. NoSendAfterRun
  <2>1. Over => ReadersDone
        BY DEF IInv, OutcomeInv, Over
  <2>2. QED BY <2>1, SendsAreOver DEF NoSendAfterRun
<1>2. CompletedMeansWritten
      BY Written DEF CompletedMeansWritten
<1>3. GivenUpLast
      BY DEF IInv, TypeOK, TriesInv, GivenUpLast
<1>4. OneDayPerClick
      BY DEF IInv, DayInv, OneDayPerClick
<1>5. QED BY <1>1, <1>2, <1>3, <1>4 DEF Properties

(* The variables of the simulation keep their types: no reader starts more  *)
(* reads than it is going to make, no send makes more attempts than the     *)
(* schedule has.                                                            *)
THEOREM TypeCorrect == Spec => []TypeOK
<1>1. IInv => TypeOK
      BY DEF IInv
<1>2. QED BY <1>1, Invariance, PTL

(* NoSendAfterRun: the two WaitGroups hold Run back until the last send is  *)
(* over, also when a signal ends the readers' pauses.                       *)
THEOREM WriterUnusedAfterRun == Spec => []NoSendAfterRun
  BY Invariance, IInvImplies, PTL DEF Properties

(* CompletedMeansWritten: success is reported only if each click of each    *)
(* reader has been written.                                                 *)
THEOREM SuccessIsComplete == Spec => []CompletedMeansWritten
  BY Invariance, IInvImplies, PTL DEF Properties

(* GivenUpLast: a send is given up after its last attempt and not before.   *)
THEOREM WholeScheduleUsed == Spec => []GivenUpLast
  BY Invariance, IInvImplies, PTL DEF Properties

(* OneDayPerClick: copies of a click in the topic carry one day.            *)
THEOREM CopiesAgree == Spec => []OneDayPerClick
  BY Invariance, IInvImplies, PTL DEF Properties

-----------------------------------------------------------------------------
(* The process: until the readers are started nothing is, and they are      *)
(* started as Init starts them.                                             *)

Before == {"load", "verify", "build", "start"}

StartInv ==
  /\ stage = "run" => IInv
  /\ stage # "run" => Pristine /\ main \in {"running", "exited"}
  /\ stage \in Before => main = "running"

LEMMA StartInvImplies == StartInv => Properties
<1>1. ASSUME Pristine, main \in {"running", "exited"} PROVE Properties
      BY <1>1 DEF Pristine, Properties, NoSendAfterRun, CompletedMeansWritten, GivenUpLast,
                  OneDayPerClick
<1>2. QED BY <1>1, IInvImplies DEF StartInv

LEMMA StartedWell == StartInv /\ StartReaders => IInv'
<1>1. StartInv /\ StartReaders => Begins'
  <2> SUFFICES ASSUME StartInv, StartReaders PROVE Begins'
      OBVIOUS
  <2>1. Pristine /\ main = "running"
        BY DEF StartInv, StartReaders, Before
  <2>2. /\ numReads' \in ReadPlans /\ paced' \in BOOLEAN
        /\ UNCHANGED <<now, cancelled, started, reader, send, day, tries, failed, inflight,
                      topic, main>>
        BY DEF StartReaders, clock, sends, kafka
  <2>3. QED BY <2>1, <2>2 DEF Begins, Pristine, ReadPlans
<1>2. QED BY <1>1, BeginsWell, PTL

LEMMA StartStep == StartInv /\ [MainNext]_allVars => StartInv'
<1> SUFFICES ASSUME StartInv, [MainNext]_allVars PROVE StartInv'
    OBVIOUS
<1>1. ASSUME UNCHANGED vars, stage \in Before, stage' \in Before PROVE StartInv'
  <2>1. stage # "run" /\ stage' # "run"
        BY <1>1 DEF Before
  <2>2. QED BY <1>1, <2>1 DEF StartInv, Pristine, vars, clock, readers, sends, kafka
<1>2. ASSUME NEW at, at \notin Before \cup {"run"}, stage \in Before, Fail(at) PROVE StartInv'
  <2>1. stage # "run" /\ stage' = at /\ main' = "exited"
        BY <1>2 DEF Before, Fail
  <2>2. UNCHANGED <<now, cancelled, paced, started, reader, send, day, tries, failed, inflight, topic>>
        BY <1>2 DEF Fail, clock, readers, sends, kafka
  <2>3. QED BY <1>2, <2>1, <2>2 DEF StartInv, Pristine
<1>3. CASE LoadConfig
      BY <1>1, <1>2, <1>3 DEF LoadConfig, Continue, Before
<1>4. CASE Interrupted
      BY <1>2, <1>4 DEF Interrupted, Before
<1>5. CASE TopicVerified
      BY <1>1, <1>5 DEF TopicVerified, Continue, Before
<1>6. CASE BrokerFails
      BY <1>1, <1>2, <1>6 DEF BrokerFails, Continue, Before
<1>7. CASE BuildStrategy
  <2>1. Continue("start") \/ Fail("not loaded")
        BY <1>7 DEF BuildStrategy
  <2>2. QED BY <1>1, <1>2, <1>7, <2>1 DEF BuildStrategy, Continue, Before
<1>8. CASE Panic
      BY <1>2, <1>8 DEF Panic, Before
<1>9. CASE StartReaders
  <2>1. stage' = "run"
        BY <1>9 DEF StartReaders
  <2>2. QED BY <1>9, <2>1, StartedWell DEF StartInv, Before
<1>10. CASE CancelStart
  <2>1. /\ stage \in Before /\ stage # "run" /\ stage' = stage
        /\ cancelled' = TRUE
        /\ UNCHANGED <<now, paced, started, reader, send, day, tries, failed, inflight,
                      topic, main>>
        BY <1>10 DEF CancelStart, Cancel, startup, readers, sends, kafka, Before
  <2>2. QED BY <2>1 DEF StartInv, Pristine
<1>11. CASE Next /\ Simulates
  <2>1. stage = "run" /\ stage' = "run"
        BY <1>11 DEF Simulates, startup
  <2>2. QED BY <1>11, <2>1, IInvStep DEF StartInv, Before
<1>12. CASE UNCHANGED allVars
  <2>1. stage' = stage /\ UNCHANGED vars
        BY <1>12 DEF allVars, startup
  <2>2. IInv => IInv'
        BY <2>1, IInvStep
  <2>3. QED BY <2>1, <2>2 DEF StartInv, Pristine, vars, clock, readers, sends, kafka
<1>13. QED BY <1>3, <1>4, <1>5, <1>6, <1>7, <1>8, <1>9, <1>10, <1>11, <1>12
       DEF MainNext, Startup

(* What holds of the simulation also holds of the process that starts it    *)
(* from its settings and scenario files, or refuses to.                     *)
THEOREM StartedProcess ==
  MainSpec => [](NoSendAfterRun /\ CompletedMeansWritten /\ GivenUpLast /\ OneDayPerClick)
<1>1. MainInit => StartInv
  <2> SUFFICES ASSUME MainInit PROVE StartInv
      OBVIOUS
  <2>1. Begins /\ stage = "load"
        BY InitBegins DEF MainInit
  <2>2. QED BY <2>1 DEF StartInv, Begins
<1>2. StartInv => NoSendAfterRun /\ CompletedMeansWritten /\ GivenUpLast /\ OneDayPerClick
      BY StartInvImplies DEF Properties
<1>3. QED BY <1>1, <1>2, StartStep, PTL DEF MainSpec

-----------------------------------------------------------------------------
(* Sequences: induction over their length, and what Keep leaves of one.      *)
\* Induction, for a set of numbers.
LEMMA AllNumbers ==
  ASSUME NEW T \in SUBSET Nat, 0 \in T, \A n \in T : n + 1 \in T
  PROVE  Nat \subseteq T
<1> SUFFICES ASSUME Nat \ T # {} PROVE FALSE
    OBVIOUS
<1>1. PICK m \in Nat \ T : \A y \in Nat \ T : <<y, m>> \notin OpToRel(<, Nat)
      BY NatLessThanWellFounded, WFMin
<1>2. m # 0 /\ m - 1 \in Nat /\ m - 1 < m
      OBVIOUS
<1>3. <<m - 1, m>> \in OpToRel(<, Nat)
      BY <1>2 DEF OpToRel
<1>4. m - 1 \in T
      BY <1>1, <1>2, <1>3
<1>5. (m - 1) + 1 = m
      BY <1>2
<1>6. QED BY <1>4, <1>5

\* f holds what is kept of the first n elements.
KeptBy(f, s, K) ==
  /\ f[0] = <<>>
  /\ \A n \in 1..Len(s) : f[n] = IF n \in K THEN Append(f[n - 1], s[n]) ELSE f[n - 1]

\* Keep is computed step by step.
LEMMA KeepSteps ==
  ASSUME NEW s, Len(s) \in Nat, NEW K
  PROVE  \E f : KeptBy(f, s, K) /\ Keep(s, K) = f[Len(s)]
<1> DEFINE Step(v, n) == IF n \in K THEN Append(v, s[n]) ELSE v
           Is(f, m) == f = [n \in 0..m |-> IF n = 0 THEN <<>> ELSE Step(f[n - 1], n)]
           T == {m \in Nat : \E f : Is(f, m)}
<1> HIDE DEF Step
<1>1. 0 \in T
  <2>1. Is([n \in 0..0 |-> <<>>], 0)
        OBVIOUS
  <2>2. QED BY <2>1
<1>2. ASSUME NEW m \in T PROVE m + 1 \in T
  <2>1. PICK f : Is(f, m)
        OBVIOUS
  <2> DEFINE g == [n \in 0..(m + 1) |-> IF n = m + 1 THEN Step(f[m], n) ELSE f[n]]
  <2>2. \A n \in 0..m : g[n] = f[n]
        OBVIOUS
  <2>3. \A n \in 0..(m + 1) : g[n] = IF n = 0 THEN <<>> ELSE Step(g[n - 1], n)
    <3> SUFFICES ASSUME NEW n \in 0..(m + 1)
                 PROVE  g[n] = IF n = 0 THEN <<>> ELSE Step(g[n - 1], n)
        OBVIOUS
    <3>1. CASE n = m + 1
          BY <3>1
    <3>2. CASE n \in 0..m
      <4>1. f[n] = IF n = 0 THEN <<>> ELSE Step(f[n - 1], n)
            BY <2>1, <3>2
      <4>2. g[n] = f[n] /\ (n # 0 => g[n - 1] = f[n - 1])
            BY <3>2
      <4>3. QED BY <4>1, <4>2
    <3>3. QED BY <3>1, <3>2
  <2>4. Is(g, m + 1)
        BY <2>3
  <2> HIDE DEF g, Is
  <2>5. QED BY <2>4
<1>3. PICK f : Is(f, Len(s))
      BY <1>1, <1>2, AllNumbers
<1> DEFINE k == CHOOSE kept : Is(kept, Len(s))
<1>4. Is(k, Len(s))
      BY <1>3
<1>5. Keep(s, K) = k[Len(s)]
      BY DEF Keep, Step
<1> HIDE DEF k
<1>6. /\ k[0] = <<>>
      /\ \A n \in 1..Len(s) : k[n] = Step(k[n - 1], n)
      BY <1>4
<1>7. QED BY <1>5, <1>6 DEF Step, KeptBy

\* It keeps what is at the places.
LEMMA KeptElements ==
  ASSUME NEW A, NEW s \in Seq(A), NEW K
  PROVE  Keep(s, K) \in Seq({s[i] : i \in K \cap (1..Len(s))})
<1> DEFINE B == {s[i] : i \in K \cap (1..Len(s))}
<1>1. PICK f : KeptBy(f, s, K) /\ Keep(s, K) = f[Len(s)]
      BY KeepSteps
<1>2. \A i \in K \cap (1..Len(s)) : s[i] \in B
      OBVIOUS
<1> DEFINE T == {n \in Nat : n <= Len(s) => f[n] \in Seq(B)}
<1> HIDE DEF B
<1>3. 0 \in T
  <2>1. <<>> \in Seq(B)
        OBVIOUS
  <2>2. QED BY <1>1, <2>1 DEF KeptBy
<1>4. ASSUME NEW n \in T PROVE n + 1 \in T
  <2> SUFFICES ASSUME n + 1 <= Len(s) PROVE f[n + 1] \in Seq(B)
      OBVIOUS
  <2>1. n + 1 \in 1..Len(s) /\ f[n] \in Seq(B) /\ (n + 1) - 1 = n
        OBVIOUS
  <2>2. f[n + 1] = IF n + 1 \in K THEN Append(f[n], s[n + 1]) ELSE f[n]
        BY <1>1, <2>1 DEF KeptBy
  <2>3. CASE n + 1 \in K
        BY <1>2, <2>1, <2>2, <2>3
  <2>4. CASE n + 1 \notin K
        BY <2>1, <2>2, <2>4
  <2>5. QED BY <2>3, <2>4
<1>5. Nat \subseteq T
  <2> HIDE DEF T
  <2>1. T \subseteq Nat
        BY DEF T
  <2>2. QED BY <1>3, <1>4, <2>1, AllNumbers
<1>6. f[Len(s)] \in Seq(B)
      BY <1>5
<1>7. QED BY <1>1, <1>6 DEF B

-----------------------------------------------------------------------------
(* The configuration.                                                      *)

\* What the start relies on once a configuration was accepted.
Sound(c) == /\ Validate(c) /\ c.mode \in Modes
            /\ \A key \in Numbers : c[key] \in Ints
            /\ c.brokers # <<>>
            /\ \A i \in DOMAIN c.delays : c.delays[i] > 0

LEMMA NumberLoaded ==
  ASSUME NEW setting \in Ints \cup {Unset, Malformed}, NEW fallback \in Ints
  PROVE  (IF Usable(setting) THEN setting ELSE fallback) \in Ints
  BY DEF Usable

LEMMA DelaysLoaded ==
  ASSUME NEW setting \in Seq(Ints \cup {Malformed, Blank}) \cup {Unset},
         NEW fallback \in Seq(Nat \ {0})
  PROVE  \A i \in DOMAIN GetEnvDurationSlice(setting, fallback) :
           GetEnvDurationSlice(setting, fallback)[i] > 0
<1>1. CASE GetEnvDurationSlice(setting, fallback) = fallback
  <2>1. \A i \in DOMAIN fallback : fallback[i] \in Nat \ {0}
        OBVIOUS
  <2>2. QED BY <1>1, <2>1
<1>2. CASE GetEnvDurationSlice(setting, fallback) # fallback
  <2> DEFINE K == {i \in DOMAIN setting : setting[i] # Blank}
             Kept == {setting[i] : i \in K \cap (1..Len(setting))}
  <2>1. /\ setting # Unset
        /\ ~ \E i \in DOMAIN setting : setting[i] # Blank /\ BadDelay(setting[i])
        /\ GetEnvDurationSlice(setting, fallback) = Keep(setting, K)
        BY <1>2 DEF GetEnvDurationSlice, OrElse, NotBlank
  <2>2. setting \in Seq(Ints \cup {Malformed, Blank})
        BY <2>1
  <2>3. \A x \in Kept : x > 0
    <3>1. ASSUME NEW i \in DOMAIN setting, setting[i] # Blank PROVE setting[i] > 0
      <4>1. setting[i] \in Ints \cup {Malformed, Blank}
            BY <2>2
      <4>2. ~BadDelay(setting[i])
            BY <2>1, <3>1
      <4>3. setting[i] \in Int
            BY <3>1, <4>1, <4>2, ConfigAssumption DEF BadDelay, Ints
      <4>4. QED BY <4>2, <4>3 DEF BadDelay
    <3>2. QED BY <3>1
  <2>4. Keep(setting, K) \in Seq(Kept)
        BY <2>2, KeptElements
  <2> HIDE DEF Kept, K
  <2>5. \A i \in DOMAIN Keep(setting, K) : Keep(setting, K)[i] \in Kept
        BY <2>4
  <2>6. QED BY <2>1, <2>3, <2>5
<1>3. QED BY <1>1, <1>2

\* Whatever the environment is, what Load makes of it and Validate accepts is sound.
LEMMA LoadedSoundly ==
  ASSUME NEW e \in Environments, Validate(Load(e))
  PROVE  Sound(Load(e))
<1> DEFINE c == Load(e)
<1>1. c.mode \in Modes
      BY DEF Load, Modes
<1>2. \A key \in Numbers : c[key] \in Ints
  <2>1. \A key \in Numbers : e[key] \in Ints \cup {Unset, Malformed} /\ Fallback[key] \in Ints
        BY ConfigAssumption, EnvironmentAssumption
  <2> DEFINE Value(key) == IF Usable(e[key]) THEN e[key] ELSE Fallback[key]
  <2>2. \A key \in Numbers : Value(key) \in Ints
        BY <2>1, NumberLoaded
  <2>3. \A key \in Numbers : c[key] = Value(key)
        BY DEF Numbers, Load, GetEnvInt, GetEnvInt64
  <2>4. QED BY <2>2, <2>3
<1>3. c.brokers # <<>>
      BY ConfigAssumption DEF Load, GetEnvSlice, OrElse
<1>4. \A i \in DOMAIN c.delays : c.delays[i] > 0
  <2>1. c.delays = GetEnvDurationSlice(e.delays, Fallback.delays)
        BY DEF Load
  <2>2. QED BY <2>1, DelaysLoaded, ConfigAssumption, EnvironmentAssumption
<1>5. QED BY <1>1, <1>2, <1>3, <1>4 DEF Sound

\* The only way rand panics: a range of which the length is no int.
LEMMA PanicReason ==
  ASSUME Sound(cfg), Panics
  PROVE  cfg.minReads = 0 /\ cfg.maxReads = MaxInt
<1>1. \A key \in Numbers : cfg[key] \in Ints
      BY DEF Sound
<1>2. /\ cfg.minReads \in Int /\ cfg.maxReads \in Int /\ cfg.maxReads <= MaxInt
      /\ cfg.authorStart \in Int /\ cfg.authorEnd \in Int /\ cfg.authorEnd <= MaxInt
      /\ MaxInt \in Nat
  <2>1. /\ cfg.minReads \in Ints /\ cfg.maxReads \in Ints
        /\ cfg.authorStart \in Ints /\ cfg.authorEnd \in Ints
        BY <1>1 DEF Numbers
  <2>2. \A n \in Ints : n \in Int /\ n <= MaxInt
        BY ConfigAssumption DEF Ints
  <2>3. QED BY <2>1, <2>2, ConfigAssumption
<1>3. ValidRandom(cfg)
      BY DEF Sound, Panics, Validate
<1>4. AuthorsRange(cfg) > 0
      BY <1>2, <1>3 DEF ValidRandom, AuthorsRange, Wrap
<1>5. ReadsRange(cfg) <= 0
      BY <1>2, <1>4 DEF Panics, AuthorsRange, Wrap
<1>6. cfg.maxReads - cfg.minReads + 1 > MaxInt
      BY <1>2, <1>3, <1>5 DEF ValidRandom, ReadsRange, Wrap
<1>7. QED BY <1>2, <1>3, <1>6 DEF ValidRandom

\* The configuration stays what it was loaded as until the readers are started.
CfgInv == /\ stage = "load" => env \in Environments
          /\ stage \in {"verify", "build", "start", "panicked"} => Sound(cfg)
          /\ stage = "panicked" => Panics

LEMMA CfgStep == CfgInv /\ [MainNext]_allVars => CfgInv'
<1> SUFFICES ASSUME CfgInv, [MainNext]_allVars PROVE CfgInv'
    OBVIOUS
<1>0. ASSUME UNCHANGED <<stage, env, cfg>> PROVE CfgInv'
      BY <1>0 DEF CfgInv, Panics, ReadsRange, AuthorsRange
<1>1. CASE LoadConfig
  <2>1. /\ stage = "load" /\ env \in Environments
        /\ cfg' = Load(env)
        /\ \/ Validate(Load(env)) /\ stage' = "verify"
           \/ stage' = "invalid"
        BY <1>1 DEF LoadConfig, CfgInv, Continue, Fail
  <2>2. Validate(Load(env)) => Sound(Load(env))
        BY <2>1, LoadedSoundly
  <2>3. QED BY <2>1, <2>2 DEF CfgInv
<1>2. CASE Interrupted
      BY <1>2 DEF Interrupted, Fail, CfgInv
<1>3. CASE TopicVerified
      BY <1>3 DEF TopicVerified, Continue, CfgInv
<1>4. CASE BrokerFails
  <2>1. /\ stage = "verify" /\ cfg' = cfg
        /\ stage' \in {"no topic", "verify"}
        BY <1>4 DEF BrokerFails, Continue, Fail
  <2>2. QED BY <2>1 DEF CfgInv
<1>5. CASE BuildStrategy
  <2>1. /\ stage = "build" /\ cfg' = cfg
        /\ stage' \in {"start", "not loaded"}
        BY <1>5 DEF BuildStrategy, Continue, Fail
  <2>2. QED BY <2>1 DEF CfgInv
<1>6. CASE Panic
  <2>1. /\ stage = "start" /\ cfg' = cfg /\ stage' = "panicked" /\ Panics
        BY <1>6 DEF Panic, Fail
  <2>2. QED BY <2>1 DEF CfgInv, Panics, ReadsRange, AuthorsRange
<1>7. CASE StartReaders
      BY <1>7 DEF StartReaders, CfgInv
<1>8. CASE CancelStart
      BY <1>0, <1>8 DEF CancelStart, startup
<1>9. CASE Next /\ Simulates
      BY <1>0, <1>9 DEF Simulates, startup
<1>10. CASE UNCHANGED allVars
      BY <1>0, <1>10 DEF allVars, startup
<1>11. QED BY <1>1, <1>2, <1>3, <1>4, <1>5, <1>6, <1>7, <1>8, <1>9, <1>10 DEF MainNext, Startup

(* Whatever the environment says, what Validate lets through can be run: a  *)
(* broker to ask, positive pauses between the attempts, and rand only       *)
(* panics over the one range of reads that has more than MaxInt numbers.    *)
THEOREM AcceptedConfigIsUsable == MainSpec => []AcceptedIsUsable
<1>1. MainInit => CfgInv
      BY DEF MainInit, CfgInv
<1>2. CfgInv => AcceptedIsUsable
  <2>1. ASSUME CfgInv, stage = "panicked" PROVE cfg.minReads = 0 /\ cfg.maxReads = MaxInt
        BY <2>1, PanicReason DEF CfgInv
  <2>2. QED BY <2>1 DEF CfgInv, Sound, AcceptedIsUsable
<1>3. QED BY <1>1, <1>2, CfgStep, PTL DEF MainSpec

-----------------------------------------------------------------------------
(* The loader: what the loop over the lines computes, step by step.        *)

\* A prefix of the numbers 1..n + 1 ends with n + 1.
LEMMA LastOf ==
  ASSUME NEW n \in Nat, NEW s \in SUBSET (1..(n + 1)), n + 1 \in s
  PROVE  Max(s) = n + 1
<1>1. \A x \in s : n + 1 >= x
      OBVIOUS
<1>2. \A m \in s : (\A x \in s : m >= x) => m = n + 1
      OBVIOUS
<1>3. QED BY <1>1, <1>2 DEF Max

\* FoldLeft(Line, Start, lines) is computed line by line.
LEMMA FoldSteps ==
  ASSUME NEW lines \in Seq(FileLine)
  PROVE  \E f : /\ f[0] = Start
                /\ \A n \in 1..Len(lines) : f[n] = Line(f[n - 1], lines[n])
                /\ FoldLeft(Line, Start, lines) = f[Len(lines)]
<1> DEFINE Step(s, iter) == IF s = {} THEN Start
                            ELSE Line(iter[s \ {Max(s)}], lines[Max(s)])
           Is(iter, m) == iter = [s \in SUBSET (1..m) |-> Step(s, iter)]
           T == {m \in Nat : \E iter : Is(iter, m)}
<1>1. 0 \in T
  <2>1. SUBSET (1..0) = {{}}
        OBVIOUS
  <2>2. Is([s \in SUBSET (1..0) |-> Start], 0)
        BY <2>1
  <2>3. QED BY <2>2
<1>2. ASSUME NEW m \in T PROVE m + 1 \in T
  <2>1. PICK g : Is(g, m)
        OBVIOUS
  <2> DEFINE h == [s \in SUBSET (1..(m + 1)) |->
                     IF m + 1 \in s THEN Line(g[s \ {m + 1}], lines[m + 1]) ELSE g[s]]
  <2>2. \A s \in SUBSET (1..m) : h[s] = g[s]
        OBVIOUS
  <2>3. ASSUME NEW s \in SUBSET (1..(m + 1)) PROVE h[s] = Step(s, h)
    <3>1. CASE m + 1 \in s
      <4>1. Max(s) = m + 1
            BY <3>1, LastOf
      <4>2. s \ {m + 1} \in SUBSET (1..m)
            OBVIOUS
      <4>3. h[s \ {m + 1}] = g[s \ {m + 1}]
            BY <2>2, <4>2
      <4>4. h[s] = Line(g[s \ {m + 1}], lines[m + 1])
            BY <3>1
      <4> HIDE DEF h
      <4>5. QED BY <3>1, <4>1, <4>3, <4>4
    <3>2. CASE m + 1 \notin s
      <4>1. s \in SUBSET (1..m)
            BY <3>2
      <4>2. g[s] = Step(s, g)
            BY <2>1, <4>1
      <4>3. s # {} => s \ {Max(s)} \in SUBSET (1..m)
            BY <4>1
      <4>4. h[s] = g[s] /\ (s # {} => h[s \ {Max(s)}] = g[s \ {Max(s)}])
            BY <2>2, <4>1, <4>3
      <4> HIDE DEF h
      <4>5. QED BY <4>2, <4>4
    <3>3. QED BY <3>1, <3>2
  <2>4. Is(h, m + 1)
    <3>1. h = [s \in SUBSET (1..(m + 1)) |-> h[s]]
          OBVIOUS
    <3> HIDE DEF h
    <3>2. QED BY <2>3, <3>1
  <2> HIDE DEF h, Is
  <2>5. QED BY <2>4
<1>3. PICK g : Is(g, Len(lines))
  <2>1. Len(lines) \in Nat
        OBVIOUS
  <2> HIDE DEF Is
  <2>2. T \subseteq Nat
        OBVIOUS
  <2>3. Nat \subseteq T
        BY <1>1, <1>2, <2>2, AllNumbers
  <2>4. QED BY <2>1, <2>3
<1> DEFINE k == CHOOSE iter : Is(iter, Len(lines))
<1>4. Is(k, Len(lines))
      BY <1>3
<1>5. FoldLeft(Line, Start, lines) = k[1..Len(lines)]
  <2>1. DOMAIN lines = 1..Len(lines)
        OBVIOUS
  <2>2. QED BY <2>1 DEF FoldLeft, MapThenFoldSet
<1> HIDE DEF k
<1> DEFINE f == [n \in 0..Len(lines) |-> k[1..n]]
<1>6. f[0] = Start
      BY <1>4
<1>7. ASSUME NEW n \in 1..Len(lines) PROVE f[n] = Line(f[n - 1], lines[n])
  <2>1. /\ 1..n \in SUBSET (1..Len(lines))
        /\ 1..n # {}
        /\ (1..n) \ {n} = 1..(n - 1)
    <3>1. n \in Nat /\ n \in 1..n /\ Len(lines) \in Nat
          OBVIOUS
    <3>2. \A i \in 1..n : i \in 1..Len(lines)
          BY <3>1
    <3>3. \A i : i \in (1..n) \ {n} <=> i \in 1..(n - 1)
          BY <3>1
    <3>4. QED BY <3>1, <3>2, <3>3
  <2>2. Max(1..n) = n
    <3>1. PICK m \in Nat : n = m + 1
      <4>1. n - 1 \in Nat /\ n = (n - 1) + 1
            OBVIOUS
      <4>2. QED BY <4>1
    <3>2. 1..(m + 1) \in SUBSET (1..(m + 1)) /\ m + 1 \in 1..(m + 1)
          OBVIOUS
    <3>3. QED BY <3>1, <3>2, LastOf
  <2>3. k[1..n] = Line(k[1..(n - 1)], lines[n])
        BY <1>4, <2>1, <2>2
  <2>4. QED BY <2>3
<1>8. QED BY <1>5, <1>6, <1>7

-----------------------------------------------------------------------------
(* Concatenations.                                                         *)

Parts == Int \cup {Malformed, Blank}

\* The places of the parts that are not blank.
Full(s) == {i \in DOMAIN s : s[i] # Blank}

\* Names under which the provers do not unfold Append and \o.
Plus(s, x) == Append(s, x)
Cat(s, t) == s \o t

LEMMA PlusCat ==
  ASSUME NEW A
  PROVE  \A s, t \in Seq(A), x \in A : Plus(Cat(s, t), x) = Cat(s, Plus(t, x))
  BY SMT DEF Cat, Plus

LEMMA NotBlankType ==
  ASSUME NEW s \in Seq(Parts)
  PROVE  NotBlank(s) \in Seq(Parts)
<1> DEFINE K == {i \in DOMAIN s : s[i] # Blank}
           B == {s[i] : i \in K \cap (1..Len(s))}
<1>1. Keep(s, K) \in Seq(B)
      BY KeptElements
<1>2. B \subseteq Parts
      OBVIOUS
<1> HIDE DEF B
<1>3. Keep(s, K) \in Seq(Parts)
      BY <1>1, <1>2
<1>4. QED BY <1>3 DEF NotBlank

\* The parts of one line and of those after it can be cleaned apart.
LEMMA NotBlankConcat ==
  ASSUME NEW s \in Seq(Parts), NEW t \in Seq(Parts)
  PROVE  NotBlank(s \o t) = NotBlank(s) \o NotBlank(t)
<1> DEFINE w == s \o t
<1>0. /\ w \in Seq(Parts) /\ Len(w) = Len(s) + Len(t)
      /\ Len(s) \in Nat /\ Len(t) \in Nat
      /\ \A i \in 1..Len(s) : w[i] = s[i]
      /\ \A i \in 1..Len(t) : w[Len(s) + i] = t[i]
      /\ DOMAIN s = 1..Len(s) /\ DOMAIN t = 1..Len(t) /\ DOMAIN w = 1..Len(w)
      OBVIOUS
<1> HIDE DEF w
<1>1. PICK f : KeptBy(f, s, Full(s)) /\ Keep(s, Full(s)) = f[Len(s)]
      BY <1>0, KeepSteps
<1>2. PICK g : KeptBy(g, t, Full(t)) /\ Keep(t, Full(t)) = g[Len(t)]
      BY <1>0, KeepSteps
<1>3. PICK h : KeptBy(h, w, Full(w)) /\ Keep(w, Full(w)) = h[Len(w)]
      BY <1>0, KeepSteps
<1>4. \A n \in 1..Len(s) : n \in Full(w) <=> n \in Full(s)
      BY <1>0 DEF Full
<1>5. \A n \in 1..Len(t) : Len(s) + n \in Full(w) <=> n \in Full(t)
      BY <1>0 DEF Full
<1> DEFINE T == {n \in Nat : n <= Len(s) => h[n] = f[n]}
<1>6. 0 \in T
      BY <1>1, <1>3 DEF KeptBy
<1>7. ASSUME NEW n \in T PROVE n + 1 \in T
  <2> SUFFICES ASSUME n + 1 <= Len(s) PROVE h[n + 1] = f[n + 1]
      OBVIOUS
  <2>0. Len(s) \in Nat /\ Len(t) \in Nat /\ Len(w) = Len(s) + Len(t) /\ n \in Nat
        BY <1>0
  <2>1. n + 1 \in 1..Len(s) /\ n + 1 \in 1..Len(w) /\ (n + 1) - 1 = n /\ h[n] = f[n]
        BY <2>0
  <2>2. h[n + 1] = IF n + 1 \in Full(w) THEN Append(h[n], w[n + 1]) ELSE h[n]
        BY <1>3, <2>1 DEF KeptBy
  <2>3. f[n + 1] = IF n + 1 \in Full(s) THEN Append(f[n], s[n + 1]) ELSE f[n]
        BY <1>1, <2>1 DEF KeptBy
  <2>4. QED BY <1>0, <1>4, <2>1, <2>2, <2>3
<1>8. h[Len(s)] = Keep(s, Full(s))
  <2>1. T \subseteq Nat
        OBVIOUS
  <2> HIDE DEF T
  <2>2. Nat \subseteq T
        BY <1>6, <1>7, <2>1, AllNumbers
  <2>3. Len(s) \in T
        BY <1>0, <2>2
  <2>4. QED BY <1>0, <1>1, <2>3 DEF T
<1> DEFINE base == Keep(s, Full(s))
           U == {n \in Nat : n <= Len(t) => g[n] \in Seq(Parts) /\ h[Len(s) + n] = base \o g[n]}
<1>9. base \in Seq(Parts)
      BY NotBlankType DEF NotBlank, Full
<1> HIDE DEF base
<1>10. 0 \in U
  <2>1. g[0] \in Seq(Parts) /\ base \o g[0] = base
        BY <1>2, <1>9 DEF KeptBy
  <2>2. Len(s) + 0 = Len(s)
        BY <1>0
  <2>3. QED BY <1>8, <2>1, <2>2 DEF base
<1>11. ASSUME NEW n \in U PROVE n + 1 \in U
  <2> SUFFICES ASSUME n + 1 <= Len(t)
               PROVE  g[n + 1] \in Seq(Parts) /\ h[Len(s) + (n + 1)] = base \o g[n + 1]
      OBVIOUS
  <2> DEFINE m == Len(s) + (n + 1)
  <2>1. /\ n + 1 \in 1..Len(t) /\ (n + 1) - 1 = n
        /\ m \in 1..Len(w) /\ m - 1 = Len(s) + n
        /\ g[n] \in Seq(Parts) /\ h[Len(s) + n] = base \o g[n]
        BY <1>0
  <2>2. g[n + 1] = IF n + 1 \in Full(t) THEN Append(g[n], t[n + 1]) ELSE g[n]
        BY <1>2, <2>1 DEF KeptBy
  <2>3. h[m] = IF m \in Full(w) THEN Append(h[Len(s) + n], w[m]) ELSE h[Len(s) + n]
        BY <1>3, <2>1 DEF KeptBy
  <2>4. w[m] = t[n + 1] /\ t[n + 1] \in Parts /\ (m \in Full(w) <=> n + 1 \in Full(t))
        BY <1>0, <1>5, <2>1
  <2> HIDE DEF m
  <2>5. CASE n + 1 \in Full(t)
    <3>1. Plus(Cat(base, g[n]), t[n + 1]) = Cat(base, Plus(g[n], t[n + 1]))
      <4>1. base \in Seq(Parts) /\ g[n] \in Seq(Parts) /\ t[n + 1] \in Parts
            BY <1>9, <2>1, <2>4
      <4>2. QED BY ONLY <4>1, PlusCat
    <3>2. Append(g[n], t[n + 1]) \in Seq(Parts)
          BY <2>1, <2>4, AppendProperties
    <3>3. h[m] = base \o g[n + 1] /\ g[n + 1] \in Seq(Parts)
          BY <2>1, <2>2, <2>3, <2>4, <2>5, <3>1, <3>2 DEF Plus, Cat
    <3>4. QED BY <3>3 DEF m
  <2>6. CASE n + 1 \notin Full(t)
        BY <2>1, <2>2, <2>3, <2>4, <2>6 DEF m
  <2>7. QED BY <2>5, <2>6
<1>12. h[Len(s) + Len(t)] = base \o g[Len(t)]
  <2>1. U \subseteq Nat
        OBVIOUS
  <2> HIDE DEF U
  <2>2. Nat \subseteq U
        BY <1>10, <1>11, <2>1, AllNumbers
  <2>3. Len(t) \in U
        BY <1>0, <2>2
  <2>4. QED BY <1>0, <2>3 DEF U
<1>13. Keep(w, Full(w)) = Keep(s, Full(s)) \o Keep(t, Full(t))
      BY <1>0, <1>2, <1>3, <1>12 DEF base
<1>14. QED BY <1>13 DEF NotBlank, Full, w

\* FlattenSeq is computed step by step.
LEMMA FlattenSteps ==
  ASSUME NEW A, NEW ss \in Seq(Seq(A)), Len(ss) # 0
  PROVE  \E f : /\ f[1] = ss[1]
                /\ \A n \in 1..Len(ss) : n # 1 => f[n] = f[n - 1] \o ss[n]
                /\ FlattenSeq(ss) = f[Len(ss)]
<1> DEFINE Step(f, n) == IF n = 1 THEN ss[n] ELSE f[n - 1] \o ss[n]
           Is(f, m) == f = [n \in 1..m |-> Step(f, n)]
           T == {m \in Nat : \E f : Is(f, m)}
<1>1. 0 \in T
  <2>1. Is([n \in 1..0 |-> ss[1]], 0)
        OBVIOUS
  <2>2. QED BY <2>1
<1>2. ASSUME NEW m \in T PROVE m + 1 \in T
  <2>1. PICK f : Is(f, m)
        OBVIOUS
  <2> DEFINE g == [n \in 1..(m + 1) |-> IF n = m + 1 THEN Step(f, n) ELSE f[n]]
  <2>2. \A n \in 1..m : g[n] = f[n]
        OBVIOUS
  <2>3. ASSUME NEW n \in 1..(m + 1) PROVE g[n] = Step(g, n)
    <3>1. n # 1 => n - 1 \in 1..m
          OBVIOUS
    <3>2. n # 1 => g[n - 1] = f[n - 1]
          BY <2>2, <3>1
    <3>3. n # m + 1 => f[n] = Step(f, n)
      <4>1. n # m + 1 => n \in 1..m
            OBVIOUS
      <4> HIDE DEF Step
      <4>2. QED BY <2>1, <4>1
    <3>4. g[n] = IF n = m + 1 THEN Step(f, n) ELSE f[n]
          OBVIOUS
    <3> HIDE DEF g
    <3>5. QED BY <3>2, <3>3, <3>4
  <2>4. g = [n \in 1..(m + 1) |-> g[n]]
        OBVIOUS
  <2> HIDE DEF g
  <2>5. Is(g, m + 1)
        BY <2>3, <2>4
  <2> HIDE DEF Is
  <2>6. QED BY <2>5
<1>3. PICK f : Is(f, Len(ss))
  <2>1. Len(ss) \in Nat
        OBVIOUS
  <2> HIDE DEF Is
  <2>2. T \subseteq Nat
        OBVIOUS
  <2>3. Nat \subseteq T
        BY <1>1, <1>2, <2>2, AllNumbers
  <2>4. QED BY <2>1, <2>3
<1> DEFINE k == CHOOSE flat : Is(flat, Len(ss))
<1>4. Is(k, Len(ss))
      BY <1>3
<1>5. FlattenSeq(ss) = k[Len(ss)]
      BY DEF FlattenSeq
<1> HIDE DEF k
<1>6. 1 \in 1..Len(ss)
      OBVIOUS
<1>7. k[1] = ss[1]
      BY <1>4, <1>6
<1>8. \A n \in 1..Len(ss) : n # 1 => k[n] = k[n - 1] \o ss[n]
      BY <1>4
<1>9. QED BY <1>5, <1>7, <1>8

\* One more sequence is put at the end.
LEMMA FlattenMore ==
  ASSUME NEW ss \in Seq(Seq(Parts)), NEW tt \in Seq(Seq(Parts)),
         Len(tt) = Len(ss) + 1, \A i \in 1..Len(ss) : tt[i] = ss[i]
  PROVE  /\ FlattenSeq(ss) \in Seq(Parts)
         /\ FlattenSeq(tt) = FlattenSeq(ss) \o tt[Len(ss) + 1]
<1>0. Len(ss) \in Nat /\ Len(tt) # 0
      OBVIOUS
<1>1. PICK g : /\ g[1] = tt[1]
               /\ \A n \in 1..Len(tt) : n # 1 => g[n] = g[n - 1] \o tt[n]
               /\ FlattenSeq(tt) = g[Len(tt)]
      BY <1>0, FlattenSteps
<1>2. CASE Len(ss) = 0
  <2>1. ss = <<>>
        BY <1>2
  <2>2. FlattenSeq(ss) = <<>>
        BY <1>2, <2>1 DEF FlattenSeq
  <2>3. Len(tt) = 1
        BY <1>2
  <2>4. FlattenSeq(tt) = tt[1] /\ tt[1] \in Seq(Parts)
    <3>1. FlattenSeq(tt) = tt[1]
          BY <1>1, <2>3
    <3>2. 1 \in 1..Len(tt)
          BY <2>3
    <3>3. tt[1] \in Seq(Parts)
          BY <3>2
    <3>4. QED BY <3>1, <3>3
  <2>5. <<>> \o tt[1] = tt[1]
        BY <2>4
  <2>6. <<>> \in Seq(Parts) /\ tt[Len(ss) + 1] = tt[1]
        BY <1>2
  <2>7. QED BY <2>2, <2>4, <2>5, <2>6
<1>3. CASE Len(ss) # 0
  <2>1. PICK f : /\ f[1] = ss[1]
                 /\ \A n \in 1..Len(ss) : n # 1 => f[n] = f[n - 1] \o ss[n]
                 /\ FlattenSeq(ss) = f[Len(ss)]
        BY <1>3, FlattenSteps
  <2> DEFINE T == {n \in Nat : n + 1 <= Len(ss) => f[n + 1] = g[n + 1] /\ f[n + 1] \in Seq(Parts)}
  <2>2. 0 \in T
    <3>1. 0 + 1 = 1 /\ 1 \in 1..Len(ss)
          BY <1>0, <1>3
    <3>2. f[1] = g[1] /\ f[1] \in Seq(Parts)
          BY <1>1, <2>1, <3>1
    <3>3. QED BY <3>1, <3>2
  <2>3. ASSUME NEW n \in T PROVE n + 1 \in T
    <3> DEFINE m == (n + 1) + 1
    <3> SUFFICES ASSUME m <= Len(ss) PROVE f[m] = g[m] /\ f[m] \in Seq(Parts)
        OBVIOUS
    <3>1. m \in 1..Len(ss) /\ m \in 1..Len(tt) /\ m # 1 /\ m - 1 = n + 1 /\ n + 1 <= Len(ss)
          BY <1>0
    <3>2. f[n + 1] = g[n + 1] /\ f[n + 1] \in Seq(Parts)
          BY <3>1
    <3>3. ss[m] \in Seq(Parts) /\ tt[m] = ss[m]
          BY <3>1
    <3> HIDE DEF m
    <3>4. f[m] = f[n + 1] \o ss[m] /\ g[m] = g[n + 1] \o tt[m]
          BY <1>1, <2>1, <3>1
    <3>5. f[n + 1] \o ss[m] \in Seq(Parts)
          BY <3>2, <3>3
    <3>6. QED BY <3>2, <3>3, <3>4, <3>5
  <2>4. f[Len(ss)] = g[Len(ss)] /\ f[Len(ss)] \in Seq(Parts)
    <3>1. T \subseteq Nat
          OBVIOUS
    <3>2. PICK n \in Nat : Len(ss) = n + 1
      <4>1. Len(ss) - 1 \in Nat /\ Len(ss) = (Len(ss) - 1) + 1
            BY <1>0, <1>3
      <4>2. QED BY <4>1
    <3> HIDE DEF T
    <3>3. n \in T
          BY <2>2, <2>3, <3>1, AllNumbers
    <3>4. QED BY <3>2, <3>3 DEF T
  <2>5. /\ Len(tt) \in 1..Len(tt) /\ Len(tt) # 1
        /\ Len(tt) - 1 = Len(ss)
        BY <1>0, <1>3
  <2>6. g[Len(tt)] = g[Len(ss)] \o tt[Len(tt)]
        BY <1>1, <2>5
  <2>7. QED BY <1>1, <2>1, <2>4, <2>6
<1>4. QED BY <1>2, <1>3

\* The authors that lines k + 1 to n give to the user of line k.
AuthorsUpTo(lines, k, n) ==
  NotBlank(FlattenSeq([i \in 1..(n - k) |-> lines[k + i].ids]))

LEMMA AuthorsStep ==
  ASSUME NEW lines \in Seq(FileLine), NEW k \in 1..Len(lines), NEW n \in k..Len(lines)
  PROVE  /\ AuthorsUpTo(lines, k, n) \in Seq(Parts)
         /\ n < Len(lines) =>
              AuthorsUpTo(lines, k, n + 1) = AuthorsUpTo(lines, k, n) \o NotBlank(lines[n + 1].ids)
<1> DEFINE Ids(m) == [i \in 1..(m - k) |-> lines[k + i].ids]
<1>0. k \in Nat /\ n \in Nat /\ n - k \in Nat /\ Len(lines) \in Nat /\ k <= n
      OBVIOUS
<1>1. \A j \in 1..Len(lines) : lines[j].ids \in Seq(Parts)
  <2>1. \A j \in 1..Len(lines) : lines[j] \in FileLine
        OBVIOUS
  <2>2. \A line \in FileLine : line.ids \in Seq(Parts)
        BY DEF FileLine, Parts
  <2>3. QED BY <2>1, <2>2
<1>2. ASSUME NEW m \in k..Len(lines) PROVE Ids(m) \in Seq(Seq(Parts)) /\ Len(Ids(m)) = m - k
  <2>1. m - k \in Nat /\ \A i \in 1..(m - k) : k + i \in 1..Len(lines)
        OBVIOUS
  <2>2. \A i \in 1..(m - k) : lines[k + i].ids \in Seq(Parts)
        BY <1>1, <2>1
  <2>3. QED BY <2>1, <2>2, IsASeq
<1>3. FlattenSeq(Ids(n)) \in Seq(Parts)
  <2> DEFINE more == [i \in 1..((n - k) + 1) |-> IF i <= n - k THEN Ids(n)[i] ELSE <<>>]
  <2>1. more \in Seq(Seq(Parts)) /\ Len(more) = (n - k) + 1
    <3>1. \A i \in 1..((n - k) + 1) : (IF i <= n - k THEN Ids(n)[i] ELSE <<>>) \in Seq(Parts)
          BY <1>0, <1>2
    <3>2. (n - k) + 1 \in Nat
          BY <1>0
    <3> HIDE DEF Ids
    <3>3. more \in Seq(Seq(Parts))
          BY ONLY <3>1, <3>2, IsASeq
    <3>4. Len(more) = (n - k) + 1
          BY ONLY <3>2
    <3>5. QED BY ONLY <3>3, <3>4
  <2>2. \A i \in 1..Len(Ids(n)) : more[i] = Ids(n)[i]
        BY <1>0, <1>2
  <2>3. Ids(n) \in Seq(Seq(Parts)) /\ Len(more) = Len(Ids(n)) + 1
        BY <1>2, <2>1
  <2> HIDE DEF Ids, more
  <2>4. QED BY <2>1, <2>2, <2>3, FlattenMore
<1>4. AuthorsUpTo(lines, k, n) \in Seq(Parts)
      BY <1>3, NotBlankType DEF AuthorsUpTo
<1>5. ASSUME n < Len(lines)
      PROVE  AuthorsUpTo(lines, k, n + 1) = AuthorsUpTo(lines, k, n) \o NotBlank(lines[n + 1].ids)
  <2>1. n + 1 \in k..Len(lines) /\ n + 1 \in 1..Len(lines)
        BY <1>0, <1>5
  <2>2. /\ Ids(n) \in Seq(Seq(Parts)) /\ Len(Ids(n)) = n - k
        /\ Ids(n + 1) \in Seq(Seq(Parts)) /\ Len(Ids(n + 1)) = (n - k) + 1
    <3>1. (n + 1) - k = (n - k) + 1
          BY <1>0
    <3>2. QED BY <1>2, <2>1, <3>1
  <2>3. /\ \A i \in 1..(n - k) : Ids(n + 1)[i] = Ids(n)[i]
        /\ Ids(n + 1)[(n - k) + 1] = lines[n + 1].ids
    <3>1. /\ \A i \in 1..(n - k) : i \in 1..((n + 1) - k)
          /\ (n - k) + 1 \in 1..((n + 1) - k) /\ k + ((n - k) + 1) = n + 1
          BY <1>0
    <3>2. QED BY <3>1
  <2> HIDE DEF Ids
  <2>4. FlattenSeq(Ids(n + 1)) = FlattenSeq(Ids(n)) \o lines[n + 1].ids
        BY <2>2, <2>3, FlattenMore
  <2>5. lines[n + 1].ids \in Seq(Parts)
        BY <1>1, <2>1
  <2>6. NotBlank(FlattenSeq(Ids(n + 1))) = NotBlank(FlattenSeq(Ids(n))) \o NotBlank(lines[n + 1].ids)
        BY <1>3, <2>4, <2>5, NotBlankConcat
  <2>7. QED BY <2>6 DEF AuthorsUpTo, Ids
<1>6. QED BY <1>4, <1>5

\* At first there are none.
LEMMA NoAuthorsYet ==
  ASSUME NEW lines, NEW k \in Nat
  PROVE  AuthorsUpTo(lines, k, k) = <<>>
<1>1. [i \in 1..(k - k) |-> lines[k + i].ids] = <<>>
      OBVIOUS
<1>2. FlattenSeq(<<>>) = <<>>
      BY DEF FlattenSeq
<1>3. NotBlank(<<>>) = <<>>
  <2>1. <<>> \in Seq(Parts) /\ Len(<<>>) = 0
        OBVIOUS
  <2>2. PICK f : KeptBy(f, <<>>, Full(<<>>)) /\ Keep(<<>>, Full(<<>>)) = f[Len(<<>>)]
        BY <2>1, KeepSteps
  <2>3. QED BY <2>1, <2>2 DEF KeptBy, NotBlank, Full
<1>4. QED BY <1>1, <1>2, <1>3 DEF AuthorsUpTo

-----------------------------------------------------------------------------
(* The lines of one file.                                                  *)

\* What WellFormed asks of a line by itself.
GoodLine(line) ==
  \/ line.key = "user_id" /\ Len(line.ids) = 1 /\ PositiveId(line.ids[1])
  \/ line.key = "authors" /\ \A i \in DOMAIN line.ids :
                               line.ids[i] = Blank \/ PositiveId(line.ids[i])

LEMMA WellFormedParts ==
  ASSUME NEW lines \in Seq(FileLine)
  PROVE  WellFormed(lines) <=>
           /\ 1 \in DOMAIN lines => lines[1].key = "user_id"
           /\ \A k \in DOMAIN lines : GoodLine(lines[k])
           /\ \A k \in DOMAIN lines : lines[k].key = "user_id" => AuthorsOf(lines, k) # <<>>
<1>1. lines # <<>> <=> 1 \in DOMAIN lines
      OBVIOUS
<1>2. ASSUME NEW k \in DOMAIN lines
      PROVE  (CASE lines[k].key = "user_id" -> /\ Len(lines[k].ids) = 1 /\ PositiveId(lines[k].ids[1])
                                               /\ AuthorsOf(lines, k) # <<>>
                [] lines[k].key = "authors" -> \A i \in DOMAIN lines[k].ids :
                                                 lines[k].ids[i] = Blank \/ PositiveId(lines[k].ids[i])
                [] OTHER -> FALSE)
             <=> GoodLine(lines[k]) /\ (lines[k].key = "user_id" => AuthorsOf(lines, k) # <<>>)
  <2>1. CASE lines[k].key = "user_id"
        BY Zenon, <2>1 DEF GoodLine
  <2>2. CASE lines[k].key = "authors"
        BY Zenon, <2>2 DEF GoodLine
  <2>3. CASE lines[k].key \notin {"user_id", "authors"}
        BY Zenon, <2>3 DEF GoodLine
  <2>4. QED BY Zenon, <2>1, <2>2, <2>3
<1>3. QED BY Zenon, <1>1, <1>2 DEF WellFormed

\* The line before the next user line, or the last one, ends the block.
LEMMA BlockEndIs ==
  ASSUME NEW lines \in Seq(FileLine), NEW l \in 1..Len(lines), NEW e \in l..Len(lines),
         \A i \in (l + 1)..e : lines[i].key # "user_id",
         e < Len(lines) => lines[e + 1].key = "user_id"
  PROVE  AuthorsOf(lines, l) = AuthorsUpTo(lines, l, e)
<1> DEFINE Ends(x) == /\ \A i \in (l + 1)..x : lines[i].key # "user_id"
                      /\ x < Len(lines) => lines[x + 1].key = "user_id"
<1>1. Ends(e)
      OBVIOUS
<1>2. ASSUME NEW x \in l..Len(lines), Ends(x) PROVE x = e
  <2>1. x \in Int /\ e \in Int /\ l \in Int /\ Len(lines) \in Int
        OBVIOUS
  <2>2. ~(x < e)
    <3>1. x < e => x < Len(lines) /\ x + 1 \in (l + 1)..e
          BY <2>1
    <3>2. QED BY <1>2, <3>1
  <2>3. ~(e < x)
    <3>1. e < x => e < Len(lines) /\ e + 1 \in (l + 1)..x
          BY <2>1
    <3>2. QED BY <1>2, <3>1
  <2>4. QED BY <2>1, <2>2, <2>3
<1>3. BlockEnd(lines, l) = e
      BY <1>1, <1>2 DEF BlockEnd
<1>4. QED BY <1>3 DEF AuthorsOf, AuthorsUpTo

\* Every element that is kept is there.
LEMMA KeptPlaces ==
  ASSUME NEW A, NEW s \in Seq(A), NEW K, NEW i \in K \cap (1..Len(s))
  PROVE  \E j \in DOMAIN Keep(s, K) : Keep(s, K)[j] = s[i]
<1>1. PICK f : KeptBy(f, s, K) /\ Keep(s, K) = f[Len(s)]
      BY KeepSteps
<1> DEFINE T == {n \in Nat : n <= Len(s) =>
                   /\ f[n] \in Seq(A)
                   /\ i <= n => \E j \in 1..Len(f[n]) : f[n][j] = s[i]}
<1>2. 0 \in T
  <2>1. <<>> \in Seq(A) /\ ~(i <= 0)
        OBVIOUS
  <2>2. QED BY <1>1, <2>1 DEF KeptBy
<1>3. ASSUME NEW n \in T PROVE n + 1 \in T
  <2> DEFINE m == n + 1
  <2> SUFFICES ASSUME m <= Len(s)
               PROVE  /\ f[m] \in Seq(A)
                      /\ i <= m => \E j \in 1..Len(f[m]) : f[m][j] = s[i]
      OBVIOUS
  <2>1. /\ m \in 1..Len(s) /\ m - 1 = n /\ s[m] \in A
        /\ i <= m => i <= n \/ i = m
        /\ f[n] \in Seq(A)
        /\ i <= n => \E j \in 1..Len(f[n]) : f[n][j] = s[i]
        OBVIOUS
  <2>2. f[m] = IF m \in K THEN Append(f[n], s[m]) ELSE f[n]
        BY <1>1, <2>1 DEF KeptBy
  <2> HIDE DEF m
  <2>3. CASE m \in K
    <3>1. /\ f[m] \in Seq(A) /\ Len(f[m]) = Len(f[n]) + 1 /\ Len(f[n]) \in Nat
          /\ f[m][Len(f[n]) + 1] = s[m]
          /\ \A j \in 1..Len(f[n]) : f[m][j] = f[n][j]
          BY <2>1, <2>2, <2>3, AppendProperties
    <3>2. CASE i = m
      <4>1. Len(f[n]) + 1 \in 1..Len(f[m])
            BY <3>1
      <4>2. QED BY <3>1, <3>2, <4>1
    <3>3. CASE i <= n
      <4>1. PICK j \in 1..Len(f[n]) : f[n][j] = s[i]
            BY <2>1, <3>3
      <4>2. j \in 1..Len(f[m]) /\ f[m][j] = s[i]
            BY <3>1, <4>1
      <4>3. QED BY <3>1, <4>2
    <3>4. QED BY <2>1, <3>1, <3>2, <3>3
  <2>4. CASE m \notin K
    <3>1. f[m] = f[n] /\ i # m
          BY <2>2, <2>4
    <3>2. QED BY <2>1, <3>1
  <2>5. QED BY <2>3, <2>4
<1>4. Len(s) \in T
  <2>1. T \subseteq Nat /\ Len(s) \in Nat
        OBVIOUS
  <2> HIDE DEF T
  <2>2. QED BY <1>2, <1>3, <2>1, AllNumbers
<1>5. /\ f[Len(s)] \in Seq(A)
      /\ \E j \in 1..Len(f[Len(s)]) : f[Len(s)][j] = s[i]
      BY <1>4
<1>6. QED BY <1>1, <1>5

\* The parser's check of the cleaned list is the check of every part.
LEMMA PartsChecked ==
  ASSUME NEW ids \in Seq(Parts)
  PROVE  (\E j \in DOMAIN NotBlank(ids) : ~PositiveId(NotBlank(ids)[j])) <=>
         ~(\A i \in DOMAIN ids : ids[i] = Blank \/ PositiveId(ids[i]))
<1> DEFINE K == {i \in DOMAIN ids : ids[i] # Blank}
           B == {ids[i] : i \in K \cap (1..Len(ids))}
<1>1. Keep(ids, K) \in Seq(B)
      BY KeptElements
<1>2. NotBlank(ids) = Keep(ids, K)
      BY DEF NotBlank
<1>3. ASSUME NEW j \in DOMAIN Keep(ids, K), ~PositiveId(Keep(ids, K)[j])
      PROVE  \E i \in DOMAIN ids : ~(ids[i] = Blank \/ PositiveId(ids[i]))
  <2> HIDE DEF B
  <2>1. Keep(ids, K)[j] \in B
        BY <1>1
  <2> USE DEF B
  <2> HIDE DEF K
  <2>2. PICK i \in K \cap (1..Len(ids)) : ids[i] = Keep(ids, K)[j]
        BY <2>1
  <2>3. i \in DOMAIN ids /\ ids[i] # Blank
        BY DEF K
  <2>4. QED BY <1>3, <2>2, <2>3
<1>4. ASSUME NEW i \in DOMAIN ids, ~(ids[i] = Blank \/ PositiveId(ids[i]))
      PROVE  \E j \in DOMAIN Keep(ids, K) : ~PositiveId(Keep(ids, K)[j])
  <2>1. i \in K \cap (1..Len(ids))
        BY <1>4
  <2> HIDE DEF K
  <2>2. \E j \in DOMAIN Keep(ids, K) : Keep(ids, K)[j] = ids[i]
        BY <2>1, KeptPlaces
  <2>3. QED BY <1>4, <2>2
<1> HIDE DEF K, B
<1>5. QED BY <1>2, <1>3, <1>4

\* What the k-th line means when it names a user.
Scenario(lines, k) == [user |-> lines[k].ids[1], authors |-> AuthorsOf(lines, k)]

\* v[n] holds the scenarios that begin in the first n lines.
MeaningBy(v, lines) ==
  /\ v[0] = <<>>
  /\ \A n \in 1..Len(lines) :
       v[n] = IF lines[n].key = "user_id" THEN Append(v[n - 1], Scenario(lines, n)) ELSE v[n - 1]

LEMMA MeaningSteps ==
  ASSUME NEW lines \in Seq(FileLine)
  PROVE  \E v : /\ MeaningBy(v, lines) /\ Meaning(lines) = v[Len(lines)]
                /\ \A n \in 0..Len(lines) : v[n] \in Seq({Scenario(lines, k) : k \in DOMAIN lines})
<1> DEFINE All == {Scenario(lines, k) : k \in DOMAIN lines}
           numbers == [i \in DOMAIN lines |-> i]
           K == {i \in DOMAIN lines : lines[i].key = "user_id"}
           Of(s) == [n \in DOMAIN s |-> Scenario(lines, s[n])]
<1>0. /\ DOMAIN lines = 1..Len(lines) /\ Len(lines) \in Nat
      /\ numbers \in Seq(1..Len(lines)) /\ Len(numbers) = Len(lines)
      /\ \A i \in 1..Len(lines) : numbers[i] = i
      OBVIOUS
<1> HIDE DEF numbers
<1>1. PICK u : KeptBy(u, numbers, K) /\ Keep(numbers, K) = u[Len(numbers)]
  <2> HIDE DEF K
  <2>1. QED BY <1>0, KeepSteps
<1>2. \A i \in 1..Len(lines) : i \in K <=> lines[i].key = "user_id"
      BY <1>0
<1>3. Meaning(lines) = Of(Keep(numbers, K))
  <2>1. Users(lines) = Keep(numbers, K)
        BY DEF Users, numbers
  <2> HIDE DEF K
  <2>2. QED BY <2>1 DEF Meaning, Scenario
<1> HIDE DEF K, Of
<1> DEFINE T == {n \in Nat : n <= Len(lines) => u[n] \in Seq(1..Len(lines))}
<1>4. 0 \in T
  <2>1. u[0] = <<>>
        BY <1>1 DEF KeptBy
  <2>2. <<>> \in Seq(1..Len(lines))
        OBVIOUS
  <2>3. QED BY <2>1, <2>2
<1>5. ASSUME NEW n \in T PROVE n + 1 \in T
  <2> SUFFICES ASSUME n + 1 <= Len(lines) PROVE u[n + 1] \in Seq(1..Len(lines))
      OBVIOUS
  <2>1. n + 1 \in 1..Len(lines) /\ (n + 1) - 1 = n /\ u[n] \in Seq(1..Len(lines))
        BY <1>0
  <2>2. u[n + 1] = IF n + 1 \in K THEN Append(u[n], n + 1) ELSE u[n]
        BY <1>0, <1>1, <2>1 DEF KeptBy
  <2>3. Append(u[n], n + 1) \in Seq(1..Len(lines))
        BY <2>1, AppendProperties
  <2>4. QED BY <2>1, <2>2, <2>3
<1>6. \A n \in 0..Len(lines) : u[n] \in Seq(1..Len(lines))
  <2>1. T \subseteq Nat
        OBVIOUS
  <2> HIDE DEF T
  <2>2. Nat \subseteq T
        BY <1>4, <1>5, <2>1, AllNumbers
  <2>3. \A n \in 0..Len(lines) : n \in T /\ n <= Len(lines)
        BY <1>0, <2>2
  <2>4. QED BY <2>3 DEF T
<1> DEFINE v == [n \in 0..Len(lines) |-> Of(u[n])]
<1>7. ASSUME NEW s \in Seq(1..Len(lines))
      PROVE  /\ Of(s) \in Seq(All)
             /\ \A k \in 1..Len(lines) : Of(Append(s, k)) = Append(Of(s), Scenario(lines, k))
  <2>1. /\ Len(s) \in Nat /\ DOMAIN s = 1..Len(s)
        /\ \A i \in 1..Len(s) : Scenario(lines, s[i]) \in All
    <3>1. Len(s) \in Nat /\ DOMAIN s = 1..Len(s) /\ \A i \in 1..Len(s) : s[i] \in 1..Len(lines)
          OBVIOUS
    <3>2. QED BY <1>0, <3>1
  <2> HIDE DEF All
  <2>2. /\ Of(s) \in Seq(All) /\ Len(Of(s)) = Len(s)
        /\ \A i \in 1..Len(s) : Of(s)[i] = Scenario(lines, s[i])
        BY <2>1, IsASeq DEF Of
  <2>3. ASSUME NEW k \in 1..Len(lines)
        PROVE  Of(Append(s, k)) = Append(Of(s), Scenario(lines, k))
    <3>1. /\ Append(s, k) \in Seq(1..Len(lines)) /\ Len(Append(s, k)) = Len(s) + 1
          /\ Append(s, k)[Len(s) + 1] = k
          /\ \A i \in 1..Len(s) : Append(s, k)[i] = s[i]
          BY AppendProperties
    <3>2. Scenario(lines, k) \in All
          BY <1>0 DEF All
    <3>3. /\ Append(Of(s), Scenario(lines, k)) \in Seq(All)
          /\ Len(Append(Of(s), Scenario(lines, k))) = Len(s) + 1
          /\ Append(Of(s), Scenario(lines, k))[Len(s) + 1] = Scenario(lines, k)
          /\ \A i \in 1..Len(s) : Append(Of(s), Scenario(lines, k))[i] = Of(s)[i]
          BY <2>2, <3>2, AppendProperties
    <3> DEFINE more == Append(s, k)
               result == Append(Of(s), Scenario(lines, k))
    <3> HIDE DEF more, result
    <3>4. DOMAIN more = 1..(Len(s) + 1) /\ DOMAIN result = 1..(Len(s) + 1)
          BY <3>1, <3>3 DEF more, result
    <3>5. \A i \in 1..(Len(s) + 1) : Of(more)[i] = result[i]
      <4>1. ASSUME NEW i \in 1..(Len(s) + 1) PROVE Scenario(lines, more[i]) = result[i]
        <5>1. CASE i = Len(s) + 1
              BY <3>1, <3>3, <5>1 DEF more, result
        <5>2. CASE i \in 1..Len(s)
              BY <2>2, <3>1, <3>3, <5>2 DEF more, result
        <5>3. QED BY <2>1, <5>1, <5>2
      <4>2. QED BY <3>4, <4>1 DEF Of
    <3>6. Of(more) = [i \in 1..(Len(s) + 1) |-> Of(more)[i]]
          BY <3>4 DEF Of
    <3>7. result = [i \in 1..(Len(s) + 1) |-> result[i]]
      <4>1. result \in Seq(All) /\ Len(result) = Len(s) + 1
            BY <3>3 DEF result
      <4>2. QED BY ONLY <4>1
    <3>8. Of(more) = result
          BY <3>5, <3>6, <3>7
    <3>9. QED BY <3>8 DEF more, result
  <2>4. QED BY <2>2, <2>3
<1>8. \A n \in 0..Len(lines) : v[n] \in Seq(All)
      BY <1>6, <1>7
<1>9. MeaningBy(v, lines)
  <2>1. v[0] = <<>>
    <3>1. u[0] = <<>> /\ 0 \in 0..Len(lines)
          BY <1>0, <1>1 DEF KeptBy
    <3>2. Of(<<>>) = <<>>
          BY DEF Of
    <3>3. QED BY <3>1, <3>2
  <2>2. ASSUME NEW n \in 1..Len(lines)
        PROVE  v[n] = IF lines[n].key = "user_id" THEN Append(v[n - 1], Scenario(lines, n)) ELSE v[n - 1]
    <3>1. n \in 0..Len(lines) /\ n - 1 \in 0..Len(lines) /\ n \in 1..Len(numbers)
          BY <1>0
    <3>2. u[n] = IF n \in K THEN Append(u[n - 1], n) ELSE u[n - 1]
          BY <1>0, <1>1, <3>1 DEF KeptBy
    <3>3. v[n] = Of(u[n]) /\ v[n - 1] = Of(u[n - 1])
          BY <3>1
    <3>4. Of(Append(u[n - 1], n)) = Append(Of(u[n - 1]), Scenario(lines, n))
          BY <1>6, <1>7, <3>1
    <3> HIDE DEF v
    <3>5. QED BY <1>2, <3>2, <3>3, <3>4
  <2> HIDE DEF v
  <2>3. QED BY <2>1, <2>2 DEF MeaningBy
<1>10. Meaning(lines) = v[Len(lines)]
  <2>1. Len(lines) \in 0..Len(lines)
        BY <1>0
  <2>2. QED BY <1>0, <1>1, <1>3, <2>1
<1> HIDE DEF v
<1>11. QED BY <1>8, <1>9, <1>10

\* The parser's state after k lines: it has met an error and the file is not well
\* formed; or nothing was read; or the scenario of line l is being read, and those
\* of the user lines before it are complete.
Reading(s, v, lines, k, l) ==
  /\ lines[l].key = "user_id" /\ \A j \in (l + 1)..k : lines[j].key # "user_id"
  /\ \A j \in 1..(l - 1) : lines[j].key = "user_id" => AuthorsOf(lines, j) # <<>>
  /\ v[k] = v[l]
  /\ s = [ok |-> TRUE, scenarios |-> v[l - 1],
          current |-> << [user |-> lines[l].ids[1], authors |-> AuthorsUpTo(lines, l, k)] >>]

LoopInv(s, v, lines, k) ==
  \/ /\ ~WellFormed(lines)
     /\ \E scenarios, current : s = [ok |-> FALSE, scenarios |-> scenarios, current |-> current]
  \/ k = 0 /\ s = Start
  \/ /\ k # 0 /\ lines[1].key = "user_id"
     /\ \A j \in 1..k : GoodLine(lines[j])
     /\ \E l \in 1..k : Reading(s, v, lines, k, l)

\* The scenario that is being read when its block ends.
LEMMA FlushStep ==
  ASSUME NEW lines \in Seq(FileLine), NEW v, MeaningBy(v, lines),
         NEW k \in 1..Len(lines), NEW l \in 1..k,
         v[l - 1] \in Seq({Scenario(lines, j) : j \in DOMAIN lines}),
         NEW s, Reading(s, v, lines, k, l),
         k < Len(lines) => lines[k + 1].key = "user_id"
  PROVE  /\ AuthorsOf(lines, l) # <<>> =>
              Flush(s) = [ok |-> TRUE, scenarios |-> v[k], current |-> <<>>]
         /\ AuthorsOf(lines, l) = <<>> => Flush(s) = Broken(s)
<1>1. l \in 1..Len(lines) /\ k \in l..Len(lines)
      OBVIOUS
<1>2. AuthorsOf(lines, l) = AuthorsUpTo(lines, l, k)
      BY <1>1, BlockEndIs DEF Reading
<1> DEFINE x == Scenario(lines, l)
<1>3. s = [ok |-> TRUE, scenarios |-> v[l - 1], current |-> <<x>>]
      BY <1>2 DEF Reading, Scenario
<1>4. x.authors = AuthorsOf(lines, l)
      BY DEF Scenario
<1>5. v[k] = v[l - 1] \o <<x>>
  <2>1. v[l] = Append(v[l - 1], x)
        BY <1>1 DEF MeaningBy, Reading
  <2>2. x \in {Scenario(lines, j) : j \in DOMAIN lines}
    <3>1. l \in DOMAIN lines
          BY <1>1
    <3>2. QED BY <3>1
  <2> DEFINE A == {Scenario(lines, j) : j \in DOMAIN lines}
             y == v[l - 1]
  <2>3. y \in Seq(A) /\ x \in A
        BY <2>2
  <2> HIDE DEF A, y, x
  <2>4. Append(y, x) = y \o <<x>>
        BY ONLY <2>3
  <2>5. QED BY <2>1, <2>4 DEF y, Reading
<1>6. s.current = <<x>> /\ s.current # <<>> /\ s.current[1] = x
      BY <1>3
<1> HIDE DEF x
<1>7. AuthorsOf(lines, l) = <<>> => Flush(s) = Broken(s)
      BY <1>4, <1>6 DEF Flush
<1>8. ASSUME AuthorsOf(lines, l) # <<>>
      PROVE  Flush(s) = [ok |-> TRUE, scenarios |-> v[k], current |-> <<>>]
  <2>1. Flush(s) = [s EXCEPT !.scenarios = @ \o s.current, !.current = <<>>]
        BY <1>4, <1>6, <1>8 DEF Flush
  <2>2. s.scenarios \o s.current = v[k]
        BY <1>3, <1>5
  <2>3. QED BY <1>3, <2>1, <2>2
<1>9. QED BY <1>7, <1>8

LEMMA LoopStep ==
  ASSUME NEW lines \in Seq(FileLine), NEW v, MeaningBy(v, lines),
         \A n \in 0..Len(lines) : v[n] \in Seq({Scenario(lines, j) : j \in DOMAIN lines}),
         NEW k \in 0..(Len(lines) - 1), NEW s, LoopInv(s, v, lines, k)
  PROVE  LoopInv(Line(s, lines[k + 1]), v, lines, k + 1)
<1> DEFINE line == lines[k + 1]
           t    == Line(s, line)
<1> SUFFICES LoopInv(t, v, lines, k + 1)
    OBVIOUS
<1>0. /\ k \in Nat /\ k + 1 \in 1..Len(lines) /\ Len(lines) \in Nat /\ k + 1 # 0
      /\ DOMAIN lines = 1..Len(lines)
      OBVIOUS
<1>1. line \in FileLine /\ line.ids \in Seq(Parts) /\ DOMAIN line.ids = 1..Len(line.ids)
  <2>1. line \in FileLine
        BY <1>0
  <2>2. \A x \in FileLine : x.ids \in Seq(Parts)
        BY DEF FileLine, Parts
  <2>3. line.ids \in Seq(Parts)
        BY <2>1, <2>2
  <2>4. \A ids \in Seq(Parts) : DOMAIN ids = 1..Len(ids)
        OBVIOUS
  <2>5. QED BY <2>1, <2>3, <2>4
<1> HIDE DEF line
\* What is read next, in a file without an error so far.
<1>2. ASSUME s.ok
      PROVE  t = IF line.key = "user_id" THEN UserLine(s, line.ids)
                 ELSE IF line.key = "authors" THEN AuthorsLine(s, line.ids) ELSE Broken(s)
  <2>1. CASE line.key = "user_id"
        BY Zenon, <1>2, <2>1 DEF Line
  <2>2. CASE line.key = "authors"
    <3>1. "authors" # "user_id"
          OBVIOUS
    <3>2. line.key # "user_id"
          BY <2>2, <3>1
    <3>3. QED BY Zenon, <1>2, <2>2, <3>2 DEF Line
  <2>3. CASE line.key # "user_id" /\ line.key # "authors"
        BY Zenon, <1>2, <2>3 DEF Line
  <2>4. QED BY <2>1, <2>2, <2>3
\* A file with a bad line, or one that does not begin with a user, is no good.
<1>3. ASSUME ~GoodLine(line) PROVE ~WellFormed(lines)
      BY <1>0, <1>3, WellFormedParts DEF line
<1>4. ASSUME NEW scenarios, NEW current,
             s = [ok |-> TRUE, scenarios |-> scenarios, current |-> current],
             t = Broken(s), ~WellFormed(lines)
      PROVE  LoopInv(t, v, lines, k + 1)
  <2>1. t = [ok |-> FALSE, scenarios |-> scenarios, current |-> current]
        BY <1>4 DEF Broken
  <2> HIDE DEF t
  <2>2. QED BY <1>4, <2>1 DEF LoopInv
<1>5. CASE /\ ~WellFormed(lines)
           /\ \E scenarios, current : s = [ok |-> FALSE, scenarios |-> scenarios, current |-> current]
  <2>1. ~s.ok
        BY <1>5
  <2>2. t = s
        BY <2>1 DEF Line
  <2>3. QED BY <1>5, <2>2 DEF LoopInv
<1>6. CASE k = 0 /\ s = Start
  <2>1. /\ s.ok /\ s.current = <<>> /\ Flush(s) = s
        /\ s = [ok |-> TRUE, scenarios |-> <<>>, current |-> <<>>]
        BY <1>6 DEF Start, Flush
  <2>2. CASE line.key = "user_id" /\ GoodLine(line)
    <3>1. t = [s EXCEPT !.current = << [user |-> line.ids[1], authors |-> <<>>] >>]
      <4>1. Len(line.ids) = 1 /\ PositiveId(line.ids[1])
            BY <2>2 DEF GoodLine
      <4>2. QED BY <1>2, <2>1, <2>2, <4>1 DEF UserLine
    <3>2. t = [ok |-> TRUE, scenarios |-> <<>>, current |-> << [user |-> line.ids[1], authors |-> <<>>] >>]
          BY <2>1, <3>1
    <3>3. v[0] = <<>> /\ AuthorsUpTo(lines, 1, 1) = <<>>
          BY NoAuthorsYet DEF MeaningBy
    <3>4. k + 1 = 1 /\ 1 - 1 = 0 /\ 1 \in 1..1 /\ 1..(1 - 1) = {} /\ (1 + 1)..1 = {}
          BY <1>6
    <3>5. Reading(t, v, lines, 1, 1)
          BY <2>2, <3>2, <3>3, <3>4 DEF Reading, line
    <3>6. \A j \in 1..1 : GoodLine(lines[j])
          BY <2>2, <3>4 DEF line
    <3>7. lines[1].key = "user_id"
          BY <2>2, <3>4 DEF line
    <3> HIDE DEF t
    <3>8. QED BY <3>4, <3>5, <3>6, <3>7 DEF LoopInv
  <2>3. CASE ~(line.key = "user_id" /\ GoodLine(line))
    <3>1. ~WellFormed(lines)
          BY <1>0, <1>6, <2>3, WellFormedParts DEF line
    <3>2. t = Broken(s)
      <4>1. CASE line.key = "user_id"
        <5>1. ~(Len(line.ids) = 1 /\ PositiveId(line.ids[1]))
              BY <2>3, <4>1 DEF GoodLine
        <5>2. QED BY <1>2, <2>1, <4>1, <5>1 DEF UserLine
      <4>2. CASE line.key # "user_id"
            BY <1>2, <2>1, <4>2 DEF AuthorsLine
      <4>3. QED BY <4>1, <4>2
    <3> HIDE DEF t
    <3>3. QED BY <1>4, <2>1, <3>1, <3>2
  <2>4. QED BY <2>2, <2>3
<1>7. CASE /\ k # 0 /\ lines[1].key = "user_id"
           /\ \A j \in 1..k : GoodLine(lines[j])
           /\ \E l \in 1..k : Reading(s, v, lines, k, l)
  <2>1. PICK l \in 1..k : Reading(s, v, lines, k, l)
        BY <1>7
  <2> DEFINE open == [user |-> lines[l].ids[1], authors |-> AuthorsUpTo(lines, l, k)]
  <2>2. /\ s = [ok |-> TRUE, scenarios |-> v[l - 1], current |-> <<open>>]
        /\ lines[l].key = "user_id" /\ \A j \in (l + 1)..k : lines[j].key # "user_id"
        /\ \A j \in 1..(l - 1) : lines[j].key = "user_id" => AuthorsOf(lines, j) # <<>>
        /\ v[k] = v[l]
        BY <2>1 DEF Reading
  <2>3. s.ok /\ s.current = <<open>> /\ s.current # <<>> /\ s.current[1] = open
        BY <2>2
  <2>4. l \in 1..Len(lines) /\ k \in l..Len(lines) /\ k \in 1..Len(lines) /\ l - 1 \in 0..Len(lines) /\ l \in Nat
        BY <1>0
  <2> HIDE DEF open, t
  <2>5. ASSUME GoodLine(line) PROVE \A j \in 1..(k + 1) : GoodLine(lines[j])
    <3>1. \A j \in 1..(k + 1) : j \in 1..k \/ j = k + 1
          BY <1>0
    <3>2. QED BY <1>7, <2>5, <3>1 DEF line
  <2>6. CASE line.key = "user_id"
    <3>1. /\ AuthorsOf(lines, l) # <<>> =>
               Flush(s) = [ok |-> TRUE, scenarios |-> v[k], current |-> <<>>]
          /\ AuthorsOf(lines, l) = <<>> => Flush(s) = Broken(s)
          BY <1>0, <2>1, <2>4, <2>6, FlushStep DEF line
    <3>2. t = UserLine(s, line.ids)
          BY <1>2, <2>3, <2>6 DEF t
    <3>3. CASE AuthorsOf(lines, l) = <<>>
      <4>1. ~WellFormed(lines)
            BY <1>0, <2>2, <2>4, <3>3, WellFormedParts
      <4>2. ~Flush(s).ok
            BY <2>2, <3>1, <3>3 DEF Broken
      <4>3. t = Broken(s)
            BY <3>2, <4>2 DEF UserLine
      <4>4. QED BY <1>4, <2>2, <4>1, <4>3
    <3>4. CASE ~GoodLine(line)
      <4>1. ~(Len(line.ids) = 1 /\ PositiveId(line.ids[1]))
            BY <2>6, <3>4 DEF GoodLine
      <4>2. t = Broken(s)
            BY <3>2, <4>1 DEF UserLine
      <4>3. QED BY <1>3, <1>4, <2>2, <3>4, <4>2
    <3>5. CASE AuthorsOf(lines, l) # <<>> /\ GoodLine(line)
      <4>1. Len(line.ids) = 1 /\ PositiveId(line.ids[1])
        <5>1. "authors" # "user_id"
              OBVIOUS
        <5>2. QED BY <2>6, <3>5, <5>1 DEF GoodLine
      <4>2. Flush(s) = [ok |-> TRUE, scenarios |-> v[k], current |-> <<>>] /\ Flush(s).ok
            BY <3>1, <3>5
      <4>3. t = [Flush(s) EXCEPT !.current = << [user |-> line.ids[1], authors |-> <<>>] >>]
            BY <3>2, <4>1, <4>2 DEF UserLine
      <4>4. t = [ok |-> TRUE, scenarios |-> v[k],
                 current |-> << [user |-> line.ids[1], authors |-> <<>>] >>]
        <5>1. t = [[ok |-> TRUE, scenarios |-> v[k], current |-> <<>>]
                     EXCEPT !.current = << [user |-> line.ids[1], authors |-> <<>>] >>]
              BY <4>2, <4>3
        <5>2. QED BY <5>1
      <4>5. AuthorsUpTo(lines, k + 1, k + 1) = <<>>
            BY <1>0, NoAuthorsYet
      <4>6. (k + 1) - 1 = k /\ ((k + 1) + 1)..(k + 1) = {} /\ k + 1 \in 1..(k + 1)
            BY <1>0
      <4>7. ASSUME NEW j \in 1..k, lines[j].key = "user_id" PROVE AuthorsOf(lines, j) # <<>>
        <5>1. j \in 1..(l - 1) \/ j = l \/ j \in (l + 1)..k
              BY <1>0, <2>4
        <5>2. QED BY <2>2, <3>5, <4>7, <5>1
      <4>8. Reading(t, v, lines, k + 1, k + 1)
            BY <2>6, <4>4, <4>5, <4>6, <4>7 DEF Reading, line
      <4>9. QED BY <1>0, <1>7, <2>5, <3>5, <4>6, <4>8 DEF LoopInv
    <3>6. QED BY <3>3, <3>4, <3>5
  <2>7. CASE line.key = "authors"
    <3>0. line.key # "user_id"
      <4>1. "authors" # "user_id"
            OBVIOUS
      <4>2. QED BY <2>7, <4>1
    <3>1. t = AuthorsLine(s, line.ids)
          BY <1>2, <2>3, <2>7, <3>0 DEF t
    <3>2. (\E j \in DOMAIN NotBlank(line.ids) : ~PositiveId(NotBlank(line.ids)[j])) <=> ~GoodLine(line)
          BY <1>1, <2>7, <3>0, PartsChecked DEF GoodLine
    <3>3. CASE ~GoodLine(line)
      <4>1. t = Broken(s)
            BY <3>1, <3>2, <3>3 DEF AuthorsLine
      <4>2. QED BY <1>3, <1>4, <2>2, <3>3, <4>1
    <3>4. CASE GoodLine(line)
      <4>1. t = [s EXCEPT !.current[1].authors = @ \o NotBlank(line.ids)]
            BY <2>3, <3>1, <3>2, <3>4 DEF AuthorsLine
      <4> DEFINE next == [user |-> lines[l].ids[1], authors |-> AuthorsUpTo(lines, l, k + 1)]
      <4>2. AuthorsUpTo(lines, l, k + 1) = open.authors \o NotBlank(line.ids)
        <5>1. k < Len(lines)
              BY <1>0
        <5>2. AuthorsUpTo(lines, l, k + 1) = AuthorsUpTo(lines, l, k) \o NotBlank(lines[k + 1].ids)
              BY <2>4, <5>1, AuthorsStep
        <5>3. open.authors = AuthorsUpTo(lines, l, k)
              BY DEF open
        <5>4. QED BY <5>2, <5>3 DEF line
      <4>3. [<<open>> EXCEPT ![1].authors = @ \o NotBlank(line.ids)] = <<next>>
        <5>1. [open EXCEPT !.authors = open.authors \o NotBlank(line.ids)] = next
          <6>1. next = [user |-> lines[l].ids[1], authors |-> open.authors \o NotBlank(line.ids)]
                BY <4>2
          <6> DEFINE more == open.authors \o NotBlank(line.ids)
          <6> HIDE DEF more
          <6>2. [open EXCEPT !.authors = more] = [user |-> lines[l].ids[1], authors |-> more]
                BY DEF open
          <6> HIDE DEF next
          <6>3. QED BY <6>1, <6>2 DEF more
        <5> HIDE DEF next
        <5>2. [<<open>> EXCEPT ![1] = next] = <<next>>
              OBVIOUS
        <5>3. [<<open>> EXCEPT ![1].authors = @ \o NotBlank(line.ids)]
                = [<<open>> EXCEPT ![1] = [open EXCEPT !.authors = open.authors \o NotBlank(line.ids)]]
              OBVIOUS
        <5>4. QED BY <5>1, <5>2, <5>3
      <4> HIDE DEF next
      <4>4. t = [ok |-> TRUE, scenarios |-> v[l - 1], current |-> <<next>>]
        <5>1. t = [s EXCEPT !.current = [s.current EXCEPT ![1].authors = @ \o NotBlank(line.ids)]]
              BY <4>1
        <5>2. t = [s EXCEPT !.current = <<next>>]
              BY <2>3, <4>3, <5>1
        <5>3. QED BY <2>2, <5>2
      <4>5. v[k + 1] = v[k]
        <5>1. (k + 1) - 1 = k
              BY <1>0
        <5>2. QED BY <1>0, <3>0, <5>1 DEF MeaningBy, line
      <4>6. \A j \in (l + 1)..(k + 1) : lines[j].key # "user_id"
        <5>1. \A j \in (l + 1)..(k + 1) : j \in (l + 1)..k \/ j = k + 1
              BY <1>0, <2>4
        <5>2. QED BY <2>2, <3>0, <5>1 DEF line
      <4>7. Reading(t, v, lines, k + 1, l)
            BY <2>2, <4>4, <4>5, <4>6 DEF Reading, next
      <4>8. l \in 1..(k + 1)
            BY <1>0
      <4>9. QED BY <1>0, <1>7, <2>5, <3>4, <4>7, <4>8 DEF LoopInv
    <3>5. QED BY <3>3, <3>4
  <2>8. CASE line.key # "user_id" /\ line.key # "authors"
    <3>1. ~GoodLine(line)
          BY <2>8 DEF GoodLine
    <3>2. t = Broken(s)
          BY <1>2, <2>3, <2>8 DEF t
    <3>3. QED BY <1>3, <1>4, <2>2, <3>1, <3>2
  <2>9. QED BY <2>6, <2>7, <2>8
<1> HIDE DEF t
<1>8. QED BY <1>5, <1>6, <1>7 DEF LoopInv

(* A file is accepted when it is well formed, and then gives what it means. *)
LEMMA FileAsWritten ==
  ASSUME NEW lines \in Seq(FileLine)
  PROVE  BuildScenarios(lines) = IF WellFormed(lines) THEN Success(Meaning(lines)) ELSE Failure
<1> DEFINE N == Len(lines)
<1>0. N \in Nat /\ DOMAIN lines = 1..N
      OBVIOUS
<1>1. PICK f : /\ f[0] = Start
               /\ \A n \in 1..Len(lines) : f[n] = Line(f[n - 1], lines[n])
               /\ FoldLeft(Line, Start, lines) = f[Len(lines)]
      BY FoldSteps
<1>2. PICK v : /\ MeaningBy(v, lines) /\ Meaning(lines) = v[Len(lines)]
               /\ \A n \in 0..Len(lines) : v[n] \in Seq({Scenario(lines, k) : k \in DOMAIN lines})
      BY MeaningSteps
<1> DEFINE T == {n \in Nat : n <= N => LoopInv(f[n], v, lines, n)}
<1>3. 0 \in T
      BY <1>1 DEF LoopInv
<1>4. ASSUME NEW n \in T PROVE n + 1 \in T
  <2> SUFFICES ASSUME n + 1 <= N PROVE LoopInv(f[n + 1], v, lines, n + 1)
      OBVIOUS
  <2>1. n \in 0..(N - 1) /\ n + 1 \in 1..N /\ (n + 1) - 1 = n /\ LoopInv(f[n], v, lines, n)
        BY <1>0
  <2>2. f[n + 1] = Line(f[n], lines[n + 1])
        BY <1>1, <2>1
  <2>3. QED BY <1>2, <2>1, <2>2, LoopStep
<1>5. LoopInv(f[N], v, lines, N)
  <2>1. T \subseteq Nat
        OBVIOUS
  <2> HIDE DEF T
  <2>2. N \in T
        BY <1>0, <1>3, <1>4, <2>1, AllNumbers
  <2>3. QED BY <1>0, <2>2 DEF T
<1> DEFINE s == f[N]
<1> HIDE DEF s
<1>6. BuildScenarios(lines) = IF Flush(s).ok THEN Success(Flush(s).scenarios) ELSE Failure
      BY <1>1 DEF BuildScenarios, s
<1>7. CASE /\ ~WellFormed(lines)
           /\ \E scenarios, current : s = [ok |-> FALSE, scenarios |-> scenarios, current |-> current]
  <2>1. PICK scenarios, current : s = [ok |-> FALSE, scenarios |-> scenarios, current |-> current]
        BY <1>7
  <2>2. s.ok = FALSE /\ Broken(s).ok = FALSE
        BY <2>1 DEF Broken
  <2>3. [s EXCEPT !.scenarios = @ \o s.current, !.current = <<>>].ok = FALSE
        BY <2>1
  <2>4. Flush(s).ok = FALSE
        BY <2>2, <2>3 DEF Flush
  <2>5. QED BY <1>6, <1>7, <2>4
<1>8. CASE N = 0 /\ s = Start
  <2>1. Flush(s) = Start /\ Start.ok /\ Start.scenarios = <<>>
        BY <1>8 DEF Flush, Start
  <2>2. DOMAIN lines = {}
        BY <1>0, <1>8
  <2>3. WellFormed(lines)
        BY <2>2, WellFormedParts
  <2>4. Meaning(lines) = <<>>
        BY <1>2, <1>8 DEF MeaningBy
  <2>5. QED BY <1>6, <2>1, <2>3, <2>4
<1>9. CASE /\ N # 0 /\ lines[1].key = "user_id"
           /\ \A j \in 1..N : GoodLine(lines[j])
           /\ \E l \in 1..N : Reading(s, v, lines, N, l)
  <2>1. PICK l \in 1..N : Reading(s, v, lines, N, l)
        BY <1>9
  <2>2. N \in 1..N /\ l - 1 \in 0..N /\ ~(N < N)
        BY <1>0
  <2>3. /\ AuthorsOf(lines, l) # <<>> =>
             Flush(s) = [ok |-> TRUE, scenarios |-> v[N], current |-> <<>>]
        /\ AuthorsOf(lines, l) = <<>> => Flush(s) = Broken(s)
        BY <1>2, <2>1, <2>2, FlushStep
  <2>4. CASE AuthorsOf(lines, l) = <<>>
    <3>1. ~WellFormed(lines)
          BY <1>0, <2>1, <2>4, WellFormedParts DEF Reading
    <3>2. Broken(s).ok = FALSE
          BY <2>1 DEF Reading, Broken
    <3>3. QED BY <1>6, <2>3, <2>4, <3>1, <3>2
  <2>5. CASE AuthorsOf(lines, l) # <<>>
    <3>1. ASSUME NEW j \in 1..N, lines[j].key = "user_id" PROVE AuthorsOf(lines, j) # <<>>
      <4>1. j \in 1..(l - 1) \/ j = l \/ j \in (l + 1)..N
            BY <1>0
      <4>2. QED BY <2>1, <2>5, <3>1, <4>1 DEF Reading
    <3>2. WellFormed(lines)
          BY <1>0, <1>9, <3>1, WellFormedParts
    <3>3. Flush(s).ok /\ Flush(s).scenarios = Meaning(lines)
          BY <1>2, <2>3, <2>5
    <3>4. QED BY <1>6, <3>2, <3>3
  <2>6. QED BY <2>4, <2>5
<1>10. QED BY <1>5, <1>7, <1>8, <1>9 DEF LoopInv, s

(* And so is a directory.                                                  *)
Directories == DirectorySeqs \cup {Missing}

LEMMA FilesOf ==
  ASSUME NEW dir \in DirectorySeqs, NEW i \in DOMAIN ScenarioFiles(dir),
         ScenarioFiles(dir)[i].lines # Unreadable
  PROVE  ReadScenarioLines(ScenarioFiles(dir)[i]) \in Seq(FileLine)
<1> DEFINE Entry == [kind : {"directory", "scenario", "other"}, lines : Seq(FileLine) \cup {Unreadable}]
           K == {j \in DOMAIN dir : dir[j].kind = "scenario"}
           B == {dir[j] : j \in K \cap (1..Len(dir))}
<1>1. dir \in Seq(Entry)
      BY DEF DirectorySeqs
<1>2. Keep(dir, K) \in Seq(B)
  <2> HIDE DEF Entry, K
  <2>1. QED BY <1>1, KeptElements
<1>3. B \subseteq Entry
  <2> HIDE DEF Entry
  <2>1. \A j \in 1..Len(dir) : dir[j] \in Entry
        BY <1>1
  <2>2. QED BY <2>1
<1>4. ScenarioFiles(dir) = Keep(dir, K)
      BY DEF ScenarioFiles
<1> DEFINE file == ScenarioFiles(dir)[i]
<1>5. file \in Entry
  <2> HIDE DEF Entry, B, K
  <2>1. file \in B
        BY <1>2, <1>4
  <2>2. QED BY <1>3, <2>1
<1> HIDE DEF file
<1>6. file.lines \in Seq(FileLine)
  <2>1. file.lines \in Seq(FileLine) \cup {Unreadable}
        BY <1>5
  <2>2. QED BY <2>1 DEF file
<1> DEFINE L == {j \in DOMAIN file.lines : file.lines[j].key # "#"}
           C == {file.lines[j] : j \in L \cap (1..Len(file.lines))}
<1>7. Keep(file.lines, L) \in Seq(C)
  <2> HIDE DEF L
  <2>1. QED BY <1>6, KeptElements
<1>8. C \subseteq FileLine
  <2>1. \A j \in 1..Len(file.lines) : file.lines[j] \in FileLine
        BY <1>6
  <2>2. QED BY <2>1
<1>9. Keep(file.lines, L) \in Seq(FileLine)
  <2> HIDE DEF L, C
  <2>1. QED BY <1>7, <1>8
<1>10. QED BY <1>9 DEF ReadScenarioLines, file

LEMMA DirectoryAsWritten ==
  ASSUME NEW dir \in Directories
  PROVE  LoadScenarios(dir) = IF Readable(dir) THEN Success(Content(dir)) ELSE Failure
<1>1. CASE dir = Missing
      BY <1>1 DEF LoadScenarios, Readable
<1>2. CASE dir # Missing
  <2> DEFINE files == ScenarioFiles(dir)
             Lines(i) == ReadScenarioLines(files[i])
             Good(i) == files[i].lines # Unreadable /\ WellFormed(Lines(i))
             parsed == [i \in DOMAIN files |-> ParseScenarioFile(files[i])]
  <2>1. dir \in DirectorySeqs
        BY <1>2 DEF Directories
  <2>2. ASSUME NEW i \in DOMAIN files
        PROVE  parsed[i] = IF Good(i) THEN Success(Meaning(Lines(i))) ELSE Failure
    <3>1. CASE files[i].lines = Unreadable
          BY <3>1 DEF ParseScenarioFile
    <3>2. CASE files[i].lines # Unreadable
      <4>1. Lines(i) \in Seq(FileLine)
            BY <2>1, <3>2, FilesOf
      <4>2. parsed[i] = BuildScenarios(Lines(i))
            BY <3>2 DEF ParseScenarioFile
      <4>3. BuildScenarios(Lines(i)) =
              IF WellFormed(Lines(i)) THEN Success(Meaning(Lines(i))) ELSE Failure
            BY <4>1, FileAsWritten
      <4>4. QED BY <3>2, <4>2, <4>3
    <3>3. QED BY <3>1, <3>2
  <2>3. Success(<<>>).ok /\ ~Failure.ok /\ \A x : Success(x).ok /\ Success(x).scenarios = x
        BY DEF Success, Failure
  <2>4. LoadScenarios(dir) =
          IF files = <<>> \/ \E i \in DOMAIN files : ~parsed[i].ok THEN Failure
          ELSE Success(FlattenSeq([i \in DOMAIN files |-> parsed[i].scenarios]))
        BY <1>2 DEF LoadScenarios
  <2>5. Readable(dir) <=> files # <<>> /\ \A i \in DOMAIN files : Good(i)
        BY <1>2 DEF Readable
  <2>6. Content(dir) = FlattenSeq([i \in DOMAIN files |-> Meaning(Lines(i))])
        BY DEF Content
  <2> HIDE DEF files, Lines, Good, parsed
  <2>7. \A i \in DOMAIN files : parsed[i].ok <=> Good(i)
        BY <2>2, <2>3
  <2>8. CASE Readable(dir)
    <3>1. [i \in DOMAIN files |-> parsed[i].scenarios] = [i \in DOMAIN files |-> Meaning(Lines(i))]
      <4>1. \A i \in DOMAIN files : parsed[i].scenarios = Meaning(Lines(i))
            BY <2>2, <2>3, <2>5, <2>8
      <4>2. QED BY <4>1
    <3>2. QED BY <2>4, <2>5, <2>6, <2>7, <2>8, <3>1
  <2>9. CASE ~Readable(dir)
        BY <2>4, <2>5, <2>7, <2>9
  <2>10. QED BY <2>8, <2>9
<1>3. QED BY <1>1, <1>2

-----------------------------------------------------------------------------
(* What was loaded is what the directory gives, until the readers run.     *)
LoadInv ==
  /\ stage \in {"verify", "build", "start", "not loaded"} => cfg.dir \in Directories
  /\ stage = "start" /\ cfg.mode = "scenario" =>
       LoadScenarios(cfg.dir).ok /\ loaded = LoadScenarios(cfg.dir).scenarios
  /\ stage = "not loaded" => ~LoadScenarios(cfg.dir).ok

LEMMA LoadStep == CfgInv /\ LoadInv /\ [MainNext]_allVars => LoadInv'
<1> SUFFICES ASSUME CfgInv, LoadInv, [MainNext]_allVars PROVE LoadInv'
    OBVIOUS
<1>0. ASSUME UNCHANGED <<stage, cfg, loaded>> PROVE LoadInv'
      BY <1>0 DEF LoadInv
<1>1. CASE LoadConfig
  <2>1. /\ env \in Environments /\ cfg' = Load(env)
        /\ stage' \in {"verify", "invalid"}
        BY <1>1 DEF LoadConfig, CfgInv, Continue, Fail
  <2>2. Load(env).dir \in Directories
    <3>1. Load(env).dir = GetEnv(env.dir, Fallback.dir)
          BY DEF Load
    <3>2. env.dir \in DirectorySeqs \cup {Missing, Unset} /\ Fallback.dir \in Directories
          BY <2>1, EnvironmentAssumption DEF Directories
    <3>3. QED BY <3>1, <3>2 DEF GetEnv, Directories
  <2>3. QED BY <2>1, <2>2 DEF LoadInv
<1>2. CASE Interrupted
      BY <1>2 DEF Interrupted, Fail, LoadInv
<1>3. CASE TopicVerified
      BY <1>3 DEF TopicVerified, Continue, LoadInv
<1>4. CASE BrokerFails
  <2>1. /\ stage = "verify" /\ cfg' = cfg /\ stage' \in {"no topic", "verify"}
        BY <1>4 DEF BrokerFails, Continue, Fail
  <2>2. QED BY <2>1 DEF LoadInv
<1>5. CASE BuildStrategy
  <2> DEFINE result == IF cfg.mode = "scenario" THEN LoadScenarios(cfg.dir) ELSE Success(<<>>)
  <2>1. /\ stage = "build" /\ cfg' = cfg /\ loaded' = result.scenarios
        /\ \/ result.ok /\ stage' = "start"
           \/ ~result.ok /\ stage' = "not loaded"
        BY <1>5 DEF BuildStrategy, Continue, Fail
  <2>2. cfg.mode # "scenario" => result.ok
        BY DEF Success
  <2>3. cfg.mode = "scenario" => result = LoadScenarios(cfg.dir)
        OBVIOUS
  <2> HIDE DEF result
  <2>4. QED BY <2>1, <2>2, <2>3 DEF LoadInv
<1>6. CASE Panic
  <2>1. stage' = "panicked"
        BY <1>6 DEF Panic, Fail
  <2>2. QED BY <2>1 DEF LoadInv
<1>7. CASE StartReaders
      BY <1>7 DEF StartReaders, LoadInv
<1>8. CASE CancelStart
      BY <1>0, <1>8 DEF CancelStart, startup
<1>9. CASE Next /\ Simulates
      BY <1>0, <1>9 DEF Simulates, startup
<1>10. CASE UNCHANGED allVars
      BY <1>0, <1>10 DEF allVars, startup
<1>11. QED BY <1>1, <1>2, <1>3, <1>4, <1>5, <1>6, <1>7, <1>8, <1>9, <1>10 DEF MainNext, Startup

(* Whatever the directory holds, the scenarios that are run are those its   *)
(* files describe, each user line with all authors up to the next one; and  *)
(* a directory is refused only when it cannot be understood.                *)
THEOREM ScenariosAsWritten == MainSpec => []LoadedAsWritten
<1>1. MainInit => CfgInv /\ LoadInv
      BY DEF MainInit, CfgInv, LoadInv
<1>2. LoadInv => LoadedAsWritten
  <2> SUFFICES ASSUME LoadInv PROVE LoadedAsWritten
      OBVIOUS
  <2>1. cfg.dir \in Directories =>
          LoadScenarios(cfg.dir) = IF Readable(cfg.dir) THEN Success(Content(cfg.dir)) ELSE Failure
        BY DirectoryAsWritten
  <2>2. Success(Content(cfg.dir)).ok /\ Success(Content(cfg.dir)).scenarios = Content(cfg.dir)
        BY DEF Success
  <2>3. ~Failure.ok
        BY DEF Failure
  <2>4. QED BY <2>1, <2>2, <2>3 DEF LoadInv, LoadedAsWritten
<1>3. QED BY <1>1, <1>2, CfgStep, LoadStep, PTL DEF MainSpec
=============================================================================
