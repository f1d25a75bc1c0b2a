------------------------- MODULE StorageGatewayProofs -----------------------
(***************************************************************************)
(* Proofs about StorageGateway, for any number of concurrent requests, any *)
(* batches in any order of rows, and any width of the columns.             *)
(***************************************************************************)
EXTENDS StorageGateway, TLAPS

(* Two-phase locking: a running transaction has locked what it wrote and   *)
(* every row it has upserted; the others have neither locks nor writes.    *)
LockInv ==
  /\ \A r \in Requests, k \in Keys : owner[k] = r => status[r] = "active"
  /\ \A r \in Requests, k \in Keys : wrote[r][k] # NoRow => owner[k] = r
  /\ \A r \in Requests : status[r] = "active" =>
       \A i \in 1..done[r] : owner[KeyOf(r, i)] = r
  /\ \A r \in Requests, k \in Keys : owner[k] = r =>
       \E i \in 1..done[r] : KeyOf(r, i) = k

(* What a transaction has written is a count of its batch, larger than what *)
(* is stored; and it sees each row it has upserted at its count or above.   *)
WriteInv ==
  /\ \A r \in Requests, k \in Keys : wrote[r][k] # NoRow =>
       /\ wrote[r][k] > stats[k]
       /\ \E i \in 1..done[r] : KeyOf(r, i) = k /\ batch[r][i].count = wrote[r][k]
  /\ \A r \in Requests : status[r] = "active" =>
       \A i \in 1..done[r] : batch[r][i].count <= Visible(r, KeyOf(r, i))

ValidInv == \A r \in Requests : status[r] = "active" => Valid(batch[r], date[r])

IInv == TypeOK /\ LockInv /\ WriteInv /\ ValidInv /\ SavedIsStored

-----------------------------------------------------------------------------
LEMMA EmptyBatch == <<>> \in Seq(Row) /\ \A b : b = <<>> => Len(b) = 0
  OBVIOUS

(* The rows of a batch are rows. *)
LEMMA BatchRows ==
  ASSUME TypeOK, NEW r \in Requests, NEW i \in 1..Len(batch[r])
  PROVE  batch[r][i] \in Row /\ KeyOf(r, i) \in Keys /\ i \in DOMAIN batch[r]
<1>1. batch[r] \in Seq(Row)
  <2>1. batch[r] \in Batches \cup {<<>>}
        BY DEF TypeOK
  <2>2. QED BY <2>1, EmptyBatch, StorageAssumption
<1>2. batch[r][i] \in Row /\ i \in DOMAIN batch[r]
      BY <1>1
<1>3. date[r] \in Dates
      BY DEF TypeOK
<1>4. batch[r][i].author \in AuthorIds
      BY <1>2 DEF Row
<1>5. QED BY <1>2, <1>3, <1>4 DEF KeyOf, Keys

LEMMA BatchLen ==
  ASSUME TypeOK, NEW r \in Requests
  PROVE  Len(batch[r]) \in Nat /\ done[r] \in Nat /\ done[r] <= Len(batch[r])
<1>1. batch[r] \in Seq(Row)
  <2>1. batch[r] \in Batches \cup {<<>>}
        BY DEF TypeOK
  <2>2. QED BY <2>1, EmptyBatch, StorageAssumption
<1>2. QED BY <1>1 DEF TypeOK

LEMMA NoDateIsDate == NoDate \in Dates
BY StorageAssumption DEF NoDate

LEMMA InitIInv == Init => IInv
<1> SUFFICES ASSUME Init PROVE IInv
    OBVIOUS
<1> USE StorageAssumption DEF Init, NoWrites
<1>1. TypeOK
  <2>1. NoWrites \in [Keys -> Clicks]
        BY DEF Clicks
  <2>2. \A r \in Requests : batch[r] = <<>> /\ done[r] = 0
        OBVIOUS
  <2>3. \A r \in Requests : done[r] <= Len(batch[r])
    <3> SUFFICES ASSUME NEW r \in Requests PROVE done[r] <= Len(batch[r])
        OBVIOUS
    <3>1. done[r] = 0 /\ Len(batch[r]) = 0
          BY <2>2, EmptyBatch
    <3>2. QED BY ONLY <3>1
  <2>4. /\ date \in [Requests -> Dates]
        /\ owner \in [Keys -> Requests \cup {Nobody}]
        /\ batch \in [Requests -> Batches \cup {<<>>}]
        /\ done \in [Requests -> Nat]
        /\ status \in [Requests -> {"idle", "active", "saved", "rejected", "failed"}]
        BY NoDateIsDate
  <2>5. stats \in [Keys -> Clicks] /\ wrote \in [Requests -> [Keys -> Clicks]]
        BY <2>1
  <2>6. QED BY <2>3, <2>4, <2>5 DEF TypeOK
<1>2. LockInv
      BY DEF LockInv
<1>3. WriteInv /\ ValidInv /\ SavedIsStored
      BY DEF WriteInv, ValidInv, SavedIsStored
<1>4. QED BY <1>1, <1>2, <1>3 DEF IInv

(* The facts an upsert starts from. *)
LEMMA ExecFacts ==
  ASSUME TypeOK, NEW r \in Requests, HasNext(r)
  PROVE  /\ done[r] + 1 \in 1..Len(batch[r])
         /\ NextRow(r) = batch[r][done[r] + 1]
         /\ NextRow(r) \in Row
         /\ NextKey(r) \in Keys
         /\ NextKey(r) = <<NextRow(r).author, date[r]>>
<1>1. done[r] + 1 \in 1..Len(batch[r])
      BY BatchLen DEF HasNext
<1>2. QED BY <1>1, BatchRows DEF NextRow, NextKey, KeyOf

-----------------------------------------------------------------------------
(* The end of a transaction, with or without its writes, is of one kind:   *)
(* three actions roll it back.                                             *)
LEMMA RollsBack ==
  ASSUME NEW r \in Requests, ExecOverflows(r) \/ Interrupted(r) \/ DeadlockDetected(r)
  PROVE  status[r] = "active" /\ Rollback(r)
  BY DEF ExecOverflows, Interrupted, DeadlockDetected, WaitsFor, HasNext

LEMMA TypeStep == TypeOK /\ [Next]_vars => TypeOK'
<1> SUFFICES ASSUME TypeOK, [Next]_vars PROVE TypeOK'
    OBVIOUS
<1>1. ASSUME NEW r \in Requests, NEW b \in Batches, NEW d \in Dates, Receive(r, b, d)
      PROVE  TypeOK'
  <2>1. /\ status' \in [Requests -> {"idle", "active", "saved", "rejected", "failed"}]
        /\ batch' \in [Requests -> Batches \cup {<<>>}]
        /\ date' \in [Requests -> Dates]
        /\ done' \in [Requests -> Nat]
        /\ UNCHANGED <<stats, wrote, owner>>
        BY <1>1 DEF TypeOK, Receive
  <2>2. ASSUME NEW q \in Requests PROVE done'[q] <= Len(batch'[q])
    <3>1. CASE q # r
          BY <1>1, <3>1 DEF TypeOK, Receive
    <3>2. CASE q = r
      <4>1. done'[q] = 0 /\ batch'[q] = b
            BY <1>1, <3>2 DEF TypeOK, Receive
      <4>2. Len(b) \in Nat
            BY StorageAssumption
      <4>3. QED BY ONLY <4>1, <4>2
    <3>3. QED BY <3>1, <3>2
  <2>3. QED BY <2>1, <2>2 DEF TypeOK
<1>2. ASSUME NEW r \in Requests, Exec(r) PROVE TypeOK'
  <2> DEFINE k == NextKey(r)
             n == NextRow(r).count
  <2>1. /\ k \in Keys /\ done[r] + 1 \in 1..Len(batch[r]) /\ NextRow(r) \in Row
        BY <1>2, ExecFacts DEF Exec
  <2>2. n \in Int /\ n <= MaxInteger /\ MaxInteger \in Nat
        BY <1>2, <2>1, StorageAssumption DEF Exec, Fits, Row
  <2>3. wrote' \in [Requests -> [Keys -> Clicks]]
    <3>1. CASE Replaces(Visible(r, k), n)
      <4>1. wrote' = [wrote EXCEPT ![r][k] = n]
            BY <1>2, <3>1 DEF Exec
      <4>2. Visible(r, k) \in Clicks
            BY <2>1 DEF TypeOK, Visible
      <4>3. n \in Clicks
            BY <2>2, <3>1, <4>2 DEF Replaces, Clicks, NoRow
      <4>4. QED BY <2>1, <4>1, <4>3 DEF TypeOK
    <3>2. CASE ~Replaces(Visible(r, k), n)
          BY <1>2, <3>2 DEF Exec, TypeOK
    <3>3. QED BY <3>1, <3>2
  <2>4. owner' \in [Keys -> Requests \cup {Nobody}]
        BY <1>2, <2>1 DEF Exec, TypeOK
  <2>5. /\ done' \in [Requests -> Nat]
        /\ \A q \in Requests : done'[q] <= Len(batch[q])
        BY <1>2, <2>1, BatchLen DEF Exec, TypeOK
  <2>6. QED BY <1>2, <2>3, <2>4, <2>5 DEF Exec, TypeOK
<1>3. ASSUME NEW r \in Requests, Rollback(r) PROVE TypeOK'
  <2>1. NoWrites \in [Keys -> Clicks]
        BY DEF NoWrites, Clicks
  <2>2. QED BY <1>3, <2>1 DEF Rollback, Unlocked, TypeOK
<1>4. ASSUME NEW r \in Requests, Commit(r) PROVE TypeOK'
  <2>1. NoWrites \in [Keys -> Clicks]
        BY DEF NoWrites, Clicks
  <2>2. stats' \in [Keys -> Clicks]
        BY <1>4 DEF Commit, Stored, Visible, TypeOK
  <2>3. status' \in [Requests -> {"idle", "active", "saved", "rejected", "failed"}]
        BY <1>4 DEF Commit, TypeOK
  <2>4. owner' \in [Keys -> Requests \cup {Nobody}] /\ wrote' \in [Requests -> [Keys -> Clicks]]
        BY <1>4, <2>1 DEF Commit, TypeOK
  <2>5. QED BY <1>4, <2>2, <2>3, <2>4 DEF Commit, TypeOK
<1>5. ASSUME NEW r \in Requests, Answer(r) PROVE TypeOK'
  <2>1. ASSUME NEW q \in Requests PROVE done'[q] <= Len(batch'[q])
    <3>1. CASE q # r
          BY <1>5, <3>1 DEF TypeOK, Answer
    <3>2. CASE q = r
      <4>1. done'[q] = 0 /\ Len(batch'[q]) = 0
            BY <1>5, <3>2, EmptyBatch DEF TypeOK, Answer
      <4>2. QED BY ONLY <4>1
    <3>3. QED BY <3>1, <3>2
  <2>2. QED BY <1>5, <2>1, NoDateIsDate DEF TypeOK, Answer
<1>6. CASE UNCHANGED vars
      BY <1>6 DEF vars, TypeOK
<1>7. QED BY <1>1, <1>2, <1>3, <1>4, <1>5, <1>6, RollsBack DEF Next, Transact

(* TypeOK holds in every reachable state. *)
THEOREM TypeCorrect == Spec => []TypeOK
<1>1. Init => TypeOK
      BY InitIInv DEF IInv
<1>2. QED BY <1>1, TypeStep, PTL DEF Spec

-----------------------------------------------------------------------------
(* One lemma per action. *)
LEMMA ReceiveStep ==
  ASSUME IInv, NEW r \in Requests, NEW b \in Batches, NEW d \in Dates, Receive(r, b, d)
  PROVE  LockInv' /\ WriteInv' /\ ValidInv' /\ SavedIsStored'
<1> USE DEF IInv
<1>1. /\ status[r] = "idle"
      /\ status' = [status EXCEPT ![r] = IF Valid(b, d) THEN "active" ELSE "rejected"]
      /\ batch' = [batch EXCEPT ![r] = b]
      /\ date' = [date EXCEPT ![r] = d]
      /\ done' = [done EXCEPT ![r] = 0]
      /\ UNCHANGED <<stats, wrote, owner>>
      BY DEF Receive
<1>2. /\ status'[r] \in {"active", "rejected"} /\ done'[r] = 0
      /\ status'[r] = "active" => Valid(batch'[r], date'[r])
      /\ \A q \in Requests \ {r} : /\ status'[q] = status[q] /\ batch'[q] = batch[q]
                                   /\ date'[q] = date[q] /\ done'[q] = done[q]
      BY <1>1 DEF TypeOK
<1>3. \A q \in Requests \ {r} : \A i : KeyOf(q, i)' = KeyOf(q, i)
      BY <1>2 DEF KeyOf
<1>4. \A k \in Keys : owner[k] # r /\ wrote[r][k] = NoRow
      BY <1>1 DEF LockInv
<1>5. LockInv'
      BY <1>1, <1>2, <1>3, <1>4 DEF LockInv
<1>6. \A q \in Requests, k \in Keys : Visible(q, k)' = Visible(q, k)
      BY <1>1 DEF Visible
<1>7. \A q \in Requests, k \in Keys : wrote'[q][k] # NoRow =>
        /\ wrote'[q][k] > stats'[k]
        /\ \E i \in 1..done'[q] : KeyOf(q, i)' = k /\ batch'[q][i].count = wrote'[q][k]
      BY <1>1, <1>2, <1>3, <1>4 DEF WriteInv
<1>8. ASSUME NEW q \in Requests, status'[q] = "active", NEW i \in 1..done'[q]
      PROVE  batch'[q][i].count <= Visible(q, KeyOf(q, i))'
  <2>1. q # r
        BY <1>2, <1>8
  <2>2. i \in 1..Len(batch[q]) /\ i \in 1..done[q] /\ status[q] = "active"
        BY <1>2, <1>8, <2>1, BatchLen
  <2>3. KeyOf(q, i) \in Keys
        BY <2>2, BatchRows
  <2>4. batch[q][i].count <= Visible(q, KeyOf(q, i))
        BY <2>2 DEF WriteInv
  <2>5. Visible(q, KeyOf(q, i))' = Visible(q, KeyOf(q, i))
        BY <1>1, <1>3, <2>1 DEF Visible
  <2>6. QED BY <1>2, <2>1, <2>4, <2>5
<1>9. WriteInv'
      BY <1>7, <1>8 DEF WriteInv
<1>10. ValidInv'
      BY <1>2 DEF ValidInv
<1>11. SavedIsStored'
      BY <1>1, <1>2, <1>3 DEF SavedIsStored
<1>12. QED BY <1>5, <1>9, <1>10, <1>11

LEMMA ExecStep ==
  ASSUME IInv, NEW r \in Requests, Exec(r)
  PROVE  LockInv' /\ WriteInv' /\ ValidInv' /\ SavedIsStored'
<1> USE DEF IInv
<1> DEFINE key == NextKey(r)
           n == NextRow(r).count
           last == done[r] + 1
<1>1. /\ HasNext(r) /\ LockFree(r, key)
      /\ owner' = [owner EXCEPT ![key] = r]
      /\ wrote' = IF Replaces(Visible(r, key), n) THEN [wrote EXCEPT ![r][key] = n] ELSE wrote
      /\ done' = [done EXCEPT ![r] = @ + 1]
      /\ UNCHANGED <<stats, batch, date, status>>
      BY DEF Exec
<1>2. /\ last \in 1..Len(batch[r]) /\ key \in Keys /\ n \in Int
      /\ batch[r][last].count = n /\ KeyOf(r, last) = key
      BY <1>1, ExecFacts DEF Row, NextKey, NextRow
<1>3. /\ status[r] = "active" /\ done'[r] = last /\ done[r] \in Nat
      /\ \A q \in Requests \ {r} : done'[q] = done[q] /\ wrote'[q] = wrote[q]
      BY <1>1 DEF HasNext, TypeOK
<1>4. \A q \in Requests : \A i : KeyOf(q, i)' = KeyOf(q, i)
      BY <1>1 DEF KeyOf
<1>5. \A k \in Keys : owner'[k] = IF k = key THEN r ELSE owner[k]
      BY <1>1, <1>2 DEF TypeOK
<1>6. owner[key] \in {Nobody, r} /\ Nobody \notin Requests
      BY <1>1, StorageAssumption DEF LockFree
<1>7. /\ wrote'[r][key] = IF Replaces(Visible(r, key), n) THEN n ELSE wrote[r][key]
      /\ \A k \in Keys \ {key} : wrote'[r][k] = wrote[r][k]
      BY <1>1, <1>2 DEF TypeOK
<1>8. \A q \in Requests : q # r => \A i \in 1..done[q] : status[q] = "active" => KeyOf(q, i) # key
      BY <1>6 DEF LockInv
<1>9. LockInv'
  <2>1. \A q \in Requests, k \in Keys : owner'[k] = q => status'[q] = "active"
        BY <1>1, <1>3, <1>5 DEF LockInv
  <2>2. \A q \in Requests, k \in Keys : wrote'[q][k] # NoRow => owner'[k] = q
    <3> SUFFICES ASSUME NEW q \in Requests, NEW k \in Keys, wrote'[q][k] # NoRow
                 PROVE  owner'[k] = q
        OBVIOUS
    <3>1. CASE q = r /\ k = key
          BY <1>5, <3>1
    <3>2. CASE q # r \/ k # key
      <4>1. wrote[q][k] # NoRow
            BY <1>3, <1>7, <3>2
      <4>2. owner[k] = q
            BY <4>1 DEF LockInv
      <4>3. QED BY <1>5, <1>6, <3>2, <4>2
    <3>3. QED BY <3>1, <3>2
  <2>3. ASSUME NEW q \in Requests, status'[q] = "active", NEW i \in 1..done'[q]
        PROVE  owner'[KeyOf(q, i)'] = q
    <3>0. status[q] = "active"
          BY <1>1, <2>3
    <3>1. CASE q = r /\ i = last
          BY <1>2, <1>4, <1>5, <3>1
    <3>2. CASE q # r \/ i # last
      <4>1. i \in 1..done[q]
            BY <1>3, <2>3, <3>2
      <4>2. owner[KeyOf(q, i)] = q
            BY <3>0, <4>1 DEF LockInv
      <4>3. KeyOf(q, i) \in Keys
            BY <4>1, BatchRows, BatchLen
      <4>4. QED BY <1>4, <1>5, <1>6, <4>2, <4>3
    <3>3. QED BY <3>1, <3>2
  <2>4. ASSUME NEW q \in Requests, NEW k \in Keys, owner'[k] = q
        PROVE  \E i \in 1..done'[q] : KeyOf(q, i)' = k
    <3>1. CASE k = key
          BY <1>2, <1>3, <1>4, <1>5, <2>4, <3>1
    <3>2. CASE k # key
      <4>1. PICK i \in 1..done[q] : KeyOf(q, i) = k
            BY <1>5, <2>4, <3>2 DEF LockInv
      <4>2. i \in 1..done'[q]
            BY <1>3, <4>1
      <4>3. QED BY <1>4, <4>1, <4>2
    <3>3. QED BY <3>1, <3>2
  <2>5. QED BY <2>1, <2>2, <2>3, <2>4 DEF LockInv
<1>10. \A k \in Keys : stats[k] \in Int /\ \A q \in Requests : wrote[q][k] \in Int
      BY StorageAssumption DEF TypeOK, Clicks, NoRow
<1>11. ASSUME NEW q \in Requests, NEW k \in Keys, wrote'[q][k] # NoRow
       PROVE  /\ wrote'[q][k] > stats'[k]
              /\ \E i \in 1..done'[q] : KeyOf(q, i)' = k /\ batch'[q][i].count = wrote'[q][k]
  <2>1. CASE q = r /\ k = key /\ Replaces(Visible(r, key), n)
    <3>1. wrote'[q][k] = n
          BY <1>7, <2>1
    <3>2. stats[key] <= Visible(r, key)
          BY <1>2, <1>10 DEF Visible, WriteInv
    <3>3. Visible(r, key) < n /\ Visible(r, key) \in Int
          BY <1>2, <1>10, <2>1 DEF Replaces, Visible
    <3>4. stats[key] < n
          BY <1>2, <1>10, <3>2, <3>3
    <3>5. last \in 1..done'[q]
          BY ONLY <1>3, <2>1
    <3>6. stats'[k] = stats[key] /\ stats[key] \in Int
          BY <1>1, <1>2, <1>10, <2>1
    <3>7. wrote'[q][k] > stats'[k]
          BY ONLY <1>2, <3>1, <3>4, <3>6
    <3>8. \E i \in 1..done'[q] : KeyOf(q, i)' = k /\ batch'[q][i].count = wrote'[q][k]
      <4>1. KeyOf(q, last) = k /\ batch[q][last].count = n
            BY <1>2, <2>1
      <4>2. PICK j \in 1..done'[q] : j = last
            BY <3>5
      <4>3. KeyOf(q, j)' = k /\ batch'[q][j].count = n
            BY <1>1, <1>4, <4>1, <4>2
      <4>4. QED BY <3>1, <4>2, <4>3
    <3>9. QED BY <3>7, <3>8
  <2>2. CASE ~(q = r /\ k = key /\ Replaces(Visible(r, key), n))
    <3>1. wrote'[q][k] = wrote[q][k]
      <4>1. CASE q # r
            BY <1>3, <4>1
      <4>2. CASE q = r /\ k # key
            BY ONLY <1>7, <4>2, k \in Keys
      <4>3. CASE q = r /\ k = key /\ ~Replaces(Visible(r, key), n)
            BY ONLY <1>7, <4>3
      <4>4. QED BY <2>2, <4>1, <4>2, <4>3
    <3>2. PICK i \in 1..done[q] : KeyOf(q, i) = k /\ batch[q][i].count = wrote[q][k]
          BY <1>11, <3>1 DEF WriteInv
    <3>3. i \in 1..done'[q]
          BY <1>3, <3>2
    <3>4. wrote[q][k] > stats[k]
          BY <1>11, <3>1 DEF WriteInv
    <3>5. QED BY <1>1, <1>4, <3>1, <3>2, <3>3, <3>4
  <2>3. QED BY <2>1, <2>2
<1>12. ASSUME NEW q \in Requests, status'[q] = "active", NEW i \in 1..done'[q]
       PROVE  batch'[q][i].count <= Visible(q, KeyOf(q, i))'
  <2>0. /\ status[q] = "active" /\ batch'[q] = batch[q] /\ KeyOf(q, i)' = KeyOf(q, i)
        BY <1>1, <1>4, <1>12
  <2>1. \A k \in Keys : Visible(q, k) \in Int
        BY <1>10 DEF Visible
  <2>2. ASSUME NEW k \in Keys
        PROVE  /\ Visible(q, k) <= IF wrote'[q][k] # NoRow THEN wrote'[q][k] ELSE stats[k]
               /\ q = r /\ k = key => n <= IF wrote'[q][k] # NoRow THEN wrote'[q][k] ELSE stats[k]
    <3>1. CASE q = r /\ k = key /\ Replaces(Visible(r, key), n)
      <4>1. wrote'[q][k] = n /\ n # NoRow
        <5>1. Visible(r, key) \in Clicks
              BY <1>2 DEF TypeOK, Visible
        <5>2. Visible(r, key) \in Int /\ NoRow <= Visible(r, key)
              BY ONLY <5>1, StorageAssumption DEF Clicks, NoRow, StorageAssumption
        <5>3. Visible(r, key) < n
              BY <3>1 DEF Replaces
        <5>4. n # NoRow
              BY ONLY <1>2, <5>2, <5>3 DEF NoRow
        <5>5. QED BY <1>7, <3>1, <5>4
      <4>2. QED BY <1>2, <2>1, <3>1, <4>1 DEF Replaces
    <3>2. CASE ~(q = r /\ k = key /\ Replaces(Visible(r, key), n))
      <4>1. wrote'[q][k] = wrote[q][k]
            BY <1>3, <1>7, <3>2
      <4>2. QED BY <1>2, <2>1, <3>2, <4>1 DEF Replaces, Visible
    <3>3. QED BY <3>1, <3>2
  <2>3. KeyOf(q, i) \in Keys /\ batch[q][i].count \in Int
    <3>1. i \in 1..Len(batch[q])
          BY <1>2, <1>3, <1>12, BatchLen
    <3>2. QED BY <3>1, BatchRows DEF Row
  <2>4. Visible(q, KeyOf(q, i))' = IF wrote'[q][KeyOf(q, i)] # NoRow
                                    THEN wrote'[q][KeyOf(q, i)] ELSE stats[KeyOf(q, i)]
        BY <1>1, <2>0 DEF Visible
  <2>5. /\ Visible(q, KeyOf(q, i)) <= Visible(q, KeyOf(q, i))'
        /\ q = r /\ KeyOf(q, i) = key => n <= Visible(q, KeyOf(q, i))'
        BY <2>2, <2>3, <2>4
  <2>6. Visible(q, KeyOf(q, i))' \in Int
    <3>1. wrote'[q][KeyOf(q, i)] \in Int
          BY <1>2, <1>3, <1>7, <1>10, <2>3
    <3>2. QED BY <1>10, <2>3, <2>4, <3>1
  <2>7. CASE q = r /\ i = last
        BY <1>2, <2>0, <2>5, <2>7
  <2>8. CASE q # r \/ i # last
    <3>1. i \in 1..done[q]
          BY <1>3, <1>12, <2>8
    <3>2. batch[q][i].count <= Visible(q, KeyOf(q, i))
          BY <2>0, <3>1 DEF WriteInv
    <3>3. QED BY <2>0, <2>1, <2>3, <2>5, <2>6, <3>2
  <2>9. QED BY <2>7, <2>8
<1>13. WriteInv'
      BY <1>11, <1>12 DEF WriteInv
<1>14. ValidInv' /\ SavedIsStored'
      BY <1>1, <1>4 DEF ValidInv, SavedIsStored
<1>15. QED BY <1>9, <1>13, <1>14

(* A transaction that has ended, in whatever way, leaves the others as they *)
(* were: its locks are free, its writes are gone, and a stored count has    *)
(* grown only where nobody else had written.                                *)
LEMMA EndStep ==
  ASSUME IInv, NEW r \in Requests, status[r] = "active",
         status' = [status EXCEPT ![r] = status'[r]],
         status'[r] \in {"saved", "failed"},
         wrote' = [wrote EXCEPT ![r] = NoWrites],
         owner' = [k \in Keys |-> IF owner[k] = r THEN Nobody ELSE owner[k]],
         UNCHANGED <<batch, date, done>>,
         \A k \in Keys : stats'[k] = stats[k] \/ stats'[k] = Visible(r, k)
  PROVE  /\ LockInv' /\ WriteInv' /\ ValidInv'
         /\ \A k \in Keys : stats[k] <= stats'[k] /\ stats'[k] \in Int
<1> USE DEF IInv
<1>1. /\ \A q \in Requests \ {r} : status'[q] = status[q] /\ wrote'[q] = wrote[q]
      /\ \A k \in Keys : wrote'[r][k] = NoRow
      /\ \A k \in Keys : owner'[k] = IF owner[k] = r THEN Nobody ELSE owner[k]
      BY DEF TypeOK, NoWrites
<1>2. \A q \in Requests : \A i : KeyOf(q, i)' = KeyOf(q, i)
      BY DEF KeyOf
<1>3. Nobody \notin Requests
      BY StorageAssumption
<1>4. status'[r] # "active"
      OBVIOUS
<1>5. \A q \in Requests : \A i \in 1..done[q] : KeyOf(q, i) \in Keys
  <2> SUFFICES ASSUME NEW q \in Requests, NEW i \in 1..done[q] PROVE KeyOf(q, i) \in Keys
      OBVIOUS
  <2>1. i \in 1..Len(batch[q])
        BY BatchLen
  <2>2. QED BY <2>1, BatchRows
<1>6. LockInv'
  <2>1. \A q \in Requests, k \in Keys : owner'[k] = q => q # r /\ owner[k] = q
        BY <1>1, <1>3
  <2>2. \A q \in Requests, k \in Keys : owner'[k] = q => status'[q] = "active"
        BY <1>1, <2>1 DEF LockInv
  <2>3. \A q \in Requests, k \in Keys : wrote'[q][k] # NoRow => owner'[k] = q
        BY <1>1 DEF LockInv
  <2>4. ASSUME NEW q \in Requests, status'[q] = "active", NEW i \in 1..done'[q]
        PROVE  owner'[KeyOf(q, i)'] = q
    <3>1. q # r /\ status[q] = "active" /\ i \in 1..done[q]
          BY <1>1, <1>4, <2>4
    <3>2. owner[KeyOf(q, i)] = q /\ KeyOf(q, i) \in Keys
          BY <1>5, <3>1 DEF LockInv
    <3>3. QED BY <1>1, <1>2, <3>1, <3>2
  <2>5. ASSUME NEW q \in Requests, NEW k \in Keys, owner'[k] = q
        PROVE  \E i \in 1..done'[q] : KeyOf(q, i)' = k
    <3>1. PICK i \in 1..done[q] : KeyOf(q, i) = k
          BY <2>1, <2>5 DEF LockInv
    <3>2. QED BY <1>2, <3>1
  <2>6. QED BY <2>2, <2>3, <2>4, <2>5 DEF LockInv
<1>7. \A k \in Keys : stats[k] \in Int /\ \A q \in Requests : wrote[q][k] \in Int
      BY StorageAssumption DEF TypeOK, Clicks, NoRow
<1>8. \A k \in Keys : stats[k] <= stats'[k] /\ stats'[k] \in Int
  <2> SUFFICES ASSUME NEW k \in Keys PROVE stats[k] <= stats'[k] /\ stats'[k] \in Int
      OBVIOUS
  <2>1. stats[k] <= Visible(r, k) /\ Visible(r, k) \in Int
        BY <1>7 DEF Visible, WriteInv
  <2>2. QED BY <1>7, <2>1
<1>9. \A q \in Requests, k \in Keys : q # r /\ wrote[q][k] # NoRow => stats'[k] = stats[k]
  <2> SUFFICES ASSUME NEW q \in Requests, NEW k \in Keys, q # r, wrote[q][k] # NoRow
               PROVE  stats'[k] = stats[k]
      OBVIOUS
  <2>1. wrote[r][k] = NoRow
        BY DEF LockInv
  <2>2. QED BY <2>1 DEF Visible
<1>10. ASSUME NEW q \in Requests, NEW k \in Keys, wrote'[q][k] # NoRow
       PROVE  /\ wrote'[q][k] > stats'[k]
              /\ \E i \in 1..done'[q] : KeyOf(q, i)' = k /\ batch'[q][i].count = wrote'[q][k]
  <2>1. q # r /\ wrote'[q] = wrote[q]
        BY <1>1, <1>10
  <2>2. PICK i \in 1..done[q] : KeyOf(q, i) = k /\ batch[q][i].count = wrote[q][k]
        BY <1>10, <2>1 DEF WriteInv
  <2>3. wrote[q][k] > stats[k] /\ stats'[k] = stats[k]
        BY <1>9, <1>10, <2>1 DEF WriteInv
  <2>4. QED BY <1>2, <2>1, <2>2, <2>3
<1>11. ASSUME NEW q \in Requests, status'[q] = "active", NEW i \in 1..done'[q]
       PROVE  batch'[q][i].count <= Visible(q, KeyOf(q, i))'
  <2>1. q # r /\ status[q] = "active" /\ i \in 1..done[q] /\ wrote'[q] = wrote[q]
        BY <1>1, <1>4, <1>11
  <2>2. PICK k \in Keys : k = KeyOf(q, i) /\ k = KeyOf(q, i)'
        BY <1>2, <1>5, <2>1
  <2>3. batch[q][i].count <= Visible(q, k)
        BY <2>1, <2>2 DEF WriteInv
  <2>4. Visible(q, KeyOf(q, i))' = IF wrote[q][k] # NoRow THEN wrote[q][k] ELSE stats'[k]
        BY <2>1, <2>2 DEF Visible
  <2>5. Visible(q, k) <= Visible(q, KeyOf(q, i))' /\ Visible(q, k) \in Int
        BY <1>7, <1>8, <2>4 DEF Visible
  <2>6. batch[q][i].count \in Int
    <3>1. i \in 1..Len(batch[q])
          BY <2>1, BatchLen
    <3>2. QED BY <3>1, BatchRows DEF Row
  <2>7. Visible(q, KeyOf(q, i))' \in Int
        BY <1>7, <1>8, <2>4
  <2>8. QED BY <2>3, <2>5, <2>6, <2>7
<1>12. WriteInv'
       BY <1>10, <1>11 DEF WriteInv
<1>13. ValidInv'
       BY <1>1, <1>4 DEF ValidInv
<1>14. QED BY <1>6, <1>8, <1>12, <1>13

(* A count that is stored stays stored: an answered 204 stays true. *)
LEMMA SavedStays ==
  ASSUME IInv, NEW q \in Requests, status[q] = "saved",
         \A k \in Keys : stats[k] <= stats'[k] /\ stats'[k] \in Int,
         NEW i \in DOMAIN batch[q]
  PROVE  batch[q][i].count <= stats'[KeyOf(q, i)]
<1>1. Len(batch[q]) \in Nat /\ batch[q] \in Seq(Row)
  <2>1. batch[q] \in Batches \cup {<<>>}
        BY DEF IInv, TypeOK
  <2>2. QED BY <2>1, EmptyBatch, StorageAssumption
<1>2. i \in 1..Len(batch[q])
      BY <1>1
<1>3. batch[q][i].count \in Int /\ KeyOf(q, i) \in Keys
      BY <1>2, BatchRows DEF IInv, Row
<1>4. stats[KeyOf(q, i)] \in Int
      BY <1>3, StorageAssumption DEF IInv, TypeOK, Clicks, NoRow
<1>5. batch[q][i].count <= stats[KeyOf(q, i)]
      BY DEF IInv, SavedIsStored
<1>6. stats[KeyOf(q, i)] <= stats'[KeyOf(q, i)] /\ stats'[KeyOf(q, i)] \in Int
      BY <1>3
<1>7. QED BY <1>3, <1>4, <1>5, <1>6

LEMMA RollbackStep ==
  ASSUME IInv, NEW r \in Requests, status[r] = "active", Rollback(r)
  PROVE  LockInv' /\ WriteInv' /\ ValidInv' /\ SavedIsStored'
<1>1. /\ status' = [status EXCEPT ![r] = "failed"] /\ status'[r] = "failed"
      /\ wrote' = [wrote EXCEPT ![r] = NoWrites]
      /\ owner' = [k \in Keys |-> IF owner[k] = r THEN Nobody ELSE owner[k]]
      /\ UNCHANGED <<stats, batch, date, done>>
      BY DEF Rollback, Unlocked, IInv, TypeOK
<1>2. LockInv' /\ WriteInv' /\ ValidInv'
      BY <1>1, EndStep
<1>3. SavedIsStored'
      BY <1>1 DEF IInv, SavedIsStored, KeyOf, TypeOK
<1>4. QED BY <1>2, <1>3

LEMMA CommitStep ==
  ASSUME IInv, NEW r \in Requests, Commit(r)
  PROVE  LockInv' /\ WriteInv' /\ ValidInv' /\ SavedIsStored'
<1>1. PICK answer \in {"saved", "failed"} : status' = [status EXCEPT ![r] = answer]
      BY DEF Commit
<1>2. /\ status[r] = "active" /\ done[r] = Len(batch[r])
      /\ status' = [status EXCEPT ![r] = status'[r]] /\ status'[r] \in {"saved", "failed"}
      /\ \A q \in Requests \ {r} : status'[q] = status[q]
      BY <1>1 DEF Commit, IInv, TypeOK
<1>3. /\ wrote' = [wrote EXCEPT ![r] = NoWrites]
      /\ owner' = [k \in Keys |-> IF owner[k] = r THEN Nobody ELSE owner[k]]
      /\ UNCHANGED <<batch, date, done>>
      /\ \A k \in Keys : stats'[k] = Visible(r, k)
      BY DEF Commit, Stored
<1>4. /\ LockInv' /\ WriteInv' /\ ValidInv'
      /\ \A k \in Keys : stats[k] <= stats'[k] /\ stats'[k] \in Int
      BY <1>2, <1>3, EndStep
<1>5. ASSUME NEW q \in Requests, status'[q] = "saved", NEW i \in DOMAIN batch[q]
      PROVE  batch[q][i].count <= stats'[KeyOf(q, i)]
  <2>1. CASE q = r
    <3>1. batch[q] \in Seq(Row)
      <4>1. batch[q] \in Batches \cup {<<>>}
            BY DEF IInv, TypeOK
      <4>2. QED BY <4>1, EmptyBatch, StorageAssumption
    <3>2. i \in 1..done[q] /\ i \in 1..Len(batch[q])
          BY <1>2, <2>1, <3>1
    <3>3. batch[q][i].count <= Visible(q, KeyOf(q, i))
          BY <1>2, <2>1, <3>2 DEF IInv, WriteInv
    <3>4. KeyOf(q, i) \in Keys
          BY <3>2, BatchRows DEF IInv
    <3>5. QED BY <1>3, <2>1, <3>3, <3>4
  <2>2. CASE q # r
        BY <1>2, <1>4, <1>5, <2>2, SavedStays
  <2>3. QED BY <2>1, <2>2
<1>6. SavedIsStored'
  <2>1. \A q \in Requests : \A i : KeyOf(q, i)' = KeyOf(q, i)
        BY <1>3 DEF KeyOf
  <2>2. QED BY <1>3, <1>5, <2>1 DEF SavedIsStored
<1>7. QED BY <1>4, <1>6

LEMMA AnswerStep ==
  ASSUME IInv, NEW r \in Requests, Answer(r)
  PROVE  LockInv' /\ WriteInv' /\ ValidInv' /\ SavedIsStored'
<1> USE DEF IInv
<1>1. /\ status[r] # "active" /\ status'[r] = "idle" /\ UNCHANGED <<stats, wrote, owner>>
      /\ \A q \in Requests \ {r} : /\ status'[q] = status[q] /\ batch'[q] = batch[q]
                                   /\ done'[q] = done[q] /\ date'[q] = date[q]
      BY DEF Answer, TypeOK
<1>2. \A q \in Requests \ {r} : \A i : KeyOf(q, i)' = KeyOf(q, i)
      BY <1>1 DEF KeyOf
<1>3. \A k \in Keys : owner[k] # r /\ wrote[r][k] = NoRow
      BY <1>1 DEF LockInv
<1>4. LockInv'
      BY <1>1, <1>2, <1>3 DEF LockInv
<1>5. ASSUME NEW q \in Requests, NEW k \in Keys, wrote'[q][k] # NoRow
      PROVE  /\ wrote'[q][k] > stats'[k]
             /\ \E i \in 1..done'[q] : KeyOf(q, i)' = k /\ batch'[q][i].count = wrote'[q][k]
      BY <1>1, <1>2, <1>3, <1>5 DEF WriteInv
<1>6. ASSUME NEW q \in Requests, status'[q] = "active", NEW i \in 1..done'[q]
      PROVE  batch'[q][i].count <= Visible(q, KeyOf(q, i))'
  <2>1. q # r /\ status[q] = "active" /\ i \in 1..done[q]
        BY <1>1, <1>6
  <2>2. Visible(q, KeyOf(q, i))' = Visible(q, KeyOf(q, i))
        BY <1>1, <1>2, <2>1 DEF Visible
  <2>3. batch[q][i].count <= Visible(q, KeyOf(q, i))
        BY <2>1 DEF WriteInv
  <2>4. QED BY <1>1, <2>1, <2>2, <2>3
<1>7. WriteInv'
      BY <1>5, <1>6 DEF WriteInv
<1>8. ValidInv' /\ SavedIsStored'
      BY <1>1, <1>2 DEF ValidInv, SavedIsStored
<1>9. QED BY <1>4, <1>7, <1>8

LEMMA InvStep == IInv /\ [Next]_vars => IInv'
<1> SUFFICES ASSUME IInv, [Next]_vars PROVE IInv'
    OBVIOUS
<1>1. TypeOK'
      BY TypeStep DEF IInv
<1>2. CASE Next
  <2>1. PICK r \in Requests : \/ \E b \in Batches, d \in Dates : Receive(r, b, d)
                              \/ Transact(r)
                              \/ Interrupted(r)
                              \/ DeadlockDetected(r)
                              \/ Answer(r)
        BY <1>2 DEF Next
  <2>2. CASE \E b \in Batches, d \in Dates : Receive(r, b, d)
        BY <1>1, <2>2, ReceiveStep DEF IInv
  <2>3. CASE Exec(r)
        BY <1>1, <2>3, ExecStep DEF IInv
  <2>4. CASE ExecOverflows(r) \/ Interrupted(r) \/ DeadlockDetected(r)
    <3>1. LockInv' /\ WriteInv' /\ ValidInv' /\ SavedIsStored'
          BY <2>4, RollsBack, RollbackStep
    <3>2. QED BY <1>1, <3>1 DEF IInv
  <2>5. CASE Commit(r)
        BY <1>1, <2>5, CommitStep DEF IInv
  <2>6. CASE Answer(r)
        BY <1>1, <2>6, AnswerStep DEF IInv
  <2>7. QED BY <2>1, <2>2, <2>3, <2>4, <2>5, <2>6 DEF Transact
<1>3. CASE UNCHANGED vars
  <2>1. LockInv'
        BY <1>3 DEF IInv, LockInv, KeyOf, vars
  <2>2. WriteInv'
        BY <1>3 DEF IInv, WriteInv, KeyOf, Visible, vars
  <2>3. ValidInv' /\ SavedIsStored'
        BY <1>3 DEF IInv, ValidInv, SavedIsStored, KeyOf, vars
  <2>4. QED BY <1>1, <2>1, <2>2, <2>3 DEF IInv
<1>4. QED BY <1>2, <1>3

LEMMA Inductive == Spec => []IInv
<1>1. QED BY InitIInv, InvStep, PTL DEF Spec

-----------------------------------------------------------------------------
(* Every count of a batch that was answered 204 is in the table, or a      *)
(* larger one is: SaveStats, whatever transactions run beside it.          *)
THEOREM SavedCountsStay == Spec => []SavedIsStored
<1>1. IInv => SavedIsStored
      BY DEF IInv
<1>2. QED BY Inductive, <1>1, PTL

(* Only a running transaction keeps a row from others, and only a row it   *)
(* has upserted: the deferred Rollback and Commit leave no lock behind.    *)
THEOREM NoLockLeft == Spec => []LocksHeld
<1>1. IInv => LocksHeld
  <2> SUFFICES ASSUME IInv, NEW k \in Keys, owner[k] # Nobody
               PROVE  /\ status[owner[k]] = "active"
                      /\ \E i \in 1..done[owner[k]] : KeyOf(owner[k], i) = k
      BY DEF LocksHeld
  <2>1. owner[k] \in Requests
        BY DEF IInv, TypeOK
  <2>2. QED BY <2>1 DEF IInv, LockInv
<1>2. QED BY Inductive, <1>1, PTL

-----------------------------------------------------------------------------
(* The refinement: a commit saves the batch in one step of the abstract    *)
(* table, and nothing else touches it.                                     *)
LEMMA CommitSaves ==
  ASSUME IInv, NEW r \in Requests, Commit(r)
  PROVE  Table!Save(batch[r], date[r]) /\ batch[r] \in Batches /\ date[r] \in Dates
<1> USE DEF IInv
<1>1. status[r] = "active" /\ done[r] = Len(batch[r]) /\ stats' = [k \in Keys |-> Visible(r, k)]
      BY DEF Commit, Stored
<1>2. batch[r] \in Batches /\ date[r] \in Dates
      BY <1>1 DEF TypeOK, ValidInv, Valid
<1>3. batch[r] \in Seq(Row)
      BY <1>2, StorageAssumption
<1>4. \A j \in DOMAIN batch[r] : /\ j \in 1..done[r]
                                 /\ batch[r][j].count \in Int
                                 /\ batch[r][j].count <= Visible(r, KeyOf(r, j))
  <2> SUFFICES ASSUME NEW j \in DOMAIN batch[r]
               PROVE  /\ j \in 1..done[r]
                      /\ batch[r][j].count \in Int
                      /\ batch[r][j].count <= Visible(r, KeyOf(r, j))
      OBVIOUS
  <2>1. j \in 1..Len(batch[r]) /\ j \in 1..done[r]
        BY <1>1, <1>3
  <2>2. QED BY <1>1, <2>1, BatchRows DEF WriteInv, Row
<1>5. ASSUME NEW k \in Keys
      PROVE  /\ stats[k] \in Int /\ stats[k] <= Visible(r, k)
             /\ Visible(r, k) # stats[k] =>
                  \E j \in DOMAIN batch[r] :
                    KeyOf(r, j) = k /\ Visible(r, k) = batch[r][j].count
  <2>1. stats[k] \in Int /\ wrote[r][k] \in Int
        BY StorageAssumption DEF TypeOK, Clicks, NoRow
  <2>2. CASE wrote[r][k] = NoRow
        BY <2>1, <2>2 DEF Visible
  <2>3. CASE wrote[r][k] # NoRow
    <3>1. wrote[r][k] > stats[k] /\ Visible(r, k) = wrote[r][k]
          BY <2>3 DEF WriteInv, Visible
    <3>2. PICK j \in 1..done[r] : KeyOf(r, j) = k /\ batch[r][j].count = wrote[r][k]
          BY <2>3 DEF WriteInv
    <3>3. j \in DOMAIN batch[r]
          BY <1>1, <1>3, <3>2
    <3>4. QED BY <2>1, <3>1, <3>2, <3>3
  <2>4. QED BY <2>2, <2>3
<1>6. ASSUME NEW k \in Keys
      PROVE  /\ stats'[k] \in Table!CountsFor(batch[r], date[r], k) \cup {stats[k]}
             /\ \A n \in Table!CountsFor(batch[r], date[r], k) \cup {stats[k]} : n <= stats'[k]
  <2>1. stats'[k] = Visible(r, k)
        BY <1>1
  <2>2. stats'[k] \in Table!CountsFor(batch[r], date[r], k) \cup {stats[k]}
        BY <1>5, <2>1 DEF Table!CountsFor, KeyOf
  <2>3. ASSUME NEW n \in Table!CountsFor(batch[r], date[r], k) PROVE n <= stats'[k]
    <3>1. PICK j \in DOMAIN batch[r] : k = KeyOf(r, j) /\ n = batch[r][j].count
          BY <2>3 DEF Table!CountsFor, KeyOf
    <3>2. QED BY <1>4, <2>1, <3>1
  <2>4. stats[k] <= stats'[k]
        BY <1>5, <2>1
  <2>5. QED BY <2>2, <2>3, <2>4
<1>7. stats' \in [Keys -> {stats[k] : k \in Keys} \cup {batch[r][i].count : i \in DOMAIN batch[r]}]
  <2>1. \A k \in Keys : Visible(r, k) \in {stats[x] : x \in Keys}
                                         \cup {batch[r][i].count : i \in DOMAIN batch[r]}
        BY <1>5
  <2>2. QED BY <1>1, <2>1
<1>8. Keys = Table!Keys
      BY DEF Keys, Table!Keys
<1>9. Table!Save(batch[r], date[r])
      BY <1>6, <1>7, <1>8 DEF Table!Save
<1>10. QED BY <1>2, <1>9

LEMMA OthersStutter ==
  ASSUME NEW r \in Requests,
         \/ \E b \in Batches, d \in Dates : Receive(r, b, d)
         \/ Exec(r) \/ ExecOverflows(r) \/ Interrupted(r) \/ DeadlockDetected(r)
         \/ Answer(r)
  PROVE  UNCHANGED stats
  BY RollsBack DEF Receive, Exec, Rollback, Answer

LEMMA StepSaves == IInv /\ [Next]_vars => [Table!Next]_stats
<1> SUFFICES ASSUME IInv, [Next]_vars PROVE [Table!Next]_stats
    OBVIOUS
<1>1. ASSUME NEW r \in Requests, Commit(r) PROVE Table!Next
      BY <1>1, CommitSaves DEF Table!Next
<1>2. CASE UNCHANGED vars
      BY <1>2 DEF vars
<1>3. QED BY <1>1, <1>2, OthersStutter DEF Next, Transact

(* The requests together are one table with an atomic, monotone Save.      *)
THEOREM RefinesTable == Spec => ImplementsTable
<1>1. Init => Table!Init
      BY DEF Init, NoWrites, Table!Init, Keys, Table!Keys, NoRow, Table!NoRow
<1>2. QED BY Inductive, <1>1, StepSaves, PTL DEF Spec, ImplementsTable, Table!Spec

(* What the table promises about a count. *)
LEMMA SaveGrows ==
  ASSUME TypeOK, [Table!Next]_stats, NEW k \in Keys
  PROVE  stats[k] <= stats'[k]
<1>1. CASE Table!Next
  <2>1. PICK b \in Batches, d \in Dates : Table!Save(b, d)
        BY <1>1 DEF Table!Next
  <2>2. k \in Table!Keys
        BY DEF Keys, Table!Keys
  <2>3. stats[k] \in Table!CountsFor(b, d, k) \cup {stats[k]}
        OBVIOUS
  <2>4. QED BY <2>1, <2>2, <2>3 DEF Table!Save
<1>2. CASE UNCHANGED stats
  <2>1. stats[k] \in Int
        BY StorageAssumption DEF TypeOK, Clicks, NoRow
  <2>2. QED BY <1>2, <2>1
<1>3. QED BY <1>1, <1>2

(* repository.go:21: no transaction ever lowers a stored count. *)
THEOREM CountsOnlyGrow == Spec => [][\A k \in Keys : stats[k] <= stats'[k]]_stats
<1>1. IInv /\ [Next]_vars => [\A k \in Keys : stats[k] <= stats'[k]]_stats
      BY StepSaves, SaveGrows DEF IInv
<1>2. QED BY Inductive, <1>1, PTL DEF Spec
=============================================================================
