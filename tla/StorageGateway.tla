--------------------------- MODULE StorageGateway ---------------------------
(***************************************************************************)
(* StorageGateway's write path: POST /stats (handlers.go), SaveStats       *)
(* (service.go), UpsertStats (repository.go) and the table of migration    *)
(* 002.  Requests run concurrently, each in a transaction of its own that  *)
(* upserts the rows of its batch one by one, in the order the client sent  *)
(* them.                                                                   *)
(*                                                                         *)
(* PostgreSQL (external) is READ COMMITTED: an upsert waits for the row's  *)
(* lock, sees the row's latest committed version or the transaction's own, *)
(* and keeps the lock until the transaction ends, even when the WHERE      *)
(* clause leaves the row as it is.  It aborts a transaction of a cycle of  *)
(* waiting ones.  A row that does not exist is below every count, so that  *)
(* INSERT and DO UPDATE ... WHERE clicks < EXCLUDED.clicks are one case.   *)
(***************************************************************************)
EXTENDS Integers, Sequences

CONSTANTS Requests,    \* requests that can be in progress at a time
          AuthorIds,   \* the author ids of the batches, sets of integers
          Dates,       \* the dates of the batches, days numbered
          Batches,     \* the bodies: sequences of [author, count]
          Today,       \* the gateway's current day
          MaxInteger,  \* the largest value of an INTEGER column
          Nobody

NoRow == -1
Keys == AuthorIds \X Dates
Row  == [author : AuthorIds, count : Int]

ASSUME StorageAssumption ==
  /\ AuthorIds \subseteq Int /\ Dates \subseteq Int /\ Dates # {}
  /\ Batches \subseteq Seq(Row)
  /\ Today \in Int /\ MaxInteger \in Nat
  /\ Nobody \notin Requests

VARIABLES stats,    \* the committed table: the clicks of each key, or NoRow
          batch,    \* the rows of each request
          date,     \* and its date
          done,     \* rows its transaction has upserted
          wrote,    \* what the transaction has written and not committed
          owner,    \* the transaction that holds the lock of each row
          status    \* idle, active, or what the client is answered

vars == <<stats, batch, date, done, wrote, owner, status>>

Clicks == 0..MaxInteger \cup {NoRow}

TypeOK == /\ stats \in [Keys -> Clicks]
          /\ batch \in [Requests -> Batches \cup {<<>>}]
          /\ date \in [Requests -> Dates]
          /\ done \in [Requests -> Nat]
          /\ \A r \in Requests : done[r] <= Len(batch[r])
          /\ wrote \in [Requests -> [Keys -> Clicks]]
          /\ owner \in [Keys -> Requests \cup {Nobody}]
          /\ status \in [Requests -> {"idle", "active", "saved", "rejected", "failed"}]

NoWrites == [k \in Keys |-> NoRow]
NoDate == CHOOSE d \in Dates : TRUE

Init == /\ stats = NoWrites
        /\ batch = [r \in Requests |-> <<>>]
        /\ date = [r \in Requests |-> NoDate]
        /\ done = [r \in Requests |-> 0]
        /\ wrote = [r \in Requests |-> NoWrites]
        /\ owner = [k \in Keys |-> Nobody]
        /\ status = [r \in Requests |-> "idle"]

-----------------------------------------------------------------------------
(* The request is read and validated.                                      *)

\* validateStats, and the check for a date in the future.
Valid(b, d) == /\ b # <<>>
               /\ \A i \in DOMAIN b : b[i].author > 0 /\ b[i].count >= 0
               /\ d <= Today

\* 400, or the transaction begins.
Receive(r, b, d) ==
  /\ status[r] = "idle"
  /\ status' = [status EXCEPT ![r] = IF Valid(b, d) THEN "active" ELSE "rejected"]
  /\ batch' = [batch EXCEPT ![r] = b]
  /\ date' = [date EXCEPT ![r] = d]
  /\ done' = [done EXCEPT ![r] = 0]
  /\ UNCHANGED <<stats, wrote, owner>>

-----------------------------------------------------------------------------
(* The transaction.                                                        *)

NextRow(r) == batch[r][done[r] + 1]
KeyOf(r, i) == <<batch[r][i].author, date[r]>>
NextKey(r) == KeyOf(r, done[r] + 1)
HasNext(r) == status[r] = "active" /\ done[r] < Len(batch[r])

\* The row as transaction r sees it.
Visible(r, k) == IF wrote[r][k] # NoRow THEN wrote[r][k] ELSE stats[k]

Fits_Author(row) == row.author <= MaxInteger     \* mutant: clicks is not checked

\* Both columns are 32-bit INTEGERs; the code's values are int64.
Fits(row) == row.author <= MaxInteger /\ row.count <= MaxInteger

Replaces_Always(old, new) == TRUE      \* mutant: no WHERE clause
Replaces(old, new) == old < new        \* WHERE stats.clicks < EXCLUDED.clicks

LockFree(r, k) == owner[k] \in {Nobody, r}

\* One ExecContext of the prepared upsert.
Exec(r) ==
  /\ HasNext(r)
  /\ Fits(NextRow(r))
  /\ LockFree(r, NextKey(r))
  /\ owner' = [owner EXCEPT ![NextKey(r)] = r]
  /\ wrote' = IF Replaces(Visible(r, NextKey(r)), NextRow(r).count)
              THEN [wrote EXCEPT ![r][NextKey(r)] = NextRow(r).count]
              ELSE wrote
  /\ done' = [done EXCEPT ![r] = @ + 1]
  /\ UNCHANGED <<stats, batch, date, status>>

Unlocked_Kept(r) == owner              \* mutant: the deferred Rollback is missing
Unlocked(r) == [k \in Keys |-> IF owner[k] = r THEN Nobody ELSE owner[k]]

\* The deferred Rollback: 500.
Rollback(r) == /\ status' = [status EXCEPT ![r] = "failed"]
               /\ wrote' = [wrote EXCEPT ![r] = NoWrites]
               /\ owner' = Unlocked(r)
               /\ UNCHANGED <<stats, batch, date, done>>

\* "integer out of range"
ExecOverflows(r) == HasNext(r) /\ ~Fits(NextRow(r)) /\ Rollback(r)

\* The client is gone or the connection is lost, before the commit.
Interrupted(r) == status[r] = "active" /\ Rollback(r)

WaitsFor(r, s) == /\ HasNext(r)
                  /\ Fits(NextRow(r))
                  /\ r # s
                  /\ owner[NextKey(r)] = s

\* PostgreSQL aborts a transaction that is on a cycle of waiting ones.
DeadlockDetected(r) ==
  /\ \E S \in SUBSET Requests :
       /\ r \in S
       /\ \A x \in S : \E y \in S : WaitsFor(x, y)
       /\ \A y \in S : \E x \in S : WaitsFor(x, y)
  /\ Rollback(r)

Stored_FirstRow(r) ==                  \* mutant: committed after the first row
  [k \in Keys |-> IF k = KeyOf(r, 1) THEN Visible(r, k) ELSE stats[k]]
Stored(r) == [k \in Keys |-> Visible(r, k)]

\* The answer is 204; it is 500 when the connection breaks after the server
\* has committed.
Commit(r) ==
  /\ status[r] = "active"
  /\ done[r] = Len(batch[r])
  /\ stats' = Stored(r)
  /\ wrote' = [wrote EXCEPT ![r] = NoWrites]
  /\ owner' = [k \in Keys |-> IF owner[k] = r THEN Nobody ELSE owner[k]]
  /\ \E answer \in {"saved", "failed"} : status' = [status EXCEPT ![r] = answer]
  /\ UNCHANGED <<batch, date, done>>

\* The answer is sent; the request is over.
Answer(r) == /\ status[r] \in {"saved", "rejected", "failed"}
             /\ status' = [status EXCEPT ![r] = "idle"]
             /\ batch' = [batch EXCEPT ![r] = <<>>]
             /\ date' = [date EXCEPT ![r] = NoDate]
             /\ done' = [done EXCEPT ![r] = 0]
             /\ UNCHANGED <<stats, wrote, owner>>

-----------------------------------------------------------------------------
(* What readers of the gateway get: one SELECT sees the committed table.   *)

GetStatsByDate(d) == [a \in {b \in AuthorIds : stats[<<b, d>>] # NoRow} |-> stats[<<a, d>>]]

-----------------------------------------------------------------------------
Transact(r) == Exec(r) \/ ExecOverflows(r) \/ Commit(r)

Next == \E r \in Requests :
          \/ \E b \in Batches, d \in Dates : Receive(r, b, d)
          \/ Transact(r)
          \/ Interrupted(r)
          \/ DeadlockDetected(r)
          \/ Answer(r)

Spec == Init /\ [][Next]_vars

\* A transaction that can go on does; PostgreSQL queues those that wait for a
\* row and looks for deadlocks.
FairSpec == /\ Spec
            /\ \A r \in Requests : /\ SF_vars(Transact(r))
                                   /\ WF_vars(DeadlockDetected(r))

-----------------------------------------------------------------------------
(* Properties.                                                             *)

\* repository.go:20-21: the batch is stored atomically, and a stored count is
\* replaced only by a larger one, whatever other transactions do meanwhile.
Table == INSTANCE StatsTable WITH table <- stats

ImplementsTable == Table!Spec

\* A client that was answered 204 finds every count of its batch, or a larger
\* one, in the table, as long as it looks.
SavedIsStored ==
  \A r \in Requests : status[r] = "saved" =>
    \A i \in DOMAIN batch[r] : batch[r][i].count <= stats[KeyOf(r, i)]

\* A lock belongs to a transaction that is running, and to one that has
\* upserted the row: no answered request keeps others from a row.
LocksHeld ==
  \A k \in Keys : owner[k] # Nobody =>
    /\ status[owner[k]] = "active"
    /\ \E i \in 1..done[owner[k]] : KeyOf(owner[k], i) = k

\* Every request is answered, though batches lock rows in any order.
Answered == \A r \in Requests : status[r] = "active" ~> status[r] # "active"
=============================================================================
