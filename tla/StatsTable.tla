----------------------------- MODULE StatsTable -----------------------------
(***************************************************************************)
(* What StorageGateway promises about the table of daily counts: a batch   *)
(* is saved as a whole or not at all, in one step, and a saved count never *)
(* replaces a larger one.  StorageGateway.tla is shown to implement this.  *)
(***************************************************************************)
EXTENDS Integers, Sequences

CONSTANTS AuthorIds, Dates, Batches

NoRow == -1                       \* below every count
Keys == AuthorIds \X Dates

VARIABLE table                    \* [Keys -> counts and NoRow]

\* The counts a batch gives for a key, when it is saved for date d.
CountsFor(batch, d, k) ==
  {batch[i].count : i \in {j \in DOMAIN batch : k = <<batch[j].author, d>>}}

Init == table = [k \in Keys |-> NoRow]

\* Every key ends at the largest of what was stored and what the batch says.
Save(batch, d) ==
  /\ table' \in [Keys -> {table[k] : k \in Keys} \cup
                         {batch[i].count : i \in DOMAIN batch}]
  /\ \A k \in Keys :
       LET candidates == CountsFor(batch, d, k) \cup {table[k]}
       IN /\ table'[k] \in candidates
          /\ \A n \in candidates : n <= table'[k]

Next == \E batch \in Batches, d \in Dates : Save(batch, d)

Spec == Init /\ [][Next]_table
=============================================================================
