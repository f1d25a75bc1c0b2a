----------------------------- MODULE FlushQueue -----------------------------
(***************************************************************************)
(* What ClickCounter's Sender promises to those who hand it a date: a      *)
(* mailbox of one slot in which the last date wins, emptied by one server  *)
(* that gives every date it takes at least one and at most Retries + 1     *)
(* delivery attempts, and that stops when it is closed.                    *)
(* Sender.tla is shown to implement this specification.                    *)
(***************************************************************************)
EXTENDS Naturals

CONSTANTS Dates,     \* the days that can be flushed
          NoDate,    \* "the slot is empty", "nothing is being served"
          Retries    \* number of retry delays in the schedule

VARIABLES slot,      \* the queued date
          serving,   \* the date being delivered
          tries,     \* delivery attempts made for it so far
          closed     \* the sender has been shut down

vars == <<slot, serving, tries, closed>>

TypeOK == /\ slot \in Dates \cup {NoDate}
          /\ serving \in Dates \cup {NoDate}
          /\ tries \in 0..(Retries + 1)
          /\ closed \in BOOLEAN

Init == /\ slot = NoDate
        /\ serving = NoDate
        /\ tries = 0
        /\ closed = FALSE

\* The last date wins: whatever was still in the slot is replaced.
Put(d) == /\ slot' = d
          /\ UNCHANGED <<serving, tries, closed>>

Take == /\ slot # NoDate
        /\ serving = NoDate
        /\ serving' = slot
        /\ slot' = NoDate
        /\ tries' = 0
        /\ UNCHANGED closed

\* One delivery attempt begins.
Try == /\ serving # NoDate
       /\ tries <= Retries
       /\ tries' = tries + 1
       /\ UNCHANGED <<slot, serving, closed>>

\* The date is delivered, or given up after its last attempt.
Finish == /\ serving # NoDate
          /\ tries > 0
          /\ serving' = NoDate
          /\ tries' = 0
          /\ UNCHANGED <<slot, closed>>

\* Only a closed sender drops a date it has taken.
Abandon == /\ serving # NoDate
           /\ closed
           /\ serving' = NoDate
           /\ tries' = 0
           /\ UNCHANGED <<slot, closed>>

Close == /\ ~closed
         /\ closed' = TRUE
         /\ UNCHANGED <<slot, serving, tries>>

Serve == Try \/ Finish \/ Abandon

Next == \/ \E d \in Dates : Put(d)
        \/ Take
        \/ Serve
        \/ Close

SafeSpec == Init /\ [][Next]_vars

\* While the sender is open a queued date is eventually taken, and a date
\* that was taken does not stay in service for ever.
Spec == /\ SafeSpec
        /\ WF_vars(~closed /\ Take)
        /\ WF_vars(Serve)
=============================================================================
