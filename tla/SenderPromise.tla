--------------------------- MODULE SenderPromise ---------------------------
(***************************************************************************)
(* Sender with a history variable: the dates whose client was              *)
(* told "flush failed, retrying in background" and that no worker has      *)
(* taken since.                                                            *)
(***************************************************************************)
EXTENDS Sender

VARIABLE owed

pvars == <<vars, owed>>

\* SendNow has queued the date and returns its error to handler h in this step:
\* flushDate answers 500 with "flush failed, retrying in background".  (It says
\* so as well when nothing was queued because a context is done; that case,
\* which sender.go:69 announces, is left out here.)
Promised(h) == pc[h] \in {"enqueue", "spawn"} /\ pc'[h] = "idle"

Taken == {date'[w] : w \in {v \in Workers : pc[v] = "top" /\ pc'[v] = "lock"}}

PInit == Init /\ owed = {}

PNext == /\ Next
         /\ owed' = (owed \ Taken) \cup
                    {date[h] : h \in {g \in Handlers : Promised(g)}}

PSpec == PInit /\ [][PNext]_pvars

\* handler.go:80-81: a client that was told its date is being retried in the
\* background is not told so in vain: unless the service shuts down, when the
\* queue is empty and no worker is left the date has been taken by one.
PromiseKept ==
  ~Cancelled /\ ~working /\ ~hasPending => owed = {}
=============================================================================
