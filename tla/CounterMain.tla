----------------------------- MODULE CounterMain -----------------------------
(***************************************************************************)
(* The ClickCounter process: run of cmd/main.go, its HTTP server, and the  *)
(* Consumer that finds the partitions of the topic and starts a reader for *)
(* each (consumer.go).  The process ends by a signal or because the server *)
(* fails; the deferred calls then run in reverse order: Consumer.Close,    *)
(* Sender.Shutdown, and at last the cancellation of the context.           *)
(*                                                                         *)
(* What the readers do with messages is in Tracker, what Shutdown does in  *)
(* Sender.  The process and all that runs in it end when run returns.      *)
(***************************************************************************)
EXTENDS Naturals, Sequences, SequencesExt

CONSTANTS Partitions,
          Brokers,      \* how many brokers are configured
          MaxListed,    \* bound: the partitions a broker lists
          Requests      \* a set of HTTP requests

ASSUME CounterMainAssumption == Brokers \in Nat /\ MaxListed \in Nat

Loops == {"reading", "sleeping", "done"}

VARIABLES main,     \* where run is
          ended,    \* how the wait for a signal and the draining ended
          ctx,      \* the context is done
          server,   \* of ListenAndServe
          errCh,    \* its error is in the channel
          request,  \* [Requests -> where the handler is]
          consume,  \* where Consumer.Run is
          broker,   \* the broker it asks
          listed,   \* the partitions it has found
          readers   \* c.readers: the partition, if it is open, and its loop

http     == <<server, errCh, request>>
consumer == <<consume, broker, listed, readers>>
vars     == <<main, ended, ctx, http, consumer>>

Init == /\ main = "select"
        /\ ended = "no"
        /\ ctx = FALSE
        /\ server = "listening"
        /\ errCh = FALSE
        /\ request = [q \in Requests |-> "none"]
        /\ consume = "discover"
        /\ broker = 1
        /\ listed = <<>>
        /\ readers = <<>>

Alive == main # "exited"

-----------------------------------------------------------------------------
(* The HTTP server.                                                        *)

Accept(q) == /\ Alive
             /\ server = "listening" /\ request[q] = "none"
             /\ request' = [request EXCEPT ![q] = "active"]
             /\ UNCHANGED <<main, ended, ctx, server, errCh, consumer>>

Answer(q) == /\ Alive
             /\ request[q] = "active"
             /\ request' = [request EXCEPT ![q] = "done"]
             /\ UNCHANGED <<main, ended, ctx, server, errCh, consumer>>

ListenFails_Unreported == /\ Alive        \* mutant: the error is only logged
                          /\ server = "listening"
                          /\ server' = "failed"
                          /\ UNCHANGED <<main, ended, ctx, errCh, request, consumer>>

\* ListenAndServe returns an error other than ErrServerClosed.
ListenFails == /\ Alive
               /\ server = "listening"
               /\ server' = "failed"
               /\ errCh' = TRUE
               /\ UNCHANGED <<main, ended, ctx, request, consumer>>

-----------------------------------------------------------------------------
(* run: the select, srv.Shutdown, and the deferred calls.                  *)

Signal == /\ Alive
          /\ ~ctx
          /\ ctx' = TRUE
          /\ UNCHANGED <<main, ended, http, consumer>>

SelectError == /\ main = "select"
               /\ errCh
               /\ main' = "close readers"
               /\ ended' = "server failed"
               /\ UNCHANGED <<ctx, http, consumer>>

SelectDone_Open == /\ main = "select"     \* mutant: the listener stays open
                   /\ ctx
                   /\ main' = "drain"
                   /\ UNCHANGED <<ended, ctx, http, consumer>>

\* ctx.Done() is selected; srv.Shutdown closes the listener.
SelectDone == /\ main = "select"
              /\ ctx
              /\ main' = "drain"
              /\ server' = IF server = "listening" THEN "closed" ELSE server
              /\ UNCHANGED <<ended, ctx, errCh, request, consumer>>

\* srv.Shutdown returns: the handlers have, or its ten seconds are over.
Drained == /\ main = "drain"
           /\ \/ /\ \A q \in Requests : request[q] # "active"
                 /\ ended' = "drained"
              \/ ended' = "timeout"
           /\ main' = "close readers"
           /\ UNCHANGED <<ctx, http, consumer>>

\* Consumer.Close, under the mutex that guards c.readers.
CloseReaders == /\ main = "close readers"
                /\ readers' = [i \in DOMAIN readers |-> [readers[i] EXCEPT !.open = FALSE]]
                /\ main' = "stop sender"
                /\ UNCHANGED <<ended, ctx, http, consume, broker, listed>>

\* Sender.Shutdown returns (ShutdownCompletes of Sender).
StopSender == /\ main = "stop sender"
              /\ main' = "stop"
              /\ UNCHANGED <<ended, ctx, http, consumer>>

\* stop(); run returns.
Exit == /\ main = "stop"
        /\ ctx' = TRUE
        /\ main' = "exited"
        /\ UNCHANGED <<ended, http, consumer>>

-----------------------------------------------------------------------------
(* Consumer.Run and discoverPartitionsFrom.                                *)

BrokerLeft == broker <= Brokers

\* The loop over the brokers: the context is looked at before each.
AskBroker == /\ Alive
             /\ consume = "discover"
             /\ BrokerLeft /\ ~ctx
             /\ consume' = "asking"
             /\ UNCHANGED <<main, ended, ctx, http, broker, listed, readers>>

BrokerFails == /\ Alive
               /\ consume = "asking"
               /\ consume' = "discover"
               /\ broker' = broker + 1
               /\ UNCHANGED <<main, ended, ctx, http, listed, readers>>

\* No broker has answered, or the context is done: Run returns an error, which
\* is logged, and the service goes on without a consumer.
GiveUp == /\ Alive
          /\ consume = "discover"
          /\ ~BrokerLeft \/ ctx
          /\ consume' = "failed"
          /\ UNCHANGED <<main, ended, ctx, http, broker, listed, readers>>

Distinct_AsListed(s, ids) == s = ids   \* mutant: no `seen`
\* s has each id of ids once, in the order of their first occurrence.
Distinct(s, ids) ==
  /\ Range(s) = Range(ids)
  /\ \A i, j \in DOMAIN s : i < j =>
       \E k \in DOMAIN ids : ids[k] = s[i] /\ \A l \in 1..k : ids[l] # s[j]

Lists == BoundedSeq(Partitions, MaxListed)

BrokerAnswers == /\ Alive
                 /\ consume = "asking"
                 /\ \E ids \in Lists : \E s \in Lists :
                      Distinct(s, ids) /\ listed' = s
                 /\ consume' = "start"
                 /\ UNCHANGED <<main, ended, ctx, http, broker, readers>>

\* A reader is added to c.readers, and its goroutine started.
StartReader == /\ Alive
               /\ consume = "start"
               /\ Len(readers) < Len(listed)
               /\ readers' = Append(readers, [partition |-> listed[Len(readers) + 1],
                                              open |-> TRUE, loop |-> "reading"])
               /\ UNCHANGED <<main, ended, ctx, http, consume, broker, listed>>

AllStarted == /\ Alive
              /\ consume = "start"
              /\ Len(readers) = Len(listed)
              /\ consume' = "wait"
              /\ UNCHANGED <<main, ended, ctx, http, broker, listed, readers>>

\* wg.Wait() returns.
RunReturns == /\ Alive
              /\ consume = "wait"
              /\ \A i \in DOMAIN readers : readers[i].loop = "done"
              /\ consume' = "returned"
              /\ UNCHANGED <<main, ended, ctx, http, broker, listed, readers>>

AfterError_Done == "done"              \* mutant: the first error ends the loop
AfterError == IF ctx THEN "done" ELSE "sleeping"

\* ReadMessage returns an error: of the brokers, of a reader that is closed, or
\* of the context.
ReadFails(i) == /\ Alive
                /\ readers[i].loop = "reading"
                /\ readers' = [readers EXCEPT ![i].loop = AfterError]
                /\ UNCHANGED <<main, ended, ctx, http, consume, broker, listed>>

ReadAgain(i) == /\ Alive
                /\ readers[i].loop = "sleeping"
                /\ readers' = [readers EXCEPT ![i].loop = "reading"]
                /\ UNCHANGED <<main, ended, ctx, http, consume, broker, listed>>

-----------------------------------------------------------------------------
Main == SelectError \/ SelectDone \/ Drained \/ CloseReaders \/ StopSender \/ Exit

Discovery == AskBroker \/ BrokerFails \/ GiveUp \/ BrokerAnswers

Next == \/ \E q \in Requests : Accept(q) \/ Answer(q)
        \/ ListenFails \/ Signal
        \/ Main
        \/ Discovery
        \/ StartReader \/ AllStarted \/ RunReturns
        \/ \E i \in DOMAIN readers : ReadFails(i) \/ ReadAgain(i)

Spec == Init /\ [][Next]_vars

\* run goes on: its select wakes up, and srv.Shutdown has a deadline.
FairSpec == Spec /\ WF_vars(Main)

-----------------------------------------------------------------------------
TypeOK == /\ main \in {"select", "drain", "close readers", "stop sender", "stop", "exited"}
          /\ ended \in {"no", "server failed", "drained", "timeout"}
          /\ ctx \in BOOLEAN
          /\ server \in {"listening", "failed", "closed"}
          /\ errCh \in BOOLEAN
          /\ request \in [Requests -> {"none", "active", "done"}]
          /\ consume \in {"discover", "asking", "start", "wait", "returned", "failed"}
          /\ broker \in 1..(Brokers + 1)
          /\ listed \in Seq(Partitions)
          /\ readers \in Seq([partition : Partitions, open : BOOLEAN, loop : Loops])

\* A partition has one reader at most, whatever the brokers list.
OneReaderPerPartition ==
  \A i, j \in DOMAIN readers : readers[i].partition = readers[j].partition => i = j

\* Once Run waits, every partition that was found is being read, in spite of
\* any read errors, until the context is done; so Run does not return before.
EveryPartitionRead ==
  consume \in {"wait", "returned"} /\ ~ctx =>
    \A k \in DOMAIN listed : \E i \in DOMAIN readers :
      readers[i].partition = listed[k] /\ readers[i].loop # "done"

\* When the draining ended in time, no request is left or can arrive that
\* would use the Sender after its Shutdown has begun.
NoRequestAfterDrain ==
  main \in {"close readers", "stop sender", "stop"} /\ ended = "drained" =>
    \A q \in Requests : request[q] # "active"

\* A signal or a failure of the server ends the process, in spite of requests
\* that hang.
ProcessEnds == (ctx \/ server = "failed") ~> ~Alive

\* "to be called after Run has returned" (consumer.go:189, of Close).
CloseAfterRun ==
  main \in {"stop sender", "stop", "exited"} => consume \in {"returned", "failed"}
=============================================================================
