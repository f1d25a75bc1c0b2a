----------------------------- MODULE GatewayMain -----------------------------
(***************************************************************************)
(* The StorageGateway process around the transactions of StorageGateway:   *)
(* run of cmd/main.go, the connection and the migrations (pkg/db), the two *)
(* servers with their common deadline, and the connection pool for which   *)
(* their handlers compete.  The process may be killed at any time and is   *)
(* started again (docker-compose: unless-stopped); the database stays.     *)
(*                                                                         *)
(* golang-migrate (external) marks the version it is about to apply as     *)
(* dirty, applies it, and clears the mark; it refuses to go on from a      *)
(* dirty version.  Its driver keeps the connection it took from the pool,  *)
(* as nothing closes it.  PostgreSQL rolls back the transactions of a      *)
(* process that is gone.                                                   *)
(***************************************************************************)
EXTENDS StorageGateway, FiniteSets

CONSTANTS Calls,         \* gRPC calls that can be in progress at a time
          MaxOpenConns,  \* of the pool
          Migrations     \* how many there are

ASSUME GatewayMainAssumption ==
  MaxOpenConns \in Nat \ {0} /\ Migrations \in Nat

VARIABLES main,      \* where run is
          ended,     \* how the wait in its select and the draining ended
          ctx,       \* SIGINT or SIGTERM has come
          deadline,  \* shutdownCtx is done
          http, grpc,   \* where the goroutines of the servers are
          waiting,   \* POST /stats that have no connection yet
          call,      \* where each gRPC call is
          schema,    \* migrations the database has
          dirty      \* the next one was begun and not completed

requests == <<waiting, call>>
servers  == <<http, grpc>>
database == <<schema, dirty>>
process  == <<main, ended, ctx, deadline, servers, requests, database>>
allVars  == <<vars, process>>

Alive == main # "exited"

GatewayInit == /\ Init
               /\ main = "connect" /\ ended = "no"
               /\ ctx = FALSE /\ deadline = FALSE
               /\ http = "off" /\ grpc = "off"
               /\ waiting = {}
               /\ call = [c \in Calls |-> "none"]
               /\ schema = 0 /\ dirty = FALSE

-----------------------------------------------------------------------------
(* db.Connect.                                                             *)

Exits(how) == /\ main' = "exited"
              /\ ended' = how

\* The ping is answered; it is not when the context is done.
Ping == /\ main = "connect"
        /\ ~ctx
        /\ main' = "migrate"
        /\ UNCHANGED <<vars, ended, ctx, deadline, servers, requests, database>>

\* PostgreSQL or the directory of the migrations is not there.
ConnectFails ==
        /\ main \in {"connect", "migrate"}
        /\ Exits("connect")
        /\ UNCHANGED <<vars, ctx, deadline, servers, requests, database>>

Pending == schema < Migrations

\* The next migration is begun.
BeginMigration == /\ main = "migrate"
                  /\ ~dirty /\ Pending
                  /\ dirty' = TRUE
                  /\ main' = "migrating"
                  /\ UNCHANGED <<vars, ended, ctx, deadline, servers, requests, schema>>

\* It is applied, or it fails and leaves its mark.
ApplyMigration == /\ main = "migrating"
                  /\ \/ /\ main' = "migrate"
                        /\ schema' = schema + 1
                        /\ dirty' = FALSE
                        /\ UNCHANGED ended
                     \/ /\ Exits("migrations")
                        /\ UNCHANGED database
                  /\ UNCHANGED <<vars, ctx, deadline, servers, requests>>

UpFails_Never == FALSE                            \* mutant: the error of Up is logged only
\* m.Up returns an error other than ErrNoChange.
UpFails == dirty

RefuseDirty == /\ main = "migrate"
               /\ UpFails
               /\ Exits("migrations")
               /\ UNCHANGED <<vars, ctx, deadline, servers, requests, database>>

\* The two servers are started; run waits in its select.
StartServers == /\ main = "migrate"
                /\ ~UpFails
                /\ dirty \/ schema = Migrations
                /\ main' = "select"
                /\ UNCHANGED <<vars, ended, ctx, deadline, servers, requests, database>>

-----------------------------------------------------------------------------
(* The servers and their requests.                                         *)

Started == main \in {"select", "drain http", "drain grpc", "exit"}

Move(from, to) == \/ http \in from /\ http' = to /\ UNCHANGED grpc
                  \/ grpc \in from /\ grpc' = to /\ UNCHANGED http

Listen == /\ Started
          /\ Move({"off"}, "serving")
          /\ UNCHANGED <<vars, main, ended, ctx, deadline, requests, database>>

\* ListenAndServe, net.Listen or Serve returns an error that is not the one of
\* a server that was stopped, and sends it to errCh.
ServerFails == /\ Started
               /\ Move({"off", "serving"}, "failed")
               /\ UNCHANGED <<vars, main, ended, ctx, deadline, requests, database>>

InUse == 1  \* the connection of the migrations
         + Cardinality({r \in Requests : status[r] = "active"})
         + Cardinality({c \in Calls : call[c] = "reading"})
ConnectionFree == InUse < MaxOpenConns

Accept(r) == /\ Alive
             /\ http = "serving"
             /\ status[r] = "idle" /\ r \notin waiting
             /\ waiting' = waiting \cup {r}
             /\ UNCHANGED <<vars, main, ended, ctx, deadline, servers, call, database>>

\* BeginTx gets a connection; a body that is refused needs none.
Begin(r, b, d) == /\ r \in waiting
                  /\ Valid(b, d) => ConnectionFree
                  /\ Receive(r, b, d)
                  /\ waiting' = waiting \ {r}
                  /\ UNCHANGED <<main, ended, ctx, deadline, servers, call, database>>

\* BeginTx fails: the client is gone, the pool is closed, or PostgreSQL is away.
BeginFails(r) == /\ r \in waiting
                 /\ waiting' = waiting \ {r}
                 /\ status' = [status EXCEPT ![r] = "failed"]
                 /\ UNCHANGED <<stats, batch, date, done, wrote, owner>>
                 /\ UNCHANGED <<main, ended, ctx, deadline, servers, call, database>>

MoveCall(c, from, to) ==
  /\ call[c] = from
  /\ call' = [call EXCEPT ![c] = to]
  /\ UNCHANGED <<vars, main, ended, ctx, deadline, servers, waiting, database>>

AcceptCall(c) == Alive /\ grpc = "serving" /\ MoveCall(c, "none", "waiting")

\* QueryContext gets a connection.
Query(c) == ConnectionFree /\ MoveCall(c, "waiting", "reading")

QueryFails(c) == MoveCall(c, "waiting", "none")

AnswerCall_Leaks(c) == /\ call[c] = "reading"   \* mutant: no deferred rows.Close
                       /\ UNCHANGED allVars
\* The rows are read and closed, which gives the connection back.
AnswerCall(c) == MoveCall(c, "reading", "none")

-----------------------------------------------------------------------------
(* run: the select and what follows it.                                    *)

Signal == /\ Alive
          /\ ~ctx
          /\ ctx' = TRUE
          /\ UNCHANGED <<vars, main, ended, deadline, servers, requests, database>>

\* Nothing is drained.
SelectError == /\ main = "select"
               /\ "failed" \in {http, grpc}
               /\ main' = "exit"
               /\ ended' = "server failed"
               /\ UNCHANGED <<vars, ctx, deadline, servers, requests, database>>

Closed_StaysOpen(server) == server              \* mutant: the listener is not closed
Closed(server) == "closed"

\* srv.Shutdown closes the listener; one that is not open yet will not open.
SelectDone == /\ main = "select"
              /\ ctx
              /\ main' = "drain http"
              /\ http' = Closed(http)
              /\ UNCHANGED <<vars, ended, ctx, deadline, grpc, requests, database>>

\* The ten seconds that both servers share are over.
Expire == /\ main \in {"drain http", "drain grpc"}
          /\ ~deadline
          /\ deadline' = TRUE
          /\ UNCHANGED <<vars, main, ended, ctx, servers, requests, database>>

NoRequest == waiting = {} /\ \A r \in Requests : status[r] = "idle"
NoCall == \A c \in Calls : call[c] = "none"

DrainGraceful == /\ main' = "drain grpc"
                 /\ grpc' = Closed(grpc)

\* srv.Shutdown returns; GracefulStop is called in a goroutine.
HTTPDrained == /\ main = "drain http"
               /\ \/ NoRequest /\ UNCHANGED ended
                  \/ deadline /\ ended' = "timeout"
               /\ DrainGraceful
               /\ UNCHANGED <<vars, ctx, deadline, http, requests, database>>

\* `stopped` is closed: run returns the error of srv.Shutdown.
GRPCDrained == /\ main = "drain grpc"
               /\ NoCall
               /\ main' = "exit"
               /\ ended' = IF ended = "timeout" THEN "timeout" ELSE "drained"
               /\ UNCHANGED <<vars, ctx, deadline, servers, requests, database>>

GRPCStopped_Waits == /\ main = "drain grpc"     \* mutant: no select with the deadline
                     /\ NoCall
                     /\ main' = "exit"
                     /\ ended' = "timeout"
                     /\ UNCHANGED <<vars, ctx, deadline, servers, requests, database>>

\* The deadline is over: Stop cancels the calls that are left.
GRPCStopped == /\ main = "drain grpc"
               /\ deadline
               /\ main' = "exit"
               /\ ended' = "timeout"
               /\ call' = [c \in Calls |-> "none"]
               /\ UNCHANGED <<vars, ctx, deadline, servers, waiting, database>>

\* Whatever is in progress ends without an answer and without a commit.
CutOff == /\ status' = [r \in Requests |-> IF status[r] = "idle" THEN "idle" ELSE "failed"]
          /\ wrote' = [r \in Requests |-> NoWrites]
          /\ owner' = [k \in Keys |-> Nobody]
          /\ waiting' = {}
          /\ call' = [c \in Calls |-> "none"]
          /\ http' = "off" /\ grpc' = "off"
          /\ UNCHANGED <<stats, batch, date, done, ctx, deadline, database>>

\* The deferred database.Close, and the end of the process: handlers that are
\* left lose their connection or their process.
Exit == main = "exit" /\ main' = "exited" /\ UNCHANGED ended /\ CutOff

\* SIGKILL, a lost machine, a panic outside of the handlers.
Kill == Alive /\ Exits("killed") /\ CutOff

Restart == /\ ~Alive
           /\ main' = "connect" /\ ended' = "no"
           /\ ctx' = FALSE /\ deadline' = FALSE
           /\ UNCHANGED <<vars, servers, requests, database>>

-----------------------------------------------------------------------------
Connect == Ping \/ ConnectFails \/ BeginMigration \/ ApplyMigration \/ RefuseDirty \/ StartServers
Shutdown == \/ SelectError \/ SelectDone \/ Expire \/ HTTPDrained \/ GRPCDrained
            \/ GRPCStopped \/ Exit

Work(r) == /\ \/ Transact(r) \/ Interrupted(r) \/ DeadlockDetected(r) \/ Answer(r)
           /\ UNCHANGED process

GatewayNext ==
  \/ Connect \/ Listen \/ ServerFails \/ Signal \/ Shutdown \/ Kill \/ Restart
  \/ \E r \in Requests :
       \/ Accept(r) \/ BeginFails(r) \/ Work(r)
       \/ \E b \in Batches, d \in Dates : Begin(r, b, d)
  \/ \E c \in Calls : AcceptCall(c) \/ Query(c) \/ QueryFails(c) \/ AnswerCall(c)

GatewaySpec == GatewayInit /\ [][GatewayNext]_allVars

\* run goes on; transactions do as in StorageGateway; a query comes to its
\* end; the pool serves those that wait for a connection in their order.
GatewayFairSpec ==
  /\ GatewaySpec
  /\ WF_allVars(Connect \/ Shutdown)
  /\ \A r \in Requests :
       /\ SF_allVars(Transact(r) /\ UNCHANGED process)
       /\ WF_allVars(DeadlockDetected(r) /\ UNCHANGED process)
       /\ SF_allVars(\E b \in Batches, d \in Dates : Valid(b, d) /\ Begin(r, b, d))
  /\ \A c \in Calls : WF_allVars(AnswerCall(c))

-----------------------------------------------------------------------------
(* Properties.                                                             *)

GatewayTypeOK ==
  /\ TypeOK
  /\ main \in {"connect", "migrate", "migrating", "select", "drain http",
               "drain grpc", "exit", "exited"}
  /\ ended \in {"no", "connect", "migrations", "server failed", "drained",
                "timeout", "killed"}
  /\ ctx \in BOOLEAN /\ deadline \in BOOLEAN
  /\ {http, grpc} \subseteq {"off", "serving", "closed", "failed"}
  /\ waiting \in SUBSET Requests
  /\ call \in [Calls -> {"none", "waiting", "reading"}]
  /\ schema \in 0..Migrations
  /\ dirty \in BOOLEAN

\* A clean end leaves nobody behind: when both servers were drained in time, no
\* handler is left that would meet the closed pool or be cut off by the exit.
CleanEndServesAll ==
  main = "exit" /\ ended = "drained" => NoRequest /\ NoCall

\* No handler reads or writes a schema that is not complete, whatever earlier
\* processes have left behind.
ServesWholeSchema ==
  ~(NoCall /\ waiting = {} /\ \A r \in Requests : status[r] # "active") =>
    schema = Migrations /\ ~dirty

\* A start that finds the database there is refused only if a migration was
\* interrupted or has failed; one that finds all of them applied goes on.
RefusedOnlyIfDirty == ended = "migrations" => dirty

\* A signal ends the process, though requests, calls or transactions that wait
\* for each other's rows hang.
SignalEnds == ctx ~> ~Alive

\* Handlers of both servers share the pool: each that waits gets its turn.
ConnectionComes == \A r \in Requests : r \in waiting ~> r \notin waiting
=============================================================================
