-------------------------- MODULE GatewayMainProofs ---------------------------
(***************************************************************************)
(* Proofs about GatewayMain, for any requests, calls and batches, any size *)
(* of the pool and any number of migrations, crashes and restarts: of the  *)
(* process itself, and of the transactions of StorageGateway inside of it. *)
(***************************************************************************)
EXTENDS GatewayMain, StorageGatewayProofs

ProcessTypeOK ==
  /\ main \in {"connect", "migrate", "migrating", "select", "drain http",
               "drain grpc", "exit", "exited"}
  /\ ended \in {"no", "connect", "migrations", "server failed", "drained",
                "timeout", "killed"}
  /\ ctx \in BOOLEAN /\ deadline \in BOOLEAN
  /\ http \in {"off", "serving", "closed", "failed"}
  /\ grpc \in {"off", "serving", "closed", "failed"}
  /\ waiting \in SUBSET Requests
  /\ call \in [Calls -> {"none", "waiting", "reading"}]
  /\ schema \in 0..Migrations
  /\ dirty \in BOOLEAN

Connecting == {"connect", "migrate", "migrating"}

NoneActive == \A r \in Requests : status[r] # "active"

(* A process that is connecting, or gone, serves nobody. *)
OffInv == main \in Connecting \cup {"exited"} =>
            http = "off" /\ grpc = "off" /\ waiting = {} /\ NoCall /\ NoneActive

(* The migrations are through when the servers start, and the mark of a     *)
(* version is there as long as the reason of the refusal is.                *)
SchemaInv == /\ main \notin Connecting \cup {"exited"} => schema = Migrations /\ ~dirty
             /\ main = "migrating" => schema < Migrations /\ dirty
             /\ ended = "migrations" => main = "exited" /\ dirty

(* What the draining has achieved so far is not undone. *)
DrainInv ==
  /\ main \in {"drain http", "drain grpc"} => http = "closed"
  /\ main \in Connecting \cup {"select", "drain http"} => ended = "no"
  /\ main = "drain grpc" => grpc = "closed" /\ (ended # "timeout" => NoRequest)
  /\ main = "exit" /\ ended = "drained" =>
       http = "closed" /\ grpc = "closed" /\ NoRequest /\ NoCall

ProcessInv == ProcessTypeOK /\ OffInv /\ SchemaInv /\ DrainInv

-----------------------------------------------------------------------------
LEMMA InitProcess == GatewayInit => TypeOK /\ ProcessInv
<1> SUFFICES ASSUME GatewayInit PROVE TypeOK /\ ProcessInv
    OBVIOUS
<1>1. TypeOK
      BY InitIInv DEF GatewayInit, IInv
<1>2. ProcessTypeOK
  <2>1. 0 \in 0..Migrations
        BY GatewayMainAssumption
  <2>2. QED BY <2>1 DEF GatewayInit, ProcessTypeOK
<1>3. NoneActive /\ NoCall
      BY DEF GatewayInit, Init, NoneActive, NoCall
<1>4. OffInv /\ SchemaInv /\ DrainInv
      BY <1>3 DEF GatewayInit, OffInv, SchemaInv, DrainInv, Connecting
<1>5. QED BY <1>1, <1>2, <1>4 DEF ProcessInv

(* Steps of run that leave the transactions and the requests alone. *)
Quiet == UNCHANGED <<vars, waiting, call>>

LEMMA QuietKeeps ==
  ASSUME Quiet
  PROVE  (NoneActive => NoneActive') /\ (NoRequest => NoRequest') /\ (NoCall => NoCall')
  BY DEF Quiet, vars, NoneActive, NoRequest, NoCall

LEMMA ConnectStep ==
  ASSUME ProcessInv, Connect
  PROVE  ProcessInv' /\ UNCHANGED vars
<1> USE DEF ProcessInv
<1>1. Quiet
      BY DEF Connect, Ping, ConnectFails, BeginMigration, ApplyMigration, RefuseDirty,
             StartServers, Quiet, requests
<1>2. ProcessTypeOK'
  <2>1. schema' \in 0..Migrations
    <3>1. schema \in 0..Migrations
          BY DEF ProcessTypeOK
    <3>2. CASE schema' = schema
          BY <3>1, <3>2
    <3>3. CASE ApplyMigration /\ schema' = schema + 1
      <4>1. schema < Migrations
            BY <3>3 DEF ApplyMigration, SchemaInv
      <4>2. QED BY <3>1, <3>3, <4>1, GatewayMainAssumption
    <3>4. QED BY <3>2, <3>3 DEF Connect, Ping, ConnectFails, BeginMigration, ApplyMigration,
                 RefuseDirty, StartServers, database
  <2>2. /\ main' \in {"connect", "migrate", "migrating", "select", "exited"}
        /\ ended' \in {ended, "connect", "migrations"}
        /\ UNCHANGED <<ctx, deadline, http, grpc>>
        BY DEF Connect, Ping, ConnectFails, BeginMigration, ApplyMigration, RefuseDirty,
               StartServers, Exits, servers
  <2>3. dirty' \in BOOLEAN
    <3>1. dirty' = dirty \/ dirty' = TRUE \/ dirty' = FALSE
          BY DEF Connect, Ping, ConnectFails, BeginMigration, ApplyMigration, RefuseDirty,
                 StartServers, database
    <3>2. QED BY <3>1 DEF ProcessTypeOK
  <2>4. ended' \in {"no", "connect", "migrations", "server failed", "drained",
                   "timeout", "killed"}
        BY <2>2 DEF ProcessTypeOK
  <2>5. UNCHANGED <<waiting, call>>
        BY <1>1 DEF Quiet
  <2>6. QED BY <2>1, <2>2, <2>3, <2>4, <2>5 DEF ProcessTypeOK
<1>3. OffInv' /\ DrainInv'
  <2>1. /\ http = "off" /\ grpc = "off" /\ waiting = {} /\ NoCall /\ NoneActive
        /\ UNCHANGED <<http, grpc>>
        BY DEF Connect, Ping, ConnectFails, BeginMigration, ApplyMigration, RefuseDirty,
               StartServers, OffInv, Connecting, servers
  <2>2. \/ main' = "exited"
        \/ main \in Connecting /\ main' \in Connecting \cup {"select"} /\ UNCHANGED ended
        BY DEF Connect, Ping, ConnectFails, BeginMigration, ApplyMigration, RefuseDirty,
               StartServers, Exits, Connecting
  <2>3. OffInv'
        BY <1>1, <2>1, QuietKeeps DEF OffInv, Quiet
  <2>4. DrainInv'
        BY <1>1, <2>1, <2>2, QuietKeeps DEF DrainInv, Connecting
  <2>5. QED BY <2>3, <2>4
<1>4. SchemaInv'
  <2>1. CASE Ping
        BY <2>1 DEF Ping, SchemaInv, Connecting, database
  <2>2. CASE ConnectFails
        BY <2>2 DEF ConnectFails, Exits, SchemaInv, Connecting
  <2>3. CASE BeginMigration
        BY <2>3 DEF BeginMigration, SchemaInv, Connecting, Pending
  <2>4. CASE ApplyMigration
    <3>1. schema < Migrations
          BY <2>4 DEF ApplyMigration, SchemaInv
    <3>2. CASE main' = "migrate" /\ UNCHANGED ended
          BY <2>4, <3>2 DEF ApplyMigration, SchemaInv, Connecting
    <3>3. CASE Exits("migrations") /\ UNCHANGED database
      <4>1. dirty
            BY <2>4 DEF ApplyMigration, SchemaInv
      <4>2. QED BY <3>3, <4>1 DEF Exits, SchemaInv, Connecting, database
    <3>4. QED BY <2>4, <3>2, <3>3 DEF ApplyMigration
  <2>5. CASE RefuseDirty
        BY <2>5 DEF RefuseDirty, UpFails, Exits, SchemaInv, Connecting, database
  <2>6. CASE StartServers
        BY <2>6 DEF StartServers, UpFails, SchemaInv, Connecting, database
  <2>7. QED BY <2>1, <2>2, <2>3, <2>4, <2>5, <2>6 DEF Connect
<1>5. QED BY <1>1, <1>2, <1>3, <1>4 DEF Quiet

(* The servers, the signal and the steps of the shutdown. *)
LEMMA RunStep ==
  ASSUME ProcessInv, Listen \/ ServerFails \/ Signal \/ SelectError \/ SelectDone
                     \/ Expire \/ HTTPDrained \/ GRPCDrained
  PROVE  ProcessInv' /\ UNCHANGED vars
<1> USE DEF ProcessInv
<1>1. Quiet /\ UNCHANGED <<schema, dirty>>
      BY DEF Listen, ServerFails, Signal, SelectError, SelectDone, Expire, HTTPDrained,
             GRPCDrained, Quiet, requests, database
<1>2. ProcessTypeOK'
  <2>1. /\ http' \in {http, "serving", "failed", "closed"}
        /\ grpc' \in {grpc, "serving", "failed", "closed"}
        /\ main' \in {main, "drain http", "drain grpc", "exit"}
        /\ ended' \in {ended, "server failed", "timeout", "drained"}
        BY DEF Listen, ServerFails, Signal, SelectError, SelectDone, Expire, HTTPDrained,
               GRPCDrained, Move, DrainGraceful, Closed, servers
  <2>2. /\ http' \in {"off", "serving", "closed", "failed"}
        /\ grpc' \in {"off", "serving", "closed", "failed"}
        BY <2>1 DEF ProcessTypeOK
  <2>3. main' \in {"connect", "migrate", "migrating", "select", "drain http",
                  "drain grpc", "exit", "exited"}
        BY <2>1 DEF ProcessTypeOK
  <2>4. ended' \in {"no", "connect", "migrations", "server failed", "drained",
                   "timeout", "killed"}
        BY <2>1 DEF ProcessTypeOK
  <2>5. (ctx' = ctx \/ ctx' = TRUE) /\ (deadline' = deadline \/ deadline' = TRUE)
        BY DEF Listen, ServerFails, Signal, SelectError, SelectDone, Expire, HTTPDrained,
               GRPCDrained
  <2>6. ctx' \in BOOLEAN /\ deadline' \in BOOLEAN
        BY <2>5 DEF ProcessTypeOK
  <2>7. UNCHANGED <<waiting, call, schema, dirty>>
        BY <1>1 DEF Quiet
  <2>8. QED BY <2>2, <2>3, <2>4, <2>6, <2>7 DEF ProcessTypeOK
<1>3. OffInv' /\ SchemaInv'
  <2>1. CASE Signal
        BY <1>1, <2>1, QuietKeeps DEF Signal, OffInv, SchemaInv, servers, Quiet
  <2>2. CASE ~Signal
    <3>1. main \notin Connecting \cup {"exited"} /\ main' \notin Connecting \cup {"exited"}
          BY <2>2 DEF Listen, ServerFails, SelectError, SelectDone, Expire, HTTPDrained,
                      GRPCDrained, Started, DrainGraceful, Connecting
    <3>2. ended' # "migrations"
          BY <2>2, <3>1 DEF Listen, ServerFails, SelectError, SelectDone, Expire, HTTPDrained,
                      GRPCDrained, SchemaInv
    <3>3. QED BY <1>1, <3>1, <3>2 DEF OffInv, SchemaInv, Connecting
  <2>3. QED BY <2>1, <2>2
<1>4. DrainInv'
  <2>1. CASE Listen \/ ServerFails
    <3>1. /\ UNCHANGED <<main, ended>>
          /\ http = "closed" => http' = "closed"
          /\ grpc = "closed" => grpc' = "closed"
          BY <2>1 DEF Listen, ServerFails, Move
    <3>2. QED BY <1>1, <3>1, QuietKeeps DEF DrainInv, Connecting
  <2>2. CASE Signal \/ Expire
    <3>1. UNCHANGED <<main, ended, http, grpc>>
          BY <2>2 DEF Signal, Expire, servers
    <3>2. QED BY <1>1, <3>1, QuietKeeps DEF DrainInv, Connecting
  <2>3. CASE SelectError
        BY <2>3 DEF SelectError, DrainInv, Connecting
  <2>4. CASE SelectDone
    <3>1. /\ main' = "drain http" /\ http' = "closed" /\ UNCHANGED ended
          /\ main = "select"
          BY <2>4 DEF SelectDone, Closed
    <3>2. ended = "no"
          BY <3>1 DEF DrainInv
    <3>3. QED BY <3>1, <3>2 DEF DrainInv, Connecting
  <2>5. CASE HTTPDrained
    <3>1. /\ main = "drain http" /\ main' = "drain grpc"
          /\ grpc' = "closed" /\ UNCHANGED http
          /\ NoRequest \/ ended' = "timeout"
          BY <2>5 DEF HTTPDrained, DrainGraceful, Closed
    <3>2. QED BY <1>1, <3>1, QuietKeeps DEF DrainInv, Connecting
  <2>6. CASE GRPCDrained
    <3>1. /\ main = "drain grpc" /\ main' = "exit" /\ NoCall
          /\ ended' = "drained" => ended # "timeout"
          /\ UNCHANGED <<http, grpc>>
          BY <2>6 DEF GRPCDrained, servers
    <3>2. QED BY <1>1, <3>1, QuietKeeps DEF DrainInv, Connecting
  <2>7. QED BY <2>1, <2>2, <2>3, <2>4, <2>5, <2>6
<1>5. QED BY <1>1, <1>2, <1>3, <1>4 DEF Quiet

-----------------------------------------------------------------------------
(* The end of a process, and the next one.                                  *)

LEMMA StoppedStep ==
  ASSUME ProcessInv, GRPCStopped
  PROVE  ProcessInv' /\ UNCHANGED vars
<1> USE DEF ProcessInv
<1>1. /\ main' = "exit" /\ ended' = "timeout"
      /\ call' = [c \in Calls |-> "none"]
      /\ main \notin Connecting \cup {"exited"}
      /\ UNCHANGED <<vars, ctx, deadline, http, grpc, waiting, schema, dirty>>
      BY DEF GRPCStopped, servers, database, Connecting
<1>2. ProcessTypeOK'
      BY <1>1 DEF ProcessTypeOK
<1>3. OffInv' /\ SchemaInv' /\ DrainInv'
      BY <1>1 DEF OffInv, SchemaInv, DrainInv, Connecting
<1>4. QED BY <1>1, <1>2, <1>3

LEMMA CutOffFacts ==
  ASSUME TypeOK, ProcessTypeOK, CutOff
  PROVE  /\ TypeOK'
         /\ http' = "off" /\ grpc' = "off" /\ waiting' = {}
         /\ call' \in [Calls -> {"none", "waiting", "reading"}]
         /\ NoCall' /\ NoneActive'
         /\ UNCHANGED <<ctx, deadline, schema, dirty>>
<1>1. /\ status' = [r \in Requests |-> IF status[r] = "idle" THEN "idle" ELSE "failed"]
      /\ wrote' = [r \in Requests |-> NoWrites]
      /\ owner' = [k \in Keys |-> Nobody]
      /\ call' = [c \in Calls |-> "none"]
      /\ waiting' = {} /\ http' = "off" /\ grpc' = "off"
      /\ UNCHANGED <<stats, batch, date, done, ctx, deadline, schema, dirty>>
      BY DEF CutOff, database
<1>2. NoWrites \in [Keys -> Clicks]
      BY DEF NoWrites, Clicks
<1>3. TypeOK'
      BY <1>1, <1>2 DEF TypeOK
<1>4. NoCall' /\ NoneActive'
      BY <1>1 DEF NoCall, NoneActive
<1>5. QED BY <1>1, <1>3, <1>4

LEMMA EndStepKeeps ==
  ASSUME TypeOK, ProcessInv, Exit \/ Kill
  PROVE  TypeOK' /\ ProcessInv'
<1> USE DEF ProcessInv
<1>1. main' = "exited" /\ CutOff /\ main # "exited"
      BY DEF Exit, Kill, Exits, Alive
<1>2. ended' \in {ended, "killed"}
      BY DEF Exit, Kill, Exits
<1>3. /\ TypeOK'
      /\ http' = "off" /\ grpc' = "off" /\ waiting' = {}
      /\ call' \in [Calls -> {"none", "waiting", "reading"}]
      /\ NoCall' /\ NoneActive'
      /\ UNCHANGED <<ctx, deadline, schema, dirty>>
      BY <1>1, CutOffFacts
<1>4. ended' \in {"no", "connect", "migrations", "server failed", "drained",
                 "timeout", "killed"}
      BY <1>2 DEF ProcessTypeOK
<1>5. ProcessTypeOK'
      BY <1>1, <1>3, <1>4 DEF ProcessTypeOK
<1>6. ended' # "migrations"
      BY <1>1, <1>2 DEF SchemaInv
<1>7. OffInv' /\ SchemaInv' /\ DrainInv'
      BY <1>1, <1>3, <1>6 DEF OffInv, SchemaInv, DrainInv, Connecting
<1>8. QED BY <1>3, <1>5, <1>7

LEMMA RestartStep ==
  ASSUME ProcessInv, Restart
  PROVE  ProcessInv' /\ UNCHANGED vars
<1> USE DEF ProcessInv
<1>1. /\ main = "exited" /\ main' = "connect" /\ ended' = "no"
      /\ ctx' = FALSE /\ deadline' = FALSE
      /\ Quiet /\ UNCHANGED <<http, grpc, schema, dirty>>
      BY DEF Restart, Alive, Quiet, servers, requests, database
<1>2. ProcessTypeOK'
      BY <1>1 DEF ProcessTypeOK, Quiet
<1>3. OffInv'
      BY <1>1, QuietKeeps DEF OffInv, Quiet
<1>4. SchemaInv' /\ DrainInv'
      BY <1>1 DEF SchemaInv, DrainInv, Connecting
<1>5. QED BY <1>1, <1>2, <1>3, <1>4 DEF Quiet

-----------------------------------------------------------------------------
(* Requests and calls.  They begin only while their server serves, and     *)
(* otherwise only bring those that there are nearer to their end.          *)

Running == UNCHANGED <<main, ended, ctx, deadline, http, grpc, schema, dirty>>

LEMMA RequestsKeep ==
  ASSUME ProcessInv, Running,
         waiting' \in SUBSET Requests,
         call' \in [Calls -> {"none", "waiting", "reading"}],
         NoRequest => NoRequest' \/ http = "serving",
         NoCall => NoCall' \/ grpc = "serving",
         waiting = {} => waiting' = {} \/ http = "serving",
         NoneActive => NoneActive' \/ waiting # {}
  PROVE  ProcessInv'
<1> USE DEF ProcessInv, Running
<1>1. ProcessTypeOK'
  <2>1. /\ main' = main /\ ended' = ended /\ ctx' = ctx /\ deadline' = deadline
        /\ http' = http /\ grpc' = grpc /\ schema' = schema /\ dirty' = dirty
        OBVIOUS
  <2>2. ctx' \in BOOLEAN /\ deadline' \in BOOLEAN /\ dirty' \in BOOLEAN
        BY <2>1 DEF ProcessTypeOK
  <2>3. QED BY <2>1, <2>2 DEF ProcessTypeOK
<1>2. OffInv' /\ SchemaInv' /\ DrainInv'
      BY DEF OffInv, SchemaInv, DrainInv
<1>3. QED BY <1>1, <1>2

LEMMA AcceptStep ==
  ASSUME ProcessInv, NEW r \in Requests, Accept(r)
  PROVE  ProcessInv' /\ UNCHANGED vars
<1>1. /\ http = "serving" /\ waiting' = waiting \cup {r}
      /\ Running /\ UNCHANGED <<vars, call>>
      BY DEF Accept, Running, servers, database
<1>2. (NoCall => NoCall') /\ (NoneActive => NoneActive')
      BY <1>1 DEF NoCall, NoneActive, vars
<1>3. /\ waiting' \in SUBSET Requests
      /\ call' \in [Calls -> {"none", "waiting", "reading"}]
      BY <1>1 DEF ProcessInv, ProcessTypeOK
<1>4. QED BY <1>1, <1>2, <1>3, RequestsKeep

LEMMA BeginStep ==
  ASSUME TypeOK, ProcessInv, NEW r \in Requests,
         BeginFails(r) \/ \E b \in Batches, d \in Dates : Begin(r, b, d)
  PROVE  TypeOK' /\ ProcessInv'
<1>1. /\ r \in waiting /\ waiting' = waiting \ {r}
      /\ Running /\ UNCHANGED call
      BY DEF BeginFails, Begin, Running, servers, database
<1>2. TypeOK'
  <2>1. CASE BeginFails(r)
        BY <2>1 DEF BeginFails, TypeOK
  <2>2. CASE \E b \in Batches, d \in Dates : Begin(r, b, d)
    <3>1. [Next]_vars
          BY <2>2 DEF Begin, Next
    <3>2. QED BY <3>1, TypeStep
  <2>3. QED BY <2>1, <2>2
<1>3. NoCall => NoCall'
      BY <1>1 DEF NoCall
<1>4. waiting # {} /\ ~NoRequest
      BY <1>1 DEF NoRequest
<1>5. /\ waiting' \in SUBSET Requests
      /\ call' \in [Calls -> {"none", "waiting", "reading"}]
      BY <1>1 DEF ProcessInv, ProcessTypeOK
<1>6. ProcessInv'
      BY <1>1, <1>3, <1>4, <1>5, RequestsKeep
<1>7. QED BY <1>2, <1>6

LEMMA WorkStep ==
  ASSUME TypeOK, ProcessInv, NEW r \in Requests, Work(r)
  PROVE  TypeOK' /\ ProcessInv'
<1>1. Running /\ UNCHANGED <<waiting, call>>
      BY DEF Work, process, Running, servers, requests, database
<1>2. TypeOK'
  <2>1. [Next]_vars
        BY DEF Work, Next
  <2>2. QED BY <2>1, TypeStep
<1>3. /\ status[r] # "idle"
      /\ status[r] = "active" \/ status' = [status EXCEPT ![r] = "idle"]
      BY DEF Work, Transact, Exec, ExecOverflows, Commit, Interrupted, DeadlockDetected, Answer,
             WaitsFor, HasNext
<1>4. NoneActive => NoneActive'
      BY <1>3 DEF NoneActive, TypeOK
<1>5. ~NoRequest
      BY <1>3 DEF NoRequest
<1>6. NoCall => NoCall'
      BY <1>1 DEF NoCall
<1>7. /\ waiting' \in SUBSET Requests
      /\ call' \in [Calls -> {"none", "waiting", "reading"}]
      BY <1>1 DEF ProcessInv, ProcessTypeOK
<1>8. ProcessInv'
      BY <1>1, <1>4, <1>5, <1>6, <1>7, RequestsKeep
<1>9. QED BY <1>2, <1>8

LEMMA CallStep ==
  ASSUME ProcessInv, NEW c \in Calls,
         AcceptCall(c) \/ Query(c) \/ QueryFails(c) \/ AnswerCall(c)
  PROVE  ProcessInv' /\ UNCHANGED vars
<1>1. /\ Running /\ UNCHANGED <<vars, waiting>>
      /\ grpc = "serving" \/ call[c] # "none"
      /\ \E to \in {"none", "waiting", "reading"} : call' = [call EXCEPT ![c] = to]
      BY DEF AcceptCall, Query, QueryFails, AnswerCall, MoveCall, Running, servers, database
<1>2. NoCall => grpc = "serving"
      BY <1>1 DEF NoCall
<1>3. (NoRequest => NoRequest') /\ (NoneActive => NoneActive')
      BY <1>1 DEF NoRequest, NoneActive, vars
<1>4. /\ waiting' \in SUBSET Requests
      /\ call' \in [Calls -> {"none", "waiting", "reading"}]
      BY <1>1 DEF ProcessInv, ProcessTypeOK
<1>5. QED BY <1>1, <1>2, <1>3, <1>4, RequestsKeep

-----------------------------------------------------------------------------
GInv == TypeOK /\ ProcessInv

LEMMA GInvStep == GInv /\ [GatewayNext]_allVars => GInv'
<1> SUFFICES ASSUME GInv, [GatewayNext]_allVars PROVE GInv'
    OBVIOUS
<1> USE DEF GInv
<1>1. ASSUME ProcessInv' /\ UNCHANGED vars PROVE GInv'
  <2>1. TypeOK'
        BY <1>1, TypeStep
  <2>2. QED BY <1>1, <2>1
<1>2. CASE Connect
      BY <1>1, <1>2, ConnectStep
<1>3. CASE Listen \/ ServerFails \/ Signal
      BY <1>1, <1>3, RunStep
<1>4. CASE Shutdown
  <2>1. CASE GRPCStopped
        BY <1>1, <2>1, StoppedStep
  <2>2. CASE Exit
        BY <2>2, EndStepKeeps
  <2>3. CASE SelectError \/ SelectDone \/ Expire \/ HTTPDrained \/ GRPCDrained
        BY <1>1, <2>3, RunStep
  <2>4. QED BY <1>4, <2>1, <2>2, <2>3 DEF Shutdown
<1>5. CASE Kill
      BY <1>5, EndStepKeeps
<1>6. CASE Restart
      BY <1>1, <1>6, RestartStep
<1>7. ASSUME NEW r \in Requests, Accept(r) PROVE GInv'
      BY <1>1, <1>7, AcceptStep
<1>8. ASSUME NEW r \in Requests,
             BeginFails(r) \/ \E b \in Batches, d \in Dates : Begin(r, b, d)
      PROVE  GInv'
      BY <1>8, BeginStep
<1>9. ASSUME NEW r \in Requests, Work(r) PROVE GInv'
      BY <1>9, WorkStep
<1>10. ASSUME NEW c \in Calls, AcceptCall(c) \/ Query(c) \/ QueryFails(c) \/ AnswerCall(c)
       PROVE  GInv'
      BY <1>1, <1>10, CallStep
<1>11. CASE UNCHANGED allVars
  <2>1. /\ UNCHANGED vars /\ Running /\ UNCHANGED <<waiting, call>>
        BY <1>11 DEF allVars, process, Running, servers, requests, database
  <2>2. /\ (NoRequest => NoRequest') /\ (NoCall => NoCall') /\ (NoneActive => NoneActive')
        BY <2>1 DEF NoRequest, NoCall, NoneActive, vars
  <2>3. /\ waiting' \in SUBSET Requests
        /\ call' \in [Calls -> {"none", "waiting", "reading"}]
        BY <2>1 DEF ProcessInv, ProcessTypeOK
  <2>4. QED BY <1>1, <2>1, <2>2, <2>3, RequestsKeep
<1>12. QED BY <1>2, <1>3, <1>4, <1>5, <1>6, <1>7, <1>8, <1>9, <1>10, <1>11 DEF GatewayNext

LEMMA GatewayInvariance == GatewaySpec => []GInv
<1>1. GatewayInit => GInv
      BY InitProcess DEF GInv
<1>2. QED BY <1>1, GInvStep, PTL DEF GatewaySpec

(* The variables of the process, of its servers and of the database keep    *)
(* their types, and the version of the schema stays in its range.           *)
THEOREM ProcessTypeCorrect == GatewaySpec => []GatewayTypeOK
<1>1. GInv => GatewayTypeOK
      BY DEF GInv, ProcessInv, ProcessTypeOK, GatewayTypeOK
<1>2. QED BY <1>1, GatewayInvariance, PTL

(* CleanEndServesAll: run ends as "drained" only when no request and no     *)
(* call is left.                                                            *)
THEOREM CleanEnd == GatewaySpec => []CleanEndServesAll
<1>1. GInv => CleanEndServesAll
      BY DEF GInv, ProcessInv, DrainInv, CleanEndServesAll
<1>2. QED BY <1>1, GatewayInvariance, PTL

(* ServesWholeSchema: however many processes died in their migrations,      *)
(* handlers meet the complete schema only.                                  *)
THEOREM WholeSchema == GatewaySpec => []ServesWholeSchema
<1>1. GInv => ServesWholeSchema
      BY DEF GInv, ProcessInv, OffInv, SchemaInv, NoneActive, ServesWholeSchema
<1>2. QED BY <1>1, GatewayInvariance, PTL

(* RefusedOnlyIfDirty: a start is refused for its migrations only by the    *)
(* mark that a failed or interrupted one has left.                          *)
THEOREM RefusalHasReason == GatewaySpec => []RefusedOnlyIfDirty
<1>1. GInv => RefusedOnlyIfDirty
      BY DEF GInv, ProcessInv, SchemaInv, RefusedOnlyIfDirty
<1>2. QED BY <1>1, GatewayInvariance, PTL

-----------------------------------------------------------------------------
(* The transactions inside of the process: those that wait for a connection *)
(* have not begun, and what a crash cuts off leaves no lock and no write.   *)
TransactInv == IInv /\ \A r \in waiting : status[r] = "idle"

LEMMA CutOffRollsBack ==
  ASSUME TransactInv, CutOff
  PROVE  TransactInv' /\ UNCHANGED stats
<1> USE DEF TransactInv, IInv
<1>1. /\ status' = [r \in Requests |-> IF status[r] = "idle" THEN "idle" ELSE "failed"]
      /\ wrote' = [r \in Requests |-> NoWrites]
      /\ owner' = [k \in Keys |-> Nobody]
      /\ waiting' = {}
      /\ UNCHANGED <<stats, batch, date, done>>
      BY DEF CutOff
<1>2. TypeOK'
  <2>1. NoWrites \in [Keys -> Clicks]
        BY DEF NoWrites, Clicks
  <2>2. QED BY <1>1, <2>1 DEF TypeOK
<1>3. \A r \in Requests : status'[r] \notin {"active", "saved"}
      BY <1>1
<1>4. \A r \in Requests, k \in Keys : wrote'[r][k] = NoRow /\ owner'[k] # r
      BY <1>1, StorageAssumption DEF NoWrites
<1>5. LockInv'
      BY <1>3, <1>4 DEF LockInv
<1>6. WriteInv'
      BY <1>3, <1>4 DEF WriteInv
<1>7. ValidInv' /\ SavedIsStored'
      BY <1>3 DEF ValidInv, SavedIsStored
<1>8. QED BY <1>1, <1>2, <1>5, <1>6, <1>7

LEMMA BeginFailsKeeps ==
  ASSUME TransactInv, ProcessInv, NEW r \in Requests, BeginFails(r)
  PROVE  TransactInv' /\ UNCHANGED stats
<1> USE DEF TransactInv, IInv
<1>1. /\ status[r] = "idle"
      /\ status' = [status EXCEPT ![r] = "failed"]
      /\ waiting' = waiting \ {r}
      /\ UNCHANGED <<stats, batch, date, done, wrote, owner>>
      BY DEF BeginFails
<1>2. TypeOK'
      BY <1>1 DEF TypeOK
<1>3. /\ status'[r] = "failed"
      /\ \A q \in Requests : q # r => status'[q] = status[q]
      BY <1>1 DEF TypeOK
<1>4. \A q \in Requests : status[q] = "active" <=> status'[q] = "active"
      BY <1>1, <1>3
<1>5. LockInv'
      BY <1>1, <1>4 DEF LockInv, KeyOf
<1>6. WriteInv'
      BY <1>1, <1>4 DEF WriteInv, KeyOf, Visible
<1>7. ValidInv'
      BY <1>1, <1>4 DEF ValidInv
<1>8. SavedIsStored'
      BY <1>1, <1>3 DEF SavedIsStored, KeyOf
<1>9. \A q \in waiting' : status'[q] = "idle"
  <2>1. waiting \subseteq Requests
        BY DEF ProcessInv, ProcessTypeOK
  <2>2. ASSUME NEW q \in waiting' PROVE status'[q] = "idle"
    <3>1. q \in waiting /\ q # r /\ q \in Requests
          BY <1>1, <2>1
    <3>2. QED BY <1>3, <3>1
  <2>3. QED BY <2>2
<1>10. QED BY <1>1, <1>2, <1>5, <1>6, <1>7, <1>8, <1>9

(* A step of a transaction, or one that leaves them alone. *)
LEMMA TransactStep ==
  ASSUME TransactInv, [Next]_vars, \A q \in waiting' : status'[q] = "idle"
  PROVE  TransactInv'
  BY InvStep DEF TransactInv

LEMMA WaitingStaysIdle ==
  ASSUME TransactInv, ProcessInv, NEW r \in Requests,
         Work(r) \/ \E b \in Batches, d \in Dates : Begin(r, b, d)
  PROVE  \A q \in waiting' : status'[q] = "idle"
<1> SUFFICES ASSUME NEW q \in waiting' PROVE status'[q] = "idle"
    OBVIOUS
<1>1. waiting \subseteq Requests /\ status \in [Requests -> {"idle", "active", "saved", "rejected", "failed"}]
      BY DEF TransactInv, IInv, TypeOK, ProcessInv, ProcessTypeOK
<1>2. CASE Work(r)
  <2>1. q \in waiting
        BY <1>2 DEF Work, process, requests
  <2>2. status[r] # "idle" /\ \E how : status' = [status EXCEPT ![r] = how]
    <3>1. status[r] # "idle"
          BY <1>2 DEF Work, Transact, Exec, ExecOverflows, Commit, Interrupted,
                      DeadlockDetected, Answer, WaitsFor, HasNext
    <3>2. status' = status \/ \E how : status' = [status EXCEPT ![r] = how]
          BY <1>2 DEF Work, Transact, Exec, ExecOverflows, Commit, Interrupted,
                      DeadlockDetected, Answer, Rollback
    <3>3. status = [status EXCEPT ![r] = status[r]]
          BY <1>1
    <3>4. QED BY <3>1, <3>2, <3>3
  <2>3. status[q] = "idle" /\ q # r /\ q \in Requests
        BY <1>1, <2>1, <2>2 DEF TransactInv
  <2>4. QED BY <1>1, <2>2, <2>3
<1>3. CASE \E b \in Batches, d \in Dates : Begin(r, b, d)
  <2>1. /\ waiting' = waiting \ {r}
        /\ \E how : status' = [status EXCEPT ![r] = how]
        BY <1>3 DEF Begin, Receive
  <2>2. q \in waiting /\ q # r /\ q \in Requests /\ status[q] = "idle"
        BY <1>1, <2>1 DEF TransactInv
  <2>3. QED BY <1>1, <2>1, <2>2
<1>4. QED BY <1>2, <1>3

(* What every step of the process means for the transactions and the table. *)
LEMMA ProcessStep ==
  ASSUME TransactInv, GInv, [GatewayNext]_allVars
  PROVE  TransactInv' /\ [Table!Next]_stats
<1> USE DEF GInv
<1>1. ASSUME UNCHANGED vars, waiting' \subseteq waiting
      PROVE  TransactInv' /\ [Table!Next]_stats
  <2>1. \A q \in waiting' : status'[q] = "idle"
        BY <1>1 DEF TransactInv, vars
  <2>2. QED BY <1>1, <2>1, TransactStep DEF vars
<1>2. CASE Connect \/ Listen \/ ServerFails \/ Signal \/ Restart
  <2>1. UNCHANGED vars /\ UNCHANGED waiting
        BY <1>2 DEF Connect, Ping, ConnectFails, BeginMigration, ApplyMigration, RefuseDirty,
                    StartServers, Listen, ServerFails, Signal, Restart, requests
  <2>2. QED BY <1>1, <2>1
<1>3. CASE Shutdown
  <2>1. CASE Exit
        BY <2>1, CutOffRollsBack DEF Exit
  <2>2. CASE SelectError \/ SelectDone \/ Expire \/ HTTPDrained \/ GRPCDrained \/ GRPCStopped
    <3>1. UNCHANGED vars /\ UNCHANGED waiting
          BY <2>2 DEF SelectError, SelectDone, Expire, HTTPDrained, GRPCDrained, GRPCStopped, requests
    <3>2. QED BY <1>1, <3>1
  <2>3. QED BY <1>3, <2>1, <2>2 DEF Shutdown
<1>4. CASE Kill
      BY <1>4, CutOffRollsBack DEF Kill
<1>5. ASSUME NEW r \in Requests, Accept(r)
      PROVE  TransactInv' /\ [Table!Next]_stats
  <2>1. UNCHANGED vars /\ status[r] = "idle" /\ waiting' = waiting \cup {r}
        BY <1>5 DEF Accept
  <2>2. \A q \in waiting' : status'[q] = "idle"
        BY <2>1 DEF TransactInv, vars
  <2>3. QED BY <2>1, <2>2, TransactStep DEF vars
<1>6. ASSUME NEW r \in Requests, BeginFails(r)
      PROVE  TransactInv' /\ [Table!Next]_stats
      BY <1>6, BeginFailsKeeps
<1>7. ASSUME NEW r \in Requests, NEW b \in Batches, NEW d \in Dates, Begin(r, b, d)
      PROVE  TransactInv' /\ [Table!Next]_stats
  <2>1. Receive(r, b, d)
        BY <1>7 DEF Begin
  <2>2. Next /\ UNCHANGED stats
        BY <2>1 DEF Next, Receive
  <2>3. \A q \in waiting' : status'[q] = "idle"
        BY <1>7, WaitingStaysIdle
  <2>4. QED BY <2>2, <2>3, TransactStep
<1>8. ASSUME NEW r \in Requests, Work(r)
      PROVE  TransactInv' /\ [Table!Next]_stats
  <2>1. Next
        BY <1>8 DEF Work, Next
  <2>2. TransactInv'
        BY <1>8, <2>1, TransactStep, WaitingStaysIdle
  <2>3. [Table!Next]_stats
    <3>1. CASE Commit(r)
      <4>1. IInv
            BY DEF TransactInv
      <4>2. QED BY <3>1, <4>1, CommitSaves DEF Table!Next
    <3>2. CASE ~Commit(r)
          BY <1>8, <3>2, OthersStutter DEF Work, Transact
    <3>3. QED BY <3>1, <3>2
  <2>4. QED BY <2>2, <2>3
<1>9. ASSUME NEW c \in Calls, AcceptCall(c) \/ Query(c) \/ QueryFails(c) \/ AnswerCall(c)
      PROVE  TransactInv' /\ [Table!Next]_stats
  <2>1. UNCHANGED vars /\ UNCHANGED waiting
        BY <1>9 DEF AcceptCall, Query, QueryFails, AnswerCall, MoveCall
  <2>2. QED BY <1>1, <2>1
<1>10. CASE UNCHANGED allVars
  <2>1. UNCHANGED vars /\ UNCHANGED waiting
        BY <1>10 DEF allVars, process, requests
  <2>2. QED BY <1>1, <2>1
<1>11. QED BY <1>2, <1>3, <1>4, <1>5, <1>6, <1>7, <1>8, <1>9, <1>10 DEF GatewayNext

LEMMA TransactInvariance == GatewaySpec => [](TransactInv /\ GInv)
<1>1. GatewayInit => TransactInv
      BY InitIInv DEF GatewayInit, TransactInv
<1>2. TransactInv /\ GInv /\ [GatewayNext]_allVars => TransactInv'
      BY ProcessStep
<1>3. QED BY <1>1, <1>2, GatewayInvariance, PTL DEF GatewaySpec

(* The table is the one that StatsTable promises also when the process is   *)
(* killed at any time and started again: each change of it is one whole     *)
(* batch with the larger counts, and a crash, an exit that cuts handlers    *)
(* off, a migration or a restart changes nothing.                           *)
THEOREM CrashesKeepTheTable == GatewaySpec => ImplementsTable
<1>1. GatewayInit => Table!Init
      BY DEF GatewayInit, Init, NoWrites, Table!Init, Keys, Table!Keys, NoRow, Table!NoRow
<1>2. TransactInv /\ GInv /\ [GatewayNext]_allVars => [Table!Next]_stats
      BY ProcessStep
<1>3. QED BY <1>1, <1>2, TransactInvariance, PTL DEF GatewaySpec, ImplementsTable, Table!Spec

(* No crash and no end of the process leaves a lock behind, nor an answer   *)
(* 204 for counts that are not in the table.                                *)
THEOREM CrashesKeepThePromise == GatewaySpec => [](LocksHeld /\ SavedIsStored)
<1>1. TransactInv => LocksHeld /\ SavedIsStored
  <2> SUFFICES ASSUME TransactInv PROVE LocksHeld /\ SavedIsStored
      OBVIOUS
  <2>1. SavedIsStored
        BY DEF TransactInv, IInv
  <2>2. ASSUME NEW k \in Keys, owner[k] # Nobody
        PROVE  /\ status[owner[k]] = "active"
               /\ \E i \in 1..done[owner[k]] : KeyOf(owner[k], i) = k
    <3>1. owner[k] \in Requests
          BY <2>2 DEF TransactInv, IInv, TypeOK
    <3>2. QED BY <3>1 DEF TransactInv, IInv, LockInv
  <2>3. QED BY <2>1, <2>2 DEF LocksHeld
<1>2. QED BY <1>1, TransactInvariance, PTL

(* What the client of request r was told: a count n for k, with a 204. *)
Told(r, k, n) == /\ status[r] = "saved"
                 /\ \E i \in DOMAIN batch[r] : KeyOf(r, i) = k /\ batch[r][i].count = n

(* An answer 204 is for good: from then on the table has that count or a    *)
(* larger one for that author and day, whatever is saved, killed or         *)
(* restarted later.                                                         *)
THEOREM AnswerIsForGood ==
  ASSUME NEW r \in Requests, NEW k \in Keys, NEW n \in Int
  PROVE  GatewaySpec => [](Told(r, k, n) => [](n <= stats[k]))
<1>1. TransactInv /\ Told(r, k, n) => n <= stats[k]
      BY DEF TransactInv, IInv, SavedIsStored, Told
<1>2. TransactInv /\ GInv /\ [GatewayNext]_allVars /\ n <= stats[k] => (n <= stats[k])'
  <2> SUFFICES ASSUME TransactInv, GInv, [GatewayNext]_allVars, n <= stats[k]
               PROVE  (n <= stats[k])'
      OBVIOUS
  <2>1. [Table!Next]_stats /\ TransactInv'
        BY ProcessStep
  <2>2. stats[k] <= stats'[k]
        BY <2>1, SaveGrows DEF TransactInv, IInv
  <2>3. stats[k] \in Int /\ stats'[k] \in Int
        BY <2>1, StorageAssumption DEF TransactInv, IInv, TypeOK, Clicks, NoRow
  <2>4. QED BY <2>2, <2>3
<1>3. QED BY <1>1, <1>2, TransactInvariance, PTL DEF GatewaySpec
=============================================================================
