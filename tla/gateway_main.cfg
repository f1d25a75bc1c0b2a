\* Two concurrent requests and two gRPC calls for two free connections; two
\* migrations; any number of starts.
CONSTANTS
  Requests = {r1, r2}
  AuthorIds = {1, 2}
  Dates = {1}
  Batches <- MCBatches
  Today = 1
  MaxInteger = 1
  Nobody = nobody
  Calls = {c1, c2}
  MaxOpenConns = 3
  Migrations = 2
SPECIFICATION GatewayFairSpec
INVARIANTS
  CleanEndServesAll
  ServesWholeSchema
PROPERTIES
  SignalEnds
  ConnectionComes
