\* Two concurrent requests on today's rows; fair transactions.
CONSTANTS
  Requests = {r1, r2}
  AuthorIds = {0, 1, 2, 3}
  Dates = {1, 2}
  Batches <- MCBatches
  Today = 1
  MaxInteger = 2
  Nobody = nobody
SPECIFICATION FairSpec
INVARIANTS
  TypeOK
  SavedIsStored
PROPERTIES
  ImplementsTable
  Answered
