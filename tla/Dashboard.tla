------------------------------ MODULE Dashboard ------------------------------
(***************************************************************************)
(* ClickDashboard: one goroutine (Run, service.go) refreshes a snapshot of *)
(* the last MaxDays days from StorageGateway, first by a schedule of       *)
(* startup retries and then at each tick; requests are served from the     *)
(* snapshot that is published (store.go).                                  *)
(*                                                                         *)
(* A refresh takes the current day first and then makes two concurrent     *)
(* gRPC calls, each of which sees the tables at a moment of its own.  The  *)
(* tables grow in between, and midnight may pass.  Publish and Get are     *)
(* atomic, and a snapshot is never changed: serving is an operator here.   *)
(***************************************************************************)
EXTENDS Integers, Sequences, FiniteSets

CONSTANTS AuthorIds,       \* a set of integers
          MaxDays,         \* columns of the table
          StartupRetries,  \* len(startupRetryDelays)
          LastDay,         \* bound: the last day that passes
          MaxCount,        \* bound: the largest count of an author and a day
          MaxFailures,     \* bound: calls that fail; the gateway then stays up
          Pending, Failed, NoSnapshot

Days == 0..LastDay
Rows == [author : AuthorIds, date : Days, count : 1..MaxCount]
Snapshots == [dates : Seq(Int), rows : Seq([id : AuthorIds, clicks : Seq(0..MaxCount)])]

ASSUME DashboardAssumption ==
  /\ AuthorIds \subseteq Int /\ IsFiniteSet(AuthorIds)
  /\ MaxDays \in Nat \ {0}         \* getEnvMaxDays
  /\ StartupRetries \in Nat
  /\ LastDay \in Nat /\ MaxCount \in Nat /\ MaxFailures \in Nat
  /\ NoSnapshot \notin Snapshots

VARIABLES now,        \* the current day (UTC)
          table,      \* the stats table: [AuthorIds \X Days -> count], 0: no row
          known,      \* the ids of the authors table
          phase,      \* where Run is
          attempt,    \* the startup attempt, 0 once Run is on its ticker
          to,         \* the newest day of the refresh in progress
          authors,    \* what its two calls have returned:
          stats,      \* ... Pending, Failed or data
          snapshot,   \* the published snapshot
          cancelled,  \* the context of Run is done
          failures

tables  == <<now, table, known>>
results == <<to, authors, stats>>
vars    == <<tables, phase, attempt, results, snapshot, cancelled, failures>>

Init == /\ now = 0
        /\ table = [k \in AuthorIds \X Days |-> 0]
        /\ known \in SUBSET AuthorIds   \* seeded by a migration; nothing writes it
        /\ phase = "startup"
        /\ attempt = 1
        /\ to = 0
        /\ authors = Pending
        /\ stats = Pending
        /\ snapshot = NoSnapshot
        /\ cancelled = FALSE
        /\ failures = 0

-----------------------------------------------------------------------------
(* buildSnapshot and its parts.                                            *)

From_Short(d) == d - (MaxDays - 2)     \* mutant: the oldest day is missing
From(d) == d - (MaxDays - 1)

\* The newest day comes first.
DateRange(newest) == [i \in 1..(newest - From(newest) + 1) |-> newest - (i - 1)]

IndexClicks_SharedMap(rows) ==         \* mutant: the authors share one inner map
  [a \in {r.author : r \in rows} |->
     [d \in {r.date : r \in rows} |-> (CHOOSE r \in rows : r.date = d).count]]

\* authorID -> date -> count, for those that have a row.
IndexClicks(rows) ==
  [a \in {r.author : r \in rows} |->
     [d \in {r.date : r \in {x \in rows : x.author = a}} |->
        (CHOOSE r \in rows : r.author = a /\ r.date = d).count]]

Sorted(ids) == CHOOSE s \in [1..Cardinality(ids) -> ids] :
                 \A i, j \in DOMAIN s : i < j => s[i] < s[j]

ResolveAuthors_KnownOnly(ids, clicks) == Sorted(ids)  \* mutant: no placeholders
\* Authors without an entry of their own but with clicks are added; sorted by id.
ResolveAuthors(ids, clicks) == Sorted(ids \cup DOMAIN clicks)

BuildRows(ids, clicks, dates) ==
  [i \in DOMAIN ids |->
     [id |-> ids[i],
      clicks |-> [j \in DOMAIN dates |->
                    IF ids[i] \in DOMAIN clicks /\ dates[j] \in DOMAIN clicks[ids[i]]
                    THEN clicks[ids[i]][dates[j]] ELSE 0]]]

BuildSnapshot(ids, rows, newest) ==
  LET clicks == IndexClicks(rows)
      dates  == DateRange(newest)
  IN [dates |-> dates,
      rows  |-> BuildRows(ResolveAuthors(ids, clicks), clicks, dates)]

\* Snapshot.Slice: the first n columns.
Slice(snap, n) ==
  LET m == IF n > Len(snap.dates) THEN Len(snap.dates) ELSE n
  IN [dates |-> SubSeq(snap.dates, 1, m),
      rows  |-> [i \in DOMAIN snap.rows |->
                   [snap.rows[i] EXCEPT !.clicks = SubSeq(@, 1, m)]]]

\* StatsService.GetStats: the answer to GET /stats?days=n, for a number n.
GetStats(n) ==
  IF n < 1 \/ n > MaxDays THEN [status |-> 400]
  ELSE IF snapshot = NoSnapshot THEN [status |-> 503]
  ELSE [status |-> 200, body |-> Slice(snapshot, n)]

\* The handler: without `days` five are shown, or as many as there are.
Respond(query) ==
  GetStats(IF query # {} THEN CHOOSE n \in query : TRUE
           ELSE IF MaxDays < 5 THEN MaxDays ELSE 5)

-----------------------------------------------------------------------------
(* The gateway's tables and the clock.                                     *)

\* A count is stored or replaced by a larger one (see StatsTable).
Save(a, d, n) == /\ d <= now
                 /\ table[<<a, d>>] < n
                 /\ table' = [table EXCEPT ![<<a, d>>] = n]
                 /\ UNCHANGED <<now, known, phase, attempt, results, snapshot, cancelled, failures>>

Midnight == /\ now < LastDay
            /\ now' = now + 1
            /\ UNCHANGED <<table, known, phase, attempt, results, snapshot, cancelled, failures>>

\* The repository of the gateway: one SELECT each.
StatsRange(from, newest) ==
  {r \in Rows : r.date \in from..newest /\ table[<<r.author, r.date>>] = r.count}
AuthorsTable == known

\* The gRPC handlers; a range that ends before it begins is refused.
GetStatsRange(from, newest) ==
  IF from > newest THEN Failed ELSE StatsRange(from, newest)
GetAuthors == AuthorsTable

-----------------------------------------------------------------------------
(* Refresh.                                                                *)

BeginRefresh == /\ to' = now
                /\ authors' = Pending
                /\ stats' = Pending

\* A call fails: the gateway does, or the deadline passes, or the context is
\* done, or the errgroup has cancelled it because the other one failed.
MayFail == \/ cancelled \/ Failed \in {authors, stats}
           \/ failures < MaxFailures
CountFailure == failures' = IF cancelled \/ Failed \in {authors, stats} THEN failures
                            ELSE failures + 1

ReadAuthors == /\ phase = "refresh" /\ authors = Pending
               /\ \/ /\ ~cancelled
                     /\ authors' = GetAuthors
                     /\ UNCHANGED failures
                  \/ /\ MayFail
                     /\ authors' = Failed
                     /\ CountFailure
               /\ UNCHANGED <<tables, phase, attempt, to, stats, snapshot, cancelled>>

ReadStats == /\ phase = "refresh" /\ stats = Pending
             /\ \/ /\ ~cancelled
                   /\ stats' = GetStatsRange(From(to), to)
                   /\ UNCHANGED failures
                \/ /\ MayFail
                   /\ stats' = Failed
                   /\ CountFailure
             /\ UNCHANGED <<tables, phase, attempt, to, authors, snapshot, cancelled>>

\* g.Wait() has returned.
Finished == phase = "refresh" /\ Pending \notin {authors, stats}
Succeeded == Failed \notin {authors, stats}

Read_OrEmpty(result) == IF result = Failed THEN {} ELSE result

PublishIgnoringErrors ==          \* mutant: the error of g.Wait is not looked at
  /\ Finished
  /\ snapshot' = BuildSnapshot(Read_OrEmpty(authors), Read_OrEmpty(stats), to)
  /\ phase' = "ticker"
  /\ attempt' = 0
  /\ UNCHANGED <<tables, results, cancelled, failures>>

\* The new snapshot replaces the old one; Run goes on to its ticker.
Publish == /\ Finished
           /\ Succeeded
           /\ snapshot' = BuildSnapshot(authors, stats, to)
           /\ phase' = "ticker"
           /\ attempt' = 0
           /\ UNCHANGED <<tables, results, cancelled, failures>>

LastAttempt == 1 + StartupRetries

\* The old snapshot, if any, stays.
RefreshFails ==
  /\ Finished
  /\ ~Succeeded
  /\ phase' = IF attempt = 0 THEN "ticker"
              ELSE IF cancelled THEN "stopped"
              ELSE IF attempt = LastAttempt THEN "ticker" ELSE "pause"
  /\ attempt' = IF phase' = "ticker" THEN 0 ELSE attempt
  /\ UNCHANGED <<tables, results, snapshot, cancelled, failures>>

-----------------------------------------------------------------------------
(* Run.                                                                    *)

StartAttempt == /\ phase = "startup"
                /\ phase' = "refresh"
                /\ BeginRefresh
                /\ UNCHANGED <<tables, attempt, snapshot, cancelled, failures>>

\* The delay of the startup schedule has passed.
RetryStartup == /\ phase = "pause"
                /\ phase' = "startup"
                /\ attempt' = attempt + 1
                /\ UNCHANGED <<tables, results, snapshot, cancelled, failures>>

Tick == /\ phase = "ticker"
        /\ phase' = "refresh"
        /\ BeginRefresh
        /\ UNCHANGED <<tables, attempt, snapshot, cancelled, failures>>

\* ctx.Done() is selected in a pause or on the ticker.
Done_InPause == phase = "pause"          \* mutant: the ticker loop does not select it
Done == phase \in {"pause", "ticker"}

Stop == /\ cancelled
        /\ Done
        /\ phase' = "stopped"
        /\ UNCHANGED <<tables, attempt, results, snapshot, cancelled, failures>>

\* SIGINT or SIGTERM.
Cancel == /\ ~cancelled
          /\ cancelled' = TRUE
          /\ UNCHANGED <<tables, phase, attempt, results, snapshot, failures>>

Run == StartAttempt \/ RetryStartup \/ Tick \/ Publish \/ RefreshFails

Next == \/ \E a \in AuthorIds, d \in Days, n \in 1..MaxCount : Save(a, d, n)
        \/ Midnight
        \/ ReadAuthors \/ ReadStats
        \/ Run
        \/ Stop \/ Cancel

Spec == Init /\ [][Next]_vars

\* Calls return (they have deadlines), delays and ticks come, and a `select`
\* that finds ctx.Done() ready again and again takes it some time.
FairSpec == /\ Spec
            /\ WF_vars(ReadAuthors) /\ WF_vars(ReadStats)
            /\ WF_vars(Run)
            /\ SF_vars(Stop)

-----------------------------------------------------------------------------
(* Properties.                                                             *)

TypeOK == /\ now \in Days
          /\ table \in [AuthorIds \X Days -> 0..MaxCount]
          /\ known \in SUBSET AuthorIds
          /\ phase \in {"startup", "refresh", "pause", "ticker", "stopped"}
          /\ attempt \in 0..(1 + StartupRetries)
          /\ to \in Days
          /\ authors \in {Pending, Failed} \cup SUBSET AuthorIds
          /\ stats \in {Pending, Failed} \cup SUBSET Rows
          /\ snapshot \in {NoSnapshot} \cup Snapshots
          /\ cancelled \in BOOLEAN
          /\ failures \in 0..MaxFailures

Ready == snapshot # NoSnapshot

\* The cells of the published table: what a row shows for a date.
Cells(snap) == IF snap = NoSnapshot THEN {}
               ELSE {<<snap.rows[i].id, snap.dates[j]>> :
                       i \in DOMAIN snap.rows, j \in DOMAIN snap.dates}
Shown(snap, a, d) ==
  LET i == CHOOSE x \in DOMAIN snap.rows : snap.rows[x].id = a
      j == CHOOSE x \in DOMAIN snap.dates : snap.dates[x] = d
  IN snap.rows[i].clicks[j]

\* The page never shows clicks that are not stored for that author and that
\* day, and none of a day that has not come: cells, ids and dates stay
\* aligned through two reads at different moments, midnights and retries.
ShownIsStored ==
  \A c \in Cells(snapshot) :
    /\ c[2] <= now
    /\ Shown(snapshot, c[1], c[2]) <= IF c[2] \in Days THEN table[c] ELSE 0

\* "the old snapshot is still served" (service.go:117): whatever fails, a page
\* that was ready stays ready, and a cell that stays on it never falls.
ShownNeverFalls ==
  [][Ready => /\ Ready'
              /\ \A c \in Cells(snapshot) \cap Cells(snapshot') :
                   Shown(snapshot, c[1], c[2]) <= Shown(snapshot', c[1], c[2])]_vars

\* Once a snapshot has been published, GET /stats?days=n is answered for every n
\* up to MaxDays, and without n: n columns, the newest day first, and one row
\* per author in the order of ids.
EveryDayServed ==
  Ready => \A query \in {{}} \cup {{n} : n \in 1..MaxDays} :
    LET page == Respond(query).body
        n    == Len(page.dates)
    IN /\ Respond(query).status = 200
       /\ query \subseteq {n}
       /\ \A j \in 1..(n - 1) : page.dates[j + 1] = page.dates[j] - 1
       /\ \A i \in DOMAIN page.rows : Len(page.rows[i].clicks) = n
       /\ \A i, k \in DOMAIN page.rows : i < k => page.rows[i].id < page.rows[k].id

\* A stored count gets to the page, even if the author has no entry in the
\* authors table, unless its day leaves the window or the service stops.
EventuallyShown ==
  \A a \in AuthorIds, d \in Days, n \in 1..MaxCount :
    (table[<<a, d>>] >= n) ~>
      \/ cancelled
      \/ d < From(now)
      \/ <<a, d>> \in Cells(snapshot) /\ Shown(snapshot, a, d) >= n

\* Run returns once its context is done, wherever it is.
RunStops == cancelled ~> phase = "stopped"
=============================================================================
