# riot-match-service: a TLA+ model

riot-match-service copies League of Legends players, their ranked entries and
their matches from the Riot API into PostgreSQL when an administrator asks for
it, and answers its public endpoints from the database. It is one asyncio
process behind FastAPI. This directory holds its specifications, the TLC
configurations that check them, and theorems about them that TLAPS checks.

Paths below are relative to `src/app/` unless they start with `src/`.

## 1. Inventory

| Component | Where | State | Operations |
|---|---|---|---|
| Refresh endpoint and use case | `api/admin_players.py`, `services/use_cases/player_refresh.py` | a coroutine's locals, its session's transaction | `POST /api/v1/admin/players/refresh` |
| Match synchronisation | `services/sync/player_refresh_match_sync.py` | the plan and the records collected so far | `collect` |
| Write repository | `services/repositories/player_refresh.py` | tables `players`, `ranked_entries`, `matches`, `player_matches` | four upserts, one delete, two look-ups |
| Mappers | `services/mappers/player_refresh.py` | none | payload to record |
| Riot client, routing, payload models | `services/integrations/riot/{client,routing,models,parsing}` | none | six calls |
| Transport, retry policy, response parser | `services/integrations/riot/transport/{http,retry_policy,response_parser}.py` | a call's attempt | `get_json` |
| Rate limiter | `services/integrations/riot/transport/rate_limit.py` | a token bucket per host, shared by all coroutines | `acquire` |
| Read endpoints | `api/players.py`, `services/use_cases/player_read.py`, `services/repositories/player_read.py` | none, they read the four tables | search, profile, matches, champions |
| Sessions and pool | `db/session.py`, `main.py` | the engine's connections | one session per request |
| Database schema | `models/`, `src/alembic/`, `src/docker-compose.yml` | the schema and its version | `alembic upgrade`, `alembic downgrade` |
| Settings, schemas, health check | `core/`, `schemas/`, `api/health.py` | none | none |

How they interact. One request to the refresh endpoint is one coroutine. It
calls Riot for the account, the summoner, the ranked entries and the list of
match ids, one after the other; it looks up which of the matches and which of
the player's links to them are stored; it requests the missing matches one by
one; it builds missing links of stored matches from their stored payload; then
it writes everything in one transaction. Each call to Riot is a loop of
attempts, and each attempt passes the token bucket of its host. Coroutines share
the four tables, the buckets, the pool of connections and nothing else: there is
no lock per player, no queue of refreshes, no background job. PostgreSQL runs at
READ COMMITTED. The container migrates the schema before it serves.

What is hard, and what must hold:

- *Refresh.* Every `await` is a point where any other refresh may run, and up to
  thirty awaited calls separate the plan from its use. The plan's transaction is
  rolled back before the writing one begins. Two refreshes of one player may
  write at the same time. The database may fail at any statement, the
  connection may break around the COMMIT, the process may die. Correct means:
  readers see whole refreshes, a failed refresh takes nothing away, a stored
  status tells the truth, no foreign key is violated, no match is stored that
  belongs to nobody, no deadlock, and everybody is answered.
- *Synchronisation.* Some matches fail and others do not; the counts reported
  come from three lists. Correct means that success is claimed only of a
  complete list, and that the counts add up.
- *Rate limiter.* Sleepers are not queued and wake when they like. Correct means
  no window of time with more requests than the rate allows, sleeps that are
  long enough, and nobody starved.
- *Transport.* Retryable is decided in two places, and the number of attempts is
  bounded in two places. Correct means that the two agree, that Retry-After is
  honoured, and that every call ends.
- *Read endpoints.* A request is one or two SELECTs with a snapshot each, and a
  client sends several. Correct means that what it is shown never goes back or
  contradicts itself, that a list cut off at a limit loses nothing silently, and
  that a player found once stays found, although Riot IDs change hands and
  failed refreshes leave rows without a profile.
- *Pool.* A refresh holds a connection through all its match requests to Riot,
  gives it back, and needs one again to persist. Correct means that none is lost
  on any way out of a request, that connections and row locks are never waited
  for in a circle, and that everybody is answered as long as Riot is.
- *Migrations.* Five revisions, up and down, each of several statements, on
  databases of any version, cut off anywhere. Correct means that the next run
  always gets through, that the service finds the schema of its models, and that
  numbers computed by a revision are those the service computes.

## 2. Modules

| Module | Models |
|---|---|
| `PlayerRefresh` | the refresh endpoint, use case, synchronisation and write repository, over PostgreSQL's row locks |
| `RefreshStore` | abstract: what the refresh promises to readers of the four tables; `PlayerRefresh` implements it |
| `PlayerRefreshProofs` | theorems about `PlayerRefresh`: types, links, foreign keys |
| `RefreshStoreProofs` | extends it: one writer per player, what readers see, the refinement of `RefreshStore` |
| `MatchSyncProofs` | extends that: the synchronisation, its counts, the order of the locks |
| `TokenBucket` | one host's token bucket and its callers |
| `TokenBucketProofs` | theorems about `TokenBucket` |
| `RiotTransport` | `get_json` and the retry policy, composed with `TokenBucket` (INSTANCE) |
| `RiotCall` | abstract: what `get_json` promises; `RiotTransport` implements it |
| `RiotTransportProofs` | theorems about `RiotTransport` |
| `PooledService` | refreshes and reads over one engine's pool; extends `PlayerRefresh`, whose actions it guards |
| `PooledServiceProofs` | theorems about `PooledService` |
| `PlayerRead` | the four public endpoints, composed with `RefreshStore` (INSTANCE), which stands for the refreshes |
| `PlayerReadProofs` | theorems about `PlayerRead` |
| `Migrations` | the Alembic revisions, their transaction, and the container that runs them |
| `MigrationsProofs` | theorems about `Migrations` |
| `MCPlayerRefresh`, `MCPooledService`, `MCTokenBucket`, `MCRiotTransport`, `MCPlayerRead`, `MCMigrations` | values for the constants |

### PlayerRefresh

`pc[r]` says which await the coroutine of request `r` is at. `task[r]` is its
locals, `tx[r]` what its writing transaction has executed, `answer[r]` the HTTP
answer. The four tables hold what is committed; the writes of an open
transaction are derived from `task` and `tx` and appear in the tables at
`Commit`.

| Actions | Code |
|---|---|
| `Receive` | the handler starts |
| `AccountFound`, `AccountFails` | the account call; a failure is answered at once, nothing is stored |
| `SummonerFound`, `RankedFound`, `ProfileFails` | the try block of `_refresh_account`; a failure goes on to `_persist_failed_refresh` |
| `MatchIdsFound`, `MatchIdsFail` | `_fetch_match_ids`; a failure leaves a marker and an empty list |
| `PlanMatches`, `PlanLinks` | the two SELECTs of `_build_sync_plan`, with `Partitioned` |
| `MatchFound`, `MatchFails` | one turn of the loop over the missing ids; the last one is followed, without an await, by the backfill (`Continue`, `Backfilled`) |
| `PayloadMalformed` | pydantic's ValidationError, which nothing catches |
| `UpsertPlayer`, `UpsertRanked`, `DeleteRanked`, `UpsertMatchRow`, `UpsertMatchesEnds`, `UpsertLinks` | the statements in the order of `PersistOrder`; the upsert of matches locks its rows one by one |
| `Commit`, `CommitUnconfirmed` | COMMIT, with its confirmation received or lost |
| `DatabaseFails` | any statement raises, or the client waiting for the connection gives up: rollback, 500 |
| `Restart` | the process dies |

Data is reduced to who wrote it. The name of a request stands for what it
fetched: `players[p].profile = r` means that the profile columns of `p` hold the
summoner `r` got. A match is an id with its age (`Recency`), the players its
payload names (`Participants`), whether it has a start time (`HasStart`) and
whether the models still accept its stored payload (`Unreadable`).

Row locks. A statement waits while another transaction has written one of the
rows it writes (`WaitsFor`). Rows deleted are those committed when the DELETE
runs. The key-share locks that foreign keys take do not conflict with upserts of
columns that are no key, so they are left out.

Environment assumptions, each a named ASSUME or a comment in the module: Riot
lists a player's matches from the latest to the earliest
(`MatchListsAssumption`); it answers a request for a match with that match; the
database starts as some earlier refresh left it (`OldLinksAssumption`).

### RefreshStore

Two actions over the tables alone: `RefreshSucceeds` replaces one player's
profile and ranked entries together and adds matches with their links,
`RefreshFails` marks one player's row and touches nothing else. The refinement
mapping is the identity on the four variables, because uncommitted writes are
not in them.

### TokenBucket

`tokens` and `elapsed` are `_tokens` and the time since `_last_refill`; the
code's floats are whole units, `Cost` of which make a token and `Rate` of which
come in per tick, so fractions of a token exist. `acquire` does not suspend
between taking the lock and its sleep, so an attempt is one step: `Acquire` with
a token, `Defer` without. `Tick` moves the clock for everybody. `overtaken` and
`window` are history variables: who was served since a caller fell asleep, and
a window of time that an observer may open at any moment.

### RiotTransport

`call[c]` is the state of `get_json` for caller `c`: where it is, its attempt,
the delay left, and what the last 429 asked for. `Request` and `AwaitToken` are
the two outcomes of the limiter and are steps of the bucket's `Acquire` and
`Defer`; a response is a step of its `Respond`. `ErrorAnswered` consults
`ShouldRetry` and `Delays`; `Retry` is the next turn of the loop. `Observe` opens
the bucket's window, so that every step of the module is a step of `TokenBucket`
or leaves the bucket alone (`BucketIsRespected`). `Result` maps a call's state to
that of `RiotCall`.

### PooledService

`conn` says of each request whether it has a connection, waits for one or
neither, `read` where a read's coroutine is. A refresh's step is a step of
`PlayerRefresh` with its effect on the pool (`Pooled`): a statement needs a
connection, which `CheckOut` takes when there is room, and `GivesBack` says when
it returns, at the end of the request and at the rollback before the persisting
transaction. Between the plan and that rollback lie the match requests, with the
connection held. A connection that returns goes to whoever asks first; who
waits may give up (`PoolTimeout`, `RefreshFails`). Of a read's answer nothing is
kept, `PlayerRead` has it.

### Migrations

A schema is a set of elements: columns with their nullability, indexes, unique
keys, foreign keys. Primary keys, column types, and which columns an index or a
key spans are not among them. `db` is what is committed, `work` the running migration with
its own copy, `api` the container. Each revision is a sequence of statements, up
(`CreatePlayers` ... `AddKda`) and down (`DropPlayers` ... `DropKda`); `CanRun`
is what PostgreSQL demands of a statement, `After` what it does. `env.py` opens
one transaction around all revisions, so `Commit` publishes them together and
`RolledBack` undoes them together. `StartContainer` is `alembic upgrade head &&
uvicorn`; `OperatorDowngrades` is `alembic downgrade` by hand, which the model
allows only while the service is stopped. That is the operator's discipline: no
code keeps a downgrade from running beside a serving container, and then
`ServesItsModels` would not hold. `StoreRow` is the service storing a match with the KDA of `build_player_match_record`, so that
rows filled in by revision 0005 can be compared with it. The service carries a
quotient to 28 significant digits and PostgreSQL to 16 or more, so the number of
decimals depends on the quotient: `ServiceUnits` and `RevisionUnits` give, per
score, the units into which each divides a hundredth before it rounds to
hundredths. An UPDATE demands that the KDA fits numeric(6, 2)
(`models/player_match.py:48`). Initially the database is what any earlier release
left.

### PlayerRead

`call` is the request being served, with what its SELECTs returned so far, and
becomes an element of `answers` at the end. `Selects` gives each endpoint's
statements in order, `Select...` are the statements, `Proceed` goes to the next
or returns. Readers share nothing, so one client stands for all; what matters is
its session, a sequence of requests. `Refresh` is a step of `RefreshStore`,
which `PlayerRefresh` implements (run `refresh_ranked`, theorem
`Implementation`), so the commits between two SELECTs are those of the detailed
model. The Riot ID column is kept beside that store, in `riotId`; `account` is
what Riot has. `past` is a history variable.

`Listings` is ORDER BY with LIMIT: the set of results PostgreSQL may give, which
is one result when the keys are total. `Games`, `WinRate`, `Kda` and
`ChampionKey` are the statistics in hundredths, with PostgreSQL's rounding.

## 3. Runs

| Run | Instance | Checks |
|---|---|---|
| `refresh_matches` | 2 requests, 2 players, 1 queue, 5 matches, 3 lists | `TypeOK`, `NoForeignKeyViolation`, `EveryMatchHasALink`, `SuccessMeansComplete`, `SummaryAddsUp`, `NoDeadlock` |
| `refresh_ranked` | 2 requests, 2 players, 2 queues, 1 old match | `ProfileAndRankedAgree`, `ProfileIsKept`, `FailureTouchesOnlyTheRow`, `ReadersSeeWholeRefreshes` |
| `bucket` | 3 callers, 2 requests each, bucket of 2, windows up to 4 ticks | `TypeOK`, `WindowIsBounded`, `SleepSuffices`, `EveryCallerIsServed` |
| `transport` | 2 callers, 3 attempts, 5 statuses, 3 headers | `TypeOK`, `RetryableMeansExhausted`, `LoopIsNotLeft`, `RetryAfterIsHonoured`, `CallsKeepTheirPromise`, `BucketIsRespected` |
| `read_session` | 1 player, 3 matches, 2 champions, 2 refreshes, 2 requests | `TypeOK`, `ProfilesRunForward`, `MatchLeavesOnlyForLater`, `ChampionsAgreeWithMatches` |
| `read_search` | 2 players, 3 Riot IDs, 1 refresh each, 2 requests | `FoundIsNeverLost` |
| `read_ambiguous` | the same | `SearchFindsAtMostOne`, not kept (section 5) |
| `pool` | 2 requests of 1 player, 1 reader, 2 connections, 1 match | `NoConnectionIsLost`, `LocksHaveConnections`, `EveryRequestIsAnswered`, `ReadsWaitForRiotAlone` |
| `pool_reads` | the same | `ReadsSurviveRiotTrouble`, not kept (section 5) |
| `migrations` | 2 rows, 24 scores, 2 faults, any version | `NoStatementFails`, `VersionTellsSchema`, `ServesItsModels`, `KdaIsTheServices` |
| `refresh_only_missing`, `refresh_malformed` | 2 requests, 2 players, 1 match | one documented claim each, which the code does not keep (section 5) |

Why the bounds are enough. All interactions of the refresh are between pairs:
a row lock has one holder and one waiter, a stale plan one reader and one writer.
Two requests also give a request that runs alone before or after another. Two
players share matches. The five matches are one of each kind: stored and no
longer readable, stored and readable, new for both players (two of them, so that
two lists can lock common rows in different orders if the code let them), and
new and naming one player only. The three lists are none, new matches only, and
new with old. The two questions, matches and ranked entries, have runs of their
own because they share only the player's row, which both runs contain. With
symmetry of requests these have 188,198 and 60,533 states. In the runs that
check liveness there is no symmetry and the instances are smaller.

Two connections for two refreshes and a reader are the least with which the
refreshes can hold them all while the reader waits, and the two refreshes of one
player wait for its row lock with a connection each. Every path a refresh takes
through the pool is there with one match. `MaxFaults` of 2 lets a migration be
cut off, be run again, and be cut off again. Of the scores, thirds round either
way, eighths are ties at the second place, and zero deaths count as one. The
units are those of six decimals in the service and five in the revision, fewer
than the real ones, which is the harder case. `MaxPoints`, the most kills and
assists a player has in a game, is 9999 in every instance and in the theorems,
far more than a game has.

A sleep is whole ticks, rounded up, where the code divides floats: that a quotient
falls short by its last bit, so that the caller sleeps once more for next to
nothing, is below the model's clock and outside `SleepSuffices`.

The bucket's rate does not divide the cost, so that fractions of a token
matter, and three callers are what it takes for one sleeper to be overtaken
while another sleeps. The bucket of one request in the transport's runs makes
every attempt compete. `MaxCalls` and `MaxWindow` bound how often a caller calls
and how long a window lasts.

The properties of a session relate two answers, so `MaxReads` is 2, and two
commits between them are what it takes to pair a row with later entries. Of the
three matches two began together, so that only the second key of the order tells
them apart, and one is of another queue with a champion they have too. Page
limits are 2, less than the matches, and 3. A third Riot ID lets two players
exchange theirs. In `FoundIsNeverLost` the answer that shows a player may be a
search, the one that denies it is always of an endpoint asked by PUUID: a search
that finds nothing names no player. `read_session` has 1,141,072 states.

Deadlock is checked in every run. `AllEnded` in `PlayerRefresh` lets a finished
set of requests stutter, as does `AllAnswered` in `PooledService`; the other
modules always have a step left (`Tick`, `Rename`, starting or stopping the
container).

## 4. Fairness

`PooledService!LocalFairSpec` is weakly fair to what a coroutine does by itself
(`RefreshProceeds`, `ReadProceeds`): a statement that has its connection and
whose locks are free is executed, and a free connection is taken. That every
call to Riot ends is a premise of `EveryRequestIsAnswered` (`RiotAnswers`),
because httpx has timeouts (`main.py:14`), the attempts are bounded and the
bucket starves nobody, which is what `CallsKeepTheirPromise` and
`EveryCallerIsServed` check below it; `ReadsWaitForRiotAlone` does without it.
There is no fairness of failures or restarts, nor of the arrival of requests.
Weak fairness suffices for lock waits, because a holder never gives a lock back
to take it again, and for waits for a connection, because the requests are
finitely many and each asks for one at most twice.

`TokenBucket!FairSpec` and `RiotTransport!FairSpec` are weakly fair to the clock,
to each coroutine and, in the transport, to the end of each HTTP request. A
woken coroutine may be arbitrarily late. Weak fairness of a caller's attempt is
enough although others may overtake it, because the callers are finitely many
and each makes finitely many requests; under an endless stream of requests the
code gives no such guarantee, for its sleepers are not queued.

## 5. Where the code and its documents differ

- `src/README.md:35` says that only missing matches are requested. A plan is not
  looked at again, so a match that another refresh has stored since is requested
  all the same (`refresh_only_missing`).
- `api/admin_players.py:39` documents 502 for an unexpected error of the Riot
  API, and `errors.py:2` calls `RiotClientError` the base of integration
  failures. A payload the models reject raises a ValidationError, which is
  answered 500 and leaves no failed status (`refresh_malformed`).
- `api/players.py:37` documents 404 and 422 as the errors of a search. No unique
  key covers the Riot ID (`src/alembic/versions/0001_create_players.py:51`), and
  a row keeps the one it had at its last refresh. When a player takes a Riot ID
  that another stored player gave up, both rows match, `one_or_none` raises
  (`services/repositories/player_read.py:274`) and the client gets 500, until
  the other player is refreshed by PUUID (`read_ambiguous`).
- `src/README.md:38` says of the read endpoints that they do not call Riot because
  they serve a snapshot of the local database, and that this does not break user
  requests when the external API has problems. Reads and refreshes share one engine
  (`db/session.py:7`), and a refresh keeps its connection while it awaits Riot's
  answers to its match requests: enough refreshes waiting for a slow Riot make
  reads fail with the pool's timeout (`pool_reads`). Nothing else can keep a read
  waiting for ever (`ReadsWaitForRiotAlone`).

None of these damages the stored data. A profile that pairs a row with entries
of a later refresh is possible and contradicts no document; `ProfilesRunForward`
says how far it can go.

## 6. Proofs

What is proved holds for any sets of requests, players, queues and matches, any
lists that satisfy the assumptions, any number of callers, any rate, cost,
capacity and number of attempts, any number of refreshes and reads, and any rows,
scores, crashes and downgrades of the migrations. The assumptions are the named
ASSUMEs of the modules, which TLC evaluates in every run.

`PlayerRefreshProofs`. `EveryMatchHasALink` and `NoForeignKeyViolation` are not
inductive: that a link's match is stored at the moment of the insert depends on
what a coroutine collected many steps before, and that in turn on matches never
being deleted. The invariant `IInv` is `TypeOK`, for each request `TaskInv`
(between which points each local is still empty; what has been planned was in
the store; what is linked is readable, names the player, and is either stored or
among the records) and `TxInv` (how far the transaction is, and that none is
open outside `persist`), and `StoreInv`, the store's own consistency. The
lemmas take one action or one family of actions each; `LocalStep` covers the
many that touch one request's locals only, `StatementStep` the statements of the
transaction, `PublishStep` the two commits. Theorems: `Invariance`,
`TypeCorrect`, `MatchesAreLinked`, `ForeignKeysHold`.

`RefreshStoreProofs`. `ProfileAndRankedAgree` relates two tables that two
statements of a transaction write, so it depends on no other transaction writing
them in between. `WritersInv` is: two transactions that have executed a
statement are of different players (`OneWriter`, by the lock on the player's
row); what a transaction has deleted is still all that is outdated, so it leaves
no entry of an earlier refresh; a stored profile belongs to a request that has
ended, with its entries beside it unless a failed refresh came later (`RowInv`);
and who goes on without a failure has a summoner. `StepKinds` sorts all steps
into those that fetch, write, commit or do nothing to these. From the same
invariant follow the two action properties and, with the effect of a whole
commit, the refinement: `SuccessIsAbstract` and `FailureIsAbstract` map the two
kinds of COMMIT to the two actions of `RefreshStore`. Theorems:
`PlayersHaveOneWriter`, `ProfileAndRankedMatch`, `ProfilesAreKept`,
`FailuresTouchOnlyTheRow`, `Implementation`.

`MatchSyncProofs`. `SyncInv` accounts for every id of a list at every point of
the coroutine: existing, missing, recorded and failed exclude each other, save a
failed backfill, which stays existing (`Parts`); from the plan on none is
forgotten (`Planned`); when the records are complete nothing is missing and
every backfill was linked or has failed (`Through`); and what the plan found
linked still is. Hence `SuccessMeansComplete`, although the plan is minutes old
when it is committed. `SummaryAddsUp` is the same partition by cardinalities.
Records keep the order of Riot's list (`Sorted`), so rows of matches are locked
from the latest to the earliest in every transaction: of a set of transactions,
the one whose next match is the earliest waits for none of the set
(`SomeoneProceeds`), and one that waits for a player's row holds nothing yet.
The order of the lists is Riot's (`MatchListsAssumption`) and no code sorts them:
were it to answer two players in different orders, PostgreSQL could find a
deadlock, and one of the refreshes would take the path of `DatabaseFails`.
Theorems: `SuccessIsComplete`, `TransactionsDoNotDeadlock`, `CountsReported`.

`TokenBucketProofs`. `WindowIsBounded` becomes inductive when what could be
spent at once is counted with what has been spent (`Budget`): the cost of the
requests sent in the window, plus what a refill would leave in the bucket now, is
at most the capacity plus what the rate brought in since the window opened. A
request moves units from the second term to the first, a tick adds the same to
both sides unless the bucket is full. `SleepSuffices` is inductive with the
types, given that a rounded-up quotient times the rate covers the deficit.
Theorems: `TypeCorrect`, `RateIsLimited`, `OneSleepIsEnough`.

`RiotTransportProofs`. `LoopInv` says that whoever waits out a delay has an
attempt left; `DelayInv` that time waited and delay left add up to what was
asked. Both are about `call` alone, so they hold whatever the bucket does. Every
step is one of the bucket or leaves it alone, hence `BucketIsKept`, and
`RateIsLimited` carries over (`RetriesAreLimited`); every step maps to one of
`RiotCall` or to none (`CallsEndOnce`). That the exponential backoff is a
natural number would need an induction, were a power of two not the number of
subsets of an interval, which the library's theorems say (`PowersOfTwo`); with
it the types are proved too. Theorems: these, `TypeCorrect`,
`EveryAttemptIsUsed`, `LoopIsNeverLeft`, `RetryAfterIsKept`.

`PooledServiceProofs`. Each action of the service is an action of `PlayerRefresh`
or leaves its variables alone (`RefreshesAreKept`), so `IInv` and what follows
from it hold of the service (`PooledForeignKeysHold`). `NoConnectionIsLost` and
`LocksHaveConnections` are inductive with `IInv`, with the types, and with the
fact that a refresh which has executed a statement of its transaction has a
connection; that the pool is not overdrawn is an argument about cardinalities.
Theorems: these two as `ConnectionsAreReturned` and `LocksKeepConnections`,
`PoolTypeCorrect`, and what carries over: `PooledForeignKeysHold`,
`PooledStoreIsKept` and `PooledTransactionsDoNotDeadlock`, the last of which with
`LocksKeepConnections` leaves no circle of waits through rows and connections.

`PlayerReadProofs`. `Inv` is `TypeOK`, `CallInv` (a request past its first
SELECT holds a row, and the player has one), `KnownInv` (a stored Riot ID has a
row, and so has every player shown to the client) and `FoundIsNeverLost`, which
is inductive with them because nothing deletes a row. `ProfilesRunForward` needs
the places of the profiles shown in the player's history to be kept from step to
step: `ChainInv` says that such places exist and that a row being held fits
behind them, `EndInv` that the history ends with what is stored. A refresh
extends the history, the first SELECT takes its end for the row, the second its
end for the entries; all other steps are quiet (`QuietChain`). `ListsInv` is what
`MatchLeavesOnlyForLater` and `ChampionsAgreeWithMatches` need: what a list
showed is still joined to the player, because links are only added; a list
shorter than its limit showed everything there was (`ShortListIsComplete`, by
cardinalities); and the keys of the list order it totally, so that a match which
is there and not on a full page has only later ones before it. The order is
strict because the id decides between games that began together. What these
theorems say of refreshes they say of steps of `RefreshStore`, which by
`Implementation` are all that `PlayerRefresh` ever does to the tables. Theorems:
`Invariance`, `TypeCorrect`, `PlayersStayKnown`, `ProfilesForward`,
`MatchesGiveWayToLater`, `ChampionsAgree`.

`MigrationsProofs`. The state between two statements has to be known as exactly
as that between two revisions. `Fits` says of a database at version `v` that its
schema is what the first `v` revisions build and that its rows have the KDA
exactly at the head; `Midway` says the same of the migration's copy with some
statements of the next revision executed, up or down. `MInv` is `Fits(db)`, `Fits`
or `Midway` of the running copy, and that who serves is at the head. The
statements are of eight kinds (`UpTable`, `UpIndexes`, `DownIndexes`, `DownTable`,
`Adds`, `Fills`, `Requires`, `DropsKda`); each is found to be executable and to lead
to the next `Midway`, or at a revision's end to `Fits` at its version (`Runs`,
`Reached`). `OneKda` is arithmetic: a quotient is either a tie of two hundredths
or at least half the reciprocal of the deaths away from one, and the units are
finer than that and even, so that rounding to units first moves nothing across a
tie and a tie stays one (`RoundedTwice`), whichever way the first rounding
decides its own ties. `KdaFits`: 9999 kills and assists fit the column. Theorems:
`MigrationsRun`, `VersionIsTheTruth`,
`ServedSchemaIsTheModels`, `OneKdaIsStored`.

Left to TLC, with the reasons. Liveness: `EveryRequestIsAnswered`,
`ReadsWaitForRiotAlone`, `EveryCallerIsServed` and the fairness of
`CallsKeepTheirPromise` are about leads-to, fairness and ENABLED, which are not
within the provers' reach; the safety part of the last is `CallsEndOnce`. The
four claims of section 5 that the code does not keep are refuted by TLC's
counterexamples. Every other property of a passing run is a theorem.

## 7. Plan

Done: `PlayerRefresh`, `RefreshStore`, `TokenBucket`, `RiotTransport`, `RiotCall`,
`PlayerRead`, `PooledService`, `Migrations` in the order of what can damage data,
and a theorem for every invariant and every action property that a run checks.
Next:

1. the endpoint's answer as a function of what Riot answered
   (`api/admin_players.py`) in the theorems, beside the state it leaves;
2. what a refresh and a session of reads promise together, as one composed
   specification instead of two joined by `RefreshStore`;
3. shorter proofs where two modules argue alike (`QuietWriters`, `QuietSync`).

## 8. Not modelled

- Wording of messages, logging, response schemas, URL building: no state.
- Validation of the request (422): it precedes every effect.
- Numbers inside records, except in the champion statistics: no decision depends
  on them. The KDA of a match is in `Migrations`.
- A missing API key: every call then fails at once.
- The dictionary of buckets per host: buckets of different hosts are independent.
- `refreshed_at`: no clock is modelled in the refresh. It is taken before the
  match synchronisation, so of two concurrent refreshes the one that commits last
  may store the earlier time; nothing in the code promises otherwise.
- Alembic's offline mode, which prints SQL, and two containers that migrate one
  database at the same time: the compose file starts one.
- A match payload under another id than the one requested: Riot's contract.
- Cancellation of a request by its client while it waits for Riot: FastAPI lets
  the handler finish. For a connection lost in the database, see `DatabaseFails`.
