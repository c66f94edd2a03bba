# Pricing platform: TLA+ models and proofs

The pricing platform stores retail prices in PostgreSQL, keeps a Typesense search index and
two response caches in step with them, and shows them in a Flutter client. Its unit tests
cover a login, a health check and one cache class. What is hard about it is what these tests
do not reach: requests of many worker processes that interleave at every `await`, two stores
without a common transaction, workers that die, answers that arrive in any order. These
modules model that, TLC checks it on small instances, and TLAPS proves every safety property
that a run checks, for instances of any size.

Paths below are relative to `src/`; `app/` is `backend/app/`, `client/` is
`frontend/packages/app/lib/src/`.

## 1. The system

| component | state | operations | what makes it correct |
|---|---|---|---|
| manual edits: `app/api/pricing.py` PUT, `PricingService.update_record` | the request's locals | SELECT; UPDATE .. RETURNING, audit INSERT, COMMIT; update of the index; clear of the caches | one audit entry per change; an answer that says what happened |
| feed ingestion: `app/api/upload.py`, `persist_and_index_chunk` | the request's locals | feed row; per chunk parse, upsert, COMMIT, import with retries; close of the feed; failure record | unique business keys; provenance of every value; the feed row tells the outcome |
| catalogue: `app/models/` | `pricing_records`, `pricing_record_audits`, `pricing_feed_uploads` | transactions | UNIQUE, CHECK and foreign keys; prices rounded to two decimals |
| search index: `app/services/typesense_service.py` | the Typesense collection | document update, import, search, facets | a document shows its row |
| retention: `app/jobs/retention.py` | none | one DELETE | expired rows go |
| search: `app/api/pricing.py` GET | the request's locals | cache, index, hydration, fallback, store | an answer is current, or was overtaken |
| shared cache: `app/services/pricing_search_cache.py` | Redis keys with a TTL | get, setex, scan and delete | invalidated by writes |
| in-process cache: `app/core/ttl_cache.py` | an OrderedDict under a lock | get, set, clear | fresh hits, LRU, a bound |
| start-up: `app/main.py`, `app/core/typesense_client.py` | schema, users, collection | migration, seeding, ensure, retries | what is served on is complete; every worker comes up |
| client: `client/state/pricing_state.dart`, `client/ui/search_page.dart` | the form; list, pager, facets, suggestions; request ids | type, filter, turn pages, edit; answers | what is shown belongs to what was asked |
| client: the edit dialog of the search page | the texts typed | open, save, cancel | nothing that was saved is lost |
| access: `app/api/deps.py`, `app/services/auth_service.py`, `app/services/service_api_key_service.py` | users, tokens, API keys | login, role and scope checks, seeding, creation of keys | nobody does what was not its right a moment ago; every upload has an actor |
| client: `client/state/auth_state.dart`, `client/ui/login_page.dart` | session, token sent, form | login, logout, role checks | what is sent, shown and granted belongs to one session |
| Typesense gate: `_get_typesense_semaphore`, the executor, the pool of `app/core/db.py` | slots, threads, connections | acquire, call, release, pause, connect | nothing leaks, nobody blocks everybody |
| demo job: `app/cli/seed_demo_data.py` | the generator, an offset | one chunk after the other | repeatable |
| partitioning: `app/core/partitioning.py` | the table | conversion, monthly partitions | workers serve |

How they interact: a write commits to PostgreSQL first, then pushes to Typesense, then clears
the caches, then answers. A search reads cache, index and database in that order and stores
its answer in the cache. Nothing orders two of these chains with each other beyond the row
locks of a transaction. The retention job touches PostgreSQL only, and in vain. The client sends
requests without waiting for earlier ones.

The hard behaviours, each with its line and the properties aimed at it, are the `hazards` of
`PROJECT.json`.

## 2. The modules

| module | models | builds on |
|---|---|---|
| `Catalog` | abstract: what the catalogue promises its readers | |
| `PricingWrites` | the write paths: edits and uploads, over rows, audits, feeds and documents | |
| `FeedLedger` | what became of the lines of a feed (a history variable over `PricingWrites`) | `PricingWrites` |
| `RetentionJob` | the retention job beside the write paths | `PricingWrites` |
| `FeedReader` | how a CSV file becomes chunks, rows, line numbers and stored prices | |
| `IndexSync` | when a document may differ from its row (a history variable over `PricingWrites`) | `PricingWrites` |
| `PricingSearch` | searches, meta searches and the shared cache, composed with the write paths | `PricingWrites` |
| `SearchRequest` | what a request means to the cache, the index and the database; its pages | |
| `ResponseCache` | abstract: what a cache of answers promises | |
| `TTLCache` | the in-process cache; implements `ResponseCache` | `ResponseCache` |
| `WorkerCaches` | two such caches in each of several workers, and writes that clear one worker's | |
| `TypesenseGate` | requests that compete for slots, threads and connections; retries | |
| `Startup` | several workers starting at once: migration, partitioning, users, collection | |
| `Access` | users, tokens, keys, and what the endpoints let through | |
| `Session` | the client's login, logout and the token it sends | |
| `SearchPage` | the client's search state and page | |
| `EditDialog` | several users editing one record field by field | |
| `DemoSeed` | the demo job, cut off, repeated, overlapping | |
| `Positions` | positions in a list, taken in their order (what a filter leaves) | |
| `PricingWritesProofs` | proofs about `PricingWrites`, the refinement of `Catalog` among them | `PricingWrites` |
| `FeedProofs`, `IndexSyncProofs`, `PricingSearchProofs` | proofs about answers and feeds, the index, the cache | `PricingWritesProofs`, `FeedLedger`, `IndexSync`, `PricingSearch` |
| `SettleProofs` | proofs about `TypesenseGate` and `Session` | `MCSettle` |
| `PartsProofs` | proofs about the seven modules of `MCParts` | `MCParts` |
| `StartupProofs`, `SearchPageProofs` | proofs | the module proved about |
| `MC*` | instances for TLC | the modules checked |

`MCSettle` and `MCParts` put modules without common state side by side: `part` chooses which
of them runs, and the others rest in one initial state. Their product would have more states
and say no more of any of them.

**PricingWrites.** `rows`, `audits`, `feeds` are the three tables, `docs` the collection,
`ed` and `up` the requests in progress. A request's `pc` says at which `await` its coroutine
stands. `EditRead`, `EditWrite`, `EditIndex`, `EditRespond` are the SELECT, the transaction up
to COMMIT, the call to Typesense and the answer of a PUT; `UploadReject`, `UploadStart`,
`UploadPersist`, `UploadIndex`, `UploadFinish`, `UploadFail`, `UploadRespond` the stages of a
POST, `UploadIndex` being one *attempt* of the import. A transaction is one step at its
COMMIT: under READ COMMITTED a second writer of a row waits for the first and continues on the
row it finds then. Two details of SQLAlchemy matter. The object the SELECT loaded stays in
the session's identity map; `UPDATE .. RETURNING` gives that object back with only the
attributes of the SET clause brought up to date (and sessions use `expire_on_commit=False`), so the "new values" of the audit entry and the
document pushed are the request's fields laid over what the SELECT had *read* (`Overlay` on
`seen`), while the row gets them laid over what it holds *now* (`Edited`). That object also keeps
the price as it was sent, a float, where the column is `Numeric(12, 2)`: the row holds the amount
rounded (`Stored`, any function that leaves stored prices alone and may refuse amounts that are
too large), while the audit entry and the document of an edit hold the amount itself. An upload
indexes what RETURNING says its rows hold. And ON CONFLICT DO
UPDATE refuses a chunk in which a key occurs twice (`Acceptable`). Typesense answers 404 to an
update of a document it does not have, and `import_` does not raise for refused documents.

**Catalog** knows no requests: a correction and its audit entry are one step, a file is announced
before its first chunk, and a chunk arrives whole, every line of it a record under the id that
had its key before; nothing deletes a record.

**FeedLedger** keeps for each feed the keys whose records another feed overwrote or an edit moved
off the key (`overtaken`), until the feed holds the key again. `FeedAccounting` exempts exactly
these, record by record.

**RetentionJob.** The job's statement has `:days || ' days'`, so PostgreSQL infers a text for the
parameter, and asyncpg refuses the int that is bound to it; the model has both types and the
foreign key that would refuse the DELETE if the types agreed.

**IndexSync** adds one history variable: the ids that were *disturbed*, by an overlap of two
writes, by a push of something else than the row holds (an edit's price before rounding is one,
from a single writer), or by a push that was lost. It is
cleared by the next write that has the record to itself. `IndexAgrees` says that nothing but
these three can make a document wrong, which is the strongest statement that holds of code
without a queue or a reconciliation job.

**PricingSearch** composes the searches with the write steps. A search is marked `raced` when
a write changes what it has read before it has stored its answer; `owed` says that a write
ended without a clear since the last one. Both are history, and they
delimit exactly what `CacheAgrees` can promise.

**SearchPage.** `PricingState` (requests, list, spinner, banner) outlives the page (form,
timer). `lastId` holds the two request counters; `searches`, `metas`, `edits` the requests in
flight, answered or failed in any order. The server is external: one record with a version
that each served update raises. `hist` is history and appears in no guard.

**Startup.** Each worker goes through migration (one transaction), seeding of users (read,
then insert or update, no retry), and `ensure_pricing_collection` (retried). The stores start
in any state an older version may have left: duplicate keys, audited rows, negative prices (with
or without the CHECK that forbids them), users with other roles, a collection without the newer
fields. A migration that has to add the CHECK fails as long as a row with a negative price stays;
one that goes with the duplicates does no harm, as the DELETE comes first.

PostgreSQL's reasons to refuse the statements of `partitioning.py` are
spelled out (`Refused`): two commands in one prepared statement, a unique key without the
partition column, rows copied to a table without partitions, parameters inside a literal.

**TTLCache** models the OrderedDict as its values and its order; `last` and `recency` are an
ideal cache without a bound, to compare with. `ImplementsCache` says that to its callers it is
a `ResponseCache`, which may forget but not answer wrongly; `EvictsLeastRecent` what it forgets.
**WorkerCaches** leaves the inside of a cache out and asks how old an answer can be when a
write clears only the caches of the worker that served it: `Patience` bounds a search in flight.

**FeedReader** has files of rows, blank lines (which pandas skips) and rows over two lines (a
quoted line break), and prices in tenths of a cent around the half cents and the largest price.
`PricingWrites` starts where it ends: its `Files` are lists of what `FeedReader` accepts or
refuses. One thing it shows is no property: `source_line`, "1-based file line number" in the
comment of `upload.py:93`, counts data rows, so it falls behind after a blank or a two-line row.

**SearchRequest.** Each page of a request is answered by the index (or by what the cache holds
of a request with the same key) or by the database. The filters agree unless a list is made of
empty strings only; pages from the database partition the result only if no two of its records
are of one day, as ORDER BY says nothing within a day.

**TypesenseGate.** A request is a list of what it still needs: connections for statements,
threads for parsing, slots with threads for calls. `asyncio.Semaphore` hands a slot to its
first waiter, an import that failed pauses without slot and connection, a database connection
is kept to the end of its transaction, and the pool gives up on who waits too long.

**Access.** A token carries the role of its login; `lastHeld` (history) says when a user was
last active with a role. A key belongs to no role any more once created. **Session** follows
`AuthState` and `ApiClient` through overlapping logins: what is drawn lags behind the state by
a frame, in which the button may be pressed again (`again`).

**EditDialog.** A price is converted twice: the column rounds what it is sent (`Kept`), the dialog
shows two decimals of what the list holds (`Fixed`), and the two differ on some amounts, as the
one rounds a decimal number and the other a binary fraction. The list holds stored prices after a
search, but the amount as sent after the user's own edit. `overlap` (history) says that a save was
based on a list older than the record, or began with an amount the column does not hold; otherwise
nothing typed is lost, but for the rounding of its column. **DemoSeed** has one generator per run, whose n-th
draw is the price of the n-th product.

## 3. The runs

All bounds are constants of the `.cfg` files; no definition is replaced.

| run | instance | shows |
|---|---|---|
| `Writes` | 3 ids, 2 keys, 4 amounts (one to be rounded, one refused), 2 edits, 1 upload of up to 2 chunks, all faults | type, `UniqueBusinessKey`, `AuditTrail`, `ValuesTraceable`, `AnswersHonest`; refines `Catalog` |
| `Settle` | `PricingWrites` with 1 edit, 1 upload, 3 attempts, failing index; `TypesenseGate` with a search, a meta search, an edit and an upload over 1 slot, 1 thread, 1 connection; `Session` with 2 logins; fairness | `SettleTypeOK`, `SlotsAccounted`, `WaitsEmptyHanded`, `SessionIsOne`, `EverythingEnds` |
| `Histories` | `IndexSync` and `FeedLedger` watching the same 1 edit and 2 uploads with a common key; failing index, dying workers | `IndexAgrees`, `InStep`, `FeedAccounting` |
| `Search` | 2 searches of both scopes, 1 edit, 1 upload, failing index, database and Redis | `SearchTypeOK`, `CacheAgrees`, `CacheInv` |
| `SearchPage` | 3 searches, 2 refreshes, 1 edit, page sizes 1 and 2, fairness | the client invariants, `LoadingEnds` |
| `Startup` | 2 workers with different settings, the second perhaps partitioning, 2 old rows, 2 users, 2 attempts, 1 store failure | `DedupeKeepsNewest`, `ServingIsReady`, `RolesFollowSettings`, `EveryWorkerServes` |
| `Parts` | `TTLCache`: 3 keys in a cache of 2; `FeedReader`: all files of up to 3 pieces, chunks of 2; `Access`: 2 users, 2 releases, 1 token, 1 key; `SearchRequest`: 5 records, 2 stores, pages of 2; `WorkerCaches`: 2 workers, 1 write; `EditDialog`: 2 users, 2 fields, 2 saves; `DemoSeed`: 2 runs of 4 products over 2 days | `PartsTypeOK`, `ImplementsCache`, `EvictsLeastRecent`, `RowsLeadBack`, `ChunkIsTheUnit`, `GrantsAreRightful`, `SettingsWin`, `PagesAgree`, `StalenessIsBounded`, `NothingTypedIsLost`, `SeedIsRepeatable` |
| `AuditDrift` | `Writes` without faults | violates `AuditShowsChange` |
| `IndexDrift` | `Histories` with 1 upload and no faults | violates `IndexCatchesUp` |
| `RetentionStuck` | `RetentionJob` with 1 expired record and 1 edit, no faults, fairness | violates `ExpiredArePurged` |
| `CacheDrift` | `Search` with 1 search and no faults | violates `CacheIsInvalidated` |
| `Partitioning` | `Startup` without store failures | violates `PartitioningServes` |

Why these bounds are enough to be interesting: two edits and an upload make every pairwise
overlap of writers, and a third id lets an edit move a key away and an upload recreate it. The
files contain a second chunk that updates what the first created, a refused price after an
accepted chunk, and a repeated key. Two uploads occur in `Histories`, where
their order matters most. Two searches let one answer from what the other stored. In the
client, three searches are needed for a stale answer to arrive between two later ones; the run
also passes with two edits when there are two searches. In `Startup` a store failure and the
refusal of a colliding statement are enough to end a worker with two attempts. In the gate, one of everything that is scarce and four kinds of
request make every pair compete; one slot is the case in which a lost one stops everything. A
file of three pieces in chunks of two has a blank line or a two-line row before, at and after
the edge of a chunk. One token that lives one of two minutes is used before, at and after its
expiry, on both sides of a release. In `WorkerCaches` a write at one worker meets entries of the
other; an entry lives two ticks and a search takes up to one, and three ticks pass. Chunks of
the demo job are 1 to 3 rows, of which a statement takes 2, so one of its runs is refused.
Symmetry is used only for safety properties, over ids that are not
seeded, over edits and uploads, over searches, and over the workers of `WorkerCaches`. Deadlock
checking is off where all requests come to an end and the system rests. `MaxTime`,
`MaxSearches`, `MaxMetas`, `MaxEdits`, `MaxFaults`, `MaxLines`, `MaxMinute`, `MaxTokens`,
`MaxSaves`, `LastTick`, `LastVersion` and `LastDay` exist for model checking only.

### What the five violations say

Each disagrees with a sentence of the repository, quoted in `findings`:

* **AuditShowsChange** (DD-06). Edits A and B read a record; A commits; B commits another
  field. B's entry shows A's change as never having happened, in its old *and* its new values.
  (An entry also says 10.005 where the row says 10.01: `AuditTrail` allows for that.)
* **IndexCatchesUp** (DD-03). The later commit's push arrives first and the earlier one
  overwrites it. No fault is needed, and nothing repairs the document until the next write.
* **ExpiredArePurged** (docstring of `run_retention`). The int bound to `:days || ' days'` is
  refused at every run (`DataError`), before the DELETE is executed: nothing is ever purged. Once
  that is mended, the foreign key of one audited record will refuse the DELETE as a whole.
* **CacheIsInvalidated** (DD-07). A search that read before a write and stores after its clear
  puts the old answer back, until its TTL.
* **PartitioningServes** (README.md:156). A worker started with
  `ENABLE_PRICING_PARTITIONING=true` fails its migration at every attempt and never serves.

### Fairness

Safety runs assume none. `SettleSpec` (and `RSpec` of `RetentionStuck`): a coroutine that has started
is resumed by its event loop; nobody is obliged to send a request, and no call is assumed to
succeed. `RSpec` adds that the retention CronJob comes round again. For the gate: the event loop runs what is
ready, a free thread takes the next job, a call returns with a result or an error (the client's
timeout sees to it). For the session: a login is answered or fails, and a frame that is due is
drawn; nobody has to log in or out. A part that does not run owes nothing. `PageSpec`: a request in flight is answered
or its connection fails; the user owes nothing. `StartSpec`: workers run on, a worker that has
ended is started again (uvicorn's supervisor, or the Deployment in `infra/k8s`), and stores fail
a bounded number of times.

`EveryWorkerServes` leaves out two starts, in which the migration fails at every attempt and no
worker ever serves: a duplicate that has to go is referred to by an audit entry, or a row that
stays has a negative price and the CHECK is not there yet. It also leaves out the workers told to
partition the table.

## 4. The proofs

Every invariant and action property of a passing run is stated by a theorem, for any value of
the constants that satisfies the assumptions its module names. The bounds (`MaxSearches`,
`MaxSaves`, `LastTick` ...) are constants like the others: the theorems hold for every one of them.

| theorem | states |
|---|---|
| `PricingWritesProofs!TypeCorrect`, `KeysStayUnique`, `TrailIsComplete` | `Spec => []TypeOK`, `[]UniqueBusinessKey`, `[]AuditTrail` |
| `PricingWritesProofs!WritesImplementCatalog` | `Spec => ImplementsCatalog` |
| `FeedProofs!AnswersAreHonest`, `EveryValueIsTraceable` | `Spec => []AnswersHonest`, `[]ValuesTraceable` |
| `FeedProofs!FeedsAreAccounted` | `LSpec => []FeedAccounting` |
| `IndexSyncProofs!IndexFollowsDatabase`, `SynchronizationHolds` | `ISSpec => []IndexAgrees`, `[]InStep` |
| `PricingSearchProofs!SearchTypesCorrect`, `CacheFollowsStores`, `CacheIsOwedOrRight` | `SSpec => []SearchTypeOK`, `[]CacheAgrees`, `[]CacheInv` |
| `SettleProofs!NoSlotIsLost`, `NobodyWaitsHolding` | `GSpec => []SlotsAccounted`, `[]WaitsEmptyHanded` |
| `SettleProofs!TheSessionIsOne` | `SessionSpec => []SessionIsOne` |
| `SettleProofs!SettleTypesCorrect` | `SettleSpec => []SettleTypeOK` |
| `PartsProofs!CacheKeepsPromise`, `LeastRecentGoes` | `CSpec => ImplementsCache`, `[]EvictsLeastRecent` |
| `PartsProofs!StalenessHasABound` | `WSpec => []StalenessIsBounded` |
| `PartsProofs!RowsAreFaithful`, `OnlyItsChunkIsLost` | `FSpec => []RowsLeadBack`, `[]ChunkIsTheUnit` |
| `PartsProofs!ReadersShowTheSame` | `RequestSpec => []PagesAgree` |
| `PartsProofs!GrantsWereRights`, `SettingsDecideRoles` | `AccessSpec => []GrantsAreRightful`, `[]SettingsWin` |
| `PartsProofs!TypingIsNotLost` | `ESpec => []NothingTypedIsLost` |
| `PartsProofs!RunsRepeat` | `DSpec => []SeedIsRepeatable` |
| `PartsProofs!PartsTypesCorrect` | `MCParts!Spec => []PartsTypeOK` |
| `SettleProofs!EachRunsAsItself`, `PartsProofs!EachPartRunsAsItself` | `SettleSpec` and `MCParts!Spec` imply the specification of each of their parts |
| `StartupProofs!StartTypesCorrect`, `NewestRowsStay`, `ServersAreReady`, `RolesAreGiven` | `StartSpec => []StartTypeOK`, `[]DedupeKeepsNewest`, `[]ServingIsReady`, `[]RolesFollowSettings` |
| `SearchPageProofs!PageTypesCorrect`, `TheLatestSearchIsShown`, `TheLatestMetaIsShown`, `ConfirmedEditsAreShown` | `PageSpec => []PageTypeOK`, `[]LatestSearchWins`, `[]MetaFollowsForm`, `[]OwnEditStays` |

### Assumptions

All are named, stand in the module that declares the constants, and are evaluated by TLC in
the runs. They are of these kinds. *Types and sizes*: at least one slot, thread, connection and
attempt, a page and a chunk of at least one row (`ConstantTypes`, `FilterTypes`, `GateConstants`,
`PageConstants`, `FeedConstants`, `RequestConstants`, `WorkerConstants`, `DialogConstants`,
`SeedConstants`, `CacheSize`, `AccessConstants`, `StartupConstants`). *Markers*: a value that
stands for absence is none of the values it could be taken for (`NoneIsFresh`, `NoneIsNoOutcome`,
`AccessNone`, `SessionNull`, `CacheNone` and conjuncts of those above); `None`, `null` and a
missing key are that in Python and Dart. *The initial data*: an edit is no upload
(`RequestsAreDistinct`), the seeded catalogue satisfies its UNIQUE constraint (`SeedIsUnique`).
And one of arithmetic: what has been rounded is not changed by rounding it, nor by showing two
decimals of it (`RoundingIsIdempotent`, `DialogConstants`); how amounts are rounded is left open.
One restricts the scope: `StartupConstants` has no settings with the same e-mail twice, because
the session's identity map would then answer the second SELECT; the case is `Access`'s, for the
one worker it starts.

### Arguments

*Writes.* `TypeOK` alone is not inductive: `EditWrite` types its audit entry only if a request
past its SELECT has an id, the values read and a change, and a pushed document only after
COMMIT. `TypeInv` adds these facts per `pc`. `IInv` conjoins it with `UniqueBusinessKey`,
`AuditTrail` and what links requests and trail: ids in the table have been drawn (`used`), an
edit that has not committed has no entry. The one place where uniqueness is at stake is the
upsert, where a batch meets existing rows; the lemmas about `Placements` and `UpsertedRows`
isolate it. The refinement needs `IInv` only: every write step is a `Correct`, an `Announce`, an
`Ingest` or a stutter; that a chunk arrives whole rests on `Placements`, which gives each of its
lines an id.

*Answers and feeds.* An answer is honest because what it will say is on record before: past
COMMIT an edit has its entry, past its last chunk an upload its processed feed (`Answered`).
A value is traceable (`TraceInv`) because an upload that has left rows keeps its file and an
edit's value enters row and trail in one step; the delicate case is the edit that overlays a
row some upload has replaced since it was read, where the row's new feed explains one field and
the trail the other. `FeedInv` counts the lines read chunk by chunk and says of each decisive
line of a committed chunk that it was delivered or its key is in `overtaken`; what is in
`overtaken` is a key of which the feed holds no record.

*Index.* `IndexAgrees` says nothing while a push is under way. `InStep` does: for an undisturbed
live record at most one push is pending, it carries the row's value, and without one the
document is right.

*Cache.* `CacheAgrees` speaks of quiet moments only. `CacheInv` covers the others: a search not
overtaken has read what still stands, and an answer that no longer stands is one that some write
has yet to scan or to delete.

*Gate.* `GateInv`: what a request does is what it needs next; the two queues list who waits in
them, each once; the semaphore's value and the holders of slots and of connections add up, by
cardinalities; and `CommitsFirst`: between a statement and the next call of what is left of a plan
lies a commit, so nobody asks for a slot with a connection in hand.

*Session.* `SessionInv`: a frame that is not due to be redrawn shows the state, unless a login is in
progress; and as long as logins are not submitted on top of each other (`again`), one that is in
progress finds no session and opens the only one there is.

*In-process cache.* `DictInv`: `order` lists the keys held, each once, and `recency` those ever set;
the keys held stand in both in one order, with one value, and what is gone though it is alive was
used before all that is held. Each step of `TTLCache` is then one of `ResponseCache`, an
eviction a forgetful one.

*Staleness.* `WorkersInv` relates the versions of entries and of searches in flight to the times
at which versions were committed: an entry can hide a write for a life and a search, and one at a
worker that has cleared for the write only if a search was in flight there.

*Feed files.* `FeedInv`: the rows stored are the chunks up to the present one, each with the
number of its row; `InOrder` lists the pieces that pandas keeps. *Pages*: two requests of one
cache key have one filter (`KeyTellsFilter`), the database's order has at most one newest-first
arrangement if no two records are of one day (`NewestIsUnique`), and each position of a list
is on exactly one page.

*Access.* `AccessInv` links each token and key to `lastHeld`: a token's role was held when it was
made, a key's maker was an admin; and whom the settings seeded so far name has the role of the last
of them. *Edit dialog*: a row known under the record's present number becomes the
record when its columns keep it, and a dialog begun with what columns hold shows just that, so a
field left alone is sent as it is (`DialogInv`); saves under way and answered are counted for the
bound (`SavesInv`). *Demo job*:
`SeedInv`, the rows of a day are a prefix of the products, with the stores and prices that follow
from their numbers, and a run has drawn as often as it has passed products.

*Start-up.* What a worker has behind it at each point (`Progress`) is never undone by the others:
`unique`, `checked` and the collection only grow, a negative price that stays keeps everybody at
the migration (`NoneBelow`), and a role is overwritten only by another setting. *Search
page*: `PageInv` has a part per concern; ids are handed out once and the latest is the greatest,
what the latest request asked is `hist`'s, and the history of updates tells which could have been
crossed. The proof goes by the few ways in which a step reaches the requests, not action by action.

### What the attempts showed

* `SettingsWin` used a CASE with overlapping guards, of which TLC takes the first and TLA+
  any. `SendEdit` reused ids of answered updates. Both definitions were corrected.
* Several markers were assumed different from too little (`Absent` could be an entry, `Closed`
  an answer, `Blank` a number). TLC's model values are never equal to anything and hid it.
* Induction over data is out of reach, so "the n-th of a finite set of numbers" (`InOrder`) rests
  on the least element of a set of naturals, proved from the well-founded order on finite
  subsets; `Remember` of the search page and `Without` of the cache are functions on positions.

### What is only model-checked

`EverythingEnds`, `LoadingEnds` and `EveryWorkerServes`: liveness under fairness and ENABLED
are beyond the prover. That a `violation` run's property fails is TLC's to show. The theorems
about gate, session and the seven parts are stated of their own specifications, and hold of what
the runs check by `EachRunsAsItself` and `EachPartRunsAsItself`. A behaviour of `MCHistories` is one of
`ISSpec` and of `LSpec` as it stands: its steps are theirs, taken together.

## 5. What is not modelled

* Columns other than key and price: they travel with the price, which stands for all of them.
  How a price is rounded is `FeedReader`'s, as are NaN prices; elsewhere rounding is any function.
* Ranking, typing errors and suggestions of a search are Typesense's, matching of a text in the
  database is ILIKE's; paging is `SearchRequest`'s.
* Password hashing, JWT signing and the hashing of keys: library code; a token is what it says.
* A partitioned table: PostgreSQL refuses to make one from this code, so nothing runs on it.
* What a role changed by a release does to tokens already issued is bounded (`GrantsAreRightful`),
  although README.md:64 says of a viewer that it "can search only": for up to
  `jwt_access_token_expires_minutes` a demoted user can do more.
* Documents and cached answers of deleted records: nothing deletes any (`RetentionJob`).
* A pager that is used after the form was edited: it asks for a page number of another result,
  which is answered with what there is. A login submitted on top of another and answered after a
  logout: `SessionIsOne` says whose token is sent then, not that the logout stands.
* The order in which the client sorts the list it shows; the upload page but for the refresh
  at its end.
* Rate limits, CORS, health checks, logging, layout, deployment files, stubs: no state of
  their own. `update_price`, `bulk_insert`, `clearMeta`, `clearRecentSearches` have no caller.
* A COMMIT that succeeds but reports failure, and a call that takes effect after its client
  gave up.

External behaviour the models rely on, as the code uses it: PostgreSQL's READ COMMITTED, row
locks, UNIQUE, foreign keys and ON CONFLICT; SQLAlchemy's identity map; Typesense's 404 and 409
answers and per-document import results; Redis's SCAN, DEL and TTL; `OrderedDict`; one thread
per event loop in Python and in Dart.

## 6. Plan

Done in this order: `PricingWrites` with `Catalog`; `IndexSync`; `PricingSearch`; `TTLCache`;
`SearchPage`; `Startup`; `Access`, `Session`, `TypesenseGate`; `FeedReader`; `ResponseCache` and
`WorkerCaches`; `SearchRequest`; `EditDialog`; `DemoSeed`; partitioning; the proofs of all safety
properties; the rounding of prices on the write paths, `FeedLedger` and `RetentionJob`.

Left, most important first:

1. A refinement that says of `PricingSearch` what `ImplementsCache` says of `TTLCache`: to a search
   that no write overtook, cache, index and database together are one store that answers the present.
2. The same for `SearchPage`: a page that shows the answers of its requests in the order in which
   they were sent, forgetting some.
3. Shorter proofs where one argument is repeated per action (`FeedProofs`, the page lemmas of
   `PartsProofs`).
