# Formal model of gomyadmin

gomyadmin is a Go toolkit for admin panels: an application registers resources,
the library serves an HTTP API over them, with sessions, API keys, OAuth sign-in,
an audit log and file uploads, and it comes with a migration runner, a backend
template and a command that generates projects. This directory holds TLA+ specifications of its stateful parts, the TLC
configurations that check them on small instances, and proofs for all instances.

```
tlc -workers 2 -config AdminServer.cfg MCAdminServer          # a run
tlapm AdminServerProofs.tla                                   # a proof
```

`PROJECT.json` is the index: components, runs, which lines each definition models,
one deliberately wrong variant per property that makes the property fail, the
hazards, the findings and the theorems.

## 1. Inventory

| Component | State | Operations | Hard part | Correct when |
|---|---|---|---|---|
| Record API, `pkg/server` handlers and store | resource tables, `gomyadmin_audit_logs`, open transactions | get, create, update, delete, bulk delete, audit insert | every operation but bulk delete is several autocommitted statements; failures, crashes, row locks | one effect per request, within the tenant; refusals change nothing; the log is true and stays within the tenant; locks go; requests are answered |
| Lists, exports, audit log, files | none of their own | count, page, export, read | two statements; pages by offset while others write; four stores that sort, cut and compare differently | a reader sees what it should, once, in order |
| Login limiter, `pkg/auth/rate_limit.go` | times of attempts per address, behind a mutex | Allow | clock read outside the mutex | limit per window; nobody refused for others |
| Migration runner, `pkg/migrate` | schema, history table | Up | concurrent deployments, crashes, self-committing DDL | nothing runs twice or out of order; nil means up to date |
| Session stores, `pkg/auth`, and the Redis adapter | a map, a table, items of a cache or of Redis | Create, Get, Delete, Cleanup | two clocks; Go code between cache steps; failures; the end of a process | Get tells something true; no live session is lost |
| Server life, `pkg/server/server.go` and the template's `NewServer` | the pool, which tables exist, which stores were chosen | New, Close | several migrations that may fail half way; death and restart; who owns the pool | New is all or nothing |
| In-memory cache, `pkg/cache` | map behind a RWMutex | Get, Set, Delete | Get deletes after it has let go of the lock | nothing that the sessions rely on is lost |
| Login, logout, session middleware | session store, cookies, audit log | handleLogin, handleLogout, Start, End, Middleware | requests in flight while a session ends; errors thrown away | deleted or logged-out sessions let nobody in |
| OAuth sign-in | one signed cookie per browser; nothing on the server | start, callback | tabs share the cookie; callbacks reloaded | a session needs the browser's own recent flow; one per flow |
| API keys | `gomyadmin_api_keys` | Create, Authenticate, Revoke | the row is judged after it is read; update after the judgement, with another reading of the clock | revocation and expiry are final |
| Uploads, `pkg/storage` | object storage and `gomyadmin_files` | upload, download | no transaction spans both; partial writes; crashes | what is listed is whole and can be read |
| Backend template | its own tables, memory sessions | logins, create, update, delete, actions, audit | no transactions anywhere; users are rows too; deletes cascade | confirmed changes hold, events are real, tenants apart but for the cascade |
| database/sql and MongoDB adapters | as the store they replace; a pool of connections | create, update, delete, bulk delete, audit; lists as above | a transaction that reads with other connections; none at all; ids that clients choose | as above, and who waits for a connection or a lock stops in the end |
| Filters, pagination, query builder (`pkg/filters`, `pkg/pagination`, `pkg/postgres`) | none of their own | parse, Count, Select | what the parser lets through the builder must keep | as for lists |
| Audit package, `pkg/audit` | a slice behind a mutex, or a table | Record, List | the clock is read before the lock; events that bring their own time | newest first, nothing missing |
| Commands that write files, `internal/generator`, `internal/cli` | the project directory | init, demo, generate resource, generate from-schema, openapi | four system calls per file; removal after an error; two commands at once; kills | nothing that was there is lost; what was reported is there |
| Registry, permissions, GORM adapter, OpenAPI, logger, CSRF, password hashing, other commands, doctor, introspection, worker, frontend | none that lives between calls, or plain configuration | | sequential | not modelled, see section 8 |

How they interact: a request passes the middleware (session cookie or API key),
which puts an actor into its context; the handler asks for permission, runs the
statements of the store, writes its event and answers. All requests run in
goroutines of their own and meet only in the database, the session store, the
limiter's map, the object storage and, for OAuth, in the browser's cookie. Errors
of the audit insert, of `Store.Delete` on logout and of the template's custom
actions are thrown away by the code, and the models do the same.

## 2. Modules

| Module | Models | Depends on |
|---|---|---|
| `AdminServer` | record handlers and PostgreSQL store, a statement per action | `TenantTable` (abstract) |
| `Listing` | List of the four stores and of the query builder, with their where/order/limit/offset, exports, Audit and Files, the two logs of pkg/audit, the grid that turns pages | |
| `RateLimiter` | clientIP and Allow | |
| `Migrate` | FromFS, Up, applied, apply | `MigrationHistory` (abstract) |
| `SessionStore` | the contract of the interface SessionStore | |
| `MemoryCache` | Get, Set, Delete of the cache, a lock section per action | |
| `SessionStores` | the memory and PostgreSQL stores, and the cache store on MemoryCache and on Redis | `MemoryCache`, implements `SessionStore` |
| `Server` | New, Close, death and restart of a server, and NewServer of the template | composes with `SessionStores` |
| `Sessions` | login, logout, middleware and their audit | uses `SessionStore` as its store |
| `OAuthFlow` | OAuthStateManager, Exchange, the callback, browser, provider | |
| `APIKeys` | PGAPIKeys and its handlers | |
| `Uploads` | handleUploadFile, handleFile, Put/Get of three adapters | |
| `BackendTemplate` | internal/app/server.go and store.go of the template | |
| `AdapterStores` | sqlstore and mongostore behind the handlers of pkg/server | extends `BackendTemplate` |
| `Generator` | the commands that write files | |
| `AdminServerProofs`, `OAuthFlowProofs`, `APIKeysProofs` | theorems | the module they name |
| `DatabaseProofs` | theorems | `Migrate`, `Listing` |
| `FilesProofs` | theorems | `Uploads`, `Generator` |
| `LoginProofs` | theorems | `RateLimiter`, `Sessions` |
| `ServerProofs` | theorems | `Server`, `SessionStores`, `MemoryCache` |
| `BackendProofs` | theorems | `BackendTemplate`, `AdapterStores` |
| `MC...` | instances for TLC: calls, builds, workloads, symmetry | the module they name |

Conventions. A process is a request (a goroutine); `pc` or `step` is the statement
it executes next and `outcome` or `answer` what its client is told. One action is
one SQL statement, one lock section or one external call together with the Go code
up to the next one, because only there can another goroutine or process be seen.
Variables marked "ghost" are not in the program; they remember what properties are
about and no guard reads them, with one exception: the `failed` sets of
`BackendTemplate` bound the number of faults. Definitions marked "(wrong variant:
...)" are not part of a specification; each is a plausible bug that the run named
in `PROJECT.json` detects.

### AdminServer
`rows` is the table, `pending[r]` the rows that the open transaction of `DeleteMany`
has deleted and keeps locked, `old`/`new` are what the handler will log. `Begin` is the
permission check and the validation, `Read`, `Insert`, `Change`, `Remove`, `Reread` the
autocommitted statements of Get, Create, Update and Delete, `Select`, `Erase`, `Commit` the
transaction of DeleteMany, `Audit` the insert of emitAudit and the answer. `Fail` is any
failing statement or the request timeout, `FailAfterEffect` one whose answer is lost,
`Crash` the end of the process. PostgreSQL is modelled from its use: READ COMMITTED,
row locks until the end of the transaction, deadlock detection (`DeadlockAbort`).
The ids of a bulk delete are a set and are taken in any order, which includes
opposite orders of two requests; the same id twice in one body is left out.

### Listing
A row has a tenant and the value of one column, which is sorted and filtered by. `store`
picks the server: what differs is the comparison (`PostgresMatches` casts to text,
`SqlMatches` does not, `MongoMatches` compares a string with whatever is stored), the order
without a sort parameter, and the cap: beyond it per_page falls back to the default
(`PostgresLimit`), in the template to the cap (`TemplateLimit`), while meta repeats what was asked for.
`MongoFilter` keeps one condition of several on one column: the keys of a bson.M are unique.
`CountPostgres` and so on and `Select` are the two statements of `List`; `Turn` is the Next
button of the data grid, which goes on while `page * per_page < total`. `builder` is an application on pkg/filters, pkg/pagination and pkg/postgres: `Parsed` keeps what
a field's type allows, `BuilderFound` and `BuilderOrder` are the clauses, the order ends in
the primary key. `pglog` and `memlog` are the two stores of pkg/audit, whose default and limit stand for 100
and 200; the memory log lists in the order of arrival (`Ranks`), backwards, whatever times its
events bring. The audit log and the
files are one statement each; other requests write rows in between (`InsertRow`, `RemoveRow`,
`UpdateRow`). `Honoured` names the filters a store can keep: ranges of numbers compare by
their digits in PostgreSQL (store.go:518), although docs/filters.md:11 lists number ranges. Text
is digits, which is enough to tell its order from that of numbers.

### RateLimiter
`ReadClock` is `time.Now()`, `Allow` and `Refuse` are the section under the mutex. A call
may be held up for `Delay` ticks between the two.

### Migrate
A runner is a call of Up with the directory of its build. `transactional` is chosen at
the start: with it, `Execute` and `Record` take effect at `Commit`; without it (MySQL) the
SQL is in effect at once and the history row follows. `RowIsFree` is the wait for
an uncommitted row with the same primary key.

### SessionStore, MemoryCache, SessionStores, Server
`SessionStore` is what the middleware relies on: a session goes from new to live to gone
and Get answers something that was true while it ran. `SessionStores` has four
stores. The memory and PostgreSQL stores act in one step; the cache
store is Go code (`Create`, `GetFound`, ...) around the lock sections of `MemoryCache`, whose
`Evict` deletes by key what an earlier section judged. PostgreSQL judges by a clock that
is `Skew` ahead of the one that set the expiry. On Redis the cache store's Get and Delete are `RedisGet` and `RedisDel`, and
its answers may be lost. `ProcessEnds` empties what lives in memory and leaves the rest; a session
it took is gone, which the contract allows to the end of a process alone.

`Server` puts a life around this: `New` judges its Config, `Connect` makes a pool unless one was
given, `Migrate` runs once for each store that New has chosen, `MigrateFails` is any of these that
fails, before or after its effect, `Close`, `Die` and `Restart` end and begin processes on the same database. `cfg` is
every combination of Store, DatabaseURL, Pool, APIKeys and SessionStore, and the template, which
has its own schema, its first rows (`Seed`) and API keys, in this order, and sessions in memory.
While the server is up it serves (`Serve`) the operations of `SessionStores`.

### Sessions
Logins, uses and logouts on any store that keeps the contract. `past[r]` remembers what
had been deleted and what logouts had been confirmed when r began. `kept` are sessions
whose delete failed during logout (`End` returns nil all the same), `lost` the audit
events whose insert failed.

### OAuthFlow
The server keeps nothing of a flow. `jar` is the state cookie of the browser, shared by
its tabs; `Verify` judges a callback by the cookie it carries, `ReceiveAnswer` clears the
cookie, `Exchange` asks the provider, who takes a code once.

### APIKeys
`LoadByPrefix` reads the rows, `Check` judges one by the clock (apikey.go:155), `Compare` compares the hash and, if it is
right, reads the clock again (161), `Touch` writes that second reading to last_used_at: four steps
that revocations, and instants, may fall between, so that last_used_at may lie after the end of a key that was
judged in time. `judged` remembers the first reading. Prefixes may collide. `Fail` covers statements that
fail before or after their effect.

### Uploads
An upload stores its object (`Upload`, `CopyChunk`, `Stored`), inserts its row (`AddFile`) and is
audited. Local storage writes under the final name chunk by chunk; memory and S3
store at once, S3 may lose its answer. `LocalGet`, `MemoryGet` and `S3Get` are what a download is
given to copy: a file or the body of an answer may break off after status 200 has gone out.
`Crash` ends all requests, the operating system goes on. The content type is not modelled: Local does not keep it (local.go:98), memory and S3 do.

### BackendTemplate
Rows of all resources in one map, the audit log as a resource of its own whose rows
(named by their request) can be targets too. A row has a place, which is its own for ever, and an id (`Id`); the
template draws ids once, but clients of the adapters may name them. Put into the table are rows by `Add`, `Amend` and `Wipe`, the
effects of one statement each. A row has at most one foreign key, "parent", whose table is `Referred`: `Add` and `Amend` accept
every row of that table, of whatever tenant (`MayRefer`), and `Wipe` deletes with a row those that refer to it, and
those that refer to them (`Cascade`, the `on delete cascade` of schema.go:37, 48, 58 and 68, whose depth is two). `Rejected` is a
constraint that refuses the values; which values is left open. Update is `Select`, `Update`, `Reread`, three
separate statements. Logins by password (`Authenticate`) and by OAuth (`ActiveUserByEmail`) read the
user's row, which others block or delete. `Abort` has the two ways to go on after an error: the handlers of
update and delete answer 404 or 500; `action` throws the error away, audits, and
answers 200.

### AdapterStores
The statements of create and update are those of `BackendTemplate`; what it adds is the bulk
delete, of which a delete is the case of one id. sqlstore opens a transaction (`BeginTx`), reads each
record with another connection (`SqlGetOld`), deletes within the transaction (`SqlErase`) and
commits. `Waits` says who waits: for a free connection of the pool, which open transactions keep
(database/sql hands out no more than MaxOpenConns), or for a row another transaction has
deleted. Nobody waits for ever, because the request times out or the database breaks the
deadlock (`GiveUp`); with a pool of one every delete ends so. mongostore has no transaction: a bulk delete that
meets a missing record has deleted the ones before it, answers 404 and logs nothing.
A create keeps the primary key of its body if there is one (sqlstore.go:114, mongostore.go:99): `ServerBegin` takes any id,
taken or deleted before. sqlstore's `Add` finds a primary key in its way; in MongoDB two rows may have
one id, and an update or a delete hits one of them (`Hits`). `Number` is an id that is stored as a number
and looked up as a string, which finds nothing (mongostore.go:115; in SQL, a number that fmt.Sprint writes with an exponent):
the row is there and the create answers 500. The tables have no foreign keys here, because the application declares them. An action without a
registered handler is audited and acknowledged; with one it is code of the application.

### Generator
A process runs one command in one project directory. `disk` and `dirs` are what is there, `run[p]` the local
variables of the command; a file takes Stat (`StatAbsent`, `StatExists`), MkdirAll, open, which
empties it, and write (`MakeParents`, `Open`, `Write`), and in between other commands run. `Fails`
is any call that fails, `RemoveWritten` and `RemoveRoot` are InitProject's deferred removal, `Killed` an interrupt.
InitProject ranges over a map, so its files come in any order. Two directories and three files stand
for the tree; what a template renders to is whole or partial, and `of` tells for which table it was.
`at` is the place of the loop over the tables, `reported` the places of those it has reported.
A table's name becomes a resource's by making words singular, so two tables may meet in one file.

## 3. Runs

Every configuration sets CHECK_DEADLOCK FALSE: an instance has finitely many requests, each
is handled once, and when all are done nothing is left to happen, so the system does stop. That no request hangs is
checked as a property (`BegunIsAnswered`, `UpReturns`).

| Run | Instance | Shows |
|---|---|---|
| `records` | 3 requests, 2 ids, 2 tenants, a super admin; either all fight over one id or two are bulk deletes of both ids; failures and crashes | `GoneOnceAudited`, `RefusalHasNoEffect`, `AuditWithinTenant`, `LocksInTransaction`, `ImplementsTable` (refinement of `TenantTable`), and under fairness `BegunIsAnswered`: no request hangs, also when bulk deletes lock in opposite orders |
| `records_unaudited` | one update, one delete, no failure | `ChangesAreAudited` is violated, see section 6 |
| `limiter_bound` | 4 calls, 2 addresses, one behind a proxy; limit 2, window 3, delay 1, 6 instants | `LimitPerWindow`, `RefusedForCause` |
| `migrate` | 3 runners of successive builds, or 2 of builds with edited, inserted and duplicate migrations; with and without transactional DDL; failures | `AtMostOnce`, `HistoryIsTrue`, `OkMeansUpToDate`, `ImplementsHistory` (refinement of `MigrationHistory`), and `UpReturns` under fairness |
| `session_stores` | every Config of New on an empty or a full database; 3 calls, 2 sessions, each of four stores, time to live 2, clock skew 1, instants up to 4; the process ends once while it serves; New fails at any part, restarts | `NewIsAllOrNothing`, `ImplementsSessionStore` (refinement of `SessionStore`), `LosesNoLiveSession` |
| `login` | 4 requests, 2 sessions, failures | `NoAccessAfterDeletion`, `LogoutIsFinal`, `AuditedBeforeUse` |
| `list_walk` | 4 stores, the query builder and the two logs of pkg/audit, 3 rows, 1 tenant or none, values 5, 7 and 12, cap 2, default 1, per_page 0 to 3; every operator on a walk nobody disturbs; 1 write, on pkg/server's store 2, on walks without filter | `QuietWalkIsComplete`, `ArrivalsHideNothing`, `ReadingIsWhole` |
| `key_life` | 3 requests, 2 keys with one prefix, an actor and a super admin, 3 instants | `EndIsFinal` (revocation and expiry), `LastUsedIsTrue` |
| `oauth_tabs` | 2 flows, 3 callbacks, 3 instants, failures | `SessionHasFlow`, `OneSessionPerFlow`, `StateRefusedForCause` |
| `uploads` | 2 uploads, 2 downloads, 2 tenants or none, three adapters, bodies of 2 chunks | `CatalogueIsWhole`, `DownloadsAreWhole`, `ConfirmedCanBeRead` |
| `template_edit` | the template: 3 edits of one row; or 2 requests of two tenants with a fault, also on audit events; or 3 with logins and a fault; or 3 creates and deletes of rows of one tenant that refer to a row of another. sqlstore with pools of 1, 2 and 3, mongostore: any 2 requests with a fault, 3 that update and delete in bulk, 3 of which some create an id again | `EventsWereReal`, `UpdatesAreIndependent`, `DeletedStaysDeleted`, `ChangesAreAudited`, `LoginWasActive`, `TenantsAreApart` |
| `commands` | any 2 commands, with and without --force, on a project of 3 files and a schema whose two tables are one resource; files of a user may be there; 2 faults or kills | `KeepsWhatWasThere`, `CreatedIsComplete`, `FailureCleansUp`, `ReportIsTrue` |

Why the bounds are enough. Every hazard of `PROJECT.json` needs two actors and at most
one disturbance between two of their steps, so three requests include each race and a
bystander; a third actor is what makes a stale read worse (a limiter call overtaken
twice, a runner that restarts while two others race). Two ids are the least for opposite
lock orders and for a bulk delete that fails half way. Two tenants and a super admin
are all that a where clause can tell apart. Clocks run for longer than one lifetime
plus the skew or delay, so that every comparison is made at, before and after its
boundary. A body of two chunks has a partial state; a cap of two and three rows give a last
page that is full, one that is not, and a request above the cap. The values 5, 7 and 12 are in one order as numbers and in
another as text. `MattersInit` of MCListing leaves out combinations that repeat others: rows of another
tenant on filtered walks, writes on columns other than created_at. MCMigrate orders the
builds of its runners, and other runs use symmetry sets: they are sound, because runners
and requests are interchangeable in both the specification and the properties;
the liveness properties are checked without symmetry sets.

`AuditWithinTenant` speaks of every old and new value in the log. It makes one exception, which
is reachable: Create rereads by id as super_admin (store.go:232), and when its row has been
deleted and the id taken by another request in between, the event holds that request's record.

`CreatedIsComplete` speaks of an init that had the directory to itself, or beside inits that were
created too: two inits of one directory may both pass the conflict check, and the removal of the one that
fails takes files of the other. It leaves out whether the file that openapi writes is whole: openapi may be
killed over it. `FailureCleansUp` counts what a failed init leaves, whatever runs beside it.

Over the template and the adapters the properties make these exceptions, all of them reachable. `TenantsAreApart`: the cascade. A
delete has the tenant in its where clause, but the schema then deletes what refers to the row, and a foreign key
does not look at tenant_id; the property says how far that goes, to rows at one or two foreign keys from one that
the request may delete. `DeletedStaysDeleted`: an id may be inserted again, after the statement
that deletes (`older` are the rows from before it), and of several rows with one id MongoDB deletes one.
`UpdatesAreIndependent`: an update whose row goes in between and comes back by a create of the same id is
confirmed with that row. `ChangesAreAudited`: a row that is gone before it is read again, the bulk delete of
mongostore that meets a missing record, and the create with `Number` for its id.

`TypeOK` is part of the invariant that is proved, in every module that has theorems.

## 4. Fairness

`AdminServer` and `Migrate` state weak fairness of `Statement(r)`: once a request or a call of
Up has begun, the Go scheduler runs its goroutine and the database executes what it is
sent or, with a deadlock, aborts it. Weak fairness suffices, because a statement that waits for a lock
becomes enabled for good when the holder ends. Nothing is assumed about `Begin` and `Start`
(clients and operators may never come), failures, or crashes. The other modules are
checked for safety only and state no fairness.

## 5. Proofs

The theorems hold for every value of the constants that satisfies the modules' assumptions:
any number of requests, ids, tenants, runners, builds, calls, hosts, sessions, flows, keys and
files, any lifetime, skew, delay and number of chunks. Where a module assumes of a constant more than its type, it
is that a nil (`None`, `Nothing`, `Missing`) is none of the values it stands beside, that two kinds of process are
different, or, in `Listing` and `Generator`, what a request or a command line can be: a request has finitely many
conditions (and may have none), a default page size is within the cap, values have at most two digits, which decides
nothing but how often the comparison of two texts has to go on, and no resource has the path of one of the project's own files.
Each inductive invariant below has also been checked by TLC on the instance of its run.

**AdminServer** (`AdminServerProofs`). None of the checked invariants is inductive. That a record
reported as deleted is gone rests on the row lock: between the select and the delete of a
bulk delete the record may vanish, but it cannot reappear as the same record, since ids are
reused only by records of another origin. `IInv` says this in parts: `LabelsOfOperations` (a
label belongs to one operation of an authorised request), `Lookups` (what was read was asked
for and is visible), `Origins` (a record exists only after its request has inserted it, and
keeps its tenant), `TenantOfCreator` (a row carries the tenant of the request that inserted it, which is what a super
admin's reread cannot check), `SelectedIsLockedOrGone` and `ReadIsGone` (what a delete has read is locked, or still
to do, or gone), `Bookkeeping` (events are written last, effects happen once). From it follow
`TypeCorrect`, `DeletedIsGone`, `RefusalsRefuse`, `LocksReleased`, `LogWithinTenant`, and `Refinement`:
each step is one step of `TenantTable` or leaves it alone.

**Migrate** (`DatabaseProofs`). A runner decides by a history it read long ago; what keeps it from
repeating a migration is the primary key. `IInv` adds `Positions` (the loop is within the plan, and
what it has read is still in the history), `Reserved` (a runner about to commit holds a row
whose version is in no history and in no other transaction) and `Executed` (without
transactions, the SQL comes before the row). From it `RunsAtMostOnce`, `HistoryTellsTheTruth`,
`NilMeansUpToDate` and `Refinement`. No assumption is made on the builds: directories may diverge.

**Listing** (`DatabaseProofs`). The invariant has to say of every page in between what the properties say of the end, and
that takes the place of a row: `Ahead(i)` are the rows the reader asked for that precede i in the list, `Place(i)` how many.
`Key` maps the values of a column to numbers, so that its own order, of numbers or of texts (`TextOrder`, by the cases of one
and two digits), is that of the keys (`BeforeIs`), hence strict and total where nothing ties or ties are broken (`PrecedesIs`).
From there whatever sequence a statement sorts into, its k-th row has k - 1 rows ahead (`RowPlaces`, `ListPlaces`): a page is
known by the places on it, although each statement may sort anew (`ItemsAre`). `Quiet` says that without
writes what is shown are the first rows by place, as many as the pages so far hold, and that the total is
the length of the list: `QuietWalkHolds`. `Arriving` says that rows which arrive are ahead of all that were there, so that
the place of an old row only grows (`ArrivalIs`), and that every old row whose place is before the end of the pages so far
has been shown; a torn count breaks the last step, from total to all: `ArrivalsHold`, for any number of arrivals.
`Reading` is about the readings of one statement: `ReadingHolds`. `FoundIs` shows for each store that what it selects is what was asked for wherever
`Honoured` says so: the comparison as text is that of the column unless the column is a number and the condition a range, and the one
condition that MongoDB keeps is all there is.

**RateLimiter** (`LoginProofs`). `LimiterInvariant` is what the run checks, together with what makes it inductive: `DroppedAreOld` says that an entry is forgotten only when it
is out of reach of every call that may still take the mutex; `StoredAreAdmitted` and `Clocks` support it.
`LimitHolds` and `RefusalsHaveCause` follow. `ExactWithoutDelay` shows that with Delay = 0, that
is with the clock read under the mutex, the limiter is an exact sliding window
(`SlidingWindow`). With a delay it is not: one call too many may be admitted in a full window.

**Sessions** (`LoginProofs`). Over any store that keeps the contract. `IInv`: `Types`, `Places` (which stages
belong to which kind of request), `Deleted`, `Confirmed`, `Audited`. `DeletedSessionsAreShut`,
`LogoutEndsTheSession` and `AuditIsAhead` follow, with failures. `ServersImplement` shows that the stores New can choose do keep it.

**Server, SessionStores, MemoryCache** (`ServerProofs`). `WiringInv` is about New: its parts come in their order, on an open pool
(`PartsInOrder`), so that every way to "up" has been through all that is needed; `AllOrNothing` follows.
`StoreInv` is about the four session stores at once, and is proved of any step a store may take
(`SessionStep`), so that it holds for the stores by themselves and for those of a server alike. That the cache judges an item
in one lock section and deletes by key in a later one would be wrong if an item could be
replaced in between. It cannot: `WillStore` and `CreatorsDiffer` say that a place is filled once, by the one
Create that was given the id, so what a Get has read is still there or gone for good (`Remembered`, `Ended`, lemma
`Persist`), and an item never expires before its session (`Outlasts`), which is why "not found" is no lie
although item and session are judged by two readings of the clock. `OperationItems` sums up what an
operation does to the items: nothing, or it erases what its Delete is about or what has ended, or it fills an empty place.
From these `ServersLoseNothing` (`LosesNoLiveSession`) and, step by step, the refinement `ServersImplement`: BeginGet is
the contract's Get (`AskMoves`), an answer its Answer (`AnswerMoves`, what is answered is in `seen`: `AnswerIsTrue`),
every other step its Move (`StepMoves`, from `SessionsMove`). The deaths and
restarts of a server are steps of `SessionStep` or leave the store alone (`ServerStepsStore`).

**OAuthFlow** (`OAuthFlowProofs`). The server remembers no flow, so the invariant has to follow the cookie and the code.
`Cookies` says of a flow under way that the browser has its cookie, or it is too old, or it was
disturbed, and the same of what a callback carries; from it `RefusalsHaveCause`. `Callers` says in which steps a
callback has passed Verify, and that cookie and age were right then: `SessionsHaveFlows`. `Codes` says that whoever holds
the answer of the token endpoint has used the code up and is the only one to hold it, from the exchange
to the session and after: `FlowsStartOneSession`.

**APIKeys** (`APIKeysProofs`). `EndIsFinal` is about the time between the select of Authenticate and its judgement.
`Authenticating` says that a loaded row may be behind the table in its revocation and last use only, and
has the revocation if that was there when the request began; `Judged` that the first reading of the clock was taken after the request began
and found the key alive, and `RequestOK` that the second, which becomes the last use, is no earlier than the first; `IdsAreFresh` that no insert gives an id a second life. `EndsAreFinal`
and `LastUseIsAUse` follow; `KeysStayWhatTheyAre` says of every step that it removes no key, changes neither
its owner nor its expiry, and takes no revocation back.

**Uploads** (`FilesProofs`). `UploadOK` says how far the object is when the row is inserted, and the row when the
answer goes out; `DownloadOK` what a download has found that gets past FileKey. From them `RowsNameWholeObjects`,
`DownloadsDeliverFiles` and `ConfirmedFilesAreFound`, with failures before and after their effect and the death
of the process at any step; `RowsArePermanent` says that no step takes a row back.

**Generator** (`FilesProofs`). Nothing but the file system stands between two commands, so the invariant says of each file who made it
and who is at it. `Shape` ties the local variables of a command to where it is. `Companions`: two that run at the same time
know of each other, so a rollback that does harm is seen by those it harms. `Kept` says that what a command is about to write, or would remove, was not there when it began, unless --force
named it: `KeptHolds`. `Cleanable` counts the files that an init has made and its rollback would not find: none before it opens one,
that one until it is remembered, and at most one for each failed call after that: `FailureHolds`. `Partial` says of a file of the project that is not whole that
an init is writing it or has failed, and `Creating` which files are there, and by whose hand, as long as no init beside it has
failed: `CreatedHolds`. `Reporting` says of each table that from-schema has reported that its file is whole and its own until
the turn of a table that may overwrite it: `ReportHolds`.

**BackendTemplate, AdapterStores** (`BackendProofs`). Nothing locks a row from one statement of a request to the next, and an id may have
several rows one after the other, or in MongoDB at once. So the invariant is about places, and what no other request can take away from
one. `Settled` says of a place that its insert is behind it: its row exists, existed or never will (`Rows`). From then on it keeps its id, its row may
change or go, but not come back, and keeps its tenant (`PlaceStays`, `GoneStays`, `MineStays`). `Effect` sums up
what the steps of both modules, for all three stores, do to the tables, and `RowSteps` what becomes of a single row: it stays, is
amended or deleted by a request that may, goes by a cascade, or is new.
`OthersKeepShape`, `OthersKeepRecords` and `OthersKeepEdits` use these alone, and the lemmas `Own...` go through the actions. `Watching` (a request has
seen what the rows with its ids are) gives `EventsAreTrue` and, with `WasActive`, `LoginsOfActiveUsers`; `Edited` gives `UpdatesKeepApart`: whoever overwrites a
confirmed field has named it, and where none was hit a create has come later. `Bulk` and `Deleted` say how far a bulk delete is, in the transaction of sqlstore and without one in mongostore, and of
each id it is done with that no row from before its statement is in reach but those it holds (`Cleared`, `hit`): `DeletesAreFinal`. `Trail` follows a change to its event, with the early
returns in between (`NothingFound`): `ChangesLeaveEvents`. `TenantsStayApart` is the
action property, from `RowSteps`. The theorems are about `AdapterSpec`, of which the template is a case.

Model-checked only, on the instances of section 3: liveness under fairness (`BegunIsAnswered`, `UpReturns`), which the provers do not
reach. Every other property of a passing run is a theorem.

## 6. Findings

`records_unaudited`: Update is get, update, get (store.go:277). If another request deletes the
record before the last get, the handler answers 404 and never reaches emitAudit, although the
update was applied. docs/audit-log.md says that events are emitted for updates.

Seen while modelling, written down as hazards with the reason why no property
asks for more: number ranges compare digits in PostgreSQL and match nothing in MongoDB
(store.go:518); per_page above 100 is 25 or 100 to the store and itself to the client (store.go:127); a bulk delete
of sqlstore needs a second connection and with a pool of one always times out (sqlstore.go:209);
one of mongostore can be half done, unlogged and answered 404 (mongostore.go:173); a create with a number for its id
may be answered 500 and stay (mongostore.go:115); the template's deletes cascade without an event, and over tenants (store.go:295, schema.go:37); a download that
breaks off looks complete (handler_files.go:95); a create rereads by id as super_admin and may return and log another tenant's
record (store.go:232, the exception of `AuditWithinTenant`); a logout whose delete fails is confirmed (session.go:114); the limiter
may admit one too many (rate_limit.go:42); two runners on MySQL may both run the
same SQL before the primary key stops one (migrate.go:75); the cache may evict a value that has just
been set again (cache.go:44); the template's custom actions confirm what they did not do
(server.go:467); with a Store of its own as well as DatabaseURL or Pool, an application gets sessions in memory
and no API keys, because New takes up a pool only where there is no Store
(server.go:173 to 217), where the comments at server.go:63 to 69 can be read otherwise; the comment on Handler
(server.go:251) says "same router each call", but each call builds one, with a login limiter of its own;
a failed init leaves the directories and the file it could not finish, which CHANGELOG.md:166 calls an atomic rollback, and
`demo` takes what is left for a finished project (cli.go:316); two inits at once may each undo the other
(generator.go:180); from-schema answers 0 after a table that failed (cli.go:424); the template
sends its seed, many statements with an argument, in one Exec, which pgx's extended protocol refuses
on an empty users table, while docs/free-demo-deploy.md:29 says that seed data is created at
startup (store.go:596; the model lets `Seed` succeed or fail).

## 7. Plan

Order of work, the most important first; the first seven are done.

1. Records, limiter, migrations, with refinements and proofs.
2. Sessions, from the cache up, and the rest of sign-in: OAuth, API keys.
3. Lists, uploads, the backend template, and the adapters beside it (`AdapterStores`).
4. The rest of the lists: parsers, query builder, the audit package.
5. The life of a server around the session stores, with Redis, death and restart (`Server`).
6. The commands that write files (`Generator`).
7. Proofs for `OAuthFlow`, `APIKeys`, `Uploads`, `Server`, `SessionStores`, `BackendTemplate`,
   `AdapterStores`, `Generator` and `Listing`.
8. sqlstore split off from `AdapterStores`, and which of its steps keep to `TenantTable`.
9. `Permissions`: rbac and tenant predicates as operators checked against reference definitions.
10. A run for the number ranges of docs/filters.md:11. The frontend's other calls: a search that keeps the page,
   bulk deletes that the template's backend has no route for.

Abstract specifications: `TenantTable`, `MigrationHistory` and `SessionStore` exist; step 8 will show
what of sqlstore implements the first.

## 8. Not modelled, and why

- Registry, OpenAPI, logger, doctor, introspection, the commands that write no file: sequential code that builds
  values or text, or starts other programs; there is no state between two calls.
- GORM adapter: it takes the *sql.DB out of GORM and hands it to sqlstore.
- Permissions (`pkg/rbac`, `pkg/tenant`): pure predicates on strings; their answer is an input of the
  models, allowed or not, super admin or not.
- A registered handler of a custom action is code of the application.
- Passwords and other hashes, signatures, HMAC, CSRF tokens, S3 request signing: taken as perfect. Secrets do not collide;
  prefixes of API keys may, and do in the model.
- Free-text search and CSV output: a further condition on a row, and layout.
- `AddFile` and `FileKey` of the template and the adapters, and the template's file handlers: the same
  statements in the same order as those of pkg/server, which `Uploads` has.
- Memory growth: neither the limiter's map nor the memory session store ever forgets a key by
  itself. This has no bound to check.
- The frontend and the Cloudflare worker keep no state that the Go code shares; the paging of
  the data grid is in `Listing`.
