# slip-stream in TLA+

slip-stream turns a directory of JSON Schemas into a REST/GraphQL/MCP service:
each schema becomes a collection of *versioned* documents with CRUD endpoints,
lifecycle hooks, filters, audit, webhooks and hot reload of the schemas
themselves. The code is asyncio: many requests interleave at every `await`, in
any number of worker processes over one database. This directory models the
parts whose correctness depends on such orders, model-checks them with TLC on
small instances, and proves the main properties for all instances with TLAPS.

Paths below are relative to `src/slip_stream/` unless they start with `docs/`
or `tests/`.

## How to run

    tlc -workers 2 -config crud_writers.cfg MCVersionedCRUD.tla
    tlapm VersionedCRUD_proofs.tla

`PROJECT.json` lists each run with its module and configuration, the theorems,
the source lines of every definition, and one mutant per property: a plausible
bug of the code (`Mut...` operators, each just above the definition it
replaces) under which TLC must find the property violated.

## 1. Inventory

| Component | State it keeps | Operations | What is hard |
|---|---|---|---|
| Versioned MongoDB repository (`adapters/persistence/db/generic_crud.py`) | a collection of document versions, append-only | create, get, list, count, update, delete, bulk variants, cursor pages | read and insert are two awaits, no unique index; `insert_many` is not atomic; filters apply before grouping |
| Versioned SQL repository (`.../db/sql_repository.py`) | the same as rows, in the session of a request | create, get, list, count, update, delete | the same races at the database's isolation level; the session commits after the endpoint has returned, whatever its items did |
| Operation executor, endpoints and GraphQL resolvers (`core/operation.py`, `core/services/generic.py`, `adapters/api/endpoint_factory.py`, `adapters/api/graphql_factory.py`) | a `RequestContext` per request | get, list, create, update, delete, three bulk operations | the entity hydrated first is used to the end; failures between any two awaits; bulk and atomic error handling |
| EventBus (`core/events.py`) | handlers per event | register, emit | first exception ends an emission, before or after the write |
| Audit trail (`core/audit.py`) | audit collection | record, history queries | record after the write, errors swallowed |
| ETag filter (`adapters/api/filters/etag.py`) | none | If-Match precondition hook, If-None-Match, ETag generation | the check and the write read different versions |
| Rate limit filter (`adapters/api/filters/rate_limit.py`) | a deque of timestamps per key | on_request, cleanup_expired | routes with different windows share a deque; window edges, rounding |
| Filter chain and response filters (`adapters/api/filters/`) | per-request `FilterContext` | process_request, process_response, short circuit | order of filters, partially filled contexts, response bodies that can be read once, tags against representations |
| Schema registry (`core/schema/registry.py`, `versioning.py`, `ref_resolver.py`) | schemas by name and version, model cache | load, register_schema, get_schema, get_model_for_version, sync_from_storage | caches against their source |
| Schema hot reload (`core/schema/watcher.py`) | fingerprints, pending timers | start, stop, poll, debounced reload or delete | files change between poll, timer and next poll; torn files; restarts |
| Entity container (`container.py`) | registrations with models per version | resolve_all, resolve_version | a second cache in front of the registry's |
| Schema storages (`adapters/persistence/schema/`) | files, a collection, a TTL cache, a chain of these | save, load, load_latest, exists, list names and versions | partial write-through, back-fill, entries that expire apart, torn files, a restart in the middle of a synchronisation |
| Override and hook registry (`registry.py`) | declared handlers and hooks by operation, version and channel | handler, guard, validate, transform, on, publish, apply | which override wins, and that every front end passes the guards |
| Webhook dispatcher (`core/webhooks.py`), streaming bridge (`adapters/streaming/base.py`) | registrations, delivery log | deliver with retries, publish | lost, repeated and reordered events; slow receivers hold the answer back |
| Query DSL, cursors (`core/query.py`, `core/pagination.py`) | none | translate a where clause, encode and decode a cursor | comparisons across types, ties, pages of a list that others change |
| Access policy (`core/policy.py`), MCP, SDK generator, CLI, configuration, telemetry, health, topology, testing toolkit | none of their own, or process configuration | decide, translate, print, wire | -- |

How they interact. An HTTP request passes the **filter chain** (the **rate
limiter** may answer 429, the **ETag** filter keeps the If-Match header) and
reaches an endpoint, which calls the **executor**. The executor hydrates the
entity through the **repository**, emits `pre_*` on the **EventBus** (where the
ETag precondition and the application's guards run), calls the service, which
calls the repository, and emits `post_*` (**audit**, webhooks, streaming, the
application's hooks). Models come from the **container**, whose caches are
filled from the **schema registry**, which the **watcher** updates from the
schema files while all of this runs. The components share state only through
the database collections, the registry's dictionaries and the deques of the
rate limiter; the calls are direct awaits, without queues.

What makes each one correct:

- repository: versions of an entity form a line with one root; no version is
  orphaned by a failure; a tombstone ends an entity; creation metadata never
  changes; a list shows what reads by id show.
- executor: an acknowledged operation is stored, a rejected one is not; what the
  audit trail names is in the collection; every request is answered; a bulk
  answer accounts for every item; conditional writes are conditional.
- rate limiter: nobody is rejected without cause, nobody exceeds a limit,
  Retry-After is honest.
- hot reload: no change is lost; when nothing is pending the registry is what
  the files say; caches hold nothing older; reloads end.
- SQL: an error stores nothing, or all if the commit's own answer was lost; a
  success is stored, whatever is rolled back.
- webhooks and streams: what was acknowledged is not sent again, nobody is
  skipped, a client's events arrive in order.
- storages: what is served was said by the other service within the TTL, is
  stored where the next start looks first, and survives restarts.
- filters and overrides: the most specific handler runs; nothing runs past a
  guard; no filter brings the value of a hidden field back; "not modified" stands
  for what the client has.
- lists: a walk by pages shows everything once, in order, and only what the
  clause means.

Not all of this is so. Section 3 says which of it the code keeps, and under
which conditions, and has a table of what it does not keep. The hazards behind
these, each at its line, are in `PROJECT.json`.

## 2. The modules

### VersionTree and VersionedCRUD: the repository

`VersionTree` is the abstract promise: an append-only collection in which every
document is a root or the next version of a *live* stored document. It says
tree, not line, because that is all the code guarantees; an entity whose id
callers of `create` choose (`GivenIds`) may even have several roots.

`VersionedCRUD` is `VersionedMongoCRUD`. A client is one coroutine in one call.
`StartCreate`, `StartUpdate` and `StartDelete` are the entries of the methods
(the single ones are calls with one item), `StartCreateAs` is `create` with an
`entity_id` of the caller's, which nobody looks up; `SkipItem` and `BuildItem`
are one turn of the loop, that is one `find_one` and the decision made on it;
`InsertNext` is the insert of one document, since `insert_many` stores its
documents one after the other; `Fail` is a driver error, a cancelled task or a
dead worker, at any point. `find_one` sorted by `record_version` may return any
of several equal versions, so reads are *sets* of positions (`Gets`, `Latest`).
`uuid4()` is a choice among unused identifiers that are no caller's. `raced` is
a history variable: the entities on which a client built a version while another
one was waiting to be inserted, or that were created although they were there.
`Reused` are those of the latter kind, which some properties except. Contents
are abstract values; a submitted null or protected field is `NoValue`, which
changes nothing but counts as a change (`has_changed` compares before `setattr`
filters).

### RequestLifecycle: executor, EventBus, precondition, audit

One request per client, over the same repository (`CRUD == INSTANCE
VersionedCRUD`). `Receive` takes a single, bulk or atomic request off the wire,
the lists of bulk ones being empty or not; `Hydrate`, the handlers of the event
(`RunUserHook`, `RunPrecondition`, `RunAudit`, one action per handler kind),
`CallGet`/`CallCreate`/`CallWrite`, `ServiceReads`, `ServiceInserts` and
`ReadBack`, with which `create` ends, are the awaits of `execute_*`.
`DatabaseFails` and `Die` interrupt them, before an insert, at it (the document
is not stored, or is and the answer of the database is lost) and after it;
`Deliver` sends the answer. `RunAudit` is the hook as it is: it records the
submitted changes and does not look whether the service returned anything. The
control flow of bulk requests (collect or stop at an error) is in `Raised`,
`Emitted`, `NextItem`. Handlers are given by constants, in registration order,
global ones first.

### RateLimit: the rate limiter

`on_request` takes a lock and awaits nothing under it, so a request is one
action: `Accept` or `Reject`. `Cleanup` is `cleanup_expired`, at any time.
`Tick` is the monotonic clock. `log` is a history variable with every accepted
request; the properties compare the deques with it. Keys and routes are
constants; a route stands for what `_resolve_limit` finds for a path.

### SchemaWatcher: files, watcher, registry, caches

`disk` is edited by the environment (`Edit`, `Remove`), which may also leave
torn JSON. A fingerprint (mtime, size) is a number that a write makes new.
`Start`, `Stop`, `Poll` are the watcher's; `Poll` takes one snapshot of the
directory, during which files may vanish, restarts the timer of every changed
path and remembers what it will do; `Reload`, `ReloadUnreadable` and `Forget`
are the timers' bodies. A reload starts a task that calls `on_reload`: it waits
in `news` and begins at a later step (`Tell`), when the schema may have been
reloaded or forgotten again. `GetModel` and `ResolveVersion` fill the two caches
of models, which are identified by the contents they were generated from.
`RegisterSchema` writes memory, then file, which may be torn or fail to open.
The initial load (`Init`) leaves out the files that it finds torn. `Quirks`
turns on what the watcher does not claim to handle (edits while it is stopped,
writes that keep the fingerprint, `register_schema`).

### SQLRepository, Notifications, SQLRequests: a request over SQL

`SQLRepository` is the repository inside the session of a request. A session
sees committed rows, or a snapshot fixed by its first statement (`Sees`), and
its own. `SelectNone`/`SelectLatest` and `InsertDraft` are the two statements
of a write; after an error the transaction may be usable or not, depending on
the database (`Backends`). An array is text in its column, so the document
model refuses the row it is read back from (`Validates`). `VersionBatches` is
the abstract promise: `VersionTree` by whole transactions.

`Notifications` is what post handlers tell the outside: webhooks one after the
other with their attempts (`AttemptAcknowledged`, `AttemptRefused`,
`AttemptUnanswered`, `GiveUp`), then the stream adapters, which may lose an
event or raise when they format one (`Raise`). `Arrive` is a copy whose sender
had given up waiting. Webhooks come and go while a dispatch is under way.

`SQLRequests` composes both with the executor and the session dependency of
`app.py`, which commits or rolls back after the endpoint has returned. FastAPI
changed whether that is before or after the answer; both are explored. A commit
that raises (`CommitFails`) has stored nothing, or everything if only the
database's answer was lost. A hook of the application may raise before the
webhooks are reached or after them (`PostRaises`).

### SchemaStorages: storages, chains, sync_from_storage

A call of the chain is a value of `call`: asking one adapter after the other,
saving to one after the other, back-filling. `Ask`, `AskFails`, `Save`,
`SaveRaises` are the accesses to one adapter. `Start` to `Serve` are a start of
the service up to serving, with every call of `sync_from_storage` in between;
`Stop` and `Crash` may come at any time, as may edits of the schema directory,
changes of the other service and of the shared collection. The cache of the
HTTP storage holds one entry per question, with its age.

### Overrides, Filters, Front: an application and its requests

`Overrides` (declarations to registration and event bus, `Resolve`, `Fires`) and
`Filters` (each filter as an operator on a request or a response) are
algorithms. `Front` starts an application (`Lifespan`) and takes one request at
a time through its chain, endpoint or resolver, hooks, handler or service, and
back. GraphQL over a websocket takes the same way without the chain, which is an
HTTP middleware. The filters that look for the schema in the path (`Path`) find
another one, or none, under other prefixes. A response is data (shape, version,
fields with a value, fields that are null, envelope, format) and how its body
can be read: an endpoint's stream is `"spent"` once a filter has read it and not
built a response of its own. The schema version filter takes the fields that its
version lacks and adds those it has and the document lacks, as nulls; the
projection takes a document with fields `data` and `meta` for an envelope.
Documents are versions of one entity, of which racing writers may have given two
the same number (`RecordVersions`). A client keeps the last tagged answer and
may present its tag, or `*`, with any request it makes later (`AskAgain`), while
others write. `answer` is a history variable: what the response would be had the
client sent no `If-None-Match`, taken through the same filters beside `resp`.
The orders of `Overrides` and `Filters` (filters by number, hooks by scope and
declaration, handlers by how specific they are) are stated by ranks in finite
sets, as `sorted` is stable and total on them.

### Queries and Listing: lists

`Queries` is the where clause: what it means (`Meant`, the reference), the
filter `QueryDSL` makes of it (`ToMongo`), and what MongoDB does with that
(`Matches`). A clause is a nested object, written as the table of the objects in
it, so that what is recursive over it is a recursive function. The operators of
a field become entries of one dictionary: a later one replaces one of the same
name, and an object given to `_eq` is merged as MongoDB's operators. `Faithful`
says which clauses are translated as they are meant. A clause may name fields of
the framework only, as nothing tells the endpoint which fields a schema has.
`Listing` walks through a list by cursors, forth and back, or by offsets until
the total count, which may fail, while another client creates, updates and
deletes. The collection it begins with may hold superseded versions and
tombstones. A cursor holds strings, so `IsAfter` compares by type.

## 3. Runs

| Run | Instance | What it shows |
|---|---|---|
| `crud_writers` | 2 clients, 2 entities of which one has an id that callers may choose, batches of up to 2, 3 documents | versions are unique and deletes final exactly as long as no two read-modify-writes overlap and no id is used again; every failure leaves a well-formed tree (`ImplementsTree`); creation metadata survive every race, and suffer only of the id that is used again |
| `lifecycle_requests` | 2 clients, 1 entity, 3 documents, single requests, the audit and precondition hooks | a success describes what is stored; audit entries of creations and deletions name what is there, and those of updates contents that are there unless the entity was deleted, under every interleaving, driver error and worker death |
| `lifecycle_bulk` | 1 client, 2 entities, 3 documents, all modes with lists of 0 to 2 items, If-Match, handlers on every event but post_bulk | a bulk answer accounts for its items, a 404/412 stored nothing, no duplicated versions |
| `lifecycle_liveness` | 1 client, 1 entity, 2 documents, single and bulk | every request is answered |
| `rate_limits` | 1 key, routes of 2 per 3 ticks and 3 per 5 ticks, default window 4, 2 ticks a second, time up to 8 | rejections have a cause, the narrowest route is limited exactly, Retry-After suffices for the most generous one |
| `watcher_reloads` | 2 files, 2 versions, 2 bodies, 2 edits | quiet means current, models are those of the registry, a listener that has heard all calls of `on_reload` knows what is registered, the registry converges |
| `watcher_settles` | 1 file, all quirks, 3 edits, a stop and restart | reloads end, and every call of `on_reload` is made |
| `sql_requests` | 2 racing writers on either database; one client with bulk and atomic requests; one client with webhooks and an adapter | the table grows by whole transactions of well-formed versions; an error never stands for a part of what was written; a success is stored; webhooks are tried in turn, and not after an acknowledgement; events of a client are in order |
| `storages` | 3 deployments (directory alone, files before another service, shared collection before another service), 2 versions of which one is no semantic version, 2 bodies, 1 change, 2 ticks, 1 failure or crash | cached answers are no older than the TTL; after a clean start what is served is stored first in the chain; what was served once is served after every clean start |
| `front` | applications with up to 3 handlers, with a guard and another hook, or with one of several chains of the filters, of other prefixes, or of documents with `data` and `meta`; and the requests that tell them apart | the most specific handler runs; nothing runs past a guard, by REST, by GraphQL over HTTP or a socket, alone or in a batch, nor over HTTP past authentication and policy; the values shown are of fields that were asked for and, where the path names the schema, that the role may see; a 304 stands for a document of the same number or the very same list |
| `lists` | 3 stored documents, of three entities or of two of which one has a history, and one entity to come; values of `updated_by` from 4 including null; pages of 1 and 2; 9 clauses; 1 write by another | a walk shows all that nobody touched once on every way, in order; what is shown is what the clause means, no tombstone, and the last of the versions that the clause means |

One run ends in a counterexample, against a sentence of the documentation that
`PROJECT.json` "findings" quotes: in `lifecycle_lost_update` an update whose
If-Match was checked against the hydrated entity overwrites a version it does
not name.

The modules end with a section "What the documentation says and the code does
not keep". Besides that one it states the following, which have no run of their
own; adding the named property to the named configuration shows the
counterexample.

| Property | Configuration | Counterexample |
|---|---|---|
| `VersionedCRUD!VersionsUnique` | `crud_writers` | two overlapping updates store the same `record_version`, one change is lost |
| `VersionedCRUD!DeletedIsFinal` | `crud_writers` | an update that read before a delete stores a live document beside the tombstone, with the same version |
| `VersionedCRUD!ListShowsLatest` | `crud_writers` | a list filtered by `updated_by` shows a version that another user's update or delete has superseded: the filter comes before the grouping by entity |
| `RequestLifecycle!AuditedIsChanged` | `lifecycle_requests` | an update that finds its entity deleted by another request (the service returns None) is audited with changes that no version has |
| `RequestLifecycle!UpdateAnswerShowsUpdate` | `lifecycle_requests` | the service returned None because of another request; the answer is the old document with status 200 |
| `RequestLifecycle!HookErrorMeansNotRun` | `lifecycle_bulk` | a `post_*` hook raises after the write |
| `RequestLifecycle!AtomicIsAllOrNothing` | `lifecycle_bulk` | an atomic bulk request that fails keeps the items before the failing one |
| `RequestLifecycle!AuditIsComplete` | `lifecycle_requests` | the audit insert fails, and is swallowed |
| `RateLimit!LimitHolds` | `rate_limits` with `DefaultWindow = 5` | a request to a route with a narrow window makes room on a route with a wide one |
| `RateLimit!LimitHolds` | `rate_limits` with the wide route only | `cleanup_expired` evicts with a default window narrower than the route's |
| `RateLimit!RetryAfterHolds` | `rate_limits` | the strict route is still full after Retry-After |
| `SchemaWatcher!ServesTheFile` | `watcher_reloads` with 1 schema, 3 edits | a file rewritten with a lower version leaves the higher one as latest |
| `SchemaWatcher!ServesTheFile` | `watcher_reloads` with `Refs <- OneRefersToOthers` | a referenced file changes, its referrers are not reloaded |
| `SchemaWatcher!QuietMeansCurrent` | `watcher_reloads` with `Quirks = {"mtime"}` | a write that keeps mtime and size is not seen |
| `SchemaWatcher!ModelsAreFresh` | `watcher_reloads` with `Quirks = {"register"}` | `register_schema` keeps the models |
| `SchemaWatcher!PinnedAreFresh` | `watcher_reloads` | the container's models are never evicted |
| `SQLRequests!ErrorStoresNothing` | `sql_requests` | the commit raises because its answer was lost: the client is told of an error, the rows are durable |
| `SQLRequests!PublishedIsStored` | `sql_requests` | post handlers run before the commit: an event is out, and the session is rolled back |
| `SQLRequests!FailedItemIsNotStored` | `sql_requests` | an item whose row the document model refuses is reported as failed and committed with the batch |
| `SchemaStorages!FillsWhatIsMissing` | `storages` | an adapter that raised when it was asked is back-filled with an older schema; so is one whose latest file a crash has torn, and the file of an older version that the other service also has is replaced by that service's |
| `Front!EveryRequestIsFiltered` | `front` | GraphQL over a websocket passes no filter: neither authentication nor the policy |
| `Front!RoleRestricts` | `front` | under another prefix, or for documents with `data` and `meta`, no role rule applies |
| `Front!NotModifiedIsHeld` | `front` | the tag of an entity comes back with a request for other fields, another format or version, or is `*`: 304, though the client has not had that representation |
| `Front!ValidPayload` | `front` | the schema version filter reads a GraphQL answer and passes the spent response on: no body |
| `Front!SuccessIsTagged` | `front` | the ETag filter sees the body in its envelope and sets no tag |
| `Front!GuardsFirst` | `front` | a `before` hook of all schemas runs before the schema's guard |
| `Front!HandlerReplacesService` | `front` | the override of `bulk_update` is never called |
| `Front!ShortCircuitNegotiated` | `front` | a 401 is JSON, whatever the client accepts |
| `Listing!NextPageShows` | `lists` | by `created_at` the second page is empty: the cursor is a string, the field a date |
| `Listing!NextPageFollows` | `lists` | in descending order the page after a null begins with what is below its cursor, the string "None" |
| `Listing!TiesAreShown` | `lists` | the tie-break compares `_id` with a string: what ties with the end of a page is on none |
| `Listing!ShownIsLatest` | `lists` | a superseded version that the clause means is listed for an entity whose latest one it does not mean, or is a tombstone |
| `Listing!ExampleIsAnswered` | `lists` | the endpoint's own example of a where clause names a field of the schema and is refused |
| `Listing!EveryOperatorCounts` | `lists` with `Walks <- Patterns` | `%` in a `_like` pattern is literal |
| `Listing!EveryOperatorCounts` | `lists` with `Walks <- Mistranslated` | `_startswith` is replaced by a later `_endswith`; an object given to `_eq` is taken for operators |

### Bounds, and why they are enough

- Clients. Every hazard of the repository and the executor is between one
  request and the rest of the world; a second writer suffices for the rest.
  The theorems hold for any number. Where two clients meet
  (`lifecycle_requests`), no hook of the application listens; what such hooks do
  to a request is explored with one client (`lifecycle_bulk`).
- `GivenIds`: one entity whose id is given shows what reuse does to it, one whose
  id is not, that others are safe from it.
- `MaxDocs` bounds inserts only; a client at the bound can still fail. Three
  documents hold a root and two racing successors, or a root, its tombstone and
  a late update; with two entities, two roots and a successor.
- `MaxBatch`/`MaxItems` = 2: a first item that has an effect on the second, and
  a failure between them.
- `MaxTime` = 8 lets the widest window (5) pass once completely after it has
  been filled, with the narrow one passing twice. It stops the clock, nothing
  else.
- `MaxEdits` = 2: a change between a poll and its timer, or between the timer
  and the next poll, or a removal and recreation. Files do not influence each
  other but through `$ref`; two show that one poll serves several.
- `sql_requests` explores scenarios: races need two writers but no webhooks,
  bulk requests one client whose first item succeeds and whose second does not,
  webhooks one client with two events for one webhook or one event for two.
  Their product adds states and no new step.
- `storages`: one version that the collection's index accepts and one it
  refuses; one change and one fault meet every step of a start and of the start
  after it. Two ticks are one more than the TTL.
- `front`: a filter meets every other one in the chains; three handlers are one
    more than it takes for two keys to compete; a request differs from the next
  in what some application looks at. Three documents, two of one number, give a
  tag that is another document's and one that is not; requests depart from the
  plainest one in up to two of role, fields, version and format, those that
  present tags in one.
- `lists`: with three entities and pages of one, a walk has a first, a middle
  and a last page; the write may touch what was shown, what comes next, or
  neither. Values of `updated_by` include equal ones, a prefix of another, null,
  and one below the string "None" that is the cursor of a null. One entity with
  an older version is enough for a clause to find that one instead.
- Symmetry is used for clients, entities and values in safety runs only; no
  `CHOOSE` ranges over them, and the runs with a liveness property use none.

### Fairness

`RequestLifecycle!FairSpec`: weak fairness of the steps of a request that has
been received. asyncio runs every ready coroutine, and a database call or hook
returns or raises. Nothing makes clients send or workers die.

`SchemaWatcher!FairSpec`: weak fairness of `Start` (the application starts the
watcher), of `Poll` (a task that sleeps and repeats), of `Tell` (tasks that are
ready begin) and of each file's timer (the event loop runs due timers). Edits,
stops, `register_schema` and the vanishing of a file during a poll are never
forced: a poll in which none vanishes is a step of `Poll`, too. Since a new poll
restarts a timer only when a fingerprint changed, weak fairness of the timer is
enough.

## 4. Proofs

All theorems are for arbitrary constants that satisfy the `ASSUME`s of the
modules; TLC evaluates these in the runs. Each proof module opens with its
argument and states the inductive invariant, `IInv`, in named parts. Where a
part was not obvious, TLC checked it on the run of its module first.

`VersionedCRUD_proofs`. The inductive invariant has four parts: types and
phases; the store (`Lineage`, `OneRoot`, `SameCreator`); the documents waiting
in a client's batch, each of which has its parent already stored or is a root of
an unused entity; and `raced`: for an entity outside it, at most one document is
waiting, it follows the only latest version, and versions in the store are
unique. The third part is needed because a document is built long before it is
stored, the fourth because uniqueness alone is not inductive. Roots of `Reused`
entities are excepted throughout. From it: `TypeCorrect`, `LineageCorrect`,
`CreationCorrect`, `LinearCorrect`, `DeletedIsFinalCorrect`, and
`ImplementsTreeCorrect`: every step maps to `AddRoot`, `AddVersion`,
`AddTombstone` or a stutter, the parent being the witness the third part gives.

`RequestLifecycle_proofs`, first part. Every step of a request is a step of
`VersionedCRUD` with the batch bound 1, or leaves its variables alone, by the way
the module is built (lemma `DrivesCRUD`). With it the theorems above carry over
(`ServingIsLinear`).

Second part, the answers. `ContextInv` says of each request, by its phase, how
far it is (`Progress`), how much it may have stored (`StoresOnce`), that an
atomic request has no error but its last result (`StopsAtError`), and that the
hydrated document, the result of the current item and every result already
collected are in the collection as the item claims (`Hydrated`, `Stored`,
`Truthful`). The collection is a parameter of these predicates: it only grows,
so one lemma carries them over the inserts of others. `CallInv` ties the call of
the repository to the item it was made for. The awaits are why all this is
needed: what an answer claims was found out steps before it is sent. From it:
`SuccessIsStoredCorrect`, `RejectedWritesNothingCorrect`, `AuditIsSoundCorrect`,
`BulkAccountsCorrect`; with `ServingIsLinear`, `AloneIsLinearCorrect`, since
a client whose calls have one item each never has a document waiting while it
builds another.

`RateLimit_proofs`. The deque of a key is a suffix of its log, sorted, and what
precedes the suffix is too old for every route as narrow as the narrowest
window used for evictions. `RejectedMeansFullCorrect` uses the first half,
`NarrowestIsLimitedCorrect` the second, `RetryAfterIsEnoughCorrect` the bound
of a deque by the highest limit.

`SchemaWatcher_proofs`. The invariant is a conjunction over files, so each
action is treated for the file it touches and, by one lemma, for all others. It
says of each file: fingerprints seen are not newer than the newest; a file that
was seen as gone and whose deletion is done has nothing registered; before the
first start the registry is what was loaded. `QuietMeansCurrentCorrect` is for
a watcher started in time and never stopped, with no quirks and no `$ref`;
`ModelsAreFreshCorrect` and `ToldIsCurrentCorrect` only need that
`register_schema` is not called, which writes the registry and neither evicts
models nor tells anybody. The calls of `on_reload` begin later than the reloads
they are about; `NewsInv` says of each schema that is registered that the last
call waiting, or else the last one begun, is about what is registered. It rests
on tasks beginning in the order in which they were made.

`SQLRequests_proofs`. `IInv` has a part for each of the composed modules, and
the first two are inductive by themselves. `RepoInv`: a row that is not
committed has its parent in the table or earlier in its session, or is the root
of an entity no one else has; rows of a session are newer than what it was built
on. A session that sees an old snapshot takes the number of a row that is
committed but hidden from it: overlapping is here that another session has rows
of the entity pending, or committed ones since the snapshot, and what
`PendingIsNextUnlessRaced` says holds while there was neither. `TellInv`: the
webhooks a job has left are the end of the list it started with, an acknowledged
copy was sent before they were reached, and only late copies are under way.
`RequestInv`: what a request has shown is committed or its session's own, it has
written exactly what its session has, and after its commit has raised all of
that is in the table or none of it. From them all properties of `sql_requests`
(`ErrorStoresNoPartCorrect` among them), the last of which is a refinement: the
requests implement `VersionBatches` (`TreeRefinement`).

`SchemaStorages_proofs`. `StateInv` (types, the age of cache entries, which call
is made in which phase) gives `TypeCorrect` and `FreshEnoughCorrect`. `SyncInv`
says of a clean start what the call under way has found so far: a version that
some storage asked already holds, and the first does not, has been gathered, or is
on its way to the first (`ServedIsStoredCorrect`). It needs that the cache
agrees with the other service, which a start of the service restores by
emptying it. `OwnInv` adds, for a first storage of the service's own, which
files nothing but a save touches (`SurvivesRestartCorrect`).

`Front_proofs`. The lemmas are about the operators: ranking a finite set by a
strict total order leaves out none of its members (`Ranked`, `Sorted`,
`Emitted`), the key under which a handler is found is the most specific that
fits (`ResolvedIsBest`), a filter adds no field and turns no failure into a
success (`ResponseKeeps`). The invariant follows a request on its way: the
context is what the filters passed so far took of it (`ContextInv`), each hook
that was called and fires let it pass (`StepsInv`), what ran was let pass by
every guard (`GuardInv`), and after the projection's turn only fields that are
allowed have a value (`ShowInv`); a null that the version filter fills in is no
value. For `NotModifiedIsTrueCorrect` this is not enough, as two answers at
different times, to requests that may differ in everything, are compared:
`HeldInv` and `WayInv` say that the held answer and the current one each came
back through the filters of the application, with what its own request asked
for, and `BothInv` runs these two ways side by side. A tag tells what it was
made of: the number of an entity's document, and of a list the documents and
fields. If both requests ask for the same view, the two ways differ before the
ETag filter in the document at most, and where the client is told "not
modified", in nothing. That rests on the filters whose turn is before the ETag
filter's doing the same to both, whatever the document. `*` is no tag
(`AnyTagAssumption`) and excepted. `NoneAssumption` of `Filters` (the mark for
"no projection" is not a set of fields) is used: in the code `None` and an empty
set differ too.

`Listing_proofs`. A write adds a document and changes none (`Extends`), so
everything about documents that are there is kept; what a write may change is
which of them are latest. The invariant therefore speaks of the documents that
were shown, latest or not, and of the cursor's document: nothing shown is beyond
it (`OrderInv`), and every document that is settled, that is latest, of an
entity nobody wrote and alone in its place, is beyond it or was shown
(`CoverInv`), each for the way forth and the way back. That a page takes the
first of what is beyond the cursor rests on ranks again: `Sorted` gives every
member of a finite set its place (`SortedIs`), as comparing values is a strict
total order (`SortsBeforeOrders`), from the order of character codes up.
`AfterIsAhead` and `AheadIsAfter` say when comparing with the string in a cursor
agrees with the order of the list: always for strings, and one way for nulls.
With offsets the place of what was shown is its rank, and a client that is to
count has had something on its page, or the list has no more (`OffsetInv`).
`TranslationCorrect` is about clauses of any size and depth without an
induction: the two recursive functions, of a clause and of its translation, have
the same body, entry by entry (`EntryIsKept`), hence are the same. Under an
entry is a dictionary, into which the conditions of a field's operators are
merged: where no two of a field have one name of MongoDB's, and none brings an
object of its own, nothing is replaced (`FieldIsKept`). What is not `Faithful`
is excepted for that reason, and `EveryOperatorCounts` shows it to be needed.
From these, `ShownIsMeantCorrect`, `ShownInOrderCorrect` and
`WalkShowsAllCorrect`; the first says of an entity that nobody wrote that the
version shown is the last of those the clause means, which `LatestAmong` gives
of the matching versions and not of all.

What the proofs changed in the models. The histories that properties speak of
had to be enough to state why they hold: `answer` in `Front`, `pinned` in
`SchemaStorages`, which is given up for a version that `load_latest` fills, and
`Keep` in `Notifications`. Overlapping `CASE` arms, of which TLC takes the first
and the prover may take any, were made disjoint. `SurvivesRestart` was first
stated without its exception, and its proof failed at one step: a crash tears the
newest file, `load_latest` falls through to the next storage, and back-filling
writes that storage's older version over a good file. TLC then found the
behaviour; the table above has it under `FillsWhatIsMissing`. `ShownInOrder` was
first stated of every walk, and its proof failed for nulls: the cursor of a null
is the string "None", so a descending walk that has come to the nulls begins
again with the strings below that. No value of the run was below "None"; with one
that is, TLC finds what the table has under `NextPageFollows`, and the property
now excepts it (`Restarts`) and says more of the other walks.

Only model-checked: the liveness properties (`Answered`, `Converges`,
`Settles`), since fairness is out of the prover's reach. Every other property of
a passing run is stated by a theorem.

## 5. Plan

Done, in this order, most important first: (1) VersionTree, VersionedCRUD;
(2) RequestLifecycle over it; (3) RateLimit; (4) SchemaWatcher with registry and
container caches; (5) SQLRepository, Notifications and SQLRequests, which
composes them; (6) SchemaStorages; (7) Overrides, Filters and Front; (8) Queries
and Listing; then the proofs: (9) SQLRequests, (10) SchemaStorages, (11) the
answers of RequestLifecycle, (12) Front, (13) Listing.

What is left is what section 6 names.

## 6. Not modelled

- The router that `EndpointFactory.create_router` builds without a container: it
  repeats the single operations without the executor.
- Lists over SQL: a list is there what a read by id is for each entity, sorted;
  only equality filters are taken, and cursors not at all.
- A custom `create_router` of a module of the application, by which it replaces
  the router of a registration (container.py:215-218), and the `entity_id` that
  `SQLRepository.create` would take (sql_repository.py:236): nobody passes it.
- Dotted paths and fields that a document lacks, in clauses, sorts and cursors:
  the endpoint refuses every field but those of the framework, which all
  documents have.
- What a callback of `on_reload` does after it has begun: one that awaits may act
  on two reloads in another order. It is the application's.
- An operating system's passing error on a readable schema file, which the file
  storage answers like a missing file; torn files, which it answers so too, are
  modelled, and of the adapters in a chain only the others raise when asked.
- The fields of the items in the answer to a bulk request, whose own keys are
  taken not to be fields of the schema.
- `get_history`, `get_user_activity` and `track_reads` of the audit trail.
- The decision of a policy: it is taken outside `src/` or by the application.
- Parsing of version strings and the replacement of `$ref`: the modules use the
  order of versions and the set of files a schema reaches.
- The contents that filters produce beyond fields, format and envelope: bodies,
  headers, media types and signatures are formatting.
- Model generation from a schema: what matters to the caches is from which
  contents a model was generated, and that is modelled.
- GraphQL's generated types, MCP, SDK generation, CLI, configuration, telemetry,
  logging, health, topology, the testing toolkit: I/O, wiring or formatting over
  the components above, with no state whose order of changes could go wrong.
