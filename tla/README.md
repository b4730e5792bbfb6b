# Antbox: a formal model

Antbox is a content platform: a tree of nodes (folders, metadata nodes, files) with
permissions, aspects, features, workflows and agents, served over HTTP, WebDAV and MCP, with
one set of services per tenant. This directory holds TLA+ modules translated from the code
under `src/` of the repository, TLC configurations that check them on small instances, and
TLAPS proofs of what matters most for every instance. Source paths below are relative to
`src/src/`; `ENG` is `application/workflows/workflow_instances_engine.ts` and `NS` is
`application/nodes/node_service.ts`.

## 1. Inventory

Everything runs in one JavaScript event loop per server process. A service method is an async
function: it runs alone between two `await`s, and anything else may run at one. Several
server processes may share one database. No service holds a lock across an `await`, and no
repository compares versions: every `save` or `update` writes a whole record. That makes the
same hazard appear everywhere: a record read before an `await` and written after it.

| Component | State | Operations | Talks to | Hard behaviour | What makes it correct |
| --- | --- | --- | --- | --- | --- |
| Workflow instances (`ENG`, `workflow_instances_service.ts`) | instance records: snapshot, current state, history, running, cancelled, participants | start, transition, cancel, updateNode, updateNodeFile, delete, list | node service (lock, update, unlock), definitions, features (actions) | multi-write operations with rollback, stale copies, crash between writes | the history is a path of the snapshot, made by entitled users; node and instance agree; one running instance per node; a cancelled instance stays so |
| Workflow definitions (`workflows_service.ts`, `domain/configuration/workflow_schema.ts`) | definition records | create or replace, update, delete, list, export | instances (in-use check) | check-then-delete, replacement under running instances | only well-formed state machines are stored; snapshots are immune |
| Node records (`NS`, `domain/nodes/*`) | one record per node: metadata, lock, workflow marks | create, update, delete, lock, unlock, copy, duplicate, get, find, breadcrumbs | repository, storage, event bus, aspects, authorization | whole-record writes from stale copies, compensation | locks and marks are respected; nothing is lost |
| File contents (`NS`, `storage_provider.ts`) | blobs keyed by node uuid; size on the record | createFile, updateFile, export, copy, delete | storage, repository, limits guard | two stores without a transaction | a blob has a record and a record of a file has its blob; the size is the size of the blob; the limit holds |
| Folder tree (`NS`) | `parent` of each node | create, move, recursive delete, lock cascade | repository | concurrent create and delete, cycles, partial cascades | every node's parent exists, the exceptions accounted for; filters of a folder hold for its children; a locked folder's children are locked, and no lock of the system is left without its folder |
| Tenant limits (`application/metrics/`) | none (sums over records and usage events) | ensureCanCreateFile, ensureCanUpdateFile, ensureCanRunAgent | node repository, event store | check-then-act | the usage stays below the limit |
| Event bus (`adapters/inmem/inmem_event_bus.ts`) | handlers by event | publish (microtask), subscribe | all services | order and loss of effects | each handler sees each event once |
| Parent folder updates (`parent_folder_update_handler.ts`) | none | on created, updated, deleted | node repository | rewrites a whole parent record read earlier | a folder is as new as the last change in it |
| Audit log (`application/audit/`, event stores) | streams by node and mimetype, numbered events | append, get, getDeleted | event bus | sequence number read before the insert; appends not awaited | one event per change, in order, in one stream |
| Authorization and search (`application/security/authorization_service.ts`, `find_service.ts`, `nodes_filters.ts`) | none | isPrincipalAllowedTo, filters for a query | node repository | one rule written twice | a search returns what the check allows |
| Users, groups, API keys, login (`application/security/`) | configuration records | CRUD, login | configuration repository | check-then-act on unique names | a request has the groups the accounts give now; what is kept is what the successful requests add up to |
| Aspects (`application/aspects/`, `domain/aspects/`) | aspect definitions | CRUD, validation of properties | node service | definitions changing under nodes | valid properties only |
| Features engine (`application/features/`) | features; counters of running features | run action, folder hooks, automatic actions | event bus, node service | recursion through events | a handler runs all that is due; the depth is limited |
| Agents, RAG, sessions (`application/ai/`) | sessions with two expiries and a capacity | chat, answer, embeddings | language models, event bus, event store | expiry and eviction; usage logged after the check; handlers that finish out of order | a session in use answers; the limit holds; the index follows the nodes |
| Articles, notifications, preferences | nodes and configuration records | CRUD | the services above | partial deletion of a list | only the owner's are deleted; a deletion reported as done has left none |
| WebDAV (`integration/webdav/`) | path cache by tenant and path | DAV methods, invalidation on events | node service | stale paths below a renamed folder; fill racing an invalidation | a cached path names the node it leads to |
| Repositories and storages (`adapters/{inmem,flat_file,sqlite,postgres,mongodb,s3,google_drive}`) | rows, documents, files; in memory, the records | add, update, delete, filter, get; append; save; write, read | databases, disks, remote storages | a call of several queries; a save that fails or is torn; one filter in four query languages | what is reported as stored is read back; a filter finds the same nodes everywhere |
| MCP server, HTTP API, set-up | none, or connections | transport, routing, start-up | everything | I/O | outside the model |

`PROJECT.json` lists the same components with their status, and every hazard with its line and
the properties that cover it.

## 2. Plan

The modules, in the order they were written. Each takes users, nodes and requests as constants,
has one action per operation or per access to a store, and is free of `RECURSIVE`, so that it
can be proved about.

| Step | Modules | Composed by |
| --- | --- | --- |
| 1. Workflows | `NodeRecords`, `WorkflowDefinitions`, `WorkflowInstances`, abstract `WorkflowLifecycle`; proofs `WorkflowInstancesProofs`, `WorkflowSequentialProofs` | `MCWorkflowInstances` |
| 2. File contents | `NodeContent` over `NodeRecords`; proofs `NodeContentProofs` | `MCNodeContent` |
| 3. Folder tree | `FolderTree` over `NodeRecords`; proofs `FolderTreeProofs` | `MCFolderTree` |
| 4. What follows the tree | `NodesFilters`, `AuthorizationService`, `FindService`; `WebDav`; `NodeEvents` (event bus, parent folders, audit log); `FeaturesEngine`; `RagIndex`; proofs of the searches and of WebDAV `SearchProofs`, of the last three `FollowersProofs` | `MCSearchAndEvents`, `MCFeaturesEngine` |
| 5. Adapters | `FilterQueries`, `NodeRepositories`, `EventStores`, `ConfigurationRepositories`, `StorageProviders`; proofs `RepositoriesProofs` | `MCRepositories` |
| 6. Services over configuration records | `ConfigurationServices`, `Accounts`, `Notifications`, `NodeAspects`, `AgentSessions`; proofs `ServicesProofs` | `MCServices` |

`FindService` uses `AuthorizationService` and `NodesFilters`; `FilterQueries` evaluates the same
filters as each database does, with `NodesFilters` for reference; `NodeRepositories` answers
through `FilterQueries`. `WorkflowInstances` implements `WorkflowLifecycle`. Modules that share
no state in the code are checked side by side: the MC module has a variable `part` that says
which of them a behaviour exercises.

Left to do: articles, the builtin features and the tools of agents, and one model of a node with
its lock, its aspects and its bytes together.

## 3. What is modelled

### Workflows

`WorkflowInstances` is the engine of `ENG` together with the `NodeService` operations it calls
and the same operations called by users directly. It is parameterised by the users and their
groups, the nodes of one folder, the definitions, the requests clients may send and three
bounds.

* **State.** `nodes`, `definitions` and `instances` are the stores: functions from the uuids
  stored to whole records. `issued` are the uuids generated so far. For each request in flight
  `pc` says before which repository access it stands, `req` what it asks, and `nodeCopy` and
  `instCopy` are the records its handler holds in local variables. That is the whole memory of
  a handler, and what makes it hazardous: a write stores a copy, whatever is stored by then.
* **Actions.** One per repository access, with the synchronous code up to the next one:
  `StartCheck` to `StartUnlocking` are `startWorkflow` with both rollbacks; `TransitionGet` to
  `TransitionMarking` are `transition`; `CancelGet`, `CancelSave` are `cancelWorkflow`;
  `Release`, `Releasing`, `Clear`, `Clearing` the release of the node that a cancellation and a
  final transition share; `EditGet` with `Update`, `Updating` is `updateNode`;
  `DeleteInstance`, `Lock`, `Unlock`, `Delete` and the definition requests follow the services
  of those names. A read of a node and the refusals after it are one step (`NodeRead`), its
  write the next (`NodeWrite`); `Issue` and `Reply` begin and end a request.
* **Faults.** `WriteFails`: a repository write returns an error and stores nothing, after which
  the handler takes the branch of the code for it (`OnFailure`). `Crash`: the process stops,
  handlers in flight are gone, the stores stay.
* **`NodeRecords`** holds the part of a node that matters here (lock, unlock groups, workflow
  mark, an abstract content) with the guards of lock, unlock, update and delete. The `Metadata` of
  an update are what a client sends: any of those fields, or `Unsent`; `Updated` takes all of them,
  but those of the mark only from the engine's own user (`NS:723`, `domain/nodes/node.ts:98`).
  `rewritten` is history: the nodes whose lock or mark an `updateNode` has written, since the engine
  hands the client's metadata on under its own name (`ENG:540`).
  **`WorkflowDefinitions`** holds definitions, the schema and the permission functions.
* **`WorkflowLifecycle`** is the abstract specification: an instance appears in an initial
  state, moves along transitions, is finished while its state is final, may be cancelled and
  then never moves. `ImplementsLifecycle` maps the records to it.

Abstractions. What may be read or written under a folder's permissions is the constants
`Readers` and `Writers`; the content of a node is a member of `Data`, and a filter is the set of
contents it lets through; timestamps, titles and messages are left out; the actions of a
transition are a step that ends well or badly and changes nothing (the node service refuses
features a change of a node in a workflow). A read that fails equals a refusal and has no step
of its own. The two reads of `delete` before its write are one step. `createOrReplaceWorkflow`
is modelled for requests with a full body. The stores follow the Postgres repositories; the
in-memory ones hand out references to their records, which hides some of the overwrites below
and adds none. Not modelled: built-in definitions, instances saved by versions before snapshots
existed (no request creates one), `updateNodeFile`, queries.

### File contents: what is modelled

`NodeContent` is what `NodeService` does to files. A file is a record in the node repository and
bytes in the storage provider; an operation on it touches one, then the other, with awaits
between, and nothing joins the two in a transaction.

* **State.** `records` maps uuids to `FileRecord`s (the `NodeRecord` of the workflow model, and
  a size); `blobs` maps uuids to the length of the bytes stored under them. `issued`, `pc`,
  `req` and `local` are as in `WorkflowInstances`. `undoing` are the records whose deletion
  `createFile` has started and does not await (`NS:256`); `undone` the uuids this happened to.
* **Actions.** `CreateCheck`, `CreateAdd`, `CreateWrite` (or `CreateWriteFails`, then `Undo`)
  are `createFile`; `Copy` and `CopyRead` lead into it, `duplicate` being a copy into the same
  folder. `UpdateFile`, `UpdateFileCheck`, `UpdateFileWrite` are `updateFile`, which ends in
  `Update`, `Updating` as the code does; `Mark` is the update the workflow engine sends.
  `Lock`, `Unlock` and their writes, then `Delete`, `DeleteBlob`, `Deleting`.
* **Faults.** `RepositoryFails` stores nothing. `StorageFails` may have done its work: the
  flat-file provider writes the bytes before their mimetype and returns one error for both.
  `Crash` loses the handlers and the deletions nobody waits for.

Abstractions. Bytes are their length; the checks of mimetypes, which depend on no state, are
left out, as is the branch for a CDN: no provider of the repository has one. Every storage
provider refuses to delete what it does not have, and so does `DeleteBlob`: after a crash
between the two stores a record without bytes can no longer be deleted. The repository's own
read before an `UPDATE` or `DELETE` is one step with it. Uuids are fresh: a client that chooses
one, or that sends a `size` or lock fields with a metadata update, is left out: no property of the module is about the lock. The size counted by the limit
is that on the records, as in the code. `FreshNode` stands for the metadata a client sends.

### Folder tree

`FolderTree` is what `NodeService` does to folders and the nodes in them.

* **State.** `records`, uuid to record (kind, parent, lock, workflow mark, the filters of a
  folder as the set of kinds it lets in); `calls`, the calls in progress: `<<p, n>>` is request
  `p` at work on node `n`, its own call or one made for a child by the call for its folder, with
  the record it holds. `spared` and `strayed` are history: the children a folder's call did not
  reach, and what was written into a folder that was going. `relocked` is history as well: the nodes
  whose lock an update has written, which starts no cascade.
* **Actions.** An update sends any of parent, filters and the `Metadata` of `NodeRecords`, and may be
  the engine's. `CreateCheck`, `CreateAdd`; `UpdateRead`, `UpdateCheck`,
  `UpdateCheckNew` (the new parent), `UpdateChildren` (new filters are tested on the children),
  `UpdateWrite`; `DeleteRead`, `DeleteCheck`, `DeleteList`,
  `DeleteChildren`, `DeleteLast`; `LockRead`, `LockCheck`, `LockWrite`, `LockList`,
  `LockChildren`, and the same of unlock. A deletion calls itself for all
  the children at once and takes any answer; the cascades of lock and unlock take one child after
  the other and look at no answer. `Pages` are the children one listing may return (`NS:331`).
* A folder moved below itself makes the calls of a deletion wait for one another for ever: the
  run allows deadlock for this reason.

Left out: aspects (`NodeAspects`), bytes (`NodeContent`), events (`NodeEvents`), titles.

### Search

`NodesFilters` has the evaluation of filters and their notation: a text is a sequence of tokens,
and a word may contain the letters of an operator, which is all of its spelling the parser
notices. `AuthorizationService` has the check on a folder and the filters that stand for it in a
search. `FindService` is one search: it adds those filters, asks the repository which folders
satisfy the ones meant for the parent, one question per group of filters in any order, then asks
for the nodes, sorts and cuts a page; a search by meaning asks the provider for an embedding and
the repository for the nearest nodes first, and falls back on the words when either fails.
Between the questions others change the nodes (`Change`, at most `MaxChanges` times); `seen` is
history, what the repository has held since the search began. Similarity scores are inputs.
A page of a search by meaning looks at `LookAt(token)` neighbours, `TopK` of them or as many as the
pages up to it hold (`find_service.ts:171`), and shows those of them that may be read and have their
place on it.

### WebDAV

`WebDav`: the path cache (`cache`, a function from paths to entries, each with its node, its age and
its place in the order of use, where the code has the counter of accesses), the requests of clients, each a resolution of its paths followed by one call of
`NodeService` and an event, and the handlers of events, which drop the entries of the nodes
concerned. An entry not found in the cache is looked for by title, 20 hits at most, walking up
from each. `shaken` marks entries below a folder that was moved or renamed, which the code has a
method for (`invalidatePrefix`, `webdav_path_cache.ts:228`) and never calls.

### Events, folders and the log

`NodeEvents`: `bus` holds events published and not delivered; `Deliver` starts the handler of
folders (`FindFolder`, `ReadFolder`, `WriteFolder`, one per access) and the append to the log. Editors
update and delete nodes in two steps, as `NodeService` does. `losses` bounds appends that fail,
handlers that fail and restarts, which lose the bus and the handlers.

`FeaturesEngine`: `jobs` are the runs and the handlers at work. A handler of an event chooses what to
run - the automatic actions whose filters the node fits, or the hooks of its folder - and runs it
one by one; a run reads the feature again, takes the groups of its `runAs` or of its user, and
changes nodes, which publishes events and starts handlers again. Features are edited meanwhile.
`RagIndex`: `docs` and `index` hold versions in place of texts; each change starts a handler in
`indexers`, which reads the node (`GetDoc`), its bytes if its record has a size (`Export`,
`rag_service.ts:181`), and stores the embedding (`Store`) or fails; those of one node finish in any
order. An update sets the size or, when it names none, loses it (`NS:712`); `WriteBytes` is
`updateFile` before it updates the record, which may be refused. `written` is history: the files whose
bytes were written after their last event.

### Adapters

`NodeRepositories`: `held` are the rows or, in memory, the records; `file` is the JSON file behind
the flat-file repository, which a failed or torn save leaves behind. Updates and deletions of
databases are two queries (`BeginChange`, then `UpdateRow` or `DeleteRow`). `FilterQueries` is the
clause each database gets for a filter: the truth of an SQL clause is a set, `{}` for NULL.
`EventStores`: an append in one step (memory, SQLite), or a read of the last number and an insert
(PostgreSQL, MongoDB), with a unique index that MongoDB builds late, and streams the flat-file
store could not read. `ConfigurationRepositories`: save, read, delete; a record is a function from
fields, since MongoDB's `$set` merges. `StorageProviders`: bytes and mimetypes in memory, in two files,
in S3, and in Google Drive, where a write searches, creates and places a file in three requests.

### Services over configuration records

`ConfigurationServices`: users, groups, API keys, aspects, features, agents and preferences. `call`
holds an operation between its reading and its saving; `Defaults`, `Completed`, `Merged` and
`Normalised` do what the services do to a record. `told` is history: the record as the successful
requests, in turn, leave it. A read may fail: most operations then end as if they had not begun, but
those of `TakesFailureForNone` go on as if there were no record (`users_service.ts:40`,
`agents_service.ts:96`, `user_preferences_service.ts:47`). `mixed` is history: the records on which this
happened, or operations overlapped, since the last request that wrote the whole record. `updateFeature`, `updateAspect` and `updateAgent` are modelled
although no HTTP handler calls them.

`Accounts`: `AuthenticateApiKey`, `AuthenticateRoot`, `AuthenticateToken` give a request its
principal, `Login` and `Me` answer; users and keys change meanwhile. The signature of a token is an
input. A header is written in one of the `Forms` two parsers tell apart: `GetToken` is the
middleware's, which is case-sensitive, takes the word after one blank and looks for a key first;
`GetBearerToken` is the login's. `Notifications`: a deletion of several is one repository call after
another (`ReadNext`, `DeleteFound`), each of which may fail, by the members of a group at a time; a
notification that cannot be read is skipped like one that is gone (`Skip`). `NodeAspects`: a writer reads the node, its
aspects to keep what is readonly, its aspects again to validate, the nodes it refers to, and writes,
each a step, while aspects change and nodes are deleted.

`AgentSessions`: `entries` is the `Map` of sessions in insertion order, `talks` the interactions
under way: each asks the guard, calls the model, and has its usage logged after the answer. `known` and
`closed` are history: the sessions opened, the last used last, and those that were closed.

## 4. Runs

The runs `wf_` use `MCWorkflowInstances`: one document `doc`; alice (administrator, staff), bob
(staff), carol (legal), dave (no group, may write the folder); a review definition (draft,
review, done; filters, restricted signals, one transition with actions), a variant with a way
back from its final state, one the schema refuses and one to replace it with.

| Run | Bounds | Shows |
| --- | --- | --- |
| `wf_sequential` | 1 request at a time, 2 instances, 3 transitions each | `NodeFollowsInstance`: between requests a running instance's node is locked and marked with the instance and its state, and no other is marked. `EditsFollowState`: the content of a node in a workflow changes only through `updateNode` by a user its state admits. Requests that move an instance come from users who can release its node; updates and edits also carry lock and mark fields (freeing the node, giving it to another, naming an instance), and a node is excepted once an `updateNode` has rewritten them. |
| `wf_concurrent` | 2 requests interleaved at every access, 1 crash, 1 instance, 3 transitions | `TypeOK`, `HistoryIsPath`, `HistoryAuthorised`, `RunningIsConsistent`, `IdentityIsFixed` hold although handlers overwrite one another's records. |
| `wf_lifecycle` | 1 request at a time, 1 failing write, 1 crash, 2 instances, 2 transitions; definitions replaced and deleted | `ImplementsLifecycle`; `FailedStartLeavesNothing`: a start that fails leaves neither instance, mark nor lock. |
| `wf_live` | 2 requests at a time, 1 failing write | `EveryRequestReplies` under weak fairness of each handler. |
| `wf_cancel_undone` | violation | A transition that began before a cancellation writes the instance back as running (`ENG:213`). |
| `content_concurrent` | 2 requests interleaved at every access, 3 files, a limit of 3 bytes, no faults | `FilesHaveContent`: a record without bytes is in the hands of the request that creates or deletes it. |
| `content_sequential` | 1 request at a time, 2 files, 2 failing stores, 1 restart | `BytesBelongToFiles`: no bytes without a record are left, but those of a file reported as not created. `DoneInBothStores`: what a reply reports as done is done in both stores. `StorageLimitHolds`: the usage stays below the limit, whatever fails. |
| `tree` | a folder, a folder in it, a document in that and one to create; 12 requests one at a time, one of them freeing the folder by its lock field, and every two of them and of the engine's update interleaved; pages of 1 child | `OrphansAccounted`: a record without its folder was refused, beyond the page, or written into a folder that was going. One request at a time: `FiltersHold`, `SystemLocksHaveFolder` (a lock of the lock system is below a lock, unless an update wrote either), `LockCoversChildren`. |
| `search_and_events` | searches: 4 nodes, 5 principals, pages of 2, 1 change between questions; WebDAV: 2 clients, 3 requests, 2 cache entries, pages of 2; events: 2 editors, 4 nodes, 2 changes, 1 loss; features: 2 features, a folder with hooks, 2 events, 1 edit; index: 2 nodes, 3 events, sizes kept and lost | `FoundIsReadable`, `ReadableIsFound`: a search returns what the check allows, and all of it. `TextIsUnderstood`: a text means the filters it is the notation of, exactly when none of its words holds an operator that is tried earlier. `BestFirst`: a ranked page leaves out no better node among the first `TopK` neighbours (3 in the run, 100 in the code), on the first page and on later ones. `CacheFollowsTree`: a cached path is where it says, or its removal is on its way. `FoldersAreTouched`, `DeletedAreListed`: folders and log follow the changes. `HandlersAreThorough`: a handler runs all that is due. `IndexFollowsNodes`: no deleted node is found by meaning, and the embedding the last change's handler stored is of the node: of its bytes too if its record has a size. |
| `repositories` | every backend; 2 nodes, 2 callers, 3 bodies, 1 fault; 3 events in 2 streams, 2 faults; 2 configuration keys; 2 storage callers, 1 fault | `PortableFiltersAgree`: a portable filter finds the same nodes in every database. `SavedIsRead`: what was reported as stored is read. `StreamsAreNumbered`, `LogIsAsReported`: numbers without gaps, and a log that tells what appends told. `LastWriteIsRead`: a storage gives the last bytes with their mimetype. `EmbeddingKept`: saving a node keeps its embedding in databases. |
| `services` | every kind of record, 2 keys, 2 callers, reads that fail; 2 users, 1 key, every token in every form of the header; 3 notifications, 2 deleters, calls that fail; 2 aspects, 2 writers, 1 change of aspects; 3 sessions in a store of 2, 2 talkers, interactions of 2 tokens under a limit of 2 | `ChangesAreKept`: a record is what the successful requests add up to. `GroupsAreCurrent`: a request has the groups the accounts give now. `EndsForAReason`: what a deletion of several reports is so, but for notifications it could not read. `ValidWhenWritten`, `ReadonlyKept`: what is on record passed validation, and readonly properties stay. `RecentSessionsAnswer`, `LimitIsKept`: a session in use answers, and a month costs less than its limit and one interaction. |
| `features_depth` | violation | Five runs of one feature at once: the depth the code limits to 3 is never counted (`features_engine.ts:590`). |

Why the bounds suffice.

* Workflows: every handler touches one node and one instance, so two requests and one document
  show every pair of handlers in conflict; a second instance is needed for a start after an end,
  and three transitions take the review through a rejection or to its end; one failing write
  reaches every error branch and one crash every cut between two writes. The symmetry of
  `wf_concurrent`, `content_concurrent` and `tree` is over the request slots, which no constant
  tells apart.
* Files: a handler touches one file, or two when it copies; three uuids are a file, one to be
  created and one more for a request that interferes. The second failure of `content_sequential`
  makes the deletion fail that follows a failed upload, and the limits are small enough that
  uploads, copies and replacements are refused in some states and not in others.
* Tree: a folder in a folder is the least for a cascade in a cascade and for a move below itself,
  and with a page of one a second child is already beyond it.
* What follows the tree: a change of a node and one of the folder above it, in both orders, need two
  changes; with two editors one of them may act between the other's reading and writing. Two
  clients fill and use the two entries of the cache, and a third path makes it drop one. Two events
  let a feature set off another; an edit in between is the one case in which the two readings differ.
  Of the three events of the index two may be under way when the last is a deletion, or an update
  that loses the size follows one that set it.
  Pages of a search by meaning reach beyond the first `TopK` neighbours from the second page on. The
  texts are of 7 meanings, among them `title=="match day"`, whose value holds the letters of an operator
  tried before its own, `title=="main"`, whose value holds those of one tried after, and a field `main`
  compared with `in`.
* Adapters: two callers on one record are all the pairs of queries; the second fault of the event
  stores lets a stream that could not be read be overwritten.
* Services: two operations on one record show every overlap; the third session overflows the store
  and a second interaction is asked for while the first one's usage is not logged.

**Fairness.** `LiveSpec` adds weak fairness of `Handle(p)`: an awaited repository call settles
and the event loop resumes the function, so a handler that can go on does. Nothing is assumed
of clients. It is the only run with a temporal property that needs fairness: handlers of
events, appends and removals from the cache may be lost with the process, and no code repeats them,
so their properties say what holds *once they are done*.

### Disagreements and consequences seen while modelling

Two are kept as runs (`wf_cancel_undone`, `features_depth`). The others are not kept as runs of
their own; properties above name them as exceptions, or requests are chosen without them.

* Workflows. A participant outside the administrators cannot start a workflow: the lock is taken
  for the groups of the starter, the engine's own user is not among them, its update is refused and
  the start undone (`docs/workflows.md:111`). A final transition by someone who may not unlock the
  node ends the instance and leaves the node locked and marked (`docs/workflows.md:114`). Two
  starts at the same time both take the lock (`NS:938`) and run on one node
  (`workflow_instances_engine_test.ts:230`). An update that read the node before a start removes
  the marks the start set. Members of the starter's groups can unlock the node of a running workflow
  although the code says only the workflow can (`ENG:158`). An empty override of the participants
  admits everybody (`docs/workflows.md:90`). An edit is checked against the state the instance
  had when it was read (`docs/workflows.md:113`). `updateNode` passes the client's metadata on with the
  workflow's rights: `{"workflowState": null, "workflowInstanceUuid": null, "locked": false}` from anybody
  who may edit in the state frees the node while its instance runs (`ENG:540`, `NS:723-744`), although
  `NS:706` has such a node change through workflow transitions only. An instance whose final state has a way out can be
  reopened (`ENG:196`), also while another runs on its node.
* Files. A metadata update rebuilds a file with no size, so that the usage is no longer what is
  stored (`NS:715`). The bytes of a locked file are replaced before the permission and the lock are
  looked at (`NS:868`, `node_service_lock_test.ts:259`). A copy takes the lock and marks of its
  original with it (`NS:96`). Two uploads that each fit pass the storage limit together; the
  size a replacement frees was read earlier (`NS:861`), so one that runs beside a replacement by
  less is granted more than the limit, and again the next time.
* Tree. Two moves, each allowed, make a cycle (`NS:741`); a folder may be moved below itself, and
  is then out of reach. Children beyond the first page are neither deleted, locked nor tested. The
  locker of a folder may unlock it by a plain update, `{"locked": false}`: no cascade follows, and its
  children keep the lock system's lock, which only the unlocking of the folder takes off, once it has been
  locked again (`NS:723-744`, `api/nodes_handlers.ts:105`). A folder put into itself with new filters in one update
  is not tested against them.
* Repositories. In memory `add` overwrites silently and `update` adds what is not there; the
  flat-file repository never saves embeddings, never reads its backup, refuses to open a torn file,
  and keeps a change whose save failed, which the next save stores. The databases acknowledge an
  update of a row deleted in between. Comparisons of nested properties fail or find nothing in
  PostgreSQL, `!=` on numbers is always true there and an unknown operator is `TRUE`; MongoDB
  does not normalise the names of properties and matches case; `LIMIT` and `OFFSET` come without an
  order. Appends that race in PostgreSQL lose an event; MongoDB builds its index after the first
  insert. Two overlapping writes to Google Drive create two files, which every later call refuses.
* Search. When the questions a search asks of parents all find no folder, no group of filters is left
  and the repository is asked for everything: somebody who may read no folder gets every node
  (`find_service.ts:123-130`). Of several filters of the field `parent` beside one about the parent
  only the first is asked. An advanced grant on a folder of another group counts in a search and not
  in the check; the folder's group counts in a search only when it is the first of the principal's.
  The notation of filters takes the first operator of its list whose letters occur anywhere in the
  filter: `title=="match day"` is read as a match, and a field `main` is cut in two by the `in` in its name
  (`nodes_filters.ts:336-342`). Each page of a search by meaning looks at a number of neighbours of its
  own (`find_service.ts:171`) and drops those that may not be read (210-221): beyond the first 100 a
  node may be on no page, behind worse ones.
* WebDAV. Paths below a moved or renamed folder stay cached until they expire; locks publish no
  event; two PUTs of a new path create two nodes; a missing folder ends breadcrumbs as the root does;
  a stale entry can lead MOVE to put a folder under itself; COPY does not decode its title.
* Events. Overlapping touches and edits of one folder overwrite each other; the folders an event
  names may be those of an older copy; failed appends lose events; updates are filed under
  `application/octet-stream`.
* Features. The map of running features is keyed by arrays made for each call, so no count is ever
  above 0 and its entries stay; an endless chain is possible. A hook on deletion gets no node. The
  filters are taken from one reading of a feature, its groups and `runAs` from the next.
* Index. After an update that names no size the record of a file has size 0 (`NS:712-721`), so its
  embedding is made of the metadata alone (`rag_service.ts:181`) until the file is written again. An
  `updateFile` that is refused has replaced the bytes and publishes nothing: the embedding stays as it
  was.
* Configuration. A read that fails is taken for "no record" (`postgres_configuration_repository.ts:132-135`):
  `updateUserPreferences` then saves the fields of the request alone, `createUser` replaces a user,
  `createOrReplaceAgent` forgets the time of creation, `deleteUserPreferences` deletes nothing, and all
  report success (`user_preferences_service.ts:47-90`, `users_service.ts:40`, `agents_service.ts:96`).
* Login. The middleware takes an API key before a bearer, wherever the key is, and reads `Bearer`
  case-sensitively up to the next blank (`authentication_middleware.ts:36, 68`); the login reads all after it in
  either case, also beside a key (`login_handler.ts:98, 148`). `authorization: bearer <jwt>` gets its user
  from the login and 401 from the account page. `docs/authentication.md:13-16` orders the credentials otherwise.
  `active`, "Can user login?" (`domain/configuration/user_data.ts:14`), is looked at nowhere: an inactive user
  logs in and acts. The model has the field and no action reads it.
* Notifications. A deletion skips every notification whose reading fails, as if it did not exist, and
  reports success with it kept (`notifications_service.ts:113-117`).
* Services. A user's record may bear a builtin user's e-mail; a token that finds it by its phone acts
  with the record's groups, while the account page shows the builtin user. Overlapping updates lose changes; builtin names are accepted for users and features,
  whose records are then shadowed; one legacy feature that cannot be read fails the whole list, and
  bringing a legacy feature up to date may overwrite or resurrect it (`features_service.ts:331`).
  A readonly property is free once an aspect was deleted (`NS:1366`, `docs/llms.md:187`).
* Agents. A session is found by tenant and agent only and keeps its copy of an agent that was hidden or
  deleted; tokens of failing calls are not logged; handlers of one node may leave an older
  embedding until the next change.

## 5. Proofs

Each theorem holds for any values of the constants that satisfy the named assumptions of the
modules: any nodes, users, requests, callers, and any number of failures and restarts unless the
property itself excepts them. None of the invariants the runs check is inductive as it stands,
because a handler stores later what it has read before; each proof strengthens its invariant by
what the operations under way hold.

### Workflows

`WorkflowInstancesProofs`, for requests interleaved at every access:

* `Types`, `HistoriesArePaths`, `HistoriesAreAuthorised`, `RunningAgrees`: the invariants of
  `wf_concurrent` about instance records. `Inv` says of every record *and* every copy that some
  handler may still save that it is `Sound` (a path of its snapshot, authorised, consistent, of its
  type), and that handlers stand at labels whose copies have been taken. A save then moves a sound
  copy into the store, and `Advanced`, `Cancelled`, `NewInstance` make sound copies of sound records.
* `IdentityStaysFixed`: the action property `IdentityIsFixed`. `IdInv` adds that keys are uuids,
  uuids on record were issued, and two records or copies with one uuid have the same identity.

`WorkflowSequentialProofs`, for requests one at a time (`Procs = {p}`):

* `LifecycleIsKept`: the refinement of `WorkflowLifecycle`. By `AloneInv`, the copy in hand is one
  step of the lifecycle away from the stored record, so each save is that step and every other
  action a stutter. This holds with any failures and crashes.
* `FailedStartsAreUndone`: `StartsInv` follows a start from lock to rollback: what it has left in
  the two stores, and that the lock and the mark are its own. The hypothesis `FewFailures` is
  needed: with no failing write the rollback always succeeds; with one, whoever starts must be able
  to mark nodes, since a refused mark starts a rollback whose own write may then fail. TLC shows
  the property violated with one failure when someone outside the administrators starts.
* `NodesFollow`, `EditsFollowStates`: at most one instance, the one being handled, disagrees with
  its node (`FollowInv`), nodes whose lock or mark an `updateNode` rewrote left out. `NamesIssued`, that
  clients name no uuid before it is generated, keeps their metadata from naming an instance to come. The hypothesis `Orderly` lists what the code leaves to its deployment, each
  a case of § 4: no write fails and no server stops, instances are not deleted, whoever moves an
  instance may release the lock of its start and nobody else may, final states have no way out.

### Files and folders

`NodeContentProofs`:

* `FilesKeepContent`, for any number of requests at once. The argument is one lemma, `Carried`: a
  step of one request disturbs the others' in nothing, so every record it leaves without bytes was
  so before and not in its hands, or is in its hands now.
* `NoBytesAreLeft`, `WhatIsReportedIsDone`, for requests one at a time, any failures and restarts,
  and deletions nobody awaits (`undoing`) running beside them. `AloneInv` follows the order of the two
  stores: bytes are put after the record and taken before it, so that what is in the blobs has a
  record or is being undone, and what a handler holds is the record it will report.
* `LimitHolds`, for requests one at a time, any failures and restarts, and files at the start that are
  finitely many and below the limit. The usage is a sum over records, counted as the bytes that make it
  up (`Bytes`), so that a write adds or takes a finite set. `LimitInv` adds to `AloneInv` that the
  bytes are finitely many (`Counted`) and that whoever has passed the guard and not yet written still
  fits (`Fitting`): alone, nothing has been added since it asked.

`FolderTreeProofs` proves `NoOtherOrphans` for any loads, any page size and any number of requests
in flight. A folder is removed long after its children were listed, so `TreeInv` says what a
deletion in progress has still to account for (`DeletionCovers`: the children of its folder are
spared, strayed, or waited for, and none is waited for when the folder goes), and what makes that
stable: a call that reports a deletion has deleted (`DeletedIsGone`), a call that writes a record
writes one of the same kind (`KindsKept`), and nobody holds a record that is yet to be created
(`Unborn`). `CallKeeps` has the argument once: whatever a call does within the bounds of `Ahead`,
`Others` and `Grown` keeps `TreeInv`; one lemma per action shows that it stays within them.

Its other theorems are for requests served one at a time, whatever their number and order, and rest on
`TreeInv`:
* `NodesFitFolders` (`FiltersHold`). `FiltersInv` says that what a call read or tested is still so
  when it writes (`CopyOK`), and that no parent is a uuid yet to be given out (`ParentOK`), so that
  a folder is created without children. The one hard case is the write of `update`: a move has been
  tested against the filters of the new folder and new filters against the children; a folder put
  into itself is tested against those it had.
* `SystemLocksAreFreed` (`SystemLocksHaveFolder`) and `LocksReachChildren` (`LockCoversChildren`).
  `lock` and `unlock` ignore what becomes of the calls they make for children, and may come to a
  folder again by a cycle of moves. `LocksInv` therefore describes a cascade in progress: of the
  calls of a request one is at work and the others wait for one another (`OneAtWork`, `Started`),
  none in a circle (`Grounded`: no set of calls, the request's own left out, contains the folders
  of all its members), and each has the children it has passed as it wants them (`Progress`). A call for a
  child that fails has found its work done, since the lock system is an administrator and holds the
  locks it takes off (`OpeningLocks`). When the request is answered its own call has ended, and by
  `Grounded` no other is left, so that every lock of the lock system is below a lock again. An update that
  writes a lock adds its node to `relocked`, and the invariants ask nothing more of the lock system's
  locks there and in that folder.

### Searches

`SearchProofs`, for any nodes, principals and filters:

* `SearchesShowTheReadable`, with any number of changes between the questions. `SearchAllows` says
  of every group of filters, for somebody outside the administrators, that it either still asks one of
  the alternatives of the permission, or asks it of the node itself, or names folders each of which
  granted it in some repository of `seen`. The lemmas under it hold each alternative against the check.
* `SearchesFindTheReadable`, `BestAreShownFirst`, when nothing changes in between. `SearchReaches`
  follows a readable node that fits the query: some group, asked already or not, still lets it
  through; `InOrderIs` and `PageHolds` say of any finite set of nodes that its order exists and what a page of it
  holds: the nodes by their place, the number of better ones. Of the neighbours every page looks at no page
  sees a better one that another does not (`NeighboursAre`, `PagesGrow`), so such a node keeps its place on
  all pages, and a page that shows a worse one comes after the page of its place (`ShownAtItsPlace`).

* `CachedPathsLead`, for WebDAV. `DavInv` says of every resolution under way that nobody has crossed: each
  of its walks is `Sure`, that is, a path leads from the folder the walk has come to down to the node it
  started from, and that path is what the walk has seen. At the root this is the path that was asked for
  (`EndedIsAt`), so what is stored is right, or marked as crossed. A change of a node leaves every
  path that does not pass through it (`ChangeKeepsCache`); a deleted node has no children, a renamed copy is
  a file, and a move marks the paths through the folder. That the folders form a tree is not needed.

### Followers of the tree

`FollowersProofs`, for handlers that overlap, fail and are lost:

* `IndexFollows`. What a handler will store is already in its hands: `HeldIsCurrent` says that
  the handler of a node's last change holds the node as it is (`Indexable`: without bytes when the record has no size), `Numbered` that a later change makes
  another handler the last.
* `FoldersTouched`. As long as nothing excuses a folder (`Excused`) it is `Covered`: some event on
  the bus names it, some handler will touch it, or it is new and no handler holds an older copy.
* `DeletionsListed`. Likewise `DeletionKnown`: a deletion is in the log or on the bus, and nobody who
  could bring the node back holds a copy, unless the excuse is recorded.
* `HandlersRunAll`. `OnTrack`: what a handler of an event has run and what it has left that is
  wanted are together what the event calls for, in whatever order features are listed.

### Adapters

`RepositoriesProofs`, in every backend, for calls that overlap, fail and restart:

* `EventsAreNumbered`, `ReportsAreOfTheLog`. `EventInv`: a number asked for follows numbers that are
  taken (`AskedNumbersFollow`), what was reported before an append began has a smaller one
  (`AfterTheReported`), and a file holds its stream as it was at some time (`FilesKept`), so that
  opening it again keeps all that.
* `ReportsAreRead`, `WritesKeepEmbeddings`. `NodeInv` adds that the file of a flat-file repository
  answers as memory does (`FileIsAcked`). The first has the hypothesis `KeysAreDistinct`:
  identifiers are derived from uuids, and MongoDB's may coincide.
* `PortableSearches`: what a portable filter finds in the four query languages, by cases of operator
  and field.
* `LastWritesAreRead`, by a case for each kind of storage: one request changes all (`AtOnceInv`), bytes
  then mimetype (`DirectoryInv`), or a search, a creation and a placing (`DriveInv`: a call still
  finds under its identifier the one file of its uuid). `Alone` is what all of them need: a uuid
  nothing overlapped on has one call.

### Services

`ServicesProofs`:

* `ChangesKept`. `CallOK`: a copy that no write has made old, and that was not taken for a failed read, is the
  record; and an operation that goes on from a failed read mixes the record.
* `GroupsStayCurrent`. `AccountInv` says of requests and answers what they were derived from, as long as
  the accounts have not changed. A record with a builtin user's e-mail (`Hidden`), which `createUser` admits,
  is an exception of the property and no hypothesis: the request acts with the groups of the record.
* `DeletionsEnd`. `DeletionOK`: a deletion has deleted what it has gone through, but for what it could not
  read (`unread`), and what it has found is there unless it met another.
* `NodesAreValid`, `ReadonlyStays`. `StepOK` says at each step of a writer what its readings
  were and what it has checked of the record it is about to write.
* `LimitKept`. `MonthAccount` accounts for every token: as long as no guard was asked while tokens
  were being spent, the month is *settled* (all logged), *under way* (one interaction, admitted
  while the log was below the limit), or *to be logged*.
* `RecentAnswer`. `RecentInv` relates the `Map` to the sessions opened: its entries are some of
  theirs, in the order they were last used (`InUseOrder`). What a full store drops has
  `MaxEntries` live entries after it, each of a session used later (`FewAfter`, an injection of places), so
  that it is not one of the last.

### What proving showed

* `FoldersAreTouched` was stated too strongly, and its run could not tell: with three changes a stale copy,
  written back to touch a folder, undoes the move of that folder into another, which is then never touched
  for it. The property now excepts the folder such a copy leads away from (`astray`).
* Filters written as `CASE` with guards that overlap chose one branch at will; they are now
  conditions in the order of the code. Values of an aspect that are not strings are not held to its list
  of allowed values, as in the code. A user found by phone is returned with the e-mail of its record.

* `FoundIsReadable` compared a result with the repository as it was when the search began and as it is
  now. With two changes a folder may grant the node in between only, and be found then; it now speaks
  of every moment since (`seen`). And it excepts a search that has no group of filters left (§ 4).
* `FindService` kept groups of filters that are empty, which the code drops, and asked every filter of
  the field `parent`, of which the code asks the first.
* Lists that a library function picks or sorts are now described by their places (`InTurn`, `InOrder`),
  which is what the proofs speak of.

### Assumptions and limits

Assumed of the constants, by name, and evaluated by TLC in the runs: `PrincipalsAssumption`,
`MarkersAssumption`, `BuiltinAssumption`, `AdminAssumption` (system users, markers and builtin
records are none of the ordinary ones); `NoRecordAssumption`, `NodeBackendsAssumption`,
`ConfigAssumption`, `StorageAssumption`, `RagAssumption` (the value for "nothing" is no record, and backends are
those modelled); `InstancesAssumption`, `ContentAssumption`, `TreeAssumption`,
`NotesAssumption`, `AspectsAssumption`, `BodiesAssumption`, `EventAssumption`,
`FeaturesAssumption`, `SessionsAssumption` (requests are requests, bounds are numbers, and what is on
record at the start is well formed); `FindAssumption` (nodes have the fields of their kind, parents are folders,
titles and places are in an order, no group has the name of a field); `DavAssumption` (the root is none of the other nodes, paths
are sequences of texts, the folders of the nodes at the start are there); `PrincipalsHaveGroups` (a principal
is in at least one group); `QueriesAssumption` (a filter that is asked compares with a value, a match with texts).

`TreeAssumption` says besides that the slots for requests are finitely many, that nodes at the start
fit their folders, and that a lock of the lock system is then below a lock.

Only model-checked, as beyond the prover: `EveryRequestReplies` (fairness), and
`TextIsUnderstood` with what the notation of filters yields for every text (induction over data).
`RunsAreLimited` and `CancelledStays` are violated.

## 6. Not modelled

* **Articles**: titles and texts by language over creation and update of nodes; no state of their own.
* **MCP server, HTTP API, set-up**: transports. Each handler parses, calls one method of the
  services above and formats the answer.
* **Builtin features, tools, prompts, skills, models**: calls to language models, and texts. An
  interaction is what the guard, the session and the log see of it. Coercion of parameters and the
  HTTP responses of features are left out, as is `NodeService` as a tool.
* **Node service**: breadcrumbs and listing only read; the checks of mimetypes depend on no state;
  arrays and patterns of aspects; uuids chosen by clients. No one module has a node's lock,
  aspects and bytes together: each keeps the fields its properties are about.
* **Adapters**: vector distances and indexes, connections and pools, the handler by which Google
  Drive follows the renaming of a node (`google_drive_storage_provider.ts:180-211`).
* **WebDAV**: the XML of PROPFIND, headers, LOCK tokens.
* **Metrics**: reports read sums; the guard that uses them is in `NodeContent` and `AgentSessions`.
* **Authorization**: `is_principal_allowed_to.ts` is an older copy of the check that nothing calls.

`PROJECT.json` has the status of each component; those marked `partly` name what they leave out.
