# Atlas Core: a verification development

Atlas Core (`src/atlas-core`) is a Go server that keeps the state of a small
fleet: *entities* (assets, tracks, geofeatures), *observations*, *tasks* that
send commands to assets, and *objects* with files.  Postgres is the source of
truth for every row, a directory on one volume holds the bytes of object
files, and a live server-sent-events stream tells clients what changed.  This
directory holds TLA+ models of it, the TLC runs that check them on small
instances, and proofs for all instances.

All source paths are relative to `src/atlas-core/internal/` unless they start
with `src/`.

## 1. Inventory of the system

One process serves HTTP; each request runs in a goroutine of its own; a pool
of at most 8 Postgres connections runs its SQL at READ COMMITTED.  Most
handlers are a *sequence* of autocommitted statements with Go code in between.

| Component | State it keeps | Operations | Hard parts | What makes it correct |
| --- | --- | --- | --- | --- |
| Task operations, `service/service.go` 213-348, `service/task_json.go`, `postgres/store.go` 209-276 | `tasks` rows: status, asset, pinned catalog, JSON | create, patch, status transition, delete | the row that is checked is read by one statement and overwritten by another; catalogs change at restart | status lifecycle, command frozen after `pending`, command accepted by the pinned catalog, asset exists |
| Entity, observation, object metadata, `service/service.go` 82-211 and 350-404, `postgres/store.go` 57-207 and 278-392 | rows of `entities`, `observations`, `objects` | create, patch, delete | counts of dependents taken before the delete; no foreign key for `objects.owner_id` | no row refers to a missing one |
| Object files, `objectfiles/store.go`, `postgres/store.go` 394-603 | `object_files` rows; bytes under `objects/`; staged bytes; the `healthy` flag | upload, append, open, delete | row and bytes change in different steps; a crash between them; the file lock of append | no row refers to missing bytes, size matches, status is honest |
| Event hub and stream, `events/publisher.go`, `httpapi/router.go` 894-931 | subscriber map, a channel of 32 events per stream | NextID, Publish, Subscribe, cancel, the SSE loop | eviction of slow streams against cancel; buffer limit | no panic, no gap before the end of a stream, an eviction is noticed, publishers never wait |
| Change feed, `service.publish` and every mutating service method, replica mode of `src/atlas-docs-next/contracts/sdk/` | none beside the hub | commit, re-read, publish | events are published after the commit and outside it | a replica converges |
| Command catalog, `catalog/catalog.go`, `app/app.go` 37-164 | active catalog in memory; its object, file and bytes in the stores | Load, Validate, Materialize, Readiness, RunWhileObjectInactive | crash in the middle of Materialize; deletion of its file by clients | a restart with intact storage becomes ready; tasks can always resolve their catalog |
| Parameter schemas, `catalog/schema.go`; sighting catalog, `sightingcatalog/catalog.go` | the loaded catalogs | Load, ValidateSchema, ValidateValue, ValidateSighting | rules that interact, numbers as float64, what the start lets pass and requests then trust | a value is accepted exactly if it satisfies the schema as written |
| Staging directory, `httpapi/router.go` 672-797, `objectfiles/store.go` 114-250, `postgres/store.go` 394-479 | `staging/<object_id>/<file_id>-<random>` | multipart form, Stage, Promote, cleanup, pruning | two layers clean up for one request; pruning against another upload; nothing sweeps | no staged file is forgotten, none of a committed upload is removed |
| JSON helpers, `model/types.go` | none (pure) | MergeNamedSections, ValidateCustomComponent | nesting limits | - |
| HTTP layer, `httpapi/router.go` | none | decoding, validation of requests, error mapping | null, missing and empty fields of a patch | - |
| Application, `app/app.go`, `src/atlas-core/cmd/atlas-core/main.go` | configuration | start, readiness, shutdown | shutdown returns before requests end | - |
| Python tools: fusion harness, CLI, Docker entrypoint | run state of scenarios | run, clean up | 409 races, waiting for readiness | - |
| SDK, Command Interface | - | documents only | - | - |

## 2. Plan

The order is the importance of the behaviour; a module in bold exists.

1. **`TaskLifecycle`**, **`TaskLifecycleProofs`**: the task operations.
2. **`EventHub`** implementing **`ChangeStream`**, **`EventHubProofs`**: the
   hub and the event stream, with an abstract specification of what a client
   may rely on.
3. **`ObjectFiles`**, **`ObjectFilesProofs`**: rows and bytes of object files.
4. **`RefIntegrity`**, **`RefIntegrityProofs`**: references, owners, deletes.
5. **`SchemaRules`**, **`SchemaCheck`**, **`SchemaCheckProofs`**: what the catalogs accept when they
   are loaded and what they then accept from clients, against a definition of the
   documented subset of JSON Schema.
6. **`CatalogStartup`**, **`CatalogStartupProofs`**: the start, step by step,
   with a stop before any step, later starts with other documents, and clients
   that reach the catalog's object and file in between.
7. **`ChangeFeed`**, **`ChangeFeedProofs`**: read, merge, validate, overwrite of
   entities, observations and objects, then commit, re-read, file list and
   publish, and a client that combines `GET /queries/full` with the stream.
8. **`Staging`**, **`StagingProofs`**: the staging directory, multipart uploads
   and the two layers of cleanup.

What is left, in this order.  (a) Proofs: every invariant and action property that a
run checks is a theorem now; lemmas that several proof modules state separately could be
shared.  (b) Pagination, as a client that walks through pages while rows are inserted and
deleted.  (c) The custom components and `mergeTaskComponentsOnlyProgressResultError`
beyond what `TaskLifecycle` and `ChangeFeed` say of sections.

The number of runs is kept small, one for each question the models are asked.

## 3. The modules

In all of them a handler is a sequence of actions of a *worker* (the goroutine
that serves one request).  One action is one SQL statement, or one operation on
the file system or on a channel, with the Go code after it up to the next one.
What the goroutine remembers in local variables between two steps is in
`req[w]` (`handler`, `held`, `pending` and `todo` in the hub).  A check in the
code is a guard; an early return with an error leaves no trace and brings the
worker back to idle, so a request that is refused by its first statement is not
an action.  `Abandon` ends a request at any later point: a statement fails or
the context of the request is cancelled.  `Restart` ends all of them.

### `TaskLifecycle` (`service/service.go` 213-348, `service/task_json.go`)

* `task` is the `tasks` table; `supports` is the `supported_commands` of the
  entities (an entity that is no asset supports none); `active` is
  `catalog.Active`; `loadable` is the set of catalogs whose stored file
  `catalog-json` can be read back unchanged, and within the limit of that read.
* `CreateTaskValidate`, `CreateTaskInsert` are `CreateTask`: the asset and the
  active catalog are read and the command is validated before the `INSERT`.
* `PatchTaskRead`, `ValidateAgainstCatalog`, `PatchTaskValidateAsset`,
  `UpdateTask` are `PatchTask`; `TransitionTaskStatusRead` with the same
  followers is `TransitionTaskStatus`.  The `UPDATE` has no condition but the
  id: it overwrites whatever the row holds.
* `exclusive` is chosen once, in the initial state: the tasks whose clients wait
  for the answer to a write before the next write to that task.  The properties
  that need this discipline say so, and the others hold without it.
* `DeleteTaskCount`, `DeleteTaskRow` are `DeleteTask`; the other actions are
  what entities, the file endpoints and restarts do to the state above.
* The JSON of a task is abstracted to its description, its command with the
  parameters, and one value for the three report components (progress, result,
  error), which the code treats alike.

### `EventHub` and `ChangeStream` (`events/publisher.go`, `httpapi/router.go` 894-931)

* `registered` is the map of subscribers, `buffer` and `openChans` the
  channels, `mu` the mutex, `todo` and `slow` the progress of one fan-out;
  `handler` is the position of a stream's `select` loop, `held` the event it has
  received and not yet written, `gone` the clients that went away.
* `Send` and `Evict` are one iteration each of the loop in `Publish`, in any
  order, since Go iterates maps in no particular order.
* `log`, `since` and `written` record what was published and what was written
  to the current response of each stream; `ChangeStream` is stated over them
  and the set of open responses alone.  `ImplementsChangeStream` is
  the refinement.

### `ObjectFiles` (`postgres/store.go` 394-603, `objectfiles/store.go`)

* `row` is `size_bytes` of a row of `object_files`, `bytes` the length of the
  file at its path, `lock` the lock `SELECT ... FOR UPDATE` or `DELETE` takes on
  the row, `healthy` the flag behind `/readiness`.  The length of a file stands
  for its content: every comparison the code makes is one of lengths.
* `Stage`, `InsertRow`, `Promote` are an upload; `LockRow`, `Append`,
  `CommitAppend` an append, with `AppendStops`, `Undo`, `UpdateFails`, `Revert`,
  `CommitAppendFails`, `Restore` its error paths; `ReadRow`, `OpenBytes` a read;
  `DeleteRow`, `DeleteFileRows`, `DeleteObjects`, `Unlink` the three deletes.
* `Faults` selects what may fail beside clients, `Alone` the operations that
  clients do not overlap with others on one file; both are constants, so that
  each run says under which conditions its property holds.
* `excused` is a history variable: the files for which the code had no way of
  noticing that row and bytes differ, because the process restarted while a request
  worked on the file or after the store had reported a mismatch, a
  truncation after a partial append failed, a `COMMIT` of an upload or a delete
  returned an error, or a delete met another request on its file.
  `MismatchReported` says that these are all the causes there are, of a row without
  its bytes and of bytes without a row.

### `RefIntegrity` (`service/service.go` 82-404, `postgres/store.go` 57-392)

* `entity`, `observation`, `task`, `object` are the four tables, reduced to
  what references need: the type of an entity, the source of an observation,
  asset and catalog of a task, the owner of an object.
* Row locks are read off the requests: a transaction of `CreateObject` holds
  its owner `FOR KEY SHARE` while it is at `insert_object` (`KeyShared`), one of
  `DeleteObservation` its row while it is at `cascade` (`BeingDeleted`).  A
  statement that would wait is not enabled.
* The three counts of `CountEntityDependents` are three actions, the `DELETE`
  with its foreign keys is a fourth.
* `stale` is a history variable, as in `TaskLifecycle`: the request has been
  overtaken by a change of what it checked.

### `SchemaRules` and `SchemaCheck` (`catalog/schema.go`, `catalog/catalog.go`, `sightingcatalog/catalog.go`)

* `document` is the file a catalog is read from, `active` what `Load` made of
  it, `request` and `answer` the last judgement.  `JudgeParameters` is
  `validateTaskCommandCatalog`, `JudgeSighting` is `ValidateSighting`.
* JSON values are tagged records.  A number is counted in halves, and `Mantissa`
  stands for 2^53: `Float64` rounds as `encoding/json` does, so that fractions
  and integers that float64 cannot tell apart both occur.
* Go ranges over maps in no order, so an operator returns the *set* of errors
  any of which may be reported; empty means accepted.
* `SchemaRules` holds the functions, `SchemaCheck` the catalogs and requests that use
  them.  `Unmarshal`, `ValidateSchema`, `ValidateValue` and, of the reference, `Satisfies`
  and `InUse` are recursive.  Their calls on a *part* of a value go to a constant operator
  (`Unmarshalled`, `SchemaVerdict`, `ValueVerdict`, `Satisfied`, `UsedIn`).  For TLC,
  `MCSchemaCheck` makes it the function itself; for proofs the named assumptions of
  `SchemaCheck` say the same, as one equation each over `Schemas` and `Values`, two sets of
  JSON values that hold the parts of their members.  `Depth` is any measure that falls
  from a schema to those inside it.
* `Satisfies` is the reference: one conjunct for each keyword, true of every
  value the keyword is not about.  It shares no control flow with
  `ValidateValue`, which goes by the type first.

### `ChangeFeed` (`service/service.go` 82-211 and 350-450, `postgres/store.go` 57-207, 278-392)

* `row` holds the entities, observations and objects, `files` the sizes in
  `object_files`; `req` is what a request has read, merged and still owes;
  `phase` and `replica` belong to a client that keeps a copy of the state with
  `GET /queries/full` and `GET /stream/changes`.  The client is external: the
  documents describe it (`src/atlas-docs-next/contracts/sdk/`), the server only
  serves it.
* `PatchEntity`, `PatchObservation`, `PatchObject` are the read and the merge;
  `Validate` the statement that validation makes of its own; `Update` writes
  whatever row has the id then.  `Reread`, `ListObjectFiles`, `Publish` follow the
  commit, and any of them may be the last (`Abandon`, `ListObjectFilesFails`, an
  answer that is lost in `Changed`, `Restart`).
* Of the JSON, components are the names of its sections, and the fields that
  validation relates to others are kept: the type of an entity, the owner of an
  object, `sightings_object_id`.  Of an owner that is no observation (`Elsewhere`)
  nothing is kept, so the rule that a `fusion_provenance` belongs to a track
  (`service/service.go` 755-766) is left out.
* The stream is the one `EventHub` implements, taken at its abstraction: an event
  reaches every subscriber, in the order of the fan-outs, until the response ends
  (`Disconnect`).
* Three history variables make the claims precise.  `stale` in a request: the
  row has changed since it was read.  `mixed`: a patch that was validated for one
  row was written to another that has its id now.  `doubtful`: the last event of
  the record need not show the record, for one of the causes that `ReplicaCurrent`
  names.  A record leaves `doubtful` with its next undisturbed change.
* `scene` restricts a behaviour to some of the ids; the theorems do not use it.

### `CatalogStartup` (`app/app.go` 37-108, `catalog/catalog.go`, `service/service.go` 485-541)

* `boot` is the next step of the start: `find` (GetObject), `create`, `list`,
  `verify`, `upload` (as far as the commit), `promote` (the rename); then `up`.
  `chosen` is the document `Load` has read, `active` is `catalog.Active`; `object`,
  `row`, `bytes` are what is stored under the id that the hash of each document
  gives; `pinned` is `command_catalog_object_id` of the tasks.
* Contents of a file are the authored bytes, others of their length, or bytes of
  another length, which is all that `verifyMaterializedCatalogFile` and
  `loadPinnedCatalog` tell apart beside the size of the document: `Large` are the
  documents above the 8 MiB that `loadPinnedCatalog` reads.  `Load` has no limit, and
  the upload of `Materialize` that of all uploads, 16 MiB by default.
* `CommitUpload` never meets a row: nobody else serves requests during a start, and
  `list` has just found none.  The conflict that `Materialize` takes for success
  (`catalog/catalog.go` 261-264) therefore has no step.
* `StepFails` and `Stop` are possible at each step, and `Start` with any document
  after each stop.  What clients can do to the file in several steps
  (`UploadTorn`, `AppendTorn`, a delete whose unlink is not reached) is one step
  here, with the outcomes that `ObjectFiles` has for it.
* `failed`, `harmed`, `removed` and `cascaded` are history variables, one for each
  cause that the properties except: a failure of this start, a file that others
  wrote or tore, a file deleted through the API, an object that went with its
  observation.

### `Staging` (`httpapi/router.go` 672-797 and 979-1030, `objectfiles/store.go` 114-250, `postgres/store.go` 394-479)

* `staged` says in which directory each staged file is, `dirs` which directories
  exist, `row` which upload committed the row of a file; `req` is a request with
  its step, its file, the name of its staged file and whether a second cleanup
  follows (`again`).
* `MakeStagingDir`, `CreateTemp`, `FillTemp` are `Stage`, with the windows between
  them; `RefuseLate` stands for the exits of the handler that call `cleanupStage`;
  `Commit`, `Promote` and their failures are `CreateObjectFile`; `Discard` and
  `Prune` are the two operations of `CleanupStagedPath`.
* A cleanup of the store is followed by one of the handler, which finds no file
  and prunes again; only a failed promotion, recognised by the path in the cause of
  its error, keeps the handler away.
* `promoted`, `doubtful`, `left` and `shells` are history variables: the files that
  were renamed, those whose `COMMIT` took effect unseen, those left behind and the
  directories that may stay empty.
* `linked` is chosen once, in the initial state: the configured storage root goes
  through a symbolic link.  `CreateObjectFile` then works with a resolved path, which
  `pruneEmptyStagingParents` finds outside the staging directory, so that it removes
  nothing (`PruneSkipped`); the handler's own cleanup has the path `Stage` returned.
* A name of `os.CreateTemp` is never given twice (the code draws 32 random bits).

## 4. What the runs check

Bounds are in the `.cfg` files.  Each of the hazards needs two requests on one
record; a third can add nothing to what two statements can do to each other
there, except in `ObjectFiles`, where an upload, an append and a removal can
meet, and in `Staging`, where two uploads fill a directory that a third prunes.

| Run | Instance | Shows |
| --- | --- | --- |
| `task_writes` | 2 workers, 1 task, 1 asset, 2 catalogs that disagree on a command, 2 commands, one value of everything else; with and without clients that wait for their answers | `FreshWritesAreLegal`: an `UPDATE` is legal when the row has not changed since it was read; for exclusive tasks every change follows the lifecycle and freezes the command (`LifecycleRespected`), and stored commands are accepted by the pinned catalog; the asset exists; `IInv` |
| `task_terminal` | the same, not exclusive | *violated:* a terminal task becomes active again |
| `hub_safety` | 2 publishers, 2 streams that subscribe again, buffer of 1, 3 events | no panic; `IInv`; the refinement |
| `hub_delivery` | 2 publishers, 1 stream, buffer of 1, 3 events | publishers always return; every event is delivered, or the response ends |
| `files_deletes` | 3 workers, 1 object, 2 files, lengths to 3, no faults; deletes alone on their file | `IInv`; rows have their bytes, no bytes without a row, sizes only grow; only a read that another request overlaps degrades readiness |
| `files_locks` | 2 workers, 2 objects, 1 file each, lengths to 3, every fault and every overlap | row locks are held exactly by the request that works under them, and always released; between requests, a file out of step with its row shows in readiness unless one of the causes in `excused` hit it |
| `files_missing` | 2 workers, no faults, every overlap | *violated:* a row loses its bytes to the removal of an earlier delete |
| `refs_races` | 2 workers, 2 entities, 1 observation, 1 task, a client's object and a catalog object | foreign references and objects of observations never dangle; orphans and mistyped sources only by the races named |
| `feed_replica` | 2 workers, a client, and one of: an entity; an observation and an object; an object with 2 files where events name 1; patches of one field | stored JSON stays valid; a patch that nothing overtakes changes only what it names; a replica is up to date when no event is owed, but for named causes; `IInv` |
| `startup_catalog` | 2 catalog documents, one of them above the limit of a read, 2 tasks, any number of starts, stops and failures, clients at any time | a start gives up only for its own failure or a harmed file, and serves only what is stored; pinned catalogs resolve and the active one is kept, but for named causes; an unharmed start ends with its catalog; `IInv` |
| `staging_uploads` | 3 workers, 1 object, 2 files, 3 staged names, every file operation may fail, stops; a root with and without a symbolic link | no staged file is forgotten; none of a committed upload is removed; empty directories are explained; `IInv` |
| `schema_verdicts` | about 1500 documents, 92 bodies, 6 kinds of sightings | a value is accepted exactly if it satisfies the schema; a loaded schema never fails on its own account; no entry of a document is lost |

A buffer of 1 is the smallest at its limit, and evicts as soon as one event is
waiting; the code's 32 only delays that.  The lengths of files tell apart "as
recorded", "extended by one append" and "by two".  The documents give every keyword
a right and a wrong value and a value at its bound, beside every type; 11 numbers lie
around 0 and around `Mantissa` = 4.  `Cap` = 1 with two files is the smallest list that
is cut; a patch of one field leaves another to be undone; one component that an asset
needs and a track may not have lets `validateEntityInput` refuse the merge of what was
accepted before.  Two documents let one catalog be active while a task is pinned to the other.
Three staged names are one for each request, or two beside one that a stop left.  One level of nesting suffices, since a nested
schema is judged by the same code whatever is around it.  Symmetry is used for workers
and for ids that no run tells apart, never in a run with liveness properties.

**Fairness.**  `Spec` of `EventHub` assumes that the fan-out proceeds (code
without a wait) and that a publisher waiting for the mutex gets it in the end
(a blocked `Lock` of the `sync.RWMutex` stops new readers, and its inner mutex
hands over to a waiter that starves).  `DeliveredOrEnded`
assumes in addition, and says so in its statement, that the handler's `select`
chooses every case that is ready again and again (Go chooses at random) and that
a write to a client returns: the server sets no `WriteTimeout`, so
the latter is an assumption about clients and not a promise of the code.
`Spec` of `CatalogStartup` assumes that a start that is under way takes its next
step: it is straight-line code in the main goroutine, run before the first request,
with statements that return or fail.  Nothing is assumed of clients, of faults, or of
whoever starts the process again.
The other modules state no liveness: their waits are for Postgres
locks, whose holders may wait for a client's body without any timeout.

## 5. What is proved

All theorems hold for every value of the constants that satisfies the named
assumptions; these only say that sentinels differ from values and that bounds are
positive, and in `SchemaCheck` what JSON values are and that calls on parts are calls of
the functions themselves.  Each proof has the same shape: an inductive invariant `IInv` that
also says what requests *in flight* rely on, one step per action, and the property
as a consequence.

* `TaskLifecycleProofs`: `IInv` adds to the tables that a request with a current
  row plans a legal change (`PlannedLegal`) and that what has passed validation
  is accepted by its catalog (`PlannedAccepted`).  From it: `TaskAssetsExist`,
  `FreshWrites`, `TaskCommandsAccepted` and `Lifecycle`.  The last two speak of the
  tasks in `exclusive`; `task_terminal` shows that they have to.
* `EventHubProofs`: `IInv` says that what is written, held and buffered for a stream
  is one interval of the log, and reaches its end while the stream is registered.
  From it: `HubNeverPanics` and `HubImplementsStream`, the refinement.
* `ObjectFilesProofs`: `TypeCorrect` and `LocksDisciplined` with every fault and
  overlap.  `Invariant`, `RowsKeepBytes`, `NoBytesLeft` and `SizesNeverShrink` when
  deletes are alone on their files and nothing fails: at most one request repairs a
  file, and it knows the two lengths that it is going to bring in step.
  `MismatchesReported` needs none of these conditions.  Its invariant `ReportInv` follows
  one file at a time, and only as long as it is *watched*: the store is healthy, none
  of the causes in `excused` has hit the file, and no append is about to report that its
  `COMMIT` failed.  No delete then overlaps another request on the file, every request
  knows what it has found, and if row and bytes differ, there is a request that still
  mends or reports it, and no second one that mends.
  `AlarmsOnlyByRace` holds when deletes are alone on their files and nothing fails, and
  leaves uploads, appends and reads free to overlap: readiness is degraded only by a read
  that compares the length of a file with a size which is no longer the row's, or
  while an upload or append is between its two writes (`AlarmInv`).
* `RefIntegrityProofs`: `IInv` adds the row locks of transactions and that requests
  nobody has overtaken are still right.  From it: `ReferencesNeverDangle`,
  `ObservationObjectsKeepOwner`, `OrphansOnlyByRace` and
  `MistypedOnlyByRace`, without any condition.  The two races are claims about the very
  request that inserts or deletes: it has been overtaken since it checked.
* `SchemaCheckProofs`: `IInv` ties the loaded catalog to its document and an answer to
  the schema it was judged by; from it follows `EntriesCount`.  `VerdictsAgree` and
  `CatalogsNeverAtFault` are about schemas of every depth.  `LevelAgrees` and
  `LevelFaultless` treat one level, a lemma for each type, from what `ValidateSchema`
  guarantees of an accepted schema (`AcceptedTypes`, `AcceptedKeywords`,
  `AcceptedNested`); `Descent` lifts them to all depths: a set of schemas in which each
  has one of its own schemas in the set is empty, as `Depth` is a natural number.
  `PatternsDecoded` says that decoding keeps patterns.  `IntegersSurvive`: a number that
  `isJSONIntegerKeyword` takes for an integer is one that decoding leaves alone, so that
  the condition `Exact` excludes no such number.
* `ChangeFeedProofs`: `IInv` says that a plan is valid and, unless stale, differs from
  the row in named fields only; that at most one event is owed for a record that is not
  doubtful, and that it will show the record; and that a replica that has heard of a
  record nobody owes an event for shows it, from the subscription or the query on.
  From it: `StoredJSONValid`, `ReplicaUpToDate`, `PatchesAtomic`, for any number of
  requests, records and files, any cap and any scenes.
* `CatalogStartupProofs`: `IInv` says that a row nobody has harmed has its bytes, except
  between commit and rename of the start itself; that what earlier steps of a start have
  found out is still so at later ones; and that catalogs in use are stored.  From it:
  `PinnedResolve`, `ActiveKept`, `GivesUp`, `Serves`, for any number of catalogs and tasks
  and whichever documents are `Large`.
* `StagingProofs`: `IInv` adds what a request knows of its staged file at each step, and
  that a file a request may remove belongs to no committed upload unless its `COMMIT`
  went unseen (`RemovalsSafe`).  From it: `NoneForgotten`, `CommittedKept`,
  `DirsPruned`, with and without a linked root.

Only model-checked: liveness (`PublishReturns`, `DeliveredOrEnded`, `StartsServe`),
which needs fairness and `ENABLED`, and the two violations.  Taken as assumptions, and
evaluated by TLC for the instance of `schema_verdicts`: the equations of the recursive
functions of `SchemaRules`.  That functions which satisfy them exist is induction over
data, which the provers cannot do; what follows from them for every depth is proved.

## 6. Where code and documents disagree

With a run: terminal tasks that become active again (`task_terminal`) and rows
without bytes (`files_missing`).  Documents are named below
`src/atlas-docs-next/`.  Met while modelling, without a run of their own;
most are visible in the models as the causes that a property excepts:

* An object that is created between the count of its owner's objects and the `DELETE`
  of the owner is left without an owner (`OnlyOvertakenDeletesOrphan` names the race),
  although `decisions/0007-core-referential-integrity.md` 55 wants
  to avoid ownerless objects.
* Nothing ever repairs the readiness flag of the object store: `MarkMismatch` is undone
  only by a restart, which undoes it for every file.
* A read takes the size from the row and the length from the file in two steps, so a read
  that overlaps an append or an upload degrades readiness until the next start, although
  nothing failed and nothing is out of step (`AlarmsAreRaces` names the race).
  `decisions/0006-object-file-write-ordering.md` 37 makes it unhealthy for a "metadata/bytes
  mismatch", and there is none.
* A patch that read a `pending` task undoes an acknowledgement and may change the
  command after it; `description` of a task may be changed although the
  data model calls it stable.
* An upload whose row is removed between its commit and its rename leaves bytes
  without a row.
* A failed truncation after a failed append is returned and not recorded
  as a mismatch; a crash forgets every mismatch, as `New` reports the store as
  healthy.
* When `COMMIT` of an append fails but took effect, the file is truncated below the
  committed size.
* Leftover bytes of a delete whose `COMMIT` failed are extended by an append to a row
  that was inserted since.
* `ValidateSchema` accepts, and `ValidateValue` never applies: rules beside
  `"type": ""`, an `enum` of a type that is not string, and a `pattern` that is not a
  string (`RulesApplied`), although the catalog documents say that unknown validation
  rules should not be ignored silently.  A pattern that does not compile is accepted
  at the start and then refuses every value (`PatternsCompile`).
* All numbers arrive as float64, so that the int64 branches of `schema.go` serve only
  catalogs built in tests: a client's 2^53 + 1 passes `maximum` 2^53, an `integer`
  above 2^53 + 1 is refused, and the advice to "specify as integer" cannot be
  followed in a JSON document.  `VerdictAgrees` is therefore about numbers that are
  float64 values (`Exact`), and an integer is one up to 2^53.
* A file id identifies a file only within its object.
* The foreign keys do not look at the type of an entity: an id that is deleted and
  used again for a track between check and insert becomes the source of an observation.
* `Materialize` accepts an existing object under the catalog's id whoever owns it, so
  the deletion of an observation removes it although it is the active catalog
  (`ActiveCatalogKept` has that exception).
* A stop between the commit and the rename of the start's own upload leaves a row without
  bytes.  Every later start with that document gives up, until a client deletes the file;
  `contracts/data-model/command-catalog/overview.md` 111
  calls a repeated start idempotent.
* A catalog document above 8 MiB and within the limit of uploads is loaded, stored, made
  active and pinned; once another catalog is active, its tasks can no longer be patched or
  transitioned, as `loadPinnedCatalog` refuses to read it (`PinnedCatalogsResolve` has the
  cause `Large`).
* Tasks pinned to a catalog that is no longer active depend on a file that any client may
  delete or append to.
* Two changes of one record may announce themselves in the wrong order, and the last event
  then shows the older state; a request that is cut off after its commit announces nothing;
  the objects that go with an observation are not announced.
* A client that queries first and subscribes then, as `contracts/sdk/overview.md` 96-101
  describes it, loses what is published in between; the other order does not.
* The event of an object names at most 8 files, and none, with a count of 0, when its file
  list fails.
* A patch of `components` replaces all components, although
  `contracts/core-api/conventions.md` 100 speaks of the named one.  JSON null in a patch
  removes a section; line 97 there announces 400 for a field that is not nullable.
* `sightings_object_id` may name an object that has been deleted since.
* A patch is validated for the row it has read and written to whatever row has the id
  then, which may be another one with that id (`RowsValid` excepts `mixed`).
* A failed `Stage` leaves an empty staging directory behind, every cleanup after a failed
  upload runs twice, and nothing removes what a stop leaves under `staging/`.
* Under a storage root that is a symbolic link, promotions leave their empty staging
  directories behind (`EmptyDirsExplained`).
* An upload may fail because another one has pruned the directory between its `MkdirAll`
  and its `CreateTemp` (`CreateTempFails`).

## 7. What is not modelled

* The pure helpers: pagination, list filters, custom components, time formats,
  `chooseLimit`, canonical paths.  They are functions of one value; pagination is planned.
* The migration of the key of `object_files` in the schema bootstrap: one transaction,
  before requests are served.
* HTTP decoding, error mapping, logging, configuration: no state of their own.
* The Python tools, the shell entrypoint and the in-memory stores of the tests are not
  part of the server.  SDK and Command Interface are documents.
* Postgres is taken as documented: statements are atomic, READ COMMITTED, row locks and
  foreign keys as described above; the file system renames atomically and loses nothing
  it was asked to keep.
