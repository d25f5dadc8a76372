# A TLA+ model of jupyter-poc

jupyter-poc is a small notebook product: a React portal edits notebooks, a
Notebook Service stores them, a Runtime Service starts a Jupyter container for
a notebook and a Runtime Gateway forwards the portal's kernel traffic to it.
This directory models the parts of it where interleavings, retries, crashes and
stale copies decide whether it is correct, checks them with TLC on small
instances, and proves with TLAPS that every safety property the passing runs
check holds in every instance, under the conditions section 6 names.

    cd tla
    tlc -workers 4 -config MCNotebookService_writes.cfg MCNotebookService.tla
    tlapm NotebookService_theorems.tla      # and the other modules of section 6

## 1. Inventory

### Notebook Service (`notebook-service/app`)

| Part | State | Operations |
| --- | --- | --- |
| v1 API and domain service (`api/notebooks.py`, `services/notebooks.py`) | local variables of a handler thread | create, save, get, get revision, list, delete |
| repository (`repositories/sqlalchemy.py`) | tables `notebooks`, `notebook_revisions`, `idempotency_records` | one transaction per call, each opened with BEGIN IMMEDIATE (`database.py`) |
| blob store (`storage/local.py`) | files named by the SHA-256 of their content | put (temporary file, fsync, replace), get, exists |
| codec (`nbformat_codec.py`) | none | canonical bytes, validation, normalisation of a POST body |
| cursors (`cursors.py`) | none | opaque keyset cursor over (`updated_at`, id) |
| middleware, health, configuration, wiring | none between requests | request id, size limit, probes |
| legacy repository and routes (`repository.py`, `api/legacy.py`) | a directory per notebook | create, get, save without a lock |

The routes are plain functions, so FastAPI runs them on a thread pool, and
several server processes may share the files and the database. A handler
publishes the blob first and commits the metadata second; a write transaction
looks up the idempotency record before anything else.

*Hard*: two writers on one base revision; DELETE against PUT; a request that is
retried, duplicated or arrives after later ones; a crash between blob, commit
and answer; a read that spans two transactions and a file.
*Correct when*: the history of a notebook is exactly 1 to `current_revision`
with immutable rows and readable blobs; a save only ever goes on top of what its
client has read; a key takes effect once and its replay tells the truth; a
deletion is final; a read is committed and not older than the request.

### Portal: notebook editor (`portal-web/src/notebook`)

`useNotebookDocument` holds the document with a local `generation` and the
`savedGeneration`; `SaveCoordinator` serialises saves, keeps an operation whose
result is unknown and replays it with the same key and body; `NotebookPage`
renders the buttons, and decides by enabling them which callbacks can meet.

*Hard*: responses that arrive after more edits, after a reload, or never; a
flush requested while a save ends; the outputs of a run that join the document
later; another client on the same notebook.
*Correct when*: "saved" is true, nothing of another client is overwritten
unseen, "modified elsewhere" is true, no requested save is forgotten, outputs
stay with the source that produced them, saving and running end.

### Portal: home page (`App.tsx`, `useNotebookList.ts`, `notebookUpload.ts`)

`useNotebookList` collects the pages of the list: it numbers its first-page
requests, so that a refresh supersedes an earlier one, but `loadMore` runs
outside that numbering. The page removes an item when its DELETE was answered,
and keeps the idempotency key of a create or an upload while its outcome is
unknown.

*Hard*: notebooks that move in the order while a client pages through it; pages
that arrive after a refresh or a deletion; a POST whose answer is lost, or
comes when the user has left the page.
*Correct when*: a notebook nobody touches is never skipped, paging ends, a
deleted notebook does not come back, and no click makes a second notebook out of
a first one whose answer was lost.

### Portal: runtime session (`runtime/`)

`RuntimeManager` (creates, polls until READY, stops) and `ProductJupyterClient`
(one kernel connection) are singletons, shared by all pages of the app and by
calls that outlive the page that made them.

*Hard*: Stop during a run; a run of another page that replaces the singletons'
state between a call's awaits; a container that dies under a run.
*Correct when*: a notebook's code runs in its own runtime, a run reported as
successful has all its outputs, Stop stops what it shows, and a run on a healthy
kernel ends.

### Runtime Service (`runtime-service/app`)

Rows of `runtimes` in SQLite and containers in Docker. create inserts a row,
moves it through REQUESTED, PROVISIONING and STARTING and runs the container;
every read reconciles the row with what Docker says; DELETE terminates; startup
reconciles all rows. No lock spans a request, and `update()` writes the copy a
thread read earlier.

*Hard*: threads with stale copies of one row, a Docker call that fails half way,
a crash between the container and the row, containers that die at any time.
*Correct when*: a row that promises a container has one, a stopped runtime is
gone, a notebook has one runtime, nothing runs that no request can reach, and a
dead container is noticed.

### Runtime Gateway (`runtime-gateway/app/main.py`)

Looks up the connection of a runtime for every request, forwards HTTP, and
bridges a WebSocket with two tasks, the first of which to end cancels the other.
*Correct when* a bridge whose browser or Jupyter server has gone ends on both
sides, and what it cuts off cannot be mistaken for a complete result.

### How they interact

The portal calls the Notebook Service (documents) and the Runtime Service
(runtimes) over HTTP and reaches kernels through the gateway, which asks the
Runtime Service for a connection and so makes it reconcile. The two services
share nothing; the notebook id is an opaque string to the Runtime Service.

## 2. Modules

| Module | Models | Uses |
| --- | --- | --- |
| `DocumentStore` | what the Notebook Service promises: create, save, confirm, delete, each atomic | |
| `NotebookService` | the service's handlers, step by step | `DocumentStore`, which it implements |
| `NotebookEditor` | one browser tab against the store, the network and another client | `DocumentStore`, whose operations serve its requests |
| `RuntimeService` | threads, rows and containers | `RuntimePool`, which it implements for requests one at a time |
| `NotebookList` | the list query with its cursors, and the hook that collects pages | |
| `HomePage` | the home page: list, deletion, create and upload, other clients | extends `NotebookList` |
| `RuntimePool` | what the Runtime Service promises: at most one running container per notebook, none for a stopped runtime; `OneAlive` and `StoppedAreGone` state the promise | |
| `RuntimeGateway` | the gateway's HTTP lookup and WebSocket bridge, and the kernel behind it | extends `RuntimePool` |
| `RuntimeSession` | runs and Stop on notebook pages, the two singletons | extends `RuntimeGateway` |
| `MCNotebookService`, `MCNotebookEditor`, `MCRuntimeService` | instances for TLC: symmetry | the module each is named after |
| `NotebookService_proofs` | types, what a handler knows at each step, the step seen from the tables | `NotebookService` |
| `NotebookService_theorems` | the inductive invariant and the theorems | `NotebookService_proofs` |
| `NotebookService_refinement` | the service implements the store | `NotebookService_theorems` |
| `RuntimeService_refinement` | the service with one thread implements the pool | `RuntimeService_proofs` |
| `NotebookEditor_proofs`, `RuntimeService_proofs`, `HomePage_proofs`, `RuntimeSession_proofs` | inductive invariants and theorems | the module each is named after |

The editor is composed with the *abstract* store rather than with the service:
that the service implements the store is what allows it. The session is composed
with the abstract pool in the same way; there the refinement holds for requests
one at a time only, so the session shows what the portal and the gateway do on
top of a service that is not raced (that it can be raced is finding 3).
`HomePage` and `RuntimeSession` have constants TLC can be given directly and need
no MC module.

Operators commented "Mutant of X" are plausible bugs: X with a guard dropped, a
reset missing, an order changed. No specification uses them. For each property
there is one with which TLC finds it violated, which shows that the property
depends on the code it is about.

### NotebookService and the code

State: `blobs` are the files, `notebooks`, `revisions`, `idempotency` the
tables; per worker `pc` is the next call of its handler, `req` the request,
`row` the revision row it has in hand (before its transaction only the content
it is about to write), `resp` its answer. `seen` is a history variable: the
notebook's row when a GET or PUT was accepted.

| Action | Code |
| --- | --- |
| `AcceptCreate`, `AcceptSave`, `AcceptDelete`, `AcceptRead` | the routes of `api/notebooks.py` up to the first call; for POST `normalize_for_create`, which may give cells fresh ids, so a body without ids (content `None`) becomes any document |
| `PublishBlob`, `SkipBlob`, `BlobUnavailable` | `LocalBlobStore.put`, a PUT's `exists()`, OSError |
| `KeyConflict`, `CreateReplay`, `SaveReplay` | `_resolve_idempotency` and what the service makes of it |
| `CreateCommit` | `create_notebook` |
| `SaveNotFound`, `SaveConflict`, `SaveUnchanged`, `SaveCommit` | the exits of `save_notebook` |
| `DeleteTxn` | `delete_notebook` |
| `ReadNotebook`, `ReadRevision`, `ReadContent` | the three reads of `get`; `get_revision` takes the same three |
| `Unavailable` | OperationalError or OSError: 503, rolled back |
| `Respond`, `Crash` | the answer leaves; a process dies with its handlers |

A transaction is one action because BEGIN IMMEDIATE takes SQLite's write lock at
its start, for reads too. Requests are not bounded: any worker may at any time
accept any request, so lost answers, retries, duplicates and late deliveries are
all just further requests. `Crash` clears any set of workers, that is, any of
several processes. Rows never expire: `expires_at` is written and never read.

### NotebookEditor and the code

State: `doc` is `documentRef.current`; `pending`, `flushRequested`, `conflict`,
`loop`, `put` are the coordinator; `late` are operations the tab has given up on
that may still be delivered; `get` is the request of a (re)load; `run` the cell
run; `versions`, `deleted`, `ledger` are the store. `asked` (generation at the
last flush with work) and `loaded` (the revision last loaded, and how many
operations the tab had created by then, which the load gives up) are history
variables.

An action is what runs between two awaits: a click, or the arrival of a response
and everything up to the next request. A settled PUT, the callbacks it triggers
and the next iteration of `runLoop` are therefore one action (`PutSucceeds`,
`PutConflicts`, `PutRefused`, `PutFails` with `ContinueLoop`). Buttons are
enabled as `NotebookPage` renders them, and a render is assumed to have happened
before the next click. `resolveOperation`'s branch that reuses a pending
operation is dead code, since phase 1 of the loop has always cleared it, and is
left out. A cell's output is named by the source whose execution produced it.

### RuntimeService and the code

State: `rows` and `containers` by runtime id (the ids, in creation order, are
1, 2, ...); per thread `pc`, `request` and `record`, its `RuntimeRecord`; `boot`,
the rows `reconcile_all` has still to look at. Each repository call is a
transaction and each provider call a call to the daemon, so each is one action.
A container is named after its runtime and run at most once, so `provider_ref` is
modelled by whether it is set. `known` are the runtimes some client has been told
of and `stopped` those whose DELETE was answered with success (history).

`DatabaseFails` is a repository call that raises (the database is locked, or the
disk is full): its transaction has no effect, what the thread has put into its copy
stays, and the exception takes the way `Raise` describes. The op `"existing"` of a request is `create_runtime` while it reconciles a
runtime it has found. `Raise` sends an exception to the `except` of
`create_runtime` inside its `try` and ends the request elsewhere.

### NotebookList, HomePage and the code

State: `rows` is the table; `items` to `errorPhase` are the hook's state,
`firstPage` and `morePage` its requests under way; `deleting`, `deleteError`,
`pending`, `busy` the page's; `request` and `made` say per key what was posted
and which notebook the service made of it; `opened` is what the app shows
instead. An action of the service is one transaction; one of the portal is what
runs between two awaits. `ReadFirstPage` and `ReadMore` are separate from the
arrival of the page, so rows change in between. A page is the actual query:
`Page` takes the rows that follow the cursor in the order of (`updated_at`, id),
one more than the limit. `InOrder` is that ORDER BY: the sequence of a set's members
in an order; ids are numbers, for the order of their strings. `Without` is the
`filter` of `removeItem` and `appendUnique`. `Touch` lets a commit carry any `updated_at` not older
than the notebook's own, since it is taken before the transaction. The buttons
are enabled as `App.tsx` renders them. History: `steady` (not touched since the
first page was read), `overlapped` (a first page was shown while a `loadMore`
was under way), `gone`, `abandoned`.

### RuntimePool, RuntimeGateway, RuntimeSession and the code

`RuntimePool` has a container's `phase`, its `owner` and what was reported
`stopped`. A *link* is a kernel and its WebSocket connection, named after the run
that started it: `http` is the request that starts the kernel, `bridge` the state
of `proxy_websocket`, `tasks` its running tasks, `browserEnd` and `upstreamEnd`
the two connections, `up` and `down` the messages between browser and gateway,
`inbox` and `outbox` those between gateway and kernel. `current` is
`RuntimeManager.current`, `client` the fields of `ProductJupyterClient`; `runs`
and `stops` are the calls of `runCell` and `stopRuntime`, which outlive their
page (`visit`). An execution is one output and one end message, which is enough
to lose either. While a run waits for READY its phase alternates between a request
under way (`post`, `poll`) and an answer on its way, named by the state it tells;
every answer is remembered, one that still says STARTING too (`StillStarting`). A
call whose caller has given up (the deadline, an error of the network) is `late`
while its request is under way: the POST or DELETE may still be handled, and nobody
hears of it (`LatePost`, `LateStop`). A lookup or a connection of the gateway may
fail although the runtime is healthy (a 502, or an exception of the client), so the kernel's start is an
error or the bridge is refused. `CutOff` ends the connections of a dead container after any part
of what its kernels had sent.

## 3. Runs

| Run | Instance | Distinct states | Shows |
| --- | --- | --- | --- |
| `writes` | 2 workers, 1 notebook, 1 POST key, 2 PUT keys, bases 1 and 2, 2 contents, reads with and without If-None-Match | 641,653 | all safety properties of the service and that it implements the store |
| `otherpath` | 1 worker, 2 notebooks, 1 PUT key | violation | finding 1 |
| `saves` | 2 cells, 3 texts of which the service refuses one, 3 changes, 3 operations, 1 failure, 1 save of the other client, runs | 940,470 | the editor's safety without reload |
| `reloads` | 1 cell, 3 texts, 2 changes per load, 2 operations, 1 failure, reload and refresh | 108,133 | reload and refresh without runs |
| `editing_ends` | 1 cell, 2 texts, 3 changes, 5 operations, 1 failure, fairness | 91,812 | saving and running end |
| `reloadrace` | 1 cell, runs and reload | violation | finding 2 |
| `runtimes_concurrent` | 2 threads, 1 notebook, 2 POSTs, crashes, failures of Docker and of the database | 1,518,698 | what stale copies cannot break |
| `runtimes_sequential` | 1 thread, 2 notebooks, 3 POSTs, containers that die | 111,261 | one request at a time: the service implements `RuntimePool` |
| `runtimes_polled` | 3 threads, 1 POST, a container that dies, fairness | 56,128 | liveness |
| `paging` | 3 notebooks, pages of 1, 2 timestamps, 2 keys, 2 events, fairness | 181,002 | the home page |
| `session` | 2 notebooks, 2 runtimes of which one may die, 2 runs, 1 Stop, 2 visits, fairness | 336,679 | runs and Stop through the gateway |
| `stop` | 2 threads, 2 POSTs | violation | finding 3 |

**Bounds.** Two workers are enough for every pair of requests, and a third party
is always present as the committed rows of earlier requests. Two PUT keys on one
notebook give two saves on the same base, a save and its retry, and a save after
another; with bases 1 and 2 a save can be stale, current or ahead. The theorems
remove these bounds for the service. In the editor `MaxGeneration`
bounds local changes per loaded document, `MaxOperations` the PUT operations and
`MaxFailures` failed requests; three changes and three operations let one be
saved, one be pending and one be queued. In the liveness run `MaxOperations` is
large enough for every change to be saved and a refused attempt besides, so that
the bound is not what stops the user. In RuntimeService `MaxRuntimes` bounds
POSTs: two give the race of two creations, three let a runtime die and be
replaced on one notebook while another has its own, and one is what the liveness
run can afford, where three threads hold stale copies of the one row. On the
home page three notebooks on pages of one give a first, a middle and a last page;
two timestamps give ties, broken by id, and moves to the front; `MaxEvents`
bounds refreshes, deletions, new operations and changes by other clients
together, so the run meets every pair of them, and two keys let a create and an
upload be pending at once. In the session two runs give a kernel that is reused
or replaced and two pages on two notebooks, one Stop meets either at every step,
and one mortal container breaks one of them.

**Symmetry** is used in safety runs only, over values nothing distinguishes.

**Deadlock** is checked except where the system may stop: an editor whose bounds
are used up and whose user is done (`saves`, `editing_ends`), and runtimes whose
clients are done after the last POST (`runtimes_sequential`, `runtimes_polled`,
`stop`), and a home page or a session whose user is done (`paging`, `session`).

**Fairness.** The editor: responses are handled (the event loop runs every
callback that is ready), the service answers a request it has received, a kernel
run ends or fails, and the user presses Save again while it is enabled. That the
service answers is an assumption: `fetch` has no timeout, so a request that is
never answered nor refused would keep "Saving..." for ever. Failures are finitely
many (`MaxFailures`). The runtimes: a thread inside a request takes its next
step, and each runtime a client knows of is polled again and again by *some*
thread, which is what `ensureReady` does every 500 ms and the gateway with every
connection; as pollers compete for threads this is strong fairness. No fairness
is assumed of the users' POST and DELETE, of containers or of faults. The home
page: requests are answered, the user who wants more presses "load more"
whenever it is enabled often enough, and not every such request fails; both are
strong, as a refresh or a deletion disables them in between. The session: the
steps of the gateway's tasks, the kernels and the browser's callbacks, of which
there are finitely many between two clicks, go on (`SystemStep`); nothing is
assumed of clicks, of the answers of the Runtime Service or of deaths.

## 4. Properties

Service (`NotebookService`): `HistoryComplete`, `RevisionsReadable`,
`ExactlyOnce`, `NoLostUpdate` relate the tables to each other and to the files;
`AcknowledgedIsCommitted`, `ReadsAreCurrent`, `ConflictIsReal` relate an answer
to the tables and to the moment the request came; `NoInternalError` says the
integrity failures the code reports are unreachable; `NoResurrection` is about
steps; `StoreImplemented` is the refinement of `DocumentStore`.

Editor (`NotebookEditor`): `SavedIsStored`, `NothingOverwrittenUnseen`,
`ConflictIsForeign`, `QuietMeansSaved`, the action property `OutputsMatchSource`,
and the liveness properties `SavingEnds`, `RunEnds`, `FinallySaved`.
`NothingOverwrittenUnseen` is about every version written behind the back of the
document (`Foreign`): another client's, and one of this tab whose operation a reload
or refresh gave up while it could still be delivered. That the service commits what
was given up is possible; that the tab saves over it without having loaded it is not.

Runtimes (`RuntimeService`): `ReadyHasContainer` and `StoppedIsGone` hold with
concurrency, crashes and failures of Docker and of the database; `NoStrayContainer` and the refinement
`PoolImplemented` hold for one request at a time and *fail* with two threads or
with faults, as the code takes no lock. `StopDestroys` fails with two threads,
which is finding 3. `DeathIsNoticed` and `RequestsEnd` are liveness; with a
failing daemon or database requests still end but polling may never learn anything,
so liveness is checked without faults.

Home page (`HomePage`): `ListComplete` relates the list, the cursor and the table
since the first page was read; it holds although saves move notebooks to the
front and late commits put some behind the cursor, because neither is steady.
`DeletedStaysOut`: a page read before a deletion and arriving after it does not
bring the notebook back, because deleting disables paging while it runs and a
page in flight was asked for notebooks after the deleted one. Both exclude
`overlapped`: the page disables its refresh button during a `loadMore`, but the
retry button of an empty list and the one of a failed deletion do not wait for
it, and the hook itself does not keep the two apart. `NoForgottenCreate` is the
page's own promise to avoid duplicates, `PagingEnds` liveness.

Session (`RuntimeSession`): `RunsInOwnRuntime`, `ResultsComplete`,
`StopStopsShown` for safety, `BridgeEnds` and `ExecutionEnds` for liveness.
`StopStopsShown` claims nothing once a page was left during a call: Stop on the
next page may then delete the runtime of the first one, which the singletons
still hold. `ExecutionEnds` lets go of a run whose container died, or whose bridge was
refused (the code is then sent to a connection that never opens): nothing but a
dispose settles its future.

## 5. Findings

1. `otherpath`: the idempotency record of a PUT is scoped by the path template
   and hashed by the body, so a key and body used again on another notebook are
   answered with the first notebook's result and nothing is saved. A comment
   promises a scope with the normalised path. The portal never does this: it
   draws a key per operation.
2. `reloadrace`: Reload is disabled only while saving, and a run that ends during
   the reload starts a save. Its success then sets `savedGeneration` to a
   generation of the document that was replaced, and a later edit that reaches
   that number is shown as saved. By the same way in, a reload while a cell runs
   replaces the source the run's outputs are then shown under, which is why
   `OutputsMatchSource` is checked without reload.
3. `stop`: a second creation request that meets the first one between its insert
   and the storing of the container's id reconciles its copy to FAILED and
   writes it back over STARTING. The row loses `provider_ref`, and DELETE answers
   STOPPED without terminating the container.

## 6. Proofs

`NotebookService_theorems` proves every safety property of `NotebookService`
except `SaveAnswersItsNotebook` (which is false), for all sets of workers,
notebooks, keys, base revisions and contents. The only assumption is
`ConstantsAssumption`: base revisions are positive naturals and `None` is not a
value of the other sets. `NotebookService_refinement` proves that the service
implements `DocumentStore`.

The properties are not inductive by themselves. A commit writes a digest the
handler took from its request several steps earlier, so `RevisionsReadable` needs
to know that this digest is published; a replay that finds its rows needs that
the ledger and the revisions were written together; a read that goes on from a
head needs that heads only grow. `IInv` adds

- `TablesOK`: the four table properties, a head of 0 exactly for absent rows,
  and POST entries at revision 1;
- `WorkerOK(w)` for each worker: what its handler knows at each `pc`
  (`HandlerOK`), how its copies compare with what was there when the request
  came (`SeenOK`), that a replay in progress is backed by its entry (`ReplayOK`),
  and that its answer is true (`AnswerOK`).

The argument has three layers. `TypeStep` keeps the types, action by action.
`StepIsTableStep` shows that, seen from the tables, a step is one of create,
save, confirm and delete or leaves them alone, and `TablesStep` keeps `TablesOK`
over these four; `Grows` says that nothing published or committed is withdrawn.
Then a worker that moves establishes its own part (`MovingWorkerOK`, one lemma
per kind of action) and `WorkerKept` carries every other worker over a step in
which the tables only grow. `Frame` says a step moves one worker. The refinement
reuses the second layer: each table step is an operation of the store.

**RuntimeService** (`RuntimeService_proofs`): `TypeOK`, `ReadyHasContainer`,
`StoppedIsGone` and that no container name is used twice nor a removed container
back, for any number of threads, notebooks and POSTs, with crashes and failures of
Docker and of the database (`RuntimeAssumption`). A thread may write back a row it read long ago,
so no invariant can be about rows alone: `RecordOK` is required of every row
*and* of every copy a thread holds (`RowsOK`, `ThreadsOK`), which makes it
irrelevant whose copy is written. What a copy says of a container stays true
because containers only go forward (`Grows`), and the one thread that could break
this, the one about to run a container, has its id for itself (`IdsApart`).
`CountOK` bounds the ids still to be given out by the POSTs received, so that ids
stay in range.

With one thread and no faults (`RuntimeService_refinement`) the service implements
`RuntimePool` for any number of notebooks and POSTs, whatever containers die;
`NoStrayContainer` and `StopDestroys` hold as well. Here the rows can be trusted:
`Alone` says that the copy a thread holds is what its row says, that a notebook
has at most one active row, and that a container that runs has an active one.
So the POST that finds no active row, or finds its container dead, is about to
run the only container of its notebook; `OneContainer` says outright that a notebook
never has two. With a second thread this is lost
(finding 3), and with faults: a crash between `docker run` and the row's update
leaves a container that the restarted service does not know, and a container that
could not be inspected runs on behind a FAILED row.

**NotebookEditor** (`NotebookEditor_proofs`): `IInv` (types; `StoreOK`: every
version has one effect in the ledger that added it; `OperationsOK`: a key names
one operation, and what the ledger has of it is its effect) holds without
condition. `SavedIsStored`, `NothingOverwrittenUnseen`, `QuietMeansSaved` and
`OutputsMatchSource` follow from `TabInv` under `RaceFree`: the tab does not both
run and reload, as finding 2 shows them false otherwise. `TabInv` says that a
load and a save never overlap, that an older generation is covered by the save
under way or pending, that a flush once asked for is remembered, and that an
unchanged cell is what the run took. For `NothingOverwrittenUnseen` it knows
(`GivenUpOK`) that what a load gave up is never sent again and goes on top of no
newer revision than the one loaded: applied late, it adds the very next version, or
conflicts because the tab or another client has saved on that revision before. `ConflictIsForeign` needs `StaysOpen` (the
document is loaded once): a reload forgets an operation that may still be
delivered, and the next save then meets the tab's own effect.

The editor is checked against `DocumentStore`, which the service implements;
`RespectsStore` shows that every step of tab, network and other client is, to the
store, one of its operations or none, so nothing is assumed of it besides. (The store
of the editor begins with its notebook created, so the theorem is about steps.)

**HomePage** (`HomePage_proofs`), under `ListAssumption` (finitely many notebooks,
whose ids are naturals for the order of their strings; `None` is neither one of them
nor a cursor) and `PageAssumption`. `NoForgottenCreate` follows from `IInv`:
`OperationsOK` (a POST under way belongs to the operation the page keeps) and
`KeysKept` (a key that was sent is kept, given up, or its notebook is shown).

`TypeOK`, `ListComplete` and `DeletedStaysOut` follow from `ListInv`. Its core is
`Sound(listed, next)`: every steady notebook is in `listed` or follows the cursor
`next`, nothing in `listed` follows it, and nothing in `listed` is gone. It is
required of three things at once: of the list with its cursor (`ListSound`), of a
first page that has been read and not arrived (`FirstSound`), and of the list joined
with a further page that has been read (`MoreSound`), since a page is true of the
table as it was when read and joins a list that other answers may have changed since.
Commits of others keep `Sound` because `updated_at` never goes back: a notebook that
does not follow a cursor will not follow it later, and one that does leaves `steady`
when it moves. `PageOnly` and `MoreSound` carry the argument about deletions: while a
DELETE is under way no further page can be asked for, and one that was asked for
before holds only rows after the cursor, which a listed notebook is not. All of it
is claimed while `InSequence`, that is without `overlapped`, which section 4 explains.
The rest is what a page is (`PageFacts`): its items are the live rows after the cursor
up to its own, and whatever they leave out follows it. That needs `InOrder` to be
there at all: `OrderedExists` shows that every finite set with a strict total order
has an enumeration, the place of a member being the number of members up to it, so
without an induction; `WithoutFacts` and `AppendUniqueFacts` rest on the same lemma.

**RuntimeSession** (`RuntimeSession_proofs`): `TypeOK`, `RunsInOwnRuntime`,
`ResultsComplete` and `StopStopsShown`, for any notebooks, runtimes, runs, Stops
and visits (`SessionAssumption`). A run that succeeds has its output because of
what is true of the four queues of a link at once: `Flow` says a request or a
message is in one place only and that an output stays ahead of its end through
all of them; `Progress` says that what has not come yet is still on its way while
the end is; `PairOK` says who waits for it. Losses fit in because a broken
connection loses a tail (`Part`). `RunsInOwnRuntime` also follows from `PairOK`:
a request keeps to its link, and `RunOK` knows the runtime the link is addressed
to. `StopStopsShown` is `TogetherOK`: until a page is left during a call, all
calls are the shown page's and the page shows what the manager knows.
`RespectsPool` shows that the session, seen from the runtimes, is a behaviour of
`RuntimePool`, and `PoolPromises` what such a behaviour never does: a second running
container of a notebook, or one of a runtime reported as stopped. The session thus
shows nothing of the Runtime Service that its contract rules out, and the service
implements that contract for requests one at a time.

**Only model-checked**: liveness (`SavingEnds`, `RunEnds`, `FinallySaved`,
`DeathIsNoticed`, `RequestsEnd`, `PagingEnds`, `BridgeEnds`, `ExecutionEnds`), which
rests on fairness and so on ENABLED, beyond this prover. The three properties of
section 5 are false and have counterexamples instead of proofs; what is proved next
to them is under which condition they do hold.

## 7. Not modelled

- Titles, timestamps, sizes, error texts, headers other than If-None-Match and
  Idempotency-Key; the JSON rules of the codec, of which the models keep only
  what they mean for storing.
- The connection pool's limit and its error, and power failure (files and rows
  survive a crash of the process).
- The legacy repository: no lock, so nothing worth stating holds of it under
  concurrency, and its routes are not to be called any more.
- The request middleware, health, configuration and wiring, and the history view
  of the page: none keeps state that several steps or requests could disturb.
- The base64 text of a cursor and cursors the service did not issue
  (`INVALID_CURSOR`); the checks of an uploaded file beyond whether it is sent.
- A second visit of the home page: leaving it unmounts it, and what coming back
  mounts starts as `Init` does, with what others have written meanwhile.
- In the session: reconnection inside JupyterLab's client library, a container
  that turns unhealthy again, and a browser reload (which begins with new
  singletons).
- Containers that no row refers to any more are modelled, but nothing is claimed of
  them: two concurrent POSTs, a crash or a failing call can leave one behind.
- React rendering: a render is assumed to follow a state change before the next
  click. Kernel and Docker are external.

## 8. Plan

1. Done: `DocumentStore`, `NotebookService` with its proofs, `NotebookEditor`,
   `RuntimeService` and its contract `RuntimePool`, `NotebookList` with
   `HomePage`, `RuntimeGateway` with `RuntimeSession`.
2. Done: the proofs of section 6.
3. Open: what section 7 leaves out; liveness stays with TLC.
