# Specifications of Symphony Host Factory for Kubernetes

This directory holds TLA+ specifications of the host factory provider: what its processes do to the work directory and
to the Kubernetes cluster, what is promised of the result, TLC configurations that check the promises on small
instances, and TLAPS proofs of the safety properties for every instance. Paths below are relative to
`src/hostfactory/` of the repository unless they start with `documentation/` or `README.md`.

## 1. The system

IBM Symphony asks the provider, through short-lived command line calls, for machines; each machine is a pod. The
provider has no server and no database for that: its long-running processes (`hostfactory watch ...`, `hostfactory
run-cron`) and the calls meet on a work directory, each change of which is one rename, one symlink or one unlink. A
supervisor restarts a process that ends (documentation/design.md, "tracked by a supervisor").

| Part | Code | State it keeps | Operations |
|---|---|---|---|
| Provider API | `api.py`, `fsutils.py` | none: files only | `request_machines` (hidden directory, status links, spec links, rename), `request_return_machines`, `get_request_status`, `get_return_requests` |
| Directory watcher | `impl/watchers/request.py` | what it has listed, its inotify queue | scan of unprocessed directories, inotify watch, a handler call per entry, `.processed` |
| Request handler | `impl/watchers/handlers.py` | none | create the pod, flip the link into an empty file |
| Return handler | `impl/watchers/handlers.py` | none | read the status, delete the pod |
| Pod watcher | `impl/watchers/pod_watcher.py`, `cluster.py`, `k8sutils._watch_events` | the event in hand | write or unlink `pods/<pod>`, read and write `pods-status/<pod>`, post tracking events |
| Clean-up task | `hfcron.CleanupPodsTask` | none | find links that are old and `creating` or `pending`, delete the pod, mark it `deleted` |
| Event buffer, events watcher | `events.py`, `impl/watchers/events.py` | files read and not posted; SQLite connection; Prometheus counters, samples and a view of pods and nodes | flush, list, read and unlink, post to each backend, rotate on SIGHUP, back up, expire, answer a scrape |
| Backup service | `app/hfutilsapp.py` | a call being served | ask for a backup through an event file, poll its progress, answer |
| Node and event watchers, node and pod refresh | `node_watcher.py`, `kube_watcher.py`, `hfcron.py` | `nodes/` | mirror nodes, post what they saw, post lists of pods and nodes |
| Scheduler of the clean-up process | `hfcron.py` | next run of each task | run tasks that are due |
| Reports | `cli/events_db.py`, `events_schema.py` | the tables of each run | transform the rows of a database of events, summarize |
| Command lines, replay, validation, migrations, shell wrappers | `cli/`, `hfreplay.py`, `validator.py`, `alembic/`, `tools/` | none | parse and dispatch |

**How the parts meet.** `request_machines` makes `requests/<id>/` with a symlink per machine and a status link
`pods-status/<machine> -> creating` each. The request-machines watcher creates the pods, flips the symlinks into files
and writes `.processed`. The pod watcher mirrors pods in `pods/` and their phase in `pods-status/`.
`get_request_status` reads both, machine by machine. `request_return_machines` makes `return-requests/<id>/`; the
request-return-machines watcher reads the status link and deletes the pod. The clean-up task reads and writes status
links and deletes pods. Nobody holds a lock. Every process posts event files, which the events watcher consumes.

**What is hard.** Between the read of a link and the write that depends on it anything may happen; any process may die
between two calls and is rerun from the files; a watch of the cluster that ends is renewed from resource version "0",
which says nothing of pods that went; the scan of a directory and the watch of it are two steps; SIGHUP interrupts the
events watcher between any two steps of a post; and a request, once noticed, must be answered in the end. The hazards,
each at its line with the properties that watch over it, are listed in `PROJECT.json`.

**What makes each part correct.**

* API: an answer that Symphony acts on is true when it is given and stays true; no machine is reported gone that is
  there; a caller that dies leaves nothing behind that is never cleaned up.
* Directory watcher: `.processed` means handled; each incarnation handles an entry once; what was noticed is processed.
* Handlers and pod watcher: one tracked pod per requested machine, gone after its return; links follow the cluster.
* Clean-up: no machine stays `creating` or `pending`; a machine marked `deleted` is gone.
* Events: no batch vanishes quietly, none is counted twice, no rotation destroys rows, each backup call is answered.
* Metrics: Prometheus is shown the newest sample and nothing that has expired, and its view becomes the cluster.
* Reports: a report has of each pod and node what was told of it first, whole or not at all, whatever became of the
  transformations before it.

## 2. The modules

| Module | What it is |
|---|---|
| `MachineStatus` | The vocabulary: status links, phases, the tables of `api.py` from a status to a machine status and a result, the moves of a status link. No state. |
| `RequestStatus` | `get_request_status` as the loop it is (status link, then pod file, machine by machine), against the pod watcher and the clean-up task. |
| `RequestQueue` | The abstract promise of a directory queue: published once, entries handled once published, `.processed` only when all are handled. |
| `DirWatcher` | The loop of `request.py`, with its list, its inotify queue, crash and restart; implements `RequestQueue`. |
| `Provisioning` | The provider as a whole: calls, both directory watchers with their handlers, pod watcher, clean-up task, cluster; implements `RequestQueue` too. |
| `EventPipeline` | Event files, events watcher, SQLite with rotation and backups, Prometheus counters, `hfutilsapp`. |
| `ClusterMirror` | The node files: the watch loop of `k8sutils.py` with its retries and resource versions, `cluster.handle_event`, `hfcron.RefreshNodesTask`, and a log of changes for the cluster. |
| `CronClock` | The loop of `hfcron.run` over its three tasks with deadlines, and the ages by which `CleanupPodsTask` gives machines up. |
| `ObjectView` | What Prometheus is shown: `KubeState`, fed by watch events and lists, and the samples of other metrics. |
| `Tracking` | The rows that calls and watchers post while pods and nodes come and go. |
| `EventsReport` | `cli/events_db.py` on the rows of `Tracking`: the tables of a run, commits, rollbacks and deaths, the summary. Composed with `Tracking`, which it extends. |
| `MCRequestStatus`, `MCProvisioning`, `MCCronClock`, `MCEventsReport` | Instances and symmetry for TLC. |
| `DirWatcherProofs`, `RequestStatusProofs`, `ProvisioningProofs`, `ClusterMirrorProofs`, `CronClockProofs`, `EventPipelineProofs`, `ObjectViewProofs`, `EventsReportProofs` | The theorems about the module of that name. |

`PROJECT.json` maps each definition to the lines it models. Definitions named `<Definition>_<Bug>` are not part of any
specification: each is a plausible mistake in the code, and the property it is listed with is violated when it takes
the place of the definition.

### RequestStatus

`status` and `podFile` are what the poll reads and the other processes write; `todo`, `machine`, `running`, `failed`
and `listed` are its loop, `obs` what it read. `ReadStatus` is the read of a status link and the update of
`failed`/`running`, `ReadPodFile` the read of the pod file of a machine that has a result, `Verdict` the two lines
after the loop, `Respond` the answer. The pod watcher's actions are two calls each, as in the code: `WritePodFile`
then `WritePhase`, `UnlinkPodFile` then `WriteDeleted`. Whether the clean-up task runs is chosen in `Init`;
`CronMarksDeleted` writes over whatever the link says by then, since the task reads it in one call and replaces it in
another.

That the links and files of the whole provider move no other way than these actions allow is the property `StatusMoves`
of `Provisioning`, which is proved there: a link along `StatusStep`, a phase only when the file is there, `deleted` only
when it is gone or by the clean-up task, the file before the first phase, and not again once it has gone. It is about pods that were created
once, and about watches from "0" that do not begin with older pods than those told before (section 5); a second creation under one name is the subject of `provider_conflict` and of `NoZombie`.

### DirWatcher

`todo` is what `_process_pending_events` has listed, `inbox` the inotify queue, `cur`/`left` the directory being
served, `busy` the entry whose handler runs. One action per call that another process can observe: `Scan`,
`PickPending`, `AddWatch`, `NextEvent`, `CallHandler`, `HandlerReturns`, `MarkProcessed`; `Crash` at any of them,
`Start` after it. What the handlers do is left open here and filled in by `Provisioning`.

### Provisioning

One variable per kind of file (`api`, `link`, `status`, `podFile`, `reqDone`, `returned`, `retDone`), three for the
cluster (`pod`, `dying`, `stream`) and two for its history (`creates`, `missed`), a group per process (`rw*`, `tw*`,
`pw*`, `cron*`). A watcher's list and inotify queue are one set here, served in any order: `DirWatcher` has the
detail, and the order is no promise (the list comes from `iterdir`). Every call to the API or to the file system is a
step of its own: `WriteStatus` then `LinkMachine` for each machine, then `PublishRequest`; `RwCreatePod` then `RwFlip`;
`TwReadStatus` then `TwDeletePod`; `PwTakeEvent` (the pod file) then `PwCheckStatus` then `PwWriteStatus`, or
`PwMarkDeleted`; `CronReadsAge` then `CronReadsTarget`, `CronDeletesPod` and `CronMarksDeleted`. `RwConflict` is the 409
of a pod that exists, which ends the process as in the code. `GetReturnRequests` is an operator and not steps: it names a
machine as gone because of one reading, that its file is not listed or that its link says `deleted`, so that what holds
of it in every state (`GoneListSound`) holds of the answer at the moment of that reading.

Of time there is only `old`, the machines whose status link is older than `pod_timeout`. `LinkAges` makes a link old,
whenever it likes, and whatever replaces a link, also by an equal one, makes it young. So the safety properties hold for
every `pod_timeout`. For liveness `Fairness` says that a link grows old in the end unless the pod watcher goes on
replacing it for ever (`Renews`): a pending pod with an event more often than every `pod_timeout`, or a watch that is
renewed that often, keeps its machine from the clean-up, and `NoneStaysPending` names this as the one thing that does.
How long a clean-up can take, and that a run of it passes no link over, is in `CronClock`.

Kubernetes is external: a created pod moves through phases, also has events within a phase (`PodModified`), a deleted one
stays `dying` until `PodRemoved`, and a watch from resource version "0" begins with the pods as they are (`PwConnect`).
The last is an assumption (section 5): Kubernetes documents "0" as a start at any version. A watch delivers each
machine's events in order; no order is assumed between machines.

Faults are of kinds (`api`, `rw`, `tw`, `pw`, `stream`, `k8s`, `cron`), chosen per configuration and bounded by
`MaxFaults`: the death of each process at each step, the end of a watch, an eviction, an API error in the clean-up.

### EventPipeline

`file` and `noted` are the directory and the inotify queue (a flag: every event leads to the same listing). `pc` follows
`_watch_events`, `_process_events` and `SqliteEventBackend.post`: `read`, `backup`, `copy`, `progress`, `insert`,
`commit`, `count`, and `close` on the way out. `Sighup` may come at any of them. An exception of SQLite lets Prometheus
have its turn and then ends the process, as in the code. `Ask` creates the request file empty and `WriteRequest` fills
it, since the code writes it in place. `Copy` raises where the connection is gone, or where it has created an empty
database, the percentage of whose zero pages divides by zero; a `DatabaseError` in the copy is caught (`BackupFails`).
`PodsRefresh` is the event that `hfcron.RefreshPodsTask` posts at each of its runs, whatever became of the pods. It is
the heartbeat that ends the wait of files which the inotify watch came too late for. A second one changes nothing while
the first has not been noticed, so that it needs no bound.

### ClusterMirror

The cluster is `there` (the version of each node) and `log`, whose places are resource versions; `horizon` is how far it
has been compacted. A watch from "0" starts at any version that is left (`WOpen`): it tells of the nodes there were then
(`StateAt`), in any order, and goes on from there, be that before what the same watcher has handled already. `rv`, `attempt`, `initial`, `pos` and `event` are the argument and the locals of one call of
`_watch_events`, `event = 0` meaning that the loop variable is not bound. Whatever ends a call is an action:
`WStreamEnds` (server timeout or `ProtocolError`), `WGone` (410), `WError` (retried by the decorator), `WCrash`. The
refresh is `RListFiles`, `RListNodes`, `RWriteFile` per node, `RUnlinkStale` per name, `RDone`. `seen` is a history
variable. What both post is in `Tracking` and `ObjectView`.

### CronClock

Points in time are kept as the time that remains (`remaining[t]`, the deadline less now) or has passed (`age`, of the
symlink; `waited`, since the request), so that the loop runs for ever in finitely many states. `Tasks` are the three
that `run` makes, with any intervals and durations. `Ahead` is the furthest that a deadline of the clean-up lies ahead,
`Latest(n)` the bound that `GivenUpInTime` states after `n` deaths of the process; ages are counted no further than
that. `Tick` is possible only
while the process sleeps or a task runs, and a run of `t` takes up to `Duration[t]`. `Choose` is one turn of the loop;
`ReadAge`, `ReadStatus` and `GiveUp` are the calls of `CleanupPodsTask`, between which links may be replaced;
`CheckStatus` and `ReplaceLink` are those of the pod watcher, between which the clean-up may have made the link
`deleted` (`hand` is what it is about to write); `Die` is an exception that a task does not catch, after which a supervisor starts the process with new deadlines.

Ages are differences of naive local times. `ClocksChange` puts the clock forward or back by `Jump`, once; `skew` is
how far it has been put since a link was made, `LocalAge` what the task sees. The deadlines of the tasks are not local
times and do not move. The properties speak of real time; what they allow a machine that waited while the clock was
put is the size of the jump.

### ObjectView

`obj` is the cluster, `stream` what its watch has yet to tell, `lists` what a refresh has read and not posted:
`ListObjects` and `PostList` are the two calls of `RefreshPodsTask` and `RefreshNodesTask`, between which anything may
happen. `pending` are the event files, `batch` those that one listing found; they are posted in any order, as the
directory lists them. (The samples of a batch go first in the model: samples and objects do not touch each other, so
that nothing is told apart by the order between the two.) `Read` takes the lock of the backend and the last step of the post gives it back, so that a `Scrape` comes between two posts.
`Refresh`, `Update` and `_expire` are the methods of `KubeState` (`Unexpired` the last of them); a forced refresh
clears the view and sets it from the list. Only differences of times are ever compared, so ages are kept, no further
than the largest limit. `Crash`, the death of the watcher, takes the view, the samples and the batch with it.

### Tracking and EventsReport

`Tracking` has the columns that reports are made of: the stages of a pod and of a node, the node of a pod, the state
of its container, one requested resource and one capacity. A watcher posts what its object says when it has it, so that
stages may be skipped (never told) or repeated (a renewed watch), and the node of a pod is `null` as long as the node
file is not there. The rows of one handler have one time.

`EventsReport` begins where `Tracking` has stopped: reports are made of a database that is rotated away. `out` is what
the session of the output sees, `saved` what is committed. `Begin` writes the metadata of a run and commits it;
`NextRows` allows, of what is left, the rows with the least timestamp, in any order where the order counts (among rows
about one column). `Write` sets a column, and commits only where it made the row; `WriteBox` sets columns of the
container, and commits; `EndCategory` commits the rest. `Summarize` is the closing queries, as they are and not as
their comments have them. `Crash` may come before any of these and rolls back what was not committed.

## 3. The runs

All runs finish within about two and a half minutes on two cores. `TypeOK` is checked by `status_poll`, `events` and
`clock` and proved of these and the other modules, but for `EventsReport`, where it documents the tables. Deadlock
checking is off where the system may really stop (Symphony asks for nothing more); it is on for `RequestStatus`, whose
poll can always be made again, and for `CronClock`, whose loop never ends.

| Run | Instance | Shows |
|---|---|---|
| `status_poll` | 2 machines, all phases, with and without clean-up | `VerdictIsOrderFree`, `ClosedMeansSettled`, `CompletedReturnStands`, `IdLostOnlyToDeletion` |
| `watcher` | 2 directories with 2 entries, 2 crashes | `CallsBounded`, `ImplementsRequestQueue`, `NoticedIsProcessed` |
| `provider_core` | 1 request of 2 machines, 1 return request, 2 faults of any kind, no clean-up | `ProcessedIsCreated`, `NoUntrackedPod`, `NoZombie`, `GoneListSound`, `ReturnedPodsGo`, `ImplementsRequestQueue` |
| `provider_live` | 1 machine, 1 return request, 2 faults of any kind | `NoticedIsDoneOrStranded`, `GoneIsReportedOrMissed`, `NoticedReturnCompletes` |
| `provider_cron` | 1 machine, 1 return request, returns by an administrator, clean-up, pods modified for ever, 1 fault of any kind but a death of the request-machines watcher | `StatusMoves`, `GoneStaysDeleted`, `NoneStaysPending` |
| `mirror` | 2 nodes, 3 changes of the cluster, watches from any version, 2 attempts, 2 errors or crashes | `NoNodePassedOver`, `NewNodeKeepsFile`, `FilesConverge` |
| `clock` | 3 tasks, one of which takes longer than its interval, 1 machine at a time, 1 death of the process, the clocks changed once | `NoTaskIsLate`, `GivenUpInTime`, `PatientWithMachines` |
| `events` | 2 batches, 1 backup request, 3 faults | `CountedExactlyOnce`, `BackupIsCurrent`, `LossEndsTheWatcher`, `StoredIsKept`, `FlushedIsStoredOrLost`, `AskedIsAnsweredOrSpins` |
| `metrics` | 1 object, 1 metric, 3 changes, samples and deaths together, limits of 1 | `NewestSampleIsShown`, `ScrapedIsFresh`, `ViewConverges` |
| `report` | 1 pod, 1 node, 2 seconds, 3 posts, 2 transformations | `SummarizedIsWhole`, `StagesInOrder`, `EarlierRunsStand` |

Two more runs each refute one sentence of the repository; the findings quote it:

| Run | Refutes | How |
|---|---|---|
| `provider_conflict` | `NoticedIsProvisioned` | a crash between the creation of a pod and the flip of its link: 409 on every rerun |
| `provider_cronrace` | `TimedOutIsRemoved` | a machine that times out before its request is served, and is created afterwards |

Two statements about the answer of `get_request_status` are refuted by a property that holds, `VerdictIsOrderFree` of
`status_poll`, and are findings too:

* The docstring (`api.py:252`): "If any machine is in failed state, the status will be set to "complete_with_error"."
  Beside an executing machine the answer is "running": the loop resets `failed` at one and sets it at none after it.
* The log (`api.py:335-340`): "We have detected a failure, we are not marking it as complete with error to avoid Symphony
  deleting all the pods". It is written where `failed` is set, which is exactly where `api.py:332` has marked the request
  "complete_with_error", and that is what Symphony is answered.

Met while modelling, and not given a run of their own:

* Requests. A directory renamed into place between the scan of `request.py` and its `add_watch` is processed only
  after a restart of the watcher. A machine returned before its pod is created is answered 404, which `handlers.py`
  takes for a deletion, and is created afterwards.
* Watches. A pod that goes while the watch is renewed keeps its last status. A 410 always ends the watcher process in
  the end, as `event` is not bound when it comes first in a stream and the version returned by any other 410 has been
  compacted too (`FromScratch` in `ClusterMirrorProofs`), although the log line says that the stream is restarted. A
  quantity with a suffix that `k8sutils` does not know, such as "1Ti", is a `ValueError` in the pod watcher.
* Clean-up. Each event of a pending pod renews the link whose age decides whether it has timed out. A phase that the
  pod watcher had in hand is written over the `deleted` of the clean-up task; if the watch or the watcher then ends
  before the deletion of the pod is told, it stays. `GoneStaysDeleted` says where it cannot happen.
* Metrics. A list that is older than an event posted before it puts back what the event had changed, until the next
  list; an object whose last event is told after a list that no longer had it is shown again until it expires.
* Reports. The start of a run is the latest creation of a node, where the comment above the query has the first event;
  where a node never went, its use is negative or left out. A container belongs to the run that met it first, so that a
  second run of the same database has none of them. The column for evictions of underused nodes is misspelt
  (`eviction_uderutilized`) and stays empty. The node of a pod is told by its uid, while the name in the table of nodes
  is made of the name and the uid. The `finally` of `transform` closes sessions that may not be bound.

**Bounds, and why they are enough.** Two machines of one request are the least with which a request can be partly
served, a poll partly read and a crash between two handlers matter; the processes treat machines alike, so a third one
repeats the second. Two faults are the least with which a rerun is interrupted again. Two phases (`pending`,
`running`) are enough for `Provisioning`, which tells apart only whether a status is `pending` and whether it was
reported; `RequestStatus` has all of them. In `provider_cron` a death of the request-machines watcher is left out for the
size of the run: it is in `provider_core` and `provider_live`, and the safety properties of this run are proved with it.
One event of a pod waits at most while it is modified for ever (`Backlog`); a second one would renew the same link. One return request suffices as the return handler keeps nothing between
two. A second backup request shares nothing with the first but the watcher that serves both. Three changes of two
nodes are the least with which an older change of one node can be told after a newer one, and its name be used again. The ticks of `clock` are
chosen so that the intervals differ, and the durations, and one run is longer than its interval; one machine suffices, as links are looked at one by
one and share only the length of a run. Ages count no further than one past the bound that `GivenUpInTime` states. A
jump of the clock of half the time limit moves a machine over its limit and under it. In `metrics` one object and one
metric suffice, since the view keeps objects apart and the samples keep metrics apart; three happenings are a join, a
change and a departure, two samples and a death, or any other three, with as many lists, renewals and scrapes between
them as there is time; limits of one tick are the least with which something is fresh, then old, then gone. In
`report` three posts are the least with which a stage is told, told again and followed by another, or a pod and its
node are told before and after each other; the second transformation follows one that ended or died at any of its
rows.

**Fairness.** Each process is weakly fair: it runs when it can and is started again when it has ended, as the design
document's supervisor does. `request_machines` calls that do not die finish. Kubernetes removes a deleted pod in the
end. A backup call goes on polling and its time limit passes. The refreshes of nodes and pods are due again and again
(`RListFiles`, `PodsRefresh`, `ListObjects`), as in `hfcron`, and what they read is posted. A status link that is not
replaced again and again grows old (`LinkAges`). The cluster compacts its old versions in the end (`Compact`; a
kube-apiserver does so every few minutes): without that, TLC finds streams of the node watcher that for ever start at an
old version and end before they reach the present one, and `FilesConverge` fails. Nothing is assumed of
Symphony, of the phases a pod goes through, or of faults; fairness is on a process as a whole and never on one action
of it. In `provider_cron` there is one machine, so that the clean-up task cannot pass one over for another; with several,
that each listed link is looked at in each run is `ReadAge` and `Finish` of `CronClock`.

**What the liveness properties let go.** Three properties name what the code does not recover from: a pod stranded
between its creation and its flip (`Stranded`), a deletion that fell between two watches or into an interrupted event
(`missed`, a history variable), and a progress file whose writer died (`SpinsOnEmpty`). Each exception is a state, not a
fault: without it the promise holds across every fault the run has. That the first is needed is what `provider_conflict`
shows.

## 4. What is proved

TLAPS checks each theorem from the definitions, for all constants that satisfy the named assumptions: any number of
requests, machines, return requests, batches, objects, faults and crashes, any mapping of machines to requests
(`RequestOfAssumption`), null values outside the sets they stand beside (`NoIdAssumption`, `NoDirAssumption`,
`NoEntryAssumption`, `NoMachineAssumption`, `FilesAssumption`, and `NoLink` in `TimesAssumption`), a natural bound on
faults or crashes (which only the counter's type needs), limits of ages that are naturals (`ViewAssumption`), positive
intervals and an early start of at least one tick (`TimesAssumption`), and, for the provider, phases that include
`pending`. With and without the clean-up task, with and without returns by an administrator, unless the theorem says
otherwise.

| Module | Theorem | States |
|---|---|---|
| `DirWatcherProofs` | `TypeCorrect` | `Spec => []TypeOK` |
| | `ProcessedIsHandledAlways` | `.processed` only where each entry was handled |
| | `CallsBoundedAlways` | one handler call per entry and incarnation |
| | `Refinement` | the loop implements `RequestQueue` (`ImplementsRequestQueue`) |
| `ProvisioningProofs` | `TypeCorrect` | `Spec => []TypeOK` |
| | `ProcessedIsCreatedAlways` | `.processed` only where each pod was created and each link flipped |
| | `NoUntrackedPodAlways` | each pod has a published request and a status |
| | `Refinement` | the provider implements `RequestQueue` (`ImplementsRequestQueue`) |
| | `NoZombieAlways` | without a clean-up task, a machine marked `deleted` has no first pod |
| | `GoneListSoundAlways` | without a clean-up task, no machine is told to be gone whose first pod is there |
| | `ReturnedPodsGoAlways` | without a clean-up task and returns by an administrator, the pods of a processed return request are gone or going |
| | `GoneStaysDeletedAlways` | a machine that is `deleted`, whose pod has gone and of whose deletion nothing is still to be told, stays so |
| | `StatusMovesAlways` | status links and pod files of pods that were created once move only as `RequestStatus` lets them |
| `ClusterMirrorProofs` | `TypeCorrect` | `Spec => []TypeOK` |
| | `NoNodePassedOverAlways` | while a stream is open, the last change of each node that is there is still to come, in hand or handled, whatever version the stream started at |
| | `NewNodeKeepsFileAlways` | the refresh removes no file of a node whose name was not used before |
| `RequestStatusProofs` | `TypeCorrect` | `Spec => []TypeOK` |
| | `VerdictIsOrderFreeAlways` | the verdict is that of the set of statuses read, not of their order |
| | `ClosedMeansSettledAlways` | without a clean-up task, no machine of a closed request waits or comes to wait |
| | `CompletedReturnStandsAlways` | without a clean-up task, a complete return stays complete, but for a pod that was `unknown` |
| | `IdLostOnlyToDeletionAlways` | an allocated machine has its id, unless its pod went between the two reads |
| `EventPipelineProofs` | `TypeCorrect` | `Spec => []TypeOK` |
| | `CountedExactlyOnceAlways` | each batch an incarnation has read is counted once |
| | `BackupIsCurrentAlways` | an uploaded backup has what `events.db` had when it was asked for, but for what was rotated away |
| | `StoredIsKeptAlways` | what is in a database stays in a database |
| | `LossEndsTheWatcherAlways` | no batch is lost but with the end of the watcher |
| `ObjectViewProofs` | `TypeCorrect` | `Spec => []TypeOK` |
| | `NewestSampleIsShownAlways` | the newest sample of a metric is shown, in whatever order samples come |
| | `ScrapedIsFreshAlways` | no scrape shows what is about to go beyond its time to live and one interval |
| `EventsReportProofs` | `EarlierRunsStandAlways` | no transformation touches the report of an earlier one |
| | `SummarizedIsWholeAlways` | a run with a summary reports what was posted first for each column |
| | `StagesInOrderAlways` | a report has the stages of a pod and of a node in the order they happened |
| `CronClockProofs` | `TypeCorrect` | `Spec => []TypeOK` |
| | `NoTaskIsLateAlways` | no task waits longer after its deadline than one run of each of the others |
| | `GivenUpInTimeAlways` | a link that is not renewed is given up within `Latest(deaths)` |
| | `PatientWithMachinesAlways` | no machine is given up before its time, but for what the clocks were put forward |

Hardly any of these properties is inductive. Each proof module defines the invariant that is (`IInv`; in
`ProvisioningProofs` also `DInv`, `OInv` and `SInv`, in `EventsReportProofs` `AllInv`), proves that the initial states
satisfy it and that each action keeps it, one lemma per action or process, and takes the theorems from it.

* `DirWatcher`: `Shape` (what the local variables hold in each phase: no event queued before the watch, no scanned
  directory left after it), `Serving` (each entry of the directory being served is handled, being handled or left),
  `Once` (no directory waits twice, so none is served twice although the loop never looks at `.processed`), `Fresh`
  (what this incarnation may still serve was called at most once per earlier incarnation).
* `Provisioning`: `Written` (a link exists only with a status, as `request_machines` writes them in that order),
  `Whole` (a published request has all its links, as the rename comes last), `Flipped` (a flipped link is one of a
  published request and a created pod), `Serving` (each machine of the request being served is left, in hand with its
  pod created, or flipped), `Done`. `NoUntrackedPod` needs the first two and `Serving`: the handler never asks for a
  status, so that the pod it creates has one only because the link it holds was written after it.
* `ClusterMirror`: `FromScratch` (every stream was begun from "0", as a version that a 410 returned is answered by
  another 410), `Ahead` with `Latest` (what a stream has still to tell as its beginning is, of each node, the last change
  that it has passed: so an old beginning is followed by everything newer), `Recorded` (what the cluster and its log say
  of each other) and `Used` (a name that the refresh found among the files and not in the cluster was deleted from the
  cluster, since it lists the files first).
* `RequestStatus`: `Flags` (what `running` and `failed` say of the machines read so far is what the verdict says of all
  of them), `Settled` (a machine that was read as waiting no more does not come to wait), `Filed` (a status that is a
  phase was written after the pod file).
* `EventPipeline`: `Written` (a batch is renamed into place whole), `Listed` (what was listed is on disk, what was
  read is not), `Inserted` (where SQLite has come through, the batches are stored: this is what a SIGHUP between any
  two steps must not break), `CountedOnce`, `Copied` (what a backup was asked for is stored, and in its copy or
  rotated away).
* `ObjectView`: `Versioned` (a version is a change that has happened), `NewestIsKept` (what is kept of a metric within
  a post is its newest sample, or about to be dropped with it), `Expiring` (between two expiries an object that is
  about to go outlives its time by no more than the time since the last one).
* `EventsReport`: session and database agree on all runs but the present one, and on everything between two
  transformations; each write grows the tables by rows of the present run alone (`Grown`). For the whole reports
  (`AllInv`), what `Tracking` has posted is related to itself (`RowsInv`: a stage that is told was reached, and what
  comes before it was told with it or of an earlier moment) and the tables to the rows (`TablesInv`: of the category
  being transformed, what is no longer left has been told, first things first; of a finished one, everything).
* `CronClock`: a task that is late was overtaken only by tasks whose deadline now lies after its own, so that each of
  them costs it one run (`Punctual`, `BeganInTime`, `First`). What the task has read of a link is still so or the link
  has been replaced (`Patient` from below, unless the machine was given up before and its link is one that the pod watcher
  had in hand, `Handed`; `ReadIsOld` from above; `Known`), a link that a run must still look at is no
  older than the deadline of that run allows (`Due`), and one that it has looked at no older than the limit and the run
  (`Seen`). `Due` is where the terms of `Latest` come from: a machine that is not quite timed out when a run looks at it
  waits for the rest of that run, the interval, and a round of the three tasks.
* `Provisioning`, the end of a machine (`DInv`), on top of its invariant: what speaks of a pod came after its creation
  (`Created`), a deletion that was told is one (`Told`), a machine with a phase has a file unless its pod has gone
  (`Filed`), a `deleted` one has gone (`Marked`), each machine of a return request is left, in hand or going
  (`Returned`). `Gone` and `Going` are about the first pod, as a name may be used again; they are kept by every step
  (`Onward`). The assumptions are those of the property: the clean-up task writes `deleted` before the pod is gone,
  and an administrator may return a machine before its pod is created. `GoneStaysDeleted` needs neither, but that
  what the pod watcher has still to be told of a pod, or has in hand, ends in its deletion unless the pod is there
  (`Unheard`), and that only machines with a status have events waiting or are in hand (`Known`): these are `OInv`.
* `Provisioning`, the moves of a status (`SInv`): of a pod that was created once, the status, the phase in hand, the
  events on their way and the pod itself are in the order of the phases (`Ordered`), so that each write is a move that
  pods make; without a clean-up task nobody writes between the watcher's two steps (`Unmarked`); and once the deletion
  is in hand no event follows that would bring the pod file back (`Hushed`, from `Gone` of `DInv`).
* The refinements map a flip, or the return of a handler, to `Handle`, a mark to `Complete`, the rename to `Publish`
  and everything else, deaths included, to a stutter. That a mark is a `Complete` is `Serving` again.

The processes that a theorem of `Provisioning` does not mention matter to it only through a frame lemma (`QuietStep`):
they write no requests and no links, create no pod and take no status away.

`ProcessedIsHandled` of `DirWatcher` and `TypeOK` of `DirWatcher`, `Provisioning`, `ClusterMirror` and `ObjectView` are
proved and therefore not in a run of their own; the refinements in the runs imply the first.

Only model-checked: the liveness properties (`NoticedIsProcessed`, `NoticedIsDoneOrStranded`,
`GoneIsReportedOrMissed`, `NoticedReturnCompletes`, `NoneStaysPending`, `FilesConverge`, `FlushedIsStoredOrLost`,
`AskedIsAnsweredOrSpins`, `ViewConverges`), as they rest on fairness and the prover does not reach ENABLED. Every
invariant and every action property that a run checks has a theorem. `TypeOK` of `EventsReport` is neither: the
figures of a summary are sums over sets, and that such a sum is a number needs induction over the set.

## 5. What is not modelled, and why

* Command lines (`cli/`, `impl/hfadmin.py`): they parse arguments and call what is modelled. What `hfadmin` returns
  without a poll is `AdminReturns` in `Provisioning`.
* The replay tool (`hfreplay.py`), the validator, the migrations and the shell wrappers: a development tool, static
  checks, generated code, and scripts outside the program.
* The arithmetic of quantities and of the resources of a pod (`k8sutils.py`): it is sequential, has no state, and
  is about the parsing of strings; in `Tracking` a quantity is one value.
* Contents of pod specs and templates, logging; the dump and upload that follow a backup.
* In reports, the tables of templates, requests and returns, which are filled as those of pods and nodes are.
* That the retries of `_watch_events` (`ClusterMirror`) implement the simpler watch of `Provisioning` (`PwConnect`,
  `PwStops`): the two differ in what they keep of the cluster, one versions and the other phases, and `Provisioning`
  allows all orders between machines that the other could produce.

Assumed: renames, symlinks and unlinks are atomic and durable; inotify loses nothing while a watch exists; ids are
fresh; all processes run on one host with one clock.

Assumed of Kubernetes, for pods: a watch from resource version "0" begins no earlier than what the same watcher was told
before. Kubernetes promises less ("Get State and Start at Any": the state that "0" begins with may be older). The pod
watcher renews its watches from "0" (`k8sutils.py:139`, `157` for nodes), so that with an older beginning a pod file
could come back after its deletion was told, and a status go back a phase; the pod side of `Provisioning` (`PwConnect`), with
`StatusMoves`, `GoneListSound`, `NoZombie`, `GoneStaysDeleted` and `GoneIsReportedOrMissed`, is checked and proved under
the assumption, and so is what `RequestStatus` takes over from it. The requests side (`ProcessedIsCreated`,
`NoUntrackedPod`, `ImplementsRequestQueue`) does not read what a watch tells. `ClusterMirror` does without the
assumption for nodes, and so do its theorems.

To run: `tlc -config Provisioning_core.cfg MCProvisioning.tla`, and likewise for each run of `PROJECT.json`;
`tlapm ProvisioningProofs.tla`, and likewise for each module whose name ends in `Proofs`.
