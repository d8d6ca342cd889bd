# HippoDrop: a formal model

TLA+ specifications of HippoDrop, the daemon that queues uploads to and downloads from Google
Drive in a SQLite table, with the TLC configurations that check them on small instances and
TLAPS proofs of what holds on all of them. Paths below are relative to the repository's root.

## 1. The system

| component | source | state | operations |
|---|---|---|---|
| Task queue | `internal/queue` | the `tasks` and `path_cache` tables of `queue.db`, one connection | Open: migrate, recover |
| HTTP API | `internal/api` | none of its own | create upload/download, get task, status, stop, pause, resume |
| Scheduler | `internal/worker/scheduler.go` | pause flag, the batch in hand | tick: check, query, mark, push |
| Worker pool | `internal/worker/pool.go` | one task per goroutine, the channel | receive, limit, call, back off, record |
| Webhook sender | `internal/worker/webhook.go` | the batch in hand | poll, post, record |
| Drive adapter | `internal/storage` | `path_cache`; objects in Drive | Upload, Download, GetPathID |
| Daemon process | `cmd/hippo/main.go`, runStart | PID file, port, signal context | start, shut down |
| Project commands | `cmd/hippo/main.go` | project directory, configuration, port | init, rm, ls, status, stop, pause, resume |
| Setup wizard, dashboard | `cmd/hippo/main.go` | terminal dialogue | - |
| Simulator | `internal/simulator`, `cmd/simulator` | map of tasks in flight, local files | generate, upload, poll, delete |

How they interact. A client posts a task; the handler inserts a `pending` row. Once a second
the scheduler reads the oldest pending rows (at most twice the pool's size), marks each
`running` and pushes a *copy* of the row into a buffered channel of the same size, blocking
when it is full. A worker receives the copy, waits for a token of the rate limiter, calls the
provider and writes the outcome; on an error it decides **on the copy's retry count**, sleeps,
and makes the row pending again. The webhook sender polls the table on its own, with copies of
its own. All of them share one cancellable context: the first SIGINT, SIGTERM or `POST /stop`
cancels it, the HTTP server is shut down, the workers are waited for (the scheduler and the
sender are not), the database is closed and the PID file removed. At the next start every
`running` row becomes `pending`.

What is hard here: there is no lock around a task anywhere. That it has one owner rests on the
order "mark, then push", on the one query loop, and on there being one process. The UPDATEs do
not look at the current status. A copy is used long after it was read. Writes that fail are
logged and forgotten. A process may end between any two statements. And the calls to Drive are
neither atomic nor idempotent.

What makes each component correct:

- *queue, scheduler, pool*: a task is at one place at a time; no task is lost while the daemon
  serves; its outcome is earned and final; retries are bounded; nothing overtakes; everything
  settles if the daemon stays up; a shutdown ends and loses no outcome.
- *webhook sender*: a receiver is told what the table says, now and later; a status `sent` or
  `failed` is earned; every callback settles; nothing is posted twice without cause.
- *Drive adapter*: a file lands at its path; the cache never misleads; a folder is one; a
  download that succeeds has left the whole file.
- *processes*: one daemon per database, the PID file names it, `rm` spares it, the schema is
  complete; projects keep apart, so that a command reaches its own daemon.
- *simulator*: no file is deleted before it is in the cloud, none is forgotten without cause.

`PROJECT.json` lists the hazards of the code line by line, and which property covers each.

## 2. The modules

| module | models | about |
|---|---|---|
| `TaskQueue` | what the API promises, no mechanism | abstract specification |
| `HippoDaemon` | one daemon over crashes and restarts: table, API, scheduler, channel, pool, runStart | the core; implements `TaskQueue` |
| `WebhookSender` | `webhook.go`, over `TaskQueue` (INSTANCE) as the rest of the daemon | composition |
| `DaemonLifecycle` | several processes of one project: `start`, `stop`, `rm`, `init`, PID file, port, migration | what HippoDaemon takes for granted |
| `DaemonProcess` | a project's processes as the database sees them: one begins when the one before is gone | abstract specification, implemented by DaemonLifecycle |
| `DrivePathCache` | `googledrive.go`: path resolution and uploads with concurrent workers, Drive and the cache | the provider |
| `FileDelivery` | what `Provider.Download` promises, no chunk or request | abstract specification |
| `ChunkedDownload` | `GoogleDriveAdapter.Download`: ranges, writes, end of file, failures, shared local paths | implements `FileDelivery` |
| `ProjectPorts` | several projects: `init`'s port, the listener, the commands' requests, `rm` | composition of projects |
| `SimulatorTracker` | the simulator's services and tracker, over `TaskQueue` (INSTANCE) and a network | a client |
| `MC...` | symmetry and small values of the constants | for TLC |
| `HippoDaemonProofs`, `HippoDaemonCustody`, and `...Proofs` of `WebhookSender`, `DaemonLifecycle`, `DrivePathCache`, `ChunkedDownload`, `ProjectPorts`, `SimulatorTracker` | proofs | for TLAPS |

**HippoDaemon.** `status`, `retryCount`, `created` are columns and survive; `main`, `paused`,
`schedPc`, `batch`, `taskChan`, `wpc`, `job` are the process. One SQL statement, one channel
operation, one provider call is one action, because the database has a single connection and
every UPDATE is its own transaction. The goroutines' actions are `SchedulerStep`
(`CheckPaused`, `QueryPending`, `MarkRunning`, `Push`, `PushAborted`) and `WorkerStep`
(`Receive` to `RequeueTask`). `Signal`, `HttpStopped`, `Exit` are the three stages of the
shutdown; `Crash` may come at any step, and `Boot` recovers. A context is `CtxLive`; an UPDATE
with the worker's context fails once it is not, and may fail by itself while `DbMayFail`. A
read cut short leaves fewer rows, as `rows.Err` is not asked. The history variables
`transferred`, `fails`, `moved`, `started`, `lostWrites` are read by no action. `created_at`
has whole seconds, so rows of one second come in either order; the clock is taken not to step
back.

**WebhookSender.** Time passes in tens of seconds (`Tick`), the unit of the backoff table,
counted per row up to the backoff it is compared with. The query has no ORDER BY, so `Poll`
takes any rows that are due. A refused post may have reached the receiver. The queue's steps
are those of `TaskQueue`, which HippoDaemon is proved to implement. One gap is left: the
sender's `Signal` and `Die` are not tied to the queue's steps, which allows more behaviours
than the code.

**DaemonLifecycle.** Every read and write of the PID file, every ALTER TABLE, the recovery and
the listen is a step of one of several processes, whose ids the system hands out again, also to
other programs. `detached` tells which processes still have a file open that was removed under
them: their writes change nothing any more. `overlapped` records that a command was given while
another was under way, and is cleared when no daemon is left.

**DrivePathCache.** Objects are numbered; a folder may hold several of one name. Each API call
and each SQL statement is a step; `Found` is the query, with its special first part; `Save`
ignores the error of the INSERT. `CallLost` fails a call whose effect may have happened.
`Delete` is a person. The queue around it is reduced to `GiveBack`, with the retries a task
has. A path has one part, rootDir, if remote_path is "/": an upload then makes a file of that
name in Drive's root, and a download looks for one. `Batches` are the sets of tasks an instance
begins with. `Transfer` is one step because it changes nothing in Drive or the table before its
last request; the requests of a download are in ChunkedDownload. Permanently deleted and
trashed objects are not told apart. `IsAt` says what it means that an object is at a path, by
the objects of the parts before.

**ChunkedDownload.** `Open` is os.Create, which truncates; `Request`, `Copy`, `ChunkEnds`,
`PastEnd` are the turns of the loop, one write of io.Copy at a time, and `TransferFails` is an
error at any of them. `Retry` and `GiveUp` are the pool's verdicts. Jobs may have a local path
in common, and `Edit` gives a remote file new content at any moment. `disturbed` collects the
jobs whose files someone else touched during the call: the code has no means to notice, and the
promise of `FileDelivery` is void for those alone. A position is what one write moves; `Chunk`
is chunkSize.

**ProjectPorts.** Ports are numbers, `None` is 0. A wizard computes its port when it begins and
writes it when the user is through. `Ask` reads the configuration and `Obeys` or `Refused` is
what comes of the request, any time later. `Admits` is the bearer check of withAuth. `careless`
records that the user did one of the things the module lists, against which nothing in the code
guards.

**SimulatorTracker.** A service is writing, posting, or idle; the tracker copies the map, asks
for one task after another and acts on the answer later. Requests and answers are sets of
messages, which may be lost or late: an INSERT may happen after the client has given up. The
workers' `Transfer` needs the local file, which is how the queue depends on the client.

## 3. What TLC checks

Passing runs:

| run | instance | shows |
|---|---|---|
| `daemon_safety` | 3 tasks, 1 worker (channel of 2), no retry, 2 seconds, 1 lost write | `OncePerProcess`, `OrphansAccounted`, `NoOvertaking`, `PauseDrains`, and that every step is one of `TaskQueue` |
| `daemon_liveness` | 2 tasks, 2 workers, 1 retry | `SingleOwner`, `SnapshotFresh`, `IInv`, `EverySettles`, `ShutdownTerminates` |
| `webhook_callbacks` | 2 callbacks, one malformed, batch of 2, 1 lost UPDATE | `ToldTheTruth`, `CallbackHonest`, `NoResend`, `IInv`, `CallbackSettles` |
| `lifecycle_commands` | 3 process ids | `OneAtATime`, `FileNamesDaemon`, `RmOnlyStopped`, `OverlapEnds`, `IInv` |
| `drive_paths` | 2 workers, 2 uploads and a download in one tree, or one upload into it and both ways with `/`, 1 retry, 1 lost call, 1 deletion | `RightPlace`, `OneCopy`, `OneFolder`, `CallsRunDown`, `UploadsSucceed`, `IInv` |
| `download_chunks` | 2 jobs with one local path, files of 3 and 2 positions and chunks of 2, 1 edit of each, 1 retry | `DoneIsWhole`, `BytesInPlace`, `RequestsRunDown`, `IInv`, `CallReturns`, and that every step is one of `FileDelivery` |
| `project_ports` | 3 projects without keys, 5 ports, proposals from the second on | `PortsApart`, `OwnDaemonObeys`, `IInv` |
| `simulator` | 2 services, 2 files | `FileThere`, `NothingLost`, `LeaksAccounted`, `LetsGo`, `IInv` |

Each `IInv` is the inductive invariant of the proofs and begins with the module's type
invariant `TypeOK`. It has `RetryBudget` (by `Verdicts`), `CopiesCurrent`, `OneDaemon`,
`CacheSound` and `FailuresAreFaults` among its parts, which section 4 states on their own.

Four of the action properties measure how far a step may go. `PauseDrains`: after a pause no
more tasks are started than were past the check, a channel's worth at most. `OneAtATime`: the
processes are those of `DaemonProcess` unless commands overlapped. `CallsRunDown` and
`RequestsRunDown` count what a task does on its one token of the limiter: at most two API calls
for each part of the path, and for a download as many requests as the file has full chunks, and
one more.

Why the instances are large enough. Ownership is about pairs: two copies of one task, or two
workers and one task, so two tasks and two workers hold every conflict, and one retry makes the
counter go through zero, below and at its maximum. The retry is in `daemon_liveness`, which
therefore has what is about stale copies (`SnapshotFresh`, `IInv`); the lost write is in
`daemon_safety`, which has what must hold when an outcome could not be recorded
(`OncePerProcess`, `OrphansAccounted`). The proofs have both at once. Backpressure needs a task
more than the channel and the worker have room for, which three tasks and one worker (a channel
of two) give. Two seconds tell an earlier row from a later one. A database fault is bounded by
the rows that have one *at a time*: faults may go on for ever, over one task. In the sender a
malformed neighbour in a batch of two is what could hold a good callback up. Two starts make a
race and the third id is the one a crash left in the file. In the adapter two workers and two
uploads with a shared and an own directory make the race for a folder; one lost answer or one
deletion at any place is what a retry must cope with; the second set of tasks has the paths of
one part, whose parent is Drive's root and needs no call. In the download one file ends inside
a chunk and the other with one, an edit shortens the first to a chunk's part and the second to
nothing, and two jobs are all it takes to write over each other. Three projects are one with
the highest port, one that is removed and one that comes; the port below the first proposal can
only be typed. Two services and two files give an entry that is added, and one that is asked
for, during a pass. `TasksAssumption`, `BoundsAssumption` and their like state what the
constants may be; TLC evaluates them, and the proofs use them.

`project_ports` has the constraint `Careful`: states after a careless step are checked and not
continued, because the properties claim nothing of them; `IInv` and its proof make no use of
it. CHECK_DEADLOCK is off where the system may come to rest: in the `drive_` runs and
`download_chunks` with all tasks settled and the bounded faults used up, in `project_ports`
after the constraint, and in `simulator` with every file dealt with. The other models never
stop, as a process can be started.

### Divergences

Runs that end in a counterexample, each against a sentence of the repository:

- `daemon_flush` (`OutcomeFlushed`, RULES.md:38 "SIGTERM → drain → flush → exit"): the outcome
  is written with the cancelled context (pool.go:117, 124, 109), so a transfer that ends during
  the drain is not recorded and is made again at the next start.
- `webhook_starved` (`TriedAtAll`, webhook.go:97 "Try 0: instantly"): a URL that cannot be
  parsed is passed over with nothing written; ten such rows fill every batch. The run has a
  batch of one and one such row.
- `lifecycle_schema` (`SchemaWhole`, db.go:76 "if they do not exist"): a crash between two
  ALTER TABLEs is never made good.
- `drive_stale` (`CacheIsAdvisory`, docs/storage.md:25): a cached folder that was deleted in
  Drive fails each upload into it, for good.

Seen while modelling, without a run of their own:

- a PID file left by a crash that names another live process, or the starting one itself,
  blocks every start, though main.go:427 says "check duplication";
- `hippo pause` lets the batch in hand be dispatched (scheduler.go:57; README.md:155), which
  `PauseDrains` bounds, and a restart forgets it;
- docs/queue.md:25 has the worker write `running`, where the scheduler does, before the push;
- webhook.go:97 lists six tries and `handleFailure` stops after five;
- of two starts at once the second resets the tasks the first is at work on (db.go:98,
  main.go:549), then dies on the port, and leaves its dead id in the PID file; a daemon started
  while `hippo rm` waits for its confirmation loses its directory (main.go:942).
  `lifecycle_commands` shows that this takes overlapping commands;
- two workers that miss a folder at once create it twice (googledrive.go:203), which
  `OneFolder` excepts by name and shows to be the only way;
- docs/storage.md:33 has a provider stop at the chunk in progress, README.md:174 has chunks in
  progress completed: the chunk requests of Download carry no context (googledrive.go:136), so
  a download goes on to the end of the file after the signal, which `Request` allows and
  `CallReturns` bounds;
- docs/architecture.md:43 calls the projects' ports isolated: they are as long as the user is
  not careless, which is what `project_ports` shows and what its list of exceptions is for;
- docs/architecture.md:45 speaks of a limit on API calls, while a token is taken per task
  (pool.go:65) and a task makes calls for each part of its path and each chunk: `CallsRunDown`
  and `RequestsRunDown` say how many; the requests of a long upload are the client library's
  and are not counted;
- a rate limit of 0, the key missing from the configuration, has every task marked `running`
  and none transferred (pool.go:65), which `NoLimitNoTransfer` proves.

### Fairness

- `HippoDaemon!FairSpec`: weak fairness of the scheduler and of each worker as a whole
  (goroutines are scheduled, timers fire, and a provider call ends: the HTTP client's
  connection breaks in the end), of `HttpStopped` (srv.Shutdown has a context of 30 seconds)
  and of `Exit`. Nobody has to start the daemon, signal, pause or resume it, and the provider
  may fail every call. `EverySettles` assumes that the daemon stays up and unpaused, and the
  run has no database faults: with them a task may stay `running` until the next start, which
  is what `OrphansAccounted` allows.
- `WebhookSender!FairSpec`: the sender's loop (its client has a timeout of ten seconds) and
  time. `CallbackSettles` assumes that the sender stays up and that its reads are not cut short
  for ever (`WholeReads`); receivers may refuse every post.
- `DaemonLifecycle!FairSpec`: ListenAndServe returns or serves, and a draining process exits,
  which is `ShutdownTerminates` of HippoDaemon.
- `ChunkedDownload!FairSpec`: each job's `Download` as a whole: Drive answers, with data or an
  error. The pool need not retry, and every request may fail.
- `SimulatorTracker!FairSpec`: the tracker's loop. `LetsGo` assumes that the simulator stays up
  and that polls stop failing at some time (`Answered`); of the daemon it assumes nothing.
- `ProjectPorts` claims no liveness: commands are given by a person.
- `DrivePathCache!FairSpec`: each worker goes on. No call has to succeed, but faults are
  bounded by `MaxFaults`, one, as are the retries.

## 4. What is proved

For every number of tasks, workers, retries, rows in a batch, process ids, projects, ports,
services and jobs, for paths of any depth and files of any length, from the assumptions on the
constants alone (finite `Tasks` in HippoDaemon, natural numbers, `NoJob` not a task's copy,
"absent", "empty" and "free" not process ids, paths of at least one part, a chunk of at least
one position, ...):

| module | theorem | states |
|---|---|---|
| `HippoDaemonProofs` | `TypeCorrect` | `Spec => []TypeOK` |
| | `OneOwnerPerTask` | `Spec => []SingleOwner` |
| | `CopiesAreFresh` | `Spec => []SnapshotFresh` |
| | `RetriesArePaidFor` | `Spec => []RetryBudget` |
| | `DaemonImplementsTaskQueue` | `Spec => ImplementsTaskQueue` |
| | `ReportedOutcomesAreEarned` | `Spec => []TQ!OutcomesEarned` |
| | `ReportedOutcomesAreFinal` | `Spec => TQ!OutcomesFinal` |
| `HippoDaemonCustody` | `TransferredOncePerProcess` | `Spec => []OncePerProcess` |
| | `NoTaskLostWhileServing` | `Spec => []OrphansAccounted` |
| | `NoTaskOvertaken` | `Spec => []NoOvertaking` |
| | `DaemonInvariant` | `Spec => []IInv` |
| | `PauseStopsTheDispatch` | `Spec => PauseDrains` |
| | `TasksMoveForward` | `Spec => ForwardOnly` |
| | `ShutdownRunsDown` | `Spec => RunsDown` |
| | `NoLimitNoTransfer` | `Spec => []NothingMoves` |
| `WebhookSenderProofs` | `SenderInvariant`, `SenderTypeCorrect` | `Spec => []IInv`, `Spec => []TypeOK` |
| | `AnnouncedOutcomesAreFinal` | `Spec => []ToldTheTruth` |
| | `SenderCopiesAreCurrent` | `Spec => []CopiesCurrent` |
| | `CallbackColumnsAreHonest` | `Spec => []CallbackHonest` |
| | `ResentOnlyAfterLoss` | `Spec => []NoResend` |
| | `SettledCallbacksAreFinal` | `Spec => CallbackFinal` |
| | `AnnouncedOutcomesAreEarned` | `Spec => []ToldEarned` |
| `DaemonLifecycleProofs` | `LifecycleInvariant`, `LifecycleTypeCorrect` | `Spec => []IInv`, `Spec => []TypeOK` |
| | `OneDaemonPerDatabase` | `Spec => []OneDaemon` |
| | `DaemonsComeOneByOne` | `Spec => OneAtATime` |
| | `PidFileNamesTheDaemon` | `Spec => []FileNamesDaemon` |
| | `RmSparesDaemons` | `Spec => RmOnlyStopped` |
| `DrivePathCacheProofs` | `DriveInvariant`, `DriveTypeCorrect` | `Spec => []IInv`, `Spec => []TypeOK` |
| | `CacheRowsAreSound` | `Spec => []CacheSound` |
| | `FilesLandInPlace` | `Spec => []RightPlace` |
| | `FoldersAreUnique` | `Spec => []OneFolder` |
| | `FilesAreAccounted` | `Spec => []OneCopy` |
| | `PathCallsAreBounded` | `Spec => CallsRunDown` |
| `ChunkedDownloadProofs` | `DownloadTypeCorrect` | `Spec => []TypeOK` |
|  | `DownloadInvariant` | `Spec => []IInv` |
|  | `DoneMeansWhole` | `Spec => []DoneIsWhole` |
|  | `BytesStayInPlace` | `Spec => []BytesInPlace` |
|  | `FailuresAreReal` | `Spec => []FailuresAreFaults` |
|  | `DownloadDelivers` | `Spec => ImplementsDelivery` |
|  | `ChunkLoopRunsDown` | `Spec => LoopRunsDown` |
|  | `RequestsAreBounded` | `Spec => RequestsRunDown` |
| `ProjectPortsProofs` | `PortsInvariant` | `Spec => []IInv` |
|  | `PortsTypeCorrect` | `Spec => []TypeOK` |
|  | `PortsStayApart` | `Spec => []PortsApart` |
|  | `CommandsReachTheirOwn` | `Spec => OwnDaemonObeys` |
| `SimulatorTrackerProofs` | `SimulatorInvariant` | `Spec => []IInv` |
|  | `SimulatorTypeCorrect` | `Spec => []TypeOK` |
|  | `FilesStayForAttempts` | `Spec => []FileThere` |
|  | `NoFileLost` | `Spec => []NothingLost` |
|  | `LeaksHaveCauses` | `Spec => []LeaksAccounted` |
|  | `OnlyFinishedTasksAreLetGo` | `Spec => LetGoFinished` |

Where a run checks the property, the theorem states it word for word. The others are proved,
and were tried with TLC on small instances before (`NothingMoves` with a `RateLimit` of 0,
which the runs do not have).

The argument for the daemon. None of the invariants is inductive alone. A worker's UPDATE keeps
other copies fresh only because no other copy of that task exists, and a copy stays single only
because the scheduler finds tasks in hand marked: `SingleOwner` and `SnapshotFresh` need each
other, and both need `BatchFresh`, which says of the rows the scheduler has read that they are
still as they were read. The three together are `Ownership`, inductive relative to `TypeOK`. On
top of it `Verdicts` carries what a worker knows between the provider's answer and the UPDATE
(a task about to be completed was transferred, one about to fail has used its retries), which
gives `RetryBudget` and, with `Ownership`, the refinement: `Settle` demands that the outcome
was earned. `MovedSettled` adds that a task this process has transferred is never pending again
in it, and `OrphansAccounted` follows step by step, since whoever drops a task has recorded it
or lost a write. `NoOvertaking` looks like a fact about one SELECT, but a batch is pushed over
many steps, and rows are added, retried and recovered meanwhile: `BatchInOrder` says that
whatever is older than a row of the batch comes before it there, was started, or was refused by
the database, and `RowsStarted` ties what was started to the status. A row that is accepted is
never older than one there is, as the clock does not step back. `IInv` is the conjunction,
which `daemon_liveness` checks as an invariant.

For the sender, `IInv` says that a batch holds each row once, as it is in the table; that what
is about to be recorded has happened; and that a callback seen accepted is recorded or about to
be. It rests on `TaskQueue` for one thing, that a settled outcome does not change, which is
where the daemon's refinement is used.

For the processes, `Alone` says that without overlapping commands one start at a time is past
the PID file, and only with no daemon there. Two facts hold each other up: a second start is
refused because the file names the first, and the file keeps naming it because nobody else is
past the check. `Migrates` bounds the columns a process has added.

For the adapter, `CacheSound` and `RightPlace` say where objects *are or were*, by a chain of
parents (`IsAt`), and hold because ids are never used again and nothing is moved by the code:
what is at a path stays there however Drive grows (`StaysAt`), and a child of what is at a path
is at the path with one part more (`AtNext`). `Underway` carries this through the loop of
GetPathID: the object a worker has come to is at the part of the path it has resolved, whether
it found it in the cache, in Drive or made it. That is also why a row another worker writes can
do no harm: it is a different object at the same path. For `OneFolder`, `StillMissing` says
that a folder about to be created is not there, which a List establishes and only another
worker's create of that very folder can break; `raced` is set exactly then.

For the download, `Ranges` ties the descriptor to the loop's offset and the response's end, and
`Prefix` says that an undisturbed job has written the beginning of the remote file and nothing
else; together they make a short chunk, or a request past the end, mean the end of the file.
The step to `FileDelivery` maps a job's state to a call and completeness of the local file to
`intact`.

For the ports, `Apart` is kept by `InStep`: a daemon listens, and a request is under way, only
where the configuration says, so that no port outlives the claim to it. For the simulator,
`Sent`, `InHands` and `StillTrue` order the life of a file: written, then posted, then a row,
then an answer, and an answer of `done` stays true, which is `TaskQueue`'s promise.

**Steps that run down.** Liveness is out of the prover's reach, but what it rests on besides
fairness is not: that no step undoes what another has done. `RunsDown` gives every worker and
the backlog before them (batch, channel, a query under way) a natural number, which after the
signal no step raises and each step of theirs lowers: a shutdown cannot go round in circles,
whatever fails. `ForwardOnly` says that a task comes back to the queue only for one more of its
`MaxRetries` retries. `LoopRunsDown` and `CallsRunDown` do the same for a call of Download and
for GetPathID, for files and paths of any length, and `RequestsRunDown` counts the requests of
the former: `Due` is what they may still ask for, each lowers it by a chunk, and it begins at
one chunk more than the longest version of the file. The ranks are numbers only because of the
invariants: `Rank` needs nothing but the types, `StepsLeft` needs `Ranges`.

**How the parts fit.** `TaskQueue`'s own promise, that an outcome is earned and final, is
proved of `TaskQueue` and holds of HippoDaemon through the refinement. WebhookSender and
SimulatorTracker are composed with `TaskQueue` itself, by INSTANCE: every step of theirs is a
step of the queue or leaves it alone, by construction. What is proved there is what they make
of the promise: the chain reaches from the worker's verdict to the POST a receiver gets
(`AnnouncedOutcomesAreEarned`). In the other direction HippoDaemon has one process, `main`, and
takes for granted that one at a time recovers the tasks and works on them. That assumption is
`DaemonProcess`; DaemonLifecycle implements it unless commands overlapped, and `Alone` shows
that a second process is never past the PID file.

`OneCopy` takes an induction of its own on top of `IInv`: `Counted` adds that the task a worker
holds is unfinished and in no other worker's hands, and that one which has landed is finished,
so that a task lands once, and that every file no upload was credited with belongs to an answer
lost. `NoLimitNoTransfer` is a plain induction, worth stating because the state it describes
looks like a busy daemon.

Proofs are laid out by component (API, scheduler, worker, process), one lemma each, and by
action below that; `TailFacts`, `BatchFacts` and so on are the lemmas on sequences they rest
on.

Only model-checked: the liveness properties (`EverySettles`, `ShutdownTerminates`,
`CallbackSettles`, `OverlapEnds`, `UploadsSucceed`, `CallReturns`, `LetsGo`), since fairness
and ENABLED are beyond the prover; the actions' ranks are proved, see above. The proofs are of
safety and hold with or without fairness. `UploadsSucceed`, in which "no deletion" stands for
`gone = {}`, is checked with one fault for one retry.

## 5. Not modelled

- The rate limiter's arithmetic: the bucket is a library, the models have no clock, and a
  worker gets a token in the end or `Wait` fails. How calls are spaced, and a limit per task
  against calls per task, is not covered.
- The setup wizard's dialogue and the OAuth exchange (main.go:242-345), a straight line of
  prompts, a browser and one callback; of `hippo init` the models have the port and the file it
  writes.
- The dashboard, `ls`, `status` and the task list: they read and change no state.
- Parsing of the configuration, whose numbers are constants here (a missing one is 0), and of
  requests.
- Clocks: `created_at` does not step back, a tick of the sender is ten seconds, and timeouts
  are failures that may come at any time.
- The contents of files in Drive and of uploads: an upload is one API call.
- The scripts and the embedded guide.
- A database error while migrateSchema asks for callback_url, which skips the migration
  (db.go:79): it would only add to `SchemaWhole`'s counterexamples.

`log.Fatalf` before the database is open has no effect on the daemon's model and is `Die` in
DaemonLifecycle.
