# GiveMeSpace: verification notes

TLA+ models of the parts of this repository whose correctness depends on the order in
which processes, messages and callbacks come. TLC checks them on small instances, TLAPS
proves the main invariants for all values of the constants. `PROJECT.json` lists the
runs, mutants, findings, hazards and theorems, and maps every definition to the source
lines it stands for.

## The system

`node space serve` is an HTTP server over a directory tree ("customware") with an index
of files, users and groups. With `WORKERS > 1` it is a cluster: a **primary** process
owns the index, **workers** answer browsers from replicas. `node space supervise` puts
a proxy in front of `serve` children and replaces them when the watched branch moves.

| component | state | operations | talks to |
|---|---|---|---|
| replicated state (`server/runtime/state_system.js`) | entries per area, version, delta log, locks and their queues, version waiters | commitEntries, getDeltaSince, applyDelta, applySnapshot, acquireLock, releaseLock, waitForVersion | called by watchdog, cluster, auth, jobs |
| clustered runtime (`server/runtime/cluster.js`, `ipc.js`) | per worker: boot progress, pending requests; primary: worker numbers | worker boot, STATE_REQUEST handlers, broadcasts, syncs, mutation commits, re-fork | IPC channels between primary and workers |
| watchdog (`server/lib/file_watch/`) | path index, handler states, configuration, operation queue | start, refresh, applyProjectPathChanges, applySnapshot, applyStateDelta | file system, replicated state |
| request routing (`server/router/`) | nothing between requests | version floor from header or cookie, wait, 503 | waitForVersion |
| mutation capture (`server/runtime/request_mutations.js` ...) | paths changed by a request | collect, publish | commitProjectPaths |
| authentication (`server/lib/auth/`) | `logins.json`, `user.yaml`, challenges in the shared state | login challenge, login, session check, revoke | files, takeEntry |
| jobs (`server/jobs/`) | per job: timer, running, lock | start, schedule, run, release, stop | named locks |
| supervisor (`commands/lib/supervisor/`) | active child and target, draining children, two busy flags | start, update check, promote, drain, fallback, crash restart, stop | child processes, git, npm |
| customware, git history, sharing, SaaS, tmp | files, repositories, databases, archives | file API, history, clone, quota | file system, network |
| onscreen agent (`app/L0/_all/mod/_core/onscreen_agent/store.js`) | draft, queue, chat, three flags, abort controller | submit, queue, turn, retry, execute, stop, clear, compact, rerun | language models, executed code |
| commands, rest of the browser frontend, desktop packaging, companion extension | | | |

What makes them hard, and what makes them correct:

* **Replication.** Deltas are broadcast without acknowledgement, dropped while a worker
  boots, replayed from a bounded log or replaced by a snapshot; several syncs can be under
  way at once. Correct when a replica always is the committed state of the version it
  reports, when it never goes back while it serves, and when a browser that has seen a
  version is not answered from an older one.
* **Worker life cycle.** A worker may exit anywhere; its replacement starts from nothing.
  Correct when it ends up serving, from a whole state.
* **Supervision.** An update, a drain, a fallback, a crash restart and a stop overlap, each
  with awaits inside. Correct when the proxy points at a running child, no process is
  forgotten, and an outage is being repaired.
* **Locks and jobs.** Time to live against run time, waiter timeouts against grants.
  Correct when two unexpired leases never coexist and a stale token frees nobody's lock.
* **Authentication.** Read-modify-write of session files by many workers, one-shot
  challenges. Correct when a challenge succeeds once, the file holds the sessions that were
  written and not ended, and every copy of the index follows the file.
* **Watchdog index.** Debounced events, rescans and mutation reports against a file system
  that changes meanwhile. Correct when the index equals the file system once it is quiet, and
  what workers are told of a file never goes back.
* **Onscreen agent.** One thread with awaits everywhere, and one flag as the lock. Correct
  when the flag is set exactly while one job runs, no text the user gave is lost, and a stop
  request is honoured.

`PROJECT.json` has the list of hazards, each at its line.

## Modules

| module | what it is |
|---|---|
| `StateSystem` | pure operators: change sets, delta log, replay, what a replica does with a delta or snapshot |
| `ClusterReplication` | the protocol between primary and workers, from fork to browser answers; EXTENDS `StateSystem` |
| `VersionedStore` | abstract specification: one history of whole states, views that only move forward |
| `ClusterRefinement` | the refinement mapping from `ClusterReplication` to `VersionedStore` |
| `MCClusterRefinement` | finite instances and symmetry |
| `ClusterReplicationProofs` | lemmas about the operators of `StateSystem`, theorems about replicas |
| `ClusterOrderProofs` | theorems that rest on the order of messages; EXTENDS `ClusterReplicationProofs` |
| `ClusterRefinementProofs` | the refinement theorem |
| `Supervisor`, `SupervisorProofs` | the supervisor and its child processes |
| `StateLocks` | named locks of the primary with waiters, timeouts, expiry and askers that die |
| `JobRunner`, `MCJobRunner`, `JobRunnerProofs` | the periodic jobs; EXTENDS `StateLocks`, whose clients compete with the runner |
| `WatchdogIndex`, `MCWatchdogIndex`, `WatchdogIndexProofs` | the primary's path index between the file system and the replicated state |
| `AuthSessions`, `AuthSessionsProofs` | login challenges, `logins.json` and the copies of the user index |
| `AgentLoop`, `AgentLoopProofs` | the send loop of the onscreen agent |

The modules meet where the code does: `ClusterReplication` takes the commits that
`WatchdogIndex` produces as arbitrary steps of the primary (`PrimaryCommit`), and
`AuthSessions` takes replication as what `ClusterReplication` shows of it, a copy that
moves to the primary's state. `JobRunner` and its locks are one specification.

### StateSystem and ClusterReplication

A key stands for an (area, id) pair, a value for a cloned payload, a state for all
replicated entries. The delta log is a set of deltas (their order is the order of
`toVersion`). Every IPC channel is a FIFO sequence, as Node guarantees for one worker;
nothing orders different workers.

| variable | code |
|---|---|
| `entries`, `version`, `deltaLog` | `entriesByArea`, `replicatedVersion`, `deltaLog` of the primary |
| `toWorker[w]`, `toPrimary[w]` | IPC messages under way |
| `phase[w]` | how far `startClusterWorker` is; `watchdog` is set from `syncing` on |
| `bootSnapshot[w]` | `initialSnapshot` |
| `replica[w]` | entries and version of the worker's own state system |
| `request[w]` | the browser request that waits for the primary, and the version it needs |
| `hist`, `based`, `acked` | history variables: the state of every version; the replica has taken a full snapshot; the highest version promised to a browser |
| `crashes`, `reloads` | counters for bounds only |

| action | code |
|---|---|
| `PrimaryCommit`, `ReloadConfig` | commitReplicatedState and refreshInternal with the subscriber of cluster.js |
| `HandleReady`, `HandleGetDeltaSince`, `HandleGetSnapshot`, `HandleCommitProjectPaths` | handleWorkerMessage |
| `ReceiveBootSnapshot`, `IgnoreMessage`, `CreateWatchdog` | handlePrimaryMessage and startClusterWorker before a watchdog exists |
| `ReceiveDelta`, `ReceiveSnapshot` | broadcasts, through applyPrimarySyncPayload and applySnapshot |
| `ReceiveDeltaResponse`, `ReceiveNoDelta`, `ReceiveSnapshotResponse` | the steps of syncWatchdogFromPrimary |
| `ReceiveCommitResponse`, `ReceiveEmptyCommitResponse` | mutationSync.commitProjectPaths |
| `BeginStart`, `FinishStart` | watchdog.start() before and after it awaits configureHandlers |
| `BeginFencedRequest`, `BeginMutation` | stateSync.waitForVersion, commitProjectPaths |
| `Crash`, `Fork` | a worker exits, the exit handler forks |

Abstractions. Version 0 stands for the startup epoch the primary seeds its versions
with. A worker works on one browser request at a time. An operation of the worker's watchdog
queue runs when its message arrives: operations are queued in the order of the messages,
so a queue that stalls in `configureHandlers` looks like messages that still wait in the
channel, with one exception that is not modelled (an answer without a delta does not pass
through the queue). `start()` bypasses the queue and is two steps. `waitForVersion`
pulls once; its second pull and its timeouts are left out, as are entries with an expiry,
entries that are not replicated (login challenges), and lock and entry requests. The
primary itself does not restart. A batch that changes an entry and changes it back within
one commit is not considered.

### Supervisor

`task["boot"]`, `task["update"]` and `task["restart"]` are the three activities that start
children: `start()`, `checkForUpdates` (busy = `isCheckingUpdate`) and `restartFromTarget`
(busy = `isRestarting`). `draining` is `drainingChildren`; `drainers` are the `drainChild`
calls that have not returned, so that a call whose record a fallback removed is still
there. `signal[c] = "stop"` is `child.stopping`. A step is one event with everything up to
the next await: the exit of the active child picks a fallback or spawns the restart in the
same step. `alive[c]` ends when the exit event is emitted. The code never asks whether a child
still runs when its health check succeeds and it is made active (`Healthy`). A child that is
one process has answered before its exit event: libuv reads sockets before it reports
children that ended, and everything from the answer to the exit handler happens between two
events. A child with `WORKERS > 1` is a cluster (`Clustered`): its workers may answer when
the primary, the process that is watched, has gone. Proxied streams
are left out: `waitForProxyQuiet` may return at any time. Staging and the remote check
succeed or fail. The server process's own reaction to SIGTERM is unknown: a child that got
only the SIGTERM of a failed start may run on. Records of the drains that are pending have
a number, so that two drains of one child differ as the objects of the code do; a number is
used again when its drain has ended.

### StateLocks and JobRunner

Time is what is left until a deadline: `Tick` takes one unit from every TTL and every
waiter's timer, and timers may fire late. A lock that has run out stays in `lock` until
somebody looks, as in the code. `lease[a]` is what asker `a` knows: it waits, its answer is
on its way, or it holds a token. A token is any that nothing refers to (they are random in
the code); `LocksAssumption` asks for more tokens than there are places for one.

| action | code |
|---|---|
| `Acquire` (`AcquireFree`, `AcquireWait`) | acquireLock, for a worker through the primary's request handler |
| `Receive` | the answer reaches the worker |
| `Release` (`ReleaseBy`, `GrantNextWaiter`) | releaseLock and maybeGrantNextWaiter |
| `WaiterTimesOut` | the timer of a waiter |
| `Exit` | a worker exits; the primary keeps its lock and its place in the queue |
| `BeginStart`, `FinishStart`, `StartFails` | JobRunner.start() before and after it awaits the jobs: new job states; several calls may be between the two |
| `Stop` | stop() clears the timers of the current job states; a run under way goes on |
| `Skip`, `BeginRun`, `EndRun` | runJob when the lock is refused or the job is disabled, and around job.run() |

A lock is the one of a job in a server: a server process keeps its locks in its own memory,
and the supervisor has two of them on one tree while it drains one. `starting` counts the
calls of `start()` under way. The askers are workers and job states.

### WatchdogIndex

A path changes its state by counting: odd numbers are states in which it exists. `index` is
`currentPathIndex`, `committed` the shards of `file_index` that workers replicate, `queue`
the operations of `operationQueue`. A notice is an `fs.watch` event; `WatchEvent` turns it
into a pending path, and a notice may be lost at any time, which stands for watchers that
are missing or dead. A sync changes the index at once and commits after the handlers have
been told (`BeginSync`, `EndSync`); a scan reads one path per step and replaces the whole
index at its end (`ScanPath`, `EndRefresh`). `SyncFails`, `HandlersFail` and `RefreshFails`
leave what was done before the fault, which may come in a handler when the index has changed
already. A commit takes whole shards over into the index, as
`applyFileShardToCurrentPathIndex` does (`CommitPaths`). What the handlers build from the
files is left out, as are the watcher of the configuration file, the refreshes that other
code asks for and their number (`ReconcilesDoNotPileUp` is about the watchdog's own).

### AuthSessions

Sessions are named by the login that makes them. `challenge` is the primary's entry,
`file` is `logins.json` (its sessions, and whether it parses), `index` the primary's user
index, `replica[w]` a worker's copy. Read, truncation and write of a file are three steps of
a process (`ReadLogins`, `TruncateFile`, `WriteFile`); steps of other processes come in
between, those of the same process do not (`MayRun`). `AnswerRequest` is the commit of the
changed path, which the primary answers after it has read the file again. `undisturbed` is a
history variable: no two processes were between read and write at once and none was cut off
while it wrote. `sessions` is what the file would hold if writes came one after another.

### AgentLoop

The steps are what runs between two awaits of `store.js`. `series[t]` is a call of
`submitMessage`: its phase, the message of the current turn, the request taken from the
history, the empty replies so far, and whether its stream was aborted. `compactor` is the
compaction a user asks for (the one a turn needs is a phase of its series), `rerun` the
rerun of a code block. `local` says whether the model that is asked is the one in the
browser. `Clear` is one step: what `handleClearClick` awaits after its first fields is no
part of the model. A text is a number, a message its kind and number; replies in the chat
are left out because nothing here looks at them. The user's actions (`TypeDraft`, `Submit`,
`QueueDraft`, `RequestStop`, `Clear`, `AskCompact`, `Rerun`) come at any time. `settled`
holds the texts that were sent, given up with an error or cleared. `overlapped` is a history
variable: a job began while `isSending` was set. `submitMessage`, the compaction and the
rerun look at the flag before an await and set it after, so this happens; what should hold
then no text of the repository says, and the properties about one job at a time are stated
without it.

## Runs

Deadlock is checked where the system cannot stop: not for the supervisor, which really
stops (`EndStop`, or a failed boot), not for sessions and the agent, whose bounded requests
and texts come to an end, and not in runs that look for a violation there.

| run | instance | shows |
|---|---|---|
| `replication` | 1 worker, 2 entries, 1 value, versions to 3, log of 2, 1 reload | type invariant, replay and retention, coherence, sync answers fit, answered versions hold |
| `liveness` | 1 worker, 2 entries, versions to 2, log of 1, 1 crash, 1 reload | `ClusterReplication` implements `VersionedStore`; boots complete, requests are answered |
| `boot_gap` | 1 worker, 2 entries, 1 version | violated: a worker listens without its base |
| `empty_commit` | 1 worker, 1 version | violated: an answer's version does not include the mutation |
| `supervisor` | 3 child slots, children of one process, 2 updates, 1 pending drain | active child, leaks, targets, repair of crashes; update attempts end, old children leave |
| `lost_crash` | 3 slots, children of one process, 1 update, 1 drain | violated: a crash nobody repairs |
| `jobs` | 1 server, 1 job, 2 clients, 2 starts of the runner, TTLs to 2, waits to 1, 1 exit | leases exclude each other, waiters are answered, runs in one server overlap only past their TTL, jobs stay scheduled |
| `watchdog` | a file two directories deep, 2 changes, 1 report, 1 fault, 2 queued operations | commits follow the files, reports are committed, everything converges |
| `stale_targets` | the same paths, 4 changes, no fault | violated: a report leaves out a directory above its file |
| `sessions` | 2 workers, 2 logins, 1 logout or password change, 2 challenges, 1 exit | a challenge is given once, the file holds the sessions, copies follow |
| `agent` | 2 calls of submitMessage, 2 texts, 1 retry, 1 executed reply | the flag is a lock, no text leaves the chat, a stop waits for nothing but code and compactions |
| `send_or_refuse` | the same | violated: a text is dropped |

Why the bounds are enough. Workers influence each other only through commits, so one worker
with free `PrimaryCommit` steps meets every message order on its channel. Three versions
with a log of two reach all cases of a replay (nothing to send, part of the log, the whole
log, too old), two entries let a delta leave one of them alone, and one value besides
`Absent` distinguishes set from deleted. One reload puts a snapshot between any two deltas.
Three slots hold an active child and two that are draining or starting, which is what every
overlap of two activities needs; the safety properties are proved for any number of slots,
updates and drains (they were also checked once with four slots and two drains, and with
clusters). Two clients and a job let one asker hold, one wait and one come late; a TTL of
two and a wait of one put each deadline before and after the other. Two directories above a
file are the shortest path on which an ancestor's ancestor can be forgotten; one fault at
any step covers every operation that fails half-way. Two workers and two logins are what a
race on one file needs; the third request ends a session meanwhile. In `agent` one retry
reaches the request that is sent again; the protocol message comes with the second empty
reply only (`MAX_PROTOCOL_RETRY_COUNT` is 2), which multiplies the states by eight and was
checked once, with the same result. The constraint `NoOverlap` of that run cuts behaviours
after `overlapped` is set, where its properties promise nothing; the actions that set it are
still taken. The theorems cover every value of the constants where they apply.

Fairness. `ClusterReplication`: Node delivers what a channel holds and settles awaits, and
the exit handler forks; there is none on commits, requests, reloads or crashes.
`Supervisor`: starts, git and npm commands and drains have timeouts in the code, and
ServeChild.stop ends in a SIGKILL; none on crashes, on readiness or on a child that only
got a SIGTERM. `JobRunner`: time passes and timers fire; nobody has to release a lock.
`WatchdogIndex`: notices that are not lost are delivered, timers fire, and an operation waits
for the file system only; none on changes, reports or faults. `AuthSessions`: a process that
lives carries its requests on, watch events or reconciles make the primary read the file,
deltas arrive. `AgentLoop`: awaits of the browser and of its server come back, and a local
model stops at its token limit. A remote model may never answer, neither a turn nor a
compaction, executed code may never return, and the user owes nothing.

### What the violations show

* `boot_gap`: `createWatchdog` gives a booting replica the version of its boot snapshot
  without the entries. A delta applied before `watchdog.start()` makes `start()` consider the
  snapshot old, and the worker listens with the delta's entries only.
* `empty_commit`: `start()` compares versions, awaits `configureHandlers` outside the
  operation queue, and installs the boot snapshot over newer state. A mutation whose change
  the primary already knew is then answered with the older version.
* `lost_crash`: while the restart loop stops a surplus child `isRestarting` is still set; a
  crash of the promoted child in that time is ignored, and later update checks find the
  revision unchanged.
* `stale_targets`: a report takes the ancestors it must sync from the index before it is
  queued; a scan that runs before it may replace the index with one that lacks them. A
  directory stays out of the replicas until a watch event or the next reconcile.
* `send_or_refuse`: a text that is being prepared lives in a local variable of the loop; when
  another text is queued meanwhile, the turn ends at `boundaryActionBeforeStream` and the
  first text is neither sent nor kept. After a series that failed the queue stays, and the
  next text that is submitted is dropped the same way.

`BasedReplicaCoherent`, `AnsweredVersionHeld`, `CrashStartsRepair`, `ActiveChildServes` (for
children of one process), `RunsShareNoLease` and `Converges` state what
holds next to these: each names exactly the situation it excludes. Five more behaviours are
in the models and no run is about them:

* A mutation is answered before the other workers show it. The documentation of the module
  API (`server/api/modules-and-runtime.md:66`) says "every worker sees the new module state
  before the response finishes"; `AnsweredVersionHeld` is what holds.
* Runs of a job may overlap. The documentation (`server/jobs-and-maintenance.md:45-46`) says
  "jobs do not overlap" and "long runs do not trigger overlap or catch-up bursts", without a
  condition. Checked as an invariant, this fails in two ways. A run that has outlived the TTL
  of its lock, which is not renewed, goes on over `stop()` and `start()`, and the new job
  state begins a second one (`job_runner.js:88-125`); in this repository only `listen()`
  starts a runner again, after an attempt that failed (`app.js:226-247`). And a lock is known
  to one server only, while the supervisor has two servers on one tree until the older one is
  drained, each with a runner; with the repository's jobs and defaults the newer one's first
  run comes five minutes after its start at the earliest, later than a drain of 30 seconds, so
  it takes a longer `--drain-timeout` or a job with a short `initialDelayMs`.
  `RunsShareNoLease` is what holds: in one server, only a run past its TTL can be overlapped.
* A child that has exited may become active. The exit handler is attached after the health
  check (`supervisor.js:81-91`); when the primary of a cluster exits just before one of its
  workers answers `/api/health`, the exit event is over by then, nothing restarts the server
  and update checks find its revision unchanged. `ActiveChildServes` holds for children that
  are one process; the other state properties hold for both.
* A stop of the agent may wait for ever. A compaction begins whether or not a stop was
  requested (`store.js:5218-5232`), and its request has neither a signal nor a time limit
  (`store.js:5087`): while a remote model does not answer it, the agent stays busy. The same
  goes for code that does not return. `StopIsHonoured` says that a stop waits for nothing
  else; no text of the repository promises more.
* Two logins of one user at once on two workers may lose a session; `FileHoldsTheSessions`
  is what holds when the processes take turns.

## Proofs

All theorems are about `Spec` for arbitrary constants that satisfy the named assumptions of
their module: `RetentionAssumption`, `SentinelAssumption`, `BoundsAssumption` and
`HiddenAssumption` (the log keeps at least one delta, the marker values differ from
payloads, the bounds are naturals), `LocksAssumption` and `JobsAssumption` (finite sets of
names and askers, more tokens than places for one, the runner's askers are its job states),
`WatchdogAssumption` (finitely many paths, and a depth for each that is greater than that of
its directory: directories form a tree), `AuthAssumption`, `SupervisorAssumption` and
`AgentAssumption` (markers and bounds). Every safety property that a passing run checks, as
an invariant or as a property of steps, is a theorem.

| module | theorem | states |
|---|---|---|
| `ClusterReplicationProofs` | `TypeCorrect` | `Spec => []TypeOK` |
| | `ReplayCorrect` | `Spec => []ReplayMatchesHistory` |
| | `ReplicasCoherent` | `Spec => []BasedReplicaCoherent` |
| | `NeverBackWhileServing` | `Spec => VersionGoesBackOnlyAtStart` |
| | `RetentionDecides` | `Spec => []RetentionDecidesReplay` |
| `ClusterOrderProofs` | `SyncsNeverRejected` | `Spec => []SyncResponsesFit` |
| | `AnswersAreHeld` | `Spec => []AnsweredVersionHeld` |
| | `OnePullIsEnough` | `Spec => FencedRequestSeesFloor` |
| `ClusterRefinementProofs` | `ClusterImplementsStore` | `Spec => ImplementsVersionedStore` |
| `JobRunnerProofs` | `JobsTypeCorrect` | `Spec => []JobsTypeOK` |
| | `LocksExclude` | `Spec => []MutualExclusion` |
| | `JobsExclude` | `Spec => []RunsShareNoLease` |
| | `GrantedLocksHaveOwners` | `Spec => []FreshLockHasOwner` |
| | `JobsStayScheduled` | `Spec => []ScheduledJobsStay` |
| | `OwnersEndTheirLocks` | `Spec => OnlyOwnerEndsLock` |
| `WatchdogIndexProofs` | `WatchTypeCorrect` | `Spec => []WatchTypeOK` |
| | `IndexCommitted` | `Spec => []IndexIsCommitted` |
| | `CommitsForward` | `Spec => CommitsMoveForward` |
| | `ReportsCommitted` | `Spec => ReportsAreCommitted` |
| | `ReconcilesBounded` | `Spec => []ReconcilesDoNotPileUp` |
| `AuthSessionsProofs` | `AuthTypeCorrect` | `Spec => []AuthTypeOK` |
| | `ChallengeGivenOnce` | `Spec => []ChallengeUsedOnce` |
| | `FileKeepsSessions` | `Spec => []FileHoldsTheSessions` |
| `SupervisorProofs` | `SupervisorTypeCorrect` | `Spec => []TypeOK` |
| | `ProxyServes` | `Spec => []ActiveChildServes`, if `~ Clustered` |
| | `NoneLeaks` | `Spec => []NoChildLeaks` |
| | `TargetRuns` | `Spec => []ActiveTargetIsRunning` |
| | `CrashIsRepaired` | `Spec => CrashStartsRepair` |
| `AgentLoopProofs` | `LoopTypeCorrect` | `Spec => []LoopTypeOK` |
| | `BusyFlagLocks` | `Spec => []BusyIsALock` |
| | `TextsStay` | `Spec => HistoryKeepsTexts` |

### Replication

The inductive invariant `IInv` is `TypeOK`, `LogInv` and a `WorkerInv` for each worker.
`LogInv` says that every retained delta is one version long, that the log has no hole up
to the current version, and that merging the retained deltas from the start of any of
them leads from the history at that start to the current state; the lemmas about the
operators of `StateSystem` carry this over a commit and a trim. `WorkerInv` has three parts: every
delta and snapshot under way is sound with respect to the history and no request names a
future version (`ChannelInv`); a worker without a watchdog has an empty replica and only
boot messages in its channels, and from then on its boot snapshot is sound (`BootInv`); a
replica is not ahead of the primary, and a based one is sound (`ReplicaInv`).
Coherence alone is not inductive: without the first two, a step could apply
a delta that starts at the right version and leads elsewhere. The history `hist` never
changes below the current version, which carries soundness over a commit. The refinement
maps a worker that listens on a based replica to its replica and every other worker to
`Hidden`; each action maps to `Commit`, `Serve`, `CatchUp`, `Stop` or a stutter.

`RetentionDecides` adds `RetainInv`, which says which versions the log has a delta for: the
last `DeltaRetention` ones, one each. That a trim keeps exactly these is a counting argument
(`ConsecutiveCount`): the deltas newer than a given one have consecutive versions, so their
number is a difference of versions.

Nothing of this says in which order messages come. `OrderInv` does, for each worker:
`ChannelOrdered`, the versions in its channel never fall, and behind a message that ends at
a version every later one is announced, in order and before anything newer, up to the
version of the primary (`Follows`); `SyncInv`, a pull under way started from the version the
replica still has, or else everything the replica lacks is on its way, so that a pull that
comes too late only brings what was installed before; `TurnInv`, at most one message belongs
to the boot sync and one to the browser's request; `AckInv`, nothing in the channel is older
than what a browser was promised. `SyncInv` needs the first part because a broadcast that a
replica skips must not be followed by a gap, and the last two are what a promise rests on:
the answer was sent behind the broadcast of its version.

### Locks and jobs

Mutual exclusion alone is not inductive: a step could grant a lock whose record does not
agree with a lease somebody still has. `IInv` adds that a lease that has not run out is the
current lock, to the unit of time left (`LeaseMatches`), that no two askers were given the
same token (`TokensDiffer`), and that a run of a job has a token of that job's lock while no
job state ever waits in a queue (`RunsHold`). `NewTokenIsNew` is a counting argument: a map
from the places for a token onto the tokens in use shows that one is left.

That a fresh lock has an owner needs two more facts, which hold while nobody has died: an
asker that is in a queue waits for that lock and is there once (`WaitersWait`), since a grant to
one that had given up would have no owner, and a job that does not run has no lease
(`IdleHoldsNothing`). `Scheduled` says that the jobs of the last `start()` carry its number
and that no job has a later one; without it a second `start()` could meet a job state of its
own that has already ended. `CountInv` bounds the starts that were made and the
calls under way together, which the types need.

### Watchdog index

The invariant relates three things that move apart: the files, the index and what is
committed. `Reached(p, e)` says that `p` had entry `e` at some time since the state of it
that is committed. An operation that is about to commit has such an entry for each of its
targets, and if it answers a report, an entry no older than the report (`SoundOperation`).
For a sync this is so because it reads the disk in the step in which it changes the index.
A scan reads path after path while files change, and what it has seen was there when it read
it; but of paths whose directory it found missing it takes the absence over without looking.
They were all absent at the time it looked for the directory, because what exists is in
directories that exist (`TreeInv`), so the invariant keeps a set of paths that is closed
downwards and was absent as a whole (`Gone`). One operation runs at a time (`QueueInv`), so
nothing is committed between what a scan reads and what it commits; this is what the mutant
without the queue breaks. `IndexIsCommitted` is inductive with these.

`ReconcilesBounded` counts: an armed timer and a queued refresh are worth one each, a timer
that fires turns one into the other, the end of a refresh may arm the next, a failed sync
pays with a fault. That the subtree of a directory is closed downwards is a fact about the
recursive function `Ancestors`. The library's induction theorems cannot be used here; instead
the least depth at which the function would not exist, or would not be a list of directories,
is shown to have one less (`LeastNatural`).

### Sessions

The type invariant needs `KindsFit`: what a request targets fits its kind. `OnceInv` adds to
`ChallengeUsedOnce` that a challenge that was given is gone. `TurnsInv` is what an
undisturbed history means: one request at most is between read and write, its copy of the
logins agrees with what the file would hold after it, and outside a write the file parses and
agrees with `sessions`; to agree is to be equal but for sessions that have expired.

### Supervisor

`IInv` adds five facts to the type and the state properties (of `ActiveChildServes` only that
nobody is stopping the active child, and that it runs if it is no cluster): an activity has a
child exactly in the steps that need one (`TasksFit`); a child is active, draining once, or of one
activity (`RolesApart`); nobody who is in use or starting was told to leave
(`NobodyToldToLeave`); nothing else happens before the proxy listens (`BootFirst`); the
target noted for a draining or starting child is its release (`ReleasesNoted`). Without
`RolesApart` a drain could end by stopping the active child; without `ReleasesNoted` a
fallback could bring a target that does not run. `CrashIsRepaired` is a step property proved
from `IInv`: every step that leaves no child active hands over to the restart loop.

### Agent

`IInv` adds two facts to the type and the lock. `FlagsRestored`: the value a compaction will
write back to `isSending` is the one that is right when it ends, which is "idle" for one the
user asked for and "busy" for one inside a turn; without it the end of a compaction could
free the flag of a series that runs. `RequestCovers`: in every phase after which the history
may be set from a turn's list, the list has every text the chat has; `TextsStay` is a step
property proved from it. Both hold because one job runs at a time, so each step is proved
through what it does to the lock (nobody begins or ends, one begins, one ends) and one
goal for the steps of a series.

### Only model-checked

All liveness, which TLAPS does not reason about here: `BootCompletes`, `RequestsAnswered`,
`UpdateAttemptsEnd`, `OldChildrenLeave`, `WaitersAnswered`, `ReportsEnd`, `Converges`,
`IndexFollowsFile` and `StopIsHonoured`; and the disagreements that the violated runs show.

## Not modelled

See the `components` of `PROJECT.json`. In short: pure input and output (git, npm,
archives, databases, HTTP proxying), cryptography, one-shot commands, thin API handlers,
routing and its timeouts, most of the browser frontend (of which a large part are vendored
model runtimes and layout), and packaging. These make most of the lines of the repository; the
models cover the parts in which order decides.

## What could come next

1. Version fencing to the end: the router, both pulls of `waitForVersion`, timeouts, the 503
   retry and the version floor of a browser over two workers.
2. Abstract specifications for the other components, as `VersionedStore` is for replication:
   a lock service for `StateLocks`, a store of sessions for `AuthSessions`, with proofs.
3. The admin chat, whose loop is a sibling of `AgentLoop`, and the per-owner history queue of
   the git backends.
