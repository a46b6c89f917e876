------------------------ MODULE ClusterReplication ------------------------
(***************************************************************************)
(* The clustered runtime: one primary process owns the authoritative state *)
(* and the delta log, worker processes keep replicas of it                 *)
(* (server/runtime/cluster.js, server/lib/file_watch/watchdog.js).         *)
(*                                                                         *)
(*   entries, version   the primary's replicated entries and their version *)
(*   deltaLog           the deltas getDeltaSince can still replay          *)
(*   toWorker[w]        IPC messages on their way to worker w, in order    *)
(*   toPrimary[w]       IPC messages on their way to the primary, in order *)
(*   phase[w]           how far startClusterWorker of w has come           *)
(*   bootSnapshot[w]    the initialSnapshot w was created with             *)
(*   replica[w]         the replica's entries and the version it claims    *)
(*   request[w]         the browser request w is working on, if any        *)
(*                                                                         *)
(* Three history variables remember what properties speak of and no guard  *)
(* reads: hist (the state of every version), based[w] (the replica of w    *)
(* has taken a full snapshot) and acked[w] (the highest version w promised *)
(* to a browser).                                                          *)
(*                                                                         *)
(* The operation queue of a worker's watchdog runs an operation as soon as *)
(* the message that enqueued it has been handled, so receiving a message   *)
(* and applying it are one step.  The exception is watchdog.start(), which *)
(* calls applySnapshotInternal outside the queue: it is two steps.         *)
(***************************************************************************)
EXTENDS StateSystem, Sequences

CONSTANTS
    Workers,
    MaxVersion,   \* commits stop at this version
    MaxCrashes,   \* how often a worker process may exit
    MaxReloads    \* how often the watch configuration changes

ASSUME BoundsAssumption ==
    MaxVersion \in Nat /\ MaxCrashes \in Nat /\ MaxReloads \in Nat

VARIABLES
    entries, version, deltaLog, hist,
    toWorker, toPrimary,
    phase, bootSnapshot, replica, based,
    request, acked,
    crashes, reloads

primaryVars == <<entries, version, deltaLog, hist>>
channelVars == <<toWorker, toPrimary>>
workerVars  == <<phase, bootSnapshot, replica, based, request, acked>>
boundVars   == <<crashes, reloads>>
vars == <<primaryVars, channelVars, workerVars, boundVars>>

-----------------------------------------------------------------------------
(* Messages.  "tag" says which await of the worker a response settles:       *)
(*   "boot"      the sync of startClusterWorker,                             *)
(*   "heal"      a sync started by a version gap in a broadcast,             *)
(*   "request"   a sync the current browser request waits for.               *)
Tags == {"boot", "heal", "request"}

SnapshotMsg(s)              == [kind |-> "STATE_SNAPSHOT", snapshot |-> s]
DeltaMsg(d)                 == [kind |-> "STATE_DELTA", delta |-> d]
DeltaResponse(tag, d)       == [kind |-> "delta", tag |-> tag, delta |-> d]
NoDeltaResponse(tag)        == [kind |-> "noDelta", tag |-> tag]
SnapshotResponse(tag, s)    == [kind |-> "snapshot", tag |-> tag, snapshot |-> s]
CommitResponse(d, v)        == [kind |-> "commit", delta |-> d, version |-> v]
EmptyCommitResponse(v)      == [kind |-> "emptyCommit", version |-> v]

WorkerMessage ==
         [kind : {"STATE_SNAPSHOT"}, snapshot : Snapshot]
    \cup [kind : {"STATE_DELTA"}, delta : Delta]
    \cup [kind : {"delta"}, tag : Tags, delta : Delta]
    \cup [kind : {"noDelta"}, tag : Tags]
    \cup [kind : {"snapshot"}, tag : Tags, snapshot : Snapshot]
    \cup [kind : {"commit"}, delta : Delta, version : Nat]
    \cup [kind : {"emptyCommit"}, version : Nat]

ReadyMsg                    == [kind |-> "WORKER_READY"]
GetDeltaSince(tag, v)       == [kind |-> "getDeltaSince", tag |-> tag, fromVersion |-> v]
GetSnapshot(tag)            == [kind |-> "getSnapshot", tag |-> tag]
CommitProjectPaths          == [kind |-> "commitProjectPaths"]

PrimaryMessage ==
         [kind : {"WORKER_READY", "commitProjectPaths"}]
    \cup [kind : {"getDeltaSince"}, tag : Tags, fromVersion : Nat]
    \cup [kind : {"getSnapshot"}, tag : Tags]

Phases == {"down",          \* the process has exited
           "forked",        \* the process runs, WORKER_READY is sent
           "bootstrapped",  \* initialSnapshotPromise is resolved
           "syncing",       \* the watchdog exists, its first sync is pending
           "loading",       \* createAgentServer loads the API modules
           "starting",      \* watchdog.start() awaits configureHandlers
           "listening"}     \* the worker serves browser requests

\* The watchdog variable of startClusterWorker is set.
HasWatchdog(w) == phase[w] \in {"syncing", "loading", "starting", "listening"}

Idle == [kind |-> "none", floor |-> 0]
Request == [kind : {"none", "fenced", "mutation"}, floor : Nat]

Connected == {w \in Workers : phase[w] # "down"}

Broadcast(msg) ==
    [w \in Workers |-> IF w \in Connected THEN Append(toWorker[w], msg)
                                          ELSE toWorker[w]]

CurrentSnapshot == [state |-> entries, version |-> version]

EmptyReplica == [state |-> EmptyState, version |-> 0]

Receives(w, kind) ==
    /\ toWorker[w] # <<>>
    /\ Head(toWorker[w]).kind = kind

Asks(w, kind) ==
    /\ toPrimary[w] # <<>>
    /\ Head(toPrimary[w]).kind = kind

Consumed(w) == [toWorker EXCEPT ![w] = Tail(@)]
Send(w, msg) == [toPrimary EXCEPT ![w] = Append(@, msg)]

TypeOK ==
    /\ entries \in State
    /\ version \in Nat
    /\ deltaLog \in SUBSET Delta
    /\ hist \in [0 .. version -> State]
    /\ toWorker \in [Workers -> Seq(WorkerMessage)]
    /\ toPrimary \in [Workers -> Seq(PrimaryMessage)]
    /\ phase \in [Workers -> Phases]
    /\ bootSnapshot \in [Workers -> Snapshot]
    /\ replica \in [Workers -> Snapshot]
    /\ based \in [Workers -> BOOLEAN]
    /\ request \in [Workers -> Request]
    /\ acked \in [Workers -> Nat]
    /\ crashes \in Nat
    /\ reloads \in Nat

Init ==
    /\ entries \in State
    /\ version = 0
    /\ deltaLog = {}
    /\ hist = [v \in {0} |-> entries]
    /\ toWorker = [w \in Workers |-> <<>>]
    /\ toPrimary = [w \in Workers |-> <<ReadyMsg>>]
    /\ phase = [w \in Workers |-> "forked"]
    /\ bootSnapshot = [w \in Workers |-> EmptyReplica]
    /\ replica = [w \in Workers |-> EmptyReplica]
    /\ based = [w \in Workers |-> FALSE]
    /\ request = [w \in Workers |-> Idle]
    /\ acked = [w \in Workers |-> 0]
    /\ crashes = 0
    /\ reloads = 0

-----------------------------------------------------------------------------
(* The primary. *)

CommitDelta(s) ==
    [changes     |-> ReplicatedChanges(entries, s),
     fromVersion |-> version,
     toVersion   |-> version + 1]

\* A mutant of Commit that forgets to advance the version.
CommitSameVersion(s) ==
    /\ version < MaxVersion
    /\ s # entries
    /\ entries' = s
    /\ version' = version
    /\ deltaLog' = TrimDeltaLog(deltaLog \cup {CommitDelta(s)})
    /\ hist' = [v \in 0 .. version + 1 |-> IF v = version + 1 THEN s ELSE hist[v]]

\* commitEntries with at least one replicated change: one version per commit.
Commit(s) ==
    /\ version < MaxVersion
    /\ s # entries
    /\ entries' = s
    /\ version' = version + 1
    /\ deltaLog' = TrimDeltaLog(deltaLog \cup {CommitDelta(s)})
    /\ hist' = [v \in 0 .. version + 1 |-> IF v = version + 1 THEN s ELSE hist[v]]

\* A mutant of PrimaryCommit that notifies no subscriber.
CommitUnannounced ==
    /\ \E s \in State : Commit(s)
    /\ UNCHANGED <<channelVars, workerVars, boundVars>>

\* commitReplicatedState after a watched file change or a reconcile: the
\* watchdog's subscriber broadcasts the delta.
PrimaryCommit ==
    /\ \E s \in State :
          /\ Commit(s)
          /\ toWorker' = Broadcast(DeltaMsg(CommitDelta(s)))
    /\ UNCHANGED <<toPrimary, workerVars, boundVars>>

\* refreshInternal with a changed watch configuration: a snapshot is broadcast
\* in place of the delta, whether or not the scan changed an entry.
ReloadConfig ==
    /\ reloads < MaxReloads
    /\ reloads' = reloads + 1
    /\ \/ UNCHANGED primaryVars
       \/ \E s \in State : Commit(s)
    /\ toWorker' = Broadcast(SnapshotMsg([state |-> entries', version |-> version']))
    /\ UNCHANGED <<toPrimary, workerVars, crashes>>

\* handleWorkerMessage, WORKER_READY.
HandleReady(w) ==
    /\ Asks(w, "WORKER_READY")
    /\ toPrimary' = [toPrimary EXCEPT ![w] = Tail(@)]
    /\ toWorker' = [toWorker EXCEPT ![w] = Append(@, SnapshotMsg(CurrentSnapshot))]
    /\ UNCHANGED <<primaryVars, workerVars, boundVars>>

\* A mutant of HandleGetDeltaSince that does not answer with a null delta.
AnswerOnlyDeltas(w) ==
    /\ Asks(w, "getDeltaSince")
    /\ LET ask == Head(toPrimary[w])
       IN  toWorker' = IF CanReplay(deltaLog, version, ask.fromVersion)
                       THEN [toWorker EXCEPT
                                ![w] = Append(@, DeltaResponse(ask.tag,
                                           DeltaSince(deltaLog, version, ask.fromVersion)))]
                       ELSE toWorker
    /\ toPrimary' = [toPrimary EXCEPT ![w] = Tail(@)]
    /\ UNCHANGED <<primaryVars, workerVars, boundVars>>

\* STATE_REQUEST getDeltaSince; a null delta is answered too.
HandleGetDeltaSince(w) ==
    /\ Asks(w, "getDeltaSince")
    /\ LET ask == Head(toPrimary[w])
           answer == IF CanReplay(deltaLog, version, ask.fromVersion)
                     THEN DeltaResponse(ask.tag,
                                        DeltaSince(deltaLog, version, ask.fromVersion))
                     ELSE NoDeltaResponse(ask.tag)
       IN  toWorker' = [toWorker EXCEPT ![w] = Append(@, answer)]
    /\ toPrimary' = [toPrimary EXCEPT ![w] = Tail(@)]
    /\ UNCHANGED <<primaryVars, workerVars, boundVars>>

\* STATE_REQUEST getSnapshot.
HandleGetSnapshot(w) ==
    /\ Asks(w, "getSnapshot")
    /\ LET tag == Head(toPrimary[w]).tag
       IN  toWorker' = [toWorker EXCEPT
                           ![w] = Append(@, SnapshotResponse(tag, CurrentSnapshot))]
    /\ toPrimary' = [toPrimary EXCEPT ![w] = Tail(@)]
    /\ UNCHANGED <<primaryVars, workerVars, boundVars>>

\* A mutant of HandleCommitProjectPaths that returns early when the rescan
\* finds nothing to commit.
AnswerOnlyCommits(w) ==
    /\ Asks(w, "commitProjectPaths")
    /\ \/ /\ UNCHANGED primaryVars
          /\ UNCHANGED toWorker
       \/ \E s \in State :
             /\ Commit(s)
             /\ toWorker' = [Broadcast(DeltaMsg(CommitDelta(s))) EXCEPT
                                ![w] = Append(@, CommitResponse(CommitDelta(s), version + 1))]
    /\ toPrimary' = [toPrimary EXCEPT ![w] = Tail(@)]
    /\ UNCHANGED <<workerVars, boundVars>>

\* STATE_REQUEST commitProjectPaths: the paths are rescanned; a change is
\* committed, broadcast to every worker and then answered.
HandleCommitProjectPaths(w) ==
    /\ Asks(w, "commitProjectPaths")
    /\ \/ /\ UNCHANGED primaryVars
          /\ toWorker' = [toWorker EXCEPT ![w] = Append(@, EmptyCommitResponse(version))]
       \/ \E s \in State :
             /\ Commit(s)
             /\ toWorker' = [Broadcast(DeltaMsg(CommitDelta(s))) EXCEPT
                                ![w] = Append(@, CommitResponse(CommitDelta(s), version + 1))]
    /\ toPrimary' = [toPrimary EXCEPT ![w] = Tail(@)]
    /\ UNCHANGED <<workerVars, boundVars>>

-----------------------------------------------------------------------------
(* A worker before its watchdog exists. *)

\* The first snapshot to arrive resolves initialSnapshotPromise.
ReceiveBootSnapshot(w) ==
    /\ phase[w] = "forked"
    /\ Receives(w, "STATE_SNAPSHOT")
    /\ bootSnapshot' = [bootSnapshot EXCEPT ![w] = Head(toWorker[w]).snapshot]
    /\ phase' = [phase EXCEPT ![w] = "bootstrapped"]
    /\ toWorker' = Consumed(w)
    /\ UNCHANGED <<primaryVars, toPrimary, replica, based, request, acked, boundVars>>

\* handlePrimaryMessage drops deltas, and snapshots nobody waits for, while
\* there is no watchdog.
IgnoreMessage(w) ==
    /\ \/ phase[w] \in {"forked", "bootstrapped"} /\ Receives(w, "STATE_DELTA")
       \/ phase[w] = "bootstrapped" /\ Receives(w, "STATE_SNAPSHOT")
    /\ toWorker' = Consumed(w)
    /\ UNCHANGED <<primaryVars, toPrimary, workerVars, boundVars>>

\* createWatchdog gives the replica the version of the snapshot, but none of
\* its entries, and the first syncWatchdogFromPrimary starts from that version.
CreateWatchdog(w) ==
    /\ phase[w] = "bootstrapped"
    /\ replica' = [replica EXCEPT
                      ![w] = [state |-> EmptyState, version |-> bootSnapshot[w].version]]
    /\ phase' = [phase EXCEPT ![w] = "syncing"]
    /\ toPrimary' = Send(w, GetDeltaSince("boot", bootSnapshot[w].version))
    /\ UNCHANGED <<primaryVars, toWorker, bootSnapshot, based, request, acked, boundVars>>

-----------------------------------------------------------------------------
(* A worker with a watchdog. *)

\* STATE_DELTA through applyPrimarySyncPayload: a version gap starts a sync.
ReceiveDelta(w) ==
    /\ HasWatchdog(w)
    /\ Receives(w, "STATE_DELTA")
    /\ LET delta == Head(toWorker[w]).delta
       IN  /\ replica' = [replica EXCEPT ![w] = ApplyDelta(@, delta)]
           /\ toPrimary' = IF Gap(replica[w], delta)
                           THEN Send(w, GetDeltaSince("heal", replica[w].version))
                           ELSE toPrimary
    /\ toWorker' = Consumed(w)
    /\ UNCHANGED <<primaryVars, phase, bootSnapshot, based, request, acked, boundVars>>

\* applySnapshotInternal: a snapshot older than the replica is skipped.
InstallSnapshot(w, snapshot) ==
    IF snapshot.version < replica[w].version
    THEN UNCHANGED <<replica, based>>
    ELSE /\ replica' = [replica EXCEPT ![w] = ApplySnapshot(snapshot)]
         /\ based' = [based EXCEPT ![w] = TRUE]

\* STATE_SNAPSHOT broadcast.
ReceiveSnapshot(w) ==
    /\ HasWatchdog(w)
    /\ Receives(w, "STATE_SNAPSHOT")
    /\ InstallSnapshot(w, Head(toWorker[w]).snapshot)
    /\ toWorker' = Consumed(w)
    /\ UNCHANGED <<primaryVars, toPrimary, phase, bootSnapshot, request, acked, boundVars>>

\* The browser request of w is answered; floor is the version it asked for or
\* the version it committed.
Answer(w, floor) ==
    /\ request' = [request EXCEPT ![w] = Idle]
    /\ acked' = [acked EXCEPT ![w] = floor]

\* syncWatchdogFromPrimary returns to the await that called it.
SyncDone(w, tag) ==
    /\ phase' = IF tag = "boot" THEN [phase EXCEPT ![w] = "loading"] ELSE phase
    /\ IF tag = "request" THEN Answer(w, request[w].floor)
                          ELSE UNCHANGED <<request, acked>>

\* The response of getDeltaSince carries a delta.  A gap would reject the sync;
\* SyncResponsesFit says there is none.
ReceiveDeltaResponse(w) ==
    /\ Receives(w, "delta")
    /\ replica' = [replica EXCEPT ![w] = ApplyDelta(@, Head(toWorker[w]).delta)]
    /\ SyncDone(w, Head(toWorker[w]).tag)
    /\ toWorker' = Consumed(w)
    /\ UNCHANGED <<primaryVars, toPrimary, bootSnapshot, based, boundVars>>

\* A mutant of ReceiveNoDelta that takes a null delta for an empty one.
GiveUpWithoutDelta(w) ==
    /\ Receives(w, "noDelta")
    /\ SyncDone(w, Head(toWorker[w]).tag)
    /\ toWorker' = Consumed(w)
    /\ UNCHANGED <<primaryVars, toPrimary, bootSnapshot, replica, based, boundVars>>

\* The log no longer reaches back far enough: ask for a snapshot.
ReceiveNoDelta(w) ==
    /\ Receives(w, "noDelta")
    /\ toPrimary' = Send(w, GetSnapshot(Head(toWorker[w]).tag))
    /\ toWorker' = Consumed(w)
    /\ UNCHANGED <<primaryVars, workerVars, boundVars>>

\* The response of getSnapshot.
ReceiveSnapshotResponse(w) ==
    /\ Receives(w, "snapshot")
    /\ InstallSnapshot(w, Head(toWorker[w]).snapshot)
    /\ SyncDone(w, Head(toWorker[w]).tag)
    /\ toWorker' = Consumed(w)
    /\ UNCHANGED <<primaryVars, toPrimary, bootSnapshot, boundVars>>

\* mutationSync.commitProjectPaths: the committed delta is applied before the
\* browser is answered; a gap makes the answer wait for a sync.
ReceiveCommitResponse(w) ==
    /\ Receives(w, "commit")
    /\ LET msg == Head(toWorker[w])
       IN  /\ replica' = [replica EXCEPT ![w] = ApplyDelta(@, msg.delta)]
           /\ IF Gap(replica[w], msg.delta)
              THEN /\ request' = [request EXCEPT ![w].floor = msg.version]
                   /\ toPrimary' = Send(w, GetDeltaSince("request", replica[w].version))
                   /\ UNCHANGED acked
              ELSE /\ Answer(w, msg.version)
                   /\ UNCHANGED toPrimary
    /\ toWorker' = Consumed(w)
    /\ UNCHANGED <<primaryVars, phase, bootSnapshot, based, boundVars>>

\* The primary found nothing to commit: there is nothing to apply.
ReceiveEmptyCommitResponse(w) ==
    /\ Receives(w, "emptyCommit")
    /\ Answer(w, Head(toWorker[w]).version)
    /\ toWorker' = Consumed(w)
    /\ UNCHANGED <<primaryVars, toPrimary, phase, bootSnapshot, replica, based, boundVars>>

\* watchdog.start() on a replica: nothing happens when the replica has moved
\* past the boot snapshot, else configureHandlers is awaited.
BeginStart(w) ==
    /\ phase[w] = "loading"
    /\ phase' = [phase EXCEPT
                    ![w] = IF bootSnapshot[w].version < replica[w].version
                           THEN "listening"
                           ELSE "starting"]
    /\ UNCHANGED <<primaryVars, channelVars, bootSnapshot, replica, based,
                   request, acked, boundVars>>

\* A mutant of FinishStart that can run again on a worker that listens.
StartAgain(w) ==
    /\ phase[w] \in {"starting", "listening"}
    /\ replica' = [replica EXCEPT ![w] = ApplySnapshot(bootSnapshot[w])]
    /\ based' = [based EXCEPT ![w] = TRUE]
    /\ phase' = [phase EXCEPT ![w] = "listening"]
    /\ UNCHANGED <<primaryVars, channelVars, bootSnapshot, request, acked, boundVars>>

\* The await is over; the boot snapshot is installed without a second look at
\* the version.
FinishStart(w) ==
    /\ phase[w] = "starting"
    /\ replica' = [replica EXCEPT ![w] = ApplySnapshot(bootSnapshot[w])]
    /\ based' = [based EXCEPT ![w] = TRUE]
    /\ phase' = [phase EXCEPT ![w] = "listening"]
    /\ UNCHANGED <<primaryVars, channelVars, bootSnapshot, request, acked, boundVars>>

\* stateSync.waitForVersion for a browser that has seen version floor: the
\* replica is behind, so it pulls from the primary first.
BeginFencedRequest(w, floor) ==
    /\ phase[w] = "listening"
    /\ request[w] = Idle
    /\ replica[w].version < floor
    /\ request' = [request EXCEPT ![w] = [kind |-> "fenced", floor |-> floor]]
    /\ toPrimary' = Send(w, GetDeltaSince("request", replica[w].version))
    /\ UNCHANGED <<primaryVars, toWorker, phase, bootSnapshot, replica, based,
                   acked, boundVars>>

\* A request handler has changed files and publishes their paths.
BeginMutation(w) ==
    /\ phase[w] = "listening"
    /\ request[w] = Idle
    /\ request' = [request EXCEPT ![w] = [kind |-> "mutation", floor |-> 0]]
    /\ toPrimary' = Send(w, CommitProjectPaths)
    /\ UNCHANGED <<primaryVars, toWorker, phase, bootSnapshot, replica, based,
                   acked, boundVars>>

-----------------------------------------------------------------------------
(* Worker processes exit, and the primary's exit handler forks again. *)

Crash(w) ==
    /\ phase[w] # "down"
    /\ crashes < MaxCrashes
    /\ crashes' = crashes + 1
    /\ phase' = [phase EXCEPT ![w] = "down"]
    /\ toWorker' = [toWorker EXCEPT ![w] = <<>>]
    /\ toPrimary' = [toPrimary EXCEPT ![w] = <<>>]
    /\ bootSnapshot' = [bootSnapshot EXCEPT ![w] = EmptyReplica]
    /\ replica' = [replica EXCEPT ![w] = EmptyReplica]
    /\ based' = [based EXCEPT ![w] = FALSE]
    /\ request' = [request EXCEPT ![w] = Idle]
    /\ acked' = [acked EXCEPT ![w] = 0]
    /\ UNCHANGED <<primaryVars, reloads>>

Fork(w) ==
    /\ phase[w] = "down"
    /\ phase' = [phase EXCEPT ![w] = "forked"]
    /\ toPrimary' = [toPrimary EXCEPT ![w] = <<ReadyMsg>>]
    /\ UNCHANGED <<primaryVars, toWorker, bootSnapshot, replica, based, request,
                   acked, boundVars>>

-----------------------------------------------------------------------------
PrimaryHandles(w) ==
    \/ HandleReady(w)
    \/ HandleGetDeltaSince(w)
    \/ HandleGetSnapshot(w)
    \/ HandleCommitProjectPaths(w)

WorkerReceives(w) ==
    \/ ReceiveBootSnapshot(w)
    \/ IgnoreMessage(w)
    \/ ReceiveDelta(w)
    \/ ReceiveSnapshot(w)
    \/ ReceiveDeltaResponse(w)
    \/ ReceiveNoDelta(w)
    \/ ReceiveSnapshotResponse(w)
    \/ ReceiveCommitResponse(w)
    \/ ReceiveEmptyCommitResponse(w)

WorkerBoots(w) ==
    \/ CreateWatchdog(w)
    \/ BeginStart(w)
    \/ FinishStart(w)

BrowserAsks(w) ==
    \/ \E floor \in 1 .. version : BeginFencedRequest(w, floor)
    \/ BeginMutation(w)

Next ==
    \/ PrimaryCommit
    \/ ReloadConfig
    \/ \E w \in Workers :
          \/ PrimaryHandles(w)
          \/ WorkerReceives(w)
          \/ WorkerBoots(w)
          \/ BrowserAsks(w)
          \/ Crash(w)
          \/ Fork(w)

Spec == Init /\ [][Next]_vars

\* Node delivers what a channel holds, settles awaits, and runs the exit
\* handler.  Nobody promises another commit, request, reload or crash.
Fairness ==
    \A w \in Workers :
        /\ WF_vars(PrimaryHandles(w))
        /\ WF_vars(WorkerReceives(w))
        /\ WF_vars(WorkerBoots(w))
        /\ WF_vars(Fork(w))

FairSpec == Spec /\ Fairness

-----------------------------------------------------------------------------
(* What replication promises. *)

\* A delta is sound when it leads from one committed state to a later one.
SoundDelta(d) ==
    /\ d.fromVersion <= version
    /\ d.toVersion <= version
    /\ d.fromVersion <= d.toVersion
    /\ hist[d.toVersion] = Override(hist[d.fromVersion], d.changes)

\* A snapshot, or a replica, is sound when it is the state of its version.
SoundSnapshot(s) ==
    /\ s.version <= version
    /\ s.state = hist[s.version]

\* Whatever range of versions getDeltaSince replays from the retained deltas,
\* the replay leads from the state of the first version to the current state
\* (state_system.js getDeltaSince, commitEntries, trimDeltaLog).
ReplayMatchesHistory ==
    \A v \in 0 .. version :
        CanReplay(deltaLog, version, v) =>
            SoundDelta(DeltaSince(deltaLog, version, v))

\* The log answers a worker that is at most DeltaRetention versions behind, and
\* sends every other one to a snapshot (trimDeltaLog, getDeltaSince).
RetentionDecidesReplay ==
    \A v \in 0 .. version :
        CanReplay(deltaLog, version, v) <=> version - v <= DeltaRetention

\* A replica that has ever taken a full snapshot holds exactly the committed
\* state of the version it reports, through gaps, stale and duplicate deltas,
\* snapshot fallbacks and the unqueued install of watchdog.start().
BasedReplicaCoherent ==
    \A w \in Workers : based[w] => SoundSnapshot(replica[w])

\* No answer of getDeltaSince meets a version gap when it is applied, although
\* deltas were dropped at boot, several syncs may be pending at once and
\* broadcasts arrive in between (the code has no handler for that gap).
SyncResponsesFit ==
    \A w \in Workers :
        Receives(w, "delta") => ~ Gap(replica[w], Head(toWorker[w]).delta)

\* One pull is enough: a browser request that carries a version floor is
\* answered by a replica that has reached it (stateSync.waitForVersion).
FencedRequestSeesFloor ==
    [][\A w \in Workers :
          request[w].kind = "fenced" /\ request'[w] = Idle /\ phase'[w] = "listening"
              => replica'[w].version >= request[w].floor]_vars

\* A listening worker is never behind a version it has answered a browser for,
\* once it has moved on from its boot snapshot: mutations are answered after
\* their own delta, and no later message takes the replica back
\* (commitProjectPaths, applyPrimarySyncPayload).
AnsweredVersionHeld ==
    \A w \in Workers :
        phase[w] = "listening" /\ replica[w].version # bootSnapshot[w].version
            => acked[w] <= replica[w].version

\* The answer to a mutation carries a version that includes it, also on a
\* worker that is still at its boot snapshot.
MutationAnswerIncludesIt ==
    \A w \in Workers :
        phase[w] = "listening" => acked[w] <= replica[w].version

\* A listening worker holds the committed state of the version it reports.
ServingReplicaCoherent ==
    \A w \in Workers :
        phase[w] = "listening" => SoundSnapshot(replica[w])

\* The version a live replica reports goes back only when watchdog.start()
\* installs the boot snapshot, never while the worker listens.
VersionGoesBackOnlyAtStart ==
    [][\A w \in Workers :
          replica'[w].version < replica[w].version
              => phase[w] = "starting" \/ phase'[w] = "down"]_vars

\* A worker process that is forked ends up serving requests unless it exits.
BootCompletes ==
    \A w \in Workers :
        phase[w] = "forked" ~> phase[w] \in {"listening", "down"}

\* Every browser request that waits for the primary is answered unless its
\* worker exits, and a worker that exits is forked again.
RequestsAnswered ==
    \A w \in Workers : request[w] # Idle ~> request[w] = Idle
=============================================================================
