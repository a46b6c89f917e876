---------------------------- MODULE WatchdogIndex ----------------------------
(***************************************************************************)
(* The primary's file index (server/lib/file_watch/watchdog.js): what the  *)
(* file system holds, what currentPathIndex says of it, and what has been  *)
(* committed to the replicated file_index that the workers read.           *)
(*                                                                         *)
(*   disk[p]       how often path p has changed: an odd number is a state  *)
(*                 in which it exists, an even one that it does not        *)
(*   index[p]      currentPathIndex: the odd number whose metadata it has, *)
(*                 None when it has no entry                               *)
(*   committed[p]  the same for the shard of p in replicatedAreaState      *)
(*   notices       fs.watch events on their way                            *)
(*   pending       pendingChangedPaths; pathSyncTimer runs while it is not *)
(*                 empty                                                   *)
(*   refreshTimer, reconcileTimer                                          *)
(*   queue         the operations of operationQueue, the running one first *)
(*   started       start() has finished                                    *)
(*   writes, reports, faults   what the bounds count                       *)
(*                                                                         *)
(* Watchers are left out: any notice may be lost, as one is that comes     *)
(* before its directory is watched.  A step is what JavaScript does up to  *)
(* the next await; a scan reads one path per step.                         *)
(***************************************************************************)
EXTENDS Naturals, FiniteSets, SequencesExt

CONSTANTS
    Paths,
    Directories,
    Root,          \* the directory above all paths; always there
    Parent,        \* the directory of each path
    Shard,         \* getFileIndexShardId
    LiveWatch,     \* liveWatchEnabled
    MaxWrites, MaxReports, MaxFaults, MaxQueue

\* Directories form a tree: each is deeper than the one it is in.
ASSUME WatchdogAssumption ==
    /\ IsFiniteSet(Paths)
    /\ Directories \subseteq Paths
    /\ Root \notin Paths
    /\ Parent \in [Paths -> Directories \cup {Root}]
    /\ \E depth \in [Paths -> 0 .. Cardinality(Paths)] :
          \A p \in Paths : Parent[p] # Root => depth[Parent[p]] < depth[p]
    /\ DOMAIN Shard = Paths
    /\ LiveWatch \in BOOLEAN
    /\ {MaxWrites, MaxReports, MaxFaults, MaxQueue} \subseteq Nat

VARIABLES
    disk, index, committed,
    notices, pending, refreshTimer, reconcileTimer,
    queue, started,
    writes, reports, faults

fileVars  == <<disk, notices, writes>>
timerVars == <<pending, refreshTimer, reconcileTimer>>
vars == <<fileVars, index, committed, timerVars, queue, started, reports, faults>>

None == 0

\* A mutant of Entry that makes an entry for a path that is gone.
EntryOfGone(n) == n

\* createPathIndexEntry of what a stat finds.
Entry(n) == IF n % 2 = 1 THEN n ELSE None

OnDisk(p) == IF p = Root THEN TRUE ELSE Entry(disk[p]) # None

Indexed(p) == p # Root /\ index[p] # None

\* listProjectAncestorDirectories, nearest first.
Ancestors[p \in Paths] ==
    IF Parent[p] = Root THEN <<>> ELSE <<Parent[p]>> \o Ancestors[Parent[p]]

Subtree(p) == {p} \cup {q \in Paths : p \in ToSet(Ancestors[q])}

Below(S) == UNION {Subtree(p) : p \in S}

\* What a report was told: the paths, and the state of each file at the time.
Report   == [path : Paths, asked : Nat]
NoReport == [path |-> Root, asked |-> 0]

\* full and meta are the targets of a sync; marked collects changedProjectPaths;
\* seen is nextPathIndex as far as the scan of a refresh has come.
Operation(kind, full, meta, report) ==
    [kind |-> kind, full |-> full, meta |-> meta, report |-> report,
     step |-> "queued", marked |-> {}, seen |-> <<>>]

RefreshOperation == Operation("refresh", {}, {}, NoReport)

WatchTypeOK ==
    /\ disk \in [Paths -> Nat]
    /\ index \in [Paths -> Nat]
    /\ committed \in [Paths -> Nat]
    /\ notices \in SUBSET Paths
    /\ pending \in SUBSET Paths
    /\ {refreshTimer, reconcileTimer, started} \subseteq BOOLEAN
    /\ \A i \in DOMAIN queue :
          /\ queue[i].kind \in {"sync", "refresh"}
          /\ queue[i].full \cup queue[i].meta \cup queue[i].marked \subseteq Paths
          /\ queue[i].report \in Report \cup {NoReport}
          /\ queue[i].step \in {"queued", "scanning", "indexed"}
          /\ DOMAIN queue[i].seen \subseteq Paths
    /\ \A p \in Paths : {index[p], committed[p]} \subseteq {None} \cup {n \in 1 .. disk[p] : n % 2 = 1}
    /\ <<writes, reports, faults>> \in (0 .. MaxWrites) \X (0 .. MaxReports) \X (0 .. MaxFaults)

\* start() has queued its refresh; nothing is indexed yet.
Init ==
    /\ disk = [p \in Paths |-> 1]
    /\ index = [p \in Paths |-> None]
    /\ committed = [p \in Paths |-> None]
    /\ notices = {}
    /\ pending = {}
    /\ refreshTimer = FALSE
    /\ reconcileTimer = FALSE
    /\ queue = <<RefreshOperation>>
    /\ started = FALSE
    /\ writes = 0
    /\ reports = 0
    /\ faults = 0

-----------------------------------------------------------------------------
(* The file system, which workers and other programs change. *)

\* A path that appears or goes changes the metadata of its directory.
Change(p, after) ==
    /\ writes < MaxWrites
    /\ OnDisk(Parent[p])
    /\ LET appearsOrGoes == (Entry(disk[p]) = None) # (Entry(after[p]) = None)
       IN  disk' = [q \in Paths |-> IF q = Parent[p] /\ appearsOrGoes
                                    THEN after[q] + 2 ELSE after[q]]
    /\ notices' = IF LiveWatch THEN notices \cup {p} ELSE notices
    /\ writes' = writes + 1
    /\ UNCHANGED <<index, committed, timerVars, queue, started, reports, faults>>

\* A file is created or overwritten, a directory is created.
Put(p) ==
    /\ p \in Directories => ~ OnDisk(p)
    /\ Change(p, [disk EXCEPT ![p] = IF OnDisk(p) THEN @ + 2 ELSE @ + 1])

\* A path goes, with everything below it.
Delete(p) ==
    /\ OnDisk(p)
    /\ Change(p, [q \in Paths |-> IF q \in Subtree(p) /\ OnDisk(q) THEN disk[q] + 1 ELSE disk[q]])

\* The callback of fs.watch, or a notice that no watcher gets.
WatchEvent(p) ==
    /\ p \in notices
    /\ notices' = notices \ {p}
    /\ pending' \in {pending, pending \cup {p}}
    /\ UNCHANGED <<disk, writes, index, committed, refreshTimer, reconcileTimer,
                   queue, started, reports, faults>>

-----------------------------------------------------------------------------
(* Operations come to the queue. *)

Enqueue(op) ==
    /\ Len(queue) < MaxQueue
    /\ queue' = Append(queue, op)

\* pathSyncTimer: the paths that were collected are synced, without their
\* directories.
PathSyncFires ==
    /\ pending # {}
    /\ pending' = {}
    /\ Enqueue(Operation("sync", pending, {}, NoReport))
    /\ UNCHANGED <<fileVars, index, committed, refreshTimer, reconcileTimer,
                   started, reports, faults>>

RefreshFires ==
    /\ refreshTimer
    /\ refreshTimer' = FALSE
    /\ Enqueue(RefreshOperation)
    /\ UNCHANGED <<fileVars, index, committed, pending, reconcileTimer,
                   started, reports, faults>>

\* A mutant of ReconcileFires that runs on an interval, whether or not the last
\* refresh is over.
ReconcileFiresPeriodically ==
    /\ reconcileTimer
    /\ Enqueue(RefreshOperation)
    /\ UNCHANGED <<fileVars, index, committed, timerVars, started, reports, faults>>

ReconcileFires ==
    /\ reconcileTimer
    /\ reconcileTimer' = FALSE
    /\ Enqueue(RefreshOperation)
    /\ UNCHANGED <<fileVars, index, committed, pending, refreshTimer,
                   started, reports, faults>>

\* collectProjectSyncTargets: the directories above p, up to the first that the
\* index has.
AncestorTargets(p) ==
    LET above == Ancestors[p]
    IN  {above[i] : i \in {j \in DOMAIN above : \A k \in 1 .. j - 1 : ~ Indexed(above[k])}}

\* applyProjectPathChanges: a request has changed p and reports it.
ReportPath(p) ==
    /\ started
    /\ reports < MaxReports
    /\ reports' = reports + 1
    /\ Enqueue(Operation("sync", {p}, AncestorTargets(p), [path |-> p, asked |-> disk[p]]))
    /\ UNCHANGED <<fileVars, index, committed, timerVars, started, faults>>

-----------------------------------------------------------------------------
(* The running operation. *)

\* A mutant of MayRun without the operation queue.
MayRunAtOnce(i) == i \in DOMAIN queue

\* enqueueOperation: a task begins when the one before it is settled.
MayRun(i) == i = 1

\* A mutant of Synced that reads only what has no entry.
SyncedIfMissing(full, meta) ==
    [p \in Paths |-> IF p \in Below(full) \cup meta /\ index[p] = None
                     THEN Entry(disk[p]) ELSE index[p]]

\* The index after full syncs of the paths in full, which read everything below
\* them again, and syncs of the directory entries in meta alone.
Synced(full, meta) ==
    [p \in Paths |-> IF p \in Below(full) \cup meta THEN Entry(disk[p]) ELSE index[p]]

\* A mutant of Marked that forgets what is below a directory.
MarkedTargets(full, meta) ==
    {p \in full : index[p] # None \/ OnDisk(p)} \cup {p \in meta : index[p] # Entry(disk[p])}

\* changedProjectPaths: a full sync takes an entry out before it puts it back.
Marked(full, meta) ==
    {p \in Below(full) : index[p] # None \/ OnDisk(p)} \cup {p \in meta : index[p] # Entry(disk[p])}

\* commitReplicatedState with the index at the paths in S:
\* applyFileShardToCurrentPathIndex then takes the whole of every shard that
\* changed over into the index.
CommitPaths(S) ==
    LET reshard(p) == \E q \in S : Shard[q] = Shard[p] /\ committed[q] # index[q]
    IN  /\ committed' = [p \in Paths |-> IF p \in S THEN index[p] ELSE committed[p]]
        /\ index' = [p \in Paths |->
                        IF p \notin S /\ reshard(p) /\ committed[p] # None
                        THEN committed[p] ELSE index[p]]

\* applyAbsolutePathChanges up to notifyHandlers; when nothing changed this is
\* all of it.
BeginSync(i) ==
    LET op     == queue[i]
        marked == Marked(op.full, op.meta)
    IN  /\ op.kind = "sync" /\ op.step = "queued"
        /\ index' = Synced(op.full, op.meta)
        /\ queue' = IF marked = {}
                    THEN RemoveAt(queue, i)
                    ELSE [queue EXCEPT ![i].step = "indexed", ![i].marked = marked]
        /\ UNCHANGED <<fileVars, committed, timerVars, started, reports, faults>>

\* The handlers have been told.
EndSync(i) ==
    /\ queue[i].kind = "sync" /\ queue[i].step = "indexed"
    /\ CommitPaths(queue[i].marked)
    /\ queue' = RemoveAt(queue, i)
    /\ UNCHANGED <<fileVars, timerVars, started, reports, faults>>

\* A mutant of SyncFails after which nothing runs: operationQueue stays rejected.
SyncFailsForAll(i) ==
    /\ queue[i].kind = "sync" /\ queue[i].step = "queued"
    /\ faults < MaxFaults
    /\ faults' = faults + 1
    /\ queue' = [queue EXCEPT ![i].step = "scanning"]
    /\ UNCHANGED <<fileVars, index, committed, timerVars, started, reports>>

\* A handler throws: what was synced stays in the index and is not committed.
HandlersFail(i) ==
    /\ queue[i].kind = "sync" /\ queue[i].step = "indexed"
    /\ faults < MaxFaults
    /\ faults' = faults + 1
    /\ queue' = RemoveAt(queue, i)
    /\ refreshTimer' = (refreshTimer \/ queue[i].report = NoReport)
    /\ UNCHANGED <<fileVars, index, committed, pending, reconcileTimer, started, reports>>

\* A stat or a walk throws at one of the targets: what was synced before stays
\* in the index, of a walk the part that had been put back.  Watched paths get a
\* refresh, a reporter gets the error.
SyncFails(i) ==
    LET op == queue[i]
    IN  /\ op.kind = "sync" /\ op.step = "queued"
        /\ faults < MaxFaults
        /\ faults' = faults + 1
        /\ \E done \in SUBSET (op.full \cup op.meta) :
           \E at \in (op.full \cup op.meta) \ done :
           \E walked \in {{}} \cup IF at \in op.full THEN {Subtree(at)} ELSE {} :
           \E back \in SUBSET walked :
               index' = [p \in Paths |->
                            IF p \in walked /\ p \notin back THEN None
                            ELSE Synced((done \cap op.full) \cup back, done \cap op.meta)[p]]
        /\ queue' = RemoveAt(queue, i)
        /\ refreshTimer' = (refreshTimer \/ op.report = NoReport)
        /\ UNCHANGED <<fileVars, committed, pending, reconcileTimer, started, reports>>

\* rebuildCurrentPathIndexAsync stats p, which the listing of its directory
\* had; the index is replaced when all is read.
ScanPath(i, p) ==
    LET op   == queue[i]
        seen == [q \in DOMAIN op.seen \cup {p} |->
                    IF q # p THEN op.seen[q]
                    ELSE IF Parent[p] = Root THEN Entry(disk[p])
                    ELSE IF op.seen[Parent[p]] = None THEN None ELSE Entry(disk[p])]
    IN  /\ op.kind = "refresh" /\ op.step \in {"queued", "scanning"}
        /\ p \notin DOMAIN op.seen
        /\ Parent[p] \in DOMAIN op.seen \cup {Root}
        /\ IF DOMAIN seen = Paths
           THEN /\ index' = seen
                /\ queue' = [queue EXCEPT ![i].step = "indexed", ![i].seen = <<>>]
           ELSE /\ index' = index
                /\ queue' = [queue EXCEPT ![i].step = "scanning", ![i].seen = seen]
        /\ UNCHANGED <<fileVars, committed, timerVars, started, reports, faults>>

\* scheduleNextReconcile
ScheduleNextReconcile == reconcileTimer' = LiveWatch

\* initializeHandlers is over: the whole index is committed.  The first refresh
\* also ends start().
EndRefresh(i) ==
    /\ queue[i].kind = "refresh" /\ queue[i].step = "indexed"
    /\ CommitPaths(Paths)
    /\ queue' = RemoveAt(queue, i)
    /\ started' = TRUE
    /\ ScheduleNextReconcile
    /\ UNCHANGED <<fileVars, pending, refreshTimer, reports, faults>>

\* A mutant of RefreshFails that schedules the next reconcile only on success.
RefreshFailsForGood(i) ==
    /\ queue[i].kind = "refresh"
    /\ started
    /\ faults < MaxFaults
    /\ faults' = faults + 1
    /\ queue' = RemoveAt(queue, i)
    /\ UNCHANGED <<fileVars, index, committed, timerVars, started, reports>>

\* The configuration or a directory cannot be read, or a handler throws when the
\* index has been replaced, which stays and is not committed.  A start() that
\* fails ends the process.
RefreshFails(i) ==
    /\ queue[i].kind = "refresh"
    /\ started
    /\ faults < MaxFaults
    /\ faults' = faults + 1
    /\ queue' = RemoveAt(queue, i)
    /\ ScheduleNextReconcile
    /\ UNCHANGED <<fileVars, index, committed, pending, refreshTimer, started, reports>>

RunOperation ==
    \E i \in DOMAIN queue :
        /\ MayRun(i)
        /\ \/ BeginSync(i)
           \/ EndSync(i)
           \/ \E p \in Paths : ScanPath(i, p)
           \/ EndRefresh(i)

OperationFails ==
    \E i \in DOMAIN queue : MayRun(i) /\ (SyncFails(i) \/ HandlersFail(i) \/ RefreshFails(i))

Timers == PathSyncFires \/ RefreshFires \/ ReconcileFires

Next ==
    \/ \E p \in Paths : Put(p) \/ Delete(p) \/ WatchEvent(p) \/ ReportPath(p)
    \/ Timers
    \/ RunOperation
    \/ OperationFails

Spec == Init /\ [][Next]_vars

\* Events are delivered, timers fire, and an operation does not wait for
\* anything but the file system and the handlers.
Fairness ==
    /\ \A p \in Paths : WF_vars(WatchEvent(p))
    /\ WF_vars(PathSyncFires)
    /\ WF_vars(RefreshFires)
    /\ WF_vars(ReconcileFires)
    /\ WF_vars(RunOperation)

FairSpec == Spec /\ Fairness

-----------------------------------------------------------------------------
(* Properties. *)

\* As long as no operation has failed, the index is ahead of the replicated
\* state only in what the running operation has changed and is about to commit:
\* nothing that enters or leaves currentPathIndex escapes changedProjectPaths.
IndexIsCommitted ==
    faults = 0 =>
        \A p \in Paths :
            index[p] # committed[p] =>
                \E i \in DOMAIN queue :
                    queue[i].step = "indexed" /\ (queue[i].kind = "sync" => p \in queue[i].marked)

\* What workers are told of a file only moves along its history, whatever scans
\* and syncs overlap: a slow scan does not commit over a newer sync.
CommitsMoveForward ==
    [][\A p \in Paths :
           committed'[p] # committed[p] =>
               \E n \in committed[p] .. disk[p] : Entry(n) = committed'[p]]_vars

\* A report that is answered has been committed: the workers' index has a state
\* of the file that is no older than the report.
ReportsAreCommitted ==
    [][\A i \in DOMAIN queue :
           LET report == queue[i].report
           IN  faults' = 0 /\ report # NoReport /\ queue' = RemoveAt(queue, i) =>
                   \E n \in report.asked .. disk[report.path] : Entry(n) = committed'[report.path]]_vars

\* tests/watchdog_external_changes_test.mjs, "watchdog schedules reconciles from
\* the previous completion instead of queuing overlap": beside the one refresh
\* that the loop has, only a failed sync asks for another.
ReconcilesDoNotPileUp ==
    Cardinality({i \in DOMAIN queue : queue[i].kind = "refresh"})
        + (IF refreshTimer THEN 1 ELSE 0) + (IF reconcileTimer THEN 1 ELSE 0) <= 1 + faults

\* tests/watchdog_external_changes_test.mjs:125, "watchdog explicit project-path
\* sync hydrates missing ancestors without a full layer rescan": when the report
\* of a file that is there is answered, the directories above it are committed.
ReportHydratesAncestors ==
    [][\A i \in DOMAIN queue :
           LET report == queue[i].report
           IN  faults' = 0 /\ report # NoReport /\ queue' = RemoveAt(queue, i)
                   /\ Entry(report.asked) # None /\ committed'[report.path] # None =>
                       \A a \in ToSet(Ancestors[report.path]) : committed'[a] # None]_vars

\* A report is answered, or refused, although operations before it fail.
ReportsEnd ==
    (\E i \in DOMAIN queue : queue[i].report # NoReport)
        ~> (\A i \in DOMAIN queue : queue[i].report = NoReport)

\* When the file system has come to rest, the index and the replicated state
\* come to agree with it, whatever notices were lost, targets were expanded from
\* an index that was out of date, or operations failed half-way.
Converges == <>[](\A p \in Paths : index[p] = Entry(disk[p]) /\ committed[p] = index[p])
=============================================================================
