----------------------------- MODULE Supervisor -----------------------------
(***************************************************************************)
(* `space supervise`: a proxy in front of `space serve` child processes    *)
(* that are replaced on updates and restarted after crashes                *)
(* (commands/lib/supervisor/supervisor.js, child_process.js).              *)
(*                                                                         *)
(*   alive[c]        no exit event of child process c has been emitted     *)
(*   signal[c]       who told c to leave: "stop" is ServeChild.stop        *)
(*                   (SIGTERM, later SIGKILL), "term" the SIGTERM of a     *)
(*                   start that failed                                     *)
(*   release[c]      the revision c was started from                       *)
(*   active, activeTarget   where the proxy sends requests, and the        *)
(*                   revision the supervisor believes to be there          *)
(*   draining        drainingChildren, oldest first                        *)
(*   drainers        the records whose drainChild has not finished; those  *)
(*                   that left draining on a fallback are still in here    *)
(*   task[s]         the activity s: start(), checkForUpdates() guarded by *)
(*                   isCheckingUpdate, restartFromTarget() guarded by      *)
(*                   isRestarting                                          *)
(*   mode, awaited   isStopping, and the children stop() waits for         *)
(*   remote          the revision at the head of the watched branch        *)
(*                                                                         *)
(* JavaScript runs a callback to its next await: a step below is one event *)
(* with everything that happens before the next one.  A child slot is used *)
(* again once nothing refers to it.  Proxied streams are left out: a drain *)
(* is over whenever the clock says so.                                     *)
(***************************************************************************)
EXTENDS Naturals, SequencesExt

CONSTANTS
    Clustered,     \* the children serve with WORKERS > 1
    Children,
    None,
    MaxRevision,   \* how far the watched branch moves
    MaxDrains      \* how many drainChild calls may be pending

ASSUME SupervisorAssumption ==
    /\ Clustered \in BOOLEAN
    /\ None \notin Children
    /\ MaxRevision \in Nat
    /\ MaxDrains \in Nat

VARIABLES
    alive, signal, release,
    active, activeTarget, draining, drainers,
    task, mode, awaited, remote

processVars == <<alive, signal, release>>
proxyVars   == <<active, activeTarget, draining, drainers>>
vars == <<processVars, proxyVars, task, mode, awaited, remote>>

Activities == {"boot", "update", "restart"}
Revisions  == 0 .. MaxRevision

\* Where an activity stands: reading the remote revision, staging a release,
\* waiting for the listening line of a child, waiting for /api/health, waiting
\* before the next attempt, waiting for a surplus child to stop.
Steps == {"idle", "checking", "staging", "spawned", "polling", "backoff",
          "stopping", "failed"}

Task   == [step : Steps, child : Children \cup {None}, target : Revisions]
Record == [child : Children, target : Revisions, no : 1 .. MaxDrains]

Done == [step |-> "idle", child |-> None, target |-> 0]

IsStopping   == mode # "running"
IsRestarting == task["restart"] # Done
ProxyIsUp    == task["boot"] = Done
Repairing    == task["restart"].step \in {"spawned", "polling", "backoff"}

DrainingChildren == {draining[i].child : i \in DOMAIN draining}

TypeOK ==
    /\ alive \in [Children -> BOOLEAN]
    /\ signal \in [Children -> {"none", "term", "stop"}]
    /\ release \in [Children -> Revisions]
    /\ active \in Children \cup {None}
    /\ activeTarget \in Revisions
    /\ draining \in Seq(Record)
    /\ drainers \in SUBSET Record
    /\ ToSet(draining) \subseteq drainers
    /\ task \in [Activities -> Task]
    /\ mode \in {"running", "stopping", "stopped"}
    /\ awaited \in SUBSET Children
    /\ remote \in Revisions

\* Nothing refers to the slot of c.
Fresh(c) ==
    /\ ~ alive[c]
    /\ c # active
    /\ c \notin awaited
    /\ \A a \in Activities : task[a].child # c
    /\ \A r \in drainers : r.child # c

-----------------------------------------------------------------------------
(* Starting a child. *)

\* start() has set activeTarget to the source checkout and spawned its child.
Init ==
    /\ \E c \in Children :
          /\ alive = [d \in Children |-> d = c]
          /\ task = [a \in Activities |->
                        IF a = "boot" THEN [step |-> "spawned", child |-> c, target |-> 0]
                                      ELSE Done]
    /\ signal = [c \in Children |-> "none"]
    /\ release = [c \in Children |-> 0]
    /\ active = None
    /\ activeTarget = 0
    /\ draining = <<>>
    /\ drainers = {}
    /\ mode = "running"
    /\ awaited = {}
    /\ remote = 0

\* startServeChild: activity a spawns a process for target.
Spawn(a, target) ==
    \E c \in Children :
        /\ Fresh(c)
        /\ alive' = [alive EXCEPT ![c] = TRUE]
        /\ signal' = [signal EXCEPT ![c] = "none"]
        /\ release' = [release EXCEPT ![c] = target]
        /\ task' = [task EXCEPT
                       ![a] = [step |-> "spawned", child |-> c, target |-> target]]

\* The child has printed its listening line.
PrintsUrl(a) ==
    /\ task[a].step = "spawned"
    /\ task' = [task EXCEPT ![a].step = "polling"]
    /\ UNCHANGED <<processVars, proxyVars, mode, awaited, remote>>

\* A mutant of AfterFailure that does not clear isCheckingUpdate.
AfterFailureBusy(a) ==
    CASE a = "boot"    -> [task[a] EXCEPT !.step = "failed", !.child = None]
      [] a = "update"  -> [task[a] EXCEPT !.step = "failed", !.child = None]
      [] a = "restart" -> IF IsStopping \/ active # None
                          THEN Done
                          ELSE [task[a] EXCEPT !.step = "backoff", !.child = None]

\* A mutant of AfterFailure that restarts only once.
AfterFailureOnce(a) ==
    CASE a = "boot"    -> [task[a] EXCEPT !.step = "failed", !.child = None]
      [] a = "update"  -> Done
      [] a = "restart" -> Done

\* What an activity does when its start is rejected: start() and the update
\* attempt give up, the restart loop goes on while it is needed.
AfterFailure(a) ==
    CASE a = "boot"    -> [task[a] EXCEPT !.step = "failed", !.child = None]
      [] a = "update"  -> Done
      [] a = "restart" -> IF IsStopping \/ active # None
                          THEN Done
                          ELSE [task[a] EXCEPT !.step = "backoff", !.child = None]

\* startServeChild rejects: the child exits before its listening line, or it is
\* not ready in time and gets a SIGTERM.
StartFails(a) ==
    /\ task[a].step \in {"spawned", "polling"}
    /\ LET c == task[a].child
       IN  \/ /\ task[a].step = "spawned"
              /\ alive' = [alive EXCEPT ![c] = FALSE]
              /\ UNCHANGED signal
           \/ /\ signal' = [signal EXCEPT ![c] = IF alive[c] THEN "term" ELSE @]
              /\ UNCHANGED alive
    /\ task' = [task EXCEPT ![a] = AfterFailure(a)]
    /\ UNCHANGED <<release, proxyVars, mode, awaited, remote>>

\* The answer of /api/health and all that follows, the exit handler included, come
\* before the next event.  A child that has exited answers no more, but one of its
\* workers may: nobody asks whether the child still runs.
Healthy(a) ==
    /\ task[a].step = "polling"
    /\ alive[task[a].child] \/ Clustered

\* start(): the source child is ready, the proxy listens.
BootCompletes ==
    /\ Healthy("boot")
    /\ active' = task["boot"].child
    /\ task' = [task EXCEPT !["boot"] = Done]
    /\ UNCHANGED <<processVars, activeTarget, draining, drainers, mode, awaited, remote>>

-----------------------------------------------------------------------------
(* Updates. *)

\* The head of the watched branch moves.
Push ==
    /\ remote < MaxRevision
    /\ remote' = remote + 1
    /\ UNCHANGED <<processVars, proxyVars, task, mode, awaited>>

\* The update timer fires.
BeginUpdateCheck ==
    /\ ProxyIsUp
    /\ ~ IsStopping
    /\ task["update"] = Done
    /\ task' = [task EXCEPT !["update"].step = "checking"]
    /\ UNCHANGED <<processVars, proxyVars, mode, awaited, remote>>

\* readRemoteBranchRevision returns: there is nothing to do when the supervisor
\* believes to run that revision.
ReadRemoteRevision ==
    /\ task["update"].step = "checking"
    /\ task' = [task EXCEPT
                   !["update"] = IF activeTarget = remote
                                 THEN Done
                                 ELSE [@ EXCEPT !.step = "staging", !.target = remote]]
    /\ UNCHANGED <<processVars, proxyVars, mode, awaited, remote>>

\* ensureReleaseForRevision returns and startTarget spawns the replacement;
\* nobody asks again whether the supervisor is stopping.
StageRelease ==
    /\ task["update"].step = "staging"
    /\ Spawn("update", task["update"].target)
    /\ UNCHANGED <<proxyVars, mode, awaited, remote>>

\* A git or npm command fails or runs into its timeout.
UpdateFails ==
    /\ task["update"].step \in {"checking", "staging"}
    /\ task' = [task EXCEPT !["update"] = Done]
    /\ UNCHANGED <<processVars, proxyVars, mode, awaited, remote>>

FreeNumbers == {n \in 1 .. MaxDrains : \A r \in drainers : r.no # n}

NewRecord(c, target) ==
    [child |-> c, target |-> target, no |-> CHOOSE n \in FreeNumbers : TRUE]

\* promoteChild: the proxy switches to the replacement, a previous child that
\* still runs is drained.
PromoteChild ==
    /\ Healthy("update")
    /\ active' = task["update"].child
    /\ activeTarget' = task["update"].target
    /\ IF active # None /\ alive[active]
       THEN /\ FreeNumbers # {}
            /\ draining' = Append(draining, NewRecord(active, activeTarget))
            /\ drainers' = drainers \cup {NewRecord(active, activeTarget)}
       ELSE UNCHANGED <<draining, drainers>>
    /\ task' = [task EXCEPT !["update"] = Done]
    /\ UNCHANGED <<processVars, mode, awaited, remote>>

\* The record r leaves drainingChildren.
DropRecord(r) ==
    \E i \in DOMAIN draining : draining[i] = r /\ draining' = RemoveAt(draining, i)

StopChild(c) == signal' = [signal EXCEPT ![c] = IF alive[c] THEN "stop" ELSE @]

\* A mutant of DrainEnds that does not look whether the record is still there.
DrainEndsUnchecked(r) ==
    /\ r \in drainers
    /\ drainers' = drainers \ {r}
    /\ IF r \in ToSet(draining) THEN DropRecord(r) ELSE UNCHANGED draining
    /\ StopChild(r.child)
    /\ UNCHANGED <<alive, release, active, activeTarget, task, mode, awaited, remote>>

\* A mutant of DrainEnds that forgets to stop the child.
DrainEndsWithoutStop(r) ==
    /\ r \in drainers
    /\ drainers' = drainers \ {r}
    /\ IF r \in ToSet(draining) THEN DropRecord(r) ELSE UNCHANGED draining
    /\ UNCHANGED <<processVars, active, activeTarget, task, mode, awaited, remote>>

\* A mutant of DrainEnds that leaves the record of an exited child in place.
DrainEndsKeepsExited(r) ==
    /\ r \in drainers
    /\ drainers' = drainers \ {r}
    /\ IF r \in ToSet(draining) /\ alive[r.child]
       THEN DropRecord(r) /\ StopChild(r.child)
       ELSE UNCHANGED <<draining, signal>>
    /\ UNCHANGED <<alive, release, active, activeTarget, task, mode, awaited, remote>>

\* waitForProxyQuiet of a record is over; a child that a fallback has taken
\* back is left alone.
DrainEnds(r) ==
    /\ r \in drainers
    /\ drainers' = drainers \ {r}
    /\ IF r \in ToSet(draining)
       THEN DropRecord(r) /\ StopChild(r.child)
       ELSE UNCHANGED <<draining, signal>>
    /\ UNCHANGED <<alive, release, active, activeTarget, task, mode, awaited, remote>>

-----------------------------------------------------------------------------
(* Exits and restarts. *)

\* The draining children tryFallbackToDrainingChild may take back.
Fallback == {i \in DOMAIN draining : alive[draining[i].child]}

\* The restart loop returns when the surplus child it stopped is gone.
AfterExit(c) ==
    IF task["restart"].step = "stopping" /\ task["restart"].child = c
    THEN [task EXCEPT !["restart"] = Done]
    ELSE task

\* The exit handler of c has something to do.
Noticed(c) == ~ IsStopping /\ signal[c] # "stop" /\ c = active

\* A child exits.  Before its listening line that is the start that fails.
Exits(c) ==
    /\ alive[c]
    /\ \A a \in Activities : task[a].step = "spawned" => task[a].child # c

\* The exit of a child the proxy does not use, or of one that was stopped.
ExitUnnoticed(c) ==
    /\ Exits(c)
    /\ ~ Noticed(c)
    /\ alive' = [alive EXCEPT ![c] = FALSE]
    /\ task' = AfterExit(c)
    /\ UNCHANGED <<signal, release, proxyVars, mode, awaited, remote>>

\* A mutant of ExitFallsBack that keeps the target of the child that exited.
ExitFallsBackKeepingTarget(c) ==
    /\ Exits(c) /\ Noticed(c)
    /\ Fallback # {}
    /\ \E i \in Fallback :
          /\ \A j \in Fallback : j <= i
          /\ active' = draining[i].child
          /\ draining' = RemoveAt(draining, i)
    /\ alive' = [alive EXCEPT ![c] = FALSE]
    /\ UNCHANGED <<signal, release, activeTarget, drainers, task, mode, awaited, remote>>

\* The active child exits and the youngest draining child that runs takes over.
ExitFallsBack(c) ==
    /\ Exits(c) /\ Noticed(c)
    /\ Fallback # {}
    /\ \E i \in Fallback :
          /\ \A j \in Fallback : j <= i
          /\ active' = draining[i].child
          /\ activeTarget' = draining[i].target
          /\ draining' = RemoveAt(draining, i)
    /\ alive' = [alive EXCEPT ![c] = FALSE]
    /\ UNCHANGED <<signal, release, drainers, task, mode, awaited, remote>>

\* The active child exits and nothing can take over: scheduleCrashRestart
\* starts its release again.
ExitRestarts(c) ==
    /\ Exits(c) /\ Noticed(c)
    /\ Fallback = {}
    /\ ~ IsRestarting
    /\ active' = None
    /\ \E d \in Children :
          /\ Fresh(d)
          /\ alive' = [alive EXCEPT ![c] = FALSE, ![d] = TRUE]
          /\ signal' = [signal EXCEPT ![d] = "none"]
          /\ release' = [release EXCEPT ![d] = release[c]]
          /\ task' = [task EXCEPT
                         !["restart"] = [step |-> "spawned", child |-> d,
                                         target |-> release[c]]]
    /\ UNCHANGED <<activeTarget, draining, drainers, mode, awaited, remote>>

\* ... or does nothing because a restart is already under way.
ExitWhileRestarting(c) ==
    /\ Exits(c) /\ Noticed(c)
    /\ Fallback = {}
    /\ IsRestarting
    /\ active' = None
    /\ alive' = [alive EXCEPT ![c] = FALSE]
    /\ UNCHANGED <<signal, release, activeTarget, draining, drainers, task, mode,
                   awaited, remote>>

\* The backoff is over: the next attempt starts without another look at active.
BackoffEnds ==
    /\ task["restart"].step = "backoff"
    /\ Spawn("restart", task["restart"].target)
    /\ UNCHANGED <<proxyVars, mode, awaited, remote>>

\* The restarted child is ready and takes over...
RestartSucceeds ==
    /\ Healthy("restart")
    /\ active = None
    /\ active' = task["restart"].child
    /\ activeTarget' = task["restart"].target
    /\ task' = [task EXCEPT !["restart"] = Done]
    /\ UNCHANGED <<processVars, draining, drainers, mode, awaited, remote>>

\* A mutant of RestartSurplus that drops the surplus child.
RestartSurplusDropped ==
    /\ Healthy("restart")
    /\ active # None
    /\ task' = [task EXCEPT !["restart"] = Done]
    /\ UNCHANGED <<processVars, proxyVars, mode, awaited, remote>>

\* ... or an update was faster, and the loop waits for the child to stop.
RestartSurplus ==
    LET c == task["restart"].child
    IN  /\ Healthy("restart")
        /\ active # None
        /\ StopChild(c)
        /\ task' = [task EXCEPT !["restart"] = IF alive[c] THEN [@ EXCEPT !.step = "stopping"]
                                                          ELSE Done]
        /\ UNCHANGED <<alive, release, proxyVars, mode, awaited, remote>>

-----------------------------------------------------------------------------
(* Stopping. *)

\* stop(): the children in use are stopped, a start under way is not.
BeginStop ==
    /\ mode = "running"
    /\ mode' = "stopping"
    /\ awaited' = {c \in DrainingChildren \cup ({active} \ {None}) : alive[c]}
    /\ signal' = [c \in Children |-> IF c \in awaited' THEN "stop" ELSE signal[c]]
    /\ draining' = <<>>
    /\ UNCHANGED <<alive, release, active, activeTarget, drainers, task, remote>>

EndStop ==
    /\ mode = "stopping"
    /\ \A c \in awaited : ~ alive[c]
    /\ mode' = "stopped"
    /\ awaited' = {}
    /\ UNCHANGED <<processVars, proxyVars, task, remote>>

-----------------------------------------------------------------------------
Starting ==
    \/ \E a \in Activities : PrintsUrl(a) \/ StartFails(a)
    \/ BootCompletes
    \/ PromoteChild
    \/ RestartSucceeds
    \/ RestartSurplus

Updating ==
    \/ BeginUpdateCheck
    \/ ReadRemoteRevision
    \/ StageRelease
    \/ UpdateFails

Exit(c) ==
    \/ ExitUnnoticed(c)
    \/ ExitFallsBack(c)
    \/ ExitRestarts(c)
    \/ ExitWhileRestarting(c)

Next ==
    \/ Starting
    \/ Push
    \/ Updating
    \/ \E r \in drainers : DrainEnds(r)
    \/ \E c \in Children : Exit(c)
    \/ BackoffEnds
    \/ BeginStop
    \/ EndStop

Spec == Init /\ [][Next]_vars

\* A start is bounded by its timeouts, a git or npm command by its own, a drain
\* by drainTimeoutMs, and the SIGKILL of ServeChild.stop is final.  Nothing else
\* is owed: children need not crash, print a line or obey a SIGTERM.
Fairness ==
    /\ \A a \in Activities : WF_vars(StartFails(a))
    /\ WF_vars(ReadRemoteRevision \/ UpdateFails)
    /\ \A r \in Record : WF_vars(DrainEnds(r))
    /\ \A c \in Children : WF_vars(signal[c] = "stop" /\ ExitUnnoticed(c))

FairSpec == Spec /\ Fairness

-----------------------------------------------------------------------------
(* What the supervisor promises. *)

\* The proxy never points at a child that has exited or that somebody is
\* stopping, although drains, fallbacks, updates and restarts overlap
\* (drainChild, tryFallbackToDrainingChild, restartFromTarget).  A cluster
\* may have exited before it becomes active (Healthy), and stays there.
ActiveChildServes ==
    ~ IsStopping /\ active # None => alive[active] /\ signal[active] = "none"

\* Every child that runs is in use, being started, or has been told to leave:
\* no overlap of an update, a fallback, a restart and stop() leaks a process.
NoChildLeaks ==
    \A c \in Children :
        alive[c] =>
            \/ c = active
            \/ c \in DrainingChildren
            \/ signal[c] # "none"
            \/ \E a \in Activities : task[a].child = c

\* activeTarget, which decides whether an update is due, is the release the
\* active child runs, whichever way the child became active.
ActiveTargetIsRunning ==
    active # None => release[active] = activeTarget

\* The supervisor repairs a crash it sees: while no child is active the restart
\* loop works.  The code keeps this promise unless the crash comes while the
\* loop is stopping a surplus child (see OutageBeingRepaired).
CrashStartsRepair ==
    [][~ IsStopping' /\ ProxyIsUp /\ active' = None =>
          \/ Repairing'
          \/ active # None /\ task["restart"].step = "stopping"
          \/ active = None /\ ~ Repairing]_vars

\* "restarts the active target with bounded backoff if no fallback child is
\* available" (documentation, cli/commands-and-runtime-params.md:114).
OutageBeingRepaired ==
    ~ IsStopping /\ ProxyIsUp /\ active = None => Repairing

\* Every update attempt ends, so that the next interval can be scheduled.
UpdateAttemptsEnd ==
    task["update"].step # "idle" ~> task["update"].step = "idle"

\* A child that was replaced, or started for nothing, exits, unless a fallback
\* makes it active again.
OldChildrenLeave ==
    \A c \in Children :
        alive[c] /\ (c \in DrainingChildren \/ signal[c] = "stop")
            ~> ~ alive[c] \/ c = active
=============================================================================
