----------------------------- MODULE JobRunner -----------------------------
(***************************************************************************)
(* The periodic jobs of the primaries (jobs/job_runner.js), which take the *)
(* lock of their name before each run, next to other users of the locks.   *)
(* A server is a process with a runner and a state system of its own: the  *)
(* supervisor starts the next one before it drains the one that serves.    *)
(*                                                                         *)
(*   starting[s]  calls of start() that have passed the check and wait     *)
(*                for the list of jobs                                     *)
(*   started[s]   the runner's flag                                        *)
(*   starts[s]    how often start() has made job states                    *)
(*   current[n]   the start whose job state is in jobStates                *)
(*   jobState[r]  the job state of job r[1] made by start number r[2]: its *)
(*                timer is armed, its run is under way, or neither         *)
(*                                                                         *)
(* A lock is the one of a job in a server.  The runner asks without        *)
(* waiting, in the process of the locks: from the timer to job.run() is    *)
(* one step.                                                               *)
(***************************************************************************)
EXTENDS StateLocks

CONSTANTS
    Servers, Jobs,
    Clients,      \* askers that are not a runner
    MaxStarts,    \* bound on the starts of a runner
    JobTtl        \* lockTtlMs of a schedule

JobStates == Names \X (1 .. MaxStarts)

ASSUME JobsAssumption ==
    /\ Names = Servers \X Jobs
    /\ MaxStarts \in Nat \ {0}
    /\ JobTtl \in 1 .. MaxTtl
    /\ Clients \cap JobStates = {}
    /\ Askers = Clients \cup JobStates

VARIABLES starting, started, starts, current, jobState

jobVars == <<starting, started, starts, current, jobState>>
vars    == <<lockVars, jobVars>>

\* The server of a job state, and its job.
ServerOf(r) == r[1][1]
JobOf(r)    == r[1][2]

\* The locks' types and those of the runners' own state.
JobsTypeOK ==
    /\ TypeOK
    /\ starting \in [Servers -> 0 .. MaxStarts]
    /\ started \in [Servers -> BOOLEAN]
    /\ starts \in [Servers -> 0 .. MaxStarts]
    /\ current \in [Names -> 0 .. MaxStarts]
    /\ jobState \in [JobStates -> {"absent", "armed", "running", "idle"}]

Init ==
    /\ LocksInit
    /\ starting = [s \in Servers |-> 0]
    /\ started = [s \in Servers |-> FALSE]
    /\ starts = [s \in Servers |-> 0]
    /\ current = [n \in Names |-> 0]
    /\ jobState = [r \in JobStates |-> "absent"]

---------------------------------------------------------------------------

\* start() up to its await: nothing keeps a second call out.
BeginStart(s) ==
    /\ ~started[s]
    /\ starts[s] + starting[s] < MaxStarts
    /\ starting' = [starting EXCEPT ![s] = @ + 1]
    /\ UNCHANGED <<lockVars, started, starts, current, jobState>>

\* start() once the jobs are loaded: new job states, up to a job that throws, for
\* the jobs that are enabled now.
FinishStart(s) ==
    /\ starting[s] > 0
    /\ starting' = [starting EXCEPT ![s] = @ - 1]
    /\ started' = [started EXCEPT ![s] = TRUE]
    /\ starts' = [starts EXCEPT ![s] = @ + 1]
    /\ \E enabled \in SUBSET Jobs :
        /\ current' = [n \in Names |->
                         IF n[1] = s /\ n[2] \in enabled THEN starts[s] + 1 ELSE current[n]]
        /\ jobState' = [r \in JobStates |->
                          IF ServerOf(r) = s /\ JobOf(r) \in enabled /\ r[2] = starts[s] + 1
                          THEN "armed" ELSE jobState[r]]
    /\ UNCHANGED lockVars

\* The jobs cannot be loaded: start() throws.
StartFails(s) ==
    /\ starting[s] > 0
    /\ starting' = [starting EXCEPT ![s] = @ - 1]
    /\ UNCHANGED <<lockVars, started, starts, current, jobState>>

\* stop(): the timers of the states in jobStates; a run under way goes on.
Stop(s) ==
    /\ started[s]
    /\ started' = [started EXCEPT ![s] = FALSE]
    /\ jobState' = [r \in JobStates |->
                      IF ServerOf(r) = s /\ current[r[1]] = r[2] /\ jobState[r] = "armed"
                      THEN "idle" ELSE jobState[r]]
    /\ UNCHANGED <<lockVars, starting, starts, current>>

\* What the finally block of runJob leaves behind.
Finished(r) == IF started[ServerOf(r)] THEN "armed" ELSE "idle"

\* A mutant of Skip whose early return makes no new timer.
SkipForGood(r) ==
    /\ jobState[r] = "armed"
    /\ jobState' = [jobState EXCEPT ![r] = "idle"]
    /\ UNCHANGED <<lockVars, starting, started, starts, current>>

\* A timer fires for nothing: the runner has stopped, the job is disabled or the
\* lock is taken.
Skip(r) ==
    /\ jobState[r] = "armed"
    /\ jobState' = [jobState EXCEPT ![r] = Finished(r)]
    /\ UNCHANGED <<lockVars, starting, started, starts, current>>

\* A mutant of BeginRun that runs whatever acquireLock answers.
BeginRunAnyway(r) ==
    /\ jobState[r] = "armed"
    /\ started[ServerOf(r)]
    /\ lock' = [lock EXCEPT ![r[1]] = [token |-> NewToken, left |-> JobTtl]]
    /\ lease' = [lease EXCEPT ![r] = Given(r[1], NewToken, JobTtl)]
    /\ UNCHANGED queue
    /\ jobState' = [jobState EXCEPT ![r] = "running"]
    /\ UNCHANGED <<exits, starting, started, starts, current>>

\* A timer fires, the lock is granted, the run begins.
BeginRun(r) ==
    /\ jobState[r] = "armed"
    /\ started[ServerOf(r)]
    /\ AcquireFree(r, r[1], JobTtl)
    /\ jobState' = [jobState EXCEPT ![r] = "running"]
    /\ UNCHANGED <<exits, starting, started, starts, current>>

\* The run returns or throws.
EndRun(r) ==
    /\ jobState[r] = "running"
    /\ ReleaseBy(r)
    /\ jobState' = [jobState EXCEPT ![r] = Finished(r)]
    /\ UNCHANGED <<exits, starting, started, starts, current>>

ClientStep(a) ==
    /\ \/ \E n \in Names : Acquire(a, n)
       \/ Receive(a)
       \/ Release(a)
       \/ Exit(a)
    /\ UNCHANGED jobVars

Time ==
    /\ Tick \/ \E n \in Names, a \in Askers \cup {None} : WaiterTimesOut(n, a)
    /\ UNCHANGED jobVars

Next ==
    \/ \E s \in Servers : BeginStart(s) \/ FinishStart(s) \/ StartFails(s) \/ Stop(s)
    \/ \E r \in JobStates : Skip(r) \/ BeginRun(r) \/ EndRun(r)
    \/ \E a \in Clients : ClientStep(a)
    \/ Time

Spec == Init /\ [][Next]_vars

\* Clocks run and due timers fire.
Fairness ==
    /\ WF_vars(Tick /\ UNCHANGED jobVars)
    /\ \A n \in Names, a \in Askers : WF_vars(WaiterTimesOut(n, a) /\ UNCHANGED jobVars)

FairSpec == Spec /\ Fairness

---------------------------------------------------------------------------
(* Properties.                                                             *)

\* Two runs of one job in one server are under way at once only if one of them has
\* outlived its lock, also when two calls of start() overlap or a stop() and start()
\* make a new job state while the old run goes on (job_runner.js runJob, start).
\* The documentation says more, "jobs do not overlap" and "long runs do not trigger
\* overlap" (docs/server/jobs-and-maintenance.md:45-46), which is not so: a run past
\* its TTL may overlap the one of a later start(), and two servers know nothing of
\* each other's locks.
RunsShareNoLease ==
    \A r, s \in JobStates :
        /\ r # s /\ r[1] = s[1]
        /\ jobState[r] = "running" /\ jobState[s] = "running"
        => \E t \in {r, s} : HasToken(t) /\ lease[t].left = 0

\* A job that was scheduled stays scheduled while the runner is started: a refused
\* lock, a disabled job, a failure and a stale release all end in a new timer
\* (job_runner.js runJob, finally).
ScheduledJobsStay ==
    \A n \in Names :
        LET s == n[1] IN
        started[s] /\ current[n] = starts[s] =>
            jobState[<<n, starts[s]>>] \in {"armed", "running"}
=============================================================================
